---------------------------- MODULE MCAgentUpdate ----------------------------
(* Small instances of the agent for TLC.                                     *)
EXTENDS AgentUpdateProps

ActsAndFaults == {[acts |-> 3, faults |-> 1], [acts |-> 2, faults |-> 2]}

=============================================================================
