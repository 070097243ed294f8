---------------------------- MODULE MCLlamaServer ----------------------------
(* Small instances of one runner for TLC.                                    *)
EXTENDS LlamaServerProps, TLC

\* Processes that print and are not closed, one that prints and is closed
\* while it loads, and one that serves and is closed,
\* by its requests as well.
PrintCloseServe ==
  {[lines |-> 2, flaps |-> 0, requests |-> 0, closes |-> 0],
   [lines |-> 1, flaps |-> 0, requests |-> 0, closes |-> 1],
   [lines |-> 0, flaps |-> 1, requests |-> 2, closes |-> 1]}

=============================================================================
