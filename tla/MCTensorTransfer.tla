-------------------------- MODULE MCTensorTransfer --------------------------
(* Small instances of the transfer of tensor layers for TLC.                 *)
EXTENDS TensorTransferProps

CONSTANTS j1, j2, b1, b2

Pull(layers) == [kind |-> "pull", layers |-> layers]
Push(layers) == [kind |-> "push", layers |-> layers]
Nothing == Push({})

Load(jobs, most) == [jobs |-> jobs, faults |-> most]

\* A pull of one blob or two, a push of one or two, or two pulls that share one.
Each ==
  LET Alone(one) == [j \in Jobs |-> IF j = j1 THEN one ELSE Nothing] IN
  {Load(Alone(one), 2) : one \in {Pull({b1}), Pull({b2}), Pull({b1, b2}), Push({b1})}}
  \cup {Load(Alone(Push({b1, b2})), 1)}
  \cup {Load([j \in Jobs |-> Pull({b})], 1) : b \in {b1, b2}}

=============================================================================
