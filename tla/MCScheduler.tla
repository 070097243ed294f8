----------------------------- MODULE MCScheduler -----------------------------
(* Small instances of the scheduler for TLC: what the requests ask for.    *)
EXTENDS SchedulerProps, TLC

RequestSymmetry == Permutations(Requests)

AnyWorkload == [Requests -> [key : Keys, keep : KeepAlives \cup {None}]]

DefaultOnly == {w \in AnyWorkload : \A r \in Requests : w[r].keep = None}

\* Each request is for a model of its own.
OwnModels ==
  {w \in DefaultOnly : \A r, s \in Requests : r # s => w[r].key # w[s].key}

Key1 == CHOOSE k \in Keys : TRUE
Key2 == CHOOSE k \in Keys \ {Key1} : TRUE

\* All requests but one are for the first model.
TwoAndOne ==
  {w \in DefaultOnly : Cardinality({r \in Requests : w[r].key = Key2}) = 1}

=============================================================================
