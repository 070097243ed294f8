------------------------------ MODULE MCPrefix ------------------------------
(* A small model for TLC: one layer of each kind.                            *)
EXTENDS PrefixCacheProps, TLC

TokenSymmetry == Permutations(Token)

OneOfEach == <<"kv", "rot", "rnn">>

\* Three requests that mostly share and leave prefixes, or two that generate.
ReuseAndSpeculate ==
  {[prompt |-> 3, output |-> 1, draft |-> 0, requests |-> 3],
   [prompt |-> 3, output |-> 3, draft |-> 2, requests |-> 2]}

=============================================================================
