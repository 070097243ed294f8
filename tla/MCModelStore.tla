----------------------------- MODULE MCModelStore -----------------------------
(* Two names, the layers of two models that share their weights, and a       *)
(* template that a create may replace.                                       *)
EXTENDS ModelStoreProps, TLC

CONSTANTS m1, m2, weights, config1, config2, template1, template2

MCConfig == {config1, config2}
MCTemplate == {template1, template2}
MCPublished == {{weights, template1, config1}}
MCMade == {{config2, template2}}
MCSymmetry == Permutations(Names) \cup Permutations(Requests)

=============================================================================
