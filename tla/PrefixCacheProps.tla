-------------------------- MODULE PrefixCacheProps --------------------------
(* What must hold of the MLX runner's shared cache.                          *)
EXTENDS PrefixCache

\* A lazy snapshot has been overwritten, against what Restore says of them
\* (kvcache.go:246-249), eviction has joined two snapshots that overlap, against
\* what is said of the edges (cache.go:329-331), or the layers were freed while
\* the path to them was kept (cache.go:225-250); from then on the code promises
\* nothing.
Spoiled == \E k \in Layers : cache.layer[k].spoiled

\* The conversation the layers should hold.
Conv == IF phase = "idle" THEN cache.frontier ELSE SubSeq(Stored, 1, Cached)

AllHold ==
  \A k \in Layers : /\ cache.layer[k].off = Len(Conv)
                    /\ Holds(k, cache.layer[k], Conv)

\* The type invariant: the trie holds the chain from the root to the frontier,
\* which stands for activePath, sibling edges do not share a first token, and no
\* schedule outlives its prefill, for which PrepareSnapshots would panic
\* (cache.go:13, cache/cache.go:79).
PrefixTypeOK ==
  /\ cache.nodes \subseteq Seq(Token) /\ Root \in cache.nodes
  /\ \A p, q \in cache.nodes : SubSeq(p, 1, CommonLength(p, q)) \in cache.nodes
  /\ cache.frontier \in cache.nodes /\ cache.user \subseteq cache.nodes
  /\ DOMAIN cache.lastUsed = cache.nodes
  /\ \A k \in Layers : DOMAIN cache.layer[k].snap \subseteq cache.nodes \ {Root}
  /\ phase \in {"idle", "prefill", "decode"}
  /\ session.pending \subseteq 1 .. left.prompt /\ session.user \subseteq session.pending
  /\ phase # "prefill" =>
       \A k \in Layers : cache.layer[k].due = {} /\ cache.layer[k].taken = <<>>

\* What the layers hold, as a conversation; <<None>> if it is not one.
Abstract == INSTANCE Conversation WITH
  live <- IF AllHold THEN Conv ELSE <<None>>,
  prompt <- session.inputs,
  stage <- phase,
  broken <- Spoiled

\* Reuse, paging, splitting, merging, eviction and speculation are invisible:
\* the layers of every kind always hold exactly the beginning of the current
\* conversation (cache.go:3-16).
ImplementsConversation == Abstract!ConversationSpec

\* Every snapshot on a node covers that node's edge and holds what a restore
\* to the end of the node must bring back (cache_trie.go:10-21).
SnapshotsMatchNodes ==
  Spoiled \/
  \A k \in Layers : \A n \in DOMAIN cache.layer[k].snap :
    SnapshotHolds(k, cache.layer[k], cache.layer[k].snap[n], n)

\* pagedOutBytes is the sum of what the snapshots on the trie own, however
\* they were captured, copied out, split, merged, replaced or evicted
\* (cache_trie.go:45-74).
PagedOutBytesExact ==
  \A k \in Layers :
    LET L == cache.layer[k]
    IN L.bytes = SumFunction([n \in DOMAIN L.snap |-> Size(L.snap[n])])

=============================================================================
