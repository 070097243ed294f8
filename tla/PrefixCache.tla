---------------------------- MODULE PrefixCache ----------------------------
(* The cache of the MLX runner that conversations share (x/mlxrunner/        *)
(* cache.go, cache_trie.go) and the pipelines that use it (pipeline.go,      *)
(* mtp.go).  One goroutine runs one request at a time: begin, prefill,       *)
(* decode, close.                                                            *)
(*                                                                           *)
(* A trie node is the sequence of tokens from the root to its end, so the    *)
(* trie is a set of sequences, the parent of a node is its longest proper    *)
(* prefix in the set and the active path is the chain of prefixes of its     *)
(* last node, frontier.  This stands for the code's tree as long as siblings *)
(* have no common prefix, which is part of PrefixTypeOK.                     *)
EXTENDS LayerCache

CONSTANTS
  Token,
  LayerSeq,          \* the kinds of the model's layers, in order
  Limits,            \* bounds a behaviour may have: the tokens of a prompt, of an
                     \* output and of a draft, and the number of requests
  PrefillChunk,      \* prefillChunkSize
  SnapshotInterval,  \* snapshotInterval
  PreThinking,       \* preThinking
  MaxPagedOut        \* maxPagedOutBytes

\* A slot's content, and a snapshot of slots.
Content == Seq(Token)

SnapshotSet ==
  [from : Nat, to : Nat, lo : Nat, idx : Nat, data : Seq(Content) \cup {Lazy}]

ASSUME PrefixAssumption ==
  /\ LayerSeq \in Seq({"kv", "rot", "rnn"}) \ {<<>>}
  /\ Limits \subseteq [prompt : Nat, output : Nat, draft : Nat, requests : Nat]
  /\ {Window, RotStep, PrefillChunk, SnapshotInterval} \subseteq Nat \ {0}
  /\ {PreThinking, MaxPagedOut} \subseteq Nat
  /\ Lazy \notin Seq(Content) /\ None \notin Nat /\ None \notin SnapshotSet

Layers == ToSet(LayerSeq)

VARIABLES
  cache,    \* kvCache: nodes, user, lastUsed, frontier, layer
  session,  \* cacheSession and the pipeline's progress
  phase,    \* "idle", "prefill" or "decode"
  left      \* the bounds of this behaviour, and how many requests are left

prefixVars == <<cache, session, phase, left>>

Root == <<>>

Texts(longest) == UNION {[1 .. n -> Token] : n \in 1 .. longest}

-----------------------------------------------------------------------------
(* The trie                                                                  *)

Ancestors(C, n) == {p \in C.nodes : IsPrefix(p, n)}

Longest(S) == CHOOSE p \in S : \A q \in S : Len(q) <= Len(p)

Parent(C, n) == Longest(Ancestors(C, n) \ {n})

Start(C, n) == IF n = Root THEN 0 ELSE Len(Parent(C, n))

Children(C, n) == {c \in C.nodes \ {Root} : IsStrictPrefix(n, c) /\ Parent(C, c) = n}

CommonLength(s, t) ==
  Cardinality({i \in 1 .. Least(Len(s), Len(t)) : SubSeq(s, 1, i) = SubSeq(t, 1, i)})

\* findBestMatch: how many tokens of w some path from the root matches, and the
\* last node of that path.
Matched(C, w) == Max({CommonLength(p, w) : p \in C.nodes})

MatchEnd(C, w) ==
  LET m == SubSeq(w, 1, Matched(C, w))
      over == {p \in C.nodes : IsPrefix(m, p)}
  IN CHOOSE p \in over : \A q \in over : Len(p) <= Len(q)

HasAllSnapshots(C, n) == \A k \in Layers : n \in DOMAIN C.layer[k].snap

HasSnapshots(C, n) == \E k \in Layers : n \in DOMAIN C.layer[k].snap

PagedOut(C) == SumFunction([k \in Layers |-> C.layer[k].bytes])

MinOffset(C) == Min({C.layer[k].off : k \in Layers})

EachLayer(C, F(_, _)) == [C EXCEPT !.layer = [k \in Layers |-> F(k, @[k])]]

\* Replace the snapshots of node n by those of snaps (a function of layers).
SetSnapshots(C, n, snaps) == EachLayer(C, LAMBDA k, L : SetSnapshot(L, n, snaps[k]))

NoSnapshots == [k \in Layers |-> None]

\* mergeWithChild
MergeWithChild(C, n, c) ==
  LET merged == [k \in Layers |->
                   Merge(k, C.layer[k], At(C.layer[k].snap, n), At(C.layer[k].snap, c))]
      joined == EachLayer(C, LAMBDA k, L :
                  Merged(k, L, At(L.snap, n), At(L.snap, c)))
      bare == SetSnapshots(SetSnapshots(joined, n, NoSnapshots), c, NoSnapshots)
      used == Max({C.lastUsed[n], C.lastUsed[c]})
  IN [SetSnapshots(bare, c, merged) EXCEPT
        !.nodes = @ \ {n}, !.user = @ \ {n},
        !.lastUsed = With(Without(@, {n}), c, used)]

\* evictNode
EvictNode(C, n) ==
  IF Children(C, n) = {}
  THEN [SetSnapshots(C, n, NoSnapshots) EXCEPT
          !.nodes = @ \ {n}, !.user = @ \ {n}, !.lastUsed = Without(@, {n})]
  ELSE MergeWithChild(C, n, CHOOSE c \in Children(C, n) : TRUE)

NodeBytes(C, n) == SumFunction([k \in Layers |-> Size(At(C.layer[k].snap, n))])

Evictable(C) ==
  {n \in C.nodes : ~IsPrefix(n, C.frontier) /\ Cardinality(Children(C, n)) <= 1}

\* Oldest, then deepest, then largest.
EvictsBefore(C, n, m) ==
  \/ C.lastUsed[n] < C.lastUsed[m]
  \/ /\ C.lastUsed[n] = C.lastUsed[m]
     /\ \/ Len(n) > Len(m)
        \/ Len(n) = Len(m) /\ NodeBytes(C, n) >= NodeBytes(C, m)

EvictOne(C) ==
  IF PagedOut(C) <= MaxPagedOut \/ Evictable(C) = {} THEN C
  ELSE EvictNode(C, CHOOSE n \in Evictable(C) : \A m \in Evictable(C) : EvictsBefore(C, n, m))

\* enforceEvictionPolicy: every round removes a node.
EnforceEvictionPolicy(C) ==
  LET round[i \in 0 .. Cardinality(C.nodes)] ==
        IF i = 0 THEN C ELSE EvictOne(round[i - 1])
  IN round[Cardinality(C.nodes)]

\* splitNode: a new node at m, inside the edge of node n.
SplitNode(C, n, m) ==
  LET halves == [k \in Layers |-> Split(k, C.layer[k], At(C.layer[k].snap, n), Len(m))]
      bare == SetSnapshots(C, n, NoSnapshots)
      upper == SetSnapshots(bare, m, [k \in Layers |-> halves[k][1]])
  IN [SetSnapshots(upper, n, [k \in Layers |-> halves[k][2]]) EXCEPT
        !.nodes = @ \cup {m}, !.lastUsed = With(@, m, C.lastUsed[n])]

\* appendTokens: extend the leaf n to w, or give it a child w.
AppendTokens(C, n, w) ==
  IF n = Root \/ Children(C, n) # {} \/ HasSnapshots(C, n)
  THEN [C EXCEPT !.nodes = @ \cup {w}, !.lastUsed = With(@, w, C.lastUsed[n])]
  ELSE [C EXCEPT !.nodes = (@ \ {n}) \cup {w},
                 !.user = IF n \in @ THEN (@ \ {n}) \cup {w} ELSE @,
                 !.lastUsed = With(Without(@, {n}), w, C.lastUsed[n])]

\* Mutant: an edge that w leaves half way is not split.
AdvancePathUnsplit(C, w) ==
  LET p == Longest(Ancestors(C, w))
  IN [(IF p = w THEN C ELSE AppendTokens(C, p, w)) EXCEPT !.frontier = w]

\* advancePath: make w the frontier.
AdvancePath(C, w) ==
  LET m == SubSeq(w, 1, Matched(C, w))
      S == IF m \in C.nodes THEN C ELSE SplitNode(C, MatchEnd(C, w), m)
      D == IF m # w /\ Children(S, m) = {} /\ m \notin S.user
           THEN SetSnapshots(S, m, NoSnapshots) ELSE S
  IN [(IF m = w THEN S ELSE AppendTokens(D, m, w)) EXCEPT !.frontier = w]

-----------------------------------------------------------------------------
(* switchToPath                                                              *)

\* Page out the leaf of the old path.
PageOut(C, end, matched) ==
  IF /\ ~IsPrefix(C.frontier, end) \/ matched < Len(C.frontier)
     /\ ~HasAllSnapshots(C, C.frontier)
  THEN LET from == Start(C, C.frontier)
       IN SetSnapshots(C, C.frontier, [k \in Layers |-> Snapshot(k, C.layer[k], from)])
  ELSE C

\* Rewind every layer to the common ancestor, or free it.
Rewind(C, target) ==
  EachLayer(C, LAMBDA k, L : IF CanRestore(k, L, None, target)
                             THEN Restore(k, L, None, target) ELSE Free(k, L))

\* Restore the layers from the snapshots of the nodes on the new path (a prefix
\* of its end that is no node has none); the first failure ends it.
PageInOne(A, step, matched) ==
  LET k == step.layer
      L == A.c.layer[k]
      s == At(L.snap, step.node)
      target == Least(Len(step.node), matched)
  IN IF A.stop \/ s = None \/ L.off >= target THEN A
     ELSE IF ~CanRestore(k, L, s, target) THEN [A EXCEPT !.stop = TRUE]
     ELSE [A EXCEPT !.c.layer[k] = Restore(k, L, s, target)]

PageIn(C, end, matched) ==
  LET width == Len(LayerSeq)
      step(i) == [node |-> SubSeq(end, 1, (i - 1) \div width + 1),
                  layer |-> LayerSeq[1 + ((i - 1) % width)]]
      after[i \in 0 .. Len(end) * width] ==
        IF i = 0 THEN [c |-> C, stop |-> FALSE]
        ELSE PageInOne(after[i - 1], step(i), matched)
  IN after[Len(end) * width].c

\* Bring every layer to the smallest offset, or free them all; the path is cut
\* back to that offset, not to what is left of the layers.
Align(C, end) ==
  LET min == MinOffset(C)
      stuck == \E k \in Layers : /\ C.layer[k].off # min
                                 /\ ~CanRestore(k, C.layer[k], None, min)
      path == Longest({p \in Ancestors(C, end) : Len(p) <= min})
      aligned == IF stuck
                 THEN EachLayer(C, LAMBDA k, L : [Free(k, L) EXCEPT !.spoiled = @ \/ path # Root])
                 ELSE EachLayer(C, LAMBDA k, L : IF L.off = min THEN L
                                                 ELSE Restore(k, L, None, min))
  IN [aligned EXCEPT !.frontier = path]

\* lastUsed = time.Now(): later than that of every other node.
Touched(C) ==
  [C EXCEPT !.lastUsed[C.frontier] =
    1 + Max({0} \cup {C.lastUsed[n] : n \in C.nodes \ {C.frontier}})]

SwitchToPath(C, end, matched) ==
  LET common == Len(Longest(Ancestors(C, C.frontier) \cap Ancestors(C, end)))
      paged == PageIn(Rewind(PageOut(C, end, matched), Least(common, matched)), end, matched)
  IN EnforceEvictionPolicy(Touched(Align(paged, end)))

-----------------------------------------------------------------------------
(* The operations of a session                                               *)

Stored == session.inputs \o session.outputs

\* How many tokens of the conversation the live caches hold.
Cached == MinOffset(cache)

\* The restore points a pipeline asks for.
Wanted(inputs) ==
  {o \in 1 .. Len(inputs) - 1 : o % SnapshotInterval = 0}
    \cup ({Len(inputs) - PreThinking} \ {0})

\* schedulePrefillSnapshots and scheduleSpeculation.
Scheduled(C, offsets) ==
  IF offsets = {} THEN C ELSE EachLayer(C, LAMBDA k, L : PrepareSnapshots(k, L, offsets))

\* begin, and the pipeline's request for restore points ahead.
Begin(inputs) ==
  LET full == Matched(cache, inputs)
      used == IF full = Len(inputs) /\ full > 0 THEN SubSeq(inputs, 1, full - 1) ELSE inputs
      matched == Matched(cache, used)
  IN /\ phase = "idle" /\ left.requests > 0
     /\ \E C \in {SwitchToPath(cache, MatchEnd(cache, used), matched)} :
          LET prefix == MinOffset(C)
              user == {o \in Wanted(inputs) : o > prefix}
              pending == user \cup (IF prefix < matched THEN {matched} ELSE {})
          IN /\ cache' = Scheduled(C, pending)
             /\ session' = [inputs |-> inputs, outputs |-> <<>>, pending |-> pending,
                            user |-> user]
     /\ phase' = "prefill"
     /\ left' = [left EXCEPT !.requests = @ - 1]

\* A forward over the last n tokens of w.
Forwarded(C, w, n) == EachLayer(C, LAMBDA k, L : Forward(k, L, w, n))

Left == Len(session.inputs) - Cached

\* One round of the prefill loop, which leaves one token for decoding.
Prefill ==
  /\ phase = "prefill" /\ Left > 1
  /\ LET n == Least(PrefillChunk, Left - 1)
     IN cache' = Forwarded(cache, SubSeq(session.inputs, 1, Cached + n), n)
  /\ UNCHANGED <<session, phase, left>>

\* attachPrefillSnapshots, for one scheduled offset.
Attach(C, o, rows) ==
  LET A == IF Len(C.frontier) < o THEN AdvancePath(C, SubSeq(session.inputs, 1, o)) ELSE C
      U == IF o \in session.user THEN [A EXCEPT !.user = @ \cup {A.frontier}] ELSE A
  IN EnforceEvictionPolicy(Touched(SetSnapshots(U, U.frontier, [k \in Layers |-> At(rows[k], o)])))

Attached ==
  LET rows == [k \in Layers |-> cache.layer[k].taken]
      upto[o \in 0 .. Cached] ==
        IF o = 0 THEN EachLayer(cache, LAMBDA k, L : Drained(L))
        ELSE IF o \in session.pending THEN Attach(upto[o - 1], o, rows) ELSE upto[o - 1]
  IN upto[Cached]

\* The end of the prefill and the step that seeds decoding with the last token.
StartDecode ==
  /\ phase = "prefill" /\ Left = 1
  /\ cache' = Forwarded(Attached, session.inputs, 1)
  /\ session' = [session EXCEPT !.pending = {}, !.user = {}]
  /\ phase' = "decode"
  /\ UNCHANGED left

\* A step of the decode loop: the sampled token is written and recorded.
Decode(t) ==
  /\ phase = "decode" /\ Len(session.outputs) < left.output
  /\ cache' = Forwarded(cache, Append(Stored, t), 1)
  /\ session' = [session EXCEPT !.outputs = Append(@, t)]
  /\ UNCHANGED <<phase, left>>

\* commitSpeculation on one layer: keep the first accepted of the drafts.
Committed(k, L, accepted, drafted, before) ==
  LET target == before + accepted
      kept == [L EXCEPT !.taken = Restrict(@, DOMAIN @ \cap {target})]
      rolled == IF accepted = drafted THEN L
                ELSE IF CanRestore(k, kept, None, target) THEN Restore(k, kept, None, target)
                ELSE Restore(k, kept, At(kept.taken, target), target)
  IN Drained(rolled)

\* Drafted tokens are written in one forward and those that the model does not
\* confirm are taken back.
Speculate(drafts, accepted) ==
  LET before == Cached
      offsets == before .. before + Len(drafts) - 1
  IN /\ phase = "decode" /\ session.outputs # <<>>
     /\ Len(session.outputs) + Len(drafts) <= left.output
     /\ \E written \in {Forwarded(Scheduled(cache, offsets), Stored \o drafts, Len(drafts))} :
          cache' = EachLayer(written,
                     LAMBDA k, L : Committed(k, L, accepted, Len(drafts), before))
     /\ session' = [session EXCEPT !.outputs = @ \o SubSeq(drafts, 1, accepted)]
     /\ UNCHANGED <<phase, left>>

\* discardPrefillSnapshots: what was scheduled and not attached is dropped.
Discarded ==
  IF session.pending = {} THEN cache ELSE EachLayer(cache, LAMBDA k, L : Drained(L))

\* close: the pipeline has ended, or its context is done before a round of the
\* prefill loop or at any step of the decode loop.
Close ==
  /\ phase = "decode" \/ (phase = "prefill" /\ Left > 1)
  /\ LET C == Discarded
         off == MinOffset(C)
         D == IF off > Len(C.frontier) THEN AdvancePath(C, SubSeq(Stored, 1, off)) ELSE C
     IN cache' = IF off = 0 THEN C ELSE Touched(D)
  /\ phase' = "idle"
  /\ session' = [inputs |-> <<>>, outputs |-> <<>>, pending |-> {}, user |-> {}]
  /\ UNCHANGED left

-----------------------------------------------------------------------------
PrefixInit ==
  /\ cache = [nodes |-> {Root}, user |-> {}, lastUsed |-> [n \in {Root} |-> 0], frontier |-> Root,
              layer |-> [k \in Layers |-> NewLayer]]
  /\ session = [inputs |-> <<>>, outputs |-> <<>>, pending |-> {}, user |-> {}]
  /\ phase = "idle"
  /\ left \in Limits

PrefixNext ==
  \/ \E inputs \in Texts(left.prompt) : Begin(inputs)
  \/ Prefill
  \/ StartDecode
  \/ \E t \in Token : Decode(t)
  \/ \E drafts \in Texts(left.draft) : \E accepted \in 0 .. Len(drafts) :
       Speculate(drafts, accepted)
  \/ Close

PrefixSpec == PrefixInit /\ [][PrefixNext]_prefixVars

=============================================================================
