----------------------------- MODULE LayerCache -----------------------------
(* The per-layer caches of the MLX runner (x/mlxrunner/cache): KVCache       *)
(* ("kv", an append-only buffer), RotatingKVCache ("rot", a window of the    *)
(* last Window tokens) and RecurrentCache ("rnn", one state that accumulates *)
(* the tokens).                                                              *)
(*                                                                           *)
(* What the model computes for a token depends on every token before it, so  *)
(* the content of a slot is the sequence of tokens it was computed from: a   *)
(* slot for position p is right for a conversation iff it is the first p + 1 *)
(* tokens of that conversation.  <<>> is the content of a slot of zeros.     *)
(*                                                                           *)
(* A layer keeps, besides its arrays, the snapshots taken from it: those on  *)
(* nodes of the trie (snap, by node) and those captured during the current   *)
(* schedule (taken, by offset).  A snapshot is lazy while its data is still  *)
(* a range of slots of the live buffer.  bytes is the layer's share of       *)
(* kvCache.pagedOutBytes, with one byte for the arrays of one slot.          *)
(* spoiled is not in the code: an append has overwritten slots that a lazy   *)
(* snapshot names, a merge has joined snapshots that overlap, or the layers  *)
(* were all freed under a path that was kept.                                *)
EXTENDS Integers, SequencesExt, FiniteSetsExt, Functions

CONSTANTS
  Window,   \* RotatingKVCache.maxSize
  RotStep,  \* RotatingKVCache.step: slots added when the buffer grows
  Lazy,     \* the data of a lazy snapshot
  None

At(f, k) == IF k \in DOMAIN f THEN f[k] ELSE None

Without(f, K) == Restrict(f, DOMAIN f \ K)

With(f, k, v) ==
  IF v = None THEN Without(f, {k})
  ELSE [x \in DOMAIN f \cup {k} |-> IF x = k THEN v ELSE f[x]]

Least(a, b) == IF a <= b THEN a ELSE b

NewLayer ==
  [off |-> 0, buf |-> <<>>, idx |-> 0, rewound |-> FALSE, snap |-> <<>>,
   due |-> {}, base |-> 0, taken |-> <<>>, bytes |-> 0, spoiled |-> FALSE]

-----------------------------------------------------------------------------
(* Snapshots                                                                 *)

\* from, to: the offsets covered; lo: the first slot while lazy; idx: the
\* write position a restore installs.
LazySnapshot(from, to, lo, idx) ==
  [from |-> from, to |-> to, lo |-> lo, idx |-> idx, data |-> Lazy]

OwnedSnapshot(from, to, idx, data) ==
  [from |-> from, to |-> to, lo |-> 0, idx |-> idx, data |-> data]

IsLazy(s) == s.data = Lazy

Size(s) == IF s = None \/ s.data = Lazy THEN 0 ELSE Len(s.data)

\* The slots of L that a lazy snapshot names, or the arrays it owns.
Data(L, s) ==
  IF IsLazy(s) THEN SubSeq(L.buf, s.lo + 1, s.lo + s.to - s.from) ELSE s.data

CopiedOut(L, s) == IF IsLazy(s) THEN [s EXCEPT !.data = Data(L, s), !.lo = 0] ELSE s

\* lazySnapshots: those that still name slots of the buffer.
LazySnapshots(L) == {s \in Range(L.snap) \cup Range(L.taken) : IsLazy(s)}

\* copyOut on the lazy snapshots S; the bytes of those on the trie are counted
\* through their hook.
CopyOut(L, S) ==
  LET nodes == {n \in DOMAIN L.snap : L.snap[n] \in S}
  IN [L EXCEPT
       !.snap = [n \in DOMAIN @ |-> IF @[n] \in S THEN CopiedOut(L, @[n]) ELSE @[n]],
       !.taken = [o \in DOMAIN @ |-> IF @[o] \in S THEN CopiedOut(L, @[o]) ELSE @[o]],
       !.bytes = @ + SumFunction([n \in nodes |-> Len(Data(L, L.snap[n]))])]

CopyOutAll(L) == CopyOut(L, LazySnapshots(L))

\* Mutant: the bytes of the replaced snapshot stay counted.
SetSnapshotUncounted(L, n, s) ==
  [L EXCEPT !.snap = With(@, n, s), !.bytes = @ + Size(s)]

SetSnapshot(L, n, s) ==
  [L EXCEPT !.snap = With(@, n, s), !.bytes = @ - Size(At(L.snap, n)) + Size(s)]

-----------------------------------------------------------------------------
(* KVCache                                                                   *)

KVAppend(L, data) ==
  LET to == L.off + Len(data)
      Overlaps(s) == s.from < to /\ s.to > L.off
      C == IF L.rewound THEN CopyOut(L, {s \in LazySnapshots(L) : Overlaps(s)}) ELSE L
      len == Max({Len(L.buf), to})
  IN [C EXCEPT
       !.buf = [i \in 1 .. len |-> IF i \in L.off + 1 .. to THEN data[i - L.off]
                                                            ELSE L.buf[i]],
       !.off = to,
       !.rewound = FALSE,
       !.spoiled = @ \/ \E s \in LazySnapshots(C) : Overlaps(s)]

KVSnapshot(L, from, to) ==
  IF L.buf = <<>> \/ to <= from THEN None ELSE LazySnapshot(from, to, from, 0)

KVCanRestore(L, s, target) ==
  IF s = None THEN target <= L.off ELSE target <= s.to /\ L.off >= s.from

KVRestore(L, s, target) ==
  IF s = None \/ (s # None /\ IsLazy(s))
  THEN [L EXCEPT !.off = target, !.rewound = TRUE]
  ELSE LET A == KVAppend([L EXCEPT !.off = s.from, !.rewound = TRUE], s.data)
       IN [A EXCEPT !.off = Least(target, A.off)]

\* Merge and Split on the snapshots of adjacent edges.
KVMerge(L, p, c) ==
  IF p = None \/ c = None THEN None
  ELSE IF IsLazy(p) /\ IsLazy(c) /\ p.to = c.from
  THEN LazySnapshot(p.from, c.to, p.from, 0)
  ELSE OwnedSnapshot(p.from, c.to, 0, Data(L, p) \o Data(L, c))

\* The edges of a node and its child are adjacent; what they keep may not be.
Overlap(p, c) == p # None /\ c # None /\ p.to # c.from

KVSplit(L, s, at) ==
  CASE s = None -> <<None, None>>
    [] s # None /\ at <= s.from -> <<None, s>>
    [] s # None /\ at > s.from /\ at >= s.to -> <<s, None>>
    [] OTHER ->
       IF IsLazy(s)
       THEN <<LazySnapshot(s.from, at, s.from, 0), LazySnapshot(at, s.to, at, 0)>>
       ELSE LET kept == SubSeq(s.data, 1, Least(Len(s.data), s.to - s.from))
                upper == Least(at - s.from, Len(kept))
            IN <<OwnedSnapshot(s.from, at, 0, SubSeq(kept, 1, upper)),
                 OwnedSnapshot(at, s.to, 0, SubSeq(kept, upper + 1, Len(kept)))>>

-----------------------------------------------------------------------------
(* RotatingKVCache                                                           *)

\* Several tokens at once: the window is put in order, trimmed and extended.
RotConcat(L0, data) ==
  LET L == CopyOutAll(L0)
      K == Len(L.buf)
      B == IF L.idx >= K THEN L.buf
           ELSE IF L.off <= Window THEN SubSeq(L.buf, 1, L.idx)
           ELSE SubSeq(L.buf, L.idx + 1, K) \o SubSeq(L.buf, 1, L.idx)
      trim == Max({0, Len(B) - Window + 1})
      N == SubSeq(B, trim + 1, Len(B)) \o data
  IN [L EXCEPT !.buf = N, !.off = @ + Len(data), !.idx = Len(N)]

\* One token: the buffer grows up to the window and then wraps.
RotUpdate(L0, slot) ==
  LET L == CopyOutAll(L0)
      grows == L.buf = <<>> \/ (L.off >= Len(L.buf) /\ Len(L.buf) < Window)
      G == IF grows
           THEN L.buf \o [i \in 1 .. Least(RotStep, Window - L.off) |-> <<>>]
           ELSE L.buf
      T == IF Len(G) > Window THEN SubSeq(G, Len(G) - Window + 1, Len(G)) ELSE G
      at == IF Len(G) > Window THEN Window ELSE IF grows THEN L.off ELSE L.idx
      i == IF at >= Window THEN 0 ELSE at
  IN [L EXCEPT !.buf = [T EXCEPT ![i + 1] = slot], !.off = @ + 1, !.idx = i + 1]

RotAppend(L, data) == IF Len(data) > 1 THEN RotConcat(L, data) ELSE RotUpdate(L, data[1])

\* State(): what a snapshot clones.
RotState(L) == SubSeq(L.buf, 1, Least(L.off, Len(L.buf)))

RotSnapshot(L, from) ==
  IF L.buf = <<>> \/ L.off <= from THEN None
  ELSE OwnedSnapshot(from, L.off, L.idx, RotState(L))

RotLazySnapshot(L, o) ==
  LET live == Least(o, Window)
  IN LazySnapshot(o - live, o, o - live - (L.off - Len(L.buf)), live)

\* Mutant: rewinds although the window has wrapped.
RotCanAlwaysRewind(L, s, target) ==
  IF s = None THEN target <= L.off ELSE target <= s.to

RotCanRestore(L, s, target) ==
  IF s = None THEN target = L.off \/ (target < L.off /\ L.off <= Window)
  ELSE target <= s.to /\ ~(target < s.to /\ s.to > Window)

RotRestore(L, s, target) ==
  IF s = None
  THEN IF target = L.off THEN L ELSE [L EXCEPT !.off = target, !.idx = target]
  ELSE
  LET others == IF IsLazy(s)
                THEN LET C == CopyOut(L, LazySnapshots(L) \ {s})
                         D == [n \in DOMAIN C.snap |->
                                 IF C.snap[n] = s THEN [s EXCEPT !.lo = 0] ELSE C.snap[n]]
                     IN [C EXCEPT !.snap = D]
                ELSE CopyOutAll(L)
      R == [others EXCEPT !.buf = Data(L, s), !.off = s.to, !.idx = s.idx]
  IN IF target < s.to THEN [R EXCEPT !.off = target, !.idx = target] ELSE R

-----------------------------------------------------------------------------
(* RecurrentCache: buf holds the state, or nothing before the first forward. *)

RnnState(L) == IF L.buf = <<>> THEN <<>> ELSE L.buf[1]

RnnSnapshot(state, o) == OwnedSnapshot(0, o, 0, <<state>>)

RnnCurrent(L) == IF L.buf = <<>> THEN None ELSE RnnSnapshot(L.buf[1], L.off)

RnnCanRestore(L, s, target) ==
  IF s = None THEN target = L.off ELSE target = s.to

RnnRestore(L, s, target) ==
  IF s = None THEN L ELSE [L EXCEPT !.buf = s.data, !.off = s.to]

-----------------------------------------------------------------------------
(* The Cache interface, for a layer L of kind k.                             *)

Snapshot(k, L, from) ==
  CASE k = "kv" -> KVSnapshot(L, from, L.off)
    [] k = "rot" -> RotSnapshot(L, from)
    [] k = "rnn" -> RnnCurrent(L)

CanRestore(k, L, s, target) ==
  CASE k = "kv" -> KVCanRestore(L, s, target)
    [] k = "rot" -> RotCanRestore(L, s, target)
    [] k = "rnn" -> RnnCanRestore(L, s, target)

Restore(k, L, s, target) ==
  CASE k = "kv" -> KVRestore(L, s, target)
    [] k = "rot" -> RotRestore(L, s, target)
    [] k = "rnn" -> RnnRestore(L, s, target)

\* Mutant: the parent's snapshot survives.
MergeKeepingParent(k, L, p, c) == IF k = "kv" THEN KVMerge(L, p, c) ELSE p

\* For the other two kinds the child supersedes the parent.
Merge(k, L, p, c) == IF k = "kv" THEN KVMerge(L, p, c) ELSE c

Merged(k, L, p, c) ==
  IF k = "kv" THEN [L EXCEPT !.spoiled = @ \/ Overlap(p, c)] ELSE L

Split(k, L, s, at) == IF k = "kv" THEN KVSplit(L, s, at) ELSE <<None, s>>

Free(k, L) ==
  [CopyOutAll(L) EXCEPT !.buf = <<>>, !.off = 0, !.idx = 0, !.rewound = FALSE,
                        !.due = {}, !.taken = <<>>]

-----------------------------------------------------------------------------
(* Snapshots scheduled at offsets that later writes cross.                   *)

\* The previous boundary: where a capture at o starts.
CaptureFrom(L, o) == Max({L.base} \cup {d \in L.due : d < o})

Capture(L, o, s) ==
  IF o \in L.due /\ o \notin DOMAIN L.taken THEN [L EXCEPT !.taken = With(@, o, s)] ELSE L

PrepareSnapshots(k, L, offsets) ==
  LET P == [L EXCEPT !.due = offsets, !.base = L.off, !.taken = <<>>]
  IN IF k = "rnn" THEN Capture(P, L.off, RnnCurrent(P)) ELSE P

Drained(L) == [L EXCEPT !.due = {}, !.taken = <<>>]

\* Keep the snapshots S, by offset.
CaptureAll(L, S) ==
  LET new == {o \in DOMAIN S \ DOMAIN L.taken : S[o] # None}
  IN [L EXCEPT !.taken = [o \in DOMAIN @ \cup new |-> IF o \in new THEN S[o] ELSE @[o]]]

\* The write of a layer and the captures at the scheduled offsets it crosses.
Crossed(L, n) == {o \in L.due : o > L.off /\ o <= L.off + n}

KVForward(L, data) ==
  LET A == KVAppend(L, data)
  IN CaptureAll(A, [o \in Crossed(L, Len(data)) |-> KVSnapshot(A, CaptureFrom(A, o), o)])

RotForward(L, data) ==
  LET n == Len(data)
      A == RotAppend(Capture(L, L.off, RotSnapshot(L, 0)), data)
  IN CaptureAll(A, [o \in Crossed(L, n) |->
       IF n > 1 THEN RotLazySnapshot(A, o) ELSE RotSnapshot(A, o - Least(o, Window))])

RnnForward(L, tokens) ==
  LET end == L.off + Len(tokens)
      After(o) == RnnState(L) \o SubSeq(tokens, 1, o - L.off)
      A == [L EXCEPT !.buf = <<After(end)>>, !.off = end]
  IN CaptureAll(A, [o \in Crossed(L, Len(tokens)) |-> RnnSnapshot(After(o), o)])

\* A forward over the last n tokens of full.
Forward(k, L, full, n) ==
  LET new == Len(full) - n
      data == [i \in 1 .. n |-> SubSeq(full, 1, new + i)]
  IN CASE k = "kv" -> KVForward(L, data)
       [] k = "rot" -> RotForward(L, data)
       [] k = "rnn" -> RnnForward(L, SubSeq(full, new + 1, Len(full)))

-----------------------------------------------------------------------------
(* What the attention of a layer reads is what conv says it should be.       *)

\* The window in logical order, oldest first.
RotWindow(L) ==
  LET K == Len(L.buf)
  IN IF K > Window THEN SubSeq(L.buf, K - Window + 1, K)
     ELSE IF L.off <= Window THEN SubSeq(L.buf, 1, L.off)
     ELSE SubSeq(L.buf, L.idx + 1, K) \o SubSeq(L.buf, 1, L.idx)

\* The contents for positions from .. to - 1 of a conversation.
Contents(conv, from, to) == [i \in 1 .. to - from |-> SubSeq(conv, 1, from + i)]

Holds(k, L, conv) ==
  CASE k = "kv" -> SubSeq(L.buf, 1, L.off) = Contents(conv, 0, L.off)
    [] k = "rot" -> RotWindow(L) = Contents(conv, L.off - Least(L.off, Window), L.off)
    [] k = "rnn" -> RnnState(L) = SubSeq(conv, 1, L.off)

\* A restore of snapshot s brings back the end of node n.
SnapshotHolds(k, L, s, n) ==
  CASE k = "kv" -> s.to = Len(n) /\ Data(L, s) = Contents(n, s.from, s.to)
    [] k = "rot" ->
       /\ s.to = Len(n)
       /\ LET R == [NewLayer EXCEPT !.buf = Data(L, s), !.off = s.to, !.idx = s.idx]
          IN Holds("rot", R, n)
    [] k = "rnn" -> s.to = Len(n) /\ s.data = <<n>>

=============================================================================
