------------------------ MODULE PrefixContentProofs ------------------------
(* What the layers and the snapshots of the MLX runner's cache contain: for  *)
(* any tokens, any number and order of layers, any window and any bounds, a  *)
(* snapshot holds what a restore to the end of its node must bring back, and *)
(* the layers hold the beginning of the conversation.                        *)
EXTENDS PrefixCacheProofs

-----------------------------------------------------------------------------
(* Right contents.  c gives the content of every position, from 1; c[0] is   *)
(* what precedes the first token.                                            *)

Text(w) == [i \in 0 .. Len(w) |-> SubSeq(w, 1, i)]

\* The slots of b behind lo hold the n positions behind from.
Run(b, lo, c, from, n) == \A i \in 1 .. n : b[lo + i] = c[from + i]

\* A window that is written up to position off, the last of it in slot idx.
RotRight(b, off, idx, c) ==
  /\ Run(b, 0, c, off - idx, idx)
  /\ off > Window => Run(b, idx, c, off - Len(b), Len(b) - idx)

\* The arrays data of snapshot s hold c up to position m.
Shows(k, s, data, c, m) ==
  /\ s.to = m
  /\ k = "kv" => s.from <= m /\ Len(data) = m - s.from /\ Run(data, 0, c, s.from, m - s.from)
  /\ k = "rot" => RotRight(data, m, s.idx, c)
  /\ k = "rnn" => data = <<c[m]>>

Carries(k, L, s, c, m) == Shows(k, s, Data(L, s), c, m)

\* The arrays of L hold c up to its offset.
Live(k, L, c) ==
  /\ k = "kv" => Run(L.buf, 0, c, 0, L.off)
  /\ k = "rot" => RotRight(L.buf, L.off, L.idx, c)
  /\ k = "rnn" => RnnState(L) = c[L.off]

Agree(c, d, m) == \A i \in 0 .. m : c[i] = d[i]

\* A run is one of any contents that agree where it reads them.
LEMMA RunAgrees ==
  ASSUME NEW b, NEW lo, NEW c, NEW d, NEW m \in Nat, NEW from \in Int, NEW n \in Int, from >= 0,
         from + n <= m, Agree(c, d, m), Run(b, lo, c, from, n)
  PROVE Run(b, lo, d, from, n)
<1> SUFFICES ASSUME NEW i \in 1 .. n PROVE b[lo + i] = d[from + i]
  BY DEF Run
<1>1. b[lo + i] = c[from + i]
  BY DEF Run
<1>2. from + i \in 0 .. m
  OBVIOUS
<1> QED BY <1>1, <1>2 DEF Agree

\* The same for a window.
LEMMA RotAgrees ==
  ASSUME NEW b, NEW off \in Nat, NEW idx \in Nat, Len(b) \in Nat, RotFits(off, Len(b), idx), NEW c,
         NEW d, NEW m \in Nat, off <= m, Agree(c, d, m), RotRight(b, off, idx, c)
  PROVE RotRight(b, off, idx, d)
<1>0. Window \in Nat
  BY ConstantsAre
<1>1. Run(b, 0, d, off - idx, idx)
  <2>1. idx <= off
    BY <1>0 DEF RotFits
  <2> DEFINE from == off - idx
  <2>2. from \in Int /\ from >= 0 /\ from + idx <= m
    BY <2>1
  <2>3. Run(b, 0, c, from, idx)
    BY DEF RotRight
  <2> HIDE DEF from
  <2>4. Run(b, 0, d, from, idx)
    BY <2>2, <2>3, RunAgrees
  <2> QED BY <2>4 DEF from
<1>2. ASSUME off > Window PROVE Run(b, idx, d, off - Len(b), Len(b) - idx)
  <2> DEFINE from == off - Len(b)
             n == Len(b) - idx
  <2>1. idx <= Len(b) /\ Len(b) <= off
    BY <1>0, <1>2 DEF RotFits
  <2>2. from \in Int /\ from >= 0 /\ n \in Int /\ from + n <= m
    BY <2>1
  <2>3. Run(b, idx, c, from, n)
    BY <1>2 DEF RotRight
  <2> HIDE DEF from, n
  <2>4. Run(b, idx, d, from, n)
    BY <2>2, <2>3, RunAgrees
  <2> QED BY <2>4 DEF from, n
<1> QED BY <1>1, <1>2 DEF RotRight

\* What a snapshot carries does not depend on what follows it.
LEMMA CarriesAgrees ==
  ASSUME NEW k \in Kinds, NEW L \in LayerType, NEW s \in SnapshotSet, SnapFits(k, Len(L.buf), s),
         NEW c, NEW d, NEW m \in Nat, Agree(c, d, m), Carries(k, L, s, c, m)
  PROVE Carries(k, L, s, d, m)
<1> DEFINE data == Data(L, s)
<1>0. Shows(k, s, data, c, m) /\ s.to = m /\ s.from \in Nat /\ s.idx \in Nat
  BY SnapshotIs DEF Carries, Shows
<1>1. ASSUME k = "kv" PROVE Run(data, 0, d, s.from, m - s.from)
  <2> DEFINE n == m - s.from
  <2>1. s.from <= m /\ Run(data, 0, c, s.from, n)
    BY <1>0, <1>1 DEF Shows
  <2>2. n \in Int /\ s.from + n <= m /\ s.from >= 0
    BY <1>0
  <2> HIDE DEF n, data
  <2>3. Run(data, 0, d, s.from, n)
    BY <1>0, <2>1, <2>2, RunAgrees
  <2> QED BY <2>3 DEF n
<1>2. ASSUME k = "rot" PROVE RotRight(data, m, s.idx, d)
  <2>1. RotFits(s.to, Len(data), s.idx) /\ Len(data) \in Nat
    <3>1. Len(data) \in Nat /\ Len(data) = IF IsLazy(s) THEN s.to - s.from ELSE Len(s.data)
      BY <1>2, DataIs
    <3> QED BY <1>2, <3>1 DEF SnapFits
  <2> HIDE DEF data
  <2>2. RotRight(data, m, s.idx, c)
    BY <1>0, <1>2 DEF Shows
  <2> QED BY <1>0, <2>1, <2>2, RotAgrees
<1>3. c[m] = d[m]
  BY DEF Agree
<1> HIDE DEF data
<1>4. Shows(k, s, data, d, m)
  BY <1>0, <1>1, <1>2, <1>3 DEF Shows
<1> QED BY <1>4 DEF Carries, data

\* Nor does what a layer holds.
LEMMA LiveAgrees ==
  ASSUME NEW k \in Kinds, NEW L, LayerOK(k, L), NEW c, NEW d, NEW m \in Nat, L.off <= m, Agree(c, d, m),
         Live(k, L, c)
  PROVE Live(k, L, d)
<1>0. L \in LayerType /\ L.off \in Nat /\ L.idx \in Nat /\ Len(L.buf) \in Nat
  BY LayerIs DEF LayerOK, Fits
<1>1. k = "kv" => Run(L.buf, 0, d, 0, L.off)
  BY <1>0, RunAgrees DEF Live
<1>2. k = "rot" => RotRight(L.buf, L.off, L.idx, d)
  BY <1>0, RotAgrees DEF Live, LayerOK, Fits, Shape
<1>3. c[L.off] = d[L.off]
  BY <1>0 DEF Agree
<1> QED BY <1>1, <1>2, <1>3 DEF Live

-----------------------------------------------------------------------------
(* Snapshots whose data stay the same                                        *)

\* Snapshot t of R is what snapshot s of L was.
Alike(L, s, R, t) == t.from = s.from /\ t.to = s.to /\ t.idx = s.idx /\ Data(R, t) = Data(L, s)

KeepsSnaps(L, R) == \A n \in DOMAIN L.snap : Alike(L, L.snap[n], R, R.snap[n])

KeepsTaken(L, R) == \A o \in DOMAIN L.taken : Alike(L, L.taken[o], R, R.taken[o])

\* The snapshots of L hold what their nodes or offsets say.
SnapsRight(k, L) == \A n \in DOMAIN L.snap : Carries(k, L, L.snap[n], Text(n), Len(n))

TakenRight(k, L, c) == \A o \in DOMAIN L.taken : Carries(k, L, L.taken[o], c, o)

\* What is alike carries the same.
LEMMA AlikeCarries ==
  ASSUME NEW k, NEW L, NEW s, NEW R, NEW t, Alike(L, s, R, t), NEW c, NEW m, Carries(k, L, s, c, m)
  PROVE Carries(k, R, t, c, m)
BY DEF Alike, Carries, Shows

\* Kept snapshots stay right.
LEMMA KeepsRight ==
  ASSUME NEW k, NEW L, NEW R
  PROVE /\ DOMAIN R.snap = DOMAIN L.snap /\ KeepsSnaps(L, R) /\ SnapsRight(k, L) => SnapsRight(k, R)
        /\ \A c : DOMAIN R.taken = DOMAIN L.taken /\ KeepsTaken(L, R) /\ TakenRight(k, L, c) => TakenRight(k, R, c)
<1>1. ASSUME DOMAIN R.snap = DOMAIN L.snap, KeepsSnaps(L, R), SnapsRight(k, L), NEW n \in DOMAIN R.snap
      PROVE Carries(k, R, R.snap[n], Text(n), Len(n))
  BY <1>1, AlikeCarries DEF KeepsSnaps, SnapsRight
<1>2. ASSUME NEW c, DOMAIN R.taken = DOMAIN L.taken, KeepsTaken(L, R), TakenRight(k, L, c), NEW o \in DOMAIN R.taken
      PROVE Carries(k, R, R.taken[o], c, o)
  BY <1>2, AlikeCarries DEF KeepsTaken, TakenRight
<1> QED BY <1>1, <1>2 DEF SnapsRight, TakenRight

\* With the same buffer a snapshot has the same data.
LEMMA DataSame ==
  ASSUME NEW L, NEW R, R.buf = L.buf
  PROVE /\ \A s : Data(R, s) = Data(L, s) /\ Alike(L, s, R, s)
        /\ \A k, s, c, m : Carries(k, L, s, c, m) <=> Carries(k, R, s, c, m)
BY DEF Data, Alike, Carries

\* A layer that keeps its buffer and its snapshots keeps their data.
LEMMA SameKeeps ==
  ASSUME NEW L, NEW R, R.buf = L.buf
  PROVE (R.snap = L.snap => KeepsSnaps(L, R)) /\ (R.taken = L.taken => KeepsTaken(L, R))
BY DataSame DEF KeepsSnaps, KeepsTaken

\* Snapshots kept twice are kept.
LEMMA KeepsTrans ==
  ASSUME NEW L, NEW M, NEW R
  PROVE /\ DOMAIN M.snap = DOMAIN L.snap /\ KeepsSnaps(L, M) /\ KeepsSnaps(M, R) => KeepsSnaps(L, R)
        /\ DOMAIN M.taken = DOMAIN L.taken /\ KeepsTaken(L, M) /\ KeepsTaken(M, R) => KeepsTaken(L, R)
BY DEF KeepsSnaps, KeepsTaken, Alike

\* copyOut changes where the data are, not what they are.
LEMMA CopyOutKeeps ==
  ASSUME NEW k \in Kinds, NEW L, LayerOK(k, L), TakenFits(k, L), NEW S \in SUBSET LazySnapshots(L)
  PROVE LET R == CopyOut(L, S) IN KeepsSnaps(L, R) /\ KeepsTaken(L, R)
<1> DEFINE R == CopyOut(L, S)
<1>0. L \in LayerType
  BY DEF LayerOK, Fits
<1>1. /\ \A n \in DOMAIN L.snap : R.snap[n] = IF L.snap[n] \in S THEN CopiedOut(L, L.snap[n]) ELSE L.snap[n]
      /\ \A o \in DOMAIN L.taken : R.taken[o] = IF L.taken[o] \in S THEN CopiedOut(L, L.taken[o]) ELSE L.taken[o]
      /\ R.buf = L.buf
  BY CopyOutIs
<1> HIDE DEF R
<1>2. ASSUME NEW s \in SnapshotSet, SnapFits(k, Len(L.buf), s), s \in S, k # "rnn"
      PROVE Alike(L, s, R, CopiedOut(L, s))
  <2> DEFINE t == CopiedOut(L, s)
  <2>1. k \in {"kv", "rot"}
    BY <1>2 DEF Kinds
  <2>2. ~IsLazy(t) /\ t.from = s.from /\ t.to = s.to /\ t.idx = s.idx /\ t.data = Data(L, s)
    BY <1>0, <1>2, <2>1, CopiedOutIs
  <2> HIDE DEF t
  <2>3. Data(R, t) = Data(L, s)
    BY <2>2 DEF Data
  <2> QED BY <2>2, <2>3 DEF Alike, t
<1>3. k = "rnn" => S = {}
  BY NotLazyRnn
<1>4. ASSUME NEW n \in DOMAIN L.snap PROVE Alike(L, L.snap[n], R, R.snap[n])
  <2>1. L.snap[n] \in SnapshotSet /\ SnapFits(k, Len(L.buf), L.snap[n])
    BY <1>0, LayerIs DEF LayerOK, Fits
  <2> QED BY <1>1, <1>2, <1>3, <2>1, DataSame
<1>5. ASSUME NEW o \in DOMAIN L.taken PROVE Alike(L, L.taken[o], R, R.taken[o])
  <2>1. L.taken[o] \in SnapshotSet /\ SnapFits(k, Len(L.buf), L.taken[o])
    BY <1>0, LayerIs DEF TakenFits
  <2> QED BY <1>1, <1>2, <1>3, <2>1, DataSame
<1> QED BY <1>4, <1>5 DEF KeepsSnaps, KeepsTaken, R

\* The same for all lazy snapshots.
LEMMA CopyOutAllKeeps ==
  ASSUME NEW k \in Kinds, NEW L, LayerOK(k, L), TakenFits(k, L)
  PROVE LET R == CopyOutAll(L)
        IN /\ KeepsSnaps(L, R) /\ KeepsTaken(L, R) /\ R.off = L.off /\ R.buf = L.buf /\ R.idx = L.idx
           /\ R.spoiled = L.spoiled
<1>1. LazySnapshots(L) \in SUBSET LazySnapshots(L) /\ CopyOutAll(L) = CopyOut(L, LazySnapshots(L))
  BY DEF CopyOutAll
<1> QED BY <1>1, CopyOutKeeps, CopyOutIs

\* The slots of a range of slots.
LEMMA SubAt ==
  ASSUME NEW b \in Seq(Content), NEW lo \in Nat, NEW n \in Nat, lo + n <= Len(b)
  PROVE LET r == SubSeq(b, lo + 1, lo + n)
        IN r \in Seq(Content) /\ Len(r) = n /\ \A i \in 1 .. n : r[i] = b[lo + i]
<1> DEFINE m == lo + 1
           e == lo + n
<1>1. m \in Nat /\ e \in Nat /\ m > 0 /\ e <= Len(b) /\ m \in Int /\ e \in Int
  OBVIOUS
<1>2. SubSeq(b, m, e) \in Seq(Content) /\ Len(SubSeq(b, m, e)) = IF m <= e THEN e - m + 1 ELSE 0
  <2> HIDE DEF m, e
  <2> QED BY <1>1, SubIs
<1>3. \A i \in 1 .. (1 + e) - m : SubSeq(b, m, e)[i] = b[(m + i) - 1]
  <2>1. \A i \in m .. e : b[i] \in Content
    BY <1>1
  <2> HIDE DEF m, e
  <2> QED BY <1>1, <2>1, SubSeqProperties
<1>4. ((1 + e) - m = n) /\ \A i \in 1 .. n : (m + i) - 1 = lo + i
  OBVIOUS
<1>5. (IF m <= e THEN e - m + 1 ELSE 0) = n
  OBVIOUS
<1> HIDE DEF m, e
<1> QED BY <1>2, <1>3, <1>4, <1>5 DEF m, e

\* Ranges of equal slots are equal.
LEMMA SubSame ==
  ASSUME NEW a \in Seq(Content), NEW b \in Seq(Content), NEW lo \in Nat, NEW n \in Nat,
         lo + n <= Len(a), lo + n <= Len(b), \A i \in 1 .. n : a[lo + i] = b[lo + i]
  PROVE SubSeq(a, lo + 1, lo + n) = SubSeq(b, lo + 1, lo + n)
<1> DEFINE r == SubSeq(a, lo + 1, lo + n)
           t == SubSeq(b, lo + 1, lo + n)
<1>1. r \in Seq(Content) /\ Len(r) = n /\ \A i \in 1 .. n : r[i] = a[lo + i]
  BY SubAt
<1>2. t \in Seq(Content) /\ Len(t) = n /\ \A i \in 1 .. n : t[i] = b[lo + i]
  BY SubAt
<1> HIDE DEF r, t
<1>3. \A i \in 1 .. n : r[i] = t[i]
  BY <1>1, <1>2
<1>4. r = t
  BY <1>1, <1>2, <1>3, SeqEqual
<1> QED BY <1>4 DEF r, t

\* A lazy snapshot keeps its data where its slots are not written.
LEMMA LazyKept ==
  ASSUME NEW L, L.buf \in Seq(Content), NEW R, R.buf \in Seq(Content), NEW s \in SnapshotSet,
         IsLazy(s), s.from <= s.to, s.lo + (s.to - s.from) <= Len(L.buf),
         s.lo + (s.to - s.from) <= Len(R.buf),
         \A i \in s.lo + 1 .. s.lo + (s.to - s.from) : R.buf[i] = L.buf[i]
  PROVE Data(R, s) = Data(L, s)
<1> DEFINE n == s.to - s.from
           lo == s.lo
<1>1. lo \in Nat /\ n \in Nat /\ lo + n = s.lo + s.to - s.from /\ s.lo + (s.to - s.from) = lo + n
  BY SnapshotIs
<1>2. lo + n <= Len(L.buf) /\ lo + n <= Len(R.buf)
  OBVIOUS
<1>3. \A i \in 1 .. n : R.buf[lo + i] = L.buf[lo + i]
  BY <1>1
<1>4. Data(L, s) = SubSeq(L.buf, lo + 1, lo + n) /\ Data(R, s) = SubSeq(R.buf, lo + 1, lo + n)
  BY <1>1 DEF Data
<1> HIDE DEF n, lo
<1> QED BY <1>1, <1>2, <1>3, <1>4, SubSame

-----------------------------------------------------------------------------
(* KVCache                                                                   *)

\* An append that overwrites no lazy snapshot keeps them all and continues the run.
LEMMA KVAppendRight ==
  ASSUME NEW L, LayerOK("kv", L), TakenFits("kv", L), NEW data \in Seq(Content)
  PROVE LET R == KVAppend(L, data)
        IN ~R.spoiled => /\ KeepsSnaps(L, R) /\ KeepsTaken(L, R)
                         /\ \A c : Run(L.buf, 0, c, 0, L.off) /\ Run(data, 0, c, L.off, Len(data))
                                     => Run(R.buf, 0, c, 0, R.off)
<1> DEFINE to == L.off + Len(data)
           S == {s \in LazySnapshots(L) : s.from < to /\ s.to > L.off}
           C == IF L.rewound THEN CopyOut(L, S) ELSE L
           len == Max({Len(L.buf), to})
           buf == [i \in 1 .. len |-> IF i \in L.off + 1 .. to THEN data[i - L.off] ELSE L.buf[i]]
           lost == C.spoiled \/ \E s \in LazySnapshots(C) : s.from < to /\ s.to > L.off
           R == KVAppend(L, data)
<1> SUFFICES ASSUME ~R.spoiled
             PROVE  /\ KeepsSnaps(L, R) /\ KeepsTaken(L, R)
                    /\ \A c : Run(L.buf, 0, c, 0, L.off) /\ Run(data, 0, c, L.off, Len(data))
                                     => Run(R.buf, 0, c, 0, R.off)
  OBVIOUS
<1>0. L \in LayerType /\ L.off <= Len(L.buf) /\ "kv" \in Kinds
  BY DEF LayerOK, Fits, Shape, Kinds
<1>1. /\ L.off \in Nat /\ L.buf \in Seq(Content) /\ Len(L.buf) \in Nat /\ Len(data) \in Nat
  BY <1>0, LayerIs
<1>2. R = [C EXCEPT !.buf = buf, !.off = to, !.rewound = FALSE, !.spoiled = lost]
  BY DEF KVAppend
<1>3. /\ LayerOK("kv", C) /\ TakenFits("kv", C) /\ KeepsSnaps(L, C) /\ KeepsTaken(L, C)
      /\ DOMAIN C.snap = DOMAIN L.snap /\ DOMAIN C.taken = DOMAIN L.taken /\ C.buf = L.buf
  <2>1. CASE L.rewound
    <3>1. S \in SUBSET LazySnapshots(L)
      OBVIOUS
    <3> HIDE DEF S
    <3>2. C = CopyOut(L, S)
      BY <2>1
    <3> HIDE DEF C
    <3> QED BY <1>0, <3>1, <3>2, CopyOutIs, CopyOutKeeps
  <2>2. CASE ~L.rewound
    BY <2>2, SameKeeps
  <2> QED BY <2>1, <2>2
<1>4. len \in Nat /\ len >= Len(L.buf) /\ len >= to
  BY <1>1, MaxIs, SMTT(60)
<1>5. LayerOK("kv", R) /\ R.off = to
  BY KVAppendOK
<1> HIDE DEF C, S, len, R
<1>6. R.snap = C.snap /\ R.taken = C.taken /\ R.buf = buf /\ R.spoiled = lost
  <2>1. C \in LayerType
    BY <1>3 DEF LayerOK, Fits
  <2> HIDE DEF buf, lost
  <2> QED BY <1>2, <2>1 DEF LayerType
<1>7. R.buf \in Seq(Content) /\ Len(R.buf) = len
  <2>1. R.buf \in Seq(Content)
    BY <1>5, LayerIs DEF LayerOK, Fits
  <2> QED BY <1>4, <1>6, <2>1
<1>8. \A i \in 1 .. len : R.buf[i] = IF i \in L.off + 1 .. to THEN data[i - L.off] ELSE L.buf[i]
  BY <1>6
<1>9. \A s \in LazySnapshots(C) : ~(s.from < to /\ s.to > L.off)
  BY <1>6
<1> HIDE DEF buf, lost, to
<1>10. to \in Nat /\ to >= L.off /\ to = L.off + Len(data)
  BY <1>1 DEF to
<1>11. ASSUME NEW s \in SnapshotSet, SnapFits("kv", Len(C.buf), s), IsLazy(s) => s \in LazySnapshots(C)
       PROVE Alike(C, s, R, s)
  <2>1. CASE ~IsLazy(s)
    BY <2>1 DEF Alike, Data
  <2>2. CASE IsLazy(s)
    <3>1. s.from \in Nat /\ s.to \in Nat /\ s.lo = s.from /\ s.from <= s.to /\ s.to <= Len(L.buf)
      BY <1>3, <1>11, <2>2, SnapshotIs DEF SnapFits
    <3>2. s.lo + (s.to - s.from) <= Len(C.buf) /\ s.lo + (s.to - s.from) <= Len(R.buf)
      BY <1>3, <1>4, <1>7, <3>1
    <3>3. s.from >= to \/ s.to <= L.off
      BY <1>1, <1>9, <1>10, <1>11, <2>2, <3>1
    <3>4. ASSUME NEW i \in s.lo + 1 .. s.lo + (s.to - s.from) PROVE R.buf[i] = C.buf[i]
      <4>1. i \in 1 .. len /\ i \notin L.off + 1 .. to
        BY <1>1, <1>4, <1>10, <3>1, <3>3
      <4> QED BY <1>3, <1>8, <4>1
    <3>5. Data(R, s) = Data(C, s)
      BY <1>1, <1>3, <1>7, <2>2, <3>1, <3>2, <3>4, LazyKept
    <3> QED BY <3>5 DEF Alike
  <2> QED BY <2>1, <2>2
<1>12. C \in LayerType
  BY <1>3 DEF LayerOK, Fits
<1>13. KeepsSnaps(C, R)
  <2>1. ASSUME NEW n \in DOMAIN C.snap PROVE Alike(C, C.snap[n], R, R.snap[n])
    <3> DEFINE s == C.snap[n]
    <3>1. s \in SnapshotSet /\ SnapFits("kv", Len(C.buf), s) /\ R.snap[n] = s
      BY <1>3, <1>6, <1>12, LayerIs DEF LayerOK, Fits
    <3>2. IsLazy(s) => s \in LazySnapshots(C)
      BY DEF LazySnapshots, Range
    <3> HIDE DEF s
    <3> QED BY <1>11, <3>1, <3>2 DEF s
  <2> QED BY <2>1 DEF KeepsSnaps
<1>14. KeepsTaken(C, R)
  <2>1. ASSUME NEW o \in DOMAIN C.taken PROVE Alike(C, C.taken[o], R, R.taken[o])
    <3> DEFINE s == C.taken[o]
    <3>1. s \in SnapshotSet /\ SnapFits("kv", Len(C.buf), s) /\ R.taken[o] = s
      BY <1>3, <1>6, <1>12, LayerIs DEF TakenFits
    <3>2. IsLazy(s) => s \in LazySnapshots(C)
      BY DEF LazySnapshots, Range
    <3> HIDE DEF s
    <3> QED BY <1>11, <3>1, <3>2 DEF s
  <2> QED BY <2>1 DEF KeepsTaken
<1>15. ASSUME NEW c, Run(L.buf, 0, c, 0, L.off), Run(data, 0, c, L.off, Len(data)), NEW i \in 1 .. R.off
       PROVE R.buf[0 + i] = c[0 + i]
  <2>0. 0 + i = i /\ i \in 1 .. len /\ i \in 1 .. to
    BY <1>4, <1>5, <1>10 DEF to
  <2>1. CASE i \in L.off + 1 .. to
    <3>1. i - L.off \in 1 .. Len(data) /\ L.off + (i - L.off) = i /\ 0 + (i - L.off) = i - L.off
      BY <1>1, <1>10, <2>0, <2>1
    <3> DEFINE j == i - L.off
    <3>2. data[0 + j] = c[L.off + j]
      BY <1>15, <3>1 DEF Run
    <3>3. R.buf[i] = data[j]
      BY <1>8, <2>0, <2>1
    <3> QED BY <2>0, <3>1, <3>2, <3>3
  <2>2. CASE i \notin L.off + 1 .. to
    <3>1. i \in 1 .. L.off
      BY <1>1, <1>10, <2>0, <2>2
    <3>2. R.buf[i] = L.buf[i]
      BY <1>8, <2>0, <2>2
    <3>3. L.buf[0 + i] = c[0 + i]
      BY <1>15, <3>1 DEF Run
    <3> QED BY <2>0, <3>2, <3>3
  <2> QED BY <2>1, <2>2
<1>16. ASSUME NEW c, Run(L.buf, 0, c, 0, L.off), Run(data, 0, c, L.off, Len(data))
       PROVE Run(R.buf, 0, c, 0, R.off)
  BY <1>15, <1>16 DEF Run
<1> QED BY <1>3, <1>13, <1>14, <1>16, KeepsTrans

\* A shorter run.
LEMMA RunShorter ==
  ASSUME NEW b, NEW lo, NEW c, NEW from, NEW n \in Int, NEW m \in Int, m <= n, Run(b, lo, c, from, n)
  PROVE Run(b, lo, c, from, m)
<1>1. \A i \in 1 .. m : i \in 1 .. n
  OBVIOUS
<1> QED BY <1>1 DEF Run

\* KVCache.Restore brings back what the snapshot carries.
LEMMA KVRestoreRight ==
  ASSUME NEW L, LayerOK("kv", L), TakenFits("kv", L), NEW target \in Nat,
         NEW s \in SnapshotSet \cup {None}, s # None => SnapFits("kv", Len(L.buf), s),
         KVCanRestore(L, s, target), NEW c, Run(L.buf, 0, c, 0, L.off),
         s # None => Carries("kv", L, s, c, s.to)
  PROVE LET R == KVRestore(L, s, target)
        IN ~R.spoiled => KeepsSnaps(L, R) /\ Run(R.buf, 0, c, 0, R.off)
<1> DEFINE R == KVRestore(L, s, target)
<1> SUFFICES ASSUME ~R.spoiled PROVE KeepsSnaps(L, R) /\ Run(R.buf, 0, c, 0, R.off)
  OBVIOUS
<1>0. L \in LayerType /\ L.off <= Len(L.buf)
  BY DEF LayerOK, Fits, Shape
<1>1. /\ L.off \in Nat /\ L.buf \in Seq(Content) /\ Len(L.buf) \in Nat /\ L.idx \in Nat
  BY <1>0, LayerIs
<1>2. CASE s = None \/ (s # None /\ IsLazy(s))
  <2>1. R = [L EXCEPT !.off = target, !.rewound = TRUE]
    BY <1>2 DEF KVRestore
  <2> HIDE DEF R
  <2>2. R.off = target /\ R.buf = L.buf /\ R.snap = L.snap
    BY <2>1, <1>0 DEF LayerType
  <2>3. Run(L.buf, 0, c, 0, target)
    <3>1. CASE s = None
      <4>1. target <= L.off
        BY <3>1 DEF KVCanRestore
      <4> QED BY <1>1, <4>1, RunShorter
    <3>2. CASE s # None /\ IsLazy(s)
      <4> DEFINE n == s.to - s.from
      <4>1. /\ s.from \in Nat /\ s.to \in Nat /\ s.lo = s.from /\ s.from <= s.to /\ s.to <= Len(L.buf)
            /\ target <= s.to /\ s.from <= L.off /\ s \in SnapshotSet
        BY <3>2, SnapshotIs DEF SnapFits, KVCanRestore
      <4>2. Run(Data(L, s), 0, c, s.from, n)
        BY <3>2 DEF Carries, Shows
      <4>3. Data(L, s) = SubSeq(L.buf, s.from + 1, s.from + n)
        BY <3>2, <4>1 DEF Data
      <4>4. n \in Nat /\ s.from + n = s.to /\ s.from + n <= Len(L.buf)
        BY <4>1
      <4> HIDE DEF n
      <4>5. \A i \in 1 .. n : SubSeq(L.buf, s.from + 1, s.from + n)[i] = L.buf[s.from + i]
        BY <1>1, <4>1, <4>4, SubAt
      <4>6. ASSUME NEW i \in 1 .. target PROVE L.buf[0 + i] = c[0 + i]
        <5>1. CASE i <= L.off
          BY <1>1, <5>1 DEF Run
        <5>2. CASE i > L.off
          <6> DEFINE j == i - s.from
          <6>1. j \in 1 .. n /\ s.from + j = i /\ 0 + j = j /\ 0 + i = i
            BY <1>1, <4>1, <4>4, <5>2
          <6> HIDE DEF j
          <6>2. Data(L, s)[j] = L.buf[i]
            BY <4>3, <4>5, <6>1
          <6>3. Data(L, s)[j] = c[i]
            BY <4>2, <6>1 DEF Run
          <6> QED BY <6>1, <6>2, <6>3
        <5> QED BY <1>1, <4>6, <5>1, <5>2
      <4> QED BY <4>6 DEF Run
    <3> QED BY <1>2, <3>1, <3>2
  <2> QED BY <2>2, <2>3, SameKeeps
<1>3. CASE s # None /\ ~IsLazy(s)
  <2> DEFINE B == [L EXCEPT !.off = s.from, !.rewound = TRUE]
             A == KVAppend(B, s.data)
             to == Least(target, A.off)
  <2>1. R = [A EXCEPT !.off = to]
    BY <1>3 DEF KVRestore
  <2>2. s \in SnapshotSet /\ s.from \in Nat /\ s.to \in Nat /\ s.data \in Seq(Content) /\ s.from <= L.off
    BY <1>3, SnapshotIs DEF KVCanRestore
  <2>3. IsMoved(B, L, s.from, L.idx, TRUE) /\ B.off = s.from /\ B.buf = L.buf /\ B.snap = L.snap
    BY <1>0 DEF LayerType, IsMoved
  <2> HIDE DEF B
  <2>4. Shape("kv", B)
    BY <1>0, <1>1, <2>2, <2>3 DEF Shape
  <2>5. LayerOK("kv", B) /\ TakenFits("kv", B)
    BY <1>1, <2>2, <2>3, <2>4, Moved
  <2>6. LayerOK("kv", A) /\ A.off = B.off + Len(s.data)
    BY <2>2, <2>5, KVAppendOK
  <2>7. Run(B.buf, 0, c, 0, B.off)
    BY <1>1, <2>2, <2>3, RunShorter
  <2>8. Run(s.data, 0, c, B.off, Len(s.data))
    <3>1. Data(L, s) = s.data
      BY <1>3 DEF Data
    <3>2. Len(s.data) = s.to - s.from /\ Run(s.data, 0, c, s.from, s.to - s.from)
      BY <1>3, <3>1 DEF Carries, Shows
    <3> QED BY <2>3, <3>2
  <2>9. ~A.spoiled => KeepsSnaps(B, A) /\ Run(A.buf, 0, c, 0, A.off)
    BY <2>2, <2>5, <2>7, <2>8, KVAppendRight
  <2> HIDE DEF A
  <2>10. A \in LayerType /\ A.off \in Nat
    BY <2>6, LayerIs DEF LayerOK, Fits
  <2>11. to \in Nat /\ to <= A.off
    BY <2>10 DEF Least
  <2> HIDE DEF to, R
  <2>12. R.off = to /\ R.buf = A.buf /\ R.snap = A.snap /\ R.spoiled = A.spoiled
    BY <2>1, <2>10 DEF LayerType
  <2>13. ~A.spoiled
    BY <2>12
  <2>14. Run(R.buf, 0, c, 0, R.off)
    BY <2>9, <2>10, <2>11, <2>12, <2>13, RunShorter
  <2>15. KeepsSnaps(L, R)
    <3>1. KeepsSnaps(L, B) /\ DOMAIN B.snap = DOMAIN L.snap
      BY <2>3, SameKeeps
    <3>2. DOMAIN A.snap = DOMAIN B.snap
      <4>1. Untouched(B, KVAppend(B, s.data))
        BY <2>2, <2>5, KVAppendOK
      <4> QED BY <4>1 DEF Untouched, A
    <3>3. KeepsSnaps(L, A) /\ DOMAIN A.snap = DOMAIN L.snap
      BY <2>9, <2>13, <3>1, <3>2, KeepsTrans
    <3>4. KeepsSnaps(A, R)
      BY <2>12, SameKeeps
    <3> QED BY <3>3, <3>4, KeepsTrans
  <2> QED BY <2>14, <2>15
<1> QED BY <1>2, <1>3

-----------------------------------------------------------------------------
(* Runs under SubSeq and \o                                                  *)

\* A later part of a run.
LEMMA RunShift ==
  ASSUME NEW b, NEW lo \in Int, NEW c, NEW from \in Int, NEW n \in Int, NEW d \in Nat, Run(b, lo, c, from, n)
  PROVE Run(b, lo + d, c, from + d, n - d)
<1> SUFFICES ASSUME NEW i \in 1 .. n - d PROVE b[(lo + d) + i] = c[(from + d) + i]
  BY DEF Run
<1> DEFINE j == d + i
<1>1. j \in 1 .. n /\ lo + j = (lo + d) + i /\ from + j = (from + d) + i
  OBVIOUS
<1> HIDE DEF j
<1>2. b[lo + j] = c[from + j]
  BY <1>1 DEF Run
<1> QED BY <1>1, <1>2

\* A run in slots of their own.
LEMMA RunSub ==
  ASSUME NEW b \in Seq(Content), NEW lo \in Nat, NEW n \in Nat, lo + n <= Len(b), NEW c, NEW from,
         Run(b, lo, c, from, n)
  PROVE Run(SubSeq(b, lo + 1, lo + n), 0, c, from, n)
<1> DEFINE r == SubSeq(b, lo + 1, lo + n)
<1>1. \A i \in 1 .. n : r[i] = b[lo + i]
  BY SubAt
<1> HIDE DEF r
<1>2. \A i \in 1 .. n : r[0 + i] = c[from + i]
  <2> TAKE i \in 1 .. n
  <2>1. 0 + i = i
    OBVIOUS
  <2> QED BY <1>1, <2>1 DEF Run
<1> QED BY <1>2 DEF Run, r

\* Two runs one behind the other.
LEMMA RunConcat ==
  ASSUME NEW x \in Seq(Content), NEW y \in Seq(Content), NEW c, NEW from \in Int, NEW m \in Nat, NEW n \in Nat,
         Len(x) = m, Len(y) = n, Run(x, 0, c, from, m), Run(y, 0, c, from + m, n)
  PROVE /\ x \o y \in Seq(Content) /\ Len(x \o y) = m + n /\ Run(x \o y, 0, c, from, m + n)
<1>1. /\ x \o y \in Seq(Content) /\ Len(x \o y) = m + n
      /\ \A i \in 1 .. m + n : (x \o y)[i] = IF i <= m THEN x[i] ELSE y[i - m]
  BY ConcatProperties
<1> DEFINE z == x \o y
<1> HIDE DEF z
<1>2. ASSUME NEW i \in 1 .. m + n PROVE z[0 + i] = c[from + i]
  <2>1. CASE i <= m
    <3>1. i \in 1 .. m /\ 0 + i = i
      BY <2>1
    <3>2. x[i] = c[from + i]
      BY <3>1 DEF Run
    <3> QED BY <1>1, <2>1, <3>1, <3>2 DEF z
  <2>2. CASE i > m
    <3> DEFINE j == i - m
    <3>1. j \in 1 .. n /\ 0 + j = j /\ (from + m) + j = from + i /\ 0 + i = i /\ ~(i <= m)
      BY <2>2
    <3>2. z[i] = y[j]
      BY <1>1, <3>1 DEF z
    <3> HIDE DEF j
    <3>3. y[j] = c[from + i]
      BY <3>1 DEF Run
    <3> QED BY <3>1, <3>2, <3>3
  <2> QED BY <2>1, <2>2
<1>3. Run(z, 0, c, from, m + n)
  BY <1>2 DEF Run
<1> QED BY <1>1, <1>3 DEF z

-----------------------------------------------------------------------------
(* RotatingKVCache                                                           *)

\* Snapshots that own their data keep them.
LEMMA OwnedKeeps ==
  ASSUME NEW L, LazySnapshots(L) = {}, NEW R
  PROVE (R.snap = L.snap => KeepsSnaps(L, R)) /\ (R.taken = L.taken => KeepsTaken(L, R))
<1>1. \A s : ~IsLazy(s) => Alike(L, s, R, s)
  BY DEF Alike, Data
<1>2. \A n \in DOMAIN L.snap : ~IsLazy(L.snap[n])
  BY DEF LazySnapshots, Range
<1>3. \A o \in DOMAIN L.taken : ~IsLazy(L.taken[o])
  BY DEF LazySnapshots, Range
<1> QED BY <1>1, <1>2, <1>3 DEF KeepsSnaps, KeepsTaken

InOrder(L, c) == L.idx = Len(L.buf) /\ Run(L.buf, 0, c, L.off - Len(L.buf), Len(L.buf))

\* concat leaves the window in order, continued by the data.
LEMMA RotConcatRight ==
  ASSUME NEW L0, LayerOK("rot", L0), TakenFits("rot", L0), NEW data \in Seq(Content), Len(data) > 1, NEW c
  PROVE LET R == RotConcat(L0, data)
        IN /\ KeepsSnaps(L0, R) /\ KeepsTaken(L0, R)
           /\ RotRight(L0.buf, L0.off, L0.idx, c) /\ Run(data, 0, c, L0.off, Len(data))
                => InOrder(R, c) /\ RotRight(R.buf, R.off, R.idx, c)
<1> DEFINE L == CopyOutAll(L0)
           K == Len(L.buf)
           B == IF L.idx >= K THEN L.buf
                ELSE IF L.off <= Window THEN SubSeq(L.buf, 1, L.idx)
                ELSE SubSeq(L.buf, L.idx + 1, K) \o SubSeq(L.buf, 1, L.idx)
           trim == Max({0, Len(B) - Window + 1})
           N == SubSeq(B, trim + 1, Len(B)) \o data
           R == RotConcat(L0, data)
<1>0. "rot" \in Kinds
  BY DEF Kinds
<1>1. /\ LayerOK("rot", L) /\ Untouched(L0, L) /\ LazySnapshots(L) = {}
      /\ L.off = L0.off /\ L.buf = L0.buf /\ L.idx = L0.idx /\ KeepsSnaps(L0, L) /\ KeepsTaken(L0, L)
  BY <1>0, CopyOutAllOK, CopyOutAllKeeps
<1> HIDE DEF L
<1>2. L \in LayerType /\ RotFits(L.off, K, L.idx)
  BY <1>1 DEF LayerOK, Fits, Shape
<1>3. L.off \in Nat /\ L.idx \in Nat /\ L.buf \in Seq(Content) /\ K \in Nat /\ Window \in Nat /\ Window > 0
      /\ Len(data) \in Nat
  BY <1>2, LayerIs, ConstantsAre
<1>4. R = [L EXCEPT !.buf = N, !.off = L.off + Len(data), !.idx = Len(N)]
  BY DEF RotConcat, L
<1>5. R.off = L.off + Len(data) /\ R.buf = N /\ R.idx = Len(N) /\ R.snap = L.snap /\ R.taken = L.taken
  <2> HIDE DEF N, R
  <2> QED BY <1>2, <1>4 DEF LayerType
<1> HIDE DEF R
<1>6. KeepsSnaps(L0, R) /\ KeepsTaken(L0, R)
  <2>1. KeepsSnaps(L, R) /\ KeepsTaken(L, R)
    BY <1>1, <1>5, OwnedKeeps
  <2> QED BY <1>1, <2>1, KeepsTrans DEF Untouched
<1>7. ASSUME RotRight(L0.buf, L0.off, L0.idx, c), Run(data, 0, c, L0.off, Len(data))
      PROVE  InOrder(R, c) /\ RotRight(R.buf, R.off, R.idx, c)
  <2>1. Run(L.buf, 0, c, L.off - L.idx, L.idx) /\ (L.off > Window => Run(L.buf, L.idx, c, L.off - K, K - L.idx))
    BY <1>1, <1>7 DEF RotRight
  <2>2. B \in Seq(Content) /\ Len(B) \in Nat /\ Run(B, 0, c, L.off - Len(B), Len(B))
    <3>1. CASE L.idx >= K
      <4>1. B = L.buf
        BY <3>1
      <4> HIDE DEF B, K
      <4>2. L.idx = K
        BY <1>2, <1>3, <3>1 DEF RotFits
      <4>3. Len(B) = K /\ L.off - Len(B) = L.off - L.idx
        BY <4>1, <4>2 DEF K
      <4> QED BY <1>3, <2>1, <4>1, <4>2, <4>3
    <3>2. CASE L.idx < K /\ L.off <= Window
      <4> DEFINE i == L.idx
                 Y == SubSeq(L.buf, 0 + 1, 0 + i)
      <4>1. B = Y
        BY <1>3, <3>2
      <4> HIDE DEF B
      <4>2. i \in Nat /\ 0 \in Nat /\ 0 + i <= Len(L.buf) /\ Run(L.buf, 0, c, L.off - i, i)
        BY <1>3, <2>1, <3>2
      <4> HIDE DEF i
      <4>3. Y \in Seq(Content) /\ Len(Y) = i
        BY <1>3, <4>2, SubAt
      <4>4. Run(Y, 0, c, L.off - i, i)
        BY <1>3, <4>2, RunSub
      <4> QED BY <4>1, <4>2, <4>3, <4>4
    <3>3. CASE L.idx < K /\ ~(L.off <= Window)
      <4> DEFINE i == L.idx
                 m == K - i
                 X == SubSeq(L.buf, i + 1, i + m)
                 Y == SubSeq(L.buf, 0 + 1, 0 + i)
      <4>1. B = X \o Y
        <5>1. ~(L.idx >= K) /\ ~(L.off <= Window) /\ i + m = K /\ 0 + 1 = 1 /\ 0 + i = i
          BY <1>3, <3>3
        <5> QED BY <5>1 DEF K
      <4> HIDE DEF B
      <4>2. /\ i \in Nat /\ 0 \in Nat /\ 0 + i <= Len(L.buf) /\ Run(L.buf, 0, c, L.off - i, i)
            /\ m \in Nat /\ i + m <= Len(L.buf) /\ Run(L.buf, i, c, L.off - K, m)
        BY <1>3, <2>1, <3>3
      <4> DEFINE f == L.off - K
      <4>3. f \in Int /\ f + m = L.off - i /\ m + i = K
        BY <1>3, <4>2
      <4> HIDE DEF i, m, K
      <4>4. Y \in Seq(Content) /\ Len(Y) = i /\ Run(Y, 0, c, L.off - i, i)
        BY <1>3, <4>2, SubAt, RunSub
      <4>5. X \in Seq(Content) /\ Len(X) = m /\ Run(X, 0, c, f, m)
        BY <1>3, <4>2, SubAt, RunSub
      <4> HIDE DEF X, Y, f
      <4>6. X \o Y \in Seq(Content) /\ Len(X \o Y) = m + i /\ Run(X \o Y, 0, c, f, m + i)
        BY <4>2, <4>3, <4>4, <4>5, RunConcat
      <4> QED BY <1>3, <4>1, <4>3, <4>6 DEF f
    <3> QED BY <1>3, <3>1, <3>2, <3>3
  <2> HIDE DEF B, K
  <2>3. trim = (IF 0 >= Len(B) - Window + 1 THEN 0 ELSE Len(B) - Window + 1)
    BY <1>3, <2>2, MaxIs
  <2>4. trim \in Nat /\ trim <= Len(B)
    BY <1>3, <2>2, <2>3
  <2> HIDE DEF trim
  <2> DEFINE b == Len(B)
             m == b - trim
             from == L.off - m
             n == Len(data)
             T == SubSeq(B, trim + 1, trim + m)
  <2>5. m \in Nat /\ trim + m = b /\ trim + m <= Len(B) /\ (L.off - b) + trim = from /\ from \in Int /\ n \in Nat
        /\ from + m = L.off /\ (L.off + n) - (m + n) = from /\ b \in Nat /\ L.off - b \in Int
    BY <1>3, <2>2, <2>4
  <2>6. Run(B, trim, c, from, m)
    <3>1. Run(B, 0 + trim, c, (L.off - b) + trim, b - trim)
      <4> DEFINE g == L.off - b
                 o == 0
      <4>1. g \in Int /\ o \in Int /\ Run(B, o, c, g, b) /\ b \in Int /\ trim \in Nat
        BY <2>2, <2>4, <2>5
      <4> HIDE DEF b, g, o, B, trim
      <4>2. Run(B, o + trim, c, g + trim, b - trim)
        BY ONLY <4>1, RunShift
      <4> QED BY <4>2 DEF g, o
    <3>2. 0 + trim = trim
      BY <2>4
    <3> QED BY <2>5, <3>1, <3>2
  <2>7. N = T \o data
    BY <2>5
  <2>8. Run(data, 0, c, L.off, n)
    BY <1>1, <1>7
  <2> HIDE DEF b, m, from, n, N
  <2>9. T \in Seq(Content) /\ Len(T) = m /\ Run(T, 0, c, from, m)
    BY <2>2, <2>4, <2>5, <2>6, SubAt, RunSub
  <2> HIDE DEF T
  <2>10. N \in Seq(Content) /\ Len(N) = m + n /\ Run(N, 0, c, from, m + n)
    BY <2>5, <2>7, <2>8, <2>9, RunConcat DEF n
  <2>11. R.idx = Len(N) /\ R.off - Len(N) = from /\ Len(N) \in Nat /\ R.off = L.off + n
    BY <1>5, <2>5, <2>10 DEF n
  <2>12. InOrder(R, c)
    BY <1>5, <2>10, <2>11 DEF InOrder
  <2>13. Run(R.buf, R.idx, c, R.off - Len(R.buf), Len(R.buf) - R.idx)
    <3>1. Len(R.buf) - R.idx = 0
      BY <1>5, <2>11
    <3> QED BY <3>1 DEF Run
  <2> QED BY <1>5, <2>12, <2>13 DEF RotRight, InOrder
<1> QED BY <1>6, <1>7 DEF R

\* Writing the slot behind a run continues it.
LEMMA RunWrite ==
  ASSUME NEW T \in Seq(Content), NEW i \in Nat, i + 1 <= Len(T), NEW slot \in Content, NEW c, NEW from \in Int,
         Run(T, 0, c, from, i), slot = c[(from + i) + 1], NEW N, N = [T EXCEPT ![i + 1] = slot]
  PROVE Run(N, 0, c, from, i + 1)
<1>1. N[i + 1] = slot /\ \A j \in 1 .. Len(T) : j # i + 1 => N[j] = T[j]
  BY ExceptSeq
<1>2. ASSUME NEW j \in 1 .. i + 1 PROVE N[0 + j] = c[from + j]
  <2>1. CASE j = i + 1
    <3>1. 0 + j = i + 1 /\ from + j = (from + i) + 1
      BY <2>1
    <3> QED BY <1>1, <3>1
  <2>2. CASE j # i + 1
    <3>1. j \in 1 .. i /\ 0 + j = j /\ j \in 1 .. Len(T)
      BY <2>2
    <3>2. T[j] = c[from + j]
      BY <3>1 DEF Run
    <3> QED BY <1>1, <2>2, <3>1, <3>2
  <2> QED BY <2>1, <2>2
<1> QED BY <1>2 DEF Run

\* The run behind the slot stays one.
LEMMA RunBehind ==
  ASSUME NEW T \in Seq(Content), NEW i \in Nat, i + 1 <= Len(T), NEW slot \in Content, NEW c, NEW g,
         NEW n \in Int, (i + 1) + n <= Len(T), Run(T, i + 1, c, g, n), NEW N, N = [T EXCEPT ![i + 1] = slot]
  PROVE Run(N, i + 1, c, g, n)
<1>1. \A j \in 1 .. Len(T) : j # i + 1 => N[j] = T[j]
  BY ExceptSeq
<1>2. ASSUME NEW j \in 1 .. n PROVE N[(i + 1) + j] = c[g + j]
  <2>1. (i + 1) + j \in 1 .. Len(T) /\ (i + 1) + j # i + 1
    OBVIOUS
  <2>2. T[(i + 1) + j] = c[g + j]
    BY DEF Run
  <2> QED BY <1>1, <2>1, <2>2
<1> QED BY <1>2 DEF Run

\* One more slot of a window, whether it grows, wraps or is trimmed first.
LEMMA RotUpdateRight ==
  ASSUME NEW L0, LayerOK("rot", L0), TakenFits("rot", L0), NEW slot \in Content, NEW c
  PROVE LET R == RotUpdate(L0, slot)
        IN /\ KeepsSnaps(L0, R) /\ KeepsTaken(L0, R)
           /\ RotRight(L0.buf, L0.off, L0.idx, c) /\ slot = c[L0.off + 1] => RotRight(R.buf, R.off, R.idx, c)
<1> DEFINE L == CopyOutAll(L0)
           K == Len(L.buf)
           grows == L.buf = <<>> \/ (L.off >= K /\ K < Window)
           z == Least(RotStep, Window - L.off)
           G == IF grows THEN L.buf \o [i \in 1 .. z |-> <<>>] ELSE L.buf
           T == IF Len(G) > Window THEN SubSeq(G, Len(G) - Window + 1, Len(G)) ELSE G
           at == IF Len(G) > Window THEN Window ELSE IF grows THEN L.off ELSE L.idx
           i0 == IF at >= Window THEN 0 ELSE at
           N == [T EXCEPT ![i0 + 1] = slot]
           R == RotUpdate(L0, slot)
           off == L.off
<1>0. "rot" \in Kinds
  BY DEF Kinds
<1>1. /\ LayerOK("rot", L) /\ Untouched(L0, L) /\ LazySnapshots(L) = {}
      /\ L.off = L0.off /\ L.buf = L0.buf /\ L.idx = L0.idx /\ KeepsSnaps(L0, L) /\ KeepsTaken(L0, L)
  BY <1>0, CopyOutAllOK, CopyOutAllKeeps
<1> HIDE DEF L
<1>2. L \in LayerType /\ RotFits(L.off, K, L.idx)
  BY <1>1 DEF LayerOK, Fits, Shape
<1>3. L.off \in Nat /\ L.idx \in Nat /\ L.buf \in Seq(Content) /\ K \in Nat /\ Window \in Nat /\ Window > 0
      /\ RotStep \in Nat /\ RotStep > 0 /\ (L.buf = <<>> <=> K = 0)
  <2>1. L.buf \in Seq(Content) BY <1>2, LayerIs
  <2> QED BY <1>2, <2>1, EmptySeq, LayerIs, ConstantsAre
<1>4. R = [L EXCEPT !.buf = N, !.off = L.off + 1, !.idx = i0 + 1]
  BY DEF RotUpdate, L
<1>5. R.off = L.off + 1 /\ R.buf = N /\ R.idx = i0 + 1 /\ R.snap = L.snap /\ R.taken = L.taken
  <2> HIDE DEF N, i0, R
  <2> QED BY <1>2, <1>4 DEF LayerType
<1> HIDE DEF R
<1>6. KeepsSnaps(L0, R) /\ KeepsTaken(L0, R)
  <2>1. KeepsSnaps(L, R) /\ KeepsTaken(L, R)
    BY <1>1, <1>5, OwnedKeeps
  <2> QED BY <1>1, <2>1, KeepsTrans DEF Untouched
<1>7. ASSUME RotRight(L0.buf, L0.off, L0.idx, c), slot = c[L0.off + 1]
      PROVE  Run(N, 0, c, (off + 1) - (i0 + 1), i0 + 1)
             /\ (off + 1 > Window => Run(N, i0 + 1, c, (off + 1) - Len(N), Len(N) - (i0 + 1)))
  <2>1. Run(L.buf, 0, c, L.off - L.idx, L.idx) /\ (L.off > Window => Run(L.buf, L.idx, c, L.off - K, K - L.idx))
    BY <1>1, <1>7 DEF RotRight
  <2>2. slot = c[off + 1] /\ off \in Nat
    BY <1>1, <1>3, <1>7
  <2>3. CASE grows
    <3> HIDE DEF K
    <3>1. L.off = K /\ L.idx = K /\ K < Window
      BY <1>2, <1>3, <2>3 DEF RotFits
    <3>2. z \in Nat /\ z > 0 /\ K + z <= Window
      BY <1>3, <3>1 DEF Least
    <3> HIDE DEF z
    <3> DEFINE Z == [i \in 1 .. z |-> <<>>]
    <3>3. Z \in Seq(Content) /\ Len(Z) = z
      <4>1. <<>> \in Content BY DEF Content
      <4> QED BY <3>2, <4>1
    <3> HIDE DEF Z
    <3>4. G = L.buf \o Z
      BY <2>3 DEF Z
    <3> HIDE DEF G, grows
    <3>5. G \in Seq(Content) /\ Len(G) = K + z /\ \A i \in 1 .. K : G[i] = L.buf[i]
      <4> DEFINE b == L.buf
                 H == b \o Z
      <4>1. b \in Seq(Content) /\ K = Len(b) /\ G = H
        BY <1>3, <3>4 DEF K
      <4> HIDE DEF b
      <4>2. /\ H \in Seq(Content) /\ Len(H) = Len(b) + Len(Z)
            /\ \A i \in 1 .. Len(b) + Len(Z) : H[i] = IF i <= Len(b) THEN b[i] ELSE Z[i - Len(b)]
        BY <3>3, <4>1, ConcatProperties
      <4> HIDE DEF H
      <4>3. \A i \in 1 .. K : H[i] = b[i]
        BY <1>3, <3>2, <3>3, <4>1, <4>2
      <4> QED BY <3>3, <4>1, <4>2, <4>3 DEF b
    <3>6. T = G /\ at = L.off
      BY <1>3, <2>3, <3>2, <3>5
    <3> HIDE DEF T, at
    <3>7. i0 = K /\ i0 \in Nat /\ i0 + 1 <= Len(G) /\ i0 = off
      BY <1>3, <3>1, <3>2, <3>5, <3>6
    <3> HIDE DEF i0
    <3> DEFINE o == 0
    <3>8. Run(G, 0, c, o, i0)
      <4>1. ASSUME NEW j \in 1 .. i0 PROVE G[0 + j] = c[o + j]
        <5>1. 0 + j = j /\ o + j = j /\ j \in 1 .. K /\ L.off - L.idx = 0 /\ j \in 1 .. L.idx
          BY <1>3, <3>1, <3>7
        <5>2. L.buf[0 + j] = c[0 + j]
          BY <2>1, <5>1 DEF Run
        <5> QED BY <3>5, <5>1, <5>2
      <4> QED BY <4>1 DEF Run
    <3>9. slot = c[(o + i0) + 1] /\ o \in Int /\ N = [G EXCEPT ![i0 + 1] = slot]
      BY <2>2, <3>6, <3>7
    <3>10. (off + 1) - (i0 + 1) = o /\ ~(off + 1 > Window)
      BY <1>3, <3>1, <3>7
    <3> HIDE DEF N, o, off
    <3>11. Run(N, 0, c, o, i0 + 1)
      BY <3>5, <3>7, <3>8, <3>9, RunWrite
    <3> QED BY <3>10, <3>11
  <2>4. CASE ~grows
    <3> HIDE DEF K
    <3>1. G = L.buf /\ Len(G) = K /\ K > 0 /\ G \in Seq(Content)
      BY <1>3, <2>4 DEF K
    <3>2. L.off < K \/ K >= Window
      BY <1>3, <2>4
    <3> HIDE DEF G, grows
    <3>3. CASE K > Window
      <4> DEFINE d == K - Window
                 S == SubSeq(G, d + 1, d + Window)
      <4>0. d \in Nat /\ d + Window <= Len(G) /\ d + Window = K /\ d > 0
        BY <1>3, <3>1, <3>3
      <4>1. T = S /\ at = Window
        BY <1>3, <3>1, <3>3, <4>0
      <4> HIDE DEF T, at
      <4>2. i0 = 0
        BY <1>3, <4>1
      <4> HIDE DEF i0, d
      <4>3. S \in Seq(Content) /\ Len(S) = Window /\ \A i \in 1 .. Window : S[i] = G[d + i]
        BY <1>3, <3>1, <4>0, SubAt
      <4> HIDE DEF S
      <4>4. L.idx = K
        BY <1>2, <1>3, <3>3 DEF RotFits
      <4> DEFINE g == (off + 1) - Window
                 n == Window - 1
      <4>5. Run(S, i0 + 1, c, g, n)
        <5>1. ASSUME NEW j \in 1 .. n PROVE S[(i0 + 1) + j] = c[g + j]
          <6> DEFINE m == 1 + j
                     e == d + m
          <6>1. (i0 + 1) + j = m /\ m \in 1 .. Window /\ e \in 1 .. K /\ 0 + e = e /\ (off - K) + e = g + j
            BY <1>3, <2>2, <4>0, <4>2
          <6>2. L.buf[0 + e] = c[(off - K) + e]
            <7> HIDE DEF e
            <7> QED BY <2>1, <4>4, <6>1 DEF Run
          <6>3. S[m] = G[e]
            BY <4>3, <6>1
          <6> QED BY <3>1, <6>1, <6>2, <6>3
        <5> QED BY <5>1 DEF Run
      <4>6. /\ i0 \in Nat /\ i0 + 1 <= Len(S) /\ Run(S, 0, c, off, i0) /\ off \in Int /\ slot = c[(off + i0) + 1]
            /\ N = [S EXCEPT ![i0 + 1] = slot] /\ n \in Int /\ (i0 + 1) + n <= Len(S)
        <5>1. Run(S, 0, c, off, i0)
          BY <4>2 DEF Run
        <5> QED BY <1>3, <2>2, <4>1, <4>2, <4>3, <5>1
      <4>7. Len(N) = Window
        <5>1. i0 + 1 \in 1 .. Len(S)
          BY <1>3, <4>2, <4>3
        <5> HIDE DEF N
        <5> QED BY <4>3, <4>6, <5>1, ExceptSeq
      <4>8. (off + 1) - (i0 + 1) = off /\ (off + 1) - Len(N) = g /\ Len(N) - (i0 + 1) = n
        BY <1>3, <2>2, <4>2, <4>7
      <4> HIDE DEF g, n, N, off
      <4>9. Run(N, 0, c, off, i0 + 1)
        BY <4>3, <4>6, RunWrite
      <4>10. Run(N, i0 + 1, c, g, n)
        BY <4>3, <4>5, <4>6, RunBehind
      <4> QED BY <4>8, <4>9, <4>10
    <3>4. CASE K <= Window
      <4>1. T = G /\ at = L.idx
        BY <1>3, <2>4, <3>1, <3>4 DEF grows
      <4> HIDE DEF T, at
      <4>2. i0 = (IF L.idx >= Window THEN 0 ELSE L.idx) /\ L.idx <= K
        BY <1>2, <1>3, <4>1 DEF RotFits
      <4> HIDE DEF i0
      <4>3. i0 \in Nat /\ i0 + 1 <= Len(G) /\ i0 + 1 \in 1 .. Len(G)
        BY <1>2, <1>3, <3>1, <3>2, <3>4, <4>2 DEF RotFits
      <4> DEFINE from == off - i0
                 g == (off + 1) - K
                 n == K - (i0 + 1)
      <4>4. Run(G, 0, c, from, i0)
        <5>1. CASE L.idx >= Window
          BY <1>3, <4>2, <5>1 DEF Run
        <5>2. CASE ~(L.idx >= Window)
          BY <2>1, <3>1, <4>2, <5>2
        <5> QED BY <5>1, <5>2
      <4>5. ASSUME off + 1 > Window PROVE Run(G, i0 + 1, c, g, n)
        <5>1. ASSUME NEW j \in 1 .. n PROVE G[(i0 + 1) + j] = c[g + j]
          <6> DEFINE e == 1 + j
          <6>1. CASE L.idx >= Window
            <7>1. i0 = 0 /\ L.idx = K /\ 0 + e = e /\ e \in 1 .. L.idx /\ (off - K) + e = g + j /\ (i0 + 1) + j = e
              BY <1>3, <2>2, <3>4, <4>2, <6>1
            <7> HIDE DEF e
            <7>2. L.buf[0 + e] = c[(off - L.idx) + e]
              BY <2>1, <7>1 DEF Run
            <7> QED BY <3>1, <7>1, <7>2
          <6>2. CASE ~(L.idx >= Window)
            <7>0. off > Window /\ i0 = L.idx
              BY <1>2, <1>3, <2>2, <4>2, <4>5, <6>2 DEF RotFits
            <7>1. (i0 + 1) + j = L.idx + e /\ (off - K) + e = g + j /\ e \in 1 .. K - L.idx
              <8>1. j \in 1 .. K - (L.idx + 1) /\ L.idx \in Nat /\ K \in Nat /\ off \in Nat
                BY <1>3, <7>0
              <8> HIDE DEF off
              <8> QED BY <7>0, <8>1
            <7> HIDE DEF e
            <7>2. L.buf[L.idx + e] = c[(off - K) + e]
              BY <2>1, <7>0, <7>1 DEF Run
            <7> QED BY <3>1, <7>1, <7>2
          <6> QED BY <6>1, <6>2
        <5> QED BY <5>1 DEF Run
      <4>6. /\ from \in Int /\ slot = c[(from + i0) + 1] /\ N = [G EXCEPT ![i0 + 1] = slot]
            /\ n \in Int /\ (i0 + 1) + n <= Len(G)
        <5>1. from + i0 = off
          BY <2>2, <4>3
        <5> QED BY <1>3, <2>2, <3>1, <4>1, <4>3, <5>1
      <4>7. Len(N) = K
        <5> HIDE DEF N
        <5> QED BY <3>1, <4>3, <4>6, ExceptSeq
      <4>8. (off + 1) - (i0 + 1) = from /\ (off + 1) - Len(N) = g /\ Len(N) - (i0 + 1) = n
        BY <1>3, <2>2, <4>3, <4>7
      <4> HIDE DEF g, n, N, off, from
      <4>9. Run(N, 0, c, from, i0 + 1)
        BY <3>1, <4>3, <4>4, <4>6, RunWrite
      <4>10. ASSUME off + 1 > Window PROVE Run(N, i0 + 1, c, g, n)
        <5>1. Run(G, i0 + 1, c, g, n)
          BY <4>5, <4>10
        <5> QED BY <3>1, <4>3, <4>6, <5>1, RunBehind
      <4> QED BY <4>8, <4>9, <4>10
    <3> QED BY <1>3, <3>3, <3>4 DEF K
  <2> QED BY <2>3, <2>4
<1>8. ASSUME RotRight(L0.buf, L0.off, L0.idx, c), slot = c[L0.off + 1]
      PROVE  RotRight(R.buf, R.off, R.idx, c)
  <2> HIDE DEF N, i0
  <2> QED BY <1>5, <1>7, <1>8 DEF RotRight
<1> QED BY <1>6, <1>8 DEF R

\* What State() clones is the window.
LEMMA RotStateRight ==
  ASSUME NEW L, LayerOK("rot", L), NEW c, RotRight(L.buf, L.off, L.idx, c)
  PROVE RotRight(RotState(L), L.off, L.idx, c)
<1> DEFINE n == Least(L.off, Len(L.buf))
           B == SubSeq(L.buf, 0 + 1, 0 + n)
<1>1. L \in LayerType /\ RotFits(L.off, Len(L.buf), L.idx)
  BY DEF LayerOK, Fits, Shape
<1>2. L.off \in Nat /\ L.idx \in Nat /\ L.buf \in Seq(Content) /\ Len(L.buf) \in Nat /\ Window \in Nat
  BY <1>1, LayerIs, ConstantsAre
<1>3. n \in Nat /\ 0 + n <= Len(L.buf) /\ RotState(L) = B /\ L.idx <= n /\ 0 \in Nat
      /\ (L.off > Window => n = Len(L.buf))
  BY <1>1, <1>2 DEF Least, RotState, RotFits
<1> HIDE DEF n
<1>4. B \in Seq(Content) /\ Len(B) = n /\ \A i \in 1 .. n : B[i] = L.buf[0 + i]
  BY <1>2, <1>3, SubAt
<1> HIDE DEF B
<1>5. Run(B, 0, c, L.off - L.idx, L.idx)
  <2>1. ASSUME NEW j \in 1 .. L.idx PROVE B[0 + j] = c[(L.off - L.idx) + j]
    <3>1. j \in 1 .. n /\ 0 + j = j
      BY <1>2, <1>3
    <3>2. L.buf[0 + j] = c[(L.off - L.idx) + j]
      BY DEF RotRight, Run
    <3> QED BY <1>4, <3>1, <3>2
  <2> QED BY <2>1 DEF Run
<1>6. ASSUME L.off > Window PROVE Run(B, L.idx, c, L.off - Len(B), Len(B) - L.idx)
  <2>1. ASSUME NEW j \in 1 .. n - L.idx PROVE B[L.idx + j] = c[(L.off - n) + j]
    <3>1. L.idx + j \in 1 .. n /\ 0 + (L.idx + j) = L.idx + j /\ n = Len(L.buf)
      BY <1>2, <1>3, <1>6
    <3>2. L.buf[L.idx + j] = c[(L.off - n) + j]
      BY <1>6, <3>1 DEF RotRight, Run
    <3> QED BY <1>4, <3>1, <3>2
  <2> QED BY <1>4, <2>1 DEF Run
<1> QED BY <1>3, <1>5, <1>6 DEF RotRight

\* A window that has not wrapped is right at every earlier offset.
LEMMA RotRewindRight ==
  ASSUME NEW b, NEW off \in Nat, NEW idx, NEW c, RotFits(off, Len(b), idx), RotRight(b, off, idx, c),
         off <= Window, NEW target \in Nat, target <= off
  PROVE RotRight(b, target, target, c)
<1>1. Window \in Nat /\ idx = off
  BY ConstantsAre DEF RotFits
<1>2. off - off = 0 /\ target - target = 0 /\ ~(target > Window)
  BY <1>1
<1>3. Run(b, 0, c, 0, off)
  BY <1>1, <1>2 DEF RotRight
<1>4. Run(b, 0, c, 0, target)
  BY <1>3, RunShorter
<1> QED BY <1>2, <1>4 DEF RotRight

\* Restoring a lazy snapshot of a window keeps the data of all snapshots.
LEMMA RotRestoreLazyKeeps ==
  ASSUME NEW L, LayerOK("rot", L), TakenFits("rot", L), NEW s \in SnapshotSet, IsLazy(s),
         SnapFits("rot", Len(L.buf), s)
  PROVE LET C == CopyOut(L, LazySnapshots(L) \ {s})
            D == [n \in DOMAIN C.snap |-> IF C.snap[n] = s THEN [s EXCEPT !.lo = 0] ELSE C.snap[n]]
            R == [[C EXCEPT !.snap = D] EXCEPT !.buf = Data(L, s), !.off = s.to, !.idx = s.idx]
        IN KeepsSnaps(L, R) /\ R.buf = Data(L, s) /\ R.off = s.to /\ R.idx = s.idx /\ R.spoiled = L.spoiled
<1> DEFINE S == LazySnapshots(L) \ {s}
           C == CopyOut(L, S)
           D == [n \in DOMAIN C.snap |-> IF C.snap[n] = s THEN [s EXCEPT !.lo = 0] ELSE C.snap[n]]
           b == Data(L, s)
           R == [[C EXCEPT !.snap = D] EXCEPT !.buf = b, !.off = s.to, !.idx = s.idx]
           z == [s EXCEPT !.lo = 0]
<1>0. "rot" \in Kinds /\ S \in SUBSET LazySnapshots(L) /\ L \in LayerType
  BY DEF Kinds, LayerOK, Fits
<1>1. /\ LayerOK("rot", C) /\ DOMAIN C.snap = DOMAIN L.snap
      /\ LazySnapshots(C) \in SUBSET (LazySnapshots(L) \ S)
      /\ C.buf = L.buf /\ C.spoiled = L.spoiled /\ KeepsSnaps(L, C)
  <2> HIDE DEF S
  <2> QED BY <1>0, CopyOutIs, CopyOutKeeps
<1>2. LazySnapshots(C) \subseteq {s}
  BY <1>1
<1> HIDE DEF S, C
<1>3. C \in LayerType
  BY <1>1 DEF LayerOK, Fits
<1>4. b \in Seq(Content) /\ Len(b) = s.to - s.from /\ s.from <= s.to /\ Len(b) \in Nat
  BY <1>0, DataIs
<1>5. s.from \in Nat /\ s.to \in Nat /\ s.idx \in Nat /\ s.lo \in Nat
  BY SnapshotIs
<1>6. Data(C, s) = b
  BY <1>1 DEF Data
<1> HIDE DEF b
<1>7. R.snap = D /\ R.buf = b /\ R.off = s.to /\ R.idx = s.idx /\ R.spoiled = C.spoiled
  <2> HIDE DEF D
  <2> QED BY <1>3 DEF LayerType
<1>8. DOMAIN D = DOMAIN C.snap /\ \A n \in DOMAIN C.snap : D[n] = IF C.snap[n] = s THEN z ELSE C.snap[n]
  OBVIOUS
<1>9. z.from = s.from /\ z.to = s.to /\ z.idx = s.idx /\ z.lo = 0 /\ z.data = s.data
  BY DEF SnapshotSet
<1> HIDE DEF z, D, R
<1>10. Data(R, z) = b
  <2> DEFINE n == s.to - s.from
             r == SubSeq(b, 0 + 1, 0 + n)
  <2>1. n \in Nat /\ 0 \in Nat /\ 0 + n <= Len(b) /\ Len(b) = n
    BY <1>4, <1>5
  <2>2. Data(R, z) = r
    <3>1. IsLazy(z)
      BY <1>9 DEF IsLazy
    <3>2. z.lo + 1 = 0 + 1 /\ z.lo + (z.to - z.from) = 0 + n
      BY <1>5, <1>9
    <3> QED BY <1>7, <3>1, <3>2 DEF Data
  <2> HIDE DEF n
  <2>3. r \in Seq(Content) /\ Len(r) = n /\ \A i \in 1 .. n : r[i] = b[0 + i]
    BY <1>4, <2>1, SubAt
  <2> HIDE DEF r
  <2>4. \A i \in 1 .. n : r[i] = b[i]
    BY <2>1, <2>3
  <2>5. r = b
    BY <1>4, <2>1, <2>3, <2>4, SeqEqual
  <2> QED BY <2>2, <2>5
<1>11. ASSUME NEW n \in DOMAIN C.snap PROVE Alike(C, C.snap[n], R, R.snap[n])
  <2>1. CASE C.snap[n] = s
    <3>1. R.snap[n] = z
      BY <1>7, <1>8, <2>1
    <3> QED BY <1>6, <1>9, <1>10, <2>1, <3>1 DEF Alike
  <2>2. CASE C.snap[n] # s
    <3>1. R.snap[n] = C.snap[n]
      BY <1>7, <1>8, <2>2
    <3>2. ~IsLazy(C.snap[n])
      BY <1>2, <2>2 DEF LazySnapshots, Range
    <3> QED BY <3>1, <3>2 DEF Alike, Data
  <2> QED BY <2>1, <2>2
<1>12. KeepsSnaps(L, R)
  <2>1. KeepsSnaps(C, R)
    BY <1>11 DEF KeepsSnaps
  <2> QED BY <1>1, <2>1, KeepsTrans
<1> QED BY <1>1, <1>7, <1>12 DEF R, D, C, S, b

\* RotatingKVCache.Restore brings back what the snapshot carries.
LEMMA RotRestoreRight ==
  ASSUME NEW L, LayerOK("rot", L), TakenFits("rot", L), NEW target \in Nat,
         NEW s \in SnapshotSet \cup {None}, s # None => SnapFits("rot", Len(L.buf), s),
         RotCanRestore(L, s, target), NEW c, RotRight(L.buf, L.off, L.idx, c),
         s # None => Carries("rot", L, s, c, s.to)
  PROVE LET R == RotRestore(L, s, target)
        IN KeepsSnaps(L, R) /\ RotRight(R.buf, R.off, R.idx, c)
<1> DEFINE R == RotRestore(L, s, target)
<1>0. L \in LayerType /\ RotFits(L.off, Len(L.buf), L.idx) /\ L.off \in Nat
  BY LayerIs DEF LayerOK, Fits, Shape
<1>1. CASE s = None
  <2>1. CASE target = L.off
    <3>1. R = L
      BY <1>1, <2>1 DEF RotRestore
    <3> QED BY <3>1, SameKeeps
  <2>2. CASE target # L.off
    <3>1. R = [L EXCEPT !.off = target, !.idx = target]
      BY <1>1, <2>2 DEF RotRestore
    <3> HIDE DEF R
    <3>2. R.buf = L.buf /\ R.off = target /\ R.idx = target /\ R.snap = L.snap
      BY <1>0, <3>1 DEF LayerType
    <3>3. target <= L.off /\ L.off <= Window
      BY <1>0, <1>1, <2>2 DEF RotCanRestore
    <3>4. RotRight(L.buf, target, target, c)
      BY <1>0, <3>3, RotRewindRight
    <3> QED BY <3>2, <3>4, SameKeeps DEF R
  <2> QED BY <2>1, <2>2
<1>2. CASE s # None
  <2> DEFINE C == CopyOut(L, LazySnapshots(L) \ {s})
             D == [n \in DOMAIN C.snap |-> IF C.snap[n] = s THEN [s EXCEPT !.lo = 0] ELSE C.snap[n]]
             lazily == [[C EXCEPT !.snap = D] EXCEPT !.buf = Data(L, s), !.off = s.to, !.idx = s.idx]
             A == CopyOutAll(L)
             owned == [A EXCEPT !.buf = Data(L, s), !.off = s.to, !.idx = s.idx]
             W == IF IsLazy(s) THEN lazily ELSE owned
  <2>1. R = IF target < s.to THEN [W EXCEPT !.off = target, !.idx = target] ELSE W
    BY <1>2 DEF RotRestore
  <2>2. s \in SnapshotSet /\ s.to \in Nat /\ s.idx \in Nat /\ target <= s.to /\ (target < s.to => s.to <= Window) /\ Window \in Nat
    BY <1>2, SnapshotIs, ConstantsAre DEF RotCanRestore
  <2>3. KeepsSnaps(L, W) /\ W.buf = Data(L, s) /\ W.off = s.to /\ W.idx = s.idx /\ DOMAIN W.snap = DOMAIN L.snap /\ W \in LayerType
    <3>1. CASE IsLazy(s)
      <4>1. W = lazily
        BY <3>1
      <4>2. KeepsSnaps(L, lazily) /\ lazily.buf = Data(L, s) /\ lazily.off = s.to /\ lazily.idx = s.idx
        BY <1>2, <2>2, <3>1, RotRestoreLazyKeeps
      <4>3. LayerOK("rot", lazily) /\ Untouched(L, lazily)
        BY <1>2, <2>2, <3>1, RotRestoreLazy
      <4> HIDE DEF W, lazily
      <4> QED BY <4>1, <4>2, <4>3 DEF LayerOK, Fits, Untouched
    <3>2. CASE ~IsLazy(s)
      <4>1. "rot" \in Kinds BY DEF Kinds
      <4>2. LayerOK("rot", A) /\ Untouched(L, A) /\ LazySnapshots(A) = {} /\ KeepsSnaps(L, A)
        BY <4>1, CopyOutAllOK, CopyOutAllKeeps
      <4> HIDE DEF A
      <4>3. W = owned
        BY <3>2
      <4>4. A \in LayerType /\ Data(L, s) \in Seq(Content)
        <5>1. Data(L, s) = s.data
          BY <3>2 DEF Data
        <5> QED BY <2>2, <3>2, <4>2, <5>1, SnapshotIs DEF LayerOK, Fits
      <4> HIDE DEF W
      <4>5. owned.buf = Data(L, s) /\ owned.off = s.to /\ owned.idx = s.idx /\ owned.snap = A.snap /\ owned \in LayerType
        BY <2>2, <4>4 DEF LayerType
      <4> HIDE DEF owned
      <4>6. KeepsSnaps(L, owned)
        <5>1. KeepsSnaps(A, owned)
          BY <4>2, <4>5, OwnedKeeps
        <5> QED BY <4>2, <5>1, KeepsTrans DEF Untouched
      <4> QED BY <4>2, <4>3, <4>5, <4>6 DEF Untouched
    <3> QED BY <3>1, <3>2
  <2> HIDE DEF W
  <2>4. RotRight(W.buf, s.to, s.idx, c)
    BY <1>2, <2>3 DEF Carries, Shows
  <2>5. CASE target < s.to
    <3>1. R = [W EXCEPT !.off = target, !.idx = target]
      BY <2>1, <2>5
    <3> HIDE DEF R
    <3>2. R.buf = W.buf /\ R.off = target /\ R.idx = target /\ R.snap = W.snap
      BY <2>3, <3>1 DEF LayerType
    <3>3. RotFits(s.to, Len(W.buf), s.idx)
      <4>1. Len(Data(L, s)) = IF IsLazy(s) THEN s.to - s.from ELSE Len(s.data)
        BY <1>0, <1>2, <2>2, DataIs
      <4> QED BY <1>2, <2>3, <4>1 DEF SnapFits
    <3>4. RotRight(W.buf, target, target, c)
      BY <2>2, <2>4, <2>5, <3>3, RotRewindRight
    <3>5. KeepsSnaps(L, R)
      <4>1. KeepsSnaps(W, R)
        BY <3>2, SameKeeps
      <4> QED BY <2>3, <4>1, KeepsTrans
    <3> QED BY <3>2, <3>4, <3>5 DEF R
  <2>6. CASE ~(target < s.to)
    BY <2>1, <2>3, <2>4, <2>6
  <2> QED BY <2>5, <2>6
<1> QED BY <1>1, <1>2

-----------------------------------------------------------------------------
(* The Cache interface                                                       *)

\* A restore brings back what the snapshot carries, whatever the kind, and keeps the
\* data of the snapshots on the trie.
LEMMA RestoreRight ==
  ASSUME NEW k \in Kinds, NEW L, LayerOK(k, L), TakenFits(k, L), NEW target \in Nat, NEW s, Fit(k, L, s),
         CanRestore(k, L, s, target), NEW c, Live(k, L, c), s # None => Carries(k, L, s, c, s.to)
  PROVE LET R == Restore(k, L, s, target)
        IN ~R.spoiled => KeepsSnaps(L, R) /\ Live(k, R, c)
<1>0. L \in LayerType /\ s \in SnapshotSet \cup {None} /\ (s # None => SnapFits(k, Len(L.buf), s))
  BY DEF LayerOK, Fits, Fit
<1>1. CASE k = "kv"
  <2> DEFINE R == KVRestore(L, s, target)
  <2>1. Restore(k, L, s, target) = R /\ KVCanRestore(L, s, target) /\ Run(L.buf, 0, c, 0, L.off)
    BY <1>1 DEF Restore, CanRestore, Live
  <2>2. ~R.spoiled => KeepsSnaps(L, R) /\ Run(R.buf, 0, c, 0, R.off)
    BY <1>0, <1>1, <2>1, KVRestoreRight
  <2> HIDE DEF R
  <2>3. Run(R.buf, 0, c, 0, R.off) => Live(k, R, c)
    BY <1>1 DEF Live
  <2> QED BY <2>1, <2>2, <2>3
<1>2. CASE k = "rot"
  <2> DEFINE R == RotRestore(L, s, target)
  <2>1. Restore(k, L, s, target) = R /\ RotCanRestore(L, s, target) /\ RotRight(L.buf, L.off, L.idx, c)
    BY <1>2 DEF Restore, CanRestore, Live
  <2>2. KeepsSnaps(L, R) /\ RotRight(R.buf, R.off, R.idx, c)
    BY <1>0, <1>2, <2>1, RotRestoreRight
  <2> HIDE DEF R
  <2>3. Live(k, R, c)
    BY <1>2, <2>2 DEF Live
  <2> QED BY <2>1, <2>2, <2>3
<1>3. CASE k = "rnn"
  <2> DEFINE R == RnnRestore(L, s, target)
  <2>1. Restore(k, L, s, target) = R /\ RnnCanRestore(L, s, target) /\ RnnState(L) = c[L.off]
    BY <1>3 DEF Restore, CanRestore, Live
  <2>2. CASE s = None
    <3>1. R = L
      BY <2>2 DEF RnnRestore
    <3> QED BY <2>1, <3>1, SameKeeps
  <2>3. CASE s # None
    <3>1. R = [L EXCEPT !.buf = s.data, !.off = s.to]
      BY <2>3 DEF RnnRestore
    <3>2. ~IsLazy(s) /\ s.data # <<>> /\ s \in SnapshotSet
      BY <1>0, <1>3, <2>3 DEF SnapFits
    <3>3. s.data = <<c[s.to]>>
      <4>1. Data(L, s) = s.data
        BY <3>2 DEF Data
      <4> QED BY <1>3, <2>3, <4>1 DEF Carries, Shows
    <3> HIDE DEF R
    <3>4. R.buf = s.data /\ R.off = s.to /\ R.snap = L.snap
      BY <1>0, <3>1 DEF LayerType
    <3>5. RnnState(R) = c[s.to]
      BY <3>2, <3>3, <3>4 DEF RnnState
    <3>6. Live(k, R, c)
      BY <1>3, <3>4, <3>5 DEF Live
    <3>7. KeepsSnaps(L, R)
      <4>1. LazySnapshots(L) = {}
        BY <1>3, NotLazyRnn
      <4> QED BY <3>4, <4>1, OwnedKeeps
    <3> QED BY <2>1, <3>6, <3>7
  <2> QED BY <2>2, <2>3
<1> QED BY <1>1, <1>2, <1>3 DEF Kinds

\* A freed layer holds nothing and keeps the data of the snapshots on the trie.
LEMMA FreeRight ==
  ASSUME NEW k \in Kinds, NEW L, LayerOK(k, L), TakenFits(k, L), NEW c, c[0] = <<>>
  PROVE LET R == Free(k, L) IN KeepsSnaps(L, R) /\ Live(k, R, c) /\ R.spoiled = L.spoiled
<1> DEFINE A == CopyOutAll(L)
           R == Free(k, L)
<1>1. LayerOK(k, A) /\ LazySnapshots(A) = {} /\ Untouched(L, A) /\ KeepsSnaps(L, A) /\ A.spoiled = L.spoiled
  BY CopyOutAllOK, CopyOutAllKeeps
<1>2. R = [A EXCEPT !.buf = <<>>, !.off = 0, !.idx = 0, !.rewound = FALSE, !.due = {}, !.taken = <<>>]
  BY DEF Free
<1> HIDE DEF A, R
<1>3. R.buf = <<>> /\ R.off = 0 /\ R.idx = 0 /\ R.snap = A.snap /\ R.spoiled = A.spoiled
  <2>1. A \in LayerType
    BY <1>1 DEF LayerOK, Fits
  <2> QED BY <1>2, <2>1 DEF LayerType
<1>4. KeepsSnaps(L, R)
  <2>1. KeepsSnaps(A, R)
    BY <1>1, <1>3, OwnedKeeps
  <2> QED BY <1>1, <2>1, KeepsTrans DEF Untouched
<1>5. Live(k, R, c)
  <2>1. Run(R.buf, 0, c, 0, R.off)
    BY <1>3 DEF Run
  <2>2. RotRight(R.buf, R.off, R.idx, c)
    <3>1. Window \in Nat /\ ~(0 > Window) /\ 0 - 0 = 0
      BY ConstantsAre
    <3>2. Run(R.buf, 0, c, 0 - 0, 0)
      BY DEF Run
    <3> QED BY <1>3, <3>1, <3>2 DEF RotRight
  <2>3. RnnState(R) = c[R.off]
    BY <1>3 DEF RnnState
  <2> QED BY <2>1, <2>2, <2>3 DEF Live
<1> QED BY <1>1, <1>3, <1>4, <1>5 DEF R

-----------------------------------------------------------------------------
(* What is captured, merged and split                                        *)

\* The data of a lazy snapshot are a run of the buffer.
LEMMA LazyRun ==
  ASSUME NEW L \in LayerType, NEW s \in SnapshotSet, IsLazy(s), s.from <= s.to,
         s.lo + (s.to - s.from) <= Len(L.buf), NEW c, NEW f
  PROVE /\ Len(Data(L, s)) = s.to - s.from
        /\ Run(Data(L, s), 0, c, f, s.to - s.from) <=> Run(L.buf, s.lo, c, f, s.to - s.from)
<1> DEFINE n == s.to - s.from
           lo == s.lo
           b == L.buf
           r == SubSeq(b, lo + 1, lo + n)
<1>1. lo \in Nat /\ n \in Nat /\ lo + n = s.lo + s.to - s.from /\ b \in Seq(Content) /\ lo + n <= Len(b)
  BY SnapshotIs, LayerIs
<1>2. Data(L, s) = r
  BY <1>1 DEF Data
<1> HIDE DEF n, lo, b
<1>3. Len(r) = n /\ \A i \in 1 .. n : r[i] = b[lo + i]
  BY <1>1, SubAt
<1> HIDE DEF r
<1>4. Run(r, 0, c, f, n) <=> Run(b, lo, c, f, n)
  <2>1. \A i \in 1 .. n : 0 + i = i
    BY <1>1
  <2> QED BY <1>3, <2>1 DEF Run
<1> QED BY <1>2, <1>3, <1>4 DEF n, lo, b

\* KVCache.Snapshot.
LEMMA KVSnapshotRight ==
  ASSUME NEW L \in LayerType, NEW from \in Nat, NEW to \in Nat, to <= Len(L.buf), NEW c, NEW m \in Nat, to <= m,
         Run(L.buf, 0, c, 0, m)
  PROVE LET s == KVSnapshot(L, from, to) IN s # None => Carries("kv", L, s, c, to)
<1> DEFINE s == KVSnapshot(L, from, to)
<1> SUFFICES ASSUME s # None PROVE Carries("kv", L, s, c, to)
  OBVIOUS
<1>1. from < to /\ s = LazySnapshot(from, to, from, 0)
  BY DEF KVSnapshot
<1> HIDE DEF s
<1>2. s \in SnapshotSet /\ IsLazy(s) /\ s.from = from /\ s.to = to /\ s.lo = from
  <2> DEFINE z == 0
  <2>1. z \in Nat /\ s = LazySnapshot(from, to, from, z)
    BY <1>1
  <2> HIDE DEF z
  <2>2. from \in Nat /\ to \in Nat
    OBVIOUS
  <2> QED BY ONLY <2>1, <2>2, LazyIs
<1>3. Run(L.buf, from, c, from, to - from)
  <2>1. ASSUME NEW i \in 1 .. to - from PROVE L.buf[from + i] = c[from + i]
    <3>1. from + i \in 1 .. m /\ 0 + (from + i) = from + i
      OBVIOUS
    <3> QED BY <3>1 DEF Run
  <2> QED BY <2>1 DEF Run
<1>4. Len(Data(L, s)) = s.to - s.from /\ Run(Data(L, s), 0, c, from, s.to - s.from)
  <2>1. s.from <= s.to /\ s.lo + (s.to - s.from) <= Len(L.buf) /\ Run(L.buf, s.lo, c, from, s.to - s.from)
    BY <1>1, <1>2, <1>3
  <2> QED BY <1>2, <2>1, LazyRun
<1> QED BY <1>1, <1>2, <1>4 DEF Carries, Shows

\* RotatingKVCache.Snapshot.
LEMMA RotSnapshotRight ==
  ASSUME NEW L, LayerOK("rot", L), NEW from \in Nat, NEW c, RotRight(L.buf, L.off, L.idx, c)
  PROVE LET s == RotSnapshot(L, from) IN s # None => Carries("rot", L, s, c, L.off)
<1> DEFINE s == RotSnapshot(L, from)
           b == RotState(L)
           f == L.off
           i == L.idx
<1> SUFFICES ASSUME s # None PROVE Carries("rot", L, s, c, L.off)
  OBVIOUS
<1>1. s = OwnedSnapshot(from, f, i, b)
  BY DEF RotSnapshot
<1>2. f \in Nat /\ i \in Nat /\ b \in Seq(Content)
  <2>1. L \in LayerType
    BY DEF LayerOK, Fits
  <2>2. L.off \in Nat /\ L.buf \in Seq(Content) /\ Len(L.buf) \in Nat /\ L.idx \in Nat
    BY <2>1, LayerIs
  <2> DEFINE e == Least(L.off, Len(L.buf))
  <2>3. e \in Nat /\ e <= Len(L.buf) /\ b = SubSeq(L.buf, 1, e)
    BY <2>2 DEF Least, RotState
  <2> HIDE DEF e, b
  <2> QED BY <2>2, <2>3, SubIs
<1>3. RotRight(b, f, i, c)
  BY RotStateRight
<1> HIDE DEF s, b
<1>4. s.to = f /\ s.idx = i /\ s.data = b /\ ~IsLazy(s)
  <2> HIDE DEF f, i
  <2> QED BY <1>1, <1>2, OwnedIs
<1> QED BY <1>3, <1>4 DEF Carries, Shows, Data

\* A lazy capture of a window in order.
LEMMA RotLazyRight ==
  ASSUME NEW A, LayerOK("rot", A), NEW o \in Nat, o <= A.off, Fit("rot", A, RotLazySnapshot(A, o)),
         Len(A.buf) <= A.off, A.off - Len(A.buf) <= o - Least(o, Window), NEW c, InOrder(A, c)
  PROVE Carries("rot", A, RotLazySnapshot(A, o), c, o)
<1> DEFINE live == Least(o, Window)
           from == o - live
           g == A.off - Len(A.buf)
           lo == o - live - g
           s == RotLazySnapshot(A, o)
<1>1. A \in LayerType
  BY DEF LayerOK, Fits
<1>2. A.off \in Nat /\ Len(A.buf) \in Nat /\ Window \in Nat /\ Window > 0
  BY <1>1, LayerIs, ConstantsAre
<1>3. live \in Nat /\ live <= o /\ g <= o - live
  BY <1>2 DEF Least
<1>4. from \in Nat /\ lo \in Nat /\ lo + live <= Len(A.buf) /\ g + lo = from /\ g \in Int /\ from + live = o
      /\ live <= Len(A.buf) - lo
  <2> DEFINE m == Len(A.buf)
             e == A.off
  <2>1. m \in Nat /\ e \in Nat /\ o \in Nat /\ live \in Nat /\ live <= o /\ m <= e /\ o <= e /\ g <= o - live /\ g = e - m
    BY <1>2, <1>3
  <2> HIDE DEF live, m, e, g
  <2>2. g \in Nat
    BY ONLY <2>1
  <2>3. (o - live) \in Nat /\ (o - live) - g \in Nat /\ ((o - live) - g) + live <= m /\ g + ((o - live) - g) = o - live
        /\ (o - live) + live = o /\ live <= m - ((o - live) - g)
    BY ONLY <2>1, <2>2
  <2>4. lo = (o - live) - g
    OBVIOUS
  <2> HIDE DEF lo
  <2> QED BY ONLY <2>2, <2>3, <2>4 DEF m, from
<1>5. s = LazySnapshot(from, o, lo, live)
  BY DEF RotLazySnapshot
<1>6. s \in SnapshotSet /\ IsLazy(s) /\ s.from = from /\ s.to = o /\ s.lo = lo /\ s.idx = live
  <2> HIDE DEF from, lo, live, s, g
  <2>1. o \in Nat /\ from \in Nat /\ lo \in Nat /\ live \in Nat
    BY <1>3, <1>4
  <2> QED BY ONLY <1>5, <2>1, LazyIs
<1> HIDE DEF s
<1>7. Run(A.buf, lo, c, from, live)
  <2> HIDE DEF live, from, lo
  <2>1. ASSUME NEW j \in 1 .. live PROVE A.buf[lo + j] = c[from + j]
    <3>1. lo + j \in 1 .. Len(A.buf) /\ 0 + (lo + j) = lo + j /\ g + (lo + j) = from + j
      <4> DEFINE m == Len(A.buf)
      <4>1. lo \in Nat /\ live \in Nat /\ from \in Nat /\ m \in Nat /\ g \in Int /\ lo + live <= m /\ g + lo = from /\ j \in 1 .. live
        BY <1>2, <1>3, <1>4
      <4> HIDE DEF m, g
      <4>2. lo + j \in 1 .. m /\ 0 + (lo + j) = lo + j /\ g + (lo + j) = from + j
        BY ONLY <4>1
      <4> QED BY <4>2 DEF m
    <3>2. Run(A.buf, 0, c, g, Len(A.buf))
      BY DEF InOrder
    <3> HIDE DEF g
    <3> QED BY <3>1, <3>2 DEF Run
  <2> QED BY <2>1 DEF Run
<1> HIDE DEF from, lo, live, g
<1>8. Len(Data(A, s)) = live /\ Run(Data(A, s), 0, c, from, live)
  <2>1. s.to - s.from = live /\ s.from <= s.to /\ s.lo + (s.to - s.from) <= Len(A.buf)
    BY <1>3, <1>4, <1>6
  <2>2. Len(Data(A, s)) = s.to - s.from /\ (Run(Data(A, s), 0, c, from, s.to - s.from) <=> Run(A.buf, s.lo, c, from, s.to - s.from))
    BY <1>1, <1>6, <2>1, LazyRun
  <2> QED BY <1>6, <1>7, <2>1, <2>2
<1>9. RotRight(Data(A, s), o, live, c)
  <2>1. o - live = from /\ Len(Data(A, s)) - live = 0
    BY <1>3, <1>4, <1>8
  <2>2. Run(Data(A, s), live, c, o - Len(Data(A, s)), 0)
    BY DEF Run
  <2> QED BY <1>8, <2>1, <2>2 DEF RotRight
<1> QED BY <1>6, <1>9 DEF Carries, Shows, s

\* RecurrentCache's snapshot of a state.
LEMMA RnnSnapshotRight ==
  ASSUME NEW L, NEW state \in Content, NEW o \in Nat, NEW c, state = c[o]
  PROVE Carries("rnn", L, RnnSnapshot(state, o), c, o)
<1> DEFINE s == RnnSnapshot(state, o)
           b == <<state>>
<1>1. b \in Seq(Content) /\ s = OwnedSnapshot(0, o, 0, b)
  BY DEF RnnSnapshot
<1> HIDE DEF b, s
<1>2. ~IsLazy(s) /\ s.to = o /\ s.data = b
  BY <1>1, OwnedIs
<1> QED BY <1>2 DEF Carries, Shows, Data, s, b

\* Snapshot of any kind holds what the layer does.
LEMMA SnapshotRight ==
  ASSUME NEW k \in Kinds, NEW L, LayerOK(k, L), NEW from \in Nat, NEW c, Live(k, L, c)
  PROVE LET s == Snapshot(k, L, from) IN s # None => Carries(k, L, s, c, L.off)
<1> DEFINE s == Snapshot(k, L, from)
<1> SUFFICES ASSUME s # None PROVE Carries(k, L, s, c, L.off)
  OBVIOUS
<1>0. L \in LayerType /\ L.off \in Nat /\ Len(L.buf) \in Nat /\ L.buf \in Seq(Content)
  <2>1. L \in LayerType BY DEF LayerOK, Fits
  <2> QED BY <2>1, LayerIs
<1>1. CASE k = "kv"
  <2>1. L.off <= Len(L.buf) /\ s = KVSnapshot(L, from, L.off) /\ Run(L.buf, 0, c, 0, L.off)
    BY <1>1 DEF LayerOK, Fits, Shape, Snapshot, Live
  <2> HIDE DEF s
  <2> QED BY <1>0, <1>1, <2>1, KVSnapshotRight DEF s
<1>2. CASE k = "rot"
  <2>1. s = RotSnapshot(L, from) /\ RotRight(L.buf, L.off, L.idx, c)
    BY <1>2 DEF Snapshot, Live
  <2> HIDE DEF s
  <2> QED BY <1>2, <2>1, RotSnapshotRight DEF s
<1>3. CASE k = "rnn"
  <2>1. s = RnnCurrent(L) /\ RnnState(L) = c[L.off]
    BY <1>3 DEF Snapshot, Live
  <2>2. L.buf # <<>> /\ s = RnnSnapshot(L.buf[1], L.off) /\ L.buf[1] = c[L.off]
    BY <2>1 DEF RnnCurrent, RnnState
  <2> HIDE DEF s
  <2>3. L.buf[1] \in Content
    <3>1. Len(L.buf) # 0
      BY <1>0, <2>2, EmptySeq
    <3> QED BY <1>0, <3>1
  <2> QED BY <1>0, <1>3, <2>2, <2>3, RnnSnapshotRight DEF s
<1> QED BY <1>1, <1>2, <1>3 DEF Kinds

\* Merge of two snapshots of one text that meet holds the later of them.
LEMMA MergeRight ==
  ASSUME NEW k \in Kinds, NEW L \in LayerType, NEW p, NEW q, Fit(k, L, p), Fit(k, L, q), NEW d, NEW a, NEW b \in Nat,
         p # None => Carries(k, L, p, d, a), q # None => Carries(k, L, q, d, b), k = "kv" => ~Overlap(p, q)
  PROVE LET r == Merge(k, L, p, q) IN r # None => Carries(k, L, r, d, b)
<1> DEFINE r == Merge(k, L, p, q)
<1> SUFFICES ASSUME r # None PROVE Carries(k, L, r, d, b)
  OBVIOUS
<1>1. CASE k # "kv"
  BY <1>1 DEF Merge
<1>2. CASE k = "kv"
  <2>0. p # None /\ q # None
    BY <1>2 DEF Merge, KVMerge
  <2>1. /\ p \in SnapshotSet /\ q \in SnapshotSet /\ SnapFits("kv", Len(L.buf), p) /\ SnapFits("kv", Len(L.buf), q)
        /\ p.to = q.from /\ p.to = a /\ q.to = b /\ Shows(k, p, Data(L, p), d, a) /\ Shows(k, q, Data(L, q), d, b)
    BY <1>2, <2>0 DEF Fit, Overlap, Carries, Shows
  <2>2. p.from \in Nat /\ p.to \in Nat /\ q.from \in Nat /\ q.to \in Nat /\ Len(L.buf) \in Nat /\ L.buf \in Seq(Content)
    BY <2>1, SnapshotIs, LayerIs
  <2>3. /\ p.from <= a /\ Len(Data(L, p)) = a - p.from /\ Run(Data(L, p), 0, d, p.from, a - p.from)
        /\ q.from <= b /\ Len(Data(L, q)) = b - q.from /\ Run(Data(L, q), 0, d, q.from, b - q.from)
    BY <1>2, <2>1 DEF Shows
  <2>4. CASE IsLazy(p) /\ IsLazy(q)
    <3>1. r = LazySnapshot(p.from, q.to, p.from, 0)
      BY <1>2, <2>0, <2>1, <2>4 DEF Merge, KVMerge
    <3> HIDE DEF r
    <3>2. r \in SnapshotSet /\ IsLazy(r) /\ r.from = p.from /\ r.to = q.to /\ r.lo = p.from
      <4> DEFINE z == 0
                 x == p.from
                 e == q.to
      <4>1. z \in Nat /\ x \in Nat /\ e \in Nat /\ r = LazySnapshot(x, e, x, z)
        BY <2>2, <3>1
      <4> HIDE DEF x, e, z
      <4>2. r \in SnapshotSet /\ IsLazy(r) /\ r.from = x /\ r.to = e /\ r.lo = x
        BY <4>1, LazyIs
      <4> QED BY <4>2 DEF x, e
    <3>3. p.lo = p.from /\ p.from <= p.to /\ p.to <= Len(L.buf) /\ q.lo = q.from /\ q.from <= q.to /\ q.to <= Len(L.buf)
      BY <2>1, <2>4 DEF SnapFits
    <3>4. Run(L.buf, p.from, d, p.from, p.to - p.from)
      <4>1. p.lo + (p.to - p.from) <= Len(L.buf)
        BY <2>2, <3>3
      <4>2. Run(Data(L, p), 0, d, p.from, p.to - p.from) <=> Run(L.buf, p.lo, d, p.from, p.to - p.from)
        BY <2>1, <2>4, <3>3, <4>1, LazyRun
      <4> QED BY <2>1, <2>3, <3>3, <4>2
    <3>5. Run(L.buf, q.from, d, q.from, q.to - q.from)
      <4>1. q.lo + (q.to - q.from) <= Len(L.buf)
        BY <2>2, <3>3
      <4>2. Run(Data(L, q), 0, d, q.from, q.to - q.from) <=> Run(L.buf, q.lo, d, q.from, q.to - q.from)
        BY <2>1, <2>4, <3>3, <4>1, LazyRun
      <4> QED BY <2>1, <2>3, <3>3, <4>2
    <3>6. ASSUME NEW i \in 1 .. b - p.from PROVE L.buf[p.from + i] = d[p.from + i]
      <4>1. CASE i <= a - p.from
        <5>1. i \in 1 .. p.to - p.from
          BY <2>1, <2>2, <4>1
        <5> QED BY <3>4, <5>1 DEF Run
      <4>2. CASE i > a - p.from
        <5> DEFINE j == (p.from + i) - q.from
        <5>1. j \in 1 .. q.to - q.from /\ q.from + j = p.from + i
          BY <2>1, <2>2, <4>2
        <5> HIDE DEF j
        <5>2. L.buf[q.from + j] = d[q.from + j]
          BY <3>5, <5>1 DEF Run
        <5> QED BY <5>1, <5>2
      <4> QED BY <2>1, <2>2, <4>1, <4>2
    <3>7. Run(L.buf, r.lo, d, r.from, r.to - r.from) /\ r.from <= r.to /\ r.lo + (r.to - r.from) <= Len(L.buf)
      BY <2>1, <2>2, <3>2, <3>3, <3>6 DEF Run
    <3>8. Len(Data(L, r)) = r.to - r.from /\ Run(Data(L, r), 0, d, r.from, r.to - r.from)
      BY <3>2, <3>7, LazyRun
    <3> QED BY <1>2, <2>1, <3>2, <3>7, <3>8 DEF Carries, Shows, r
  <2>5. CASE ~(IsLazy(p) /\ IsLazy(q))
    <3> DEFINE x == Data(L, p)
               y == Data(L, q)
               e == x \o y
               f == p.from
               m == a - p.from
               n == b - q.from
    <3>1. r = OwnedSnapshot(f, b, 0, e)
      BY <1>2, <2>0, <2>1, <2>5 DEF Merge, KVMerge
    <3>2. x \in Seq(Content) /\ y \in Seq(Content)
      BY <2>1, DataIs
    <3>0. Len(x) = m /\ Len(y) = n /\ Run(x, 0, d, f, m) /\ Run(y, 0, d, q.from, n)
      BY <2>3
    <3>3. /\ f \in Nat /\ f \in Int /\ m \in Nat /\ n \in Nat /\ f + m = q.from /\ m + n = b - f /\ f <= b
      <4> HIDE DEF r, x, y, e
      <4> QED BY <2>1, <2>2, <2>3
    <3> HIDE DEF x, y, m, n, f, r
    <3>4. e \in Seq(Content) /\ Len(e) = m + n /\ Run(e, 0, d, f, m + n)
      BY <3>0, <3>2, <3>3, RunConcat
    <3> HIDE DEF e
    <3>5. r \in SnapshotSet /\ ~IsLazy(r) /\ r.from = f /\ r.to = b /\ r.data = e
      <4> DEFINE z == 0
      <4>1. z \in Nat /\ f \in Nat /\ b \in Nat /\ e \in Seq(Content) /\ r = OwnedSnapshot(f, b, z, e)
        BY <3>1, <3>3, <3>4
      <4> HIDE DEF z
      <4> QED BY ONLY <4>1, OwnedIs
    <3> QED BY <1>2, <3>3, <3>4, <3>5 DEF Carries, Shows, Data, r
  <2> QED BY <2>4, <2>5
<1> QED BY <1>1, <1>2

\* Each half of a split holds the text up to its end.
LEMMA SplitRight ==
  ASSUME NEW k \in Kinds, NEW L \in LayerType, NEW s, Fit(k, L, s), NEW at \in Nat, NEW d, NEW b \in Nat, at < b,
         s # None => Carries(k, L, s, d, b)
  PROVE LET h == Split(k, L, s, at)
        IN (h[1] # None => Carries(k, L, h[1], d, at)) /\ (h[2] # None => Carries(k, L, h[2], d, b))
<1>1. CASE k # "kv"
  <2>1. Split(k, L, s, at) = <<None, s>>
    BY <1>1 DEF Split
  <2> QED BY <2>1
<1>2. CASE k = "kv" /\ s = None
  <2>1. Split(k, L, s, at) = <<None, None>>
    BY <1>2 DEF Split, KVSplit
  <2> QED BY <2>1
<1>3. CASE k = "kv" /\ s # None
  <2>1. /\ s \in SnapshotSet /\ SnapFits("kv", Len(L.buf), s) /\ s.from \in Nat /\ s.to \in Nat /\ Len(L.buf) \in Nat
        /\ L.buf \in Seq(Content) /\ s.to = b /\ s.from <= b
        /\ Len(Data(L, s)) = b - s.from /\ Run(Data(L, s), 0, d, s.from, b - s.from)
    BY <1>3, SnapshotIs, LayerIs DEF Fit, Carries, Shows
  <2>2. CASE at <= s.from
    <3>1. Split(k, L, s, at) = <<None, s>>
      BY <1>3, <2>1, <2>2 DEF Split, KVSplit
    <3> QED BY <1>3, <3>1
  <2>4. CASE ~(at <= s.from) /\ IsLazy(s)
    <3> DEFINE u == LazySnapshot(s.from, at, s.from, 0)
               v == LazySnapshot(at, s.to, at, 0)
    <3>1. Split(k, L, s, at) = <<u, v>>
      BY <1>3, <2>1, <2>4 DEF Split, KVSplit
    <3>2. /\ u \in SnapshotSet /\ IsLazy(u) /\ u.from = s.from /\ u.to = at /\ u.lo = s.from
          /\ v \in SnapshotSet /\ IsLazy(v) /\ v.from = at /\ v.to = s.to /\ v.lo = at
      <4> DEFINE z == 0
                 a == s.from
                 e == s.to
      <4>1. z \in Nat /\ a \in Nat /\ e \in Nat /\ u = LazySnapshot(a, at, a, z) /\ v = LazySnapshot(at, e, at, z)
        BY <2>1
      <4> HIDE DEF u, v, a, e, z
      <4>2. /\ u \in SnapshotSet /\ IsLazy(u) /\ u.from = a /\ u.to = at /\ u.lo = a
            /\ v \in SnapshotSet /\ IsLazy(v) /\ v.from = at /\ v.to = e /\ v.lo = at
        BY <4>1, LazyIs
      <4> QED BY <4>2 DEF a, e
    <3> HIDE DEF u, v
    <3>3. s.lo = s.from /\ s.from <= s.to /\ s.to <= Len(L.buf)
      BY <2>1, <2>4 DEF SnapFits
    <3>4. Run(L.buf, s.from, d, s.from, b - s.from)
      <4>1. s.lo + (s.to - s.from) <= Len(L.buf)
        BY <2>1, <3>3
      <4>2. Run(Data(L, s), 0, d, s.from, s.to - s.from) <=> Run(L.buf, s.lo, d, s.from, s.to - s.from)
        BY <2>1, <2>4, <3>3, <4>1, LazyRun
      <4> QED BY <2>1, <3>3, <4>2
    <3>5. Carries(k, L, u, d, at)
      <4>1. Run(L.buf, u.lo, d, u.from, u.to - u.from)
        <5> DEFINE n == b - s.from
                   m == at - s.from
        <5>1. n \in Int /\ m \in Int /\ m <= n /\ Run(L.buf, s.from, d, s.from, n)
          BY <2>1, <3>4
        <5> HIDE DEF n, m
        <5>2. Run(L.buf, s.from, d, s.from, m)
          BY <5>1, RunShorter
        <5> QED BY <3>2, <5>2 DEF m
      <4>2. u.from <= u.to /\ u.lo + (u.to - u.from) <= Len(L.buf)
        BY <2>1, <2>4, <3>2, <3>3
      <4>3. Len(Data(L, u)) = u.to - u.from /\ Run(Data(L, u), 0, d, u.from, u.to - u.from)
        BY <3>2, <4>1, <4>2, LazyRun
      <4> QED BY <1>3, <3>2, <4>2, <4>3 DEF Carries, Shows
    <3>6. Carries(k, L, v, d, b)
      <4>1. Run(L.buf, v.lo, d, v.from, v.to - v.from)
        <5>1. ASSUME NEW i \in 1 .. b - at PROVE L.buf[at + i] = d[at + i]
          <6> DEFINE j == (at + i) - s.from
          <6>1. j \in 1 .. b - s.from /\ s.from + j = at + i
            BY <2>1, <2>4
          <6> HIDE DEF j
          <6>2. L.buf[s.from + j] = d[s.from + j]
            BY <3>4, <6>1 DEF Run
          <6> QED BY <6>1, <6>2
        <5> QED BY <2>1, <3>2, <5>1 DEF Run
      <4>2. v.from <= v.to /\ v.lo + (v.to - v.from) <= Len(L.buf)
        BY <2>1, <3>2, <3>3
      <4>3. Len(Data(L, v)) = v.to - v.from /\ Run(Data(L, v), 0, d, v.from, v.to - v.from)
        BY <3>2, <4>1, <4>2, LazyRun
      <4> QED BY <1>3, <2>1, <3>2, <4>2, <4>3 DEF Carries, Shows
    <3> QED BY <3>1, <3>5, <3>6
  <2>5. CASE ~(at <= s.from) /\ ~IsLazy(s)
    <3> DEFINE f == s.from
               e == Least(Len(s.data), s.to - s.from)
               kept == SubSeq(s.data, 1, e)
               upper == Least(at - s.from, Len(kept))
               x == SubSeq(kept, 1, upper)
               y == SubSeq(kept, upper + 1, Len(kept))
               u == OwnedSnapshot(s.from, at, 0, x)
               v == OwnedSnapshot(at, s.to, 0, y)
               n == b - f
               m == at - f
    <3>1. Split(k, L, s, at) = <<u, v>>
      <4>1. at > s.from /\ ~(at >= s.to)
        BY <2>1, <2>5
      <4> QED BY <1>3, <2>5, <4>1 DEF Split, KVSplit
    <3>2. /\ s.data \in Seq(Content) /\ Len(s.data) = n /\ Run(s.data, 0, d, f, n) /\ n \in Nat /\ m \in Nat /\ m < n /\ f \in Nat
          /\ at + (n - m) = b /\ f + m = at /\ n - m = b - at
      BY <2>1, <2>5, SnapshotIs DEF Data
    <3>3. e = n
      BY <2>1, <3>2 DEF Least
    <3>4. kept = SubSeq(s.data, 0 + 1, 0 + n)
      <4>1. 0 + 1 = 1 /\ 0 + n = e
        BY <3>2, <3>3
      <4> HIDE DEF e, n
      <4> QED BY <4>1
    <3> HIDE DEF e, kept
    <3>5. kept \in Seq(Content) /\ Len(kept) = n /\ Run(kept, 0, d, f, n)
      <4> DEFINE w == SubSeq(s.data, 0 + 1, 0 + n)
      <4>1. 0 \in Nat /\ 0 + n <= Len(s.data)
        BY <3>2
      <4> HIDE DEF n
      <4>2. w \in Seq(Content) /\ Len(w) = n
        BY <3>2, <4>1, SubAt
      <4>3. Run(w, 0, d, f, n)
        BY <3>2, <4>1, RunSub
      <4> QED BY <3>4, <4>2, <4>3
    <3>6. upper = m
      BY <3>2, <3>5 DEF Least
    <3>7. x = SubSeq(kept, 0 + 1, 0 + m) /\ y = SubSeq(kept, m + 1, m + (n - m))
      <4>1. 0 + 1 = 1 /\ 0 + m = upper /\ upper + 1 = m + 1 /\ m + (n - m) = Len(kept)
        <5>1. m \in Nat /\ n \in Nat /\ Len(kept) = n /\ upper = m
          BY <3>2, <3>5, <3>6
        <5> HIDE DEF upper, n, m
        <5> QED BY ONLY <5>1
      <4> DEFINE h == n - m
      <4>2. m + h = Len(kept)
        BY <4>1
      <4> HIDE DEF upper, n, h
      <4> QED BY <4>1, <4>2 DEF h
    <3> HIDE DEF upper, x, y, n, m, f
    <3>8. x \in Seq(Content) /\ Len(x) = m /\ Run(x, 0, d, f, m)
      <4> DEFINE w == SubSeq(kept, 0 + 1, 0 + m)
      <4>1. 0 \in Nat /\ 0 + m <= Len(kept) /\ Run(kept, 0, d, f, m)
        BY <3>2, <3>5, RunShorter
      <4>2. w \in Seq(Content) /\ Len(w) = m
        BY <3>2, <3>5, <4>1, SubAt
      <4>3. Run(w, 0, d, f, m)
        BY <3>2, <3>5, <4>1, RunSub
      <4> QED BY <3>7, <4>2, <4>3
    <3>9. y \in Seq(Content) /\ Len(y) = n - m /\ Run(y, 0, d, at, n - m)
      <4> DEFINE h == n - m
                 w == SubSeq(kept, m + 1, m + h)
      <4>1. h \in Nat /\ m + h <= Len(kept) /\ m \in Nat /\ kept \in Seq(Content)
        BY <3>2, <3>5
      <4>2. Run(kept, m, d, at, h)
        <5>1. ASSUME NEW i \in 1 .. h PROVE kept[m + i] = d[at + i]
          <6>1. m + i \in 1 .. n /\ 0 + (m + i) = m + i /\ f + (m + i) = at + i
            BY <3>2
          <6> QED BY <3>5, <6>1 DEF Run
        <5> QED BY <5>1 DEF Run
      <4>3. y = w
        BY <3>7
      <4> HIDE DEF h
      <4>4. w \in Seq(Content) /\ Len(w) = h
        BY ONLY <4>1, SubAt
      <4>5. Run(w, 0, d, at, h)
        BY <3>2, <3>5, <4>1, <4>2, RunSub
      <4> QED BY <4>3, <4>4, <4>5 DEF h
    <3>10. /\ ~IsLazy(u) /\ u.from = f /\ u.to = at /\ u.data = x
           /\ ~IsLazy(v) /\ v.from = at /\ v.to = b /\ v.data = y
      <4> DEFINE z == 0
      <4>1. z \in Nat /\ f \in Nat /\ u = OwnedSnapshot(f, at, z, x) /\ v = OwnedSnapshot(at, b, z, y)
        BY <2>1, <3>2 DEF f
      <4> HIDE DEF u, v, z
      <4>2. at \in Nat /\ b \in Nat /\ x \in Seq(Content) /\ y \in Seq(Content)
        BY <3>8, <3>9
      <4>3. ~IsLazy(u) /\ u.from = f /\ u.to = at /\ u.data = x
        <5>1. f \in Nat /\ at \in Nat /\ z \in Nat /\ x \in Seq(Content) /\ u = OwnedSnapshot(f, at, z, x)
          BY <4>1, <4>2
        <5> QED BY ONLY <5>1, OwnedIs
      <4>4. ~IsLazy(v) /\ v.from = at /\ v.to = b /\ v.data = y
        <5>1. b \in Nat /\ at \in Nat /\ z \in Nat /\ y \in Seq(Content) /\ v = OwnedSnapshot(at, b, z, y)
          BY <4>1, <4>2
        <5> QED BY ONLY <5>1, OwnedIs
      <4> QED BY <4>3, <4>4
    <3> HIDE DEF u, v
    <3>11. m = at - f /\ n - m = b - at /\ f <= at /\ at <= b
      BY <3>2, <2>5 DEF f, m
    <3>12. Carries(k, L, u, d, at)
      BY <1>3, <3>8, <3>10, <3>11 DEF Carries, Shows, Data
    <3>13. Carries(k, L, v, d, b)
      BY <1>3, <3>9, <3>10, <3>11 DEF Carries, Shows, Data
    <3> QED BY <3>1, <3>12, <3>13
  <2> QED BY <2>2, <2>4, <2>5
<1> QED BY <1>1, <1>2, <1>3

-----------------------------------------------------------------------------
(* Schedules                                                                 *)

\* R holds what L did, keeps the snapshots on the trie, and its captures hold c.
LEMMA SameLiveRight ==
  ASSUME NEW k, NEW L, NEW R, SameLive(L, R)
  PROVE KeepsSnaps(L, R) /\ (SnapsRight(k, L) => SnapsRight(k, R)) /\ \A c : Live(k, L, c) => Live(k, R, c)
<1>1. R.buf = L.buf /\ R.off = L.off /\ R.idx = L.idx /\ R.snap = L.snap
  BY DEF SameLive
<1>2. KeepsSnaps(L, R)
  BY <1>1, SameKeeps
<1>3. \A c : Live(k, L, c) => Live(k, R, c)
  BY <1>1 DEF Live, RnnState
<1> QED BY <1>1, <1>2, <1>3, KeepsRight

\* A capture of what the contents are.
LEMMA CaptureRight ==
  ASSUME NEW k, NEW L, LayerOK(k, L), TakenFits(k, L), NEW o \in Nat, NEW s, Kept(k, L, o, s), NEW c,
         TakenRight(k, L, c), s # None => Carries(k, L, s, c, o)
  PROVE TakenRight(k, Capture(L, o, s), c)
<1> DEFINE R == Capture(L, o, s)
           T == With(L.taken, o, s)
<1>0. L \in LayerType
  BY DEF LayerOK, Fits
<1>1. CASE ~(o \in L.due /\ o \notin DOMAIN L.taken)
  <2>1. R = L
    BY <1>1 DEF Capture
  <2> QED BY <2>1
<1>2. CASE o \in L.due /\ o \notin DOMAIN L.taken
  <2>1. R = [L EXCEPT !.taken = T]
    BY <1>2 DEF Capture
  <2>2. s \in SnapshotSet \cup {None} /\ L.taken \in Maps(Nat, SnapshotSet)
    BY <1>0, LayerIs DEF Kept, Fit
  <2>3. IsWith(T, L.taken, o, s)
    BY <2>2, WithIs
  <2> HIDE DEF T, R
  <2>4. /\ DOMAIN T = DOMAIN L.taken \cup (IF s # None THEN {o} ELSE {})
        /\ \A x \in DOMAIN T : T[x] = IF x = o THEN s ELSE L.taken[x]
    BY <1>2, <2>3 DEF IsWith
  <2>5. R.taken = T /\ R.buf = L.buf
    BY <1>0, <2>1 DEF LayerType
  <2>6. ASSUME NEW x \in DOMAIN T PROVE Carries(k, L, T[x], c, x)
    BY <1>2, <2>4 DEF TakenRight
  <2>7. ASSUME NEW x \in DOMAIN T PROVE Carries(k, R, T[x], c, x)
    BY <2>5, <2>6, DataSame
  <2> QED BY <2>5, <2>7 DEF TakenRight, R
<1> QED BY <1>1, <1>2

\* The same for a set of captures.
LEMMA CaptureAllRight ==
  ASSUME NEW k, NEW L, LayerOK(k, L), NEW S, NEW c, TakenRight(k, L, c),
         \A o \in DOMAIN S : S[o] # None => Carries(k, L, S[o], c, o)
  PROVE TakenRight(k, CaptureAll(L, S), c)
<1> DEFINE R == CaptureAll(L, S)
           new == {o \in DOMAIN S \ DOMAIN L.taken : S[o] # None}
           T == [o \in DOMAIN L.taken \cup new |-> IF o \in new THEN S[o] ELSE L.taken[o]]
<1>0. L \in LayerType
  BY DEF LayerOK, Fits
<1>1. R = [L EXCEPT !.taken = T]
  BY DEF CaptureAll
<1>2. ASSUME NEW x \in DOMAIN T PROVE Carries(k, L, T[x], c, x)
  <2>1. CASE x \in new
    <3>1. T[x] = S[x] /\ x \in DOMAIN S /\ S[x] # None
      BY <2>1
    <3> QED BY <3>1
  <2>2. CASE x \notin new
    <3>1. T[x] = L.taken[x] /\ x \in DOMAIN L.taken
      BY <2>2
    <3> QED BY <3>1 DEF TakenRight
  <2> QED BY <2>1, <2>2
<1> HIDE DEF T, R
<1>3. R.taken = T /\ R.buf = L.buf
  BY <1>0, <1>1 DEF LayerType
<1>4. ASSUME NEW x \in DOMAIN T PROVE Carries(k, R, T[x], c, x)
  BY <1>2, <1>3, DataSame
<1> QED BY <1>3, <1>4 DEF TakenRight, R

\* Without captures there is nothing to be wrong.
LEMMA QuietRight ==
  ASSUME NEW k, NEW L, Quiet(L), NEW c
  PROVE TakenRight(k, L, c)
<1>1. DOMAIN L.taken = {}
  BY EmptyMap DEF Quiet
<1> QED BY <1>1 DEF TakenRight

\* PrepareSnapshots captures what is live.
LEMMA PrepareRight ==
  ASSUME NEW k \in Kinds, NEW L, LayerOK(k, L), NEW offsets \in SUBSET Nat, NEW c, Live(k, L, c)
  PROVE TakenRight(k, PrepareSnapshots(k, L, offsets), c)
<1> DEFINE P == [L EXCEPT !.due = offsets, !.base = L.off, !.taken = <<>>]
           R == PrepareSnapshots(k, L, offsets)
<1>0. L \in LayerType /\ L.off \in Nat
  <2>1. L \in LayerType BY DEF LayerOK, Fits
  <2> QED BY <2>1, LayerIs
<1>1. LayerOK(k, P) /\ TakenFits(k, P) /\ SameLive(L, P) /\ P.taken = <<>>
  <2> DEFINE T == <<>>
             b == L.off
  <2>1. IsRetaken(P, L, offsets, b, T) /\ b \in Nat
    BY <1>0 DEF IsRetaken
  <2>2. T \in Maps(Nat, SnapshotSet) /\ \A o \in DOMAIN T : SnapFits(k, Len(L.buf), T[o]) /\ T[o].to = o
    BY EmptyMap
  <2> HIDE DEF T, b, P
  <2>3. LayerOK(k, P) /\ TakenFits(k, P) /\ SameLive(L, P) /\ P.taken = T
    BY <2>1, <2>2, Retaken
  <2> QED BY <2>3 DEF T
<1>2. TakenRight(k, P, c)
  <2> HIDE DEF P
  <2>1. DOMAIN P.taken = {}
    BY <1>1, EmptyMap
  <2> QED BY <2>1 DEF TakenRight
<1>3. CASE k # "rnn"
  <2>1. R = P
    BY <1>3 DEF PrepareSnapshots
  <2> HIDE DEF P
  <2> QED BY <1>2, <2>1
<1>4. CASE k = "rnn"
  <2> DEFINE s == RnnCurrent(P)
  <2>1. R = Capture(P, L.off, s)
    BY <1>4 DEF PrepareSnapshots
  <2> HIDE DEF P
  <2>2. P \in LayerType /\ P.off = L.off /\ P.buf = L.buf /\ Live(k, P, c)
    BY <1>1, SameLiveRight DEF LayerOK, Fits, SameLive
  <2>3. Fit(k, P, s) /\ (s # None => s.to = P.off)
    BY <1>4, <2>2, RnnCurrentFits
  <2>4. s = Snapshot(k, P, 0)
    BY <1>4 DEF Snapshot
  <2>5. s # None => Carries(k, P, s, c, P.off)
    <3>1. 0 \in Nat
      OBVIOUS
    <3> HIDE DEF s
    <3> QED BY <1>1, <2>2, <2>4, <3>1, SnapshotRight
  <2> HIDE DEF s, R
  <2>6. Kept(k, P, L.off, s)
    BY <2>2, <2>3 DEF Kept
  <2> QED BY <1>0, <1>1, <1>2, <2>1, <2>2, <2>5, <2>6, CaptureRight DEF R
<1> QED BY <1>3, <1>4

-----------------------------------------------------------------------------
(* Forwards                                                                  *)

\* R continues L: it keeps the snapshots on the trie, and its arrays and its captures
\* hold c.
Conveys(k, L, R, c) == ~R.spoiled => KeepsSnaps(L, R) /\ TakenRight(k, R, c) /\ Live(k, R, c)

\* A forward of a KVCache.
LEMMA KVForwardRight ==
  ASSUME NEW L, LayerOK("kv", L), TakenFits("kv", L), NEW data \in Seq(Content), NEW c, Live("kv", L, c),
         TakenRight("kv", L, c), Run(data, 0, c, L.off, Len(data))
  PROVE Conveys("kv", L, KVForward(L, data), c)
<1> DEFINE n == Len(data)
           A == KVAppend(L, data)
           S == [o \in Crossed(L, n) |-> KVSnapshot(A, CaptureFrom(A, o), o)]
           R == KVForward(L, data)
<1> SUFFICES ASSUME ~R.spoiled PROVE KeepsSnaps(L, R) /\ TakenRight("kv", R, c) /\ Live("kv", R, c)
  BY DEF Conveys
<1>1. LayerOK("kv", A) /\ TakenFits("kv", A) /\ Untouched(L, A) /\ A.off = L.off + n
  BY KVAppendOK
<1>2. R = CaptureAll(A, S)
  BY DEF KVForward
<1>3. ~A.spoiled => KeepsSnaps(L, A) /\ KeepsTaken(L, A) /\ Run(A.buf, 0, c, 0, A.off)
  <2>1. Run(L.buf, 0, c, 0, L.off)
    BY DEF Live
  <2> QED BY <2>1, KVAppendRight
<1> HIDE DEF A, R
<1>4. L \in LayerType /\ A \in LayerType /\ A.off <= Len(A.buf)
  BY <1>1 DEF LayerOK, Fits, Shape
<1>5. L.off \in Nat /\ L.due \in SUBSET Nat /\ A.off \in Nat /\ Len(A.buf) \in Nat /\ n \in Nat
  BY <1>4, LayerIs
<1>6. DOMAIN S \in SUBSET Nat
  BY <1>5 DEF Crossed
<1>7. ASSUME NEW o \in DOMAIN S
      PROVE  /\ o \in Nat /\ o <= A.off /\ o <= Len(A.buf) /\ CaptureFrom(A, o) \in Nat
             /\ S[o] = KVSnapshot(A, CaptureFrom(A, o), o)
  <2>1. o \in Nat /\ o <= A.off /\ S[o] = KVSnapshot(A, CaptureFrom(A, o), o)
    BY <1>1, <1>5 DEF Crossed
  <2>2. CaptureFrom(A, o) \in Nat
    <3>1. A \in LayerType /\ o \in Nat
      BY <1>4, <2>1
    <3> QED BY ONLY <3>1, CaptureFromIs
  <2> HIDE DEF S
  <2> QED BY <1>4, <1>5, <2>1, <2>2
<1> HIDE DEF S
<1>8. \A o \in DOMAIN S : Kept("kv", A, o, S[o])
  BY <1>4, <1>7, KVSnapshotFits DEF Kept
<1>9. LayerOK("kv", R) /\ SameLive(A, R)
  BY <1>1, <1>2, <1>6, <1>8, CaptureAllOK
<1>10. KeepsSnaps(L, A) /\ KeepsTaken(L, A) /\ Run(A.buf, 0, c, 0, A.off)
  BY <1>3, <1>9 DEF SameLive
<1>11. ASSUME NEW o \in DOMAIN S PROVE S[o] # None => Carries("kv", A, S[o], c, o)
  BY <1>4, <1>5, <1>7, <1>10, KVSnapshotRight
<1>12. TakenRight("kv", A, c)
  BY <1>1, <1>10, KeepsRight DEF Untouched
<1>13. TakenRight("kv", R, c)
  BY <1>1, <1>2, <1>11, <1>12, CaptureAllRight
<1>14. Live("kv", A, c)
  BY <1>10 DEF Live
<1>15. KeepsSnaps(A, R) /\ Live("kv", R, c)
  BY <1>9, <1>14, SameLiveRight
<1>16. KeepsSnaps(L, R)
  BY <1>1, <1>10, <1>15, KeepsTrans DEF Untouched
<1> QED BY <1>13, <1>15, <1>16

\* A forward of a RotatingKVCache.
LEMMA RotForwardRight ==
  ASSUME NEW L, LayerOK("rot", L), TakenFits("rot", L), NEW data \in Seq(Content), Len(data) > 0, NEW c,
         Live("rot", L, c), TakenRight("rot", L, c), Run(data, 0, c, L.off, Len(data))
  PROVE Conveys("rot", L, RotForward(L, data), c)
<1> DEFINE n == Len(data)
           s0 == RotSnapshot(L, 0)
           C == Capture(L, L.off, s0)
           A == RotAppend(C, data)
           S == [o \in Crossed(L, n) |-> IF n > 1 THEN RotLazySnapshot(A, o) ELSE RotSnapshot(A, o - Least(o, Window))]
           R == RotForward(L, data)
<1>0. L \in LayerType /\ RotRight(L.buf, L.off, L.idx, c)
  BY DEF LayerOK, Fits, Live
<1>1. L.off \in Nat /\ L.due \in SUBSET Nat /\ n \in Nat /\ n > 0 /\ Window \in Nat /\ Window > 0
  BY <1>0, LayerIs, ConstantsAre
<1>2. R = CaptureAll(A, S)
  BY DEF RotForward
<1>3. Kept("rot", L, L.off, s0) /\ (s0 # None => Carries("rot", L, s0, c, L.off))
  <2>1. 0 \in Nat
    OBVIOUS
  <2>2. Fit("rot", L, s0) /\ (s0 # None => s0.to = L.off)
    BY <2>1, RotSnapshotFits
  <2>3. s0 # None => Carries("rot", L, s0, c, L.off)
    BY <1>0, <2>1, RotSnapshotRight
  <2> HIDE DEF s0
  <2> QED BY <2>2, <2>3 DEF Kept
<1> HIDE DEF s0
<1>4. LayerOK("rot", C) /\ TakenFits("rot", C) /\ SameLive(L, C) /\ TakenRight("rot", C, c)
  BY <1>1, <1>3, CaptureOK, CaptureRight
<1> HIDE DEF C
<1>5. KeepsSnaps(L, C) /\ RotRight(C.buf, C.off, C.idx, c) /\ C.off = L.off /\ Run(data, 0, c, C.off, Len(data))
      /\ DOMAIN C.snap = DOMAIN L.snap
  <2>1. KeepsSnaps(L, C) /\ Live("rot", C, c)
    BY <1>4, SameLiveRight
  <2> QED BY <1>4, <2>1 DEF SameLive, Live
<1>6. /\ LayerOK("rot", A) /\ TakenFits("rot", A) /\ Untouched(C, A) /\ A.off = C.off + n
      /\ n > 1 => A.off - Len(A.buf) <= C.off - Least(C.off, Window - 1) /\ Len(A.buf) <= A.off /\ InOrder(A, c)
      /\ n = 1 => Len(A.buf) > 0
      /\ KeepsSnaps(C, A) /\ KeepsTaken(C, A) /\ RotRight(A.buf, A.off, A.idx, c)
  <2>1. CASE n > 1
    <3>1. A = RotConcat(C, data)
      BY <2>1 DEF RotAppend
    <3>2. KeepsSnaps(C, A) /\ KeepsTaken(C, A) /\ InOrder(A, c) /\ RotRight(A.buf, A.off, A.idx, c)
      BY <1>4, <1>5, <2>1, <3>1, RotConcatRight
    <3> QED BY <1>1, <1>4, <2>1, <3>1, <3>2, RotConcatOK
  <2>2. CASE n = 1
    <3>1. A = RotUpdate(C, data[1]) /\ data[1] \in Content
      BY <2>2 DEF RotAppend
    <3>2. data[1] = c[C.off + 1]
      <4>1. 1 \in 1 .. Len(data) /\ 0 + 1 = 1
        BY <2>2
      <4> QED BY <1>5, <4>1 DEF Run
    <3> DEFINE slot == data[1]
    <3>3. A = RotUpdate(C, slot) /\ slot \in Content /\ slot = c[C.off + 1]
      BY <3>1, <3>2
    <3> HIDE DEF slot, A
    <3>4. KeepsSnaps(C, A) /\ KeepsTaken(C, A) /\ RotRight(A.buf, A.off, A.idx, c)
      BY <1>4, <1>5, <3>3, RotUpdateRight
    <3> QED BY <1>1, <1>4, <2>2, <3>3, <3>4, RotUpdateOK
  <2>3. n > 1 \/ n = 1
    <3> HIDE DEF n
    <3> QED BY <1>1
  <2> HIDE DEF n
  <2> QED BY <2>1, <2>2, <2>3
<1> HIDE DEF A, R
<1>7. A \in LayerType /\ A.off = L.off + n
  BY <1>5, <1>6 DEF LayerOK, Fits
<1>8. A.off \in Nat /\ Len(A.buf) \in Nat /\ A.buf \in Seq(Content)
  BY <1>7, LayerIs
<1>9. DOMAIN S \in SUBSET Nat
  BY <1>1 DEF Crossed
<1>10. ASSUME NEW o \in DOMAIN S
       PROVE  Kept("rot", A, o, S[o]) /\ (S[o] # None => Carries("rot", A, S[o], c, o))
  <2>1. o \in Nat /\ L.off < o /\ o <= A.off
    BY <1>1, <1>7 DEF Crossed
  <2>2. CASE n > 1
    <3>1. S[o] = RotLazySnapshot(A, o)
      BY <2>2
    <3>2. A.off - Len(A.buf) <= L.off - Least(L.off, Window - 1) /\ Len(A.buf) <= A.off /\ InOrder(A, c)
      BY <1>5, <1>6, <2>2
    <3>3. A.off - Len(A.buf) <= o - Least(o, Window)
      <4> DEFINE g == A.off - Len(A.buf)
                 off == L.off
      <4>1. g \in Int /\ off \in Nat /\ off < o /\ o \in Nat /\ g <= off - Least(off, Window - 1) /\ Window \in Nat /\ Window > 0
        BY <1>1, <1>8, <2>1, <3>2
      <4> HIDE DEF g, off
      <4>2. off - Least(off, Window - 1) <= o - Least(o, Window) /\ off - Least(off, Window - 1) \in Int
            /\ o - Least(o, Window) \in Int
        BY ONLY <4>1 DEF Least
      <4>3. g <= o - Least(o, Window)
        BY ONLY <4>1, <4>2
      <4> QED BY <4>3 DEF g
    <3> HIDE DEF S, n
    <3>4. Fit("rot", A, S[o]) /\ S[o].to = o
      BY <1>1, <1>6, <2>1, <3>1, <3>2, RotLazyFits
    <3>5. Carries("rot", A, S[o], c, o)
      BY <1>6, <2>1, <3>1, <3>2, <3>3, <3>4, RotLazyRight
    <3> QED BY <3>4, <3>5 DEF Kept
  <2>3. CASE n = 1
    <3> DEFINE from == o - Least(o, Window)
    <3>1. S[o] = RotSnapshot(A, from)
      BY <2>3
    <3>2. A.off = o /\ from \in Nat
      BY <1>1, <1>7, <2>1, <2>3 DEF Least
    <3> HIDE DEF S, n, from
    <3> QED BY <1>6, <3>1, <3>2, RotSnapshotFits, RotSnapshotRight DEF Kept
  <2>4. n > 1 \/ n = 1
    <3> HIDE DEF n
    <3> QED BY <1>1
  <2> HIDE DEF n, S
  <2> QED BY <2>2, <2>3, <2>4
<1> HIDE DEF S
<1>11. LayerOK("rot", R) /\ SameLive(A, R)
  BY <1>2, <1>6, <1>9, <1>10, CaptureAllOK
<1>12. TakenRight("rot", A, c)
  BY <1>4, <1>6, KeepsRight DEF Untouched
<1>13. TakenRight("rot", R, c)
  BY <1>2, <1>6, <1>10, <1>12, CaptureAllRight
<1>14. Live("rot", A, c)
  BY <1>6 DEF Live
<1>15. KeepsSnaps(A, R) /\ Live("rot", R, c)
  BY <1>11, <1>14, SameLiveRight
<1>16. KeepsSnaps(L, R)
  <2>1. KeepsSnaps(L, A)
    BY <1>5, <1>6, KeepsTrans
  <2>2. DOMAIN A.snap = DOMAIN L.snap
    BY <1>5, <1>6 DEF Untouched
  <2> QED BY <1>15, <2>1, <2>2, KeepsTrans
<1> QED BY <1>13, <1>15, <1>16 DEF Conveys, R

\* The states that the tokens lead to.
Accumulates(c, off, tokens) ==
  \A o \in Nat : off <= o /\ o <= off + Len(tokens) => c[o] = c[off] \o SubSeq(tokens, 1, o - off) /\ c[o] \in Content

\* A forward of a RecurrentCache.
LEMMA RnnForwardRight ==
  ASSUME NEW L, LayerOK("rnn", L), TakenFits("rnn", L), NEW tokens \in Seq(Token), Len(tokens) > 0, NEW c,
         Live("rnn", L, c), TakenRight("rnn", L, c), Accumulates(c, L.off, tokens)
  PROVE Conveys("rnn", L, RnnForward(L, tokens), c)
<1> DEFINE n == Len(tokens)
           end == L.off + n
           After(o) == RnnState(L) \o SubSeq(tokens, 1, o - L.off)
           buf == <<After(end)>>
           A == [L EXCEPT !.buf = buf, !.off = end]
           S == [o \in Crossed(L, n) |-> RnnSnapshot(After(o), o)]
           R == RnnForward(L, tokens)
<1>0. L \in LayerType
  BY DEF LayerOK, Fits
<1>1. L.off \in Nat /\ L.due \in SUBSET Nat /\ n \in Nat /\ n > 0 /\ L.buf \in Seq(Content) /\ L.idx \in Nat
  BY <1>0, LayerIs
<1>2. R = CaptureAll(A, S)
  BY DEF RnnForward
<1>3. ASSUME NEW o \in Nat, L.off < o, o <= end PROVE After(o) = c[o] /\ After(o) \in Content
  <2>1. RnnState(L) = c[L.off]
    BY DEF Live
  <2>2. L.off <= o
    BY <1>1, <1>3
  <2> QED BY <1>3, <2>1, <2>2 DEF Accumulates
<1>4. After(end) = c[end] /\ After(end) \in Content /\ end \in Nat
  <2>1. end \in Nat /\ L.off < end /\ end <= end
    BY <1>1
  <2> HIDE DEF end, After
  <2> QED BY <1>3, <2>1
<1>5. buf \in Seq(Content) /\ buf # <<>>
  <2> HIDE DEF After
  <2> QED BY <1>4
<1>6. LayerOK("rnn", A) /\ TakenFits("rnn", A) /\ Untouched(L, A) /\ A.off = end /\ A.buf = buf
      /\ A.snap = L.snap /\ A.taken = L.taken
  <2> HIDE DEF buf, end
  <2>1. IsRewritten(A, L, buf, end, L.idx) /\ A.off = end /\ A.buf = buf /\ A.snap = L.snap /\ A.taken = L.taken
    BY <1>0 DEF IsRewritten, LayerType
  <2> HIDE DEF A
  <2>2. Shape("rnn", A)
    BY <1>5, <2>1 DEF Shape
  <2> QED BY <1>1, <1>4, <1>5, <2>1, <2>2, NotLazyRnn, Rewritten
<1>7. DOMAIN S \in SUBSET Nat
  BY <1>1 DEF Crossed
<1>8. ASSUME NEW o \in DOMAIN S PROVE Kept("rnn", A, o, S[o]) /\ (S[o] # None => Carries("rnn", A, S[o], c, o))
  <2>1. o \in Nat /\ L.off < o /\ o <= end
    BY <1>1 DEF Crossed
  <2>2. S[o] = RnnSnapshot(After(o), o)
    OBVIOUS
  <2>3. After(o) \in Content /\ After(o) = c[o]
    BY <1>3, <2>1
  <2> DEFINE state == After(o)
  <2>4. S[o] = RnnSnapshot(state, o) /\ state \in Content /\ state = c[o]
    BY <2>2, <2>3
  <2> HIDE DEF S, After, A, state
  <2>5. Kept("rnn", A, o, RnnSnapshot(state, o))
    BY <2>1, <2>4, RnnSnapshotFits DEF Kept
  <2>6. Carries("rnn", A, RnnSnapshot(state, o), c, o)
    BY <2>1, <2>4, RnnSnapshotRight
  <2> QED BY <2>4, <2>5, <2>6
<1>9. Live("rnn", A, c)
  <2>1. RnnState(A) = c[end]
    <3> HIDE DEF A, After
    <3>1. A.buf # <<>> /\ A.buf[1] = After(end)
      BY <1>5, <1>6
    <3> QED BY <1>4, <3>1 DEF RnnState
  <2> HIDE DEF A
  <2> QED BY <1>6, <2>1 DEF Live
<1> HIDE DEF S, A, R, buf, After, end
<1>10. KeepsSnaps(L, A) /\ KeepsTaken(L, A)
  <2>1. LazySnapshots(L) = {}
    BY NotLazyRnn
  <2> QED BY <1>6, <2>1, OwnedKeeps
<1>11. TakenRight("rnn", A, c)
  BY <1>6, <1>10, KeepsRight
<1>12. LayerOK("rnn", R) /\ SameLive(A, R)
  BY <1>2, <1>6, <1>7, <1>8, CaptureAllOK
<1>13. TakenRight("rnn", R, c)
  BY <1>2, <1>6, <1>8, <1>11, CaptureAllRight
<1>14. KeepsSnaps(A, R) /\ Live("rnn", R, c)
  BY <1>9, <1>12, SameLiveRight
<1>15. KeepsSnaps(L, R)
  BY <1>6, <1>10, <1>14, KeepsTrans
<1> QED BY <1>13, <1>14, <1>15 DEF Conveys, R

\* The contents of a text.
LEMMA TextAt ==
  ASSUME NEW w \in Seq(Token)
  PROVE /\ \A i \in 0 .. Len(w) : Text(w)[i] = SubSeq(w, 1, i) /\ Text(w)[i] \in Content
        /\ Text(w)[Len(w)] = w /\ Text(w)[0] = <<>>
<1>1. ASSUME NEW i \in 0 .. Len(w)
      PROVE  Text(w)[i] = SubSeq(w, 1, i) /\ Text(w)[i] \in Content
  <2>1. SubSeq(w, 1, i) \in Seq(Token)
    BY PrefixSub
  <2> QED BY <2>1 DEF Text, Content
<1>2. Text(w)[Len(w)] = w
  <2> DEFINE m == Len(w)
             u == SubSeq(w, 1, m)
  <2>1. m \in 0 .. Len(w)
    OBVIOUS
  <2>2. Text(w)[m] = u
    BY <1>1, <2>1
  <2> HIDE DEF m
  <2>3. u \in Seq(Token) /\ Len(u) = m /\ \A i \in 1 .. m : u[i] = w[i]
    BY <2>1, PrefixSub
  <2> HIDE DEF u
  <2>4. u = w
    BY <2>3, SeqEqual DEF m
  <2> QED BY <2>2, <2>4 DEF m
<1>3. Text(w)[0] = <<>>
  <2> DEFINE z == 0
             u == SubSeq(w, 1, z)
  <2>1. z \in 0 .. Len(w) /\ Text(w)[z] = u
    BY <1>1
  <2> HIDE DEF z
  <2>2. u \in Seq(Token) /\ Len(u) = z
    BY <2>1, PrefixSub
  <2> HIDE DEF u
  <2>3. u = Root
    BY <2>2, PrefixRoot DEF z
  <2> QED BY <2>1, <2>3 DEF z, Root
<1> QED BY <1>1, <1>2, <1>3

\* Texts that agree on their tokens have the same contents.
LEMMA TextAgrees ==
  ASSUME NEW p \in Seq(Token), NEW q \in Seq(Token), NEW m \in Nat, m <= Len(p), m <= Len(q),
         \A i \in 1 .. m : p[i] = q[i]
  PROVE Agree(Text(p), Text(q), m)
<1>1. ASSUME NEW i \in 0 .. m PROVE Text(p)[i] = Text(q)[i]
  <2>1. i \in 0 .. Len(p) /\ i \in 0 .. Len(q)
    OBVIOUS
  <2> DEFINE u == SubSeq(p, 1, i)
             v == SubSeq(q, 1, i)
  <2>2. u \in Seq(Token) /\ Len(u) = i /\ \A j \in 1 .. i : u[j] = p[j]
    BY <2>1, PrefixSub
  <2>3. v \in Seq(Token) /\ Len(v) = i /\ \A j \in 1 .. i : v[j] = q[j]
    BY <2>1, PrefixSub
  <2>4. Text(p)[i] = u /\ Text(q)[i] = v
    BY <2>1, TextAt
  <2> HIDE DEF u, v
  <2>5. \A j \in 1 .. i : u[j] = v[j]
    BY <2>2, <2>3
  <2>6. u = v
    BY <2>2, <2>3, <2>5, SeqEqual
  <2> QED BY <2>4, <2>6
<1> QED BY <1>1 DEF Agree

\* A prefix has the contents of the text.
LEMMA PrefixAgrees ==
  ASSUME NEW p \in Seq(Token), NEW q \in Seq(Token), IsPrefix(p, q)
  PROVE Agree(Text(p), Text(q), Len(p)) /\ Agree(Text(q), Text(p), Len(p))
<1>1. Len(p) \in Nat /\ Len(p) <= Len(p) /\ Len(p) <= Len(q) /\ \A i \in 1 .. Len(p) : p[i] = q[i]
  BY PrefixAt
<1>2. Agree(Text(p), Text(q), Len(p))
  BY <1>1, TextAgrees
<1> QED BY <1>2 DEF Agree

\* Agreement up to a position passes on.
LEMMA AgreeTrans ==
  ASSUME NEW c, NEW d, NEW e, NEW m \in Nat, NEW n \in Nat, m <= n, Agree(c, d, n), Agree(d, e, m)
  PROVE Agree(c, e, m) /\ Agree(c, d, m)
<1>1. \A i \in 0 .. m : i \in 0 .. n
  OBVIOUS
<1> QED BY <1>1 DEF Agree

\* Tokens behind the first a tokens of a text.
LEMMA JoinSub ==
  ASSUME NEW w \in Seq(Token), NEW a \in Nat, NEW o \in Nat, a <= o, o <= Len(w), NEW t \in Seq(Token),
         Len(t) = Len(w) - a, \A i \in 1 .. Len(w) - a : t[i] = w[a + i]
  PROVE SubSeq(w, 1, o) = SubSeq(w, 1, a) \o SubSeq(t, 1, o - a)
<1> DEFINE n == o - a
           x == SubSeq(w, 1, a)
           y == SubSeq(t, 1, n)
           z == SubSeq(w, 1, o)
           h == x \o y
<1>1. n \in 0 .. Len(t) /\ a \in 0 .. Len(w) /\ o \in 0 .. Len(w) /\ a + n = o /\ n \in Nat
  OBVIOUS
<1>2. x \in Seq(Token) /\ Len(x) = a /\ \A i \in 1 .. a : x[i] = w[i]
  BY <1>1, PrefixSub
<1>3. z \in Seq(Token) /\ Len(z) = o /\ \A i \in 1 .. o : z[i] = w[i]
  BY <1>1, PrefixSub
<1>4. \A i \in 1 .. n : t[i] = w[a + i]
  BY <1>1
<1> HIDE DEF n
<1>5. y \in Seq(Token) /\ Len(y) = n /\ \A i \in 1 .. n : y[i] = t[i]
  BY <1>1, PrefixSub
<1> HIDE DEF x, y, z
<1>6. h \in Seq(Token) /\ Len(h) = a + n /\ \A i \in 1 .. a + n : h[i] = IF i <= a THEN x[i] ELSE y[i - a]
  <2>1. x \in Seq(Token) /\ y \in Seq(Token)
    BY <1>2, <1>5
  <2>2. /\ h \in Seq(Token) /\ Len(h) = Len(x) + Len(y)
        /\ \A i \in 1 .. Len(x) + Len(y) : h[i] = IF i <= Len(x) THEN x[i] ELSE y[i - Len(x)]
    BY ONLY <2>1, ConcatProperties
  <2>3. Len(x) = a /\ Len(y) = n
    BY <1>2, <1>5
  <2> HIDE DEF h
  <2> QED BY <2>2, <2>3
<1> HIDE DEF h
<1>7. ASSUME NEW i \in 1 .. o PROVE z[i] = h[i]
  <2>1. CASE i <= a
    <3>1. i \in 1 .. a /\ i \in 1 .. a + n
      BY <1>1, <2>1
    <3> QED BY <1>2, <1>3, <1>6, <2>1, <3>1
  <2>2. CASE i > a
    <3> DEFINE j == i - a
    <3>1. j \in 1 .. n /\ i \in 1 .. a + n /\ ~(i <= a) /\ a + j = i
      BY <1>1, <2>2
    <3>2. h[i] = y[j]
      BY <1>6, <3>1
    <3> HIDE DEF j
    <3>3. y[j] = w[i]
      BY <1>4, <1>5, <3>1
    <3> QED BY <1>3, <3>2, <3>3
  <2> QED BY <2>1, <2>2
<1>8. z = h
  BY <1>1, <1>3, <1>6, <1>7, SeqEqual
<1> QED BY <1>8 DEF z, h, x, y, n

\* A forward of any kind over a text continues what the layer holds of it.
LEMMA ForwardRight ==
  ASSUME NEW k \in Kinds, NEW L, LayerOK(k, L), TakenFits(k, L), NEW full \in Seq(Token),
         NEW n \in Nat, n > 0, n <= Len(full), L.off = Len(full) - n, NEW c, Agree(Text(full), c, Len(full)),
         Live(k, L, c), TakenRight(k, L, c)
  PROVE Conveys(k, L, Forward(k, L, full, n), c)
<1> DEFINE new == Len(full) - n
           data == [i \in 1 .. n |-> SubSeq(full, 1, new + i)]
           tokens == SubSeq(full, new + 1, Len(full))
<1>1. new \in Nat /\ Len(full) \in Nat /\ new + n = Len(full) /\ L.off = new
  OBVIOUS
<1>2. ASSUME NEW i \in 0 .. Len(full) PROVE c[i] = SubSeq(full, 1, i) /\ c[i] \in Content
  BY <1>2, TextAt DEF Agree
<1>3. data \in Seq(Content) /\ Len(data) = n /\ Run(data, 0, c, L.off, n)
  <2> HIDE DEF new
  <2>1. ASSUME NEW i \in 1 .. n PROVE SubSeq(full, 1, new + i) \in Content /\ SubSeq(full, 1, new + i) = c[new + i]
    <3>1. new + i \in 0 .. Len(full)
      BY <1>1
    <3> QED BY <1>2, <3>1
  <2>2. data \in Seq(Content) /\ Len(data) = n
    BY <2>1
  <2>3. ASSUME NEW i \in 1 .. n PROVE data[0 + i] = c[L.off + i]
    <3>1. data[i] = SubSeq(full, 1, new + i)
      OBVIOUS
    <3>2. data[i] = c[L.off + i]
      BY <1>1, <2>1, <3>1
    <3> HIDE DEF data
    <3>3. 0 + i = i
      OBVIOUS
    <3> QED BY <3>2, <3>3
  <2> QED BY <2>2, <2>3 DEF Run
<1>4. tokens \in Seq(Token) /\ Len(tokens) = n /\ \A i \in 1 .. n : tokens[i] = full[new + i]
  <2> DEFINE m == new + 1
             e == Len(full)
  <2>1. m \in Int /\ e \in Int /\ \A j \in m .. e : full[j] \in Token
    BY <1>1
  <2>2. tokens = SubSeq(full, m, e) /\ m <= e /\ (e - m) + 1 = n /\ (1 + e) - m = n /\ \A i \in 1 .. n : (m + i) - 1 = new + i
    BY <1>1
  <2> HIDE DEF m, e, tokens, new
  <2>3. SubSeq(full, m, e) \in Seq(Token) /\ Len(SubSeq(full, m, e)) = IF m <= e THEN (e - m) + 1 ELSE 0
    BY <2>1, SubSeqProperties
  <2>4. \A i \in 1 .. (1 + e) - m : SubSeq(full, m, e)[i] = full[(m + i) - 1]
    BY <2>1, SubSeqProperties
  <2> QED BY <2>2, <2>3, <2>4
<1>5. Accumulates(c, L.off, tokens)
  <2> HIDE DEF tokens, new, data
  <2>1. ASSUME NEW o \in Nat, new <= o, o <= new + n PROVE c[o] = c[new] \o SubSeq(tokens, 1, o - new) /\ c[o] \in Content
    <3>1. o \in 0 .. Len(full) /\ new \in 0 .. Len(full) /\ o <= Len(full) /\ Len(full) - new = n
      BY <1>1, <2>1
    <3>2. /\ new \in Nat /\ o \in Nat /\ new <= o /\ o <= Len(full) /\ full \in Seq(Token) /\ tokens \in Seq(Token)
          /\ Len(tokens) = Len(full) - new /\ \A i \in 1 .. Len(full) - new : tokens[i] = full[new + i]
      BY <1>1, <1>4, <2>1, <3>1
    <3>3. SubSeq(full, 1, o) = SubSeq(full, 1, new) \o SubSeq(tokens, 1, o - new)
      BY ONLY <3>2, JoinSub
    <3> QED BY <1>2, <3>1, <3>3
  <2> QED BY <1>1, <1>4, <2>1 DEF Accumulates
<1>6. CASE k = "kv"
  <2>1. Forward(k, L, full, n) = KVForward(L, data)
    BY <1>6 DEF Forward
  <2> HIDE DEF data
  <2> QED BY <1>3, <1>6, <2>1, KVForwardRight
<1>7. CASE k = "rot"
  <2>1. Forward(k, L, full, n) = RotForward(L, data)
    BY <1>7 DEF Forward
  <2> HIDE DEF data
  <2> QED BY <1>3, <1>7, <2>1, RotForwardRight
<1>8. CASE k = "rnn"
  <2>1. Forward(k, L, full, n) = RnnForward(L, tokens)
    BY <1>8 DEF Forward
  <2> HIDE DEF tokens
  <2> QED BY <1>4, <1>5, <1>8, <2>1, RnnForwardRight
<1> QED BY <1>6, <1>7, <1>8 DEF Kinds

\* commitSpeculation keeps the capture it may roll back to.
LEMMA KeptIs ==
  ASSUME NEW k \in Kinds, NEW L, LayerOK(k, L), TakenFits(k, L), NEW target \in Nat, NEW K, IsKept(K, L, target)
  PROVE /\ LayerOK(k, K) /\ TakenFits(k, K) /\ SameLive(L, K) /\ K.spoiled = L.spoiled
        /\ DOMAIN K.taken = DOMAIN L.taken \cap {target}
        /\ \A o \in DOMAIN K.taken : K.taken[o] = L.taken[o] /\ K.taken[o] \in SnapshotSet
<1> DEFINE T == Restrict(L.taken, DOMAIN L.taken \cap {target})
<1>0. L \in LayerType /\ L.taken \in Maps(Nat, SnapshotSet) /\ L.due \in SUBSET Nat /\ L.base \in Nat
  <2>1. L \in LayerType
    BY DEF LayerOK, Fits
  <2> QED BY <2>1, LayerIs
<1>1. DOMAIN T = DOMAIN L.taken \cap {target} /\ (\A o \in DOMAIN T : T[o] = L.taken[o]) /\ T = [o \in DOMAIN T |-> T[o]]
  BY DEF Restrict
<1>2. T \in Maps(Nat, SnapshotSet) /\ \A o \in DOMAIN T : SnapFits(k, Len(L.buf), T[o]) /\ T[o].to = o /\ T[o] \in SnapshotSet
  <2>1. DOMAIN L.taken \in SUBSET Nat /\ \A o \in DOMAIN L.taken : L.taken[o] \in SnapshotSet
    BY <1>0, MapsAre
  <2>2. DOMAIN T \in SUBSET Nat /\ \A o \in DOMAIN T : T[o] \in SnapshotSet
    <3> HIDE DEF T
    <3> QED BY <1>1, <2>1
  <2>3. T \in Maps(Nat, SnapshotSet)
    <3> HIDE DEF T
    <3> QED BY <1>1, <2>2, MapsAre
  <2> HIDE DEF T
  <2> QED BY <1>1, <2>2, <2>3 DEF TakenFits
<1>3. IsRetaken(K, L, L.due, L.base, T) /\ K.spoiled = L.spoiled
  BY <1>0 DEF IsRetaken, LayerType, IsKept
<1> HIDE DEF T
<1>4. LayerOK(k, K) /\ TakenFits(k, K) /\ SameLive(L, K) /\ K.taken = T
  <2> DEFINE due == L.due
             base == L.base
  <2>1. due \in SUBSET Nat /\ base \in Nat /\ T \in Maps(Nat, SnapshotSet) /\ IsRetaken(K, L, due, base, T)
    BY <1>0, <1>2, <1>3
  <2>2. \A o \in DOMAIN T : SnapFits(k, Len(L.buf), T[o]) /\ T[o].to = o
    BY <1>2
  <2> HIDE DEF due, base
  <2> QED BY <2>1, <2>2, Retaken
<1> QED BY <1>1, <1>2, <1>3, <1>4

\* Rolled back, a layer holds what it did up to that offset.
LEMMA RolledRight ==
  ASSUME NEW k \in Kinds, NEW L, LayerOK(k, L), TakenFits(k, L), NEW target \in Nat,
         target <= L.off, k # "kv" => target \in DOMAIN L.taken, NEW K, IsKept(K, L, target),
         NEW R, IsRolled(R, k, K, target), NEW c, Live(k, L, c), TakenRight(k, L, c)
  PROVE ~R.spoiled => KeepsSnaps(L, R) /\ Live(k, R, c)
<1>1. /\ LayerOK(k, K) /\ TakenFits(k, K) /\ SameLive(L, K) /\ DOMAIN K.taken = DOMAIN L.taken \cap {target}
      /\ \A o \in DOMAIN K.taken : K.taken[o] = L.taken[o] /\ K.taken[o] \in SnapshotSet
  BY KeptIs
<1>2. KeepsSnaps(L, K) /\ Live(k, K, c) /\ DOMAIN K.snap = DOMAIN L.snap /\ target <= K.off /\ K.off \in Nat /\ K.buf = L.buf
  <2>1. L \in LayerType
    BY DEF LayerOK, Fits
  <2> QED BY <1>1, <2>1, SameLiveRight, LayerIs DEF SameLive
<1>3. CASE CanRestore(k, K, None, target)
  <2> DEFINE none == None
  <2>1. R = Restore(k, K, none, target) /\ CanRestore(k, K, none, target) /\ Fit(k, K, none) /\ none = None
    BY <1>3 DEF Fit, IsRolled
  <2> HIDE DEF none
  <2>2. ~R.spoiled => KeepsSnaps(K, R) /\ Live(k, R, c)
    BY <1>1, <1>2, <2>1, RestoreRight
  <2> QED BY <1>2, <2>2, KeepsTrans
<1>4. CASE ~CanRestore(k, K, None, target)
  <2> DEFINE s == K.taken[target]
  <2>1. k # "kv"
    BY <1>2, <1>4 DEF CanRestore, KVCanRestore
  <2>2. target \in DOMAIN K.taken /\ target \in DOMAIN L.taken
    BY <1>1, <2>1
  <2>3. s \in SnapshotSet /\ SnapFits(k, Len(K.buf), s) /\ s.to = target /\ s = L.taken[target]
    BY <1>1, <2>2 DEF TakenFits
  <2>4. Carries(k, K, s, c, target)
    <3>1. Carries(k, L, s, c, target)
      BY <2>2, <2>3 DEF TakenRight
    <3> HIDE DEF s
    <3> QED BY <1>2, <3>1, DataSame
  <2>5. R = Restore(k, K, s, target)
    BY <1>4, <2>2 DEF IsRolled, At
  <2> HIDE DEF s
  <2>6. s # None /\ Fit(k, K, s)
    BY <2>3, SnapshotIs DEF Fit
  <2>7. CanRestore(k, K, s, target)
    <3>1. RotCanRestore(K, s, target) /\ RnnCanRestore(K, s, target)
      BY <2>3, <2>6 DEF RotCanRestore, RnnCanRestore
    <3>2. k = "rot" \/ k = "rnn"
      BY <2>1 DEF Kinds
    <3> QED BY <3>1, <3>2 DEF CanRestore
  <2>8. ~R.spoiled => KeepsSnaps(K, R) /\ Live(k, R, c)
    BY <1>1, <1>2, <2>3, <2>4, <2>5, <2>6, <2>7, RestoreRight
  <2> QED BY <1>2, <2>8, KeepsTrans
<1> QED BY <1>3, <1>4

\* What commitSpeculation leaves of a layer.
LEMMA CommittedRight ==
  ASSUME NEW k \in Kinds, NEW L, LayerOK(k, L), TakenFits(k, L), NEW before \in Nat,
         NEW drafted \in Nat, NEW accepted \in 0 .. drafted, L.off = before + drafted,
         accepted < drafted /\ k # "kv" => before + accepted \in DOMAIN L.taken, NEW c, Live(k, L, c), TakenRight(k, L, c)
  PROVE LET R == Committed(k, L, accepted, drafted, before)
        IN ~R.spoiled => KeepsSnaps(L, R) /\ Live(k, R, c)
<1> DEFINE target == before + accepted
           K == [L EXCEPT !.taken = Restrict(@, DOMAIN @ \cap {target})]
           A == IF CanRestore(k, K, None, target) THEN Restore(k, K, None, target)
                ELSE Restore(k, K, At(K.taken, target), target)
           rolled == IF accepted = drafted THEN L ELSE A
           R == Drained(rolled)
<1>1. Committed(k, L, accepted, drafted, before) = R
  BY DEF Committed
<1>2. LayerOK(k, rolled) /\ DOMAIN rolled.snap = DOMAIN L.snap /\ (~rolled.spoiled => KeepsSnaps(L, rolled) /\ Live(k, rolled, c))
  <2>1. CASE accepted = drafted
    <3>1. rolled = L
      BY <2>1
    <3> HIDE DEF rolled
    <3>2. KeepsSnaps(L, L)
      BY SameKeeps
    <3> QED BY <3>1, <3>2
  <2>2. CASE accepted # drafted
    <3>1. target \in Nat /\ target <= L.off /\ (k # "kv" => target \in DOMAIN L.taken)
      BY <2>2
    <3>2. rolled = A
      BY <2>2
    <3>3. IsKept(K, L, target) /\ IsRolled(A, k, K, target)
      BY DEF IsKept, IsRolled
    <3> HIDE DEF target, K, A, rolled
    <3>4. LayerOK(k, A) /\ DOMAIN A.snap = DOMAIN L.snap
      BY <3>1, <3>3, RolledOK
    <3>5. ~A.spoiled => KeepsSnaps(L, A) /\ Live(k, A, c)
      BY <3>1, <3>3, RolledRight
    <3> QED BY <3>2, <3>4, <3>5
  <2> QED BY <2>1, <2>2
<1> HIDE DEF rolled
<1>3. SameLive(rolled, R)
  BY <1>2, DrainedOK
<1> HIDE DEF R
<1>4. KeepsSnaps(rolled, R) /\ (Live(k, rolled, c) => Live(k, R, c)) /\ (~R.spoiled => ~rolled.spoiled)
  BY <1>3, SameLiveRight DEF SameLive
<1> QED BY <1>1, <1>2, <1>4, KeepsTrans

-----------------------------------------------------------------------------
(* The trie operations                                                       *)

\* No layer is marked.
Fine(C) == \A k \in Layers : ~C.layer[k].spoiled

\* Every snapshot holds what its node says.
Right(C) == \A k \in Layers : SnapsRight(k, C.layer[k])

\* Unless D is marked, snapshots that are right stay right.
Goes(C, D) == Fine(D) => Fine(C) /\ (Right(C) => Right(D))

\* The snapshots of snaps (a function of layers) hold what node n says.
Shown(C, n, snaps) == \A k \in Layers : snaps[k] # None => Carries(k, C.layer[k], snaps[k], Text(n), Len(n))

\* One after the other.
LEMMA GoesTrans ==
  ASSUME NEW C, NEW D, NEW E, Goes(C, D), Goes(D, E)
  PROVE Goes(C, E)
BY DEF Goes

\* The layers are the same.
LEMMA GoesSame ==
  ASSUME NEW C, NEW D, D.layer = C.layer
  PROVE Goes(C, D)
BY DEF Goes, Fine, Right

\* Marks are not removed.
LEMMA SameRunsFine ==
  ASSUME NEW C, NEW D, SameRuns(C, D), Fine(D)
  PROVE Fine(C)
BY DEF SameRuns, SameRun, Fine

\* What snapshots hold depends on the buffers alone.
LEMMA ShownSame ==
  ASSUME NEW C, NEW D, SameRuns(C, D), NEW n, NEW snaps
  PROVE Shown(C, n, snaps) => Shown(D, n, snaps)
<1> SUFFICES ASSUME Shown(C, n, snaps), NEW k \in Layers, snaps[k] # None
             PROVE  Carries(k, D.layer[k], snaps[k], Text(n), Len(n))
  BY DEF Shown
<1> DEFINE L == C.layer[k]
           R == D.layer[k]
           s == snaps[k]
           c == Text(n)
           m == Len(n)
<1>1. R.buf = L.buf /\ Carries(k, L, s, c, m)
  BY DEF SameRuns, SameRun, Shown
<1> HIDE DEF L, R, s, c, m
<1>2. Carries(k, R, s, c, m)
  BY <1>1, DataSame
<1> QED BY <1>2 DEF R, s, c, m

\* Snapshots that hold what their node says are set.
LEMMA SetSnapshotsRight ==
  ASSUME NEW C, Sound(C), NEW n, NEW snaps, \A k \in Layers : Fit(k, C.layer[k], snaps[k]),
         n \in Nodes \/ \A k \in Layers : snaps[k] = None, Shown(C, n, snaps)
  PROVE Goes(C, SetSnapshots(C, n, snaps))
<1> DEFINE f == [k \in Layers |-> SetSnapshot(C.layer[k], n, snaps[k])]
           D == SetSnapshots(C, n, snaps)
<1>0. C \in CacheType
  BY DEF Sound
<1>1. D.layer = f
  BY <1>0 DEF SetSnapshots, EachLayer, CacheType
<1>2. SameRuns(C, D)
  BY SetSnapshotsOK
<1>3. ASSUME NEW k \in Layers, SnapsRight(k, C.layer[k]) PROVE SnapsRight(k, D.layer[k])
  <2> DEFINE L == C.layer[k]
             s == snaps[k]
             R == SetSnapshot(L, n, s)
  <2>1. /\ LayerOK(k, L) /\ s \in SnapshotSet \cup {None} /\ (s # None => SnapFits(k, Len(L.buf), s))
        /\ (n \in Nodes \/ s = None) /\ SnapsRight(k, L) /\ (s # None => Carries(k, L, s, Text(n), Len(n)))
    BY <1>3 DEF Sound, Fit, Shown
  <2>2. D.layer[k] = R
    BY <1>1
  <2> HIDE DEF L, s, D
  <2>3. /\ DOMAIN R.snap = (DOMAIN L.snap \ {n}) \cup (IF s = None THEN {} ELSE {n})
        /\ \A x \in DOMAIN R.snap : R.snap[x] = IF x = n THEN s ELSE L.snap[x]
        /\ R.buf = L.buf
    BY <2>1, SetSnapshotOK
  <2> HIDE DEF R
  <2>4. ASSUME NEW x \in DOMAIN R.snap PROVE Carries(k, R, R.snap[x], Text(x), Len(x))
    <3>1. CASE x = n
      <4>1. s # None /\ R.snap[x] = s
        BY <2>3, <3>1
      <4> QED BY <2>1, <2>3, <3>1, <4>1, DataSame
    <3>2. CASE x # n
      <4>1. x \in DOMAIN L.snap /\ R.snap[x] = L.snap[x]
        BY <2>3, <3>2
      <4>2. Carries(k, L, L.snap[x], Text(x), Len(x))
        BY <2>1, <4>1 DEF SnapsRight
      <4> QED BY <2>3, <4>1, <4>2, DataSame
    <3> QED BY <3>1, <3>2
  <2> QED BY <2>2, <2>4 DEF SnapsRight
<1> HIDE DEF D
<1>4. Right(C) => Right(D)
  BY <1>3 DEF Right
<1>5. Fine(D) => Fine(C)
  BY <1>2, SameRunsFine
<1> QED BY <1>4, <1>5 DEF Goes, D

\* The snapshots of a node are dropped.
LEMMA StrippedRight ==
  ASSUME NEW C, Sound(C), NEW n
  PROVE Goes(C, SetSnapshots(C, n, NoSnapshots))
<1> DEFINE snaps == NoSnapshots
<1>1. /\ \A k \in Layers : Fit(k, C.layer[k], snaps[k])
      /\ \A k \in Layers : snaps[k] = None
  BY NoneFits
<1> HIDE DEF snaps
<1>2. Shown(C, n, snaps)
  BY <1>1 DEF Shown
<1>3. Goes(C, SetSnapshots(C, n, snaps))
  BY <1>1, <1>2, SetSnapshotsRight
<1> QED BY <1>3 DEF snaps

\* A snapshot that hangs on a node of the cache, by what it holds.
LEMMA HeldRight ==
  ASSUME NEW k, NEW L, SnapsRight(k, L), NEW n
  PROVE At(L.snap, n) # None => Carries(k, L, At(L.snap, n), Text(n), Len(n))
BY DEF SnapsRight, At

\* The snapshots of a node and its child, joined where they do not overlap.
LEMMA JoinedRight ==
  ASSUME NEW k \in Kinds, NEW L, LayerOK(k, L), SnapsRight(k, L), NEW n \in Seq(Token), NEW c \in Seq(Token),
         IsPrefix(n, c), ~Merged(k, L, At(L.snap, n), At(L.snap, c)).spoiled
  PROVE LET r == Merge(k, L, At(L.snap, n), At(L.snap, c))
        IN r # None => Carries(k, L, r, Text(c), Len(c))
<1> DEFINE p == At(L.snap, n)
           q == At(L.snap, c)
           d == Text(c)
           a == Len(n)
           b == Len(c)
<1>0. L \in LayerType /\ a \in Nat /\ b \in Nat
  BY DEF LayerOK, Fits
<1>1. Fit(k, L, p) /\ Fit(k, L, q)
  BY HeldFits
<1>2. q # None => Carries(k, L, q, d, b)
  BY HeldRight
<1>3. k = "kv" => ~Overlap(p, q)
  <2> SUFFICES ASSUME k = "kv" PROVE ~Overlap(p, q)
    OBVIOUS
  <2>1. Merged(k, L, p, q) = [L EXCEPT !.spoiled = L.spoiled \/ Overlap(p, q)]
    BY DEF Merged
  <2> HIDE DEF p, q
  <2>2. Merged(k, L, p, q).spoiled = (L.spoiled \/ Overlap(p, q))
    BY <1>0, <2>1 DEF LayerType
  <2>3. ~Merged(k, L, p, q).spoiled
    BY DEF p, q
  <2> QED BY <2>2, <2>3
<1>4. ASSUME p # None PROVE Carries(k, L, p, d, a)
  <2> DEFINE e == Text(n)
  <2>1. Carries(k, L, p, e, a)
    BY <1>4, HeldRight
  <2>2. Agree(e, d, a)
    BY PrefixAgrees
  <2>3. p \in SnapshotSet /\ SnapFits(k, Len(L.buf), p)
    BY <1>1, <1>4 DEF Fit
  <2> HIDE DEF p, d, e, a
  <2> QED BY <1>0, <2>1, <2>2, <2>3, CarriesAgrees
<1> HIDE DEF p, q, d, a, b
<1>5. Merge(k, L, p, q) # None => Carries(k, L, Merge(k, L, p, q), d, b)
  BY <1>0, <1>1, <1>2, <1>3, <1>4, MergeRight
<1> QED BY <1>5 DEF p, q, d, b

\* What must be shown when marks are not removed.
LEMMA GoesWhen ==
  ASSUME NEW C, NEW D, SameRuns(C, D), Fine(D) /\ Right(C) => Right(D)
  PROVE Goes(C, D)
BY SameRunsFine DEF Goes

\* mergeWithChild.
LEMMA MergeWithChildRight ==
  ASSUME NEW C, CacheOK(C), NEW n \in C.nodes, n # Root, n # C.frontier, NEW c \in Children(C, n),
         Cardinality(Children(C, n)) <= 1
  PROVE Goes(C, MergeWithChild(C, n, c))
<1> DEFINE merged == [k \in Layers |->
                        Merge(k, C.layer[k], At(C.layer[k].snap, n), At(C.layer[k].snap, c))]
           joined == EachLayer(C, LAMBDA k, L : Merged(k, L, At(L.snap, n), At(L.snap, c)))
           upper == SetSnapshots(joined, n, NoSnapshots)
           bare == SetSnapshots(upper, c, NoSnapshots)
           B == SetSnapshots(bare, c, merged)
           D == MergeWithChild(C, n, c)
           f == [k \in Layers |-> Merged(k, C.layer[k], At(C.layer[k].snap, n), At(C.layer[k].snap, c))]
<1>0. C \in CacheType /\ Sound(C) /\ TreeOK(C) /\ SameRuns(C, D)
  BY MergeWithChildOK DEF CacheOK, Sound
<1>1. c \in Nodes /\ c \in Seq(Token) /\ n \in Seq(Token) /\ IsPrefix(n, c)
  BY <1>0, ChildrenAre, CacheIs DEF Nodes
<1>2. /\ Sound(joined) /\ SameRuns(C, joined) /\ joined.layer = f
  <2>1. IsRelayered(joined, C, f)
    BY <1>0 DEF EachLayer, IsRelayered, CacheType
  <2>2. f = [k \in Layers |-> Merged(k, C.layer[k], At(C.layer[k].snap, n), At(C.layer[k].snap, c))]
    OBVIOUS
  <2>3. joined.layer = f
    BY <1>0 DEF EachLayer, CacheType
  <2> HIDE DEF f, joined
  <2> QED BY <1>0, <2>1, <2>2, <2>3, JoinedOK
<1>3. Sound(upper) /\ SameRuns(joined, upper) /\ Goes(joined, upper)
  <2> HIDE DEF joined
  <2> QED BY <1>2, StrippedOK, StrippedRight
<1>4. Sound(bare) /\ SameRuns(upper, bare) /\ Goes(upper, bare)
  <2> HIDE DEF upper
  <2> QED BY <1>3, StrippedOK, StrippedRight
<1>5. D.layer = B.layer
  <2> DEFINE last == Max({C.lastUsed[n], C.lastUsed[c]})
  <2>1. D = [B EXCEPT !.nodes = B.nodes \ {n}, !.user = B.user \ {n},
                      !.lastUsed = With(Without(B.lastUsed, {n}), c, last)]
    BY DEF MergeWithChild
  <2>2. B.layer = [k \in Layers |-> SetSnapshot(bare.layer[k], c, merged[k])]
    <3>1. bare \in CacheType
      BY <1>4 DEF Sound
    <3>2. B = SetSnapshots(bare, c, merged)
      OBVIOUS
    <3> HIDE DEF bare, merged, B
    <3> QED BY <3>1, <3>2 DEF SetSnapshots, EachLayer, CacheType
  <2> HIDE DEF B, D, last
  <2> QED BY <2>1
<1>6. ASSUME NEW k \in Layers PROVE Fit(k, bare.layer[k], merged[k])
  <2> DEFINE L == C.layer[k]
  <2>1. LayerOK(k, L) /\ L \in LayerType /\ k \in Kinds
    BY <1>0, ConstantsAre DEF Sound, LayerOK, Fits
  <2>2. SameRun(L, bare.layer[k])
    <3> HIDE DEF joined, upper, bare
    <3>1. SameRuns(C, bare)
      BY <1>2, <1>3, <1>4, SameRunsTrans
    <3> QED BY <3>1 DEF SameRuns
  <2>3. merged[k] = Merge(k, L, At(L.snap, n), At(L.snap, c))
    OBVIOUS
  <2> HIDE DEF L, merged, bare
  <2>4. Fit(k, L, At(L.snap, n)) /\ Fit(k, L, At(L.snap, c))
    BY <2>1, HeldFits
  <2>5. Fit(k, L, merged[k])
    BY <2>1, <2>3, <2>4, MergeFits
  <2> QED BY <2>2, <2>5, SameRunIs
<1>7. Sound(B) /\ SameRuns(bare, B)
  <2>1. B = SetSnapshots(bare, c, merged)
    OBVIOUS
  <2> HIDE DEF bare, merged, B
  <2>2. Sound(bare) /\ c \in Nodes /\ \A k \in Layers : Fit(k, bare.layer[k], merged[k])
    BY <1>1, <1>4, <1>6
  <2> QED BY ONLY <2>1, <2>2, SetSnapshotsOK
<1>8. ASSUME Fine(D), Right(C) PROVE Right(D)
  <2>1. Fine(B) /\ Fine(bare) /\ Fine(upper) /\ Fine(joined)
    <3>1. Fine(B)
      BY <1>5, <1>8 DEF Fine
    <3> HIDE DEF joined, upper, bare, B, D
    <3> QED BY <1>3, <1>4, <1>7, <3>1, SameRunsFine
  <2>2. Right(joined)
    <3> SUFFICES ASSUME NEW k \in Layers PROVE SnapsRight(k, joined.layer[k])
      BY DEF Right
    <3> DEFINE L == C.layer[k]
               R == Merged(k, L, At(L.snap, n), At(L.snap, c))
    <3>1. LayerOK(k, L) /\ SnapsRight(k, L)
      BY <1>0, <1>8 DEF Sound, Right
    <3>2. joined.layer[k] = R
      BY <1>2
    <3> HIDE DEF L, joined
    <3>3. SameLive(L, R)
      BY <3>1, MergedOK
    <3> HIDE DEF R
    <3> QED BY <3>1, <3>2, <3>3, SameLiveRight
  <2>3. Right(bare)
    <3> HIDE DEF joined, upper, bare
    <3> QED BY <1>3, <1>4, <2>1, <2>2 DEF Goes
  <2>4. Shown(C, c, merged)
    <3> SUFFICES ASSUME NEW k \in Layers
                 PROVE  merged[k] # None => Carries(k, C.layer[k], merged[k], Text(c), Len(c))
      BY DEF Shown
    <3> DEFINE L == C.layer[k]
    <3>1. k \in Kinds /\ LayerOK(k, L) /\ SnapsRight(k, L)
      BY <1>0, <1>8, ConstantsAre DEF Sound, Right
    <3>2. merged[k] = Merge(k, L, At(L.snap, n), At(L.snap, c))
      OBVIOUS
    <3>3. ~Merged(k, L, At(L.snap, n), At(L.snap, c)).spoiled
      BY <1>2, <2>1 DEF Fine
    <3> HIDE DEF L, merged
    <3>4. merged[k] # None => Carries(k, L, merged[k], Text(c), Len(c))
      BY <1>1, <3>1, <3>2, <3>3, JoinedRight
    <3> QED BY <3>4 DEF L
  <2>5. Shown(bare, c, merged)
    <3> HIDE DEF joined, upper, bare, merged
    <3>1. SameRuns(C, bare)
      BY <1>2, <1>3, <1>4, SameRunsTrans
    <3> QED BY <2>4, <3>1, ShownSame
  <2>6. Goes(bare, B)
    <3>1. B = SetSnapshots(bare, c, merged)
      OBVIOUS
    <3> HIDE DEF bare, merged, B
    <3>2. Sound(bare) /\ c \in Nodes /\ (\A k \in Layers : Fit(k, bare.layer[k], merged[k])) /\ Shown(bare, c, merged)
      BY <1>1, <1>4, <1>6, <2>5
    <3> QED BY ONLY <3>1, <3>2, SetSnapshotsRight
  <2>7. Right(B)
    BY <2>1, <2>3, <2>6 DEF Goes
  <2> QED BY <1>5, <2>7 DEF Right
<1> HIDE DEF D
<1>9. Goes(C, D)
  BY <1>0, <1>8, GoesWhen
<1> QED BY <1>9 DEF D

\* evictNode.
LEMMA EvictNodeRight ==
  ASSUME NEW C, CacheOK(C), NEW n \in Evictable(C)
  PROVE Goes(C, EvictNode(C, n))
<1>0. n \in C.nodes /\ ~IsPrefix(n, C.frontier) /\ Cardinality(Children(C, n)) <= 1 /\ Sound(C)
  BY DEF Evictable, CacheOK
<1>1. n # Root /\ n # C.frontier
  <2>1. C.frontier \in Seq(Token)
    BY CacheIs DEF CacheOK, Sound
  <2> QED BY <1>0, <2>1, PrefixRoot, PrefixRefl
<1>2. CASE Children(C, n) = {}
  <2> DEFINE B == SetSnapshots(C, n, NoSnapshots)
             D == EvictNode(C, n)
  <2>1. B \in CacheType /\ Goes(C, B)
    BY <1>0, StrippedOK, StrippedRight DEF Sound
  <2>2. D = [B EXCEPT !.nodes = B.nodes \ {n}, !.user = B.user \ {n}, !.lastUsed = Without(B.lastUsed, {n})]
    BY <1>2 DEF EvictNode
  <2> HIDE DEF B, D
  <2>3. D.layer = B.layer
    BY <2>1, <2>2 DEF CacheType
  <2>4. Goes(C, D)
    BY <2>1, <2>3, GoesSame, GoesTrans
  <2> QED BY <2>4 DEF D
<1>3. CASE Children(C, n) # {}
  <2> DEFINE c == CHOOSE c \in Children(C, n) : TRUE
  <2>1. c \in Children(C, n)
    BY <1>3
  <2>2. EvictNode(C, n) = MergeWithChild(C, n, c)
    BY <1>3 DEF EvictNode
  <2> HIDE DEF c
  <2> QED BY <1>0, <1>1, <2>1, <2>2, MergeWithChildRight
<1> QED BY <1>2, <1>3

\* A round of enforceEvictionPolicy.
LEMMA EvictOneRight ==
  ASSUME NEW C, CacheOK(C)
  PROVE Goes(C, EvictOne(C))
<1>1. CASE PagedOut(C) <= MaxPagedOut \/ Evictable(C) = {}
  <2>1. EvictOne(C) = C
    BY <1>1 DEF EvictOne
  <2> QED BY <2>1, GoesSame
<1>2. CASE ~(PagedOut(C) <= MaxPagedOut \/ Evictable(C) = {})
  <2> DEFINE n == CHOOSE n \in Evictable(C) : \A m \in Evictable(C) : EvictsBefore(C, n, m)
  <2>1. EvictOne(C) = EvictNode(C, n)
    BY <1>2 DEF EvictOne
  <2>2. n \in Evictable(C)
    BY <1>2, FirstToGo
  <2> HIDE DEF n
  <2> QED BY <2>1, <2>2, EvictNodeRight
<1> QED BY <1>1, <1>2

\* enforceEvictionPolicy.
LEMMA EnforceRight ==
  ASSUME NEW C, CacheOK(C)
  PROVE Goes(C, EnforceEvictionPolicy(C))
<1> DEFINE P == {D \in CacheType : CacheOK(D) /\ Goes(C, D)}
           N == Cardinality(C.nodes)
<1>1. N \in Nat
  BY FS_CardinalityType DEF CacheOK, TreeOK, Trie
<1>2. C \in P
  BY GoesSame DEF CacheOK, Sound
<1>3. ASSUME NEW D \in P PROVE EvictOne(D) \in P
  <2> DEFINE E == EvictOne(D)
  <2>1. CacheOK(D) /\ Goes(C, D)
    OBVIOUS
  <2>2. CacheOK(E) /\ Goes(D, E)
    BY <2>1, EvictOneOK, EvictOneRight
  <2> HIDE DEF E
  <2>3. Goes(C, E)
    BY <2>1, <2>2, GoesTrans
  <2> QED BY <2>2, <2>3 DEF CacheOK, Sound, E
<1> HIDE DEF N
<1>4. \E r : IsRounds(C, N, r)
  <2> DEFINE g == [i \in 1 .. N |-> [D \in P |-> EvictOne(D)]]
  <2>1. g \in [1 .. N -> [P -> P]]
    <3> HIDE DEF P
    <3> QED BY <1>3
  <2>2. PICK f : IsRun(f, N, P, C, g)
    <3>1. \E f : IsRun(f, N, P, C, g)
      <4> HIDE DEF g, P
      <4> QED BY ONLY <1>1, <1>2, <2>1, RecursionExists
    <3> HIDE DEF g, P
    <3> QED BY <3>1
  <2>a. f \in [0 .. N -> P] /\ f[0] = C /\ \A i \in 1 .. N : f[i] = g[i][f[i - 1]]
    <3> HIDE DEF g, P
    <3> QED BY <2>2 DEF IsRun
  <2>3. ASSUME NEW i \in 0 .. N PROVE f[i] = IF i = 0 THEN C ELSE EvictOne(f[i - 1])
    <3>1. CASE i = 0
      BY <2>a, <3>1
    <3>2. CASE i # 0
      <4>1. i \in 1 .. N /\ i - 1 \in 0 .. N
        BY <1>1, <3>2
      <4>2. f[i - 1] \in P /\ f[i] = g[i][f[i - 1]]
        <5> HIDE DEF g, P
        <5> QED BY <2>a, <4>1
      <4>3. g[i][f[i - 1]] = EvictOne(f[i - 1])
        <5> HIDE DEF P
        <5> QED BY <4>1, <4>2
      <4> HIDE DEF g
      <4> QED BY <3>2, <4>2, <4>3
    <3> QED BY <3>1, <3>2
  <2> HIDE DEF P
  <2>4. f = [i \in 0 .. N |-> f[i]]
    BY <2>a
  <2> QED BY <2>3, <2>4 DEF IsRounds
<1> DEFINE r == CHOOSE r : IsRounds(C, N, r)
<1>5. IsRounds(C, N, r)
  BY <1>4
<1>6. EnforceEvictionPolicy(C) = r[N]
  BY DEF EnforceEvictionPolicy, IsRounds, N
<1> HIDE DEF r
<1>7. r[0] = C /\ \A i \in 1 .. N : r[i] = EvictOne(r[i - 1])
  BY <1>1, <1>5 DEF IsRounds
<1>8. \A i \in 0 .. N : r[i] \in P
  <2>1. r[0] \in P /\ \A i \in 1 .. N : r[i - 1] \in P => r[i] \in P
    <3> HIDE DEF P
    <3> QED BY <1>2, <1>3, <1>7
  <2> HIDE DEF P
  <2> QED BY <1>1, <2>1, AlongRecursion
<1>9. r[N] \in P
  <2>1. N \in 0 .. N
    BY <1>1
  <2> HIDE DEF P
  <2> QED BY <1>8, <2>1
<1> QED BY <1>6, <1>9

\* splitNode: the halves hold what their nodes say.
LEMMA SplitNodeRight ==
  ASSUME NEW C, CacheOK(C), NEW n \in C.nodes \ {Root}, NEW m \in Nodes, m \notin C.nodes,
         Trie(C.nodes \cup {m}), IsPrefix(m, n)
  PROVE Goes(C, SplitNode(C, n, m))
<1> DEFINE halves == [k \in Layers |-> Split(k, C.layer[k], At(C.layer[k].snap, n), Len(m))]
           one == [k \in Layers |-> halves[k][1]]
           two == [k \in Layers |-> halves[k][2]]
           bare == SetSnapshots(C, n, NoSnapshots)
           upper == SetSnapshots(bare, m, one)
           B == SetSnapshots(upper, n, two)
           D == SplitNode(C, n, m)
           nodes == C.nodes \cup {m}
<1>0. C \in CacheType /\ Sound(C) /\ TreeOK(C) /\ SameRuns(C, D)
  BY SplitNodeOK DEF CacheOK, Sound
<1>1. n \in Seq(Token) /\ n \in Nodes /\ m \in Seq(Token) /\ m # n /\ Len(m) \in Nat /\ Len(n) \in Nat /\ Len(m) < Len(n)
  <2>1. n \in Seq(Token) /\ n \in Nodes /\ m \in Seq(Token) /\ m # n /\ Len(m) \in Nat /\ Len(n) \in Nat
    BY <1>0, CacheIs DEF Nodes
  <2> QED BY <2>1, PrefixLen
<1>2. Sound(bare) /\ SameRuns(C, bare) /\ Goes(C, bare)
  BY <1>0, StrippedOK, StrippedRight
<1>3. ASSUME NEW k \in Layers
      PROVE  /\ Fit(k, C.layer[k], one[k]) /\ Fit(k, C.layer[k], two[k])
             /\ SnapsRight(k, C.layer[k]) =>
                  /\ one[k] # None => Carries(k, C.layer[k], one[k], Text(m), Len(m))
                  /\ two[k] # None => Carries(k, C.layer[k], two[k], Text(n), Len(n))
  <2> DEFINE L == C.layer[k]
             s == At(L.snap, n)
             at == Len(m)
             b == Len(n)
             d == Text(n)
             e == Text(m)
             p == one[k]
             q == two[k]
  <2>1. LayerOK(k, L) /\ L \in LayerType /\ k \in Kinds
    BY <1>0, ConstantsAre DEF Sound, LayerOK, Fits
  <2>2. p = Split(k, L, s, at)[1] /\ q = Split(k, L, s, at)[2] /\ at \in Nat /\ b \in Nat /\ at < b
    BY <1>1
  <2>3. Fit(k, L, s)
    <3> HIDE DEF L
    <3> QED BY <2>1, HeldFits
  <2>4. SnapsRight(k, L) => (s # None => Carries(k, L, s, d, b))
    <3> HIDE DEF L
    <3> QED BY HeldRight
  <2>5. Agree(d, e, at)
    BY <1>1, PrefixAgrees
  <2> HIDE DEF L, s, at, p, q, b, d, e
  <2>6. Fit(k, L, p) /\ Fit(k, L, q)
    BY <2>1, <2>2, <2>3, SplitFits
  <2>7. ASSUME SnapsRight(k, L)
        PROVE  (p # None => Carries(k, L, p, e, at)) /\ (q # None => Carries(k, L, q, d, b))
    <3>1. (p # None => Carries(k, L, p, d, at)) /\ (q # None => Carries(k, L, q, d, b))
      BY <2>1, <2>2, <2>3, <2>4, <2>7, SplitRight
    <3>2. ASSUME p # None PROVE Carries(k, L, p, e, at)
      <4>1. p \in SnapshotSet /\ SnapFits(k, Len(L.buf), p)
        BY <2>6, <3>2 DEF Fit
      <4> QED BY <2>1, <2>2, <2>5, <3>1, <3>2, <4>1, CarriesAgrees
    <3> QED BY <3>1, <3>2
  <2> QED BY <2>6, <2>7 DEF L, p, q, at, b, d, e
<1>4. upper = SetSnapshots(bare, m, one) /\ B = SetSnapshots(upper, n, two)
  OBVIOUS
<1>5. D.layer = B.layer
  <2>1. D = [B EXCEPT !.nodes = B.nodes \cup {m}, !.lastUsed = With(B.lastUsed, m, C.lastUsed[n])]
    BY DEF SplitNode
  <2>2. B.layer = [k \in Layers |-> SetSnapshot(upper.layer[k], n, two[k])]
    <3> HIDE DEF one
    <3>1. upper.layer = [k \in Layers |-> SetSnapshot(bare.layer[k], m, one[k])] /\ upper = [bare EXCEPT !.layer = upper.layer]
      <4>1. bare \in CacheType
        BY <1>2 DEF Sound
      <4> HIDE DEF bare
      <4> QED BY <4>1 DEF SetSnapshots, EachLayer, CacheType
    <3>2. upper = [nodes |-> bare.nodes, user |-> bare.user, lastUsed |-> bare.lastUsed, frontier |-> bare.frontier, layer |-> upper.layer]
      <4>1. bare \in CacheType
        BY <1>2 DEF Sound
      <4> HIDE DEF bare, upper
      <4> QED BY <3>1, <4>1 DEF CacheType
    <3> HIDE DEF upper, bare, two
    <3> QED BY <3>2 DEF SetSnapshots, EachLayer
  <2> HIDE DEF B, D
  <2> QED BY <2>1
<1> HIDE DEF halves, one, two, bare, upper, B, D
<1>6. Sound(upper) /\ SameRuns(bare, upper)
  <2>1. Sound(bare) /\ m \in Nodes /\ \A k \in Layers : Fit(k, bare.layer[k], one[k])
    BY <1>2, <1>3, SameRunIs DEF SameRuns
  <2> QED BY ONLY <1>4, <2>1, SetSnapshotsOK
<1>7. SameRuns(C, upper) /\ \A k \in Layers : Fit(k, upper.layer[k], two[k])
  <2>1. SameRuns(C, upper)
    BY <1>2, <1>6, SameRunsTrans
  <2> QED BY <1>3, <2>1, SameRunIs DEF SameRuns
<1>8. SameRuns(upper, B)
  <2>1. Sound(upper) /\ n \in Nodes /\ \A k \in Layers : Fit(k, upper.layer[k], two[k])
    BY <1>1, <1>6, <1>7
  <2> QED BY ONLY <1>4, <2>1, SetSnapshotsOK
<1>9. ASSUME Fine(D), Right(C) PROVE Right(D)
  <2>1. Fine(B) /\ Fine(upper) /\ Fine(bare)
    <3>1. Fine(B)
      BY <1>5, <1>9 DEF Fine
    <3> QED BY <1>6, <1>8, <3>1, SameRunsFine
  <2>2. Shown(C, m, one) /\ Shown(C, n, two)
    BY <1>3, <1>9 DEF Right, Shown
  <2>3. Shown(bare, m, one) /\ Shown(upper, n, two)
    BY <1>2, <1>7, <2>2, ShownSame
  <2>4. Goes(bare, upper)
    <3>1. /\ Sound(bare) /\ m \in Nodes /\ (\A k \in Layers : Fit(k, bare.layer[k], one[k]))
          /\ Shown(bare, m, one)
      BY <1>2, <1>3, <2>3, SameRunIs DEF SameRuns
    <3> QED BY ONLY <1>4, <3>1, SetSnapshotsRight
  <2>5. Goes(upper, B)
    <3>1. /\ Sound(upper) /\ n \in Nodes /\ (\A k \in Layers : Fit(k, upper.layer[k], two[k]))
          /\ Shown(upper, n, two)
      BY <1>1, <1>6, <1>7, <2>3
    <3> QED BY ONLY <1>4, <3>1, SetSnapshotsRight
  <2>6. Right(B)
    BY <1>2, <1>9, <2>1, <2>4, <2>5 DEF Goes
  <2> QED BY <1>5, <2>6 DEF Right
<1>10. Goes(C, D)
  BY <1>0, <1>9, GoesWhen
<1> QED BY <1>10 DEF D

\* appendTokens changes no layer.
LEMMA AppendTokensRight ==
  ASSUME NEW C \in CacheType, NEW n, NEW w
  PROVE Goes(C, [AppendTokens(C, n, w) EXCEPT !.frontier = w])
<1> DEFINE A == AppendTokens(C, n, w)
           D == [A EXCEPT !.frontier = w]
<1>1. D.layer = C.layer
  <2>1. CASE n = Root \/ Children(C, n) # {} \/ HasSnapshots(C, n)
    <3> DEFINE nodes == C.nodes \cup {w}
               used == With(C.lastUsed, w, C.lastUsed[n])
    <3>1. A = [C EXCEPT !.nodes = nodes, !.lastUsed = used]
      BY <2>1 DEF AppendTokens, CacheType
    <3> HIDE DEF A, nodes, used
    <3> QED BY <3>1 DEF CacheType
  <2>2. CASE ~(n = Root \/ Children(C, n) # {} \/ HasSnapshots(C, n))
    <3> DEFINE nodes == (C.nodes \ {n}) \cup {w}
               user == IF n \in C.user THEN (C.user \ {n}) \cup {w} ELSE C.user
               used == With(Without(C.lastUsed, {n}), w, C.lastUsed[n])
    <3>1. A = [C EXCEPT !.nodes = nodes, !.user = user, !.lastUsed = used]
      BY <2>2 DEF AppendTokens, CacheType
    <3> HIDE DEF A, nodes, user, used
    <3> QED BY <3>1 DEF CacheType
  <2> QED BY <2>1, <2>2
<1> HIDE DEF D
<1>2. Goes(C, D)
  BY <1>1, GoesSame
<1> QED BY <1>2 DEF D

\* Another active path changes no layer.
LEMMA FrontierRight ==
  ASSUME NEW C \in CacheType, NEW w
  PROVE Goes(C, [C EXCEPT !.frontier = w])
<1> DEFINE D == [C EXCEPT !.frontier = w]
<1>1. D.layer = C.layer
  BY DEF CacheType
<1> HIDE DEF D
<1>2. Goes(C, D)
  BY <1>1, GoesSame
<1> QED BY <1>2 DEF D

\* advancePath.
LEMMA AdvancePathRight ==
  ASSUME NEW C, CacheOK(C), NEW w \in Nodes
  PROVE Goes(C, AdvancePath(C, w))
<1> DEFINE m == SubSeq(w, 1, Matched(C, w))
           S == IF m \in C.nodes THEN C ELSE SplitNode(C, MatchEnd(C, w), m)
           D == IF m # w /\ Children(S, m) = {} /\ m \notin S.user
                THEN SetSnapshots(S, m, NoSnapshots) ELSE S
           A == IF m = w THEN S ELSE AppendTokens(D, m, w)
           R == [A EXCEPT !.frontier = w]
<1>0. C \in CacheType /\ Sound(C) /\ TreeOK(C) /\ w \in Seq(Token) /\ w # Root /\ Trie(C.nodes)
  BY DEF CacheOK, Sound, Nodes, TreeOK
<1>1. Matched(C, w) \in 0 .. Len(w)
  BY <1>0, MatchedIs
<1>2. m \in Seq(Token) /\ Trie(C.nodes \cup {m})
  BY <1>0, <1>1, PrefixSub, SplitKeeps
<1>3. Sound(S) /\ S \in CacheType /\ Goes(C, S)
  <2>1. CASE m \in C.nodes
    <3>1. S = C
      BY <2>1
    <3> HIDE DEF S, m
    <3> QED BY <1>0, <3>1, GoesSame
  <2>2. CASE m \notin C.nodes
    <3> DEFINE n == MatchEnd(C, w)
    <3>1. n \in C.nodes /\ IsPrefix(m, n)
      BY <1>0, MatchEndIs
    <3>2. m # Root
      BY <1>0, <2>2 DEF Trie
    <3>3. n # Root
      <4>1. n \in Seq(Token)
        BY <1>0, <3>1 DEF Trie
      <4> HIDE DEF m, n
      <4> QED BY <1>2, <3>1, <3>2, <4>1, PrefixLen, PrefixRoot
    <3>4. S = SplitNode(C, n, m)
      BY <2>2
    <3>5. m \in Nodes
      BY <1>2, <3>2 DEF Nodes
    <3> HIDE DEF m, n, S
    <3>6. CacheOK(S) /\ Goes(C, S)
      BY <1>2, <2>2, <3>1, <3>3, <3>4, <3>5, SplitNodeOK, SplitNodeRight
    <3> QED BY <3>6 DEF CacheOK, Sound
  <2> QED BY <2>1, <2>2
<1>4. D \in CacheType /\ Goes(S, D)
  <2>1. CASE D = S
    <3> HIDE DEF S, D
    <3> QED BY <1>3, <2>1, GoesSame
  <2>2. CASE D = SetSnapshots(S, m, NoSnapshots)
    <3> HIDE DEF S, m, D
    <3>1. Sound(D) /\ Goes(S, D)
      BY <1>3, <2>2, StrippedOK, StrippedRight
    <3> QED BY <3>1 DEF Sound
  <2> QED BY <2>1, <2>2
<1>5. AdvancePath(C, w) = R
  BY DEF AdvancePath
<1>6. Goes(C, R)
  <2>1. CASE m = w
    <3>1. R = [S EXCEPT !.frontier = w]
      BY <2>1
    <3> HIDE DEF S, m, D, A, R
    <3>2. Goes(S, R)
      BY <1>3, <3>1, FrontierRight
    <3> QED BY <1>3, <3>2, GoesTrans
  <2>2. CASE m # w
    <3>1. R = [AppendTokens(D, m, w) EXCEPT !.frontier = w]
      BY <2>2
    <3> HIDE DEF S, m, D, A, R
    <3>2. Goes(D, R)
      BY <1>4, <3>1, AppendTokensRight
    <3> QED BY <1>3, <1>4, <3>2, GoesTrans
  <2> QED BY <2>1, <2>2
<1> HIDE DEF R
<1> QED BY <1>5, <1>6

\* The stamp of the active path's end changes no layer.
LEMMA TouchedRight ==
  ASSUME NEW C \in CacheType
  PROVE Goes(C, Touched(C))
<1> DEFINE D == Touched(C)
           used == [C.lastUsed EXCEPT ![C.frontier] = 1 + Max({0} \cup {C.lastUsed[n] : n \in C.nodes \ {C.frontier}})]
<1>1. D = [C EXCEPT !.lastUsed = used]
  BY DEF Touched, CacheType
<1> HIDE DEF D, used
<1>2. D.layer = C.layer
  BY <1>1 DEF CacheType
<1>3. Goes(C, D)
  BY <1>2, GoesSame
<1> QED BY <1>3 DEF D

-----------------------------------------------------------------------------
(* switchToPath                                                              *)

\* The layers hold c.
Filled(C, c) == \A k \in Layers : Live(k, C.layer[k], c)

Fills(C, c) == Right(C) /\ Filled(C, c)

\* Unless D is marked, a cache that was right of c is right of d.
Moves(C, D, c, d) == Fine(D) => Fine(C) /\ (Fills(C, c) => Fills(D, d))

\* The same for one layer.
Shifts(k, L, R, c, d) == ~R.spoiled => ~L.spoiled /\ (SnapsRight(k, L) /\ Live(k, L, c) => SnapsRight(k, R) /\ Live(k, R, d))

\* One after the other.
LEMMA MovesTrans ==
  ASSUME NEW C, NEW D, NEW E, NEW c, NEW d, NEW e, Moves(C, D, c, d), Moves(D, E, d, e)
  PROVE Moves(C, E, c, e)
BY DEF Moves

\* Layer by layer.
LEMMA MovesEach ==
  ASSUME NEW C, NEW D, NEW c, NEW d, \A k \in Layers : Shifts(k, C.layer[k], D.layer[k], c, d)
  PROVE Moves(C, D, c, d)
BY DEF Moves, Shifts, Fine, Fills, Right, Filled

\* The arrays are the same.
LEMMA SameRunLive ==
  ASSUME NEW k, NEW L, NEW R, SameRun(L, R), NEW c, Live(k, L, c)
  PROVE Live(k, R, c)
BY DEF SameRun, Live, RnnState

\* The same for all layers.
LEMMA FilledSame ==
  ASSUME NEW C, NEW D, SameRuns(C, D), NEW c, Filled(C, c)
  PROVE Filled(D, c)
BY SameRunLive DEF Filled, SameRuns

\* Trie operations.
LEMMA GoesMoves ==
  ASSUME NEW C, NEW D, SameRuns(C, D), Goes(C, D), NEW c
  PROVE Moves(C, D, c, c)
BY FilledSame DEF Goes, Moves, Fills

\* An offset or a set of snapshots is changed, no data.
LEMMA KeepsShifts ==
  ASSUME NEW k, NEW L, NEW R, DOMAIN R.snap = DOMAIN L.snap, L.spoiled => R.spoiled, NEW c, NEW d,
         ~R.spoiled /\ SnapsRight(k, L) /\ Live(k, L, c) => KeepsSnaps(L, R) /\ Live(k, R, d)
  PROVE Shifts(k, L, R, c, d)
BY KeepsRight DEF Shifts

\* The leaf that is paged out gets what the layers hold.
LEMMA PageOutRight ==
  ASSUME NEW C, Calm(C), NEW end \in C.nodes, NEW matched \in Nat,
         Fine(C) => \A k \in Layers : C.layer[k].off = Len(C.frontier)
  PROVE LET D == PageOut(C, end, matched)
        IN Moves(C, D, Text(C.frontier), Text(C.frontier)) /\ SameRuns(C, D)
<1> DEFINE D == PageOut(C, end, matched)
           n == C.frontier
           snaps == [k \in Layers |-> Snapshot(k, C.layer[k], Start(C, n))]
           c == Text(n)
<1>0. CacheOK(C) /\ Sound(C) /\ n \in C.nodes /\ n \in Seq(Token) /\ end \in Seq(Token) /\ n = C.frontier
  BY CacheIs DEF Calm, CacheOK, Sound, TreeOK
<1>1. CASE D = C
  BY <1>1, SameRunsRefl DEF Moves
<1>2. CASE D # C
  <2>1. (~IsPrefix(n, end) \/ matched < Len(n)) /\ D = SetSnapshots(C, n, snaps)
    BY <1>2 DEF PageOut
  <2>2. n # Root /\ n \in Nodes
    <3> HIDE DEF n
    <3>1. n # Root
      BY <1>0, <2>1, PrefixRoot
    <3> QED BY <1>0, <3>1 DEF Nodes
  <2>3. Start(C, n) \in Nat
    BY <1>0, StartIs
  <2>4. \A k \in Layers : Fit(k, C.layer[k], snaps[k])
    BY <1>0, <2>3, LayersAre, SnapshotFits
  <2>5. ASSUME Fine(C), Filled(C, c) PROVE Shown(C, n, snaps)
    <3> SUFFICES ASSUME NEW k \in Layers
                 PROVE  snaps[k] # None => Carries(k, C.layer[k], snaps[k], Text(n), Len(n))
      BY DEF Shown
    <3> DEFINE L == C.layer[k]
               s == snaps[k]
               from == Start(C, n)
    <3>1. k \in Kinds /\ LayerOK(k, L) /\ L.off = Len(n) /\ Live(k, L, c) /\ from \in Nat
      BY <1>0, <2>3, <2>5, LayersAre DEF Filled
    <3>2. s = Snapshot(k, L, from)
      OBVIOUS
    <3> HIDE DEF L, s, from, c
    <3>3. s # None => Carries(k, L, s, c, L.off)
      BY <3>1, <3>2, SnapshotRight
    <3> QED BY <3>1, <3>3 DEF L, s, c
  <2> HIDE DEF D, snaps
  <2>6. /\ Sound(C) /\ n \in Nodes /\ n \in C.nodes /\ n # Root /\ CacheOK(C)
        /\ \A k \in Layers : Fit(k, C.layer[k], snaps[k])
    BY <1>0, <2>2, <2>4
  <2>7. SameRuns(C, D)
    <3> HIDE DEF n
    <3> QED BY <2>1, <2>6, SetSnapshotsOK
  <2>8. Shown(C, n, snaps) => Goes(C, D)
    <3> HIDE DEF n
    <3> QED BY <2>1, <2>6, SetSnapshotsRight
  <2>9. Moves(C, D, c, c)
    <3> HIDE DEF c, n
    <3> QED BY <2>5, <2>7, <2>8, SameRunsFine, FilledSame DEF Moves, Goes, Fills
  <2> QED BY <2>7, <2>9 DEF D
<1> QED BY <1>1, <1>2

\* What is rewound or freed holds any text with the same beginning.
LEMMA RewindRight ==
  ASSUME NEW C, Calm(C), NEW target \in Nat, NEW c, NEW d, Agree(c, d, target), d[0] = <<>>
  PROVE Moves(C, Rewind(C, target), c, d)
<1> DEFINE D == Rewind(C, target)
           f == [k \in Layers |-> IF CanRestore(k, C.layer[k], None, target)
                                  THEN Restore(k, C.layer[k], None, target) ELSE Free(k, C.layer[k])]
<1>0. CacheOK(C) /\ C \in CacheType
  BY DEF Calm, CacheOK, Sound
<1>1. D.layer = f
  BY <1>0 DEF Rewind, EachLayer, CacheType
<1>2. ASSUME NEW k \in Layers PROVE Shifts(k, C.layer[k], f[k], c, d)
  <2> DEFINE L == C.layer[k]
             none == None
  <2>1. k \in Kinds /\ LayerOK(k, L) /\ Quiet(L) /\ L.off \in Nat
    BY <1>0, LayersAre DEF Calm
  <2>2. f[k] = IF CanRestore(k, L, none, target) THEN Restore(k, L, none, target) ELSE Free(k, L)
    OBVIOUS
  <2>a. none = None
    OBVIOUS
  <2> HIDE DEF L, f, none
  <2>3. TakenFits(k, L) /\ Fit(k, L, none)
    BY <2>1, <2>a, QuietIs DEF Fit
  <2>4. CASE CanRestore(k, L, none, target)
    <3> DEFINE R == Restore(k, L, none, target)
    <3>1. f[k] = R
      BY <2>2, <2>4
    <3>2. LayerOK(k, R) /\ Untouched(L, R) /\ R.off <= target
      BY <2>1, <2>3, <2>4, RestoreOK
    <3>3. ~R.spoiled /\ Live(k, L, c) => KeepsSnaps(L, R) /\ Live(k, R, c)
      BY <2>1, <2>3, <2>4, <2>a, RestoreRight
    <3> HIDE DEF R
    <3>4. Live(k, R, c) => Live(k, R, d)
      BY <2>1, <3>2, LiveAgrees
    <3>5. Shifts(k, L, R, c, d)
      BY <3>2, <3>3, <3>4, KeepsShifts DEF Untouched
    <3> QED BY <3>1, <3>5 DEF L
  <2>5. CASE ~CanRestore(k, L, none, target)
    <3> DEFINE R == Free(k, L)
    <3>1. f[k] = R
      BY <2>2, <2>5
    <3>2. DOMAIN R.snap = DOMAIN L.snap
      BY <2>1, <2>3, FreeOK
    <3>3. KeepsSnaps(L, R) /\ Live(k, R, d) /\ R.spoiled = L.spoiled
      BY <2>1, <2>3, FreeRight
    <3> HIDE DEF R
    <3>4. Shifts(k, L, R, c, d)
      BY <3>2, <3>3, KeepsShifts
    <3> QED BY <3>1, <3>4 DEF L
  <2> QED BY <2>4, <2>5
<1> HIDE DEF f, D
<1>3. Moves(C, D, c, d)
  BY <1>1, <1>2, MovesEach
<1> QED BY <1>3 DEF D

\* A quotient is smaller if the dividend is smaller than the product.
LEMMA QuotientIs ==
  ASSUME NEW j \in Nat, NEW w \in Nat, w > 0, NEW e \in Nat, j < e * w
  PROVE j \div w \in Nat /\ j \div w < e
<1> DEFINE q == j \div w
           r == j % w
<1>1. q \in Int /\ r \in 0 .. w - 1 /\ j = w * q + r
  OBVIOUS
<1>2. q \in Nat
  <2> SUFFICES ASSUME q < 0 PROVE FALSE
    BY <1>1
  <2> HIDE DEF q, r
  <2>1. w * q <= w * (0 - 1)
    BY <1>1
  <2> QED BY <1>1, <2>1
<1>3. q < e
  <2> SUFFICES ASSUME q >= e PROVE FALSE
    BY <1>1
  <2> HIDE DEF q, r
  <2>1. w * q >= w * e
    BY <1>1
  <2> QED BY <1>1, <2>1
<1> QED BY <1>2, <1>3

\* A snapshot of a node on the path to end brings back the beginning of end.
LEMMA PageInOneRight ==
  ASSUME NEW C, NEW matched \in Nat, NEW A, A \in Paging(C, matched), NEW step, step.layer \in Layers,
         NEW end \in Seq(Token), step.node \in Seq(Token), IsPrefix(step.node, end)
  PROVE Moves(A.c, PageInOne(A, step, matched).c, Text(end), Text(end))
<1> DEFINE k == step.layer
           n == step.node
           L == A.c.layer[k]
           s == At(L.snap, n)
           target == Least(Len(n), matched)
           R == PageInOne(A, step, matched)
           c == Text(end)
<1>0. /\ k \in Layers /\ A.c \in CacheType /\ Calm(A.c) /\ A = [c |-> A.c, stop |-> A.stop]
      /\ n \in Seq(Token) /\ IsPrefix(n, end) /\ Len(n) \in Nat
  BY DEF Paging
<1>1. CASE R = A
  BY <1>1 DEF Moves
<1>2. CASE R = [A EXCEPT !.stop = TRUE]
  <2>1. [A EXCEPT !.stop = TRUE].c = A.c
    BY <1>0
  <2> HIDE DEF R, c
  <2>2. R.c = A.c
    BY <1>2, <2>1
  <2>3. Moves(A.c, R.c, c, c)
    BY <2>2 DEF Moves
  <2> QED BY <2>3 DEF R, c
<1>3. CASE R # A /\ R # [A EXCEPT !.stop = TRUE]
  <2> DEFINE M == Restore(k, L, s, target)
             f == [j \in Layers |-> IF j = k THEN M ELSE A.c.layer[j]]
  <2>1. s # None /\ CanRestore(k, L, s, target) /\ R = [A EXCEPT !.c.layer[k] = M]
    BY <1>3 DEF PageInOne
  <2>2. CacheOK(A.c) /\ k \in Kinds /\ LayerOK(k, L) /\ Quiet(L) /\ L \in LayerType
    BY <1>0, LayersAre DEF Calm
  <2>3. TakenFits(k, L) /\ Fit(k, L, s) /\ target \in Nat
    <3>1. TakenFits(k, L) /\ Fit(k, L, s)
      <4> HIDE DEF k, L, n
      <4> QED BY <2>1, <2>2, QuietIs, HeldFits
    <3>2. target \in Nat
      BY <1>0 DEF Least
    <3> QED BY <3>1, <3>2
  <2>4. IsHeld(R, A, k, M)
    BY <2>1 DEF IsHeld
  <2>5. SnapsRight(k, L) => Carries(k, L, s, c, s.to)
    <3> SUFFICES ASSUME SnapsRight(k, L) PROVE Carries(k, L, s, c, s.to)
      OBVIOUS
    <3> DEFINE e == Text(n)
               m == Len(n)
    <3>1. Carries(k, L, s, e, m)
      <4> HIDE DEF k, L, n
      <4> QED BY <2>1, HeldRight
    <3>2. Agree(e, c, m) /\ m \in Nat
      <4> HIDE DEF n
      <4> QED BY <1>0, PrefixAgrees
    <3>3. s \in SnapshotSet /\ SnapFits(k, Len(L.buf), s)
      BY <2>1, <2>3 DEF Fit
    <3> HIDE DEF e, m, c, s, k, n, L
    <3>4. Carries(k, L, s, c, m) /\ s.to = m
      BY <2>2, <3>1, <3>2, <3>3, CarriesAgrees DEF Carries, Shows
    <3> QED BY <3>4
  <2> HIDE DEF L, s, target, R, c, n
  <2>6. LayerOK(k, M) /\ Untouched(L, M)
    <3> HIDE DEF k
    <3> QED BY <2>1, <2>2, <2>3, RestoreOK
  <2>7. ~M.spoiled /\ SnapsRight(k, L) /\ Live(k, L, c) => KeepsSnaps(L, M) /\ Live(k, M, c)
    <3> HIDE DEF k
    <3> QED BY <2>1, <2>2, <2>3, <2>5, RestoreRight
  <2>8. Shifts(k, L, M, c, c)
    <3> HIDE DEF k, M
    <3> QED BY <2>6, <2>7, KeepsShifts DEF Untouched
  <2>9. M \in LayerType
    BY <2>6 DEF LayerOK, Fits
  <2>10. f = [j \in Layers |-> IF j = k THEN M ELSE A.c.layer[j]] /\ f \in [Layers -> LayerType]
    <3>1. \A j \in Layers : A.c.layer[j] \in LayerType
      BY <1>0, CacheIs
    <3> HIDE DEF k, M
    <3> QED BY <2>9, <3>1
  <2>11. \A j \in Layers : f[j] = IF j = k THEN M ELSE A.c.layer[j]
    OBVIOUS
  <2> HIDE DEF k, M, f
  <2>12. IsRelayered(R.c, A.c, f)
    BY <1>0, <2>4, <2>9, <2>10, Held
  <2>13. R.c.layer = f
    BY <1>0, <2>10, <2>12, Relayered
  <2>14. ASSUME NEW j \in Layers PROVE Shifts(j, A.c.layer[j], R.c.layer[j], c, c)
    <3>1. CASE j = k
      BY <2>8, <2>11, <2>13, <3>1 DEF L
    <3>2. CASE j # k
      <4>1. R.c.layer[j] = A.c.layer[j]
        BY <2>11, <2>13, <3>2
      <4> QED BY <4>1 DEF Shifts
    <3> QED BY <3>1, <3>2
  <2>15. Moves(A.c, R.c, c, c)
    BY <2>14, MovesEach
  <2> QED BY <2>15 DEF R, c
<1> QED BY <1>1, <1>2, <1>3

\* The paging loop.
LEMMA PageInRight ==
  ASSUME NEW C, Calm(C), NEW end \in Seq(Token), NEW matched \in Nat, Within(C, matched)
  PROVE Moves(C, PageIn(C, end, matched), Text(end), Text(end))
<1> DEFINE c == Text(end)
           P == {A \in Paging(C, matched) : Moves(C, A.c, c, c)}
           N == Len(end) * Len(LayerSeq)
           start == [c |-> C, stop |-> FALSE]
           node(i) == SubSeq(end, 1, (i - 1) \div Len(LayerSeq) + 1)
           step(i) == [node |-> node(i), layer |-> Turn(i)]
<1>0. Len(LayerSeq) \in Nat /\ Len(LayerSeq) > 0 /\ Len(end) \in Nat
  <2>1. LayerSeq \in Seq(Kinds) /\ LayerSeq # <<>>
    BY PrefixAssumption DEF PrefixAssumption, Kinds
  <2> QED BY <2>1, EmptySeq
<1>1. N \in Nat
  BY <1>0
<1>2. start \in P
  <2>1. C \in CacheType
    BY DEF Calm, CacheOK, Sound
  <2>2. start \in Paging(C, matched) /\ start.c = C
    BY <2>1 DEF Paging
  <2> HIDE DEF start, c
  <2> QED BY <2>2 DEF Moves
<1>n. ASSUME NEW i \in 1 .. N PROVE node(i) \in Seq(Token) /\ IsPrefix(node(i), end)
  <2> DEFINE w == Len(LayerSeq)
             e == Len(end)
             j == i - 1
             q == j \div w
             m == q + 1
  <2>1. w \in Nat /\ w > 0 /\ e \in Nat /\ j \in Nat /\ j < e * w
    BY <1>0, <1>1
  <2>2. q \in Nat /\ q < e
    <3> HIDE DEF w, e, j
    <3> QED BY <2>1, QuotientIs
  <2>3. m \in 0 .. Len(end) /\ node(i) = SubSeq(end, 1, m)
    <3>1. m \in 0 .. e
      <4> HIDE DEF q, e
      <4> QED BY <2>1, <2>2
    <3> QED BY <3>1
  <2> HIDE DEF m, node
  <2> QED BY <2>3, PrefixSub
<1> HIDE DEF node
<1>3. ASSUME NEW A \in P, NEW i \in 1 .. N PROVE PageInOne(A, step(i), matched) \in P
  <2> DEFINE s == step(i)
             B == PageInOne(A, s, matched)
  <2>1. s.layer \in Layers /\ s.node \in Seq(Token) /\ IsPrefix(s.node, end)
    <3>1. i \in Nat /\ i > 0
      BY <1>1
    <3> QED BY <1>n, <3>1, TurnIs
  <2>2. A \in Paging(C, matched) /\ Moves(C, A.c, c, c)
    OBVIOUS
  <2> HIDE DEF s, B
  <2>3. B \in Paging(C, matched)
    BY <2>1, <2>2, PageInOneOK DEF B
  <2>4. Moves(A.c, B.c, c, c)
    BY <2>1, <2>2, PageInOneRight DEF B
  <2> HIDE DEF c
  <2>5. Moves(C, B.c, c, c)
    BY <2>2, <2>4, MovesTrans
  <2> QED BY <2>3, <2>5 DEF s, B
<1> HIDE DEF N, P, start
<1>4. \E r : IsPaged(C, end, matched, N, r)
  <2> DEFINE g == [i \in 1 .. N |-> [A \in P |-> PageInOne(A, step(i), matched)]]
  <2>1. g \in [1 .. N -> [P -> P]]
    <3> HIDE DEF step
    <3> QED BY <1>3
  <2>2. PICK f : IsRun(f, N, P, start, g)
    <3>1. \E f : IsRun(f, N, P, start, g)
      <4> HIDE DEF g
      <4> QED BY ONLY <1>1, <1>2, <2>1, RecursionExists
    <3> HIDE DEF g
    <3> QED BY <3>1
  <2>a. f \in [0 .. N -> P] /\ f[0] = start /\ \A i \in 1 .. N : f[i] = g[i][f[i - 1]]
    <3> HIDE DEF g
    <3> QED BY <2>2 DEF IsRun
  <2>3. ASSUME NEW i \in 0 .. N PROVE f[i] = IF i = 0 THEN start ELSE PageInOne(f[i - 1], step(i), matched)
    <3>1. CASE i = 0
      BY <2>a, <3>1
    <3>2. CASE i # 0
      <4>1. i \in 1 .. N /\ i - 1 \in 0 .. N
        BY <1>1, <3>2
      <4>2. f[i - 1] \in P /\ f[i] = g[i][f[i - 1]]
        <5> HIDE DEF g
        <5> QED BY <2>a, <4>1
      <4>3. g[i][f[i - 1]] = PageInOne(f[i - 1], step(i), matched)
        <5> HIDE DEF step
        <5> QED BY <4>1, <4>2
      <4> HIDE DEF g, step
      <4> QED BY <3>2, <4>2, <4>3
    <3> QED BY <3>1, <3>2
  <2>4. f = [i \in 0 .. N |-> f[i]]
    BY <2>a
  <2> QED BY <2>3, <2>4 DEF IsPaged, start, node
<1> DEFINE r == CHOOSE r : IsPaged(C, end, matched, N, r)
<1>5. IsPaged(C, end, matched, N, r)
  BY <1>4
<1>6. PageIn(C, end, matched) = r[N].c
  BY DEF PageIn, IsPaged, Turn, N
<1> HIDE DEF r
<1>7. r[0] = start /\ \A i \in 1 .. N : r[i] = PageInOne(r[i - 1], step(i), matched)
  <2>1. \A i \in 0 .. N : r[i] = IF i = 0 THEN start ELSE PageInOne(r[i - 1], step(i), matched)
    BY <1>5, Zenon DEF IsPaged, start, node
  <2> HIDE DEF step
  <2>2. 0 \in 0 .. N /\ \A i \in 1 .. N : i \in 0 .. N /\ i # 0
    BY <1>1
  <2> QED BY <2>1, <2>2
<1>8. \A i \in 0 .. N : r[i] \in P
  <2>1. r[0] \in P /\ \A i \in 1 .. N : r[i - 1] \in P => r[i] \in P
    <3> HIDE DEF step
    <3> QED BY <1>2, <1>3, <1>7
  <2> QED BY <1>1, <2>1, AlongRecursion
<1>9. r[N] \in P
  <2>1. N \in 0 .. N
    BY <1>1
  <2> QED BY <1>8, <2>1
<1>10. Moves(C, r[N].c, c, c)
  <2> HIDE DEF c
  <2> QED BY <1>9 DEF P
<1> QED BY <1>6, <1>10

\* The layers are brought to one offset, the path is cut back to it.
LEMMA AlignRight ==
  ASSUME NEW C, Calm(C), NEW end \in C.nodes
  PROVE LET D == Align(C, end)
        IN /\ Moves(C, D, Text(end), Text(end)) /\ IsPrefix(D.frontier, end)
           /\ Fine(D) => Len(D.frontier) <= MinOffset(D)
<1> DEFINE D == Align(C, end)
           min == MinOffset(C)
           stuck == \E k \in Layers : C.layer[k].off # min /\ ~CanRestore(k, C.layer[k], None, min)
           w == Longest({p \in Ancestors(C, end) : Len(p) <= min})
           f == [k \in Layers |-> [Free(k, C.layer[k]) EXCEPT !.spoiled = @ \/ w # Root]]
           g == [k \in Layers |-> IF C.layer[k].off = min THEN C.layer[k] ELSE Restore(k, C.layer[k], None, min)]
           freed == EachLayer(C, LAMBDA k, L : [Free(k, L) EXCEPT !.spoiled = @ \/ w # Root])
           moved == EachLayer(C, LAMBDA k, L : IF L.off = min THEN L ELSE Restore(k, L, None, min))
           aligned == IF stuck THEN freed ELSE moved
           c == Text(end)
<1>0. CacheOK(C) /\ C \in CacheType /\ min \in Nat /\ end \in Seq(Token) /\ c[0] = <<>>
  <2>1. CacheOK(C) /\ C \in CacheType
    BY DEF Calm, CacheOK, Sound
  <2>2. end \in Seq(Token)
    BY <2>1, CacheIs
  <2>3. c[0] = <<>>
    BY <2>2, TextAt
  <2> QED BY <2>1, <2>2, <2>3, MinOffsetIs
<1>1. D.layer = (IF stuck THEN f ELSE g) /\ D.frontier = w
  <2>1. D = [aligned EXCEPT !.frontier = w]
    BY DEF Align
  <2>2. /\ freed.layer = f /\ moved.layer = g
        /\ freed = [nodes |-> C.nodes, user |-> C.user, lastUsed |-> C.lastUsed, frontier |-> C.frontier, layer |-> f]
        /\ moved = [nodes |-> C.nodes, user |-> C.user, lastUsed |-> C.lastUsed, frontier |-> C.frontier, layer |-> g]
    <3>1. IsRelayered(freed, C, f) /\ IsRelayered(moved, C, g)
      BY <1>0 DEF EachLayer, IsRelayered, CacheType
    <3> HIDE DEF f, g, freed, moved
    <3> QED BY <1>0, <3>1 DEF IsRelayered, CacheType
  <2> HIDE DEF D, f, g, w, freed, moved, stuck
  <2>3. CASE stuck
    <3>1. D = [freed EXCEPT !.frontier = w]
      BY <2>1, <2>3
    <3> QED BY <2>2, <2>3, <3>1
  <2>4. CASE ~stuck
    <3>1. D = [moved EXCEPT !.frontier = w]
      BY <2>1, <2>4
    <3> QED BY <2>2, <2>4, <3>1
  <2> QED BY <2>3, <2>4
<1>2. w \in Seq(Token) /\ IsPrefix(w, end) /\ Len(w) <= min
  <2> DEFINE T == {p \in Ancestors(C, end) : Len(p) <= min}
  <2>1. C.nodes \in SUBSET Seq(Token) /\ IsFiniteSet(C.nodes) /\ Root \in C.nodes
    BY <1>0 DEF CacheOK, TreeOK, Trie
  <2>2. T \in SUBSET C.nodes
    BY DEF Ancestors
  <2>3. Root \in T
    BY <1>0, <2>1, PrefixRoot DEF Ancestors
  <2>4. T \in SUBSET Seq(Token) /\ IsFiniteSet(T) /\ T # {}
    BY <2>1, <2>2, <2>3, FS_Subset
  <2> HIDE DEF T
  <2>5. Longest(T) \in T
    BY <2>4, LongestIs
  <2>6. \A p \in T : p \in Seq(Token) /\ IsPrefix(p, end) /\ Len(p) <= min
    BY <2>1, <2>2 DEF T, Ancestors
  <2> QED BY <2>5, <2>6 DEF T
<1>3. ASSUME NEW k \in Layers
      PROVE Shifts(k, C.layer[k], f[k], c, c) /\ (~f[k].spoiled => w = Root)
  <2> DEFINE L == C.layer[k]
             F == Free(k, L)
             R == [F EXCEPT !.spoiled = @ \/ w # Root]
             b == F.spoiled \/ w # Root
  <2>1. k \in Kinds /\ LayerOK(k, L) /\ Quiet(L)
    BY <1>0, LayersAre DEF Calm
  <2>2. f[k] = R
    OBVIOUS
  <2> HIDE DEF L, f, c
  <2>3. TakenFits(k, L)
    BY <2>1, QuietIs
  <2>4. LayerOK(k, F) /\ DOMAIN F.snap = DOMAIN L.snap
    BY <2>1, <2>3, FreeOK
  <2>5. KeepsSnaps(L, F) /\ Live(k, F, c) /\ F.spoiled = L.spoiled
    BY <1>0, <2>1, <2>3, FreeRight
  <2> HIDE DEF F, w
  <2>6. R = [F EXCEPT !.spoiled = b] /\ b \in BOOLEAN /\ (F.spoiled => b) /\ (~b => w = Root)
    OBVIOUS
  <2> HIDE DEF R, b
  <2>7. SameLive(F, R)
    BY <2>4, <2>6, SpoiledOK
  <2>8. R.spoiled = b
    <3>1. F \in LayerType
      BY <2>4 DEF LayerOK, Fits
    <3> QED BY <2>6, <3>1 DEF LayerType
  <2>9. (SnapsRight(k, F) => SnapsRight(k, R)) /\ Live(k, R, c)
    BY <2>5, <2>7, SameLiveRight
  <2>10. SnapsRight(k, L) => SnapsRight(k, F)
    BY <2>4, <2>5, KeepsRight
  <2>11. Shifts(k, L, R, c, c)
    BY <2>5, <2>6, <2>8, <2>9, <2>10 DEF Shifts
  <2> QED BY <2>2, <2>6, <2>8, <2>11 DEF L
<1>4. ASSUME NEW k \in Layers, ~stuck
      PROVE Shifts(k, C.layer[k], g[k], c, c) /\ g[k].off = min
  <2> DEFINE L == C.layer[k]
             s == None
             R == Restore(k, L, s, min)
  <2>1. k \in Kinds /\ LayerOK(k, L) /\ Quiet(L)
    BY <1>0, LayersAre DEF Calm
  <2>2. g[k] = IF L.off = min THEN L ELSE R
    OBVIOUS
  <2>3. L.off # min => CanRestore(k, L, s, min)
    BY <1>4
  <2>4. Fit(k, L, s) /\ s = None
    BY DEF Fit
  <2> HIDE DEF L, g, min, s, c
  <2>5. TakenFits(k, L)
    BY <2>1, QuietIs
  <2>6. CASE L.off = min
    <3>1. g[k] = L
      BY <2>2, <2>6
    <3>2. Shifts(k, L, L, c, c)
      BY DEF Shifts
    <3> QED BY <2>6, <3>1, <3>2 DEF L
  <2>7. CASE L.off # min
    <3>1. LayerOK(k, R) /\ Untouched(L, R) /\ R.off = min
      BY <1>0, <2>1, <2>3, <2>4, <2>5, <2>7, RestoreOK
    <3>2. ~R.spoiled /\ Live(k, L, c) => KeepsSnaps(L, R) /\ Live(k, R, c)
      BY <1>0, <2>1, <2>3, <2>4, <2>5, <2>7, RestoreRight
    <3> HIDE DEF R
    <3>3. Shifts(k, L, R, c, c)
      BY <3>1, <3>2, KeepsShifts DEF Untouched
    <3> QED BY <2>2, <2>7, <3>1, <3>3 DEF L
  <2> QED BY <2>6, <2>7
<1>5. CacheOK(D)
  <2>1. PICK most \in Nat : Within(C, most)
    <3>1. IsFiniteSet(Layers) /\ Layers # {} /\ \A k \in Layers : C.layer[k].off \in Nat
      BY <1>0, LayersAre, ConstantsAre
    <3> DEFINE h == [k \in Layers |-> C.layer[k].off]
    <3>2. h \in [Layers -> Int] /\ \A k \in Layers : h[k] = C.layer[k].off
      BY <3>1
    <3> HIDE DEF h
    <3>3. PICK x \in Layers : \A k \in Layers : h[k] <= h[x]
      BY <3>1, <3>2, GreatestIn
    <3>4. h[x] \in Nat /\ \A k \in Layers : C.layer[k].off <= h[x]
      BY <3>1, <3>2, <3>3
    <3> QED BY <3>4 DEF Within
  <2> HIDE DEF D
  <2> QED BY <2>1, AlignOK DEF Calm, D
<1> HIDE DEF D, f, g, w, stuck, min, c
<1>6. Moves(C, D, c, c)
  <2>1. CASE stuck
    BY <1>1, <1>3, <2>1, MovesEach
  <2>2. CASE ~stuck
    BY <1>1, <1>4, <2>2, MovesEach
  <2> QED BY <2>1, <2>2
<1>7. ASSUME Fine(D) PROVE Len(w) <= MinOffset(D)
  <2>1. MinOffset(D) \in Nat
    BY <1>5, MinOffsetIs
  <2>2. CASE stuck
    <3>1. PICK j \in Layers : TRUE
      BY ConstantsAre
    <3>2. w = Root
      BY <1>1, <1>3, <1>7, <2>2, <3>1 DEF Fine
    <3>3. Len(w) = 0
      BY <3>2, PrefixRoot
    <3> QED BY <2>1, <3>3
  <2>3. CASE ~stuck
    <3>1. \A k \in Layers : D.layer[k].off = min
      BY <1>1, <1>4, <2>3
    <3>2. MinOffset(D) = min
      BY <1>5, <3>1, EvenIs
    <3> QED BY <1>2, <3>2
  <2> QED BY <2>2, <2>3
<1> QED BY <1>1, <1>2, <1>6, <1>7 DEF D, c

\* switchToPath: what is left in the layers is the beginning of the new path's text.
LEMMA SwitchToPathRight ==
  ASSUME NEW C, Calm(C), NEW end \in C.nodes, NEW matched \in Nat,
         Fine(C) => \A k \in Layers : C.layer[k].off = Len(C.frontier)
  PROVE LET D == SwitchToPath(C, end, matched)
        IN /\ Moves(C, D, Text(C.frontier), Text(end)) /\ IsPrefix(D.frontier, end)
           /\ Fine(D) => Len(D.frontier) <= MinOffset(D)
<1> DEFINE w == Longest(Ancestors(C, C.frontier) \cap Ancestors(C, end))
           common == Len(w)
           target == Least(common, matched)
           out == PageOut(C, end, matched)
           back == Rewind(out, target)
           paged == PageIn(back, end, matched)
           even == Align(paged, end)
           used == Touched(even)
           D == EnforceEvictionPolicy(used)
           b == Text(C.frontier)
           c == Text(end)
<1>1. SwitchToPath(C, end, matched) = D
  BY DEF SwitchToPath
<1>2. /\ target \in Nat /\ target <= matched /\ target <= common /\ common \in Nat
      /\ w \in Seq(Token) /\ IsPrefix(w, C.frontier) /\ IsPrefix(w, end)
      /\ C.frontier \in Seq(Token) /\ end \in Seq(Token)
  <2> DEFINE T == Ancestors(C, C.frontier) \cap Ancestors(C, end)
  <2>1. C.nodes \in SUBSET Seq(Token) /\ IsFiniteSet(C.nodes) /\ Root \in C.nodes /\ C.frontier \in C.nodes
    BY DEF Calm, CacheOK, TreeOK, Trie
  <2>2. T \in SUBSET C.nodes /\ Root \in T
    BY <2>1, PrefixRoot DEF Ancestors
  <2>3. T \in SUBSET Seq(Token) /\ IsFiniteSet(T) /\ T # {}
    BY <2>1, <2>2, FS_Subset
  <2>a. \A p \in T : IsPrefix(p, C.frontier) /\ IsPrefix(p, end)
    BY DEF Ancestors
  <2> HIDE DEF T
  <2>4. Longest(T) \in Seq(Token) /\ Longest(T) \in T
    BY <2>3, LongestIs
  <2>5. w \in Seq(Token) /\ common \in Nat /\ IsPrefix(w, C.frontier) /\ IsPrefix(w, end)
    BY <2>4, <2>a DEF T
  <2> HIDE DEF common, w
  <2> QED BY <2>1, <2>5 DEF Least
<1>3. Calm(out) /\ SameTree(C, out)
  BY PageOutOK
<1>a. Moves(C, out, b, b)
  BY PageOutRight
<1>b. Agree(b, c, target) /\ c[0] = <<>>
  <2> DEFINE a == Text(w)
  <2>1. Agree(b, a, common) /\ Agree(a, c, common) /\ c[0] = <<>>
    <3> HIDE DEF w
    <3> QED BY <1>2, PrefixAgrees, TextAt
  <2> HIDE DEF a, b, c, target, common
  <2>2. Agree(a, c, target)
    BY <1>2, <2>1 DEF Agree
  <2> QED BY <1>2, <2>1, <2>2, AgreeTrans
<1> HIDE DEF target, out, w, b, c
<1>4. Calm(back) /\ SameTree(out, back) /\ Within(back, target)
  BY <1>2, <1>3, RewindOK
<1>c. Moves(out, back, b, c)
  BY <1>2, <1>3, <1>b, RewindRight
<1> HIDE DEF back
<1>5. Within(back, matched) /\ end \in back.nodes
  <2>1. CacheOK(back) /\ end \in back.nodes
    BY <1>3, <1>4 DEF Calm, SameTree
  <2> QED BY <1>2, <1>4, <2>1, WithinMore
<1>6. Calm(paged) /\ paged.nodes = back.nodes /\ Within(paged, matched)
  BY <1>2, <1>4, <1>5, PageInOK
<1>d. Moves(back, paged, c, c)
  BY <1>2, <1>4, <1>5, PageInRight DEF c
<1> HIDE DEF paged
<1>7. Calm(even) /\ Even(even)
  BY <1>5, <1>6, AlignOK
<1>e. Moves(paged, even, c, c) /\ IsPrefix(even.frontier, end) /\ (Fine(even) => Len(even.frontier) <= MinOffset(even))
  BY <1>5, <1>6, AlignRight DEF c
<1> HIDE DEF even
<1>8. CacheOK(used) /\ SameRuns(even, used) /\ used.frontier = even.frontier /\ Goes(even, used)
  <2>1. CacheOK(even) /\ even \in CacheType
    BY <1>7 DEF Calm, CacheOK, Sound
  <2> QED BY <2>1, TouchedOK, TouchedRight
<1> HIDE DEF used
<1>9. CacheOK(D) /\ SameRuns(used, D) /\ D.frontier = used.frontier /\ Goes(used, D)
  BY <1>8, EnforceOK, EnforceRight
<1> HIDE DEF D
<1>10. SameRuns(even, D) /\ Goes(even, D)
  BY <1>8, <1>9, SameRunsTrans, GoesTrans
<1>11. Moves(C, D, b, c)
  <2>1. Moves(even, D, c, c)
    BY <1>10, GoesMoves
  <2>2. Moves(C, back, b, c)
    BY <1>a, <1>c, MovesTrans
  <2>3. Moves(C, paged, b, c)
    BY <1>d, <2>2, MovesTrans
  <2>4. Moves(C, even, b, c)
    BY <1>e, <2>3, MovesTrans
  <2> QED BY <2>1, <2>4, MovesTrans
<1>12. MinOffset(D) = MinOffset(even)
  <2>1. \A k \in Layers : D.layer[k].off = MinOffset(even)
    BY <1>7, <1>10 DEF Even, SameRuns, SameRun
  <2> QED BY <1>9, <2>1, EvenIs
<1>13. Fine(D) => Fine(even)
  BY <1>10, SameRunsFine
<1> QED BY <1>1, <1>8, <1>9, <1>11, <1>12, <1>13, <1>e DEF b, c

-----------------------------------------------------------------------------
(* Schedules, forwards and captures of all layers                            *)

\* What is captured holds c up to its offset.
Took(C, c) == \A k \in Layers : TakenRight(k, C.layer[k], c)

\* The layers are not touched.
LEMMA SameLivesMove ==
  ASSUME NEW C, NEW D, \A k \in Layers : SameLive(C.layer[k], D.layer[k]), NEW c
  PROVE Moves(C, D, c, c)
<1> SUFFICES ASSUME NEW k \in Layers PROVE Shifts(k, C.layer[k], D.layer[k], c, c)
  BY MovesEach
<1> DEFINE L == C.layer[k]
           R == D.layer[k]
<1>1. SameLive(L, R)
  OBVIOUS
<1> HIDE DEF L, R
<1>2. Shifts(k, L, R, c, c)
  BY <1>1, SameLiveRight DEF Shifts, SameLive
<1> QED BY <1>2 DEF L, R

\* Without a schedule nothing is captured.
LEMMA CalmTook ==
  ASSUME NEW C, Calm(C), NEW c
  PROVE Took(C, c)
BY QuietRight DEF Calm, Took

\* schedulePrefillSnapshots and scheduleSpeculation: a recurrent layer captures its state at once.
LEMMA ScheduledRight ==
  ASSUME NEW C, Calm(C), Even(C), NEW offsets \in SUBSET Nat, NEW c
  PROVE LET D == Scheduled(C, offsets)
        IN Moves(C, D, c, c) /\ (Filled(C, c) => Took(D, c)) /\ SameTree(C, D)
<1> DEFINE D == Scheduled(C, offsets)
<1>0. CacheOK(C)
  BY DEF Calm
<1>1. CASE offsets = {}
  <2>1. D = C
    BY <1>1 DEF Scheduled
  <2> HIDE DEF D
  <2>2. Moves(C, D, c, c) /\ Took(D, c) /\ SameTree(C, D)
    BY <2>1, CalmTook DEF Moves, SameTree
  <2> QED BY <2>2 DEF D
<1>2. CASE offsets # {}
  <2>1. SameTree(C, D) /\ \A k \in Layers : D.layer[k] = PrepareSnapshots(k, C.layer[k], offsets)
    BY <1>0, <1>2, PreparedOK
  <2> HIDE DEF D
  <2>2. ASSUME NEW k \in Layers
        PROVE SameLive(C.layer[k], D.layer[k]) /\ (Live(k, C.layer[k], c) => TakenRight(k, D.layer[k], c))
    <3> DEFINE L == C.layer[k]
               R == PrepareSnapshots(k, L, offsets)
    <3>1. k \in Kinds /\ LayerOK(k, L) /\ D.layer[k] = R
      BY <1>0, <2>1, LayersAre
    <3> HIDE DEF L
    <3>2. SameLive(L, R)
      BY <3>1, PrepareOK
    <3>3. Live(k, L, c) => TakenRight(k, R, c)
      BY <3>1, PrepareRight
    <3> HIDE DEF R
    <3> QED BY <3>1, <3>2, <3>3 DEF L
  <2>3. Moves(C, D, c, c)
    BY <2>2, SameLivesMove
  <2>4. Filled(C, c) => Took(D, c)
    BY <2>2 DEF Filled, Took
  <2> QED BY <2>1, <2>3, <2>4 DEF D
<1> QED BY <1>1, <1>2

\* A forward over tokens that continue what the layers hold.
LEMMA ForwardedRight ==
  ASSUME NEW C, CacheOK(C), Taking(C), Even(C), NEW w \in Seq(Token), NEW n \in Nat \ {0},
         MinOffset(C) + n = Len(w), NEW c, Agree(Text(w), c, Len(w))
  PROVE LET D == Forwarded(C, w, n)
        IN Fine(D) => Fine(C) /\ (Fills(C, c) /\ Took(C, c) => Fills(D, c) /\ Took(D, c))
<1> DEFINE D == Forwarded(C, w, n)
<1>1. C \in CacheType /\ MinOffset(C) \in Nat /\ n \in Nat /\ n > 0 /\ n <= Len(w) /\ MinOffset(C) = Len(w) - n
  <2>1. C \in CacheType /\ MinOffset(C) \in Nat /\ Len(w) \in Nat
    BY MinOffsetIs DEF CacheOK, Sound
  <2> QED BY <2>1
<1>2. \A k \in Layers : D.layer[k] = Forward(k, C.layer[k], w, n)
  BY <1>1 DEF Forwarded, EachLayer, CacheType
<1>3. \A k \in Layers : Advanced(k, C.layer[k], D.layer[k], n)
  BY ForwardedOK
<1> HIDE DEF D
<1>4. ASSUME Fine(D), NEW k \in Layers
      PROVE  /\ ~C.layer[k].spoiled
             /\ SnapsRight(k, C.layer[k]) /\ Live(k, C.layer[k], c) /\ TakenRight(k, C.layer[k], c)
                  => SnapsRight(k, D.layer[k]) /\ Live(k, D.layer[k], c) /\ TakenRight(k, D.layer[k], c)
  <2> DEFINE L == C.layer[k]
             R == Forward(k, L, w, n)
             b == Text(w)
  <2>1. k \in Kinds /\ LayerOK(k, L) /\ TakenFits(k, L) /\ L.off = Len(w) - n /\ Agree(b, c, Len(w))
    BY <1>1, LayersAre DEF Even, Taking
  <2>2. D.layer[k] = R /\ Advanced(k, L, R, n) /\ ~R.spoiled
    BY <1>2, <1>3, <1>4 DEF Fine
  <2> HIDE DEF L
  <2>3. Live(k, L, c) /\ TakenRight(k, L, c) => Conveys(k, L, R, c)
    BY <1>1, <2>1, ForwardRight
  <2> HIDE DEF R
  <2>4. DOMAIN R.snap = DOMAIN L.snap /\ ~L.spoiled
    BY <2>2 DEF Advanced
  <2>5. SnapsRight(k, L) /\ Live(k, L, c) /\ TakenRight(k, L, c)
          => SnapsRight(k, R) /\ Live(k, R, c) /\ TakenRight(k, R, c)
    BY <2>2, <2>3, <2>4, KeepsRight DEF Conveys
  <2> QED BY <2>2, <2>4, <2>5 DEF L
<1>5. Fine(D) => Fine(C) /\ (Fills(C, c) /\ Took(C, c) => Fills(D, c) /\ Took(D, c))
  BY <1>4 DEF Fine, Fills, Took, Filled, Right
<1> QED BY <1>5 DEF D

-----------------------------------------------------------------------------
(* attachPrefillSnapshots                                                    *)

\* attachPrefillSnapshots for one offset: the frontier is moved there and gets what was
\* captured there.
LEMMA AttachRight ==
  ASSUME NEW C, Calm(C), session.inputs \in Seq(Token), NEW o \in 1 .. Len(session.inputs),
         NEW rows, \A k \in Layers : Fit(k, C.layer[k], At(rows[k], o)),
         IsPrefix(C.frontier, session.inputs), Len(C.frontier) <= o,
         \A k \in Layers : At(rows[k], o) # None
            => Carries(k, C.layer[k], At(rows[k], o), Text(session.inputs), o)
  PROVE LET D == Attach(C, o, rows)
        IN Goes(C, D) /\ D.frontier = SubSeq(session.inputs, 1, o)
<1> DEFINE w == SubSeq(session.inputs, 1, o)
           A == IF Len(C.frontier) < o THEN AdvancePath(C, w) ELSE C
           U == IF o \in session.user THEN [A EXCEPT !.user = @ \cup {A.frontier}] ELSE A
           snaps == [k \in Layers |-> At(rows[k], o)]
           S == SetSnapshots(U, U.frontier, snaps)
           T == Touched(S)
           D == EnforceEvictionPolicy(T)
           c == Text(session.inputs)
<1>0. Attach(C, o, rows) = D
  BY DEF Attach
<1>1. w \in Nodes /\ w \in Seq(Token) /\ Len(w) = o /\ o > 0 /\ o \in Nat /\ IsPrefix(w, session.inputs)
  <2>1. o \in 0 .. Len(session.inputs) /\ o > 0 /\ o \in Nat
    OBVIOUS
  <2>2. w \in Seq(Token) /\ Len(w) = o /\ IsPrefix(w, session.inputs)
    BY <2>1, PrefixSub
  <2>3. w # Root
    BY <2>1, <2>2, PrefixRoot
  <2> QED BY <2>1, <2>2, <2>3 DEF Nodes
<1>2. CacheOK(A) /\ SameRuns(C, A) /\ Goes(C, A) /\ A.frontier = w
  <2>1. CASE Len(C.frontier) < o
    <3>1. A = AdvancePath(C, w)
      BY <2>1
    <3> HIDE DEF A, w
    <3> QED BY <1>1, <3>1, AdvancePathOK, AdvancePathRight DEF Calm
  <2>2. CASE ~(Len(C.frontier) < o)
    <3>1. A = C
      BY <2>2
    <3>2. C.frontier \in Seq(Token) /\ Len(C.frontier) = o
      <4>1. C.frontier \in Seq(Token)
        BY CacheIs DEF Calm, CacheOK, Sound
      <4>2. Len(C.frontier) \in Nat
        BY <4>1
      <4> QED BY <1>1, <2>2, <4>1, <4>2
    <3>3. C.frontier = w
      <4> DEFINE p == C.frontier
                 r == session.inputs
      <4>1. p \in Seq(Token) /\ w \in Seq(Token) /\ r \in Seq(Token) /\ IsPrefix(p, r) /\ IsPrefix(w, r) /\ Len(p) = Len(w)
            /\ Len(p) <= Len(w) /\ Len(w) <= Len(p)
        BY <1>1, <3>2
      <4> HIDE DEF p, r, w
      <4>2. IsPrefix(p, w)
        BY <4>1, PrefixComparable
      <4>3. p = w
        BY <4>1, <4>2, PrefixLen
      <4> QED BY <4>3 DEF p
    <3> HIDE DEF A, w
    <3> QED BY <3>1, <3>3, SameRunsRefl, GoesSame DEF Calm
  <2> QED BY <2>1, <2>2
<1> HIDE DEF A
<1>3. CacheOK(U) /\ SameRuns(C, U) /\ Goes(C, U) /\ U.frontier = w
  <2>1. CASE U = A
    BY <1>2, <2>1
  <2>2. CASE U = [A EXCEPT !.user = @ \cup {A.frontier}]
    <3>1. A \in CacheType
      BY <1>2 DEF CacheOK, Sound
    <3>2. U.layer = A.layer
      BY <2>2, <3>1 DEF CacheType
    <3> HIDE DEF U, w
    <3>3. CacheOK(U) /\ SameRuns(A, U) /\ U.frontier = A.frontier
      BY <1>2, <2>2, RetainedOK
    <3>4. Goes(A, U)
      BY <3>2, GoesSame
    <3> QED BY <1>2, <3>3, <3>4, SameRunsTrans, GoesTrans
  <2> QED BY <2>1, <2>2
<1> HIDE DEF U
<1>4. CacheOK(S) /\ SameRuns(U, S) /\ Goes(U, S) /\ S.frontier = w
  <2> DEFINE n == U.frontier
  <2>1. n \in U.nodes /\ n # Root /\ S = SetSnapshots(U, n, snaps) /\ CacheOK(U) /\ n = w /\ n \in Nodes
    BY <1>1, <1>3 DEF CacheOK, TreeOK, Nodes
  <2>2. \A k \in Layers : Fit(k, C.layer[k], snaps[k])
    OBVIOUS
  <2>3. ASSUME NEW k \in Layers, snaps[k] # None PROVE Carries(k, C.layer[k], snaps[k], Text(w), Len(w))
    <3> DEFINE L == C.layer[k]
               s == snaps[k]
               d == Text(w)
    <3>1. k \in Kinds /\ L \in LayerType /\ s \in SnapshotSet /\ SnapFits(k, Len(L.buf), s) /\ Carries(k, L, s, c, o)
      <4>1. CacheOK(C)
        BY DEF Calm
      <4>2. LayerOK(k, C.layer[k]) /\ k \in Kinds
        BY <4>1, LayersAre
      <4> QED BY <2>2, <2>3, <4>2 DEF Fit, LayerOK, Fits
    <3>2. Agree(c, d, o)
      <4>1. Agree(c, d, Len(w))
        <5> HIDE DEF w
        <5> QED BY <1>1, PrefixAgrees
      <4> QED BY <1>1, <4>1
    <3> HIDE DEF L, s, c, d
    <3>3. Carries(k, L, s, d, o)
      BY <1>1, <3>1, <3>2, CarriesAgrees
    <3> QED BY <1>1, <3>3 DEF L, s, d
  <2>4. Shown(C, w, snaps)
    BY <2>3 DEF Shown
  <2> HIDE DEF n, snaps, S, w
  <2>5. \A k \in Layers : Fit(k, U.layer[k], snaps[k])
    BY <1>3, <2>2, SameRunIs DEF SameRuns
  <2>6. Shown(U, n, snaps)
    BY <1>3, <2>1, <2>4, ShownSame
  <2>7. CacheOK(S) /\ SameTree(U, S) /\ SameRuns(U, S)
    BY ONLY <2>1, <2>5, SetOnNodeOK
  <2>8. Goes(U, S)
    <3>1. Sound(U) /\ (n \in Nodes \/ \A k \in Layers : snaps[k] = None)
      BY <2>1 DEF CacheOK
    <3> QED BY ONLY <2>1, <2>5, <2>6, <3>1, SetSnapshotsRight
  <2> QED BY <1>3, <2>7, <2>8 DEF SameTree
<1> HIDE DEF S
<1>5. CacheOK(T) /\ Goes(S, T) /\ T.frontier = w
  <2>1. S \in CacheType
    BY <1>4 DEF CacheOK, Sound
  <2> HIDE DEF w
  <2> QED BY <1>4, <2>1, TouchedOK, TouchedRight
<1> HIDE DEF T
<1>6. Goes(T, D) /\ D.frontier = w
  <2> HIDE DEF w
  <2> QED BY <1>5, EnforceOK, EnforceRight
<1> HIDE DEF D
<1>7. Goes(C, D)
  BY <1>3, <1>4, <1>5, <1>6, GoesTrans
<1> QED BY <1>0, <1>6, <1>7

\* D is what attachPrefillSnapshots has made of start after the offsets up to i.
Reached(start, D, i) ==
  /\ Goes(start, D) /\ IsPrefix(D.frontier, session.inputs) /\ Len(D.frontier) <= Cached
  /\ \A o \in session.pending : o > i => Len(D.frontier) < o

\* attachPrefillSnapshots.
LEMMA AttachedRight ==
  ASSUME CacheOK(cache), Taking(cache), session.inputs \in Seq(Token), Cached <= Len(session.inputs),
         session.pending \in SUBSET Nat, IsPrefix(cache.frontier, session.inputs),
         Len(cache.frontier) <= Cached, \A o \in session.pending : Len(cache.frontier) < o,
         Took(cache, Text(session.inputs))
  PROVE /\ Moves(cache, Attached, Text(session.inputs), Text(session.inputs))
        /\ IsPrefix(Attached.frontier, session.inputs) /\ Len(Attached.frontier) <= Cached
<1> DEFINE c == Text(session.inputs)
           start == Emptied(cache)
           rows == Rows(cache)
           N == Cached
<1>1. N \in Nat /\ N \in 0 .. N /\ N <= Len(session.inputs)
  BY MinOffsetIs DEF Cached
<1>2. Calm(start) /\ SameTree(cache, start) /\ \A k \in Layers : SameLive(cache.layer[k], start.layer[k])
  BY EmptiedOK
<1>3. PICK r : AttachedBy(r)
  BY AttachedRun
<1>4. /\ Attached = r[N] /\ r[0] = start /\ \A i \in 0 .. N : Calm(r[i]) /\ SameRuns(start, r[i])
      /\ \A i \in 1 .. N : r[i] = IF i \in session.pending THEN Attach(r[i - 1], i, rows) ELSE r[i - 1]
  BY <1>3 DEF AttachedBy
<1>5. ASSUME NEW k \in Layers, NEW o \in Nat
      PROVE  /\ Fit(k, start.layer[k], At(rows[k], o))
             /\ At(rows[k], o) # None => Carries(k, start.layer[k], At(rows[k], o), c, o)
  <2> DEFINE L == cache.layer[k]
             R == start.layer[k]
             s == At(rows[k], o)
  <2>1. Fit(k, R, s)
    BY RowsFit
  <2>2. rows[k] = L.taken /\ TakenRight(k, L, c) /\ R.buf = L.buf
    BY <1>2 DEF Rows, Took, SameLive
  <2> HIDE DEF L, R, c
  <2>3. s # None => Carries(k, L, s, c, o)
    BY <2>2 DEF At, TakenRight
  <2> HIDE DEF s
  <2>4. s # None => Carries(k, R, s, c, o)
    BY <2>2, <2>3, DataSame
  <2> QED BY <2>1, <2>4 DEF R, s
<1>6. Reached(start, r[0], 0)
  <2>1. start.frontier = cache.frontier
    BY <1>2 DEF SameTree
  <2> HIDE DEF start
  <2> QED BY <1>4, <2>1, GoesSame DEF Reached
<1> HIDE DEF start, rows
<1>7. ASSUME NEW i \in 1 .. N, Reached(start, r[i - 1], i - 1) PROVE Reached(start, r[i], i)
  <2> DEFINE C == r[i - 1]
             D == r[i]
  <2>0. i \in Nat /\ i - 1 \in 0 .. N /\ i \in 1 .. Len(session.inputs) /\ i \in 0 .. Len(session.inputs) /\ i <= N
    BY <1>1
  <2>1. Calm(C) /\ SameRuns(start, C) /\ Goes(start, C) /\ IsPrefix(C.frontier, session.inputs)
        /\ Len(C.frontier) <= N /\ \A o \in session.pending : o > i - 1 => Len(C.frontier) < o
    BY <1>4, <1>7, <2>0 DEF Reached
  <2>2. D = IF i \in session.pending THEN Attach(C, i, rows) ELSE C
    BY <1>4
  <2> HIDE DEF C, D, N
  <2>3. CASE i \notin session.pending
    <3>1. D = C
      BY <2>2, <2>3
    <3>2. \A o \in session.pending : o > i => o > i - 1
      BY <2>0
    <3> QED BY <2>1, <3>1, <3>2 DEF Reached, D, N
  <2>4. CASE i \in session.pending
    <3>1. D = Attach(C, i, rows)
      BY <2>2, <2>4
    <3>2. Len(C.frontier) <= i
      <4>1. C.frontier \in Seq(Token)
        BY <2>1, CacheIs DEF Calm, CacheOK, Sound
      <4>2. Len(C.frontier) \in Nat
        BY <4>1
      <4>3. Len(C.frontier) < i
        BY <2>0, <2>1, <2>4
      <4> QED BY <2>0, <4>2, <4>3
    <3>3. \A k \in Layers : Fit(k, C.layer[k], At(rows[k], i))
      BY <1>5, <2>0, <2>1, SameRunIs DEF SameRuns
    <3>4. ASSUME NEW k \in Layers, At(rows[k], i) # None PROVE Carries(k, C.layer[k], At(rows[k], i), c, i)
      <4> DEFINE L == start.layer[k]
                 R == C.layer[k]
                 s == At(rows[k], i)
      <4>1. R.buf = L.buf /\ Carries(k, L, s, c, i)
        BY <1>5, <2>0, <2>1, <3>4 DEF SameRuns, SameRun
      <4> HIDE DEF L, R, s, c
      <4>2. Carries(k, R, s, c, i)
        BY <4>1, DataSame
      <4> QED BY <4>2 DEF R, s
    <3>5. Goes(C, D) /\ D.frontier = SubSeq(session.inputs, 1, i)
      BY <2>0, <2>1, <3>1, <3>2, <3>3, <3>4, AttachRight DEF c
    <3>6. Len(D.frontier) = i /\ IsPrefix(D.frontier, session.inputs)
      BY <2>0, <3>5, PrefixSub
    <3>7. Goes(start, D)
      BY <2>1, <3>5, GoesTrans
    <3>8. Len(D.frontier) <= N /\ \A o \in session.pending : o > i => Len(D.frontier) < o
      BY <2>0, <3>6
    <3> QED BY <3>6, <3>7, <3>8 DEF Reached, D, N
  <2> QED BY <2>3, <2>4
<1>8. Reached(start, r[N], N)
  <2> DEFINE f == [i \in 0 .. N |-> Reached(start, r[i], i)]
             P == {TRUE}
  <2>0. \A i \in 0 .. N : Reached(start, r[i], i) => f[i] \in P
    OBVIOUS
  <2>1. f[0] \in P
    <3>1. 0 \in 0 .. N
      BY <1>1
    <3> HIDE DEF f, P, N
    <3> QED BY <1>6, <2>0, <3>1
  <2>2. ASSUME NEW i \in 1 .. N, f[i - 1] \in P PROVE f[i] \in P
    <3>1. i \in 0 .. N /\ i - 1 \in 0 .. N
      BY <1>1
    <3>2. Reached(start, r[i - 1], i - 1)
      BY <2>2, <3>1
    <3> QED BY <1>7, <3>1, <3>2
  <2> HIDE DEF f, P, N
  <2>3. \A i \in 0 .. N : f[i] \in P
    BY <1>1, <2>1, <2>2, AlongRecursion
  <2> QED BY <1>1, <2>3 DEF f, P
<1>9. Goes(start, Attached) /\ SameRuns(start, Attached) /\ IsPrefix(Attached.frontier, session.inputs) /\ Len(Attached.frontier) <= N
  BY <1>1, <1>4, <1>8 DEF Reached
<1>10. Moves(cache, start, c, c)
  BY <1>2, SameLivesMove
<1>11. Moves(start, Attached, c, c)
  BY <1>9, GoesMoves
<1> QED BY <1>9, <1>10, <1>11, MovesTrans

-----------------------------------------------------------------------------
(* Sessions                                                                  *)

\* Layers that hold one text up to an offset hold every text that agrees so far.
LEMMA FilledAgrees ==
  ASSUME NEW C, CacheOK(C), Even(C), NEW m \in Nat, MinOffset(C) <= m, NEW c, NEW d, Agree(c, d, m),
         Filled(C, c)
  PROVE Filled(C, d)
<1> SUFFICES ASSUME NEW k \in Layers PROVE Live(k, C.layer[k], d)
  BY DEF Filled
<1> DEFINE L == C.layer[k]
<1>1. k \in Kinds /\ LayerOK(k, L) /\ L.off <= m /\ Live(k, L, c)
  BY LayersAre DEF Even, Filled
<1> HIDE DEF L
<1>2. Live(k, L, d)
  BY <1>1, LiveAgrees
<1> QED BY <1>2 DEF L

\* The same for a text that the other one continues.
LEMMA FilledPrefix ==
  ASSUME NEW C, CacheOK(C), Even(C), NEW p \in Seq(Token), NEW q \in Seq(Token), IsPrefix(p, q),
         MinOffset(C) <= Len(p)
  PROVE Filled(C, Text(p)) <=> Filled(C, Text(q))
<1> DEFINE c == Text(p)
           d == Text(q)
           m == Len(p)
<1>1. Agree(c, d, m) /\ Agree(d, c, m) /\ m \in Nat /\ MinOffset(C) <= m
  BY PrefixAgrees
<1> HIDE DEF c, d, m
<1>2. Filled(C, c) => Filled(C, d)
  BY <1>1, FilledAgrees
<1>3. Filled(C, d) => Filled(C, c)
  BY <1>1, FilledAgrees
<1> QED BY <1>2, <1>3 DEF c, d

\* A text is a prefix of what continues it.
LEMMA JoinPrefix ==
  ASSUME NEW p \in Seq(Token), NEW q \in Seq(Token)
  PROVE p \o q \in Seq(Token) /\ IsPrefix(p, p \o q)
<1> DEFINE r == p \o q
<1>1. r \in Seq(Token) /\ Len(r) = Len(p) + Len(q)
  BY ConcatProperties
<1>2. \A i \in 1 .. Len(p) + Len(q) : r[i] = IF i <= Len(p) THEN p[i] ELSE q[i - Len(p)]
  BY ConcatProperties
<1>3. Len(p) \in Nat /\ Len(q) \in Nat
  OBVIOUS
<1> HIDE DEF r
<1>4. Len(p) <= Len(r) /\ \A i \in 1 .. Len(p) : p[i] = r[i]
  BY <1>1, <1>2, <1>3
<1>5. IsPrefix(p, r)
  BY <1>1, <1>4, PrefixAt
<1> QED BY <1>1, <1>5 DEF r

\* commitSpeculation of all layers.
LEMMA CommittedAllRight ==
  ASSUME NEW C, NEW accepted, NEW drafted, NEW before, IsDrafted(C, accepted, drafted, before),
         NEW f, f = [k \in Layers |-> Committed(k, C.layer[k], accepted, drafted, before)], NEW D,
         IsRelayered(D, C, f), NEW c
  PROVE Fine(D) => Fine(C) /\ (Fills(C, c) /\ Took(C, c) => Fills(D, c))
<1>0. /\ before \in Nat /\ drafted \in Nat /\ accepted \in 0 .. drafted
      /\ CacheOK(C) /\ Taking(C) /\ Even(C) /\ MinOffset(C) = before + drafted
      /\ \A k \in Layers : accepted < drafted /\ k # "kv" => before + accepted \in DOMAIN C.layer[k].taken
  BY DEF IsDrafted
<1>1. ASSUME NEW k \in Layers
      PROVE  /\ LayerOK(k, f[k]) /\ DOMAIN f[k].snap = DOMAIN C.layer[k].snap
             /\ C.layer[k].spoiled => f[k].spoiled
             /\ ~f[k].spoiled /\ Live(k, C.layer[k], c) /\ TakenRight(k, C.layer[k], c) /\ SnapsRight(k, C.layer[k])
                  => SnapsRight(k, f[k]) /\ Live(k, f[k], c)
  <2> DEFINE L == C.layer[k]
             R == Committed(k, L, accepted, drafted, before)
  <2>1. /\ k \in Kinds /\ LayerOK(k, L) /\ TakenFits(k, L) /\ L.off = before + drafted /\ f[k] = R
        /\ accepted < drafted /\ k # "kv" => before + accepted \in DOMAIN L.taken
    BY <1>0, LayersAre DEF Taking, Even
  <2> HIDE DEF L
  <2>2. LayerOK(k, R) /\ DOMAIN R.snap = DOMAIN L.snap /\ (L.spoiled => R.spoiled)
    BY <1>0, <2>1, CommittedOK
  <2>3. Live(k, L, c) /\ TakenRight(k, L, c) => (~R.spoiled => KeepsSnaps(L, R) /\ Live(k, R, c))
    BY <1>0, <2>1, CommittedRight
  <2> HIDE DEF R
  <2>4. ~R.spoiled /\ Live(k, L, c) /\ TakenRight(k, L, c) /\ SnapsRight(k, L) => SnapsRight(k, R) /\ Live(k, R, c)
    BY <2>2, <2>3, KeepsRight
  <2> QED BY <2>1, <2>2, <2>4 DEF L
<1>2. f = [k \in Layers |-> f[k]]
  OBVIOUS
<1>3. D.layer = f
  BY <1>0, <1>1, <1>2, RelayeredOK
<1> QED BY <1>1, <1>3 DEF Fine, Fills, Took, Right, Filled

\* discardPrefillSnapshots.
LEMMA DiscardedRight ==
  ASSUME PrefixInv, NEW c
  PROVE Moves(cache, Discarded, c, c) /\ SameTree(cache, Discarded)
<1>1. CASE session.pending = {}
  <2>1. Discarded = cache
    BY <1>1 DEF Discarded
  <2> QED BY <2>1 DEF Moves, SameTree
<1>2. CASE session.pending # {}
  <2>1. Discarded = Emptied(cache)
    BY <1>2 DEF Discarded, Emptied
  <2>2. SameTree(cache, Emptied(cache)) /\ \A k \in Layers : SameLive(cache.layer[k], Emptied(cache).layer[k])
    BY EmptiedOK DEF PrefixInv
  <2> QED BY <2>1, <2>2, SameLivesMove
<1> QED BY <1>1, <1>2

\* The text whose beginning the layers hold.
Told == IF phase = "idle" THEN cache.frontier ELSE Stored

\* Unless a layer is marked, snapshots and layers hold what they should, the captures of
\* a prefill too; the active path is no longer than what the layers hold, and every
\* capture still to be attached lies behind it.
ContentInv ==
  Fine(cache) =>
    /\ Fills(cache, Text(Told)) /\ IsPrefix(cache.frontier, Told) /\ Len(cache.frontier) <= Cached
    /\ phase = "idle" => Len(cache.frontier) = Cached
    /\ phase = "prefill" =>
         Took(cache, Text(session.inputs)) /\ \A o \in session.pending : Len(cache.frontier) < o

\* The empty cache.
LEMMA InitContent == PrefixInit => ContentInv
<1> SUFFICES ASSUME PrefixInit PROVE ContentInv
  OBVIOUS
<1>0. PrefixInv
  BY InitInv
<1>1. cache.frontier = Root /\ phase = "idle" /\ \A k \in Layers : cache.layer[k] = NewLayer
  BY DEF PrefixInit
<1>2. /\ NewLayer.off = 0 /\ NewLayer.buf = <<>> /\ NewLayer.idx = 0 /\ NewLayer.snap = <<>>
  BY DEF NewLayer
<1>3. DOMAIN <<>> = {} /\ Len(<<>>) = 0
  BY EmptyMap
<1>4. Root \in Seq(Token) /\ Len(Root) = 0 /\ IsPrefix(Root, Root) /\ Text(Root)[0] = <<>>
  BY PrefixRoot, PrefixRefl, TextAt
<1>5. ASSUME NEW k \in Layers PROVE SnapsRight(k, NewLayer) /\ Live(k, NewLayer, Text(Root))
  <2> DEFINE c == Text(Root)
  <2>1. c[0] = <<>>
    BY <1>4
  <2> HIDE DEF c, NewLayer
  <2>2. SnapsRight(k, NewLayer)
    BY <1>2, <1>3 DEF SnapsRight
  <2>3. Run(NewLayer.buf, 0, c, 0, NewLayer.off)
    BY <1>2 DEF Run
  <2>4. RotRight(NewLayer.buf, NewLayer.off, NewLayer.idx, c)
    BY <1>2, ConstantsAre DEF RotRight, Run
  <2>5. RnnState(NewLayer) = c[NewLayer.off]
    BY <1>2, <2>1 DEF RnnState
  <2> QED BY <2>2, <2>3, <2>4, <2>5 DEF Live, c
<1> HIDE DEF NewLayer
<1>6. Fills(cache, Text(Root))
  BY <1>1, <1>5 DEF Fills, Right, Filled
<1>7. Cached = 0
  <2> DEFINE zero == 0
  <2>1. \A k \in Layers : cache.layer[k].off = zero
    BY <1>1, <1>2
  <2> HIDE DEF zero
  <2>2. MinOffset(cache) = zero
    BY <1>0, <2>1, EvenIs DEF PrefixInv
  <2> QED BY <2>2 DEF Cached, zero
<1> QED BY <1>1, <1>4, <1>6, <1>7 DEF ContentInv, Told

\* The text of a prompt that begin looks for.
LEMMA UsedIs ==
  ASSUME NEW C, Trie(C.nodes), NEW inputs \in Seq(Token), NEW used,
         LET full == Matched(C, inputs)
         IN used = IF full = Len(inputs) /\ full > 0 THEN SubSeq(inputs, 1, full - 1) ELSE inputs
  PROVE LET matched == Matched(C, used)
            end == MatchEnd(C, used)
            m == SubSeq(used, 1, matched)
        IN /\ used \in Seq(Token) /\ matched \in Nat /\ end \in C.nodes /\ end \in Seq(Token)
           /\ m \in Seq(Token) /\ Len(m) = matched /\ IsPrefix(m, end) /\ IsPrefix(m, inputs)
<1> DEFINE full == Matched(C, inputs)
           matched == Matched(C, used)
           end == MatchEnd(C, used)
           m == SubSeq(used, 1, matched)
<1>1. full \in 0 .. Len(inputs) /\ Len(inputs) \in Nat
  BY MatchedIs
<1>2. used \in Seq(Token) /\ IsPrefix(used, inputs)
  <2>1. CASE full = Len(inputs) /\ full > 0
    <3>1. full - 1 \in 0 .. Len(inputs) /\ used = SubSeq(inputs, 1, full - 1)
      BY <1>1, <2>1
    <3> QED BY <3>1, PrefixSub
  <2>2. CASE ~(full = Len(inputs) /\ full > 0)
    <3>1. used = inputs
      BY <2>2
    <3> QED BY <3>1, PrefixRefl
  <2> QED BY <2>1, <2>2
<1> HIDE DEF full
<1>3. matched \in 0 .. Len(used) /\ matched \in Nat
  <2>1. Trie(C.nodes) /\ used \in Seq(Token)
    BY <1>2
  <2>2. Matched(C, used) \in 0 .. Len(used)
    BY ONLY <2>1, MatchedIs
  <2>3. Len(used) \in Nat
    BY <2>1
  <2> QED BY <2>2, <2>3
<1>4. end \in C.nodes /\ IsPrefix(m, end) /\ end \in Seq(Token)
  BY <1>2, MatchEndIs DEF Trie
<1> HIDE DEF matched, end
<1>5. m \in Seq(Token) /\ Len(m) = matched /\ IsPrefix(m, used)
  BY <1>2, <1>3, PrefixSub
<1> HIDE DEF m
<1>6. IsPrefix(m, inputs)
  BY <1>2, <1>5, PrefixTrans
<1> QED BY <1>2, <1>3, <1>4, <1>5, <1>6 DEF m, matched, end

\* begin: the layers hold the beginning of the prompt.
LEMMA BeginContent ==
  ASSUME PrefixInv, ContentInv, NEW inputs \in Texts(left.prompt), Begin(inputs)
  PROVE ContentInv' /\ (Fine(cache)' => Fine(cache))
<1> DEFINE full == Matched(cache, inputs)
           used == IF full = Len(inputs) /\ full > 0 THEN SubSeq(inputs, 1, full - 1) ELSE inputs
           matched == Matched(cache, used)
           end == MatchEnd(cache, used)
           C == SwitchToPath(cache, end, matched)
           prefix == MinOffset(C)
           user == {o \in Wanted(inputs) : o > prefix}
           pending == user \cup (IF prefix < matched THEN {matched} ELSE {})
           D == Scheduled(C, pending)
           m == SubSeq(used, 1, matched)
           a == Text(end)
           c == Text(inputs)
<1>1. /\ phase = "idle" /\ cache' = D
      /\ session' = [inputs |-> inputs, outputs |-> <<>>, pending |-> pending, user |-> user]
      /\ phase' = "prefill" /\ left' = [left EXCEPT !.requests = @ - 1]
  BY DEF Begin
<1>2. Calm(cache) /\ Trie(cache.nodes) /\ left.prompt \in Nat /\ Even(cache)
  BY <1>1 DEF PrefixInv, ProgressOK, SessionOK, CacheOK, TreeOK
<1>3. inputs \in Seq(Token)
  BY <1>2, TextIs
<1>4. /\ used \in Seq(Token) /\ matched \in Nat /\ end \in cache.nodes /\ end \in Seq(Token)
      /\ m \in Seq(Token) /\ Len(m) = matched /\ IsPrefix(m, end) /\ IsPrefix(m, inputs)
  <2>1. used = IF full = Len(inputs) /\ full > 0 THEN SubSeq(inputs, 1, full - 1) ELSE inputs
    OBVIOUS
  <2> HIDE DEF used
  <2> QED BY <1>2, <1>3, <2>1, UsedIs
<1> HIDE DEF full, used, matched, end, m
<1>5. Calm(C) /\ Even(C) /\ prefix <= matched /\ prefix \in Nat /\ CacheOK(C) /\ C.frontier \in Seq(Token)
  <2>1. Calm(C) /\ Even(C) /\ prefix <= matched
    BY <1>2, <1>4, SwitchToPathOK
  <2> HIDE DEF C
  <2> QED BY <2>1, MinOffsetIs, CacheIs DEF Calm, CacheOK, Sound
<1>6. ASSUME Fine(C)
      PROVE  /\ Fine(cache) /\ Fills(C, c) /\ IsPrefix(C.frontier, inputs) /\ Len(C.frontier) <= prefix
  <2> DEFINE b == Text(cache.frontier)
  <2>1. Fine(cache) => \A k \in Layers : cache.layer[k].off = Len(cache.frontier)
    BY <1>1, <1>2 DEF ContentInv, Even, Cached
  <2>2. Moves(cache, C, b, a) /\ IsPrefix(C.frontier, end) /\ Len(C.frontier) <= prefix
    BY <1>2, <1>4, <1>6, <2>1, SwitchToPathRight
  <2>3. Fine(cache)
    BY <1>6, <2>2 DEF Moves
  <2>4. Fills(cache, b)
    BY <1>1, <2>3 DEF ContentInv, Told
  <2> HIDE DEF b, C
  <2>5. Fills(C, a)
    BY <1>6, <2>2, <2>4 DEF Moves
  <2>6. Filled(C, c)
    <3>1. Filled(C, Text(m))
      BY <1>4, <1>5, <2>5, FilledPrefix DEF Fills
    <3> QED BY <1>3, <1>4, <1>5, <3>1, FilledPrefix
  <2>7. IsPrefix(C.frontier, inputs)
    <3> DEFINE p == C.frontier
    <3>1. p \in Seq(Token) /\ Len(p) \in Nat /\ IsPrefix(p, end) /\ Len(p) <= prefix
      BY <1>5, <2>2
    <3> HIDE DEF p, prefix
    <3>2. Len(p) <= Len(m)
      BY <1>4, <1>5, <3>1
    <3>3. IsPrefix(p, m)
      BY <1>4, <3>1, <3>2, PrefixComparable
    <3>4. IsPrefix(p, inputs)
      BY <1>3, <1>4, <3>1, <3>3, PrefixTrans
    <3> QED BY <3>4 DEF p
  <2> QED BY <2>2, <2>3, <2>5, <2>6, <2>7 DEF Fills
<1> HIDE DEF C
<1>7. user \in SUBSET Nat /\ pending \in SUBSET Nat /\ \A o \in pending : o > prefix
  <2>1. \A o \in Wanted(inputs) : o > prefix => o \in Nat
    <3> SUFFICES ASSUME NEW o \in Wanted(inputs), o > prefix PROVE o \in Nat
      OBVIOUS
    <3>1. o \in Int
      <4>1. CASE o \in 1 .. Len(inputs) - 1
        BY <1>3, <4>1
      <4>2. CASE o = Len(inputs) - PreThinking
        BY <1>3, <4>2, ConstantsAre
      <4> QED BY <4>1, <4>2 DEF Wanted
    <3> HIDE DEF prefix
    <3> QED BY <1>5, <3>1
  <2> HIDE DEF prefix
  <2> QED BY <1>4, <1>5, <2>1
<1>8. /\ Moves(C, D, c, c) /\ (Filled(C, c) => Took(D, c)) /\ SameTree(C, D)
      /\ CacheOK(D) /\ MinOffset(D) = prefix
  <2> HIDE DEF pending
  <2> QED BY <1>5, <1>7, ScheduledRight, ScheduledOK
<1> HIDE DEF D, user
<1>9. /\ session'.inputs = inputs /\ session'.outputs = <<>> /\ session'.pending = pending
      /\ Stored' = inputs /\ Told' = inputs /\ Cached' = prefix /\ cache'.frontier = C.frontier
  <2>1. session'.inputs = inputs /\ session'.outputs = <<>> /\ session'.pending = pending
    BY <1>1
  <2>2. Stored' = inputs
    BY <1>3, <2>1, ConcatEmptySeq DEF Stored
  <2>3. Told' = Stored'
    BY <1>1 DEF Told
  <2>4. Cached' = prefix /\ cache'.frontier = C.frontier
    BY <1>1, <1>8 DEF Cached, SameTree
  <2> QED BY <2>1, <2>2, <2>3, <2>4
<1>10. ASSUME Fine(D)
       PROVE  /\ Fine(cache) /\ Fills(D, c) /\ Took(D, c) /\ IsPrefix(C.frontier, inputs) /\ Len(C.frontier) <= prefix
              /\ \A o \in pending : Len(C.frontier) < o
  <2>1. Fine(C)
    BY <1>8, <1>10 DEF Moves
  <2>2. Fine(cache) /\ Fills(C, c) /\ IsPrefix(C.frontier, inputs) /\ Len(C.frontier) <= prefix
    BY <1>6, <2>1
  <2>3. Fills(D, c) /\ Took(D, c)
    BY <1>8, <1>10, <2>2 DEF Moves, Fills
  <2>4. \A o \in pending : Len(C.frontier) < o
    <3> DEFINE l == Len(C.frontier)
    <3>1. l \in Nat /\ l <= prefix
      BY <1>5, <2>2
    <3> HIDE DEF l, prefix, pending
    <3>2. \A o \in pending : l < o
      BY <1>5, <1>7, <3>1
    <3> QED BY <3>2 DEF l
  <2> QED BY <2>2, <2>3, <2>4
<1> HIDE DEF pending, prefix, c
<1>11. Fine(cache)' = Fine(D) /\ Fills(cache', c) = Fills(D, c) /\ Took(cache', c) = Took(D, c)
  BY <1>1
<1>12. Text(Told)' = c /\ Text(session.inputs)' = c
  BY <1>9 DEF c
<1> QED BY <1>1, <1>9, <1>10, <1>11, <1>12 DEF ContentInv

\* While a request runs, what is told is what has been stored.
LEMMA ToldIs ==
  ASSUME PrefixInv, ContentInv, phase # "idle", Fine(cache)
  PROVE  /\ Stored \in Seq(Token) /\ session.inputs \in Seq(Token) /\ session.outputs \in Seq(Token)
         /\ cache.frontier \in Seq(Token) /\ Len(cache.frontier) \in Nat /\ Len(cache.frontier) <= Cached
         /\ Fills(cache, Text(Stored)) /\ IsPrefix(cache.frontier, Stored)
<1>1. Told = Stored
  BY DEF Told
<1>2. Stored \in Seq(Token) /\ session.inputs \in Seq(Token) /\ session.outputs \in Seq(Token)
  BY StoredIs DEF PrefixInv, SessionOK
<1>3. cache.frontier \in Seq(Token)
  BY CacheIs DEF PrefixInv, CacheOK, Sound
<1> QED BY <1>1, <1>2, <1>3 DEF ContentInv

\* A round of the prefill loop: the layers hold more of the prompt.
LEMMA PrefillContent ==
  ASSUME PrefixInv, ContentInv, Prefill
  PROVE ContentInv' /\ (Fine(cache)' => Fine(cache)) /\ Cached < Cached'
<1> DEFINE n == Least(PrefillChunk, Left - 1)
           to == Cached + n
           w == SubSeq(session.inputs, 1, to)
           D == Forwarded(cache, w, n)
           c == Text(session.inputs)
<1>1. phase = "prefill" /\ Left > 1 /\ cache' = D /\ UNCHANGED <<session, phase, left>>
  BY DEF Prefill
<1>2. to \in 0 .. Len(session.inputs) /\ n \in Nat \ {0} /\ Cached < to /\ Cached \in Nat
  <2>1. Cached \in Nat /\ Len(session.inputs) \in Nat /\ PrefillChunk \in Nat /\ PrefillChunk > 0
    BY PositionIs, ConstantsAre
  <2>2. Left = Len(session.inputs) - Cached
    BY DEF Left
  <2> QED BY <1>1, <2>1, <2>2 DEF Least
<1>3. session.inputs \in Seq(Token) /\ Stored = session.inputs
  BY <1>1, StoredIs DEF PrefixInv, SessionOK, ProgressOK
<1>4. w \in Seq(Token) /\ Len(w) = to /\ IsPrefix(w, session.inputs)
  <2> HIDE DEF to
  <2> QED BY <1>2, <1>3, PrefixSub
<1> HIDE DEF w, to
<1>5. /\ MinOffset(D) = to /\ SameTree(cache, D)
      /\ Fine(D) => Fine(cache) /\ (Fills(cache, c) /\ Took(cache, c) => Fills(D, c) /\ Took(D, c))
  <2>1. MinOffset(cache) + n = Len(w) /\ CacheOK(cache) /\ Taking(cache) /\ Even(cache)
    BY <1>4, PositionIs DEF PrefixInv, to
  <2>2. Agree(Text(w), c, Len(w))
    BY <1>3, <1>4, PrefixAgrees
  <2> HIDE DEF n, c
  <2>3. MinOffset(D) = Len(w) /\ SameTree(cache, D)
    BY <1>2, <1>4, <2>1, ForwardedOK
  <2>4. Fine(D) => Fine(cache) /\ (Fills(cache, c) /\ Took(cache, c) => Fills(D, c) /\ Took(D, c))
    BY <1>2, <1>4, <2>1, <2>2, ForwardedRight
  <2> QED BY <1>4, <2>3, <2>4
<1> HIDE DEF D
<1>6. Told' = session.inputs /\ Told = session.inputs /\ Cached' = to /\ cache'.frontier = cache.frontier
  BY <1>1, <1>3, <1>5 DEF Told, Stored, Cached, SameTree
<1>7. ASSUME Fine(D)
      PROVE  /\ Fine(cache) /\ Fills(D, c) /\ Took(D, c) /\ IsPrefix(cache.frontier, session.inputs)
             /\ Len(cache.frontier) <= to /\ \A o \in session.pending : Len(cache.frontier) < o
  <2>1. Fine(cache)
    BY <1>5, <1>7
  <2>2. /\ Fills(cache, c) /\ Took(cache, c) /\ IsPrefix(cache.frontier, session.inputs)
        /\ \A o \in session.pending : Len(cache.frontier) < o
    BY <1>1, <1>6, <2>1 DEF ContentInv
  <2>3. Len(cache.frontier) \in Nat /\ Len(cache.frontier) <= Cached
    BY <1>1, <2>1, ToldIs
  <2>4. to \in Nat
    BY <1>2
  <2> QED BY <1>2, <1>5, <1>7, <2>1, <2>2, <2>3, <2>4
<1> HIDE DEF c
<1>8. Fine(cache)' = Fine(D) /\ Fills(cache', c) = Fills(D, c) /\ Took(cache', c) = Took(D, c)
  BY <1>1
<1>9. Text(Told)' = c /\ Text(session.inputs)' = c
  BY <1>1, <1>6 DEF c
<1> QED BY <1>1, <1>2, <1>6, <1>7, <1>8, <1>9 DEF ContentInv

\* The end of the prefill: what was captured is attached, and the prompt is complete.
LEMMA StartDecodeContent ==
  ASSUME PrefixInv, ContentInv, StartDecode
  PROVE ContentInv' /\ (Fine(cache)' => Fine(cache))
<1> DEFINE A == Attached
           D == Forwarded(A, session.inputs, 1)
           c == Text(session.inputs)
<1>1. /\ phase = "prefill" /\ Left = 1 /\ cache' = D
      /\ session' = [session EXCEPT !.pending = {}, !.user = {}] /\ phase' = "decode" /\ left' = left
  BY DEF StartDecode
<1>2. /\ session.inputs \in Seq(Token) /\ Cached < Len(session.inputs) /\ session.outputs = <<>>
      /\ Stored = session.inputs /\ Told = session.inputs /\ Cached \in Nat
  BY <1>1, StoredIs, PositionIs DEF PrefixInv, SessionOK, ProgressOK, Told
<1>3. Cached <= Len(session.inputs) /\ CacheOK(cache) /\ Taking(cache) /\ Even(cache)
  BY <1>2 DEF PrefixInv
<1>4. Calm(A) /\ Even(A) /\ MinOffset(A) = Cached /\ CacheOK(A) /\ Taking(A)
  <2>1. Calm(A) /\ Even(A) /\ MinOffset(A) = Cached
    BY <1>2, <1>3, AttachedOK
  <2> HIDE DEF A
  <2> QED BY <2>1, CalmIs
<1>5. ASSUME Fine(cache)
      PROVE  /\ Moves(cache, A, c, c) /\ IsPrefix(A.frontier, session.inputs)
             /\ Len(A.frontier) <= Cached /\ Fills(cache, c)
  <2>1. /\ Fills(cache, c) /\ Took(cache, c) /\ IsPrefix(cache.frontier, session.inputs)
        /\ Len(cache.frontier) <= Cached /\ \A o \in session.pending : Len(cache.frontier) < o
    BY <1>1, <1>2, <1>5 DEF ContentInv
  <2>2. session.pending \in SUBSET Nat
    BY DEF PrefixInv, SessionOK
  <2> QED BY <1>2, <1>3, <2>1, <2>2, AttachedRight
<1>6. Fine(A) => Fine(cache)
  <2>1. PICK r : AttachedBy(r)
    BY <1>2, <1>3, AttachedRun
  <2>2. Cached \in 0 .. Cached
    BY <1>2
  <2>3. SameRuns(Emptied(cache), A)
    BY <2>1, <2>2 DEF AttachedBy
  <2>4. Fine(A) => Fine(Emptied(cache))
    <3> HIDE DEF A
    <3> QED BY <2>3, SameRunsFine
  <2>5. Fine(Emptied(cache)) => Fine(cache)
    BY <1>3, EmptiedOK DEF SameLive, Fine
  <2> QED BY <2>4, <2>5
<1> HIDE DEF A
<1>7. MinOffset(A) + 1 = Len(session.inputs) /\ 1 \in Nat \ {0}
  BY <1>1, <1>4, PositionIs DEF Left
<1>8. /\ MinOffset(D) = Len(session.inputs) /\ SameTree(A, D)
      /\ Fine(D) => Fine(A) /\ (Fills(A, c) /\ Took(A, c) => Fills(D, c) /\ Took(D, c))
  <2>1. Agree(c, c, Len(session.inputs))
    BY DEF Agree
  <2>2. MinOffset(D) = Len(session.inputs) /\ SameTree(A, D)
    BY <1>2, <1>4, <1>7, ForwardedOK
  <2>3. Fine(D) => Fine(A) /\ (Fills(A, c) /\ Took(A, c) => Fills(D, c) /\ Took(D, c))
    BY <1>2, <1>4, <1>7, <2>1, ForwardedRight
  <2> QED BY <2>2, <2>3
<1> HIDE DEF D
<1>9. Told' = session.inputs /\ Cached' = Len(session.inputs) /\ cache'.frontier = A.frontier
  <2>1. session'.inputs = session.inputs /\ session'.outputs = <<>>
    BY <1>1, <1>2 DEF PrefixInv, SessionOK
  <2>2. Stored' = session.inputs
    BY <1>2, <2>1, ConcatEmptySeq DEF Stored
  <2>3. Told' = Stored'
    BY <1>1 DEF Told
  <2>4. Cached' = Len(session.inputs) /\ cache'.frontier = A.frontier
    BY <1>1, <1>8 DEF Cached, SameTree
  <2> QED BY <2>2, <2>3, <2>4
<1>10. ASSUME Fine(D)
       PROVE  /\ Fine(cache) /\ Fills(D, c) /\ IsPrefix(A.frontier, session.inputs)
              /\ Len(A.frontier) <= Len(session.inputs)
  <2>1. Fine(A) /\ Fine(cache)
    BY <1>6, <1>8, <1>10
  <2>2. Moves(cache, A, c, c) /\ IsPrefix(A.frontier, session.inputs) /\ Len(A.frontier) <= Cached /\ Fills(cache, c)
    BY <1>5, <2>1
  <2>3. Fills(A, c)
    BY <2>1, <2>2 DEF Moves
  <2>4. Took(A, c)
    BY <1>4, CalmTook
  <2>5. Len(A.frontier) \in Nat
    <3>1. A.frontier \in Seq(Token)
      BY <1>4, CacheIs DEF CacheOK, Sound
    <3> QED BY <3>1
  <2>6. Len(A.frontier) <= Len(session.inputs)
    <3> DEFINE l == Len(A.frontier)
               i == Len(session.inputs)
    <3>1. l \in Nat /\ i \in Nat /\ l <= Cached /\ Cached < i
      BY <1>2, <2>2, <2>5
    <3> HIDE DEF l, i
    <3>2. l <= i
      BY <1>2, <3>1
    <3> QED BY <3>2 DEF l, i
  <2> QED BY <1>8, <1>10, <2>1, <2>2, <2>3, <2>4, <2>6
<1> HIDE DEF c
<1>11. Fine(cache)' = Fine(D) /\ Fills(cache', c) = Fills(D, c)
  BY <1>1
<1>12. Text(Told)' = c
  BY <1>9 DEF c
<1> QED BY <1>1, <1>9, <1>10, <1>11, <1>12 DEF ContentInv

\* A token behind two texts is one behind the second of them.
LEMMA AppendJoin ==
  ASSUME NEW p \in Seq(Token), NEW q \in Seq(Token), NEW t \in Token
  PROVE  /\ p \o Append(q, t) = Append(p \o q, t) /\ Append(p \o q, t) \in Seq(Token)
         /\ IsPrefix(p \o q, Append(p \o q, t))
<1> DEFINE e == <<t>>
           pq == p \o q
<1>1. e \in Seq(Token) /\ pq \in Seq(Token)
  BY ConcatProperties
<1>2. Append(q, t) = q \o e /\ Append(pq, t) = pq \o e
  BY <1>1, AppendIsConcat
<1> HIDE DEF e
<1>3. p \o (q \o e) = pq \o e
  BY <1>1, ConcatAssociative
<1>4. pq \o e \in Seq(Token) /\ IsPrefix(pq, pq \o e)
  BY <1>1, JoinPrefix
<1> QED BY <1>2, <1>3, <1>4

\* A step of the decode loop.
LEMMA DecodeContent ==
  ASSUME PrefixInv, ContentInv, NEW t \in Token, Decode(t)
  PROVE ContentInv' /\ (Fine(cache)' => Fine(cache))
<1> DEFINE w == Append(Stored, t)
           D == Forwarded(cache, w, 1)
           c == Text(w)
<1>1. /\ phase = "decode" /\ cache' = D /\ session' = [session EXCEPT !.outputs = Append(@, t)]
      /\ UNCHANGED <<phase, left>>
  BY DEF Decode
<1>2. /\ Stored \in Seq(Token) /\ Cached = Len(Stored) /\ Calm(cache) /\ Cached \in Nat
      /\ session.inputs \in Seq(Token) /\ session.outputs \in Seq(Token)
      /\ CacheOK(cache) /\ Taking(cache) /\ Even(cache) /\ MinOffset(cache) = Cached
  BY <1>1, StoredIs, PositionIs DEF PrefixInv, ProgressOK, SessionOK
<1>3. w \in Seq(Token) /\ Len(w) = Cached + 1 /\ IsPrefix(Stored, w) /\ session.inputs \o Append(session.outputs, t) = w
  <2>1. w \in Seq(Token) /\ Len(w) = Cached + 1
    BY <1>2, AppendProperties
  <2> QED BY <1>2, <2>1, AppendJoin DEF Stored
<1>4. Told' = w
  <2>1. session'.inputs = session.inputs /\ session'.outputs = Append(session.outputs, t)
    BY <1>1 DEF PrefixInv, SessionOK
  <2>2. Stored' = session.inputs \o Append(session.outputs, t)
    BY <2>1 DEF Stored
  <2>3. Told' = Stored'
    BY <1>1 DEF Told
  <2> QED BY <1>3, <2>2, <2>3
<1> HIDE DEF w
<1>5. /\ MinOffset(D) = Len(w) /\ SameTree(cache, D)
      /\ Fine(D) => Fine(cache) /\ (Fills(cache, c) /\ Took(cache, c) => Fills(D, c) /\ Took(D, c))
  <2>1. MinOffset(cache) + 1 = Len(w) /\ 1 \in Nat \ {0}
    BY <1>2, <1>3
  <2>2. Agree(c, c, Len(w))
    BY DEF Agree
  <2>3. MinOffset(D) = Len(w) /\ SameTree(cache, D)
    BY <1>2, <1>3, <2>1, ForwardedOK
  <2>4. Fine(D) => Fine(cache) /\ (Fills(cache, c) /\ Took(cache, c) => Fills(D, c) /\ Took(D, c))
    BY <1>2, <1>3, <2>1, <2>2, ForwardedRight
  <2> QED BY <2>3, <2>4
<1> HIDE DEF D
<1>6. Cached' = Len(w) /\ cache'.frontier = cache.frontier
  BY <1>1, <1>5 DEF Cached, SameTree
<1>7. ASSUME Fine(D)
      PROVE  Fine(cache) /\ Fills(D, c) /\ IsPrefix(cache.frontier, w) /\ Len(cache.frontier) <= Len(w)
  <2>1. Fine(cache)
    BY <1>5, <1>7
  <2>2. /\ cache.frontier \in Seq(Token) /\ Len(cache.frontier) \in Nat /\ Len(cache.frontier) <= Cached
        /\ Fills(cache, Text(Stored)) /\ IsPrefix(cache.frontier, Stored)
    BY <1>1, <2>1, ToldIs
  <2>3. Filled(cache, c)
    <3>1. MinOffset(cache) <= Len(Stored)
      BY <1>2
    <3> QED BY <1>2, <1>3, <2>2, <3>1, FilledPrefix DEF Fills
  <2>4. Fills(cache, c) /\ Took(cache, c)
    BY <1>2, <2>2, <2>3, CalmTook DEF Fills
  <2>5. IsPrefix(cache.frontier, w)
    BY <1>2, <1>3, <2>2, PrefixTrans
  <2> QED BY <1>2, <1>3, <1>5, <1>7, <2>1, <2>2, <2>4, <2>5
<1> HIDE DEF c
<1>8. Fine(cache)' = Fine(D) /\ Fills(cache', c) = Fills(D, c)
  BY <1>1
<1>9. Text(Told)' = c
  BY <1>4 DEF c
<1> QED BY <1>1, <1>4, <1>6, <1>7, <1>8, <1>9 DEF ContentInv

\* Joining is associative.
LEMMA JoinJoin ==
  ASSUME NEW p \in Seq(Token), NEW q \in Seq(Token), NEW r \in Seq(Token)
  PROVE p \o (q \o r) = (p \o q) \o r /\ p \o q \in Seq(Token)
BY ConcatAssociative, ConcatProperties

\* A text joined with the beginning of another one.
LEMMA JoinKept ==
  ASSUME NEW p \in Seq(Token), NEW q \in Seq(Token), NEW m \in 0 .. Len(q)
  PROVE LET r == p \o SubSeq(q, 1, m)
        IN r \in Seq(Token) /\ Len(r) = Len(p) + m /\ IsPrefix(r, p \o q) /\ IsPrefix(p, r)
<1> DEFINE k == SubSeq(q, 1, m)
           r == p \o k
           s == p \o q
           l == Len(p)
<1>1. k \in Seq(Token) /\ Len(k) = m /\ \A i \in 1 .. m : k[i] = q[i]
  BY PrefixSub
<1>2. l \in Nat /\ Len(q) \in Nat /\ m \in Nat /\ m <= Len(q)
  OBVIOUS
<1> HIDE DEF k
<1>3. r \in Seq(Token) /\ IsPrefix(p, r)
  BY <1>1, JoinPrefix
<1>4. Len(r) = l + m /\ \A i \in 1 .. l + m : r[i] = IF i <= l THEN p[i] ELSE k[i - l]
  BY <1>1, ConcatProperties
<1>5. s \in Seq(Token) /\ Len(s) = l + Len(q) /\ \A i \in 1 .. l + Len(q) : s[i] = IF i <= l THEN p[i] ELSE q[i - l]
  BY ConcatProperties
<1> HIDE DEF r, s, l
<1>6. Len(r) <= Len(s)
  BY <1>2, <1>4, <1>5
<1>7. \A i \in 1 .. Len(r) : r[i] = s[i]
  <2> SUFFICES ASSUME NEW i \in 1 .. l + m PROVE r[i] = s[i]
    BY <1>4
  <2>1. i \in 1 .. l + Len(q) /\ (i > l => i - l \in 1 .. m)
    BY <1>2
  <2>2. CASE i <= l
    BY <1>4, <1>5, <2>1, <2>2
  <2>3. CASE ~(i <= l)
    <3>1. i - l \in 1 .. m
      BY <1>2, <2>3
    <3> QED BY <1>1, <1>4, <1>5, <2>1, <2>3, <3>1
  <2> QED BY <2>2, <2>3
<1>8. IsPrefix(r, s)
  BY <1>3, <1>5, <1>6, <1>7, PrefixAt
<1> QED BY <1>3, <1>4, <1>8 DEF r, s, k, l

\* A speculation: what commitSpeculation leaves is the text with the accepted drafts.
LEMMA SpeculateContent ==
  ASSUME PrefixInv, ContentInv, NEW drafts \in Texts(left.draft), NEW accepted \in 0 .. Len(drafts),
         Speculate(drafts, accepted)
  PROVE ContentInv' /\ (Fine(cache)' => Fine(cache))
<1> DEFINE before == Cached
           n == Len(drafts)
           offsets == before .. before + Len(drafts) - 1
           S == Scheduled(cache, offsets)
           w == Stored \o drafts
           W == Forwarded(S, w, n)
           D == EachLayer(W, LAMBDA k, L : Committed(k, L, accepted, n, before))
           kept == SubSeq(drafts, 1, accepted)
           u == Stored \o kept
           c == Text(w)
<1>1. /\ phase = "decode" /\ session.outputs # <<>> /\ cache' = D
      /\ session' = [session EXCEPT !.outputs = @ \o kept]
      /\ phase' = phase /\ left' = left
  BY DEF Speculate
<1>2. SessionOK /\ session.inputs \in Seq(Token) /\ session.outputs \in Seq(Token) /\ Even(cache)
  BY DEF PrefixInv, SessionOK
<1>3. S = Scheduled(cache, Cached .. Cached + Len(drafts) - 1) /\ W = Forwarded(S, Stored \o drafts, Len(drafts))
  OBVIOUS
<1>4. W = Forwarded(S, w, n) /\ S = Scheduled(cache, offsets)
  OBVIOUS
<1> HIDE DEF S, W
<1>5. /\ before = Len(Stored) /\ before \in Nat /\ drafts \in Seq(Token) /\ n \in Nat \ {0} /\ Stored \in Seq(Token)
      /\ Calm(cache) /\ w \in Seq(Token) /\ Len(w) = before + n /\ offsets \in SUBSET Nat
      /\ CacheOK(S) /\ Taking(S) /\ Even(S) /\ MinOffset(S) = before /\ SameTree(cache, S) /\ SameTree(S, W)
      /\ IsDrafted(W, accepted, n, before)
  BY <1>1, <1>3, DraftingOK
<1>6. u \in Seq(Token) /\ Len(u) = before + accepted /\ IsPrefix(u, w) /\ IsPrefix(Stored, u) /\ IsPrefix(Stored, w)
  <2>1. u \in Seq(Token) /\ Len(u) = Len(Stored) + accepted /\ IsPrefix(u, w) /\ IsPrefix(Stored, u)
    BY <1>5, JoinKept
  <2>2. IsPrefix(Stored, w)
    BY <1>5, JoinPrefix
  <2> QED BY <1>5, <2>1, <2>2
<1>7. Told' = u
  <2>1. kept \in Seq(Token)
    BY <1>5, PrefixSub
  <2> DEFINE o == session.outputs \o kept
  <2>2. session' = [session EXCEPT !.outputs = o]
    BY <1>1
  <2>3. session'.inputs = session.inputs /\ session'.outputs = o
    <3> HIDE DEF o
    <3> QED BY <1>2, <2>2 DEF SessionOK
  <2> HIDE DEF kept
  <2>4. session.inputs \o o = u
    <3> DEFINE a == session.inputs
               b == session.outputs
    <3>1. a \in Seq(Token) /\ b \in Seq(Token)
      BY <1>2
    <3>2. u = (a \o b) \o kept
      BY DEF Stored
    <3> HIDE DEF a, b, u
    <3>3. (a \o b) \o kept = a \o (b \o kept)
      BY ONLY <2>1, <3>1, JoinJoin
    <3> QED BY <3>2, <3>3 DEF a, b
  <2>5. Stored' = session.inputs \o o
    BY <2>3 DEF Stored
  <2>6. Told' = Stored'
    BY <1>1 DEF Told
  <2> QED BY <2>4, <2>5, <2>6
<1> HIDE DEF u, kept
<1>8. /\ Calm(D) /\ Even(D) /\ MinOffset(D) = before + accepted /\ D.frontier = W.frontier
      /\ Fine(D) => Fine(W) /\ (Fills(W, c) /\ Took(W, c) => Fills(D, c))
  <2> DEFINE f == [k \in Layers |-> Committed(k, W.layer[k], accepted, n, before)]
  <2>1. W \in CacheType
    BY <1>5 DEF IsDrafted, CacheOK, Sound
  <2>2. IsRelayered(D, W, f)
    BY <2>1 DEF EachLayer, IsRelayered, CacheType
  <2>3. f = [k \in Layers |-> Committed(k, W.layer[k], accepted, n, before)]
    OBVIOUS
  <2>4. D.frontier = W.frontier
    BY <2>1 DEF EachLayer, CacheType
  <2> HIDE DEF f, D, n, before, c
  <2>5. IsDrafted(W, accepted, n, before)
    BY <1>5
  <2>6. IsCommitted(D, accepted, before)
    BY ONLY <2>2, <2>3, <2>5, CommittedAllOK
  <2>7. Fine(D) => Fine(W) /\ (Fills(W, c) /\ Took(W, c) => Fills(D, c))
    BY ONLY <2>2, <2>3, <2>5, CommittedAllRight
  <2> QED BY <2>4, <2>6, <2>7 DEF IsCommitted
<1> HIDE DEF D
<1>9. Moves(cache, S, c, c) /\ (Filled(cache, c) => Took(S, c))
  <2> HIDE DEF offsets
  <2> QED BY <1>2, <1>4, <1>5, ScheduledRight
<1>10. Fine(W) => Fine(S) /\ (Fills(S, c) /\ Took(S, c) => Fills(W, c) /\ Took(W, c))
  <2>1. Agree(c, c, Len(w)) /\ MinOffset(S) + n = Len(w)
    BY <1>5 DEF Agree
  <2> HIDE DEF w, n, before, offsets
  <2> QED BY <1>4, <1>5, <2>1, ForwardedRight DEF c
<1>11. Cached' = before + accepted /\ cache'.frontier = cache.frontier
  BY <1>1, <1>5, <1>8 DEF Cached, SameTree
<1>12. ASSUME Fine(D)
       PROVE  Fine(cache) /\ Fills(D, Text(u)) /\ IsPrefix(cache.frontier, u) /\ Len(cache.frontier) <= before + accepted
  <2>1. Fine(W) /\ Fine(S) /\ Fine(cache)
    BY <1>8, <1>9, <1>10, <1>12 DEF Moves
  <2>2. /\ cache.frontier \in Seq(Token) /\ Len(cache.frontier) \in Nat /\ Len(cache.frontier) <= before
        /\ Fills(cache, Text(Stored)) /\ IsPrefix(cache.frontier, Stored)
    BY <1>1, <2>1, ToldIs
  <2>3. Filled(cache, c)
    <3>1. MinOffset(cache) <= Len(Stored) /\ CacheOK(cache)
      BY <1>5, PositionIs DEF PrefixInv
    <3> QED BY <1>2, <1>5, <1>6, <2>2, <3>1, FilledPrefix DEF Fills
  <2>4. Fills(S, c) /\ Took(S, c)
    BY <1>9, <2>1, <2>2, <2>3 DEF Fills, Moves
  <2>5. Fills(D, c)
    BY <1>8, <1>10, <1>12, <2>1, <2>4
  <2>6. Filled(D, Text(u))
    <3>1. MinOffset(D) <= Len(u) /\ CacheOK(D)
      <4>1. Len(u) \in Nat
        BY <1>6
      <4> QED BY <1>6, <1>8, <4>1 DEF Calm
    <3> QED BY <1>5, <1>6, <1>8, <2>5, <3>1, FilledPrefix DEF Fills
  <2>7. IsPrefix(cache.frontier, u)
    BY <1>5, <1>6, <2>2, PrefixTrans
  <2>8. Len(cache.frontier) <= before + accepted
    <3> DEFINE l == Len(cache.frontier)
    <3>1. l \in Nat /\ l <= before /\ accepted \in Nat /\ before \in Nat
      BY <1>5, <2>2
    <3> HIDE DEF l, before
    <3>2. l <= before + accepted
      BY <3>1
    <3> QED BY <3>2 DEF l
  <2> QED BY <2>1, <2>5, <2>6, <2>7, <2>8 DEF Fills
<1>13. Fine(cache)' = Fine(D) /\ Fills(cache', Text(u)) = Fills(D, Text(u))
  BY <1>1
<1> QED BY <1>1, <1>7, <1>11, <1>12, <1>13 DEF ContentInv

\* close: the active path is extended to what the layers hold.
LEMMA CloseContent ==
  ASSUME PrefixInv, ContentInv, Close
  PROVE  /\ ContentInv' /\ (Fine(cache)' => Fine(cache))
         /\ Fine(cache)' => cache'.frontier = SubSeq(Stored, 1, Cached)
<1> DEFINE C == Discarded
           off == MinOffset(C)
           w == SubSeq(Stored, 1, off)
           D == IF off > Len(C.frontier) THEN AdvancePath(C, w) ELSE C
           R == IF off = 0 THEN C ELSE Touched(D)
           t == Text(Stored)
<1>1. /\ phase = "decode" \/ phase = "prefill"
      /\ cache' = R /\ phase' = "idle"
  BY DEF Close
<1>2. C = Discarded /\ Moves(cache, C, t, t) /\ SameTree(cache, C)
  BY DiscardedRight
<1> HIDE DEF C
<1>3. /\ Calm(C) /\ Even(C) /\ off \in Nat /\ off = Cached /\ Stored \in Seq(Token) /\ off \in 0 .. Len(Stored)
      /\ C.frontier \in Seq(Token) /\ CacheOK(C)
  BY <1>1, <1>2, PositionIs, DiscardedOK DEF Calm
<1>4. w \in Seq(Token) /\ Len(w) = off /\ IsPrefix(w, Stored)
  <2> HIDE DEF off
  <2> QED BY <1>3, PrefixSub
<1> HIDE DEF w
<1>5. CacheOK(D) /\ SameRuns(C, D) /\ Moves(C, D, t, t) /\ D.frontier = IF off > Len(C.frontier) THEN w ELSE C.frontier
  <2>1. CASE off > Len(C.frontier)
    <3>1. w # Root
      BY <1>3, <1>4, <2>1, PrefixRoot
    <3>2. w \in Nodes /\ D = AdvancePath(C, w)
      BY <1>4, <2>1, <3>1 DEF Nodes
    <3> HIDE DEF D, t
    <3>3. CacheOK(D) /\ SameRuns(C, D) /\ D.frontier = w
      BY <1>3, <3>2, AdvancePathOK
    <3>4. Goes(C, D)
      BY <1>3, <3>2, AdvancePathRight
    <3>5. Moves(C, D, t, t)
      BY <3>3, <3>4, GoesMoves
    <3> QED BY <2>1, <3>3, <3>5
  <2>2. CASE ~(off > Len(C.frontier))
    <3>1. D = C
      BY <2>2
    <3> HIDE DEF D
    <3> QED BY <1>3, <2>2, <3>1, SameRunsRefl DEF Moves
  <2> QED BY <2>1, <2>2
<1> HIDE DEF D
<1>6. /\ CacheOK(R) /\ SameRuns(C, R) /\ Moves(C, R, t, t)
      /\ R.frontier = IF off > Len(C.frontier) THEN w ELSE C.frontier
  <2>1. CASE off = 0
    <3>1. R = C
      BY <2>1
    <3>2. ~(off > Len(C.frontier))
      BY <1>3, <2>1
    <3> HIDE DEF R
    <3> QED BY <1>3, <3>1, <3>2, SameRunsRefl DEF Moves
  <2>2. CASE off # 0
    <3>1. R = Touched(D)
      BY <2>2
    <3> HIDE DEF R, t
    <3>2. CacheOK(R) /\ SameRuns(D, R) /\ R.frontier = D.frontier
      BY <1>5, <3>1, TouchedOK
    <3>3. Goes(D, R)
      BY <1>5, <3>1, TouchedRight DEF CacheOK, Sound
    <3>4. Moves(D, R, t, t)
      BY <3>2, <3>3, GoesMoves
    <3> QED BY <1>5, <3>2, <3>4, SameRunsTrans, MovesTrans
  <2> QED BY <2>1, <2>2
<1> HIDE DEF R
<1>7. Even(R) /\ MinOffset(R) = off
  <2>1. \A k \in Layers : R.layer[k].off = off
    BY <1>3, <1>6 DEF Even, SameRuns, SameRun
  <2> HIDE DEF off
  <2> QED BY <1>6, <2>1, EvenIs
<1>8. ASSUME Fine(R)
      PROVE  Fine(cache) /\ R.frontier = w /\ Fills(R, Text(w))
  <2>1. Fine(C) /\ Fine(cache)
    BY <1>2, <1>6, <1>8 DEF Moves
  <2>2. /\ cache.frontier \in Seq(Token) /\ Len(cache.frontier) \in Nat /\ Len(cache.frontier) <= Cached
        /\ Fills(cache, t) /\ IsPrefix(cache.frontier, Stored)
    BY <1>1, <2>1, ToldIs
  <2>3. Fills(R, t)
    BY <1>2, <1>6, <1>8, <2>1, <2>2 DEF Moves
  <2>4. Filled(R, Text(w))
    <3>1. MinOffset(R) <= Len(w)
      BY <1>3, <1>4, <1>7
    <3> QED BY <1>3, <1>4, <1>6, <1>7, <2>3, <3>1, FilledPrefix DEF Fills
  <2>5. R.frontier = w
    <3>1. CASE off > Len(C.frontier)
      BY <1>6, <3>1
    <3>2. CASE ~(off > Len(C.frontier))
      <4> DEFINE p == cache.frontier
                 l == Len(p)
      <4>1. R.frontier = p /\ C.frontier = p
        BY <1>2, <1>6, <3>2 DEF SameTree
      <4>2. l \in Nat /\ l <= off /\ ~(off > l) /\ p \in Seq(Token) /\ IsPrefix(p, Stored)
        BY <1>3, <2>2, <3>2, <4>1
      <4>3. l = Len(w)
        <5> HIDE DEF l, off
        <5> QED BY <1>3, <1>4, <4>2
      <4> HIDE DEF p
      <4>4. IsPrefix(p, w)
        BY <1>3, <1>4, <4>2, <4>3, PrefixComparable
      <4>5. p = w
        BY <1>4, <4>2, <4>3, <4>4, PrefixAt, SeqEqual
      <4> QED BY <4>1, <4>5
    <3> QED BY <3>1, <3>2
  <2> QED BY <2>1, <2>3, <2>4, <2>5 DEF Fills
<1>9. Fine(cache)' = Fine(R) /\ Fills(cache', Text(w)) = Fills(R, Text(w)) /\ Told' = R.frontier /\ Cached' = off
  BY <1>1, <1>7 DEF Told, Cached
<1>10. w = SubSeq(Stored, 1, Cached)
  BY <1>3 DEF w
<1>11. IsPrefix(w, w)
  BY <1>4, PrefixRefl
<1>12. ContentInv'
  BY <1>1, <1>3, <1>4, <1>8, <1>9, <1>11 DEF ContentInv
<1>13. Fine(R) => Fine(cache) /\ R.frontier = SubSeq(Stored, 1, Cached)
  BY <1>8, <1>10
<1>14. Fine(cache)' => Fine(cache) /\ cache'.frontier = SubSeq(Stored, 1, Cached)
  BY <1>1, <1>9, <1>13
<1> QED BY <1>12, <1>14

-----------------------------------------------------------------------------
(* In every reachable state                                                  *)

\* Without a step nothing changes.
LEMMA StutterContent ==
  ASSUME ContentInv, UNCHANGED prefixVars
  PROVE ContentInv'
BY DEF prefixVars, ContentInv, Told, Stored, Cached

\* In every reachable state that no layer is marked in, the snapshots hold what their
\* nodes say and the layers hold the beginning of the conversation
\* (x/mlxrunner/cache.go, cache_trie.go, pipeline.go, mtp.go, cache/*.go).
THEOREM ContentHolds == PrefixSpec => [](PrefixInv /\ ContentInv)
<1>1. PrefixInit => PrefixInv /\ ContentInv
  BY InitInv, InitContent
<1>2. PrefixInv /\ PrefixInv' /\ ContentInv /\ [PrefixNext]_prefixVars => ContentInv'
  <2> SUFFICES ASSUME PrefixInv, ContentInv, [PrefixNext]_prefixVars PROVE ContentInv'
    OBVIOUS
  <2>1. ASSUME NEW inputs \in Texts(left.prompt), Begin(inputs) PROVE ContentInv'
    BY <2>1, BeginContent
  <2>2. CASE Prefill
    BY <2>2, PrefillContent
  <2>3. CASE StartDecode
    BY <2>3, StartDecodeContent
  <2>4. ASSUME NEW t \in Token, Decode(t) PROVE ContentInv'
    BY <2>4, DecodeContent
  <2>5. ASSUME NEW drafts \in Texts(left.draft), NEW accepted \in 0 .. Len(drafts), Speculate(drafts, accepted)
        PROVE ContentInv'
    BY <2>5, SpeculateContent
  <2>6. CASE Close
    BY <2>6, CloseContent
  <2>7. CASE UNCHANGED prefixVars
    BY <2>7, StutterContent
  <2> QED BY <2>1, <2>2, <2>3, <2>4, <2>5, <2>6, <2>7 DEF PrefixNext
<1>3. PrefixSpec => []PrefixInv
  BY PrefixInvHolds
<1> QED BY <1>1, <1>2, <1>3, PTL DEF PrefixSpec

\* A run of slots is the contents of a text.
LEMMA RunContents ==
  ASSUME NEW w \in Seq(Token), NEW b \in Seq(Content), NEW from \in Nat, NEW to \in Nat, from <= to,
         to <= Len(w), Len(b) = to - from, Run(b, 0, Text(w), from, to - from)
  PROVE b = Contents(w, from, to)
<1> DEFINE n == to - from
           d == Contents(w, from, to)
<1>1. n \in Nat /\ d = [i \in 1 .. n |-> SubSeq(w, 1, from + i)]
  BY DEF Contents
<1>2. ASSUME NEW i \in 1 .. n PROVE b[i] = SubSeq(w, 1, from + i)
  <2>1. 0 + i = i /\ from + i \in 0 .. Len(w)
    OBVIOUS
  <2>2. b[0 + i] = Text(w)[from + i]
    BY DEF Run
  <2>3. Text(w)[from + i] = SubSeq(w, 1, from + i)
    BY <2>1, TextAt
  <2> QED BY <2>1, <2>2, <2>3
<1>3. b = [i \in 1 .. n |-> b[i]]
  BY <1>1
<1> HIDE DEF n, d
<1> QED BY <1>1, <1>2, <1>3 DEF d

\* A window that is right is, in its order, the contents of the last tokens.
LEMMA RotWindowRight ==
  ASSUME NEW L, L.buf \in Seq(Content), L.off \in Nat, L.idx \in Nat, RotFits(L.off, Len(L.buf), L.idx),
         NEW w \in Seq(Token), L.off <= Len(w), RotRight(L.buf, L.off, L.idx, Text(w))
  PROVE RotWindow(L) = Contents(w, L.off - Least(L.off, Window), L.off)
<1> DEFINE b == L.buf
           K == Len(b)
           off == L.off
           idx == L.idx
           c == Text(w)
           n == Least(off, Window)
           X == RotWindow(L)
<1>1. /\ b \in Seq(Content) /\ K \in Nat /\ off \in Nat /\ idx \in Nat /\ Window \in Nat /\ Window > 0
      /\ RotFits(off, K, idx) /\ Run(b, 0, c, off - idx, idx)
      /\ off > Window => Run(b, idx, c, off - K, K - idx)
  BY ConstantsAre DEF RotRight
<1>2. X = IF K > Window THEN SubSeq(b, K - Window + 1, K)
          ELSE IF off <= Window THEN SubSeq(b, 1, off)
          ELSE SubSeq(b, idx + 1, K) \o SubSeq(b, 1, idx)
  BY DEF RotWindow
<1>3. n \in Nat /\ n <= off /\ (off <= Window => n = off) /\ (off > Window => n = Window)
  BY <1>1 DEF Least
<1> HIDE DEF b, K, off, idx, c, n, X
<1>4. X \in Seq(Content) /\ Len(X) = n /\ Run(X, 0, c, off - n, n)
  <2>1. CASE K > Window
    <3>1. off > Window /\ idx = K /\ K <= off /\ n = Window
      BY <1>1, <1>3, <2>1 DEF RotFits
    <3> DEFINE lo == K - Window
    <3>2. lo \in Nat /\ lo + n = K /\ off - K + lo = off - n /\ K - lo = n /\ 0 + lo = lo
      BY <1>1, <1>3, <2>1, <3>1
    <3>3. X = SubSeq(b, lo + 1, lo + n)
      BY <1>2, <2>1, <3>2
    <3>4. Run(b, 0, c, off - K, K)
      BY <1>1, <3>1
    <3> DEFINE g == off - K
    <3>5. g \in Int /\ 0 \in Int /\ K \in Int /\ lo \in Nat /\ Run(b, 0, c, g, K)
      BY <1>1, <3>2, <3>4
    <3>6. Run(b, lo, c, off - n, n)
      <4> DEFINE h == off - n
      <4>1. 0 + lo = lo /\ g + lo = h /\ K - lo = n
        BY <3>2
      <4> HIDE DEF g, h, lo
      <4>2. Run(b, 0 + lo, c, g + lo, K - lo)
        BY <3>5, RunShift
      <4> QED BY <4>1, <4>2 DEF h
    <3> HIDE DEF lo
    <3>7. lo + n <= Len(b)
      BY <1>1, <3>2 DEF K
    <3> QED BY <1>1, <1>3, <3>2, <3>3, <3>6, <3>7, SubAt, RunSub
  <2>2. CASE ~(K > Window) /\ off <= Window
    <3>1. idx = off /\ off <= K /\ n = off
      BY <1>1, <1>3, <2>2 DEF RotFits
    <3>2. X = SubSeq(b, 0 + 1, 0 + n) /\ 0 + n <= Len(b) /\ 0 \in Nat
      BY <1>1, <1>2, <1>3, <2>2, <3>1 DEF K
    <3>3. Run(b, 0, c, off - n, n)
      BY <1>1, <3>1
    <3> QED BY <1>1, <1>3, <3>2, <3>3, SubAt, RunSub
  <2>3. CASE ~(K > Window) /\ ~(off <= Window)
    <3>1. K = Window /\ idx <= K /\ n = K /\ K <= off /\ off > Window
      BY <1>1, <1>3, <2>3 DEF RotFits
    <3> DEFINE x == SubSeq(b, idx + 1, idx + (K - idx))
               y == SubSeq(b, 0 + 1, 0 + idx)
               m == K - idx
    <3>2. X = x \o y
      <4>1. idx + (K - idx) = K /\ 0 + 1 = 1 /\ 0 + idx = idx
        BY <1>1
      <4> QED BY <1>2, <2>3, <4>1
    <3>3. m \in Nat /\ idx + m = K /\ off - K + m = off - idx /\ m + idx = K /\ off - K = off - n
      BY <1>1, <3>1
    <3>4. x = SubSeq(b, idx + 1, idx + m) /\ Run(b, idx, c, off - K, m)
      BY <1>1, <3>1
    <3> HIDE DEF x, y, m
    <3>5. x \in Seq(Content) /\ Len(x) = m /\ Run(x, 0, c, off - K, m)
      <4>1. idx + m <= Len(b)
        BY <1>1, <3>3 DEF K
      <4> QED BY <1>1, <3>3, <3>4, <4>1, SubAt, RunSub
    <3>6. y \in Seq(Content) /\ Len(y) = idx /\ Run(y, 0, c, off - idx, idx)
      <4>1. 0 + idx <= Len(b) /\ 0 \in Nat
        BY <1>1, <3>1 DEF K
      <4> QED BY <1>1, <4>1, SubAt, RunSub DEF y
    <3>7. Run(y, 0, c, (off - K) + m, idx) /\ off - K \in Int
      <4> DEFINE g == (off - K) + m
                 h == off - idx
      <4>1. g = h /\ off - K \in Int
        BY <1>1, <3>3
      <4>2. Run(y, 0, c, h, idx)
        BY <3>6
      <4> HIDE DEF g, h
      <4>3. Run(y, 0, c, g, idx)
        BY <4>1, <4>2
      <4> QED BY <4>1, <4>3 DEF g
    <3>8. x \o y \in Seq(Content) /\ Len(x \o y) = m + idx /\ Run(x \o y, 0, c, off - K, m + idx)
      BY <1>1, <3>3, <3>5, <3>6, <3>7, RunConcat
    <3> QED BY <3>1, <3>2, <3>3, <3>8
  <2> QED BY <2>1, <2>2, <2>3
<1>5. X = Contents(w, off - n, off)
  <2>1. off - n \in Nat /\ off - n <= off /\ off - (off - n) = n /\ off <= Len(w)
    BY <1>1, <1>3 DEF off
  <2>2. Run(X, 0, Text(w), off - n, off - (off - n)) /\ Len(X) = off - (off - n)
    BY <1>4, <2>1 DEF c
  <2> QED BY <1>1, <1>4, <2>1, <2>2, RunContents
<1> QED BY <1>5 DEF X, n, off

\* A snapshot that carries the text of its node brings that text back.
LEMMA CarriesHolds ==
  ASSUME NEW k \in Kinds, NEW L \in LayerType, NEW s \in SnapshotSet, SnapFits(k, Len(L.buf), s),
         NEW w \in Seq(Token), Carries(k, L, s, Text(w), Len(w))
  PROVE SnapshotHolds(k, L, s, w)
<1> DEFINE data == Data(L, s)
           m == Len(w)
           c == Text(w)
<1>1. s.to = m /\ m \in Nat /\ s.from \in Nat /\ s.idx \in Nat
  BY SnapshotIs DEF Carries, Shows
<1>2. CASE k = "kv"
  <2>1. s.from <= m /\ Len(data) = m - s.from /\ Run(data, 0, c, s.from, m - s.from)
    BY <1>2 DEF Carries, Shows
  <2>2. data \in Seq(Content)
    BY <1>2, DataIs
  <2> HIDE DEF data
  <2>3. data = Contents(w, s.from, m)
    BY <1>1, <2>1, <2>2, RunContents
  <2>4. SnapshotHolds("kv", L, s, w)
    BY <1>1, <2>3 DEF SnapshotHolds, data
  <2> QED BY <1>2, <2>4
<1>3. CASE k = "rot"
  <2> DEFINE R == [NewLayer EXCEPT !.buf = data, !.off = s.to, !.idx = s.idx]
  <2>1. RotRight(data, m, s.idx, c)
    BY <1>3 DEF Carries, Shows
  <2>2. data \in Seq(Content) /\ Len(data) = IF IsLazy(s) THEN s.to - s.from ELSE Len(s.data)
    BY <1>3, DataIs
  <2>3. RotFits(s.to, Len(data), s.idx)
    BY <1>3, <2>2 DEF SnapFits
  <2> HIDE DEF data
  <2>4. R.buf = data /\ R.off = s.to /\ R.idx = s.idx
    BY DEF NewLayer
  <2> HIDE DEF R
  <2>5. RotWindow(R) = Contents(w, R.off - Least(R.off, Window), R.off)
    <3>1. /\ R.buf \in Seq(Content) /\ R.off \in Nat /\ R.idx \in Nat /\ RotFits(R.off, Len(R.buf), R.idx)
          /\ R.off <= Len(w) /\ RotRight(R.buf, R.off, R.idx, Text(w))
      BY <1>1, <2>1, <2>2, <2>3, <2>4
    <3> QED BY ONLY <3>1, RotWindowRight, w \in Seq(Token)
  <2>6. Holds("rot", R, w)
    BY <2>5 DEF Holds
  <2>7. SnapshotHolds("rot", L, s, w)
    BY <1>1, <2>6 DEF SnapshotHolds, R, data
  <2> QED BY <1>3, <2>7
<1>4. CASE k = "rnn"
  <2>1. data = <<c[m]>> /\ ~IsLazy(s)
    BY <1>4 DEF Carries, Shows, SnapFits
  <2>2. c[m] = w
    BY TextAt
  <2>3. s.data = <<w>>
    BY <2>1, <2>2 DEF Data
  <2>4. SnapshotHolds("rnn", L, s, w)
    BY <1>1, <2>3 DEF SnapshotHolds
  <2> QED BY <1>4, <2>4
<1> QED BY <1>2, <1>3, <1>4 DEF Kinds

\* The invariant contains the contents of the snapshots.
LEMMA InvSnapshots == PrefixInv /\ ContentInv => SnapshotsMatchNodes
<1> SUFFICES ASSUME PrefixInv, ContentInv, ~Spoiled, NEW k \in Layers, NEW n \in DOMAIN cache.layer[k].snap
             PROVE SnapshotHolds(k, cache.layer[k], cache.layer[k].snap[n], n)
  BY DEF SnapshotsMatchNodes
<1> DEFINE L == cache.layer[k]
           s == L.snap[n]
<1>1. Fine(cache)
  BY DEF Fine, Spoiled
<1>2. Carries(k, L, s, Text(n), Len(n))
  BY <1>1 DEF ContentInv, Fills, Right, SnapsRight
<1>3. k \in Kinds /\ LayerOK(k, L) /\ L \in LayerType
  BY LayersAre DEF PrefixInv
<1>4. s \in SnapshotSet /\ SnapFits(k, Len(L.buf), s) /\ n \in Nodes
  BY <1>3, LayerIs DEF LayerOK, Fits
<1>5. n \in Seq(Token)
  BY <1>4 DEF Nodes
<1> HIDE DEF L, s
<1>6. SnapshotHolds(k, L, s, n)
  BY <1>2, <1>3, <1>4, <1>5, CarriesHolds
<1> QED BY <1>6 DEF L, s

\* Unless the code promises nothing any more, every snapshot on the trie covers its
\* node's edge and holds what a restore to the end of the node must bring back, whatever
\* was captured, split, merged, restored and overwritten before (cache_trie.go:10-21).
THEOREM SnapshotsMatch == PrefixSpec => []SnapshotsMatchNodes
BY ContentHolds, InvSnapshots, PTL

\* A layer that holds the contents of a text holds that text.
LEMMA LiveHolds ==
  ASSUME NEW k \in Kinds, NEW L, LayerOK(k, L), NEW w \in Seq(Token), L.off = Len(w), Live(k, L, Text(w))
  PROVE Holds(k, L, w)
<1> DEFINE b == L.buf
           off == L.off
<1>1. L \in LayerType /\ b \in Seq(Content) /\ off \in Nat /\ L.idx \in Nat /\ Shape(k, L) /\ off = Len(w)
  BY LayerIs DEF LayerOK, Fits
<1>2. CASE k = "kv"
  <2>1. Run(b, 0, Text(w), 0, off) /\ off <= Len(b)
    BY <1>1, <1>2 DEF Live, Shape
  <2> HIDE DEF b, off
  <2> DEFINE r == SubSeq(b, 0 + 1, 0 + off)
  <2>2. r \in Seq(Content) /\ Len(r) = off /\ Run(r, 0, Text(w), 0, off)
    <3>1. 0 + off <= Len(b) /\ 0 \in Nat
      BY <1>1, <2>1
    <3> QED BY <1>1, <2>1, <3>1, SubAt, RunSub
  <2>3. 0 + 1 = 1 /\ 0 + off = off /\ off - 0 = off /\ 0 \in Nat /\ 0 <= off
    BY <1>1
  <2>4. r = SubSeq(b, 1, off)
    BY <2>3
  <2> HIDE DEF r
  <2>5. Len(r) = off - 0 /\ Run(r, 0, Text(w), 0, off - 0) /\ off <= Len(w)
    BY <1>1, <2>2, <2>3
  <2>6. r = Contents(w, 0, off)
    BY <1>1, <2>2, <2>3, <2>5, RunContents
  <2>7. Holds("kv", L, w)
    BY <2>4, <2>6 DEF Holds, b, off
  <2> QED BY <1>2, <2>7
<1>3. CASE k = "rot"
  <2>1. RotRight(b, off, L.idx, Text(w)) /\ RotFits(off, Len(b), L.idx) /\ off <= Len(w)
    BY <1>1, <1>3 DEF Live, Shape
  <2>2. RotWindow(L) = Contents(w, L.off - Least(L.off, Window), L.off)
    BY <1>1, <2>1, RotWindowRight
  <2>3. Holds("rot", L, w)
    BY <2>2 DEF Holds
  <2> QED BY <1>3, <2>3
<1>4. CASE k = "rnn"
  <2>1. RnnState(L) = Text(w)[off]
    BY <1>4 DEF Live
  <2>2. Text(w)[off] = SubSeq(w, 1, off)
    <3>1. off \in 0 .. Len(w)
      BY <1>1
    <3> QED BY <3>1, TextAt
  <2>3. Holds("rnn", L, w)
    BY <2>1, <2>2 DEF Holds
  <2> QED BY <1>4, <2>3
<1> QED BY <1>2, <1>3, <1>4 DEF Kinds

\* The layers hold the conversation they should.
ConvIs ==
  /\ Conv \in Seq(Token) /\ Len(Conv) = Cached /\ AllHold
  /\ phase # "idle" => IsPrefix(Conv, Stored)

\* Unless a layer is marked, the layers hold that conversation.
LEMMA ConvHolds == PrefixInv /\ ContentInv /\ ~Spoiled => ConvIs
<1> SUFFICES ASSUME PrefixInv, ContentInv, ~Spoiled PROVE ConvIs
  OBVIOUS
<1>1. Fine(cache)
  BY DEF Fine, Spoiled
<1>2. /\ CacheOK(cache) /\ Even(cache) /\ SessionOK /\ Cached \in Nat /\ MinOffset(cache) = Cached
      /\ cache.frontier \in Seq(Token) /\ phase \in {"idle", "prefill", "decode"}
  BY PositionIs, CacheIs DEF PrefixInv, SessionOK, CacheOK, Sound
<1>3. Fills(cache, Text(Told)) /\ (phase = "idle" => Len(cache.frontier) = Cached)
  BY <1>1 DEF ContentInv
<1>4. /\ Conv \in Seq(Token) /\ Len(Conv) = Cached /\ Filled(cache, Text(Conv))
      /\ phase # "idle" => IsPrefix(Conv, Stored)
  <2>1. CASE phase = "idle"
    BY <1>2, <1>3, <2>1 DEF Conv, Told, Fills
  <2>2. CASE phase # "idle"
    <3>1. Conv = SubSeq(Stored, 1, Cached) /\ Told = Stored /\ Stored \in Seq(Token)
      BY <1>2, <2>2, StoredIs DEF Conv, Told
    <3>2. Cached \in 0 .. Len(Stored)
      <4>1. phase = "decode" \/ phase = "prefill"
        BY <1>2, <2>2
      <4> QED BY <4>1, DiscardedOK
    <3>3. Conv \in Seq(Token) /\ Len(Conv) = Cached /\ IsPrefix(Conv, Stored)
      BY <3>1, <3>2, PrefixSub
    <3>4. MinOffset(cache) <= Len(Conv)
      BY <1>2, <3>3
    <3>5. Filled(cache, Text(Conv))
      BY <1>2, <1>3, <3>1, <3>3, <3>4, FilledPrefix DEF Fills
    <3> QED BY <3>3, <3>5
  <2> QED BY <2>1, <2>2
<1>5. AllHold
  <2> SUFFICES ASSUME NEW k \in Layers
               PROVE cache.layer[k].off = Len(Conv) /\ Holds(k, cache.layer[k], Conv)
    BY DEF AllHold
  <2> DEFINE L == cache.layer[k]
             w == Conv
  <2>1. k \in Kinds /\ LayerOK(k, L) /\ L.off = Len(w) /\ Live(k, L, Text(w)) /\ w \in Seq(Token)
    BY <1>2, <1>4, LayersAre DEF Even, Filled
  <2> HIDE DEF L, w
  <2>2. Holds(k, L, w)
    BY <2>1, LiveHolds
  <2> QED BY <2>1, <2>2 DEF L, w
<1> QED BY <1>4, <1>5 DEF ConvIs

-----------------------------------------------------------------------------
(* The layers implement a conversation                                       *)

\* What a prefix is to the conversation.
LEMMA StartsIs ==
  ASSUME NEW p \in Seq(Token), NEW q \in Seq(Token), IsPrefix(p, q)
  PROVE Abstract!StartsWith(q, p)
<1>1. Len(p) <= Len(q) /\ \A i \in 1 .. Len(p) : p[i] = q[i]
  BY PrefixAt
<1> DEFINE u == SubSeq(q, 1, Len(p))
<1>2. u \in Seq(Token) /\ Len(u) = Len(p) /\ \A i \in 1 .. Len(p) : u[i] = q[i]
  <2>1. Len(p) \in 0 .. Len(q)
    BY <1>1
  <2> QED BY <2>1, PrefixSub
<1> HIDE DEF u
<1>3. u = p
  BY <1>1, <1>2, SeqEqual
<1> QED BY <1>1, <1>3 DEF Abstract!StartsWith, u

\* What is told of the session after a step.
SessionIs ==
  /\ session.inputs \in Seq(Token) /\ Stored \in Seq(Token)
  /\ session.outputs = <<>> => Stored = session.inputs
  /\ phase = "prefill" => session.outputs = <<>> /\ Cached < Len(session.inputs)
  /\ phase = "decode" => Cached = Len(Stored)
  /\ Cached \in Nat

\* The invariant says so much of the session.
LEMMA SessionHolds == PrefixInv => SessionIs
BY StoredIs, PositionIs DEF PrefixInv, SessionOK, ProgressOK, SessionIs

\* begin is a reuse.
LEMMA BeginReuses ==
  ASSUME NEW inputs, Begin(inputs), SessionIs', ConvIs'
  PROVE Abstract!Reuse
<1>1. phase = "idle" /\ phase' = "prefill" /\ session'.outputs = <<>>
  BY DEF Begin
<1>2. /\ Conv' \in Seq(Token) /\ Len(Conv') = Cached' /\ AllHold' /\ IsPrefix(Conv', Stored')
      /\ session'.inputs \in Seq(Token) /\ Stored' = session'.inputs /\ Cached' < Len(session'.inputs)
  BY <1>1 DEF ConvIs, SessionIs
<1>3. Abstract!StartsWith(session'.inputs, Conv')
  BY <1>2, StartsIs
<1> QED BY <1>1, <1>2, <1>3 DEF Abstract!Reuse

\* The whole text is held when as many tokens are held as there are.
LEMMA WholeConv ==
  ASSUME ConvIs, SessionIs, phase # "idle", Cached = Len(Stored)
  PROVE Conv = Stored
<1>1. Conv \in Seq(Token) /\ Len(Conv) = Cached /\ IsPrefix(Conv, Stored) /\ Stored \in Seq(Token)
  BY DEF ConvIs, SessionIs
<1>2. Len(Stored) <= Len(Conv)
  BY <1>1
<1> QED BY <1>1, <1>2, PrefixLen

\* A round of the prefill loop evaluates a part of the prompt.
LEMMA PrefillEvaluates ==
  ASSUME Prefill, SessionIs, ConvIs, SessionIs', ConvIs', Cached < Cached'
  PROVE Abstract!Evaluate
<1> DEFINE p == Conv
           q == Conv'
           w == session.inputs
<1>1. phase = "prefill" /\ phase' = "prefill" /\ session' = session
  BY DEF Prefill
<1>2. /\ p \in Seq(Token) /\ Len(p) = Cached /\ AllHold /\ IsPrefix(p, w) /\ w \in Seq(Token) /\ Cached \in Nat
      /\ Stored = w
  BY <1>1 DEF ConvIs, SessionIs
<1>3. session'.inputs = w /\ session'.outputs = <<>> /\ Stored' = w
  BY <1>1, <1>2 DEF Stored, SessionIs
<1>4. /\ q \in Seq(Token) /\ Len(q) = Cached' /\ AllHold' /\ IsPrefix(q, w) /\ Cached' < Len(w)
      /\ Cached' \in Nat
  BY <1>1, <1>3 DEF ConvIs, SessionIs
<1>5. AllHold /\ AllHold'
  BY <1>2, <1>4
<1> HIDE DEF p, q
<1>6. p # q /\ q # w /\ IsPrefix(p, q)
  <2>1. p # q /\ q # w /\ Len(p) <= Len(q)
    BY <1>2, <1>4
  <2> QED BY <1>2, <1>4, <2>1, PrefixComparable
<1>7. Abstract!StartsWith(w, q) /\ Abstract!StartsWith(q, p)
  BY <1>2, <1>4, <1>6, StartsIs
<1> QED BY <1>1, <1>3, <1>5, <1>6, <1>7 DEF Abstract!Evaluate, p, q

\* The end of the prefill evaluates the rest of it.
LEMMA StartDecodeEvaluates ==
  ASSUME StartDecode, SessionIs, ConvIs, SessionIs', ConvIs', PrefixInv
  PROVE Abstract!Evaluate
<1> DEFINE p == Conv
           q == Conv'
           w == session.inputs
<1>1. /\ phase = "prefill" /\ phase' = "decode" /\ session'.inputs = w
      /\ session'.outputs = session.outputs
  BY DEF StartDecode, PrefixInv, SessionOK
<1>2. /\ p \in Seq(Token) /\ Len(p) = Cached /\ AllHold /\ IsPrefix(p, w) /\ w \in Seq(Token) /\ Cached \in Nat
      /\ Stored = w /\ Cached < Len(w)
  BY <1>1 DEF ConvIs, SessionIs
<1>3. Stored' = w
  BY <1>1, <1>2 DEF Stored, SessionIs
<1>4. /\ q \in Seq(Token) /\ Len(q) = Cached' /\ AllHold' /\ IsPrefix(q, w) /\ Cached' = Len(w)
  BY <1>1, <1>3 DEF ConvIs, SessionIs
<1>5. AllHold /\ AllHold'
  BY <1>2, <1>4
<1> HIDE DEF p, q
<1>6. q = w
  <2>1. Len(w) <= Len(q)
    BY <1>2, <1>4
  <2> QED BY <1>2, <1>4, <2>1, PrefixLen
<1>7. p # q
  BY <1>2, <1>4
<1>8. Abstract!StartsWith(w, q) /\ Abstract!StartsWith(q, p)
  BY <1>2, <1>4, <1>6, StartsIs
<1> QED BY <1>1, <1>5, <1>6, <1>7, <1>8 DEF Abstract!Evaluate, p, q

\* Tokens added behind the text, one or several or none.
LEMMA AddingGenerates ==
  ASSUME phase = "decode", phase' = "decode", session'.inputs = session.inputs, IsPrefix(Stored, Stored'),
         SessionIs, ConvIs, SessionIs', ConvIs'
  PROVE Abstract!Generate
<1> DEFINE p == Conv
           q == Conv'
<1>1. p = Stored /\ AllHold /\ p \in Seq(Token) /\ Cached = Len(Stored)
  <2>1. Cached = Len(Stored)
    BY DEF SessionIs
  <2> QED BY <2>1, WholeConv DEF ConvIs
<1>2. q \in Seq(Token) /\ AllHold' /\ Len(q) = Len(Stored') /\ IsPrefix(q, Stored') /\ Stored' \in Seq(Token)
  BY DEF SessionIs, ConvIs
<1>3. AllHold /\ AllHold'
  BY <1>1, <1>2
<1>4. q = Stored'
  <2> HIDE DEF q
  <2>1. Len(Stored') <= Len(q)
    BY <1>2
  <2> QED BY <1>2, <2>1, PrefixLen
<1>5. IsPrefix(p, q)
  BY <1>1, <1>4
<1> HIDE DEF p, q
<1>6. Abstract!StartsWith(q, p)
  BY <1>1, <1>2, <1>5, StartsIs
<1> QED BY <1>3, <1>6 DEF Abstract!Generate, p, q

\* A step of the decode loop generates a token.
LEMMA DecodeGenerates ==
  ASSUME NEW t \in Token, Decode(t), PrefixInv, SessionIs, ConvIs, SessionIs', ConvIs'
  PROVE Abstract!Generate
<1>1. phase = "decode" /\ phase' = "decode" /\ session' = [session EXCEPT !.outputs = Append(@, t)]
  BY DEF Decode
<1>2. session.inputs \in Seq(Token) /\ session.outputs \in Seq(Token)
  BY DEF PrefixInv, SessionOK
<1>3. session'.inputs = session.inputs /\ session'.outputs = Append(session.outputs, t)
  BY <1>1 DEF PrefixInv, SessionOK
<1>4. IsPrefix(Stored, Stored')
  <2>1. Stored' = session.inputs \o Append(session.outputs, t)
    BY <1>3 DEF Stored
  <2>2. IsPrefix(Stored, session.inputs \o Append(session.outputs, t))
    BY <1>2, AppendJoin DEF Stored
  <2> QED BY <2>1, <2>2
<1> QED BY <1>1, <1>3, <1>4, AddingGenerates

\* A speculation generates the accepted drafts.
LEMMA SpeculateGenerates ==
  ASSUME NEW drafts \in Texts(left.draft), NEW accepted \in 0 .. Len(drafts), Speculate(drafts, accepted),
         PrefixInv, SessionIs, ConvIs, SessionIs', ConvIs'
  PROVE Abstract!Generate
<1> DEFINE kept == SubSeq(drafts, 1, accepted)
           a == session.inputs
           b == session.outputs
           o == b \o kept
<1>1. phase = "decode" /\ phase' = "decode" /\ session' = [session EXCEPT !.outputs = o]
  BY DEF Speculate
<1>2. a \in Seq(Token) /\ b \in Seq(Token) /\ left.draft \in Nat
  BY DEF PrefixInv, SessionOK
<1>3. kept \in Seq(Token)
  <2>1. drafts \in Seq(Token)
    BY <1>2, TextIs
  <2> QED BY <2>1, PrefixSub
<1> HIDE DEF kept
<1>4. session'.inputs = a /\ session'.outputs = o
  <2> HIDE DEF o
  <2> QED BY <1>1 DEF PrefixInv, SessionOK
<1>5. IsPrefix(Stored, Stored')
  <2>1. Stored' = a \o o /\ Stored = a \o b
    BY <1>4 DEF Stored
  <2> HIDE DEF a, b
  <2>2. a \o o = (a \o b) \o kept /\ a \o b \in Seq(Token)
    BY ONLY <1>2, <1>3, JoinJoin
  <2>3. IsPrefix(a \o b, (a \o b) \o kept)
    BY <1>3, <2>2, JoinPrefix
  <2> QED BY <2>1, <2>2, <2>3
<1> QED BY <1>1, <1>4, <1>5, AddingGenerates

\* close is the end of the request.
LEMMA CloseEnds ==
  ASSUME Close, ConvIs, ConvIs', cache'.frontier = SubSeq(Stored, 1, Cached)
  PROVE Abstract!End
<1>1. phase # "idle" /\ phase' = "idle" /\ session'.inputs = <<>>
  BY DEF Close
<1>2. AllHold /\ AllHold' /\ Conv' = Conv
  BY <1>1 DEF ConvIs, Conv
<1> QED BY <1>1, <1>2 DEF Abstract!End

\* What is marked is marked for good, and a step that marks nothing is one of the
\* conversation.
LEMMA StepConverses ==
  ASSUME PrefixInv, ContentInv, PrefixInv', PrefixNext, SessionIs, SessionIs', ~Spoiled => ConvIs,
         ~Spoiled' => ConvIs', ~Spoiled'
  PROVE ~Spoiled /\ (Abstract!Reuse \/ Abstract!Evaluate \/ Abstract!Generate \/ Abstract!End)
<1>1. Fine(cache)' /\ ConvIs' /\ (Fine(cache) => ~Spoiled /\ ConvIs)
  BY DEF Fine, Spoiled
<1>2. ASSUME NEW inputs \in Texts(left.prompt), Begin(inputs) PROVE Fine(cache) /\ Abstract!Reuse
  BY <1>1, <1>2, BeginContent, BeginReuses
<1>3. ASSUME Prefill PROVE Fine(cache) /\ Abstract!Evaluate
  BY <1>1, <1>3, PrefillContent, PrefillEvaluates
<1>4. ASSUME StartDecode PROVE Fine(cache) /\ Abstract!Evaluate
  BY <1>1, <1>4, StartDecodeContent, StartDecodeEvaluates
<1>5. ASSUME NEW t \in Token, Decode(t) PROVE Fine(cache) /\ Abstract!Generate
  BY <1>1, <1>5, DecodeContent, DecodeGenerates
<1>6. ASSUME NEW drafts \in Texts(left.draft), NEW accepted \in 0 .. Len(drafts), Speculate(drafts, accepted)
      PROVE Fine(cache) /\ Abstract!Generate
  BY <1>1, <1>6, SpeculateContent, SpeculateGenerates
<1>7. ASSUME Close PROVE Fine(cache) /\ Abstract!End
  BY <1>1, <1>7, CloseContent, CloseEnds
<1> QED BY <1>1, <1>2, <1>3, <1>4, <1>5, <1>6, <1>7 DEF PrefixNext

\* The empty cache holds the empty conversation.
LEMMA InitConverses == PrefixInit => Abstract!ConversationInit
<1> SUFFICES ASSUME PrefixInit PROVE Abstract!ConversationInit
  OBVIOUS
<1>1. phase = "idle" /\ cache.frontier = <<>> /\ session.inputs = <<>> /\ \A k \in Layers : ~cache.layer[k].spoiled
  BY DEF PrefixInit, Root, NewLayer
<1>2. ~Spoiled /\ Conv = <<>>
  BY <1>1 DEF Spoiled, Conv
<1>3. PrefixInv /\ ContentInv
  BY InitInv, InitContent
<1>4. AllHold
  BY <1>2, <1>3, ConvHolds DEF ConvIs
<1> QED BY <1>1, <1>2, <1>4 DEF Abstract!ConversationInit

\* Reuse, paging, splitting, merging, eviction and speculation are invisible, for any
\* tokens, layers and bounds: what the layers hold is the beginning of the current
\* conversation, and it changes as a conversation does (cache.go:3-16).
THEOREM Converses == PrefixSpec => ImplementsConversation
<1>1. PrefixInit => Abstract!ConversationInit
  BY InitConverses
<1>2. (PrefixInv => SessionIs) /\ (PrefixInv /\ ContentInv /\ ~Spoiled => ConvIs)
  BY SessionHolds, ConvHolds
<1>3. (PrefixInv => SessionIs)' /\ (PrefixInv /\ ContentInv /\ ~Spoiled => ConvIs)'
  BY SessionHolds, ConvHolds, PTL
<1>4. PrefixInv /\ ContentInv /\ (PrefixInv /\ ContentInv)' /\ [PrefixNext]_prefixVars
        => [Abstract!ConversationNext]_(Abstract!conversationVars)
  <2> SUFFICES ASSUME PrefixInv, ContentInv, PrefixInv', ContentInv', [PrefixNext]_prefixVars
               PROVE [Abstract!ConversationNext]_(Abstract!conversationVars)
    OBVIOUS
  <2>1. SessionIs /\ SessionIs' /\ (~Spoiled => ConvIs) /\ (~Spoiled' => ConvIs')
    BY <1>2, <1>3
  <2>2. CASE Spoiled'
    BY <2>2 DEF Abstract!ConversationNext
  <2>3. CASE ~Spoiled' /\ PrefixNext
    <3>1. ~Spoiled /\ (Abstract!Reuse \/ Abstract!Evaluate \/ Abstract!Generate \/ Abstract!End)
      BY <2>1, <2>3, StepConverses
    <3>2. Spoiled' = Spoiled
      BY <2>3, <3>1, SMT DEF Spoiled
    <3>3. Abstract!ConversationNext
      BY <3>1, <3>2, Zenon DEF Abstract!ConversationNext
    <3> QED BY <3>3
  <2>4. CASE UNCHANGED prefixVars
    BY <2>4 DEF prefixVars, Abstract!conversationVars, AllHold, Conv, Spoiled, Stored, Cached
  <2> QED BY <2>2, <2>3, <2>4
<1> QED BY <1>1, <1>4, ContentHolds, PTL DEF PrefixSpec, ImplementsConversation, Abstract!ConversationSpec

=============================================================================
