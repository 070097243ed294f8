------------------------- MODULE PrefixCacheProofs -------------------------
(* The trie of the MLX runner's cache stays a trie, whatever is matched,     *)
(* split, extended, merged or evicted; every snapshot can be restored; and   *)
(* the bytes paged out are counted exactly: for any tokens, any number and   *)
(* order of layers, any window and any bounds.                               *)
EXTENDS PrefixCacheProps, FiniteSetTheorems, SequenceTheorems, WellFoundedInduction, TLAPS

-----------------------------------------------------------------------------
(* Sums over finite sets, by the smallest set that is no sum.                *)

\* A set of natural numbers has a least element.
LEMMA LeastElement ==
  ASSUME NEW S, NEW n \in S, S \in SUBSET Nat
  PROVE \E m \in S : \A k \in S : m <= k
<1> DEFINE R == OpToRel(<, Nat)
<1>1. IsWellFoundedOn(R, Nat)
  BY NatLessThanWellFounded
<1>2. \E x \in S : \A y \in S : ~(<<y, x>> \in R)
  <2> HIDE DEF R
  <2> QED BY <1>1, WFMin
<1>3. \A x, y \in Nat : <<y, x>> \in R <=> y < x
  <2>1. R = {ss \in Nat \X Nat : ss[1] < ss[2]}
    BY DEF OpToRel
  <2> HIDE DEF R
  <2> QED BY <2>1
<1> HIDE DEF R
<1>4. PICK x \in S : \A y \in S : ~(<<y, x>> \in R)
  BY <1>2
<1>5. \A y \in S : ~(y < x)
  BY <1>3, <1>4
<1> QED BY <1>5

One(s) == CHOOSE x \in s : TRUE

IsSum(g, f, S) ==
  g = [s \in SUBSET S |-> IF s = {} THEN 0 ELSE f[One(s)] + g[s \ {One(s)}]]

\* The partial sums of f, over a finite set.
Sums(g, f, S) == IsFiniteSet(S) /\ f \in [S -> Int] /\ g \in [SUBSET S -> Int] /\ IsSum(g, f, S)

\* The fold of the library is the recursion over what remains of the set.
LEMMA SumFunctionDef ==
  ASSUME NEW f, NEW g, NEW S, S = DOMAIN f, IsSum(g, f, S)
   PROVE  \E h : IsSum(h, f, S) /\ SumFunction(f) = h[S]
<1> DEFINE h == CHOOSE h : IsSum(h, f, S)
<1>1. IsSum(h, f, S) OBVIOUS
<1>2. SumFunction(f) = h[S]
  BY DEF SumFunction, SumFunctionOnSet, FoldFunctionOnSet, MapThenFoldSet, IsSum, One
<1> QED BY <1>1, <1>2

\* The recursion has a solution on every finite set.
LEMMA SumExists ==
  ASSUME NEW f, NEW S, IsFiniteSet(S), f \in [S -> Int]
  PROVE \E g \in [SUBSET S -> Int] : IsSum(g, f, S)
<1> DEFINE Small(n) == {s \in SUBSET S : Cardinality(s) <= n}
           Is(g, n) == /\ g \in [Small(n) -> Int]
                       /\ \A s \in Small(n) : g[s] = IF s = {} THEN 0 ELSE f[One(s)] + g[s \ {One(s)}]
           Bad == {n \in Nat : ~ \E g : Is(g, n)}
<1>1. SUFFICES ASSUME NEW n0 \in Bad PROVE FALSE
  <2>1. Cardinality(S) \in Nat BY FS_CardinalityType
  <2>2. PICK g : Is(g, Cardinality(S)) BY <2>1
  <2>3. Small(Cardinality(S)) = SUBSET S BY FS_Subset
  <2>4. g \in [SUBSET S -> Int]
    BY <2>2, <2>3
  <2>5. \A s \in SUBSET S : g[s] = IF s = {} THEN 0 ELSE f[One(s)] + g[s \ {One(s)}]
    BY <2>2, <2>3
  <2> HIDE DEF Small, Is
  <2>6. IsSum(g, f, S)
    BY <2>4, <2>5, Zenon DEF IsSum
  <2> QED BY <2>4, <2>6
<1>2. PICK n \in Bad : \A k \in Bad : n <= k
  <2> HIDE DEF Bad
  <2>1. Bad \in SUBSET Nat BY DEF Bad
  <2> QED BY <1>1, <2>1, LeastElement
<1>3. \A s \in SUBSET S : IsFiniteSet(s) /\ Cardinality(s) \in Nat
  BY FS_Subset, FS_CardinalityType
<1>4. \A s \in SUBSET S : Cardinality(s) = 0 <=> s = {}
  BY <1>3, FS_EmptySet
<1>5. CASE n = 0
  <2>1. Small(0) = {{}} BY <1>3, <1>4, FS_EmptySet
  <2>2. Is([s \in {{}} |-> 0], 0) BY <2>1
  <2> QED BY <1>2, <1>5, <2>2
<1>6. CASE n # 0
  <2>1. n \in Nat /\ n - 1 \in Nat /\ n - 1 \notin Bad
    <3> HIDE DEF Is
    <3>1. n \in Nat OBVIOUS
    <3> HIDE DEF Bad
    <3>2. n - 1 < n /\ n - 1 \in Nat BY <3>1, <1>6
    <3> QED BY <3>1, <3>2, <1>2
  <2>2. PICK g : Is(g, n - 1) BY <2>1
  <2> DEFINE h == [s \in Small(n) |-> IF s = {} THEN 0 ELSE f[One(s)] + g[s \ {One(s)}]]
  <2>3. ASSUME NEW s \in Small(n), s # {}
        PROVE  One(s) \in s /\ s \ {One(s)} \in Small(n - 1)
    <3>1. One(s) \in s BY <2>3 DEF One
    <3>2. Cardinality(s \ {One(s)}) = Cardinality(s) - 1 BY <3>1, <1>3, FS_RemoveElement
    <3> QED BY <3>1, <3>2, <1>3, <2>1
  <2>4. \A s \in Small(n - 1) : s \in Small(n) BY <1>3, <2>1
  <2>5. \A s \in Small(n - 1) : h[s] = g[s] BY <2>2, <2>4
  <2>6. h \in [Small(n) -> Int] BY <2>2, <2>3
  <2>7. \A s \in Small(n) : h[s] = IF s = {} THEN 0 ELSE f[One(s)] + h[s \ {One(s)}]
    BY <2>3, <2>5
  <2> QED BY <2>6, <2>7, <1>2
<1> QED BY <1>5, <1>6

\* Among some subsets of a finite set one is the smallest.
LEMMA SmallestSubset ==
  ASSUME NEW S, IsFiniteSet(S), NEW B, B \in SUBSET (SUBSET S), NEW b \in B
  PROVE \E s \in B : \A t \in B : Cardinality(s) <= Cardinality(t)
<1>1. \A s \in SUBSET S : Cardinality(s) \in Nat
  BY FS_Subset, FS_CardinalityType
<1> DEFINE N == {Cardinality(s) : s \in B}
<1>2. N \in SUBSET Nat /\ Cardinality(b) \in N
  BY <1>1
<1>3. PICK m \in N : \A k \in N : m <= k
  <2> HIDE DEF N
  <2> QED BY <1>2, LeastElement
<1>4. PICK s \in B : Cardinality(s) = m
  BY <1>3
<1> QED BY <1>3, <1>4

\* Partial sums of functions that agree on T agree below T.
LEMMA SumsAgree ==
  ASSUME NEW S, NEW f, NEW g, Sums(g, f, S), NEW T \in SUBSET S, NEW e, NEW h, Sums(h, e, T),
         \A x \in T : e[x] = f[x]
  PROVE \A s \in SUBSET T : h[s] = g[s]
<1> USE DEF Sums
<1> DEFINE B == {s \in SUBSET T : h[s] # g[s]}
<1>1. SUFFICES ASSUME NEW b \in B PROVE FALSE
  OBVIOUS
<1>2. PICK s \in B : \A t \in B : Cardinality(s) <= Cardinality(t)
  <2>1. B \in SUBSET (SUBSET S) OBVIOUS
  <2> HIDE DEF B
  <2> QED BY <2>1, <1>1, SmallestSubset
<1>3. s \in SUBSET T /\ h[s] # g[s] /\ s \in SUBSET S
  BY <1>2
<1>4. s # {}
  BY <1>3 DEF IsSum
<1>5. One(s) \in s
  BY <1>4 DEF One
<1>6. Cardinality(s \ {One(s)}) < Cardinality(s)
  BY <1>3, <1>5, FS_Subset, FS_RemoveElement, FS_CardinalityType
<1>7. s \ {One(s)} \notin B
  BY <1>2, <1>3, <1>6, FS_Subset, FS_CardinalityType
<1>8. h[s] = e[One(s)] + h[s \ {One(s)}] /\ g[s] = f[One(s)] + g[s \ {One(s)}]
  BY <1>3, <1>4 DEF IsSum
<1> QED BY <1>3, <1>5, <1>7, <1>8

\* Partial sums do not depend on the element that is taken first.
LEMMA SumRemovesAll ==
  ASSUME NEW S, NEW f, NEW g, Sums(g, f, S)
  PROVE \A s \in SUBSET S : \A x \in s : g[s] = f[x] + g[s \ {x}]
<1> USE DEF Sums
<1> DEFINE B == {s \in SUBSET S : \E x \in s : g[s] # f[x] + g[s \ {x}]}
<1>1. SUFFICES ASSUME NEW b \in B PROVE FALSE
  OBVIOUS
<1>2. PICK s \in B : \A t \in B : Cardinality(s) <= Cardinality(t)
  <2>1. B \in SUBSET (SUBSET S) OBVIOUS
  <2> HIDE DEF B
  <2> QED BY <2>1, <1>1, SmallestSubset
<1>3. PICK x \in s : g[s] # f[x] + g[s \ {x}]
  BY <1>2
<1>4. s \in SUBSET S /\ s # {}
  BY <1>2, <1>3
<1> DEFINE c == One(s)
<1>5. c \in s
  BY <1>4 DEF One
<1>6. g[s] = f[c] + g[s \ {c}]
  BY <1>4 DEF IsSum
<1>7. x # c
  BY <1>3, <1>6
<1> HIDE DEF c
<1>8. \A y \in s : s \ {y} \in SUBSET S /\ s \ {y} \notin B
  <2> TAKE y \in s
  <2>1. Cardinality(s \ {y}) < Cardinality(s)
    BY <1>4, FS_Subset, FS_RemoveElement, FS_CardinalityType, SMTT(60)
  <2>2. Cardinality(s \ {y}) \in Nat /\ Cardinality(s) \in Nat
    BY <1>4, FS_Subset, FS_CardinalityType
  <2>3. ~(Cardinality(s) <= Cardinality(s \ {y}))
    BY <2>1, <2>2
  <2> HIDE DEF B
  <2> QED BY <1>2, <1>4, <2>3
<1>9. g[s \ {c}] = f[x] + g[(s \ {c}) \ {x}]
  BY <1>5, <1>7, <1>8
<1>10. g[s \ {x}] = f[c] + g[(s \ {x}) \ {c}]
  BY <1>5, <1>7, <1>8
<1>11. (s \ {x}) \ {c} = (s \ {c}) \ {x}
  OBVIOUS
<1>12. f[x] \in Int /\ f[c] \in Int /\ g[(s \ {c}) \ {x}] \in Int
  BY <1>4, <1>5
<1>13. g[s] = f[c] + (f[x] + g[(s \ {c}) \ {x}])
  BY <1>6, <1>9
<1>14. g[s \ {x}] = f[c] + g[(s \ {c}) \ {x}]
  BY <1>10, <1>11
<1> HIDE DEF B
<1>15. g[s] # f[x] + (f[c] + g[(s \ {c}) \ {x}])
  BY <1>3, <1>14
<1> QED BY <1>12, <1>13, <1>15

\* The sum over s is the value at any of its elements and the rest.
LEMMA SumRemoves ==
  ASSUME NEW S, NEW f, NEW g, Sums(g, f, S), NEW s \in SUBSET S, NEW x \in s
  PROVE g[s] = f[x] + g[s \ {x}]
BY SumRemovesAll

\* SumFunction is the last of the partial sums.
LEMMA SumIs ==
  ASSUME NEW S, IsFiniteSet(S), NEW f \in [S -> Int]
  PROVE \E g : Sums(g, f, S) /\ SumFunction(f) = g[S]
<1>1. PICK g \in [SUBSET S -> Int] : IsSum(g, f, S)
  BY SumExists
<1>2. PICK h : IsSum(h, f, S) /\ SumFunction(f) = h[S]
  BY <1>1, SumFunctionDef
<1>3. h \in [SUBSET S -> Int]
  <2> DEFINE B == {s \in SUBSET S : h[s] \notin Int}
  <2>1. SUFFICES ASSUME NEW b \in B PROVE FALSE
    <3>1. h = [s \in SUBSET S |-> h[s]] BY <1>2 DEF IsSum
    <3> QED BY <3>1
  <2>2. PICK s \in B : \A t \in B : Cardinality(s) <= Cardinality(t)
    <3>1. B \in SUBSET (SUBSET S) OBVIOUS
    <3> HIDE DEF B
    <3> QED BY <2>1, <3>1, SmallestSubset
  <2>3. s \in SUBSET S /\ h[s] \notin Int /\ s # {}
    BY <2>2, <1>2 DEF IsSum
  <2>4. One(s) \in s
    BY <2>3 DEF One
  <2>5. Cardinality(s \ {One(s)}) < Cardinality(s)
    BY <2>3, <2>4, FS_Subset, FS_RemoveElement, FS_CardinalityType
  <2>6. s \ {One(s)} \notin B
    BY <2>2, <2>3, <2>5, FS_Subset, FS_CardinalityType
  <2>7. h[s] = f[One(s)] + h[s \ {One(s)}]
    BY <1>2, <2>3 DEF IsSum
  <2> QED BY <2>3, <2>4, <2>6, <2>7
<1> QED BY <1>2, <1>3 DEF Sums

\* A sum of integers is an integer.
LEMMA SumInt ==
  ASSUME NEW S, IsFiniteSet(S), NEW f, f \in [S -> Int]
  PROVE SumFunction(f) \in Int
<1>1. PICK g : Sums(g, f, S) /\ SumFunction(f) = g[S]
  BY SumIs
<1> QED BY <1>1 DEF Sums

\* The empty sum is 0.
LEMMA SumEmpty ==
  ASSUME NEW f \in [{} -> Int]
  PROVE SumFunction(f) = 0
<1>1. IsFiniteSet({}) BY FS_EmptySet
<1>2. f \in [{} -> Int] OBVIOUS
<1>3. PICK g : Sums(g, f, {}) /\ SumFunction(f) = g[{}] BY ONLY <1>1, <1>2, SumIs
<1> QED BY <1>3 DEF Sums, IsSum

\* A sum is its summand at x and the sum of the others.
LEMMA SumSplit ==
  ASSUME NEW S, IsFiniteSet(S), NEW f, f \in [S -> Int], NEW x \in S, NEW e,
         e \in [S \ {x} -> Int], \A y \in S \ {x} : e[y] = f[y]
  PROVE SumFunction(f) = f[x] + SumFunction(e)
<1>1. PICK g : Sums(g, f, S) /\ SumFunction(f) = g[S]
  BY SumIs
<1>2. IsFiniteSet(S \ {x})
  BY FS_Subset
<1>3. PICK h : Sums(h, e, S \ {x}) /\ SumFunction(e) = h[S \ {x}]
  BY <1>2, SumIs
<1>4. g[S] = f[x] + g[S \ {x}]
  BY ONLY <1>1, SumRemoves
<1>5. h[S \ {x}] = g[S \ {x}]
  <2>1. \A s \in SUBSET (S \ {x}) : h[s] = g[s]
    <3>1. S \ {x} \in SUBSET S
      OBVIOUS
    <3>2. Sums(g, f, S) /\ Sums(h, e, S \ {x}) BY <1>1, <1>2, <1>3 DEF Sums
    <3> QED BY <3>1, <3>2, SumsAgree
  <2> QED BY <2>1
<1> QED BY <1>1, <1>3, <1>4, <1>5

\* The sum of a pointwise sum is the sum of the sums.
LEMMA SumAdds ==
  ASSUME NEW S, IsFiniteSet(S), NEW f, f \in [S -> Int], NEW g, g \in [S -> Int], NEW d,
         d \in [S -> Int], \A x \in S : g[x] = f[x] + d[x]
  PROVE SumFunction(g) = SumFunction(f) + SumFunction(d)
<1>1. PICK F : Sums(F, f, S) /\ SumFunction(f) = F[S]
  BY SumIs
<1>2. PICK G : Sums(G, g, S) /\ SumFunction(g) = G[S]
  BY SumIs
<1>3. PICK D : Sums(D, d, S) /\ SumFunction(d) = D[S]
  BY SumIs
<1> DEFINE B == {s \in SUBSET S : G[s] # F[s] + D[s]}
<1>4. SUFFICES ASSUME NEW b \in B PROVE FALSE
  BY <1>1, <1>2, <1>3
<1>5. PICK s \in B : \A t \in B : Cardinality(s) <= Cardinality(t)
  <2>1. B \in SUBSET (SUBSET S) OBVIOUS
  <2> HIDE DEF B
  <2> QED BY <2>1, <1>4, SmallestSubset
<1>6. s \in SUBSET S /\ G[s] # F[s] + D[s]
  BY <1>5
<1>7. s # {}
  BY <1>1, <1>2, <1>3, <1>6 DEF Sums, IsSum
<1>8. One(s) \in s
  BY <1>7 DEF One
<1>9. Cardinality(s \ {One(s)}) < Cardinality(s)
  BY <1>6, <1>8, FS_Subset, FS_RemoveElement, FS_CardinalityType, SMTT(60)
<1>10. s \ {One(s)} \in SUBSET S /\ s \ {One(s)} \notin B
  <2>2. Cardinality(s \ {One(s)}) \in Nat /\ Cardinality(s) \in Nat
    BY <1>6, FS_Subset, FS_CardinalityType
  <2> HIDE DEF B
  <2> QED BY <1>5, <1>6, <1>9, <2>2
<1>11. /\ G[s] = g[One(s)] + G[s \ {One(s)}]
       /\ F[s] = f[One(s)] + F[s \ {One(s)}]
       /\ D[s] = d[One(s)] + D[s \ {One(s)}]
  BY <1>1, <1>2, <1>3, <1>6, <1>7 DEF Sums, IsSum
<1>12. One(s) \in S
  BY <1>6, <1>8
<1>13. /\ {G[s \ {One(s)}], F[s \ {One(s)}], D[s \ {One(s)}], f[One(s)], d[One(s)]} \subseteq Int
       /\ g[One(s)] = f[One(s)] + d[One(s)]
       /\ G[s \ {One(s)}] = F[s \ {One(s)}] + D[s \ {One(s)}]
  BY <1>1, <1>2, <1>3, <1>10, <1>12 DEF Sums
<1> QED BY ONLY <1>6, <1>11, <1>13

\* Summands that are 0 may be left out.
LEMMA SumZeros ==
  ASSUME NEW S, IsFiniteSet(S), NEW T \in SUBSET S, NEW d, d \in [T -> Int], NEW e,
         e \in [S -> Int], \A x \in S : e[x] = IF x \in T THEN d[x] ELSE 0
  PROVE SumFunction(e) = SumFunction(d)
<1>1. IsFiniteSet(T)
  BY FS_Subset
<1>2. PICK D : Sums(D, d, T) /\ SumFunction(d) = D[T]
  BY <1>1, SumIs
<1>3. PICK E : Sums(E, e, S) /\ SumFunction(e) = E[S]
  BY SumIs
<1> DEFINE B == {s \in SUBSET S : E[s] # D[s \cap T]}
<1>4. SUFFICES ASSUME NEW b \in B PROVE FALSE
  <2>1. S \cap T = T OBVIOUS
  <2> QED BY <1>2, <1>3, <2>1
<1>5. PICK s \in B : \A t \in B : Cardinality(s) <= Cardinality(t)
  <2>1. B \in SUBSET (SUBSET S) OBVIOUS
  <2> HIDE DEF B
  <2> QED BY <2>1, <1>4, SmallestSubset
<1>6. s \in SUBSET S /\ E[s] # D[s \cap T]
  BY <1>5
<1>7. s # {}
  <2>1. {} \cap T = {} OBVIOUS
  <2>2. E[{}] = 0 /\ D[{}] = 0 BY <1>2, <1>3 DEF Sums, IsSum
  <2> QED BY <1>6, <2>1, <2>2
<1>8. PICK x \in s : TRUE
  BY <1>7
<1>9. Cardinality(s \ {x}) < Cardinality(s)
  BY <1>6, <1>8, FS_Subset, FS_RemoveElement, FS_CardinalityType
<1>10. s \ {x} \in SUBSET S /\ E[s \ {x}] = D[(s \ {x}) \cap T]
  <2>2. Cardinality(s \ {x}) \in Nat /\ Cardinality(s) \in Nat /\ s \ {x} \in SUBSET S
    BY <1>6, FS_Subset, FS_CardinalityType
  <2>3. s \ {x} \notin B
    <3> HIDE DEF B
    <3> QED BY <1>5, <1>9, <2>2
  <2> QED BY <2>2, <2>3
<1> HIDE DEF B
<1>11. E[s] = e[x] + E[s \ {x}]
  BY ONLY <1>3, <1>6, SumRemoves
<1>12. CASE x \in T
  <2>1. D[s \cap T] = d[x] + D[(s \cap T) \ {x}]
    <3>1. s \cap T \in SUBSET T /\ x \in s \cap T
      BY <1>12
    <3> QED BY ONLY <3>1, <1>2, SumRemoves
  <2>2. (s \cap T) \ {x} = (s \ {x}) \cap T
    OBVIOUS
  <2> QED BY <1>6, <1>10, <1>11, <1>12, <2>1, <2>2
<1>13. CASE x \notin T
  <2>1. (s \ {x}) \cap T = s \cap T
    BY <1>13
  <2>2. e[x] = 0 /\ E[s \ {x}] \in Int
    BY <1>3, <1>6, <1>10, <1>13 DEF Sums
  <2>3. E[s] = E[s \ {x}]
    BY <1>11, <2>2
  <2> QED BY <1>6, <1>10, <2>1, <2>3
<1> QED BY <1>12, <1>13

-----------------------------------------------------------------------------
(* Prefixes                                                                  *)

\* A prefix agrees at each of its places.
LEMMA PrefixAt ==
  ASSUME NEW p \in Seq(Token), NEW q \in Seq(Token)
  PROVE IsPrefix(p, q) <=> Len(p) <= Len(q) /\ \A i \in 1 .. Len(p) : p[i] = q[i]
<1>1. Len(p) \in Nat /\ Len(q) \in Nat
  OBVIOUS
<1>2. CASE Len(p) <= Len(q)
  <2> DEFINE u == SubSeq(p, 1, Len(p))
             v == SubSeq(q, 1, Len(p))
  <2>1. /\ u \in Seq(Token) /\ v \in Seq(Token) /\ Len(u) = Len(p) /\ Len(v) = Len(p)
        /\ \A i \in 1 .. Len(p) : u[i] = p[i] /\ v[i] = q[i]
    BY <1>2, SMTT(60)
  <2>2. u = v <=> \A i \in 1 .. Len(p) : u[i] = v[i]
    <3> HIDE DEF u, v
    <3> QED BY <2>1, SeqEqual
  <2> QED BY <1>2, <2>1, <2>2 DEF IsPrefix
<1> QED BY <1>1, <1>2 DEF IsPrefix

\* The first m tokens of w are a prefix of w.
LEMMA PrefixSub ==
  ASSUME NEW w \in Seq(Token), NEW m \in 0 .. Len(w)
  PROVE /\ SubSeq(w, 1, m) \in Seq(Token) /\ Len(SubSeq(w, 1, m)) = m
        /\ \A i \in 1 .. m : SubSeq(w, 1, m)[i] = w[i]
        /\ IsPrefix(SubSeq(w, 1, m), w)
<1>1. /\ SubSeq(w, 1, m) \in Seq(Token) /\ Len(SubSeq(w, 1, m)) = m
      /\ \A i \in 1 .. m : SubSeq(w, 1, m)[i] = w[i]
  BY SMTT(60)
<1> DEFINE u == SubSeq(w, 1, m)
<1>2. u \in Seq(Token) /\ Len(u) <= Len(w) /\ \A i \in 1 .. Len(u) : u[i] = w[i]
  BY <1>1
<1>3. IsPrefix(u, w)
  <2> HIDE DEF u
  <2> QED BY <1>2, PrefixAt
<1> QED BY <1>1, <1>3

\* A text is a prefix of itself.
LEMMA PrefixRefl ==
  ASSUME NEW p \in Seq(Token)
  PROVE IsPrefix(p, p)
BY PrefixAt

\* Prefixes are transitive.
LEMMA PrefixTrans ==
  ASSUME NEW p \in Seq(Token), NEW q \in Seq(Token), NEW r \in Seq(Token), IsPrefix(p, q),
         IsPrefix(q, r)
  PROVE IsPrefix(p, r)
<1>1. Len(p) <= Len(q) /\ \A i \in 1 .. Len(p) : p[i] = q[i]
  BY PrefixAt
<1>2. Len(q) <= Len(r) /\ \A i \in 1 .. Len(q) : q[i] = r[i]
  BY PrefixAt
<1>3. Len(p) <= Len(r) /\ \A i \in 1 .. Len(p) : p[i] = r[i]
  BY <1>1, <1>2
<1> QED BY <1>3, PrefixAt

\* A prefix as long as the text is the text.
LEMMA PrefixLen ==
  ASSUME NEW p \in Seq(Token), NEW q \in Seq(Token), IsPrefix(p, q)
  PROVE Len(p) <= Len(q) /\ (p = q <=> Len(q) <= Len(p))
<1>1. Len(p) <= Len(q) /\ \A i \in 1 .. Len(p) : p[i] = q[i]
  BY PrefixAt
<1> QED BY <1>1, SeqEqual

\* Of two prefixes of a text the shorter is a prefix of the longer.
LEMMA PrefixComparable ==
  ASSUME NEW p \in Seq(Token), NEW q \in Seq(Token), NEW r \in Seq(Token), IsPrefix(p, r),
         IsPrefix(q, r), Len(p) <= Len(q)
  PROVE IsPrefix(p, q)
<1>1. \A i \in 1 .. Len(p) : p[i] = r[i]
  BY PrefixAt
<1>2. \A i \in 1 .. Len(q) : q[i] = r[i]
  BY PrefixAt
<1>3. \A i \in 1 .. Len(p) : p[i] = q[i]
  BY <1>1, <1>2
<1> QED BY <1>3, PrefixAt

\* The root is a prefix of every text and the only empty one.
LEMMA PrefixRoot == Root \in Seq(Token) /\ Len(Root) = 0 /\ \A p \in Seq(Token) : IsPrefix(Root, p) /\ (p # Root <=> Len(p) # 0)
<1>1. Root \in Seq(Token) /\ Len(Root) = 0 BY DEF Root
<1>2. \A p \in Seq(Token) : IsPrefix(Root, p)
  <2> TAKE p \in Seq(Token)
  <2>1. Len(Root) <= Len(p) /\ 1 .. Len(Root) = {}
    BY <1>1
  <2> QED BY <1>1, <2>1, PrefixAt
<1>3. \A p \in Seq(Token) : p # Root <=> Len(p) # 0
  BY <1>1, <1>2, PrefixLen
<1> QED BY <1>1, <1>2, <1>3

\* CommonLength is the length of the longest common prefix.
LEMMA CommonLengthIs ==
  ASSUME NEW p \in Seq(Token), NEW q \in Seq(Token)
  PROVE LET m == CommonLength(p, q)
        IN /\ m \in Nat /\ m <= Len(p) /\ m <= Len(q)
           /\ \A i \in 1 .. m : p[i] = q[i]
           /\ m < Len(p) /\ m < Len(q) => p[m + 1] # q[m + 1]
<1> DEFINE k == Least(Len(p), Len(q))
           A == {i \in 1 .. k : SubSeq(p, 1, i) = SubSeq(q, 1, i)}
           Out == {i \in 1 .. k + 1 : i = k + 1 \/ p[i] # q[i]}
<1>1. k \in Nat /\ k <= Len(p) /\ k <= Len(q) /\ (k = Len(p) \/ k = Len(q))
  BY DEF Least
<1>2. PICK o \in Out : \A i \in Out : o <= i
  <2>1. Out \in SUBSET Nat /\ k + 1 \in Out
    BY <1>1
  <2> HIDE DEF Out
  <2> QED BY <2>1, LeastElement
<1>3. o \in 1 .. k + 1 /\ (o = k + 1 \/ p[o] # q[o])
  BY <1>2
<1>4. \A i \in 1 .. o - 1 : p[i] = q[i]
  BY <1>1, <1>2, <1>3
<1>5. \A i \in 1 .. k : SubSeq(p, 1, i) = SubSeq(q, 1, i) <=> i <= o - 1
  <2> TAKE i \in 1 .. k
  <2> HIDE DEF k, Out, A
  <2>1. i \in 0 .. Len(p) /\ i \in 0 .. Len(q)
    BY <1>1
  <2>2. /\ SubSeq(p, 1, i) \in Seq(Token) /\ Len(SubSeq(p, 1, i)) = i
        /\ \A j \in 1 .. i : SubSeq(p, 1, i)[j] = p[j]
    BY <2>1, PrefixSub
  <2>3. /\ SubSeq(q, 1, i) \in Seq(Token) /\ Len(SubSeq(q, 1, i)) = i
        /\ \A j \in 1 .. i : SubSeq(q, 1, i)[j] = q[j]
    BY <2>1, PrefixSub
  <2>4. SubSeq(p, 1, i) = SubSeq(q, 1, i) <=> \A j \in 1 .. i : p[j] = q[j]
    BY <2>2, <2>3, SeqEqual
  <2>5. (\A j \in 1 .. i : p[j] = q[j]) <=> i <= o - 1
    BY <1>1, <1>3, <1>4
  <2> QED BY <2>4, <2>5
<1>6. A = 1 .. o - 1
  BY <1>1, <1>3, <1>5
<1>7. CommonLength(p, q) = o - 1
  <2>1. CommonLength(p, q) = Cardinality(A)
    BY DEF CommonLength
  <2>2. Cardinality(1 .. o - 1) = o - 1
    BY <1>1, <1>3, FS_Interval
  <2> HIDE DEF A, Out, k
  <2> QED BY <2>1, <2>2, <1>6
<1> HIDE DEF A, Out, k
<1> QED BY <1>1, <1>3, <1>4, <1>7

\* The longest common prefix of two sequences.
Meet(p, q) == SubSeq(p, 1, CommonLength(p, q))

\* Meet is the longest common prefix.
LEMMA MeetIs ==
  ASSUME NEW p \in Seq(Token), NEW q \in Seq(Token)
  PROVE /\ Meet(p, q) \in Seq(Token) /\ Len(Meet(p, q)) = CommonLength(p, q)
        /\ IsPrefix(Meet(p, q), p) /\ IsPrefix(Meet(p, q), q)
        /\ \A r \in Seq(Token) : IsPrefix(r, p) /\ IsPrefix(r, q) => IsPrefix(r, Meet(p, q))
<1> DEFINE m == CommonLength(p, q)
<1>1. /\ m \in Nat /\ m <= Len(p) /\ m <= Len(q) /\ \A i \in 1 .. m : p[i] = q[i]
      /\ m < Len(p) /\ m < Len(q) => p[m + 1] # q[m + 1]
  BY CommonLengthIs
<1> HIDE DEF m
<1>2. Meet(p, q) = SubSeq(p, 1, m)
  BY DEF Meet, m
<1>3. /\ Meet(p, q) \in Seq(Token) /\ Len(Meet(p, q)) = m
      /\ \A i \in 1 .. m : Meet(p, q)[i] = p[i]
      /\ IsPrefix(Meet(p, q), p)
  <2>1. m \in 0 .. Len(p) BY <1>1
  <2> QED BY <1>2, <2>1, PrefixSub
<1>4. IsPrefix(Meet(p, q), q)
  BY <1>1, <1>3, PrefixAt
<1>5. ASSUME NEW r \in Seq(Token), IsPrefix(r, p), IsPrefix(r, q)
      PROVE  IsPrefix(r, Meet(p, q))
  <2>1. Len(r) <= Len(p) /\ \A i \in 1 .. Len(r) : r[i] = p[i]
    BY <1>5, PrefixAt
  <2>2. Len(r) <= Len(q) /\ \A i \in 1 .. Len(r) : r[i] = q[i]
    BY <1>5, PrefixAt
  <2>3. Len(r) <= m
    <3>1. SUFFICES ASSUME m < Len(r) PROVE FALSE
      BY <1>1
    <3>2. m + 1 \in 1 .. Len(r)
      BY <1>1, <3>1
    <3> QED BY <1>1, <2>1, <2>2, <3>1, <3>2
  <2> QED BY <1>3, <1>5, <2>3, PrefixComparable
<1> QED BY <1>3, <1>4, <1>5 DEF m

\* Nothing else is.
LEMMA MeetUnique ==
  ASSUME NEW p \in Seq(Token), NEW q \in Seq(Token), NEW m \in Seq(Token), IsPrefix(m, p),
         IsPrefix(m, q), \A r \in Seq(Token) : IsPrefix(r, p) /\ IsPrefix(r, q) => Len(r) <= Len(m)
  PROVE Meet(p, q) = m
<1>1. IsPrefix(m, Meet(p, q)) /\ Meet(p, q) \in Seq(Token) /\ Len(Meet(p, q)) <= Len(m)
  BY MeetIs
<1> QED BY <1>1, PrefixLen

\* The meet of a prefix and its text is the prefix.
LEMMA MeetPrefix ==
  ASSUME NEW p \in Seq(Token), NEW q \in Seq(Token), IsPrefix(p, q)
  PROVE Meet(p, q) = p /\ Meet(q, p) = p
<1>1. Meet(p, q) = p
  BY MeetUnique, PrefixRefl, PrefixLen
<1>2. Meet(q, p) = p
  BY MeetUnique, PrefixRefl, PrefixLen
<1> QED BY <1>1, <1>2

\* The meet is symmetric.
LEMMA MeetCommutes ==
  ASSUME NEW p \in Seq(Token), NEW q \in Seq(Token)
  PROVE Meet(p, q) = Meet(q, p)
<1>1. \A r \in Seq(Token) : IsPrefix(r, p) /\ IsPrefix(r, q) => Len(r) <= Len(Meet(q, p))
  BY MeetIs, PrefixLen
<1> QED BY <1>1, MeetIs, MeetUnique

\* Cutting a text behind a meet leaves the meet.
LEMMA MeetShorter ==
  ASSUME NEW p \in Seq(Token), NEW q \in Seq(Token), NEW t \in Seq(Token), IsPrefix(p, q),
         Len(Meet(t, q)) <= Len(p)
  PROVE Meet(t, p) = Meet(t, q)
<1>1. /\ Meet(t, q) \in Seq(Token) /\ IsPrefix(Meet(t, q), t) /\ IsPrefix(Meet(t, q), q)
      /\ \A r \in Seq(Token) : IsPrefix(r, t) /\ IsPrefix(r, q) => IsPrefix(r, Meet(t, q))
  BY MeetIs
<1>2. IsPrefix(Meet(t, q), p)
  BY <1>1, PrefixComparable
<1>3. ASSUME NEW r \in Seq(Token), IsPrefix(r, t), IsPrefix(r, p)
      PROVE  Len(r) <= Len(Meet(t, q))
  BY <1>1, <1>3, PrefixTrans, PrefixLen
<1> QED BY <1>1, <1>2, <1>3, MeetUnique

-----------------------------------------------------------------------------
(* The trie                                                                  *)

\* A finite set has an element where f is greatest.
LEMMA GreatestIn ==
  ASSUME NEW S, IsFiniteSet(S), S # {}, NEW f, f \in [S -> Int]
  PROVE \E x \in S : \A y \in S : f[y] <= f[x]
<1> DEFINE Top(T) == \E x \in T : \A y \in T : f[y] <= f[x]
           B == {T \in SUBSET S : T # {} /\ ~Top(T)}
<1>1. SUFFICES ASSUME S \in B PROVE FALSE
  OBVIOUS
<1>2. PICK T \in B : \A U \in B : Cardinality(T) <= Cardinality(U)
  <2>1. B \in SUBSET (SUBSET S) OBVIOUS
  <2> HIDE DEF B
  <2> QED BY <1>1, <2>1, SmallestSubset
<1>3. T \in SUBSET S /\ T # {} /\ ~Top(T)
  BY <1>2
<1>4. PICK x \in T : TRUE
  BY <1>3
<1>5. T \ {x} \notin B
  <2>0. T \in SUBSET S /\ x \in T
    BY <1>3, <1>4
  <2>1. Cardinality(T \ {x}) < Cardinality(T)
    BY ONLY IsFiniteSet(S), <2>0, FS_Subset, FS_RemoveElement, FS_CardinalityType
  <2>2. Cardinality(T \ {x}) \in Nat /\ Cardinality(T) \in Nat
    BY <1>3, FS_Subset, FS_CardinalityType
  <2> HIDE DEF B
  <2> QED BY <1>2, <2>1, <2>2
<1>6. CASE T = {x}
  <2>1. f[x] \in Int
    BY <1>3, <1>4
  <2> QED BY <1>3, <1>6, <2>1
<1>7. CASE T # {x}
  <2>1. T \ {x} \in SUBSET S /\ T \ {x} # {}
    BY <1>3, <1>4, <1>7
  <2>2. PICK y \in T \ {x} : \A z \in T \ {x} : f[z] <= f[y]
    <3>1. Top(T \ {x})
      <4> HIDE DEF Top
      <4> QED BY <1>5, <2>1
    <3> QED BY <3>1
  <2>3. \A z \in T : f[z] \in Int
    BY <1>3
  <2>4. CASE f[x] <= f[y]
    BY <1>3, <2>2, <2>3, <2>4
  <2>5. CASE f[y] < f[x]
    <3>1. \A z \in T : f[z] <= f[x]
      BY <1>4, <2>2, <2>3, <2>5
    <3> QED BY <1>3, <3>1
  <2> QED BY <1>4, <2>2, <2>3, <2>4, <2>5
<1> QED BY <1>6, <1>7

\* Longest picks a longest text of a finite set.
LEMMA LongestIs ==
  ASSUME NEW S, S \in SUBSET Seq(Token), IsFiniteSet(S), S # {}
  PROVE Longest(S) \in S /\ \A q \in S : Len(q) <= Len(Longest(S))
<1> DEFINE f == [q \in S |-> Len(q)]
<1>1. f \in [S -> Int]
  OBVIOUS
<1>2. PICK x \in S : \A y \in S : f[y] <= f[x]
  <2> HIDE DEF f
  <2> QED BY <1>1, GreatestIn
<1>3. \A y \in S : Len(y) <= Len(x)
  BY <1>2
<1> QED BY <1>3 DEF Longest

Trie(N) == /\ N \in SUBSET Seq(Token) /\ IsFiniteSet(N) /\ Root \in N
           /\ \A p, q \in N : Meet(p, q) \in N

\* The parent of a node is its longest proper prefix in the trie.
LEMMA ParentIs ==
  ASSUME NEW C, Trie(C.nodes), NEW n \in C.nodes \ {Root}
  PROVE /\ Parent(C, n) \in C.nodes /\ IsPrefix(Parent(C, n), n) /\ Parent(C, n) # n
        /\ \A q \in C.nodes : IsPrefix(q, n) /\ q # n => IsPrefix(q, Parent(C, n))
<1> DEFINE S == Ancestors(C, n) \ {n}
<1>1. S \in SUBSET Seq(Token) /\ IsFiniteSet(S) /\ S # {}
  <2>1. S \in SUBSET C.nodes
    BY DEF Ancestors
  <2>2. Root \in S
    BY PrefixRoot DEF Ancestors, Trie
  <2> HIDE DEF S
  <2> QED BY <2>1, <2>2, FS_Subset DEF Trie
<1>2. Parent(C, n) = Longest(S)
  BY DEF Parent
<1>3. Parent(C, n) \in S /\ \A q \in S : Len(q) <= Len(Parent(C, n))
  <2> HIDE DEF S
  <2> QED BY <1>1, <1>2, LongestIs
<1>4. Parent(C, n) \in C.nodes /\ IsPrefix(Parent(C, n), n) /\ Parent(C, n) # n
  BY <1>3 DEF Ancestors
<1>5. ASSUME NEW q \in C.nodes, IsPrefix(q, n), q # n
      PROVE  IsPrefix(q, Parent(C, n))
  <2>1. Len(q) <= Len(Parent(C, n))
    BY <1>3, <1>5 DEF Ancestors
  <2> QED BY <1>4, <1>5, <2>1, PrefixComparable DEF Trie
<1> QED BY <1>4, <1>5

\* Towards any node above n there is a child of n.
LEMMA ChildAbove ==
  ASSUME NEW C, Trie(C.nodes), NEW n \in C.nodes, NEW p \in C.nodes, IsPrefix(n, p), n # p
  PROVE \E c \in Children(C, n) : IsPrefix(c, p)
<1> DEFINE X == {q \in C.nodes : IsPrefix(n, q) /\ q # n /\ IsPrefix(q, p)}
           L == {Len(q) : q \in X}
<1>1. X \in SUBSET Seq(Token) /\ p \in X
  BY PrefixRefl DEF Trie
<1>2. PICK c \in X : \A q \in X : Len(c) <= Len(q)
  <2>1. L \in SUBSET Nat /\ Len(p) \in L
    BY <1>1
  <2>2. PICK l \in L : \A k \in L : l <= k
    <3> HIDE DEF L
    <3> QED BY <2>1, LeastElement
  <2> QED BY <2>2
<1>3. c \in C.nodes /\ IsPrefix(n, c) /\ n # c /\ IsPrefix(c, p)
  BY <1>2
<1>4. C.nodes \in SUBSET Seq(Token)
  BY DEF Trie
<1>5. c # Root
  BY <1>3, <1>4, PrefixRoot, PrefixLen
<1> DEFINE r == Parent(C, c)
<1>6. r \in C.nodes /\ IsPrefix(r, c) /\ r # c /\ IsPrefix(n, r)
  BY <1>3, <1>5, ParentIs
<1> HIDE DEF r
<1>7. r = n
  <2>1. SUFFICES ASSUME r # n PROVE FALSE
    OBVIOUS
  <2>2. IsPrefix(r, p)
    BY <1>3, <1>4, <1>6, PrefixTrans
  <2>3. Len(c) <= Len(r)
    BY <1>2, <1>6, <2>1, <2>2
  <2> QED BY <1>3, <1>4, <1>6, <2>3, PrefixLen
<1> QED BY <1>3, <1>5, <1>7 DEF Children, IsStrictPrefix, r

\* A child is a longer node.
LEMMA ChildrenAre ==
  ASSUME NEW C, NEW n, NEW c \in Children(C, n)
  PROVE c \in C.nodes \ {Root} /\ IsPrefix(n, c) /\ c # n
BY DEF Children, IsStrictPrefix

\* A set of at most one element.
LEMMA AtMostOne ==
  ASSUME NEW S, IsFiniteSet(S), Cardinality(S) <= 1, NEW x \in S, NEW y \in S
  PROVE x = y
<1>1. SUFFICES ASSUME x # y PROVE FALSE
  OBVIOUS
<1>2. IsFiniteSet(S \ {x}) /\ Cardinality(S \ {x}) = Cardinality(S) - 1 /\ Cardinality(S) \in Nat
  BY FS_RemoveElement, FS_CardinalityType
<1>3. Cardinality(S \ {x}) \in Nat
  BY <1>2, FS_CardinalityType
<1>4. Cardinality(S \ {x}) = 0
  BY <1>2, <1>3
<1> QED BY <1>1, <1>2, <1>4, FS_EmptySet

\* A node with at most one child may go: the rest is a trie.
LEMMA RemoveNode ==
  ASSUME NEW C, Trie(C.nodes), NEW n \in C.nodes \ {Root}, Cardinality(Children(C, n)) <= 1
  PROVE Trie(C.nodes \ {n})
<1>1. C.nodes \in SUBSET Seq(Token) /\ IsFiniteSet(C.nodes)
  BY DEF Trie
<1>2. IsFiniteSet(Children(C, n))
  <2>1. Children(C, n) \in SUBSET C.nodes
    BY ChildrenAre
  <2> QED BY <1>1, <2>1, FS_Subset
<1>3. ASSUME NEW p \in C.nodes \ {n}, NEW q \in C.nodes \ {n}, Meet(p, q) = n
      PROVE  FALSE
  <2>1. /\ IsPrefix(n, p) /\ IsPrefix(n, q)
        /\ \A r \in Seq(Token) : IsPrefix(r, p) /\ IsPrefix(r, q) => IsPrefix(r, n)
    BY <1>1, <1>3, MeetIs
  <2>2. PICK c \in Children(C, n) : IsPrefix(c, p)
    BY <2>1, ChildAbove
  <2>3. PICK d \in Children(C, n) : IsPrefix(d, q)
    BY <2>1, ChildAbove
  <2>4. c = d
    BY <1>2, AtMostOne
  <2>5. c \in Seq(Token) /\ IsPrefix(n, c) /\ c # n
    BY <1>1, ChildrenAre
  <2>6. IsPrefix(c, n)
    BY <2>1, <2>2, <2>3, <2>4, <2>5
  <2> QED BY <1>1, <2>5, <2>6, PrefixLen
<1>4. IsFiniteSet(C.nodes \ {n})
  BY <1>1, FS_Subset
<1>5. \A p, q \in C.nodes \ {n} : Meet(p, q) \in C.nodes \ {n}
  BY <1>3 DEF Trie
<1> QED BY <1>1, <1>4, <1>5 DEF Trie

\* findBestMatch: Matched is the best that any path does, and some path does it.
LEMMA MatchedIs ==
  ASSUME NEW C, Trie(C.nodes), NEW w \in Seq(Token)
  PROVE /\ Matched(C, w) \in 0 .. Len(w)
        /\ \E p \in C.nodes : CommonLength(p, w) = Matched(C, w)
        /\ \A q \in C.nodes : CommonLength(q, w) <= Matched(C, w)
<1> DEFINE f == [p \in C.nodes |-> CommonLength(p, w)]
<1>1. C.nodes \in SUBSET Seq(Token) /\ IsFiniteSet(C.nodes) /\ C.nodes # {}
  BY DEF Trie
<1>2. \A p \in C.nodes : CommonLength(p, w) \in Nat /\ CommonLength(p, w) <= Len(w)
  BY <1>1, CommonLengthIs
<1>3. f \in [C.nodes -> Int]
  BY <1>2
<1>4. PICK x \in C.nodes : \A y \in C.nodes : f[y] <= f[x]
  <2> HIDE DEF f
  <2> QED BY <1>1, <1>3, GreatestIn
<1>5. \A y \in C.nodes : CommonLength(y, w) <= CommonLength(x, w)
  BY <1>4
<1> DEFINE S == {CommonLength(p, w) : p \in C.nodes}
<1>6. CommonLength(x, w) \in S /\ \A y \in S : CommonLength(x, w) >= y
  BY <1>2, <1>5
<1>7. Matched(C, w) = Max(S)
  BY DEF Matched
<1>8. Max(S) \in S /\ \A y \in S : Max(S) >= y
  <2> HIDE DEF S
  <2> QED BY <1>6 DEF Max
<1>9. PICK p \in C.nodes : Max(S) = CommonLength(p, w)
  BY <1>8
<1>10. \A q \in C.nodes : CommonLength(q, w) <= Max(S)
  BY <1>8
<1> HIDE DEF S
<1> QED BY <1>2, <1>7, <1>9, <1>10

\* findBestMatch: the last node of the path holds all that was matched.
LEMMA MatchEndIs ==
  ASSUME NEW C, Trie(C.nodes), NEW w \in Seq(Token)
  PROVE /\ MatchEnd(C, w) \in C.nodes /\ IsPrefix(SubSeq(w, 1, Matched(C, w)), MatchEnd(C, w))
<1> DEFINE m == SubSeq(w, 1, Matched(C, w))
           over == {p \in C.nodes : IsPrefix(m, p)}
           L == {Len(q) : q \in over}
<1>1. C.nodes \in SUBSET Seq(Token)
  BY DEF Trie
<1>2. PICK p \in C.nodes : CommonLength(p, w) = Matched(C, w)
  BY MatchedIs
<1>3. p \in over
  <2>1. Meet(w, p) = Meet(p, w)
    BY <1>1, MeetCommutes
  <2>2. CommonLength(w, p) = CommonLength(p, w)
    BY <1>1, <2>1, MeetIs
  <2>3. m = Meet(w, p)
    BY <1>2, <2>2 DEF Meet
  <2> QED BY <1>1, <2>3, MeetIs
<1>4. PICK q \in over : \A r \in over : Len(q) <= Len(r)
  <2>1. L \in SUBSET Nat /\ Len(p) \in L
    BY <1>1, <1>3
  <2>2. PICK l \in L : \A k \in L : l <= k
    <3> HIDE DEF L
    <3> QED BY <2>1, LeastElement
  <2> QED BY <2>2
<1>5. MatchEnd(C, w) \in over
  <2>1. MatchEnd(C, w) = CHOOSE r \in over : \A s \in over : Len(r) <= Len(s)
    BY DEF MatchEnd
  <2> HIDE DEF over
  <2> QED BY <1>4, <2>1
<1> QED BY <1>5

\* The meet with w is the meet with what of w the trie matches.
LEMMA MeetSub ==
  ASSUME NEW w \in Seq(Token), NEW q \in Seq(Token), NEW m \in 0 .. Len(w), CommonLength(q, w) <= m
  PROVE Meet(q, SubSeq(w, 1, m)) = Meet(q, w)
<1>1. SubSeq(w, 1, m) \in Seq(Token) /\ Len(SubSeq(w, 1, m)) = m /\ IsPrefix(SubSeq(w, 1, m), w)
  BY PrefixSub
<1>2. Len(Meet(q, w)) <= m
  BY MeetIs
<1> QED BY <1>1, <1>2, MeetShorter

\* A text whose meets with the nodes are nodes may be added.
LEMMA AddNode ==
  ASSUME NEW N, Trie(N), NEW w \in Seq(Token), \A q \in N : Meet(q, w) \in N \cup {w}
  PROVE Trie(N \cup {w})
<1>1. IsFiniteSet(N \cup {w})
  BY FS_AddElement DEF Trie
<1>2. \A q \in N : Meet(w, q) \in N \cup {w}
  BY MeetCommutes DEF Trie
<1>3. Meet(w, w) = w
  BY MeetPrefix, PrefixRefl
<1> QED BY <1>1, <1>2, <1>3 DEF Trie

\* splitNode at the matched length leaves a trie.
LEMMA SplitKeeps ==
  ASSUME NEW C, Trie(C.nodes), NEW w \in Seq(Token)
  PROVE Trie(C.nodes \cup {SubSeq(w, 1, Matched(C, w))})
<1> DEFINE m == SubSeq(w, 1, Matched(C, w))
           n == MatchEnd(C, w)
<1>1. m \in Seq(Token) /\ n \in C.nodes /\ n \in Seq(Token) /\ IsPrefix(m, n)
  <2>1. Matched(C, w) \in 0 .. Len(w) BY MatchedIs
  <2> QED BY <2>1, MatchEndIs, PrefixSub DEF Trie
<1> HIDE DEF m, n
<1>2. ASSUME NEW q \in C.nodes
      PROVE  Meet(q, m) \in C.nodes \cup {m}
  <2>1. q \in Seq(Token) /\ Meet(q, n) \in C.nodes
    BY <1>1 DEF Trie
  <2>2. CASE Len(Meet(q, n)) <= Len(m)
    BY <1>1, <2>1, <2>2, MeetShorter
  <2>3. CASE Len(m) < Len(Meet(q, n))
    <3>1. IsPrefix(m, Meet(q, n))
      BY <1>1, <2>1, <2>3, MeetIs, PrefixComparable
    <3>2. IsPrefix(m, q)
      BY <1>1, <2>1, <3>1, MeetIs, PrefixTrans
    <3> QED BY <1>1, <2>1, <3>2, MeetPrefix
  <2>4. Meet(q, n) \in Seq(Token)
    BY <1>1, <2>1, MeetIs
  <2> QED BY <1>1, <2>2, <2>3, <2>4
<1> QED BY <1>1, <1>2, AddNode DEF m

\* appendTokens below the matched node leaves a trie.
LEMMA AppendKeeps ==
  ASSUME NEW C, Trie(C.nodes), NEW w \in Seq(Token), SubSeq(w, 1, Matched(C, w)) \in C.nodes
  PROVE Trie(C.nodes \cup {w})
<1>1. ASSUME NEW q \in C.nodes PROVE Meet(q, w) \in C.nodes
  <2>1. Matched(C, w) \in 0 .. Len(w) /\ CommonLength(q, w) <= Matched(C, w) /\ q \in Seq(Token)
    BY MatchedIs DEF Trie
  <2>2. Meet(q, SubSeq(w, 1, Matched(C, w))) = Meet(q, w)
    BY <2>1, MeetSub
  <2> QED BY <2>2 DEF Trie
<1> QED BY <1>1, AddNode

\* appendTokens that extends a leaf leaves a trie.
LEMMA ExtendKeeps ==
  ASSUME NEW C, Trie(C.nodes), NEW w \in Seq(Token), NEW m \in C.nodes \ {Root},
         m = SubSeq(w, 1, Matched(C, w)), Children(C, m) = {}
  PROVE Trie((C.nodes \ {m}) \cup {w})
<1>1. Trie(C.nodes \ {m})
  <2>1. Cardinality(Children(C, m)) <= 1
    <3>1. Cardinality({}) = 0
      BY FS_EmptySet
    <3>2. Cardinality(Children(C, m)) = 0
      BY <3>1, Zenon
    <3> QED BY <3>2
  <2> QED BY <2>1, RemoveNode
<1>2. ASSUME NEW q \in C.nodes \ {m} PROVE Meet(q, w) \in C.nodes \ {m}
  <2>1. Matched(C, w) \in 0 .. Len(w) /\ CommonLength(q, w) <= Matched(C, w) /\ q \in Seq(Token) /\ m \in Seq(Token)
    BY MatchedIs DEF Trie
  <2>2. Meet(q, m) = Meet(q, w)
    BY <2>1, MeetSub
  <2>3. Meet(q, m) # m
    <3>1. SUFFICES ASSUME Meet(q, m) = m PROVE FALSE
      OBVIOUS
    <3>2. IsPrefix(m, q)
      BY <2>1, <3>1, MeetIs
    <3> QED BY <3>2, ChildAbove
  <2> QED BY <2>2, <2>3 DEF Trie
<1> QED BY <1>1, <1>2, AddNode

-----------------------------------------------------------------------------
(* Maps                                                                      *)

Maps(K, V) == UNION {[D -> V] : D \in SUBSET K}

\* A partial function of K to V, by its domain and values.
LEMMA MapsAre ==
  ASSUME NEW K, NEW V, NEW f
  PROVE f \in Maps(K, V) <=> /\ f = [x \in DOMAIN f |-> f[x]] /\ DOMAIN f \in SUBSET K
                             /\ \A x \in DOMAIN f : f[x] \in V
BY DEF Maps

\* The map with no keys is the empty one.
LEMMA NoMap ==
  ASSUME NEW f, f = [x \in DOMAIN f |-> f[x]]
  PROVE f = <<>> <=> DOMAIN f = {}
<1>1. DOMAIN <<>> = {} /\ <<>> = [x \in {} |-> <<>>[x]]
  BY SMTT(30)
<1> QED BY <1>1

\* g is f with v at k, or without k if v is None.
IsWith(g, f, k, v) ==
  /\ DOMAIN g = (DOMAIN f \ {k}) \cup (IF v = None THEN {} ELSE {k})
  /\ \A x \in DOMAIN g : g[x] = IF x = k THEN v ELSE f[x]

\* What With does to a map.
LEMMA WithIs ==
  ASSUME NEW K, NEW V, NEW f \in Maps(K, V), NEW k, NEW v \in V \cup {None}, k \in K \/ v = None
  PROVE With(f, k, v) \in Maps(K, V) /\ IsWith(With(f, k, v), f, k, v)
<1> USE DEF IsWith
<1>1. f = [x \in DOMAIN f |-> f[x]] /\ DOMAIN f \in SUBSET K /\ \A x \in DOMAIN f : f[x] \in V
  BY MapsAre
<1>2. CASE v = None
  <2> DEFINE g == [x \in DOMAIN f \ {k} |-> f[x]]
  <2>1. With(f, k, v) = g
    BY <1>2 DEF With, Without, Restrict
  <2>2. g \in Maps(K, V)
    BY <1>1, MapsAre
  <2> QED BY <1>2, <2>1, <2>2
<1>3. CASE v # None
  <2> DEFINE g == [x \in DOMAIN f \cup {k} |-> IF x = k THEN v ELSE f[x]]
  <2>1. With(f, k, v) = g
    BY <1>3 DEF With
  <2>2. g \in Maps(K, V)
    BY <1>1, <1>3, MapsAre
  <2> QED BY <1>3, <2>1, <2>2
<1> QED BY <1>2, <1>3

Kinds == {"kv", "rot", "rnn"}

\* What the assumptions say of the constants, one by one.
LEMMA ConstantsAre ==
  /\ Layers \in SUBSET Kinds /\ Layers # {} /\ IsFiniteSet(Layers)
  /\ Window \in Nat /\ Window > 0 /\ RotStep \in Nat /\ RotStep > 0
  /\ PrefillChunk \in Nat /\ PrefillChunk > 0 /\ PreThinking \in Nat /\ MaxPagedOut \in Nat
  /\ Lazy \notin Seq(Content) /\ None \notin Nat /\ None \notin SnapshotSet
<1>1. LayerSeq \in Seq(Kinds) /\ LayerSeq # <<>>
  BY PrefixAssumption DEF PrefixAssumption, Kinds
<1>2. Len(LayerSeq) \in Nat /\ Len(LayerSeq) # 0 /\ DOMAIN LayerSeq = 1 .. Len(LayerSeq)
      /\ \A i \in 1 .. Len(LayerSeq) : LayerSeq[i] \in Kinds
  BY <1>1, EmptySeq, ElementOfSeq
<1>3. Layers \in SUBSET Kinds /\ Layers # {}
  BY <1>2 DEF Layers, ToSet
<1>4. IsFiniteSet(Layers)
  <2>1. IsFiniteSet(Kinds)
    <3>1. IsFiniteSet({"kv"}) BY FS_Singleton
    <3>2. IsFiniteSet({"kv"} \cup {"rot"}) BY <3>1, FS_AddElement
    <3>3. IsFiniteSet(({"kv"} \cup {"rot"}) \cup {"rnn"}) BY <3>2, FS_AddElement
    <3>4. ({"kv"} \cup {"rot"}) \cup {"rnn"} = Kinds BY DEF Kinds
    <3> QED BY <3>3, <3>4
  <2> QED BY <2>1, <1>3, FS_Subset
<1> QED BY <1>3, <1>4, PrefixAssumption DEF PrefixAssumption

-----------------------------------------------------------------------------
(* A layer whose snapshots can be restored                                   *)

Nodes == Seq(Token) \ {Root}

LayerType ==
  [off : Nat, buf : Seq(Content), idx : Nat, rewound : BOOLEAN,
   snap : Maps(Nodes, SnapshotSet), due : SUBSET Nat, base : Nat,
   taken : Maps(Nat, SnapshotSet), bytes : Int, spoiled : BOOLEAN]

\* A window of length slots after off tokens, and its write position.
RotFits(off, length, idx) ==
  IF off <= Window THEN idx = off /\ off <= length /\ length <= Window
  ELSE idx <= length /\ Window <= length /\ length <= off /\ (length > Window => idx = length)

Shape(k, L) ==
  /\ k = "kv" => L.off <= Len(L.buf)
  /\ k = "rot" => RotFits(L.off, Len(L.buf), L.idx)
  /\ k = "rnn" => (L.off > 0 => L.buf # <<>>)

\* A snapshot whose slots exist, and which leaves a layer in shape if it is restored.
SnapFits(k, slots, s) ==
  /\ k = "kv" => (IsLazy(s) => s.lo = s.from /\ s.from <= s.to /\ s.to <= slots)
  /\ k = "rot" =>
       IF IsLazy(s)
       THEN s.from <= s.to /\ s.lo + (s.to - s.from) <= slots /\ RotFits(s.to, s.to - s.from, s.idx)
       ELSE RotFits(s.to, Len(s.data), s.idx)
  /\ k = "rnn" => ~IsLazy(s) /\ s.data # <<>>

Fits(k, L) ==
  /\ L \in LayerType /\ IsFiniteSet(DOMAIN L.snap) /\ Shape(k, L)
  /\ \A n \in DOMAIN L.snap : SnapFits(k, Len(L.buf), L.snap[n])

TakenFits(k, L) ==
  \A o \in DOMAIN L.taken : SnapFits(k, Len(L.buf), L.taken[o]) /\ L.taken[o].to = o

BytesOf(snap) == SumFunction([n \in DOMAIN snap |-> Size(snap[n])])

LayerOK(k, L) == Fits(k, L) /\ L.bytes = BytesOf(L.snap)

\* The fields of a layer.
LEMMA LayerIs ==
  ASSUME NEW L \in LayerType
  PROVE /\ L.off \in Nat /\ L.buf \in Seq(Content) /\ L.idx \in Nat /\ L.rewound \in BOOLEAN
        /\ L.snap \in Maps(Nodes, SnapshotSet) /\ L.due \in SUBSET Nat /\ L.base \in Nat
        /\ L.taken \in Maps(Nat, SnapshotSet) /\ L.bytes \in Int /\ L.spoiled \in BOOLEAN
        /\ DOMAIN L.snap \in SUBSET Nodes /\ DOMAIN L.taken \in SUBSET Nat
        /\ \A n \in DOMAIN L.snap : L.snap[n] \in SnapshotSet
        /\ \A o \in DOMAIN L.taken : L.taken[o] \in SnapshotSet
        /\ Len(L.buf) \in Nat
<1>1. /\ L.off \in Nat /\ L.buf \in Seq(Content) /\ L.idx \in Nat /\ L.rewound \in BOOLEAN
      /\ L.snap \in Maps(Nodes, SnapshotSet) /\ L.due \in SUBSET Nat /\ L.base \in Nat
      /\ L.taken \in Maps(Nat, SnapshotSet) /\ L.bytes \in Int /\ L.spoiled \in BOOLEAN
  BY DEF LayerType
<1> QED BY <1>1, MapsAre

\* The fields of a snapshot.
LEMMA SnapshotIs ==
  ASSUME NEW s \in SnapshotSet
  PROVE /\ s.from \in Nat /\ s.to \in Nat /\ s.lo \in Nat /\ s.idx \in Nat /\ s # None
        /\ s.data \in Seq(Content) \cup {Lazy} /\ (IsLazy(s) <=> s.data = Lazy)
        /\ ~IsLazy(s) => s.data \in Seq(Content) /\ Len(s.data) \in Nat
<1>1. /\ s.from \in Nat /\ s.to \in Nat /\ s.lo \in Nat /\ s.idx \in Nat
      /\ s.data \in Seq(Content) \cup {Lazy}
  BY DEF SnapshotSet
<1> QED BY <1>1, ConstantsAre DEF IsLazy

\* A snapshot owns a number of bytes, none while it is lazy.
LEMMA SizeIs ==
  ASSUME NEW s \in SnapshotSet \cup {None}
  PROVE /\ Size(s) \in Nat
        /\ s \in SnapshotSet => Size(s) = IF IsLazy(s) THEN 0 ELSE Len(s.data)
        /\ Size(None) = 0
BY SnapshotIs, ConstantsAre DEF Size, IsLazy

\* The data of a snapshot that fits has a slot for each place.
LEMMA DataIs ==
  ASSUME NEW k, k \in {"kv", "rot"}, NEW L \in LayerType, NEW s \in SnapshotSet,
         SnapFits(k, Len(L.buf), s)
  PROVE /\ Data(L, s) \in Seq(Content)
        /\ Len(Data(L, s)) = IF IsLazy(s) THEN s.to - s.from ELSE Len(s.data)
        /\ Len(Data(L, s)) \in Nat
        /\ IsLazy(s) => s.from <= s.to
<1>1. CASE ~IsLazy(s)
  BY <1>1, SnapshotIs DEF Data
<1>2. CASE IsLazy(s)
  <2>1. /\ s.from <= s.to /\ s.lo + (s.to - s.from) <= Len(L.buf)
        /\ s.from \in Nat /\ s.to \in Nat /\ s.lo \in Nat /\ L.buf \in Seq(Content)
    BY <1>2, SnapshotIs, LayerIs DEF SnapFits
  <2> DEFINE m == s.lo + 1
             e == s.lo + s.to - s.from
             b == L.buf
  <2>2. Data(L, s) = SubSeq(b, m, e)
    BY <1>2 DEF Data
  <2>3. m \in Int /\ e \in Int /\ b \in Seq(Content) /\ \A i \in m .. e : b[i] \in Content
    BY <2>1
  <2>4. SubSeq(b, m, e) \in Seq(Content) /\ Len(SubSeq(b, m, e)) = IF m <= e THEN e - m + 1 ELSE 0
    <3> HIDE DEF m, e, b
    <3> QED BY <2>3, SubSeqProperties
  <2>5. (IF m <= e THEN e - m + 1 ELSE 0) = s.to - s.from /\ s.to - s.from \in Nat
    BY <2>1
  <2> HIDE DEF m, e, b
  <2> QED BY <1>2, <2>1, <2>2, <2>4, <2>5
<1> QED BY <1>1, <1>2

\* A snapshot that was copied out owns its data and still fits.
LEMMA CopiedOutIs ==
  ASSUME NEW k, k \in {"kv", "rot"}, NEW L \in LayerType, NEW s \in SnapshotSet,
         SnapFits(k, Len(L.buf), s)
  PROVE LET c == CopiedOut(L, s)
        IN /\ c \in SnapshotSet /\ ~IsLazy(c) /\ c.from = s.from /\ c.to = s.to /\ c.idx = s.idx
           /\ c.data = Data(L, s) /\ \A slots \in Nat : SnapFits(k, slots, c)
<1> DEFINE c == CopiedOut(L, s)
<1>1. CASE ~IsLazy(s)
  <2>1. c = s /\ Data(L, s) = s.data
    BY <1>1 DEF CopiedOut, Data
  <2> QED BY <1>1, <2>1 DEF SnapFits
<1>2. CASE IsLazy(s)
  <2>1. c = [s EXCEPT !.data = Data(L, s), !.lo = 0]
    BY <1>2 DEF CopiedOut
  <2>2. Data(L, s) \in Seq(Content) /\ Len(Data(L, s)) = s.to - s.from
    BY <1>2, DataIs
  <2> HIDE DEF c
  <2>3. c \in SnapshotSet /\ c.from = s.from /\ c.to = s.to /\ c.idx = s.idx /\ c.data = Data(L, s)
    BY <2>1, <2>2 DEF SnapshotSet
  <2>4. ~IsLazy(c)
    BY <2>2, <2>3, ConstantsAre DEF IsLazy
  <2>5. k = "rot" => RotFits(s.to, s.to - s.from, s.idx)
    BY <1>2 DEF SnapFits
  <2>6. \A slots \in Nat : SnapFits(k, slots, c)
    BY <2>2, <2>3, <2>4, <2>5 DEF SnapFits
  <2> QED BY <2>3, <2>4, <2>6 DEF c
<1> QED BY <1>1, <1>2

-----------------------------------------------------------------------------
(* Replacing and copying out snapshots                                       *)

\* The bytes of the snapshots of a layer are those of one and of the others.
LEMMA BytesSplit ==
  ASSUME NEW snap \in Maps(Nodes, SnapshotSet), IsFiniteSet(DOMAIN snap), NEW n
  PROVE /\ BytesOf(snap) \in Int
        /\ BytesOf(snap) = Size(At(snap, n)) + SumFunction([x \in DOMAIN snap \ {n} |-> Size(snap[x])])
        /\ SumFunction([x \in DOMAIN snap \ {n} |-> Size(snap[x])]) \in Int
<1> DEFINE D == DOMAIN snap
           f == [x \in D |-> Size(snap[x])]
           e == [x \in D \ {n} |-> Size(snap[x])]
<1>1. \A x \in D : snap[x] \in SnapshotSet /\ Size(snap[x]) \in Int
  BY MapsAre, SizeIs
<1>2. f \in [D -> Int] /\ e \in [D \ {n} -> Int] /\ IsFiniteSet(D) /\ IsFiniteSet(D \ {n})
  BY <1>1, FS_Subset
<1>3. BytesOf(snap) = SumFunction(f)
  BY DEF BytesOf
<1>4. SumFunction(f) \in Int /\ SumFunction(e) \in Int
  <2> HIDE DEF f, e, D
  <2> QED BY <1>2, SumInt
<1>5. CASE n \in D
  <2>1. \A y \in D \ {n} : e[y] = f[y]
    OBVIOUS
  <2>2. SumFunction(f) = f[n] + SumFunction(e)
    <3> HIDE DEF f, e, D
    <3> QED BY <1>2, <1>5, <2>1, SumSplit
  <2>3. f[n] = Size(At(snap, n))
    BY <1>5 DEF At
  <2> QED BY <1>3, <1>4, <2>2, <2>3
<1>6. CASE n \notin D
  <2>1. D \ {n} = D
    BY <1>6
  <2>2. e = f
    BY <2>1
  <2>3. Size(At(snap, n)) = 0
    BY <1>6, SizeIs DEF At
  <2> QED BY <1>3, <1>4, <2>2, <2>3
<1> QED BY <1>5, <1>6

\* A snapshot that fits a buffer fits a longer one.
LEMMA SnapFitsWith ==
  ASSUME NEW k, NEW a \in Nat, NEW b \in Nat, NEW s \in SnapshotSet, SnapFits(k, a, s),
         a <= b \/ ~IsLazy(s)
  PROVE SnapFits(k, b, s)
BY SnapshotIs DEF SnapFits

Roomy(L, R) == Len(L.buf) <= Len(R.buf) \/ LazySnapshots(L) = {}

\* A layer whose buffer does not shrink below a lazy snapshot keeps its invariant.
LEMMA Reshaped ==
  ASSUME NEW k, NEW L, LayerOK(k, L), NEW R \in LayerType, R.snap = L.snap, R.bytes = L.bytes,
         R.taken = L.taken, Shape(k, R), Roomy(L, R)
  PROVE LayerOK(k, R) /\ (TakenFits(k, L) => TakenFits(k, R))
<1> USE DEF Roomy
<1>1. L \in LayerType
  BY DEF LayerOK, Fits
<1>2. Len(L.buf) \in Nat /\ Len(R.buf) \in Nat
  BY <1>1, LayerIs
<1>3. ASSUME NEW n \in DOMAIN L.snap
      PROVE  SnapFits(k, Len(R.buf), L.snap[n])
  <2>1. L.snap[n] \in SnapshotSet /\ SnapFits(k, Len(L.buf), L.snap[n])
    BY <1>1, LayerIs DEF LayerOK, Fits
  <2>2. LazySnapshots(L) = {} => ~IsLazy(L.snap[n])
    BY DEF LazySnapshots, Range
  <2> QED BY <1>2, <2>1, <2>2, SnapFitsWith
<1>4. ASSUME NEW o \in DOMAIN L.taken, TakenFits(k, L)
      PROVE  SnapFits(k, Len(R.buf), L.taken[o]) /\ L.taken[o].to = o
  <2>1. L.taken[o] \in SnapshotSet /\ SnapFits(k, Len(L.buf), L.taken[o]) /\ L.taken[o].to = o
    BY <1>1, <1>4, LayerIs DEF TakenFits
  <2>2. LazySnapshots(L) = {} => ~IsLazy(L.taken[o])
    BY DEF LazySnapshots, Range
  <2> QED BY <1>2, <2>1, <2>2, SnapFitsWith
<1>5. Fits(k, R)
  BY <1>3 DEF LayerOK, Fits
<1> QED BY <1>4, <1>5 DEF LayerOK, TakenFits

\* What SetSnapshot changes.
LEMMA SetSnapshotIs ==
  ASSUME NEW L \in LayerType, NEW n, NEW s \in SnapshotSet \cup {None}, n \in Nodes \/ s = None
  PROVE LET R == SetSnapshot(L, n, s)
        IN /\ R \in LayerType
           /\ R.snap = With(L.snap, n, s) /\ R.bytes = L.bytes - Size(At(L.snap, n)) + Size(s)
           /\ R.off = L.off /\ R.buf = L.buf /\ R.idx = L.idx /\ R.rewound = L.rewound
           /\ R.due = L.due /\ R.base = L.base /\ R.taken = L.taken /\ R.spoiled = L.spoiled
<1> DEFINE R == SetSnapshot(L, n, s)
<1>1. R = [L EXCEPT !.snap = With(@, n, s), !.bytes = @ - Size(At(L.snap, n)) + Size(s)]
  BY DEF SetSnapshot
<1>2. With(L.snap, n, s) \in Maps(Nodes, SnapshotSet)
  BY LayerIs, WithIs
<1>3. L.bytes - Size(At(L.snap, n)) + Size(s) \in Int
  <2>1. At(L.snap, n) \in SnapshotSet \cup {None}
    BY LayerIs DEF At
  <2> QED BY <2>1, SizeIs, LayerIs
<1> HIDE DEF R
<1> QED BY <1>1, <1>2, <1>3 DEF LayerType, R

\* setSnapshot keeps pagedOutBytes exact.
LEMMA SetSnapshotOK ==
  ASSUME NEW k, NEW L, LayerOK(k, L), NEW n, NEW s \in SnapshotSet \cup {None},
         n \in Nodes \/ s = None, s # None => SnapFits(k, Len(L.buf), s)
  PROVE LET R == SetSnapshot(L, n, s)
        IN /\ LayerOK(k, R) /\ (TakenFits(k, L) => TakenFits(k, R))
           /\ DOMAIN R.snap = (DOMAIN L.snap \ {n}) \cup (IF s = None THEN {} ELSE {n})
           /\ \A x \in DOMAIN R.snap : R.snap[x] = IF x = n THEN s ELSE L.snap[x]
           /\ R.off = L.off /\ R.buf = L.buf /\ R.idx = L.idx /\ R.rewound = L.rewound
           /\ R.due = L.due /\ R.base = L.base /\ R.taken = L.taken /\ R.spoiled = L.spoiled
<1> DEFINE R == SetSnapshot(L, n, s)
<1>0. L \in LayerType
  BY DEF LayerOK, Fits
<1>1. /\ R \in LayerType
      /\ R.snap = With(L.snap, n, s) /\ R.bytes = L.bytes - Size(At(L.snap, n)) + Size(s)
      /\ R.off = L.off /\ R.buf = L.buf /\ R.idx = L.idx /\ R.rewound = L.rewound
      /\ R.due = L.due /\ R.base = L.base /\ R.taken = L.taken /\ R.spoiled = L.spoiled
  BY <1>0, SetSnapshotIs
<1> HIDE DEF R
<1>2. /\ R.snap \in Maps(Nodes, SnapshotSet)
      /\ DOMAIN R.snap = (DOMAIN L.snap \ {n}) \cup (IF s = None THEN {} ELSE {n})
      /\ \A x \in DOMAIN R.snap : R.snap[x] = IF x = n THEN s ELSE L.snap[x]
  <2>1. L.snap \in Maps(Nodes, SnapshotSet)
    BY <1>0, LayerIs
  <2>2. R.snap \in Maps(Nodes, SnapshotSet) /\ IsWith(R.snap, L.snap, n, s)
    BY <1>1, <2>1, WithIs
  <2> QED BY <2>2 DEF IsWith
<1>3. IsFiniteSet(DOMAIN L.snap) /\ IsFiniteSet(DOMAIN R.snap)
  <2>1. IsFiniteSet(DOMAIN L.snap)
    BY DEF LayerOK, Fits
  <2>2. IsFiniteSet(DOMAIN L.snap \ {n}) /\ IsFiniteSet((DOMAIN L.snap \ {n}) \cup {n})
    BY <2>1, FS_Subset, FS_AddElement
  <2>3. DOMAIN R.snap = DOMAIN L.snap \ {n} \/ DOMAIN R.snap = (DOMAIN L.snap \ {n}) \cup {n}
    BY <1>2
  <2> QED BY <2>1, <2>2, <2>3
<1>4. \A x \in DOMAIN R.snap : SnapFits(k, Len(R.buf), R.snap[x])
  BY <1>1, <1>2 DEF LayerOK, Fits
<1>5. Shape(k, R)
  BY <1>1 DEF LayerOK, Fits, Shape
<1>6. R.bytes = BytesOf(R.snap)
  <2> DEFINE e == [x \in DOMAIN L.snap \ {n} |-> Size(L.snap[x])]
             g == [x \in DOMAIN R.snap \ {n} |-> Size(R.snap[x])]
  <2>1. BytesOf(L.snap) = Size(At(L.snap, n)) + SumFunction(e) /\ SumFunction(e) \in Int
    BY <1>0, <1>3, LayerIs, BytesSplit
  <2>2. BytesOf(R.snap) = Size(At(R.snap, n)) + SumFunction(g)
    BY <1>2, <1>3, BytesSplit
  <2>3. e = g
    BY <1>2
  <2>4. At(R.snap, n) = s
    BY <1>2 DEF At
  <2>5. At(L.snap, n) \in SnapshotSet \cup {None}
    BY <1>0, LayerIs DEF At
  <2>6. L.bytes = BytesOf(L.snap)
    BY DEF LayerOK
  <2>7. Size(At(L.snap, n)) \in Nat /\ Size(s) \in Nat
    BY <2>5, SizeIs
  <2> HIDE DEF e, g
  <2> QED BY <1>1, <2>1, <2>2, <2>3, <2>4, <2>6, <2>7
<1>7. TakenFits(k, L) => TakenFits(k, R)
  BY <1>1 DEF TakenFits
<1> QED BY <1>1, <1>2, <1>3, <1>4, <1>5, <1>6, <1>7 DEF LayerOK, Fits, R

\* The hook that a copy-out runs adds exactly the bytes it copies.
LEMMA CopyOutIs ==
  ASSUME NEW k \in Kinds, NEW L, LayerOK(k, L), TakenFits(k, L), NEW S \in SUBSET LazySnapshots(L)
  PROVE LET R == CopyOut(L, S)
        IN /\ LayerOK(k, R) /\ TakenFits(k, R)
           /\ DOMAIN R.snap = DOMAIN L.snap /\ DOMAIN R.taken = DOMAIN L.taken
           /\ \A n \in DOMAIN L.snap : R.snap[n] = IF L.snap[n] \in S THEN CopiedOut(L, L.snap[n]) ELSE L.snap[n]
           /\ \A o \in DOMAIN L.taken : R.taken[o] = IF L.taken[o] \in S THEN CopiedOut(L, L.taken[o]) ELSE L.taken[o]
           /\ R.off = L.off /\ R.buf = L.buf /\ R.idx = L.idx /\ R.rewound = L.rewound
           /\ R.due = L.due /\ R.base = L.base /\ R.spoiled = L.spoiled
           /\ LazySnapshots(R) \in SUBSET (LazySnapshots(L) \ S)
<1>0. L \in LayerType
  BY DEF LayerOK, Fits
<1> DEFINE nodes == {n \in DOMAIN L.snap : L.snap[n] \in S}
           snap == [n \in DOMAIN L.snap |-> IF L.snap[n] \in S THEN CopiedOut(L, L.snap[n]) ELSE L.snap[n]]
           taken == [o \in DOMAIN L.taken |-> IF L.taken[o] \in S THEN CopiedOut(L, L.taken[o]) ELSE L.taken[o]]
           grown == [n \in nodes |-> Len(Data(L, L.snap[n]))]
           R == CopyOut(L, S)
<1>1. R = [L EXCEPT !.snap = snap, !.taken = taken, !.bytes = L.bytes + SumFunction(grown)]
  BY DEF CopyOut
<1>2. ASSUME NEW n \in DOMAIN L.snap
      PROVE  /\ L.snap[n] \in SnapshotSet /\ SnapFits(k, Len(L.buf), L.snap[n])
             /\ snap[n] = IF L.snap[n] \in S THEN CopiedOut(L, L.snap[n]) ELSE L.snap[n]
             /\ snap[n] \in SnapshotSet /\ SnapFits(k, Len(L.buf), snap[n])
             /\ IsLazy(snap[n]) => L.snap[n] \notin S
             /\ L.snap[n] \in S => /\ Len(Data(L, L.snap[n])) \in Nat
                                   /\ Size(snap[n]) = Size(L.snap[n]) + Len(Data(L, L.snap[n]))
             /\ L.snap[n] \notin S => Size(snap[n]) = Size(L.snap[n])
             /\ Size(L.snap[n]) \in Nat /\ Size(snap[n]) \in Nat
  <2>1. L.snap[n] \in SnapshotSet /\ SnapFits(k, Len(L.buf), L.snap[n]) /\ Len(L.buf) \in Nat
    BY <1>0, LayerIs DEF LayerOK, Fits
  <2>2. L.snap[n] \in S => IsLazy(L.snap[n]) /\ k \in {"kv", "rot"}
    <3>1. L.snap[n] \in S => IsLazy(L.snap[n])
      BY DEF LazySnapshots
    <3>2. k \in {"kv", "rot"} \/ ~IsLazy(L.snap[n])
      BY <2>1 DEF SnapFits, Kinds
    <3> QED BY <3>1, <3>2
  <2>3. CASE L.snap[n] \in S
    <3>1. /\ CopiedOut(L, L.snap[n]) \in SnapshotSet /\ ~IsLazy(CopiedOut(L, L.snap[n]))
          /\ CopiedOut(L, L.snap[n]).data = Data(L, L.snap[n])
          /\ SnapFits(k, Len(L.buf), CopiedOut(L, L.snap[n]))
      BY <1>0, <2>1, <2>2, <2>3, CopiedOutIs
    <3>2. Len(Data(L, L.snap[n])) \in Nat
      BY <1>0, <2>1, <2>2, <2>3, DataIs
    <3>3. snap[n] = CopiedOut(L, L.snap[n])
      BY <2>3
    <3> HIDE DEF snap
    <3>4. Size(snap[n]) = Len(Data(L, L.snap[n])) /\ Size(L.snap[n]) = 0
      BY <2>1, <2>2, <2>3, <3>1, <3>3, SizeIs
    <3> QED BY <2>1, <2>3, <3>1, <3>2, <3>3, <3>4
  <2>4. CASE L.snap[n] \notin S
    <3>1. snap[n] = L.snap[n]
      BY <2>4
    <3> HIDE DEF snap
    <3> QED BY <2>1, <2>4, <3>1, SizeIs
  <2> QED BY <2>3, <2>4
<1>3. ASSUME NEW o \in DOMAIN L.taken
      PROVE  /\ taken[o] = IF L.taken[o] \in S THEN CopiedOut(L, L.taken[o]) ELSE L.taken[o]
             /\ taken[o] \in SnapshotSet /\ SnapFits(k, Len(L.buf), taken[o]) /\ taken[o].to = o
             /\ IsLazy(taken[o]) => L.taken[o] \notin S
  <2>1. L.taken[o] \in SnapshotSet /\ SnapFits(k, Len(L.buf), L.taken[o]) /\ Len(L.buf) \in Nat /\ L.taken[o].to = o
    BY <1>0, LayerIs DEF TakenFits
  <2>2. L.taken[o] \in S => IsLazy(L.taken[o]) /\ k \in {"kv", "rot"}
    <3>1. L.taken[o] \in S => IsLazy(L.taken[o])
      BY DEF LazySnapshots
    <3>2. k \in {"kv", "rot"} \/ ~IsLazy(L.taken[o])
      BY <2>1 DEF SnapFits, Kinds
    <3> QED BY <3>1, <3>2
  <2>3. CASE L.taken[o] \in S
    <3>1. /\ CopiedOut(L, L.taken[o]) \in SnapshotSet /\ ~IsLazy(CopiedOut(L, L.taken[o]))
          /\ CopiedOut(L, L.taken[o]).to = o
          /\ SnapFits(k, Len(L.buf), CopiedOut(L, L.taken[o]))
      BY <1>0, <2>1, <2>2, <2>3, CopiedOutIs
    <3>2. taken[o] = CopiedOut(L, L.taken[o])
      BY <2>3
    <3> HIDE DEF taken
    <3> QED BY <2>3, <3>1, <3>2
  <2>4. CASE L.taken[o] \notin S
    <3>1. taken[o] = L.taken[o]
      BY <2>4
    <3> HIDE DEF taken
    <3> QED BY <2>1, <2>4, <3>1
  <2> QED BY <2>3, <2>4
<1>4. snap \in Maps(Nodes, SnapshotSet) /\ DOMAIN snap = DOMAIN L.snap
  <2>1. DOMAIN L.snap \in SUBSET Nodes
    BY <1>0, LayerIs
  <2>2. DOMAIN snap = DOMAIN L.snap /\ snap = [n \in DOMAIN snap |-> snap[n]]
    OBVIOUS
  <2> HIDE DEF snap
  <2> QED BY <1>2, <2>1, <2>2, MapsAre
<1>5. taken \in Maps(Nat, SnapshotSet) /\ DOMAIN taken = DOMAIN L.taken
  <2>1. DOMAIN L.taken \in SUBSET Nat
    BY <1>0, LayerIs
  <2>2. DOMAIN taken = DOMAIN L.taken /\ taken = [o \in DOMAIN taken |-> taken[o]]
    OBVIOUS
  <2> HIDE DEF taken
  <2> QED BY <1>3, <2>1, <2>2, MapsAre
<1>6. IsFiniteSet(DOMAIN L.snap) /\ L.bytes = BytesOf(L.snap) /\ L.bytes \in Int
  BY <1>0, LayerIs DEF LayerOK, Fits
<1>7. SumFunction(grown) \in Int /\ BytesOf(snap) = L.bytes + SumFunction(grown)
  <2> DEFINE D == DOMAIN L.snap
             f == [n \in D |-> Size(L.snap[n])]
             g == [n \in D |-> Size(snap[n])]
             d == [n \in D |-> IF n \in nodes THEN grown[n] ELSE 0]
  <2>1. f \in [D -> Int] /\ g \in [D -> Int] /\ nodes \in SUBSET D
    <3> HIDE DEF snap
    <3> QED BY <1>2
  <2>2. grown \in [nodes -> Int] /\ d \in [D -> Int]
    <3> HIDE DEF snap
    <3> QED BY <1>2
  <2>3. \A n \in D : g[n] = f[n] + d[n]
    <3> HIDE DEF snap
    <3> QED BY <1>2
  <2>4. \A n \in D : d[n] = IF n \in nodes THEN grown[n] ELSE 0
    OBVIOUS
  <2>5. BytesOf(snap) = SumFunction(g) /\ BytesOf(L.snap) = SumFunction(f)
    BY <1>4 DEF BytesOf
  <2> HIDE DEF snap, taken, nodes, grown, f, g, d, R
  <2>6. SumFunction(g) = SumFunction(f) + SumFunction(d)
    BY <1>6, <2>1, <2>2, <2>3, SumAdds
  <2>7. SumFunction(d) = SumFunction(grown)
    BY <1>6, <2>1, <2>2, <2>4, SumZeros
  <2>8. SumFunction(d) \in Int
    BY <1>6, <2>2, SumInt
  <2> QED BY <1>6, <2>5, <2>6, <2>7, <2>8
<1> HIDE DEF snap, taken, nodes, grown, R
<1>8. /\ R \in LayerType /\ R.snap = snap /\ R.taken = taken /\ R.bytes = L.bytes + SumFunction(grown)
      /\ R.off = L.off /\ R.buf = L.buf /\ R.idx = L.idx /\ R.rewound = L.rewound
      /\ R.due = L.due /\ R.base = L.base /\ R.spoiled = L.spoiled
  <2>1. L.bytes + SumFunction(grown) \in Int
    BY <1>6, <1>7
  <2> QED BY <1>0, <1>1, <1>4, <1>5, <2>1 DEF LayerType
<1>9. Shape(k, R)
  BY <1>8 DEF LayerOK, Fits, Shape
<1>10. LayerOK(k, R)
  BY <1>2, <1>4, <1>6, <1>7, <1>8, <1>9 DEF LayerOK, Fits
<1>11. TakenFits(k, R)
  BY <1>3, <1>5, <1>8 DEF TakenFits
<1>12. LazySnapshots(R) \in SUBSET (LazySnapshots(L) \ S)
  <2>1. ASSUME NEW n \in DOMAIN L.snap, IsLazy(snap[n]) PROVE snap[n] \in LazySnapshots(L) \ S
    BY <1>2, <2>1 DEF LazySnapshots, Range
  <2>2. ASSUME NEW o \in DOMAIN L.taken, IsLazy(taken[o]) PROVE taken[o] \in LazySnapshots(L) \ S
    BY <1>3, <2>2 DEF LazySnapshots, Range
  <2> QED BY <1>4, <1>5, <1>8, <2>1, <2>2 DEF LazySnapshots, Range
<1> QED BY <1>2, <1>3, <1>4, <1>5, <1>8, <1>10, <1>11, <1>12 DEF R

-----------------------------------------------------------------------------
(* KVCache                                                                   *)

\* The larger of two.
LEMMA MaxIs ==
  ASSUME NEW a \in Int, NEW b \in Int
  PROVE Max({a, b}) = IF a >= b THEN a ELSE b
<1> DEFINE S == {a, b}
           m == IF a >= b THEN a ELSE b
<1>1. m \in S /\ \A y \in S : m >= y
  OBVIOUS
<1>2. Max(S) \in S /\ \A y \in S : Max(S) >= y
  <2> HIDE DEF S, m
  <2> QED BY <1>1 DEF Max
<1> QED BY <1>2

\* What no write of a layer changes.
Untouched(L, R) ==
  /\ DOMAIN R.snap = DOMAIN L.snap /\ DOMAIN R.taken = DOMAIN L.taken /\ R.due = L.due /\ R.base = L.base
  /\ L.spoiled => R.spoiled

\* An append to the buffer of a KVCache.
LEMMA KVAppendOK ==
  ASSUME NEW L, LayerOK("kv", L), TakenFits("kv", L), NEW data \in Seq(Content)
  PROVE LET R == KVAppend(L, data)
        IN LayerOK("kv", R) /\ TakenFits("kv", R) /\ Untouched(L, R) /\ R.off = L.off + Len(data)
<1> DEFINE to == L.off + Len(data)
           S == {s \in LazySnapshots(L) : s.from < to /\ s.to > L.off}
           C == IF L.rewound THEN CopyOut(L, S) ELSE L
           len == Max({Len(L.buf), to})
           buf == [i \in 1 .. len |-> IF i \in L.off + 1 .. to THEN data[i - L.off] ELSE L.buf[i]]
           lost == C.spoiled \/ \E s \in LazySnapshots(C) : s.from < to /\ s.to > L.off
           R == KVAppend(L, data)
<1>0. L \in LayerType /\ L.off <= Len(L.buf) /\ "kv" \in Kinds
  BY DEF LayerOK, Fits, Shape, Kinds
<1>1. /\ L.off \in Nat /\ L.buf \in Seq(Content) /\ Len(L.buf) \in Nat /\ Len(data) \in Nat
      /\ L.spoiled \in BOOLEAN
  BY <1>0, LayerIs
<1>2. R = [C EXCEPT !.buf = buf, !.off = to, !.rewound = FALSE, !.spoiled = lost]
  BY DEF KVAppend
<1>3. /\ LayerOK("kv", C) /\ TakenFits("kv", C) /\ Untouched(L, C)
      /\ C.buf = L.buf /\ C.off = L.off
  <2>1. CASE L.rewound
    <3>1. S \in SUBSET LazySnapshots(L)
      OBVIOUS
    <3> HIDE DEF S
    <3>2. C = CopyOut(L, S)
      BY <2>1
    <3> HIDE DEF C
    <3> QED BY <1>0, <3>1, <3>2, CopyOutIs DEF Untouched
  <2>2. CASE ~L.rewound
    BY <2>2 DEF Untouched
  <2> QED BY <2>1, <2>2
<1>4. lost \in BOOLEAN /\ (C.spoiled => lost)
  <2>1. C.spoiled \in BOOLEAN
    BY <1>3, LayerIs DEF LayerOK, Fits
  <2> QED BY <2>1
<1>5. len \in Nat /\ len >= Len(L.buf) /\ len >= to /\ (len = to \/ len = Len(L.buf))
  BY <1>1, MaxIs, SMTT(60)
<1>6. buf \in Seq(Content) /\ Len(buf) = len
  <2> HIDE DEF len
  <2>1. ASSUME NEW i \in 1 .. len
        PROVE  (IF i \in L.off + 1 .. to THEN data[i - L.off] ELSE L.buf[i]) \in Content
    <3>1. CASE i \in L.off + 1 .. to
      <4>1. i - L.off \in 1 .. Len(data)
        BY <1>1, <3>1
      <4> QED BY <3>1, <4>1
    <3>2. CASE i \notin L.off + 1 .. to
      <4>1. i \in 1 .. Len(L.buf)
        BY <1>0, <1>1, <1>5, <2>1, <3>2
      <4> QED BY <1>1, <3>2, <4>1
    <3> QED BY <3>1, <3>2
  <2> QED BY <1>5, <2>1
<1> HIDE DEF C, S, buf, len, lost, R
<1>7. /\ R \in LayerType /\ R.snap = C.snap /\ R.bytes = C.bytes /\ R.taken = C.taken /\ R.due = C.due
      /\ R.base = C.base /\ R.off = to /\ R.buf = buf /\ R.spoiled = lost
  <2>1. C \in LayerType
    BY <1>3 DEF LayerOK, Fits
  <2>2. to \in Nat /\ FALSE \in BOOLEAN
    BY <1>1
  <2> HIDE DEF to
  <2> QED BY <1>2, <1>4, <1>6, <2>1, <2>2 DEF LayerType
<1>8. Shape("kv", R)
  BY <1>1, <1>5, <1>6, <1>7 DEF Shape
<1>9. LayerOK("kv", R) /\ TakenFits("kv", R)
  <2>1. Roomy(C, R)
    BY <1>3, <1>5, <1>6, <1>7 DEF Roomy
  <2> QED BY <1>3, <1>7, <1>8, <2>1, Reshaped
<1> QED BY <1>3, <1>4, <1>7, <1>9 DEF Untouched, R

IsMoved(R, L, off, idx, rewound) == R = [L EXCEPT !.off = off, !.idx = idx, !.rewound = rewound]

\* A layer whose write position moves inside its buffer.
LEMMA Moved ==
  ASSUME NEW k, NEW L, LayerOK(k, L), NEW off \in Nat, NEW idx \in Nat, NEW rewound \in BOOLEAN,
         NEW R, IsMoved(R, L, off, idx, rewound), Shape(k, R)
  PROVE LayerOK(k, R) /\ (TakenFits(k, L) => TakenFits(k, R)) /\ Untouched(L, R) /\ R.off = off /\ R.buf = L.buf
<1> USE DEF IsMoved
<1>1. L \in LayerType
  BY DEF LayerOK, Fits
<1>2. /\ R \in LayerType /\ R.snap = L.snap /\ R.bytes = L.bytes /\ R.taken = L.taken /\ R.due = L.due
      /\ R.base = L.base /\ R.off = off /\ R.buf = L.buf /\ R.spoiled = L.spoiled
  BY <1>1 DEF LayerType
<1>3. Roomy(L, R)
  BY <1>1, <1>2, LayerIs DEF Roomy
<1> QED BY <1>2, <1>3, Reshaped DEF Untouched

\* KVCache.Restore.
LEMMA KVRestoreOK ==
  ASSUME NEW L, LayerOK("kv", L), TakenFits("kv", L), NEW target \in Nat,
         NEW s \in SnapshotSet \cup {None}, s # None => SnapFits("kv", Len(L.buf), s),
         KVCanRestore(L, s, target)
  PROVE LET R == KVRestore(L, s, target)
        IN LayerOK("kv", R) /\ TakenFits("kv", R) /\ Untouched(L, R) /\ R.off <= target /\ (s = None => R.off = target)
<1> DEFINE R == KVRestore(L, s, target)
<1>0. L \in LayerType /\ L.off <= Len(L.buf)
  BY DEF LayerOK, Fits, Shape
<1>1. /\ L.off \in Nat /\ L.buf \in Seq(Content) /\ Len(L.buf) \in Nat /\ L.idx \in Nat
  BY <1>0, LayerIs
<1>2. CASE s = None \/ (s # None /\ IsLazy(s))
  <2>1. R = [L EXCEPT !.off = target, !.rewound = TRUE]
    BY <1>2 DEF KVRestore
  <2>2. target <= Len(L.buf)
    <3>1. CASE s = None
      BY <1>0, <1>1, <3>1 DEF KVCanRestore
    <3>2. CASE s # None /\ IsLazy(s)
      BY <1>1, <3>2, SnapshotIs DEF KVCanRestore, SnapFits
    <3> QED BY <1>2, <3>1, <3>2
  <2>3. IsMoved(R, L, target, L.idx, TRUE)
    BY <2>1, <1>0 DEF LayerType, IsMoved
  <2> HIDE DEF R
  <2>4. R.off = target /\ R.buf = L.buf
    BY <2>1, <1>0 DEF LayerType
  <2>5. Shape("kv", R)
    BY <2>2, <2>4 DEF Shape
  <2>6. LayerOK("kv", R) /\ TakenFits("kv", R) /\ Untouched(L, R)
    BY <1>1, <2>3, <2>5, Moved
  <2> QED BY <2>4, <2>6 DEF R
<1>3. CASE s # None /\ ~IsLazy(s)
  <2> DEFINE B == [L EXCEPT !.off = s.from, !.rewound = TRUE]
             A == KVAppend(B, s.data)
             to == Least(target, A.off)
  <2>1. R = [A EXCEPT !.off = to]
    BY <1>3 DEF KVRestore
  <2>2. s \in SnapshotSet /\ s.from \in Nat /\ s.data \in Seq(Content) /\ s.from <= L.off
    BY <1>3, SnapshotIs DEF KVCanRestore
  <2>3. IsMoved(B, L, s.from, L.idx, TRUE) /\ B.off = s.from /\ B.buf = L.buf
    BY <1>0 DEF LayerType, IsMoved
  <2> HIDE DEF B
  <2>4. Shape("kv", B)
    BY <1>0, <1>1, <2>2, <2>3 DEF Shape
  <2>5. LayerOK("kv", B) /\ TakenFits("kv", B) /\ Untouched(L, B)
    BY <1>1, <2>2, <2>3, <2>4, Moved
  <2>6. LayerOK("kv", A) /\ TakenFits("kv", A) /\ Untouched(B, A)
    BY <2>2, <2>5, KVAppendOK
  <2> HIDE DEF A
  <2>7. A \in LayerType /\ A.off \in Nat /\ A.idx \in Nat /\ A.rewound \in BOOLEAN /\ A.off <= Len(A.buf)
        /\ Len(A.buf) \in Nat
    BY <2>6, LayerIs DEF LayerOK, Fits, Shape
  <2>8. to \in Nat /\ to <= target /\ to <= A.off
    BY <2>7 DEF Least
  <2> HIDE DEF to, R
  <2>9. IsMoved(R, A, to, A.idx, A.rewound) /\ R.off = to /\ R.buf = A.buf
    BY <2>1, <2>7 DEF LayerType, IsMoved
  <2>10. Shape("kv", R)
    BY <2>7, <2>8, <2>9 DEF Shape
  <2>11. LayerOK("kv", R) /\ TakenFits("kv", R) /\ Untouched(A, R)
    BY <2>6, <2>7, <2>8, <2>9, <2>10, Moved
  <2> QED BY <1>3, <2>5, <2>6, <2>8, <2>9, <2>11 DEF R, Untouched
<1> QED BY <1>2, <1>3

-----------------------------------------------------------------------------
(* RotatingKVCache                                                           *)

\* A range of slots.
LEMMA SubIs ==
  ASSUME NEW b \in Seq(Content), NEW m \in Nat, NEW e \in Nat, m > 0, e <= Len(b)
  PROVE SubSeq(b, m, e) \in Seq(Content) /\ Len(SubSeq(b, m, e)) = IF m <= e THEN e - m + 1 ELSE 0
<1>1. \A i \in m .. e : b[i] \in Content
  OBVIOUS
<1>2. m \in Int /\ e \in Int
  OBVIOUS
<1> QED BY <1>1, <1>2, SubSeqProperties

\* After copyOut of all of them no snapshot is lazy.
LEMMA CopyOutAllOK ==
  ASSUME NEW k \in Kinds, NEW L, LayerOK(k, L), TakenFits(k, L)
  PROVE LET R == CopyOutAll(L)
        IN /\ LayerOK(k, R) /\ TakenFits(k, R) /\ Untouched(L, R) /\ LazySnapshots(R) = {}
           /\ R.off = L.off /\ R.buf = L.buf /\ R.idx = L.idx /\ R.rewound = L.rewound
<1>1. LazySnapshots(L) \in SUBSET LazySnapshots(L) /\ CopyOutAll(L) = CopyOut(L, LazySnapshots(L))
  BY DEF CopyOutAll
<1> QED BY <1>1, CopyOutIs DEF Untouched

IsRewritten(R, L, buf, off, idx) == R = [L EXCEPT !.buf = buf, !.off = off, !.idx = idx]

\* A layer without lazy snapshots may have its buffer replaced.
LEMMA Rewritten ==
  ASSUME NEW k, NEW L, LayerOK(k, L), LazySnapshots(L) = {}, NEW off \in Nat, NEW idx \in Nat,
         NEW buf \in Seq(Content), NEW R, IsRewritten(R, L, buf, off, idx), Shape(k, R)
  PROVE LayerOK(k, R) /\ (TakenFits(k, L) => TakenFits(k, R)) /\ Untouched(L, R) /\ R.off = off /\ R.buf = buf /\ R.idx = idx
<1> USE DEF IsRewritten
<1>1. L \in LayerType
  BY DEF LayerOK, Fits
<1>2. /\ R \in LayerType /\ R.snap = L.snap /\ R.bytes = L.bytes /\ R.taken = L.taken /\ R.due = L.due
      /\ R.base = L.base /\ R.off = off /\ R.buf = buf /\ R.idx = idx /\ R.spoiled = L.spoiled
  BY <1>1 DEF LayerType
<1>3. Roomy(L, R)
  BY DEF Roomy
<1> QED BY <1>2, <1>3, Reshaped DEF Untouched

\* RotatingKVCache.concat: the window in order, trimmed and extended.
LEMMA RotConcatOK ==
  ASSUME NEW L0, LayerOK("rot", L0), TakenFits("rot", L0), NEW data \in Seq(Content), Len(data) > 1
  PROVE LET R == RotConcat(L0, data)
        IN /\ LayerOK("rot", R) /\ TakenFits("rot", R) /\ Untouched(L0, R) /\ R.off = L0.off + Len(data)
           /\ R.off - Len(R.buf) <= L0.off - Least(L0.off, Window - 1) /\ Len(data) <= Len(R.buf)
           /\ Len(R.buf) <= R.off
<1> DEFINE L == CopyOutAll(L0)
           K == Len(L.buf)
           B == IF L.idx >= K THEN L.buf
                ELSE IF L.off <= Window THEN SubSeq(L.buf, 1, L.idx)
                ELSE SubSeq(L.buf, L.idx + 1, K) \o SubSeq(L.buf, 1, L.idx)
           trim == Max({0, Len(B) - Window + 1})
           N == SubSeq(B, trim + 1, Len(B)) \o data
           R == RotConcat(L0, data)
<1>1. /\ LayerOK("rot", L) /\ TakenFits("rot", L) /\ Untouched(L0, L) /\ LazySnapshots(L) = {}
      /\ L.off = L0.off /\ L.buf = L0.buf /\ L.idx = L0.idx
  <2>1. "rot" \in Kinds BY DEF Kinds
  <2> QED BY <2>1, CopyOutAllOK
<1> HIDE DEF L
<1>2. L \in LayerType /\ RotFits(L.off, K, L.idx)
  BY <1>1 DEF LayerOK, Fits, Shape
<1>3. L.off \in Nat /\ L.idx \in Nat /\ L.buf \in Seq(Content) /\ K \in Nat /\ Window \in Nat /\ Window > 0
      /\ Len(data) \in Nat
  BY <1>2, LayerIs, ConstantsAre
<1>4. R = [L EXCEPT !.buf = N, !.off = L.off + Len(data), !.idx = Len(N)]
  BY DEF RotConcat, L
<1>5. B \in Seq(Content) /\ Len(B) \in Nat /\ (IF L.off <= Window THEN Len(B) = L.off ELSE Len(B) = K)
  <2> HIDE DEF K
  <2>1. CASE L.idx >= K
    <3>1. B = L.buf
      BY <2>1
    <3> HIDE DEF B
    <3> QED BY <1>2, <1>3, <2>1, <3>1 DEF RotFits, K
  <2>2. CASE L.idx < K /\ L.off <= Window
    <3>1. B = SubSeq(L.buf, 1, L.idx)
      BY <1>3, <2>2
    <3> HIDE DEF B
    <3>2. SubSeq(L.buf, 1, L.idx) \in Seq(Content) /\ Len(SubSeq(L.buf, 1, L.idx)) = L.idx
      BY <1>3, <2>2, SubIs DEF K
    <3> QED BY <1>2, <1>3, <2>2, <3>1, <3>2 DEF RotFits
  <2>3. CASE L.idx < K /\ ~(L.off <= Window)
    <3> DEFINE X == SubSeq(L.buf, L.idx + 1, K)
               Y == SubSeq(L.buf, 1, L.idx)
    <3>1. B = X \o Y
      <4>1. ~(L.idx >= K) /\ ~(L.off <= Window)
        BY <1>3, <2>3
      <4> QED BY <4>1 DEF K
    <3> HIDE DEF B
    <3>2. Y \in Seq(Content) /\ Len(Y) = L.idx
      BY <1>3, <2>3, SubIs DEF K
    <3>3. X \in Seq(Content) /\ Len(X) = K - L.idx
      BY <1>3, <2>3, SubIs DEF K
    <3> HIDE DEF X, Y
    <3>4. B \in Seq(Content) /\ Len(B) = Len(X) + Len(Y)
      BY <3>1, <3>2, <3>3, ConcatProperties
    <3> QED BY <1>3, <2>3, <3>2, <3>3, <3>4
  <2> QED BY <1>3, <2>1, <2>2, <2>3
<1> HIDE DEF B
<1>6. trim = (IF 0 >= Len(B) - Window + 1 THEN 0 ELSE Len(B) - Window + 1)
  BY <1>3, <1>5, MaxIs
<1> DEFINE kept == IF Len(B) < Window THEN Len(B) ELSE Window - 1
<1>7. trim \in Nat /\ trim <= Len(B) /\ Len(B) - trim = kept
  <2> DEFINE b == Len(B)
  <2>1. b \in Nat /\ Window \in Nat /\ Window > 0 /\ trim = (IF 0 >= b - Window + 1 THEN 0 ELSE b - Window + 1)
    BY <1>3, <1>5, <1>6
  <2> HIDE DEF trim, b
  <2>2. trim \in Nat /\ trim <= b /\ b - trim = IF b < Window THEN b ELSE Window - 1
    BY <2>1
  <2> QED BY <2>2 DEF b
<1> HIDE DEF trim
<1>8. N \in Seq(Content) /\ Len(N) = kept + Len(data)
  <2> DEFINE T == SubSeq(B, trim + 1, Len(B))
  <2>1. T \in Seq(Content) /\ Len(T) = kept
    BY <1>3, <1>5, <1>7, SubIs
  <2> HIDE DEF T, kept
  <2> QED BY <2>1, ConcatProperties DEF T
<1> HIDE DEF N
<1>9. /\ L.off + Len(data) \in Nat /\ Len(N) \in Nat /\ RotFits(L.off + Len(data), Len(N), Len(N))
      /\ (L.off + Len(data)) - Len(N) <= L.off - Least(L.off, Window - 1) /\ Len(data) <= Len(N)
      /\ Len(N) <= L.off + Len(data)
  <2> DEFINE n == Len(data)
             b == Len(B)
             m == Len(N)
             off == L.off
  <2>1. /\ n \in Nat /\ n > 1 /\ b \in Nat /\ off \in Nat /\ K \in Nat /\ Window \in Nat /\ Window > 0
        /\ m = kept + n /\ kept = (IF b < Window THEN b ELSE Window - 1)
        /\ (IF off <= Window THEN b = off ELSE b = K /\ Window <= K)
    <3> HIDE DEF K
    <3> QED BY <1>2, <1>3, <1>5, <1>8 DEF RotFits
  <2> HIDE DEF n, b, m, off, K, kept
  <2>2. m \in Nat /\ RotFits(off + n, m, m) /\ (off + n) - m <= off - Least(off, Window - 1) /\ n <= m /\ m <= off + n
    BY <2>1 DEF RotFits, Least
  <2> QED BY <2>1, <2>2 DEF n, m, off
<1> HIDE DEF R
<1>10. R.off = L.off + Len(data) /\ R.buf = N /\ R.idx = Len(N)
  BY <1>2, <1>4 DEF LayerType
<1>11. Shape("rot", R)
  BY <1>9, <1>10 DEF Shape
<1>12. LayerOK("rot", R) /\ TakenFits("rot", R) /\ Untouched(L, R)
  <2> DEFINE off == L.off + Len(data)
             idx == Len(N)
  <2>1. IsRewritten(R, L, N, off, idx) /\ off \in Nat /\ idx \in Nat
    BY <1>4, <1>9 DEF IsRewritten
  <2> HIDE DEF off, idx
  <2> QED BY <1>1, <1>8, <1>11, <2>1, Rewritten
<1>13. /\ Untouched(L0, R) /\ R.off = L0.off + Len(data)
       /\ R.off - Len(R.buf) <= L0.off - Least(L0.off, Window - 1) /\ Len(data) <= Len(R.buf)
       /\ Len(R.buf) <= R.off
  <2>1. Untouched(L0, R)
    BY <1>1, <1>12 DEF Untouched
  <2>2. L0.off = L.off /\ Len(R.buf) = Len(N)
    BY <1>1, <1>10
  <2> DEFINE a == L.off + Len(data)
             b == L.off - Least(L.off, Window - 1)
             m == Len(N)
             d == Len(data)
  <2>3. R.off = a /\ Len(R.buf) = m /\ a - m <= b /\ d <= m /\ m <= a
    <3>1. a - m <= b /\ d <= m /\ m <= a
      BY <1>9
    <3>2. R.off = a /\ Len(R.buf) = m
      BY <1>10, <2>2
    <3> HIDE DEF a, b, m, d
    <3> QED BY <3>1, <3>2
  <2>4. L0.off + Len(data) = a /\ L0.off - Least(L0.off, Window - 1) = b
    BY <2>2
  <2>5. d = Len(data)
    OBVIOUS
  <2> HIDE DEF a, b, m, d
  <2> QED BY <2>1, <2>3, <2>4, <2>5
<1> QED BY <1>12, <1>13 DEF R

\* RotatingKVCache.update: the buffer grows to the window, then wraps.
LEMMA RotUpdateOK ==
  ASSUME NEW L0, LayerOK("rot", L0), TakenFits("rot", L0), NEW slot \in Content
  PROVE LET R == RotUpdate(L0, slot)
        IN LayerOK("rot", R) /\ TakenFits("rot", R) /\ Untouched(L0, R) /\ R.off = L0.off + 1 /\ Len(R.buf) > 0
<1> DEFINE L == CopyOutAll(L0)
           K == Len(L.buf)
           grows == L.buf = <<>> \/ (L.off >= K /\ K < Window)
           z == Least(RotStep, Window - L.off)
           G == IF grows THEN L.buf \o [i \in 1 .. z |-> <<>>] ELSE L.buf
           T == IF Len(G) > Window THEN SubSeq(G, Len(G) - Window + 1, Len(G)) ELSE G
           at == IF Len(G) > Window THEN Window ELSE IF grows THEN L.off ELSE L.idx
           i0 == IF at >= Window THEN 0 ELSE at
           N == [T EXCEPT ![i0 + 1] = slot]
           R == RotUpdate(L0, slot)
<1>1. /\ LayerOK("rot", L) /\ TakenFits("rot", L) /\ Untouched(L0, L) /\ LazySnapshots(L) = {}
      /\ L.off = L0.off /\ L.buf = L0.buf /\ L.idx = L0.idx
  <2>1. "rot" \in Kinds BY DEF Kinds
  <2> QED BY <2>1, CopyOutAllOK
<1> HIDE DEF L
<1>2. L \in LayerType /\ RotFits(L.off, K, L.idx)
  BY <1>1 DEF LayerOK, Fits, Shape
<1>3. L.off \in Nat /\ L.idx \in Nat /\ L.buf \in Seq(Content) /\ K \in Nat /\ Window \in Nat /\ Window > 0
      /\ RotStep \in Nat /\ RotStep > 0 /\ (L.buf = <<>> <=> K = 0)
  <2>1. L.buf \in Seq(Content) BY <1>2, LayerIs
  <2> QED BY <1>2, <2>1, EmptySeq, LayerIs, ConstantsAre
<1>4. R = [L EXCEPT !.buf = N, !.off = L.off + 1, !.idx = i0 + 1]
  BY DEF RotUpdate, L
<1>5. N \in Seq(Content) /\ RotFits(L.off + 1, Len(N), i0 + 1) /\ i0 + 1 \in Nat /\ Len(N) > 0
  <2>1. CASE grows
    <3> HIDE DEF K
    <3>1. L.off = K /\ L.idx = K /\ K < Window
      BY <1>2, <1>3, <2>1 DEF RotFits
    <3>2. z \in Nat /\ z > 0 /\ K + z <= Window
      BY <1>3, <3>1 DEF Least
    <3> HIDE DEF z
    <3> DEFINE Z == [i \in 1 .. z |-> <<>>]
    <3>3. Z \in Seq(Content) /\ Len(Z) = z
      <4>1. <<>> \in Content BY DEF Content
      <4> QED BY <3>2, <4>1
    <3> HIDE DEF Z
    <3>4. G = L.buf \o Z
      BY <2>1 DEF Z
    <3> HIDE DEF G, grows
    <3>5. G \in Seq(Content) /\ Len(G) = K + z
      BY <1>3, <3>3, <3>4, ConcatProperties DEF K
    <3>6. T = G /\ at = L.off
      BY <1>3, <2>1, <3>2, <3>5
    <3> HIDE DEF T, at
    <3>7. i0 = K /\ i0 + 1 \in 1 .. Len(T)
      BY <1>3, <3>1, <3>2, <3>5, <3>6
    <3> HIDE DEF i0
    <3>8. N \in Seq(Content) /\ Len(N) = K + z
      BY <3>5, <3>6, <3>7, ExceptSeq
    <3>9. RotFits(L.off + 1, Len(N), i0 + 1) /\ i0 + 1 \in Nat /\ Len(N) > 0
      BY <1>3, <3>1, <3>2, <3>7, <3>8 DEF RotFits
    <3> QED BY <3>8, <3>9
  <2>2. CASE ~grows
    <3> HIDE DEF K
    <3>1. G = L.buf /\ Len(G) = K /\ K > 0
      BY <1>3, <2>2 DEF K
    <3>2. L.off < K \/ K >= Window
      BY <1>3, <2>2
    <3> HIDE DEF G, grows
    <3>3. CASE K > Window
      <4> DEFINE S == SubSeq(G, Len(G) - Window + 1, Len(G))
      <4>1. T = S /\ at = Window
        BY <1>3, <3>1, <3>3
      <4>2. S \in Seq(Content) /\ Len(S) = Window
        <5> DEFINE m == Len(G) - Window + 1
                   e == Len(G)
        <5>1. m \in Nat /\ m > 0 /\ e \in Nat /\ e <= Len(G) /\ G \in Seq(Content) /\ e - m + 1 = Window /\ m <= e
          BY <1>3, <3>1, <3>3
        <5>2. S = SubSeq(G, m, e)
          OBVIOUS
        <5> HIDE DEF m, e, S
        <5> QED BY <5>1, <5>2, SubIs
      <4> HIDE DEF S, T, at
      <4>3. i0 = 0
        BY <1>3, <4>1
      <4> HIDE DEF i0
      <4>4. N \in Seq(Content) /\ Len(N) = Window
        <5>1. i0 + 1 \in 1 .. Len(T)
          BY <1>3, <4>1, <4>2, <4>3
        <5> QED BY <4>1, <4>2, <5>1, ExceptSeq
      <4>5. RotFits(L.off + 1, Len(N), i0 + 1) /\ i0 + 1 \in Nat /\ Len(N) > 0
        BY <1>2, <1>3, <3>3, <4>3, <4>4 DEF RotFits
      <4> QED BY <4>4, <4>5
    <3>4. CASE K <= Window
      <4>1. T = G /\ at = L.idx
        BY <1>3, <2>2, <3>1, <3>4 DEF grows
      <4> HIDE DEF T, at
      <4>2. i0 = (IF L.idx >= Window THEN 0 ELSE L.idx) /\ L.idx <= K
        BY <1>2, <1>3, <4>1 DEF RotFits
      <4> HIDE DEF i0
      <4>3. i0 + 1 \in 1 .. K
        BY <1>2, <1>3, <3>1, <3>2, <3>4, <4>2 DEF RotFits
      <4>4. N \in Seq(Content) /\ Len(N) = K
        BY <1>3, <3>1, <4>1, <4>3, ExceptSeq
      <4>5. RotFits(L.off + 1, Len(N), i0 + 1) /\ i0 + 1 \in Nat /\ Len(N) > 0
        BY <1>2, <1>3, <3>1, <3>2, <3>4, <4>2, <4>3, <4>4 DEF RotFits
      <4> QED BY <4>4, <4>5
    <3> QED BY <1>3, <3>3, <3>4 DEF K
  <2> QED BY <2>1, <2>2
<1> DEFINE off == L.off + 1
           idx == i0 + 1
<1> HIDE DEF N, i0, R
<1>6. IsRewritten(R, L, N, off, idx) /\ off \in Nat /\ idx \in Nat
  BY <1>3, <1>4, <1>5 DEF IsRewritten
<1>7. R.off = off /\ R.buf = N /\ R.idx = idx
  BY <1>2, <1>6 DEF LayerType, IsRewritten
<1>8. Shape("rot", R)
  BY <1>5, <1>7 DEF Shape
<1>9. LayerOK("rot", R) /\ TakenFits("rot", R) /\ Untouched(L, R)
  <2> HIDE DEF off, idx
  <2> QED BY <1>1, <1>5, <1>6, <1>8, Rewritten
<1> QED BY <1>1, <1>5, <1>7, <1>9 DEF Untouched, R

\* A window that has not wrapped can be rewound.
LEMMA RotRewindOK ==
  ASSUME NEW L, LayerOK("rot", L), NEW target \in Nat,
         target = L.off \/ (target < L.off /\ L.off <= Window)
  PROVE LET R == [L EXCEPT !.off = target, !.idx = target]
        IN /\ target # L.off => LayerOK("rot", R) /\ (TakenFits("rot", L) => TakenFits("rot", R)) /\ Untouched(L, R) /\ R.off = target
<1> SUFFICES ASSUME target # L.off
    PROVE  LET R == [L EXCEPT !.off = target, !.idx = target]
           IN LayerOK("rot", R) /\ (TakenFits("rot", L) => TakenFits("rot", R)) /\ Untouched(L, R) /\ R.off = target
  OBVIOUS
<1> DEFINE R == [L EXCEPT !.off = target, !.idx = target]
<1>1. L \in LayerType /\ RotFits(L.off, Len(L.buf), L.idx)
  BY DEF LayerOK, Fits, Shape
<1>2. L.off \in Nat /\ Len(L.buf) \in Nat /\ Window \in Nat /\ L.rewound \in BOOLEAN
  BY <1>1, LayerIs, ConstantsAre
<1>3. IsMoved(R, L, target, target, L.rewound)
  BY <1>1 DEF LayerType, IsMoved
<1>4. R.off = target /\ R.buf = L.buf /\ R.idx = target
  BY <1>1 DEF LayerType
<1> HIDE DEF R
<1>5. RotFits(target, Len(L.buf), target)
  BY <1>1, <1>2 DEF RotFits
<1>6. Shape("rot", R)
  BY <1>4, <1>5 DEF Shape
<1>7. LayerOK("rot", R) /\ (TakenFits("rot", L) => TakenFits("rot", R)) /\ Untouched(L, R)
  BY <1>2, <1>3, <1>6, Moved
<1> QED BY <1>4, <1>7 DEF R

IsInstalled(R, L, snap, buf, off, idx) == R = [L EXCEPT !.snap = snap, !.buf = buf, !.off = off, !.idx = idx]

\* A layer whose snapshots and buffer are replaced, field by field.
LEMMA Installed ==
  ASSUME NEW L \in LayerType, NEW snap \in Maps(Nodes, SnapshotSet), NEW buf \in Seq(Content),
         NEW off \in Nat, NEW idx \in Nat, NEW R, IsInstalled(R, L, snap, buf, off, idx),
         DOMAIN snap = DOMAIN L.snap
  PROVE R \in LayerType /\ R.snap = snap /\ R.buf = buf /\ R.off = off /\ R.idx = idx /\ Untouched(L, R) /\ R.bytes = L.bytes
BY DEF LayerType, IsInstalled, Untouched

\* RotatingKVCache.Restore of a lazy snapshot: its slots become the buffer.
LEMMA RotRestoreLazy ==
  ASSUME NEW L, LayerOK("rot", L), TakenFits("rot", L), NEW s \in SnapshotSet, IsLazy(s),
         SnapFits("rot", Len(L.buf), s)
  PROVE LET C == CopyOut(L, LazySnapshots(L) \ {s})
            D == [n \in DOMAIN C.snap |-> IF C.snap[n] = s THEN [s EXCEPT !.lo = 0] ELSE C.snap[n]]
            R == [[C EXCEPT !.snap = D] EXCEPT !.buf = Data(L, s), !.off = s.to, !.idx = s.idx]
        IN LayerOK("rot", R) /\ Untouched(L, R) /\ R.off = s.to
<1> DEFINE S == LazySnapshots(L) \ {s}
           C == CopyOut(L, S)
           D == [n \in DOMAIN C.snap |-> IF C.snap[n] = s THEN [s EXCEPT !.lo = 0] ELSE C.snap[n]]
           b == Data(L, s)
           R == [[C EXCEPT !.snap = D] EXCEPT !.buf = b, !.off = s.to, !.idx = s.idx]
           z == [s EXCEPT !.lo = 0]
<1>0. "rot" \in Kinds /\ S \in SUBSET LazySnapshots(L) /\ L \in LayerType
  BY DEF Kinds, LayerOK, Fits
<1>1. /\ LayerOK("rot", C) /\ TakenFits("rot", C) /\ Untouched(L, C) /\ LazySnapshots(C) \in SUBSET (LazySnapshots(L) \ S)
      /\ C.buf = L.buf
  <2> HIDE DEF S
  <2> QED BY <1>0, CopyOutIs DEF Untouched
<1>2. LazySnapshots(C) \subseteq {s}
  BY <1>1
<1> HIDE DEF S, C
<1>3. C \in LayerType
  BY <1>1 DEF LayerOK, Fits
<1>4. b \in Seq(Content) /\ Len(b) = s.to - s.from /\ s.from <= s.to /\ Len(b) \in Nat
  BY <1>0, DataIs
<1>5. s.from \in Nat /\ s.to \in Nat /\ s.idx \in Nat /\ s.lo \in Nat
  BY SnapshotIs
<1>6. RotFits(s.to, s.to - s.from, s.idx)
  BY DEF SnapFits
<1> HIDE DEF b
<1>7. z \in SnapshotSet /\ IsLazy(z) /\ SnapFits("rot", Len(b), z) /\ Size(z) = 0 /\ Size(s) = 0
  <2>1. z \in SnapshotSet /\ z.from = s.from /\ z.to = s.to /\ z.idx = s.idx /\ z.lo = 0 /\ z.data = s.data
    BY DEF SnapshotSet
  <2> HIDE DEF z
  <2>2. IsLazy(z)
    BY <2>1 DEF IsLazy
  <2>3. SnapFits("rot", Len(b), z)
    BY <1>4, <1>5, <1>6, <2>1, <2>2 DEF SnapFits
  <2> QED BY <2>1, <2>2, <2>3, SizeIs
<1> HIDE DEF z
<1>8. ASSUME NEW n \in DOMAIN C.snap
      PROVE  D[n] \in SnapshotSet /\ SnapFits("rot", Len(b), D[n]) /\ Size(D[n]) = Size(C.snap[n])
  <2>1. C.snap[n] \in SnapshotSet /\ SnapFits("rot", Len(C.buf), C.snap[n]) /\ Len(C.buf) \in Nat
    BY <1>1, <1>3, LayerIs DEF LayerOK, Fits
  <2>2. CASE C.snap[n] = s
    <3>1. D[n] = z
      BY <2>2 DEF z
    <3> QED BY <1>7, <2>2, <3>1
  <2>3. CASE C.snap[n] # s
    <3>1. D[n] = C.snap[n]
      BY <2>3
    <3>2. ~IsLazy(C.snap[n])
      BY <1>2, <2>3 DEF LazySnapshots, Range
    <3> HIDE DEF D
    <3> QED BY <1>4, <2>1, <3>1, <3>2, SnapFitsWith
  <2> QED BY <2>2, <2>3
<1>9. D = [n \in DOMAIN D |-> D[n]] /\ DOMAIN D = DOMAIN C.snap
  OBVIOUS
<1>10. IsInstalled(R, C, D, b, s.to, s.idx)
  <2> HIDE DEF D
  <2> QED BY <1>3 DEF LayerType, IsInstalled
<1> HIDE DEF D, R
<1>11. D \in Maps(Nodes, SnapshotSet)
  <2>1. DOMAIN C.snap \in SUBSET Nodes
    BY <1>3, LayerIs
  <2> QED BY <1>8, <1>9, <2>1, MapsAre
<1>12. R \in LayerType /\ R.snap = D /\ R.buf = b /\ R.off = s.to /\ R.idx = s.idx /\ Untouched(C, R) /\ R.bytes = C.bytes
  BY <1>3, <1>4, <1>5, <1>9, <1>10, <1>11, Installed
<1>13. R.bytes = BytesOf(R.snap)
  <2> DEFINE f == [n \in DOMAIN C.snap |-> Size(C.snap[n])]
             g == [n \in DOMAIN D |-> Size(D[n])]
  <2>1. f = g
    BY <1>8, <1>9
  <2>2. C.bytes = SumFunction(f)
    BY <1>1 DEF LayerOK, BytesOf
  <2>3. BytesOf(R.snap) = SumFunction(g)
    BY <1>12 DEF BytesOf
  <2> HIDE DEF f, g
  <2> QED BY <1>12, <2>1, <2>2, <2>3
<1>14. Shape("rot", R)
  BY <1>4, <1>6, <1>12 DEF Shape
<1>15. IsFiniteSet(DOMAIN R.snap)
  BY <1>1, <1>9, <1>12 DEF LayerOK, Fits
<1>16. LayerOK("rot", R)
  BY <1>8, <1>9, <1>12, <1>13, <1>14, <1>15 DEF LayerOK, Fits
<1>17. Untouched(L, R)
  BY <1>1, <1>12 DEF Untouched
<1> QED BY <1>12, <1>16, <1>17 DEF R, D, C, S, b

\* RotatingKVCache.Restore.
LEMMA RotRestoreOK ==
  ASSUME NEW L, LayerOK("rot", L), TakenFits("rot", L), NEW target \in Nat,
         NEW s \in SnapshotSet \cup {None}, s # None => SnapFits("rot", Len(L.buf), s),
         RotCanRestore(L, s, target)
  PROVE LET R == RotRestore(L, s, target)
        IN LayerOK("rot", R) /\ Untouched(L, R) /\ R.off = target
<1> DEFINE R == RotRestore(L, s, target)
<1>0. L \in LayerType
  BY DEF LayerOK, Fits
<1>1. CASE s = None
  <2>1. target = L.off \/ (target < L.off /\ L.off <= Window)
    BY <1>1 DEF RotCanRestore
  <2>2. CASE target = L.off
    <3>1. R = L
      BY <1>1, <2>2 DEF RotRestore
    <3> QED BY <2>2, <3>1 DEF Untouched
  <2>3. CASE target # L.off
    <3>1. R = [L EXCEPT !.off = target, !.idx = target]
      BY <1>1, <2>3 DEF RotRestore
    <3> QED BY <2>1, <2>3, <3>1, RotRewindOK
  <2> QED BY <2>2, <2>3
<1>2. CASE s # None
  <2> DEFINE C == CopyOut(L, LazySnapshots(L) \ {s})
             D == [n \in DOMAIN C.snap |-> IF C.snap[n] = s THEN [s EXCEPT !.lo = 0] ELSE C.snap[n]]
             lazily == [[C EXCEPT !.snap = D] EXCEPT !.buf = Data(L, s), !.off = s.to, !.idx = s.idx]
             A == CopyOutAll(L)
             owned == [A EXCEPT !.buf = Data(L, s), !.off = s.to, !.idx = s.idx]
             W == IF IsLazy(s) THEN lazily ELSE owned
  <2>1. R = IF target < s.to THEN [W EXCEPT !.off = target, !.idx = target] ELSE W
    BY <1>2 DEF RotRestore
  <2>2. s \in SnapshotSet /\ s.to \in Nat /\ s.idx \in Nat /\ target <= s.to /\ (target < s.to => s.to <= Window) /\ Window \in Nat
    BY <1>2, SnapshotIs, ConstantsAre DEF RotCanRestore
  <2>3. LayerOK("rot", W) /\ Untouched(L, W) /\ W.off = s.to
    <3>1. CASE IsLazy(s)
      <4>1. W = lazily
        BY <3>1
      <4>2. LayerOK("rot", lazily) /\ Untouched(L, lazily) /\ lazily.off = s.to
        BY <1>2, <2>2, <3>1, RotRestoreLazy
      <4> HIDE DEF W, lazily
      <4> QED BY <4>1, <4>2
    <3>2. CASE ~IsLazy(s)
      <4>1. /\ LayerOK("rot", A) /\ TakenFits("rot", A) /\ Untouched(L, A) /\ LazySnapshots(A) = {}
        <5>1. "rot" \in Kinds BY DEF Kinds
        <5> QED BY <5>1, CopyOutAllOK
      <4> HIDE DEF A
      <4>2. W = owned /\ Data(L, s) = s.data
        BY <3>2 DEF Data
      <4>3. IsRewritten(owned, A, s.data, s.to, s.idx) /\ A \in LayerType
        BY <4>1, <4>2 DEF IsRewritten, LayerOK, Fits
      <4> HIDE DEF W, owned
      <4>4. s.data \in Seq(Content) /\ RotFits(s.to, Len(s.data), s.idx)
        BY <1>2, <2>2, <3>2, SnapshotIs DEF SnapFits
      <4>5. owned.off = s.to /\ owned.buf = s.data /\ owned.idx = s.idx
        BY <4>3 DEF IsRewritten, LayerType
      <4>6. Shape("rot", owned)
        BY <4>4, <4>5 DEF Shape
      <4>7. LayerOK("rot", owned) /\ Untouched(A, owned)
        BY <2>2, <4>1, <4>3, <4>4, <4>6, Rewritten
      <4> QED BY <4>1, <4>2, <4>5, <4>7 DEF Untouched
    <3> QED BY <3>1, <3>2
  <2> HIDE DEF W
  <2>4. CASE target < s.to
    <3>1. R = [W EXCEPT !.off = target, !.idx = target]
      BY <2>1, <2>4
    <3>2. target < W.off /\ W.off <= Window /\ target # W.off
      BY <2>2, <2>3, <2>4
    <3>3. LayerOK("rot", R) /\ Untouched(W, R) /\ R.off = target
      BY <2>3, <3>1, <3>2, RotRewindOK
    <3> QED BY <2>3, <3>3 DEF Untouched
  <2>5. CASE ~(target < s.to)
    BY <2>1, <2>2, <2>3, <2>5
  <2> QED BY <2>4, <2>5
<1> QED BY <1>1, <1>2

-----------------------------------------------------------------------------
(* RecurrentCache, and the Cache interface                                   *)

\* A RecurrentCache has no lazy snapshots.
LEMMA NotLazyRnn ==
  ASSUME NEW L, LayerOK("rnn", L), TakenFits("rnn", L)
  PROVE LazySnapshots(L) = {}
BY DEF LayerOK, Fits, TakenFits, LazySnapshots, Range, SnapFits

\* RecurrentCache.Restore.
LEMMA RnnRestoreOK ==
  ASSUME NEW L, LayerOK("rnn", L), TakenFits("rnn", L), NEW target \in Nat,
         NEW s \in SnapshotSet \cup {None}, s # None => SnapFits("rnn", Len(L.buf), s),
         RnnCanRestore(L, s, target)
  PROVE LET R == RnnRestore(L, s, target)
        IN LayerOK("rnn", R) /\ Untouched(L, R) /\ R.off = target
<1> DEFINE R == RnnRestore(L, s, target)
<1>0. L \in LayerType
  BY DEF LayerOK, Fits
<1>1. CASE s = None
  BY <1>1 DEF RnnRestore, RnnCanRestore, Untouched
<1>2. CASE s # None
  <2>1. R = [L EXCEPT !.buf = s.data, !.off = s.to]
    BY <1>2 DEF RnnRestore
  <2>2. /\ s.to = target /\ s.data \in Seq(Content) /\ s.data # <<>>
    BY <1>2, SnapshotIs DEF RnnCanRestore, SnapFits
  <2>3. L.idx \in Nat
    BY <1>0, LayerIs
  <2>4. IsRewritten(R, L, s.data, target, L.idx)
    BY <1>0, <2>1, <2>2 DEF IsRewritten, LayerType
  <2> HIDE DEF R
  <2>5. R.off = target /\ R.buf = s.data
    BY <1>0, <2>1, <2>2 DEF LayerType
  <2>6. Shape("rnn", R)
    BY <2>2, <2>5 DEF Shape
  <2>7. LayerOK("rnn", R) /\ Untouched(L, R)
    BY <2>2, <2>3, <2>4, <2>6, NotLazyRnn, Rewritten
  <2> QED BY <2>5, <2>7 DEF R
<1> QED BY <1>1, <1>2

Fit(k, L, s) == s \in SnapshotSet \cup {None} /\ (s # None => SnapFits(k, Len(L.buf), s))

\* Restore of any kind goes to the target, a KVCache perhaps before it.
LEMMA RestoreOK ==
  ASSUME NEW k \in Kinds, NEW L, LayerOK(k, L), TakenFits(k, L), NEW target \in Nat, NEW s,
         Fit(k, L, s), CanRestore(k, L, s, target)
  PROVE LET R == Restore(k, L, s, target)
        IN /\ LayerOK(k, R) /\ Untouched(L, R) /\ R.off <= target
           /\ s = None \/ k # "kv" => R.off = target
<1> DEFINE R == Restore(k, L, s, target)
<1>0. s \in SnapshotSet \cup {None} /\ (s # None => SnapFits(k, Len(L.buf), s))
  BY DEF Fit
<1>1. CASE k = "kv"
  <2>1. R = KVRestore(L, s, target) /\ KVCanRestore(L, s, target)
    BY <1>1 DEF Restore, CanRestore
  <2> QED BY <1>0, <1>1, <2>1, KVRestoreOK
<1>2. CASE k = "rot"
  <2>1. R = RotRestore(L, s, target) /\ RotCanRestore(L, s, target)
    BY <1>2 DEF Restore, CanRestore
  <2> QED BY <1>0, <1>2, <2>1, RotRestoreOK
<1>3. CASE k = "rnn"
  <2>1. R = RnnRestore(L, s, target) /\ RnnCanRestore(L, s, target)
    BY <1>3 DEF Restore, CanRestore
  <2> QED BY <1>0, <1>3, <2>1, RnnRestoreOK
<1> QED BY <1>1, <1>2, <1>3 DEF Kinds

Quiet(L) == L.due = {} /\ L.taken = <<>>

IsReset(R, L) == R = [L EXCEPT !.buf = <<>>, !.off = 0, !.idx = 0, !.rewound = FALSE, !.due = {}, !.taken = <<>>]

\* The empty map.
LEMMA EmptyMap == <<>> \in Maps(Nat, SnapshotSet) /\ DOMAIN <<>> = {}
<1>1. <<>> = [x \in {} |-> <<>>[x]] /\ DOMAIN <<>> = {}
  BY SMTT(30)
<1> QED BY <1>1, MapsAre

\* Free empties a layer and its schedule and leaves the snapshots on the trie.
LEMMA FreeOK ==
  ASSUME NEW k \in Kinds, NEW L, LayerOK(k, L), TakenFits(k, L)
  PROVE LET R == Free(k, L)
        IN LayerOK(k, R) /\ DOMAIN R.snap = DOMAIN L.snap /\ R.off = 0 /\ Quiet(R) /\ (L.spoiled => R.spoiled)
<1> DEFINE A == CopyOutAll(L)
           R == Free(k, L)
<1>1. LayerOK(k, A) /\ Untouched(L, A) /\ LazySnapshots(A) = {} /\ A \in LayerType
  <2>1. LayerOK(k, A) /\ Untouched(L, A) /\ LazySnapshots(A) = {}
    BY CopyOutAllOK
  <2> QED BY <2>1 DEF LayerOK, Fits
<1>2. IsReset(R, A)
  BY DEF Free, IsReset
<1> HIDE DEF A, R
<1>3. <<>> \in Seq(Content) /\ <<>> \in Maps(Nat, SnapshotSet) /\ FALSE \in BOOLEAN /\ {} \in SUBSET Nat
  BY EmptyMap, EmptySeq
<1>4. /\ R \in LayerType /\ R.snap = A.snap /\ R.bytes = A.bytes /\ R.off = 0 /\ R.buf = <<>> /\ R.idx = 0
      /\ R.due = {} /\ R.taken = <<>> /\ R.spoiled = A.spoiled
  BY <1>1, <1>2, <1>3 DEF IsReset, LayerType
<1>5. Shape(k, R)
  <2>1. Len(R.buf) = 0 /\ Window \in Nat
    BY <1>4, EmptySeq, ConstantsAre
  <2> QED BY <1>4, <2>1 DEF Shape, RotFits
<1>6. \A n \in DOMAIN R.snap : SnapFits(k, Len(R.buf), R.snap[n])
  <2> SUFFICES ASSUME NEW n \in DOMAIN A.snap PROVE SnapFits(k, Len(R.buf), A.snap[n])
    BY <1>4
  <2>1. ~IsLazy(A.snap[n])
    BY <1>1 DEF LazySnapshots, Range
  <2>2. A.snap[n] \in SnapshotSet /\ Len(A.buf) \in Nat /\ Len(R.buf) \in Nat
    BY <1>1, <1>4, LayerIs
  <2>3. SnapFits(k, Len(A.buf), A.snap[n])
    BY <1>1 DEF LayerOK, Fits
  <2> QED BY <2>1, <2>2, <2>3, SnapFitsWith
<1>7. LayerOK(k, R)
  BY <1>1, <1>4, <1>5, <1>6 DEF LayerOK, Fits
<1> QED BY <1>1, <1>4, <1>7 DEF Untouched, Quiet, R

-----------------------------------------------------------------------------
(* What is captured, merged and split                                        *)

\* The fields of a lazy snapshot.
LEMMA LazyIs ==
  ASSUME NEW from \in Nat, NEW to \in Nat, NEW lo \in Nat, NEW idx \in Nat, NEW s,
         s = LazySnapshot(from, to, lo, idx)
  PROVE s \in SnapshotSet /\ s # None /\ IsLazy(s) /\ s.from = from /\ s.to = to /\ s.lo = lo /\ s.idx = idx
<1>1. s \in SnapshotSet /\ IsLazy(s) /\ s.from = from /\ s.to = to /\ s.lo = lo /\ s.idx = idx
  BY DEF LazySnapshot, SnapshotSet, IsLazy
<1>2. s # None
  BY <1>1, ConstantsAre
<1> QED BY <1>1, <1>2

\* The fields of an owned snapshot.
LEMMA OwnedIs ==
  ASSUME NEW from \in Nat, NEW to \in Nat, NEW idx \in Nat, NEW data \in Seq(Content), NEW s,
         s = OwnedSnapshot(from, to, idx, data)
  PROVE s \in SnapshotSet /\ s # None /\ ~IsLazy(s) /\ s.from = from /\ s.to = to /\ s.idx = idx /\ s.data = data
<1>1. s \in SnapshotSet /\ s.from = from /\ s.to = to /\ s.idx = idx /\ s.data = data
  BY DEF OwnedSnapshot, SnapshotSet
<1>2. s # None /\ ~IsLazy(s)
  BY <1>1, ConstantsAre DEF IsLazy
<1> QED BY <1>1, <1>2

\* KVCache.Snapshot names slots the buffer has.
LEMMA KVSnapshotFits ==
  ASSUME NEW L \in LayerType, NEW from \in Nat, NEW to \in Nat, to <= Len(L.buf)
  PROVE LET s == KVSnapshot(L, from, to) IN Fit("kv", L, s) /\ (s # None => s.to = to)
<1> DEFINE s == KVSnapshot(L, from, to)
<1>1. CASE L.buf = <<>> \/ to <= from
  BY <1>1 DEF KVSnapshot, Fit
<1>2. CASE ~(L.buf = <<>> \/ to <= from)
  <2>1. s = LazySnapshot(from, to, from, 0)
    BY <1>2 DEF KVSnapshot
  <2> HIDE DEF s
  <2>2. s \in SnapshotSet /\ s # None /\ IsLazy(s) /\ s.from = from /\ s.to = to /\ s.lo = from
    <3> DEFINE z == 0
    <3>1. z \in Nat /\ s = LazySnapshot(from, to, from, z)
      BY <2>1
    <3> HIDE DEF z
    <3>2. from \in Nat /\ to \in Nat
      OBVIOUS
    <3> QED BY ONLY <3>1, <3>2, LazyIs
  <2>3. SnapFits("kv", Len(L.buf), s)
    BY <1>2, <2>2 DEF SnapFits
  <2> QED BY <2>2, <2>3 DEF Fit, s
<1> QED BY <1>1, <1>2

\* RotatingKVCache.Snapshot clones a window that can be restored.
LEMMA RotSnapshotFits ==
  ASSUME NEW L, LayerOK("rot", L), NEW from \in Nat
  PROVE LET s == RotSnapshot(L, from)
        IN Fit("rot", L, s) /\ (s # None => s.to = L.off) /\ (L.buf # <<>> /\ from < L.off => s # None)
<1> DEFINE s == RotSnapshot(L, from)
           b == RotState(L)
<1>0. L \in LayerType /\ RotFits(L.off, Len(L.buf), L.idx)
  BY DEF LayerOK, Fits, Shape
<1>1. L.off \in Nat /\ L.buf \in Seq(Content) /\ Len(L.buf) \in Nat /\ L.idx \in Nat /\ Window \in Nat
  BY <1>0, LayerIs, ConstantsAre
<1>2. CASE L.buf = <<>> \/ L.off <= from
  BY <1>1, <1>2 DEF RotSnapshot, Fit
<1>3. CASE ~(L.buf = <<>> \/ L.off <= from)
  <2>1. s = OwnedSnapshot(from, L.off, L.idx, b)
    BY <1>3 DEF RotSnapshot
  <2> DEFINE e == Least(L.off, Len(L.buf))
  <2>2. e \in Nat /\ e <= Len(L.buf) /\ RotFits(L.off, e, L.idx)
    BY <1>0, <1>1 DEF RotFits, Least
  <2>3. b = SubSeq(L.buf, 1, e)
    BY DEF RotState
  <2> HIDE DEF e, b
  <2>4. b \in Seq(Content) /\ Len(b) = e
    BY <1>1, <2>2, <2>3, SubIs
  <2> HIDE DEF s
  <2>5. s \in SnapshotSet /\ s # None /\ ~IsLazy(s) /\ s.to = L.off /\ s.idx = L.idx /\ s.data = b
    <3> DEFINE f == L.off
               i == L.idx
    <3>1. f \in Nat /\ i \in Nat /\ s = OwnedSnapshot(from, f, i, b)
      BY <1>1, <2>1
    <3> HIDE DEF f, i
    <3>2. s \in SnapshotSet /\ s # None /\ ~IsLazy(s) /\ s.to = f /\ s.idx = i /\ s.data = b
      BY <2>4, <3>1, OwnedIs
    <3> QED BY <3>2 DEF f, i
  <2>6. SnapFits("rot", Len(L.buf), s)
    BY <2>2, <2>4, <2>5 DEF SnapFits
  <2> QED BY <2>5, <2>6 DEF Fit, s
<1> QED BY <1>2, <1>3

\* A RecurrentCache's snapshot holds a state.
LEMMA RnnSnapshotFits ==
  ASSUME NEW L, NEW state \in Content, NEW o \in Nat
  PROVE LET s == RnnSnapshot(state, o) IN Fit("rnn", L, s) /\ s # None /\ s.to = o
<1> DEFINE s == RnnSnapshot(state, o)
           b == <<state>>
<1>1. b \in Seq(Content) /\ b # <<>>
  OBVIOUS
<1>2. s = OwnedSnapshot(0, o, 0, b)
  BY DEF RnnSnapshot
<1> HIDE DEF b
<1>3. s \in SnapshotSet /\ s # None /\ ~IsLazy(s) /\ s.to = o /\ s.data = b
  BY <1>1, <1>2, OwnedIs
<1> HIDE DEF s
<1>4. SnapFits("rnn", Len(L.buf), s)
  BY <1>1, <1>3 DEF SnapFits
<1> QED BY <1>3, <1>4 DEF Fit, s

\* RecurrentCache.Snapshot holds the current state.
LEMMA RnnCurrentFits ==
  ASSUME NEW L \in LayerType
  PROVE LET s == RnnCurrent(L) IN Fit("rnn", L, s) /\ (s # None => s.to = L.off) /\ (L.buf # <<>> => s # None)
<1>1. L.off \in Nat /\ L.buf \in Seq(Content)
  BY LayerIs
<1>2. CASE L.buf = <<>>
  BY <1>2 DEF RnnCurrent, Fit
<1>3. CASE L.buf # <<>>
  <2>1. L.buf[1] \in Content
    <3>1. Len(L.buf) \in Nat /\ Len(L.buf) # 0
      BY <1>1, <1>3, EmptySeq
    <3> QED BY <1>1, <3>1
  <2>2. RnnCurrent(L) = RnnSnapshot(L.buf[1], L.off)
    BY <1>3 DEF RnnCurrent
  <2> QED BY <1>1, <1>3, <2>1, <2>2, RnnSnapshotFits
<1> QED BY <1>2, <1>3

\* Snapshot of any kind can be restored.
LEMMA SnapshotFits ==
  ASSUME NEW k \in Kinds, NEW L, LayerOK(k, L), NEW from \in Nat
  PROVE Fit(k, L, Snapshot(k, L, from))
<1>0. L \in LayerType /\ L.off \in Nat /\ Len(L.buf) \in Nat
  <2>1. L \in LayerType BY DEF LayerOK, Fits
  <2> QED BY <2>1, LayerIs
<1>1. CASE k = "kv"
  <2>1. L.off <= Len(L.buf)
    BY <1>1 DEF LayerOK, Fits, Shape
  <2>2. Snapshot(k, L, from) = KVSnapshot(L, from, L.off)
    BY <1>1 DEF Snapshot
  <2> QED BY <1>0, <1>1, <2>1, <2>2, KVSnapshotFits
<1>2. CASE k = "rot"
  <2>1. Snapshot(k, L, from) = RotSnapshot(L, from)
    BY <1>2 DEF Snapshot
  <2> QED BY <1>2, <2>1, RotSnapshotFits
<1>3. CASE k = "rnn"
  <2>1. Snapshot(k, L, from) = RnnCurrent(L)
    BY <1>3 DEF Snapshot
  <2> QED BY <1>0, <1>3, <2>1, RnnCurrentFits
<1> QED BY <1>1, <1>2, <1>3 DEF Kinds

\* Merge of two snapshots that fit fits.
LEMMA MergeFits ==
  ASSUME NEW k \in Kinds, NEW L \in LayerType, NEW p, NEW c, Fit(k, L, p), Fit(k, L, c)
  PROVE Fit(k, L, Merge(k, L, p, c))
<1>1. CASE k # "kv"
  BY <1>1 DEF Merge
<1>2. CASE k = "kv" /\ (p = None \/ c = None)
  BY <1>2 DEF Merge, KVMerge, Fit
<1>3. CASE k = "kv" /\ p # None /\ c # None
  <2> DEFINE r == Merge(k, L, p, c)
  <2>1. /\ p \in SnapshotSet /\ c \in SnapshotSet /\ SnapFits("kv", Len(L.buf), p) /\ SnapFits("kv", Len(L.buf), c)
    BY <1>3 DEF Fit
  <2>2. p.from \in Nat /\ p.to \in Nat /\ c.from \in Nat /\ c.to \in Nat /\ Len(L.buf) \in Nat
    BY <2>1, SnapshotIs, LayerIs
  <2>3. CASE IsLazy(p) /\ IsLazy(c) /\ p.to = c.from
    <3>1. r = LazySnapshot(p.from, c.to, p.from, 0)
      BY <1>3, <2>3 DEF Merge, KVMerge
    <3> HIDE DEF r
    <3>2. r \in SnapshotSet /\ r # None /\ IsLazy(r) /\ r.from = p.from /\ r.to = c.to /\ r.lo = p.from
      <4> DEFINE z == 0
                 a == p.from
                 e == c.to
      <4>1. z \in Nat /\ a \in Nat /\ e \in Nat /\ r = LazySnapshot(a, e, a, z)
        BY <2>2, <3>1
      <4> HIDE DEF a, e, z
      <4>2. r \in SnapshotSet /\ r # None /\ IsLazy(r) /\ r.from = a /\ r.to = e /\ r.lo = a
        BY <4>1, LazyIs
      <4> QED BY <4>2 DEF a, e
    <3>3. p.from <= c.to /\ c.to <= Len(L.buf)
      BY <2>1, <2>2, <2>3 DEF SnapFits
    <3>4. SnapFits("kv", Len(L.buf), r)
      BY <3>2, <3>3 DEF SnapFits
    <3> QED BY <1>3, <3>2, <3>4 DEF Fit, r
  <2>4. CASE ~(IsLazy(p) /\ IsLazy(c) /\ p.to = c.from)
    <3> DEFINE b == Data(L, p) \o Data(L, c)
    <3>1. r = OwnedSnapshot(p.from, c.to, 0, b)
      BY <1>3, <2>4 DEF Merge, KVMerge
    <3>2. b \in Seq(Content)
      <4>1. Data(L, p) \in Seq(Content) /\ Data(L, c) \in Seq(Content)
        BY <2>1, DataIs
      <4> QED BY <4>1, ConcatProperties
    <3> HIDE DEF b
    <3>3. r \in SnapshotSet /\ r # None /\ ~IsLazy(r)
      BY <2>2, <3>1, <3>2, OwnedIs
    <3> HIDE DEF r
    <3>4. SnapFits("kv", Len(L.buf), r)
      BY <3>3 DEF SnapFits
    <3> QED BY <1>3, <3>3, <3>4 DEF Fit, r
  <2> QED BY <2>3, <2>4
<1> QED BY <1>1, <1>2, <1>3

\* Both halves of a split fit.
LEMMA SplitFits ==
  ASSUME NEW k \in Kinds, NEW L \in LayerType, NEW s, Fit(k, L, s), NEW at \in Nat
  PROVE Fit(k, L, Split(k, L, s, at)[1]) /\ Fit(k, L, Split(k, L, s, at)[2])
<1>0. Fit(k, L, None)
  BY DEF Fit
<1>1. CASE k # "kv"
  <2>1. Split(k, L, s, at) = <<None, s>>
    BY <1>1 DEF Split
  <2> QED BY <1>0, <2>1
<1>2. CASE k = "kv" /\ s = None
  <2>1. Split(k, L, s, at) = <<None, None>>
    BY <1>2 DEF Split, KVSplit
  <2> QED BY <1>0, <2>1
<1>3. CASE k = "kv" /\ s # None
  <2>1. s \in SnapshotSet /\ SnapFits("kv", Len(L.buf), s) /\ s.from \in Nat /\ s.to \in Nat /\ Len(L.buf) \in Nat
    BY <1>3, SnapshotIs, LayerIs DEF Fit
  <2>2. CASE at <= s.from
    <3>1. Split(k, L, s, at) = <<None, s>>
      BY <1>3, <2>1, <2>2 DEF Split, KVSplit
    <3> QED BY <1>0, <3>1
  <2>3. CASE ~(at <= s.from) /\ at >= s.to
    <3>1. Split(k, L, s, at) = <<s, None>>
      BY <1>3, <2>1, <2>3 DEF Split, KVSplit
    <3> QED BY <1>0, <3>1
  <2>4. CASE ~(at <= s.from) /\ ~(at >= s.to) /\ IsLazy(s)
    <3> DEFINE u == LazySnapshot(s.from, at, s.from, 0)
               v == LazySnapshot(at, s.to, at, 0)
    <3>1. Split(k, L, s, at) = <<u, v>>
      BY <1>3, <2>4 DEF Split, KVSplit
    <3>2. /\ u \in SnapshotSet /\ u # None /\ IsLazy(u) /\ u.from = s.from /\ u.to = at /\ u.lo = s.from
          /\ v \in SnapshotSet /\ v # None /\ IsLazy(v) /\ v.from = at /\ v.to = s.to /\ v.lo = at
      <4> DEFINE z == 0
                 a == s.from
                 e == s.to
      <4>1. z \in Nat /\ a \in Nat /\ e \in Nat /\ u = LazySnapshot(a, at, a, z) /\ v = LazySnapshot(at, e, at, z)
        BY <2>1
      <4> HIDE DEF u, v, a, e, z
      <4>2. /\ u \in SnapshotSet /\ u # None /\ IsLazy(u) /\ u.from = a /\ u.to = at /\ u.lo = a
            /\ v \in SnapshotSet /\ v # None /\ IsLazy(v) /\ v.from = at /\ v.to = e /\ v.lo = at
        BY <4>1, LazyIs
      <4> QED BY <4>2 DEF a, e
    <3> HIDE DEF u, v
    <3>3. SnapFits("kv", Len(L.buf), u) /\ SnapFits("kv", Len(L.buf), v)
      BY <2>1, <2>4, <3>2 DEF SnapFits
    <3>4. Fit(k, L, u) /\ Fit(k, L, v)
      BY <1>3, <3>2, <3>3 DEF Fit
    <3> QED BY <3>1, <3>4
  <2>5. CASE ~(at <= s.from) /\ ~(at >= s.to) /\ ~IsLazy(s)
    <3> DEFINE e == Least(Len(s.data), s.to - s.from)
               kept == SubSeq(s.data, 1, e)
               upper == Least(at - s.from, Len(kept))
               x == SubSeq(kept, 1, upper)
               y == SubSeq(kept, upper + 1, Len(kept))
               u == OwnedSnapshot(s.from, at, 0, x)
               v == OwnedSnapshot(at, s.to, 0, y)
    <3>1. Split(k, L, s, at) = <<u, v>>
      BY <1>3, <2>5 DEF Split, KVSplit
    <3>2. s.data \in Seq(Content) /\ Len(s.data) \in Nat
      BY <2>1, <2>5, SnapshotIs
    <3>3. e \in Nat /\ e <= Len(s.data)
      BY <2>1, <2>5, <3>2 DEF Least
    <3> HIDE DEF e
    <3>4. kept \in Seq(Content) /\ Len(kept) \in Nat
      BY <3>2, <3>3, SubIs
    <3> HIDE DEF kept
    <3>5. upper \in Nat /\ upper <= Len(kept)
      BY <2>1, <2>5, <3>4 DEF Least
    <3> HIDE DEF upper
    <3>6. x \in Seq(Content) /\ y \in Seq(Content)
      <4>1. upper + 1 \in Nat /\ upper + 1 > 0
        BY <3>5
      <4> QED BY <3>4, <3>5, <4>1, SubIs
    <3> HIDE DEF x, y
    <3>7. u \in SnapshotSet /\ u # None /\ ~IsLazy(u) /\ v \in SnapshotSet /\ v # None /\ ~IsLazy(v)
      <4> DEFINE z == 0
                 a == s.from
                 w == s.to
      <4>1. z \in Nat /\ a \in Nat /\ w \in Nat /\ u = OwnedSnapshot(a, at, z, x) /\ v = OwnedSnapshot(at, w, z, y)
        BY <2>1
      <4> HIDE DEF u, v, a, w, z
      <4>2. at \in Nat /\ x \in Seq(Content) /\ y \in Seq(Content)
        BY <3>6
      <4>3. u \in SnapshotSet /\ u # None /\ ~IsLazy(u)
        BY ONLY <4>1, <4>2, OwnedIs
      <4>4. v \in SnapshotSet /\ v # None /\ ~IsLazy(v)
        <5>1. at \in Nat /\ w \in Nat /\ z \in Nat /\ y \in Seq(Content)
          BY <4>1, <4>2
        <5>2. v = OwnedSnapshot(at, w, z, y)
          BY <4>1
        <5> QED BY ONLY <5>1, <5>2, OwnedIs
      <4> QED BY <4>3, <4>4
    <3> HIDE DEF u, v
    <3>8. SnapFits("kv", Len(L.buf), u) /\ SnapFits("kv", Len(L.buf), v)
      BY <3>7 DEF SnapFits
    <3>9. Fit(k, L, u) /\ Fit(k, L, v)
      BY <1>3, <3>7, <3>8 DEF Fit
    <3> QED BY <3>1, <3>9
  <2> QED BY <2>1, <2>2, <2>3, <2>4, <2>5
<1> QED BY <1>1, <1>2, <1>3

-----------------------------------------------------------------------------
(* Schedules                                                                 *)

IsRetaken(R, L, due, base, T) == R = [L EXCEPT !.due = due, !.base = base, !.taken = T]

SameLive(L, R) ==
  /\ R.off = L.off /\ R.buf = L.buf /\ R.idx = L.idx /\ R.rewound = L.rewound /\ R.snap = L.snap
  /\ L.spoiled => R.spoiled

\* A layer with another schedule.
LEMMA Retaken ==
  ASSUME NEW k, NEW L, LayerOK(k, L), NEW due \in SUBSET Nat, NEW base \in Nat,
         NEW T \in Maps(Nat, SnapshotSet), NEW R, IsRetaken(R, L, due, base, T),
         \A o \in DOMAIN T : SnapFits(k, Len(L.buf), T[o]) /\ T[o].to = o
  PROVE LayerOK(k, R) /\ TakenFits(k, R) /\ SameLive(L, R) /\ R.due = due /\ R.base = base /\ R.taken = T
<1>1. L \in LayerType
  BY DEF LayerOK, Fits
<1>2. /\ R \in LayerType /\ SameLive(L, R) /\ R.bytes = L.bytes /\ R.due = due /\ R.base = base /\ R.taken = T
  BY <1>1 DEF LayerType, IsRetaken, SameLive
<1>3. LayerOK(k, R)
  BY <1>2 DEF LayerOK, Fits, Shape, SameLive
<1>4. TakenFits(k, R)
  BY <1>2 DEF TakenFits, SameLive
<1> QED BY <1>2, <1>3, <1>4

Kept(k, L, o, s) == Fit(k, L, s) /\ (s # None => s.to = o)

\* A capture is kept once, at its offset.
LEMMA CaptureOK ==
  ASSUME NEW k, NEW L, LayerOK(k, L), TakenFits(k, L), NEW o \in Nat, NEW s, Kept(k, L, o, s)
  PROVE LET R == Capture(L, o, s)
        IN /\ LayerOK(k, R) /\ TakenFits(k, R) /\ SameLive(L, R) /\ R.due = L.due /\ R.base = L.base
           /\ DOMAIN R.taken = DOMAIN L.taken \cup (IF o \in L.due /\ s # None THEN {o} ELSE {})
<1> DEFINE R == Capture(L, o, s)
           T == With(L.taken, o, s)
<1>0. L \in LayerType
  BY DEF LayerOK, Fits
<1>1. L.taken \in Maps(Nat, SnapshotSet) /\ L.due \in SUBSET Nat /\ L.base \in Nat
  BY <1>0, LayerIs
<1>2. CASE ~(o \in L.due /\ o \notin DOMAIN L.taken)
  <2>1. R = L
    BY <1>2 DEF Capture
  <2> HIDE DEF R
  <2> QED BY <1>2, <2>1 DEF SameLive, R
<1>3. CASE o \in L.due /\ o \notin DOMAIN L.taken
  <2>1. R = [L EXCEPT !.taken = T]
    BY <1>3 DEF Capture
  <2>2. s \in SnapshotSet \cup {None} /\ (s # None => SnapFits(k, Len(L.buf), s) /\ s.to = o)
    BY DEF Kept, Fit
  <2>3. T \in Maps(Nat, SnapshotSet) /\ IsWith(T, L.taken, o, s)
    BY <1>1, <2>2, WithIs
  <2> HIDE DEF T, R
  <2>4. /\ DOMAIN T = DOMAIN L.taken \cup (IF s # None THEN {o} ELSE {})
        /\ \A x \in DOMAIN T : T[x] = IF x = o THEN s ELSE L.taken[x]
    BY <1>3, <2>3 DEF IsWith
  <2>5. IsRetaken(R, L, L.due, L.base, T)
    BY <1>0, <2>1 DEF IsRetaken, LayerType
  <2>6. \A x \in DOMAIN T : SnapFits(k, Len(L.buf), T[x]) /\ T[x].to = x
    BY <1>3, <2>2, <2>4 DEF TakenFits
  <2>7. LayerOK(k, R) /\ TakenFits(k, R) /\ SameLive(L, R) /\ R.due = L.due /\ R.base = L.base /\ R.taken = T
    BY <1>1, <2>3, <2>5, <2>6, Retaken
  <2> QED BY <1>3, <2>4, <2>7 DEF R
<1> QED BY <1>2, <1>3

\* Captures at several offsets.
LEMMA CaptureAllOK ==
  ASSUME NEW k, NEW L, LayerOK(k, L), TakenFits(k, L), NEW S, DOMAIN S \in SUBSET Nat,
         \A o \in DOMAIN S : Kept(k, L, o, S[o])
  PROVE LET R == CaptureAll(L, S)
        IN /\ LayerOK(k, R) /\ TakenFits(k, R) /\ SameLive(L, R) /\ R.due = L.due /\ R.base = L.base
           /\ DOMAIN R.taken = DOMAIN L.taken \cup {o \in DOMAIN S : S[o] # None}
<1> DEFINE R == CaptureAll(L, S)
           new == {o \in DOMAIN S \ DOMAIN L.taken : S[o] # None}
           T == [o \in DOMAIN L.taken \cup new |-> IF o \in new THEN S[o] ELSE L.taken[o]]
<1>0. L \in LayerType
  BY DEF LayerOK, Fits
<1>1. /\ L.taken \in Maps(Nat, SnapshotSet) /\ L.due \in SUBSET Nat /\ L.base \in Nat
      /\ DOMAIN L.taken \in SUBSET Nat /\ \A o \in DOMAIN L.taken : L.taken[o] \in SnapshotSet
  BY <1>0, LayerIs
<1>2. R = [L EXCEPT !.taken = T]
  BY DEF CaptureAll
<1>3. DOMAIN T = DOMAIN L.taken \cup {o \in DOMAIN S : S[o] # None} /\ DOMAIN T \in SUBSET Nat
      /\ T = [o \in DOMAIN T |-> T[o]]
  BY <1>1
<1>4. ASSUME NEW o \in DOMAIN T PROVE T[o] \in SnapshotSet /\ SnapFits(k, Len(L.buf), T[o]) /\ T[o].to = o
  <2>1. CASE o \in new
    <3>1. T[o] = S[o] /\ o \in DOMAIN S /\ S[o] # None
      BY <2>1
    <3> QED BY <3>1 DEF Kept, Fit
  <2>2. CASE o \notin new
    <3>1. T[o] = L.taken[o] /\ o \in DOMAIN L.taken
      BY <2>2
    <3> HIDE DEF T
    <3> QED BY <1>1, <3>1 DEF TakenFits
  <2> QED BY <2>1, <2>2
<1> HIDE DEF T, R, new
<1>5. T \in Maps(Nat, SnapshotSet)
  BY <1>3, <1>4, MapsAre
<1>6. IsRetaken(R, L, L.due, L.base, T)
  BY <1>0, <1>2 DEF IsRetaken, LayerType
<1>7. LayerOK(k, R) /\ TakenFits(k, R) /\ SameLive(L, R) /\ R.due = L.due /\ R.base = L.base /\ R.taken = T
  BY <1>1, <1>4, <1>5, <1>6, Retaken
<1> QED BY <1>3, <1>7 DEF R

\* Taking the captures leaves no schedule.
LEMMA DrainedOK ==
  ASSUME NEW k, NEW L, LayerOK(k, L)
  PROVE LET R == Drained(L) IN LayerOK(k, R) /\ TakenFits(k, R) /\ SameLive(L, R) /\ Quiet(R)
<1> DEFINE R == Drained(L)
<1>0. L \in LayerType
  BY DEF LayerOK, Fits
<1>1. R = [L EXCEPT !.due = {}, !.taken = <<>>] /\ L.base \in Nat /\ {} \in SUBSET Nat
  BY <1>0, LayerIs DEF Drained
<1>2. IsRetaken(R, L, {}, L.base, <<>>)
  BY <1>0, <1>1 DEF IsRetaken, LayerType
<1> HIDE DEF R
<1>3. <<>> \in Maps(Nat, SnapshotSet) /\ \A o \in DOMAIN <<>> : SnapFits(k, Len(L.buf), <<>>[o]) /\ <<>>[o].to = o
  BY EmptyMap
<1>4. LayerOK(k, R) /\ TakenFits(k, R) /\ SameLive(L, R) /\ R.due = {} /\ R.taken = <<>>
  <2> DEFINE none == {}
             T == <<>>
  <2>1. /\ none \in SUBSET Nat /\ T \in Maps(Nat, SnapshotSet) /\ IsRetaken(R, L, none, L.base, T) /\ L.base \in Nat
        /\ \A o \in DOMAIN T : SnapFits(k, Len(L.buf), T[o]) /\ T[o].to = o
    BY <1>1, <1>2, <1>3
  <2> HIDE DEF none, T
  <2>2. LayerOK(k, R) /\ TakenFits(k, R) /\ SameLive(L, R) /\ R.due = none /\ R.taken = T
    BY <2>1, Retaken
  <2> QED BY <2>2 DEF none, T
<1> QED BY <1>4 DEF Quiet, R

\* PrepareSnapshots, which captures a recurrent state that is due at once.
LEMMA PrepareOK ==
  ASSUME NEW k \in Kinds, NEW L, LayerOK(k, L), NEW offsets \in SUBSET Nat
  PROVE LET R == PrepareSnapshots(k, L, offsets)
        IN /\ LayerOK(k, R) /\ TakenFits(k, R) /\ SameLive(L, R) /\ R.due = offsets
           /\ k = "rnn" /\ L.off \in offsets /\ L.buf # <<>> => L.off \in DOMAIN R.taken
<1> DEFINE P == [L EXCEPT !.due = offsets, !.base = L.off, !.taken = <<>>]
           R == PrepareSnapshots(k, L, offsets)
<1>0. L \in LayerType /\ L.off \in Nat
  <2>1. L \in LayerType BY DEF LayerOK, Fits
  <2> QED BY <2>1, LayerIs
<1>1. LayerOK(k, P) /\ TakenFits(k, P) /\ SameLive(L, P) /\ P.due = offsets
  <2> DEFINE T == <<>>
             b == L.off
  <2>1. IsRetaken(P, L, offsets, b, T) /\ b \in Nat
    BY <1>0 DEF IsRetaken
  <2>2. T \in Maps(Nat, SnapshotSet) /\ \A o \in DOMAIN T : SnapFits(k, Len(L.buf), T[o]) /\ T[o].to = o
    BY EmptyMap
  <2> HIDE DEF T, b, P
  <2> QED BY <2>1, <2>2, Retaken
<1>2. CASE k # "rnn"
  <2>1. R = P
    BY <1>2 DEF PrepareSnapshots
  <2> HIDE DEF P
  <2> QED BY <1>1, <1>2, <2>1
<1>3. CASE k = "rnn"
  <2> DEFINE s == RnnCurrent(P)
  <2>1. R = Capture(P, L.off, s)
    BY <1>3 DEF PrepareSnapshots
  <2> HIDE DEF P
  <2>2. P \in LayerType /\ P.off = L.off /\ P.buf = L.buf
    BY <1>1 DEF LayerOK, Fits, SameLive
  <2>3. Fit(k, P, s) /\ (s # None => s.to = P.off) /\ (P.buf # <<>> => s # None)
    BY <1>3, <2>2, RnnCurrentFits
  <2> HIDE DEF s, R
  <2>4. Kept(k, P, L.off, s)
    BY <2>2, <2>3 DEF Kept
  <2>5. /\ LayerOK(k, R) /\ TakenFits(k, R) /\ SameLive(P, R) /\ R.due = P.due
        /\ DOMAIN R.taken = DOMAIN P.taken \cup (IF L.off \in P.due /\ s # None THEN {L.off} ELSE {})
    BY <1>0, <1>1, <2>1, <2>4, CaptureOK
  <2> QED BY <1>1, <2>2, <2>3, <2>5 DEF SameLive, R
<1> QED BY <1>2, <1>3

\* A mark changes nothing else of a layer.
LEMMA SpoiledOK ==
  ASSUME NEW k, NEW L, LayerOK(k, L), NEW b \in BOOLEAN, L.spoiled => b, NEW R, R = [L EXCEPT !.spoiled = b]
  PROVE LayerOK(k, R) /\ SameLive(L, R) /\ R.due = L.due /\ R.base = L.base /\ R.taken = L.taken
<1>0. L \in LayerType
  BY DEF LayerOK, Fits
<1>1. R \in LayerType /\ SameLive(L, R) /\ R.bytes = L.bytes /\ R.due = L.due /\ R.base = L.base /\ R.taken = L.taken
  BY <1>0 DEF LayerType, SameLive
<1>2. LayerOK(k, R)
  BY <1>1 DEF LayerOK, Fits, Shape, SameLive
<1> QED BY <1>1, <1>2

\* A merge of snapshots marks at most that they overlap.
LEMMA MergedOK ==
  ASSUME NEW k, NEW L, LayerOK(k, L), NEW p, NEW c
  PROVE LET R == Merged(k, L, p, c)
        IN LayerOK(k, R) /\ SameLive(L, R) /\ R.due = L.due /\ R.base = L.base /\ R.taken = L.taken
<1> DEFINE R == Merged(k, L, p, c)
           b == L.spoiled \/ Overlap(p, c)
<1>0. L \in LayerType
  BY DEF LayerOK, Fits
<1>1. CASE k # "kv"
  <2>1. R = L
    BY <1>1 DEF Merged
  <2> HIDE DEF R
  <2> QED BY <2>1 DEF SameLive, R
<1>2. CASE k = "kv"
  <2>1. R = [L EXCEPT !.spoiled = b] /\ b \in BOOLEAN /\ (L.spoiled => b)
    BY <1>2 DEF Merged
  <2> HIDE DEF R, b
  <2> QED BY <2>1, SpoiledOK DEF R
<1> QED BY <1>1, <1>2

\* The greatest element of a finite set of integers.
LEMMA MaxOf ==
  ASSUME NEW S, S \in SUBSET Int, IsFiniteSet(S), S # {}
  PROVE Max(S) \in S /\ \A y \in S : y <= Max(S)
<1> DEFINE f == [q \in S |-> q]
<1>1. f \in [S -> Int]
  OBVIOUS
<1>2. PICK x \in S : \A y \in S : f[y] <= f[x]
  <2> HIDE DEF f
  <2> QED BY <1>1, GreatestIn
<1>3. \A y \in S : y <= x
  BY <1>2
<1>4. \A y \in S : x >= y
  BY <1>3
<1>5. Max(S) \in S /\ \A y \in S : Max(S) >= y
  BY <1>4 DEF Max
<1> QED BY <1>5

\* A capture starts at an offset.
LEMMA CaptureFromIs ==
  ASSUME NEW L \in LayerType, NEW o \in Nat
  PROVE CaptureFrom(L, o) \in Nat
<1> DEFINE S == {L.base} \cup {d \in L.due : d < o}
<1>1. L.base \in Nat /\ L.due \in SUBSET Nat
  BY LayerIs
<1>2. IsFiniteSet(S)
  <2>1. S \in SUBSET (0 .. (L.base + o))
    BY <1>1
  <2>2. IsFiniteSet(0 .. (L.base + o))
    <3> DEFINE m == L.base + o
    <3>1. 0 \in Int /\ m \in Int
      BY <1>1
    <3> HIDE DEF m
    <3>2. IsFiniteSet(0 .. m)
      BY <3>1, FS_Interval
    <3> QED BY <3>2 DEF m
  <2> QED BY <2>1, <2>2, FS_Subset
<1>3. S \in SUBSET Int /\ S # {} /\ S \in SUBSET Nat
  BY <1>1
<1> HIDE DEF S
<1>4. Max(S) \in S
  BY <1>2, <1>3, MaxOf
<1> QED BY <1>3, <1>4 DEF S, CaptureFrom

-----------------------------------------------------------------------------
(* Forwards                                                                  *)

\* R is L after a write of n tokens.
Advanced(k, L, R, n) ==
  /\ LayerOK(k, R) /\ TakenFits(k, R)
  /\ R.off = L.off + n /\ DOMAIN R.snap = DOMAIN L.snap /\ R.due = L.due /\ (L.spoiled => R.spoiled)
  /\ DOMAIN L.taken \subseteq DOMAIN R.taken
  /\ L.due = {} => DOMAIN R.taken = DOMAIN L.taken
  /\ k # "kv" => \A o \in L.due : L.off < o /\ o <= L.off + n => o \in DOMAIN R.taken
  /\ k = "rot" /\ L.off > 0 /\ L.off \in L.due => L.off \in DOMAIN R.taken

\* A forward of a KVCache.
LEMMA KVForwardOK ==
  ASSUME NEW L, LayerOK("kv", L), TakenFits("kv", L), NEW data \in Seq(Content)
  PROVE Advanced("kv", L, KVForward(L, data), Len(data))
<1> DEFINE n == Len(data)
           A == KVAppend(L, data)
           S == [o \in Crossed(L, n) |-> KVSnapshot(A, CaptureFrom(A, o), o)]
           R == KVForward(L, data)
<1>1. LayerOK("kv", A) /\ TakenFits("kv", A) /\ Untouched(L, A) /\ A.off = L.off + n
  BY KVAppendOK
<1>2. R = CaptureAll(A, S)
  BY DEF KVForward
<1> HIDE DEF A, R
<1>3. L \in LayerType /\ A \in LayerType /\ A.off <= Len(A.buf)
  BY <1>1 DEF LayerOK, Fits, Shape
<1>4. L.off \in Nat /\ L.due \in SUBSET Nat /\ A.off \in Nat /\ Len(A.buf) \in Nat /\ n \in Nat
  BY <1>3, LayerIs
<1>5. DOMAIN S \in SUBSET Nat /\ DOMAIN S \in SUBSET L.due
  BY <1>4 DEF Crossed
<1>6. ASSUME NEW o \in DOMAIN S PROVE Kept("kv", A, o, S[o])
  <2>1. o \in Nat /\ o <= A.off
    BY <1>1, <1>4 DEF Crossed
  <2>2. CaptureFrom(A, o) \in Nat /\ o <= Len(A.buf)
    <3>1. CaptureFrom(A, o) \in Nat
      <4>1. A \in LayerType /\ o \in Nat
        BY <1>3, <2>1
      <4> QED BY ONLY <4>1, CaptureFromIs
    <3> QED BY <1>3, <1>4, <2>1, <3>1
  <2>3. S[o] = KVSnapshot(A, CaptureFrom(A, o), o)
    OBVIOUS
  <2> HIDE DEF S
  <2> QED BY <1>3, <2>1, <2>2, <2>3, KVSnapshotFits DEF Kept
<1> HIDE DEF S
<1>7. /\ LayerOK("kv", R) /\ TakenFits("kv", R) /\ SameLive(A, R) /\ R.due = A.due
      /\ DOMAIN R.taken = DOMAIN A.taken \cup {o \in DOMAIN S : S[o] # None}
  BY <1>1, <1>2, <1>5, <1>6, CaptureAllOK
<1> HIDE DEF n
<1> QED BY <1>1, <1>5, <1>7 DEF Advanced, Untouched, SameLive, R, n

\* A lazy capture of a window names slots that hold it.
LEMMA RotLazyFits ==
  ASSUME NEW A, LayerOK("rot", A), NEW off \in Nat, NEW o \in Nat, off < o, o <= A.off,
         A.off - Len(A.buf) <= off - Least(off, Window - 1), Len(A.buf) <= A.off
  PROVE LET s == RotLazySnapshot(A, o) IN Fit("rot", A, s) /\ s # None /\ s.to = o
<1> DEFINE live == Least(o, Window)
           from == o - live
           lo == o - live - (A.off - Len(A.buf))
           s == RotLazySnapshot(A, o)
<1>1. A \in LayerType
  BY DEF LayerOK, Fits
<1>2. A.off \in Nat /\ Len(A.buf) \in Nat /\ Window \in Nat /\ Window > 0
  BY <1>1, LayerIs, ConstantsAre
<1>3. /\ from \in Nat /\ lo \in Nat /\ live \in Nat /\ from <= o /\ o - from = live
      /\ lo + (o - from) <= Len(A.buf) /\ RotFits(o, o - from, live)
  <2> DEFINE m == Len(A.buf)
             e == A.off
  <2>1. /\ m \in Nat /\ e \in Nat /\ Window \in Nat /\ Window > 0 /\ off \in Nat /\ o \in Nat /\ off < o /\ o <= e
        /\ e - m <= off - Least(off, Window - 1) /\ m <= e
    BY <1>2
  <2>2. lo = o - live - (e - m)
    OBVIOUS
  <2> HIDE DEF m, e, lo
  <2>3. live \in Nat /\ from \in Nat /\ from <= o /\ o - from = live /\ live <= o /\ live <= Window
    BY <2>1 DEF Least
  <2>4. from >= off - Least(off, Window - 1)
    BY <2>1 DEF Least
  <2>5. RotFits(o, live, live)
    BY <2>1 DEF RotFits, Least
  <2> HIDE DEF live
  <2>6. off - Least(off, Window - 1) \in Int
    BY <2>1 DEF Least
  <2>7. lo \in Nat /\ lo + live <= m
    BY <2>1, <2>2, <2>3, <2>4, <2>6
  <2> QED BY <2>3, <2>5, <2>7 DEF m
<1>4. s = LazySnapshot(from, o, lo, live)
  BY DEF RotLazySnapshot
<1> HIDE DEF from, lo, live, s
<1>5. s \in SnapshotSet /\ s # None /\ IsLazy(s) /\ s.from = from /\ s.to = o /\ s.lo = lo /\ s.idx = live
  <2>1. o \in Nat /\ from \in Nat /\ lo \in Nat /\ live \in Nat
    BY <1>3
  <2> QED BY ONLY <1>4, <2>1, LazyIs
<1>6. SnapFits("rot", Len(A.buf), s)
  BY <1>3, <1>5 DEF SnapFits
<1> QED BY <1>5, <1>6 DEF Fit, s

\* A forward of a RotatingKVCache.
LEMMA RotForwardOK ==
  ASSUME NEW L, LayerOK("rot", L), TakenFits("rot", L), NEW data \in Seq(Content), Len(data) > 0
  PROVE Advanced("rot", L, RotForward(L, data), Len(data))
<1> DEFINE n == Len(data)
           s0 == RotSnapshot(L, 0)
           C == Capture(L, L.off, s0)
           A == RotAppend(C, data)
           S == [o \in Crossed(L, n) |-> IF n > 1 THEN RotLazySnapshot(A, o) ELSE RotSnapshot(A, o - Least(o, Window))]
           R == RotForward(L, data)
<1>0. L \in LayerType /\ RotFits(L.off, Len(L.buf), L.idx)
  BY DEF LayerOK, Fits, Shape
<1>1. L.off \in Nat /\ L.due \in SUBSET Nat /\ n \in Nat /\ n > 0 /\ L.buf \in Seq(Content) /\ Len(L.buf) \in Nat
      /\ Window \in Nat /\ Window > 0
  BY <1>0, LayerIs, ConstantsAre
<1>2. R = CaptureAll(A, S)
  BY DEF RotForward
<1>3. Kept("rot", L, L.off, s0) /\ (L.off > 0 => s0 # None)
  <2>1. 0 \in Nat OBVIOUS
  <2>2. Fit("rot", L, s0) /\ (s0 # None => s0.to = L.off) /\ (L.buf # <<>> /\ 0 < L.off => s0 # None)
    BY <2>1, RotSnapshotFits
  <2>3. L.off > 0 => L.buf # <<>> /\ 0 < L.off
    <3>1. L.off > 0 => Len(L.buf) > 0
      BY <1>0, <1>1 DEF RotFits
    <3> QED BY <1>1, <3>1, EmptySeq
  <2> HIDE DEF s0
  <2> QED BY <2>2, <2>3 DEF Kept
<1> HIDE DEF s0
<1>4. /\ LayerOK("rot", C) /\ TakenFits("rot", C) /\ SameLive(L, C) /\ C.due = L.due
      /\ DOMAIN C.taken = DOMAIN L.taken \cup (IF L.off \in L.due /\ s0 # None THEN {L.off} ELSE {})
  BY <1>1, <1>3, CaptureOK
<1> HIDE DEF C
<1>5. /\ LayerOK("rot", A) /\ TakenFits("rot", A) /\ Untouched(C, A) /\ A.off = C.off + n
      /\ n > 1 => A.off - Len(A.buf) <= C.off - Least(C.off, Window - 1) /\ Len(A.buf) <= A.off
      /\ n = 1 => Len(A.buf) > 0
  <2>1. CASE n > 1
    <3>1. A = RotConcat(C, data)
      BY <2>1 DEF RotAppend
    <3> QED BY <1>1, <1>4, <2>1, <3>1, RotConcatOK
  <2>2. CASE n = 1
    <3>1. A = RotUpdate(C, data[1]) /\ data[1] \in Content
      BY <2>2 DEF RotAppend
    <3> QED BY <1>1, <1>4, <2>2, <3>1, RotUpdateOK
  <2>3. n > 1 \/ n = 1
    <3> HIDE DEF n
    <3> QED BY <1>1
  <2> HIDE DEF n
  <2> QED BY <2>1, <2>2, <2>3
<1> HIDE DEF A, R
<1>6. C.off = L.off /\ A.off = L.off + n
  BY <1>4, <1>5 DEF SameLive
<1>7. A \in LayerType
  BY <1>5 DEF LayerOK, Fits
<1>8. A.off \in Nat /\ Len(A.buf) \in Nat /\ A.buf \in Seq(Content)
  BY <1>7, LayerIs
<1>9. DOMAIN S \in SUBSET Nat /\ DOMAIN S \in SUBSET L.due
  BY <1>1 DEF Crossed
<1>10. ASSUME NEW o \in DOMAIN S PROVE Kept("rot", A, o, S[o]) /\ S[o] # None
  <2>1. o \in Nat /\ L.off < o /\ o <= A.off
    BY <1>1, <1>6 DEF Crossed
  <2>2. CASE n > 1
    <3>1. S[o] = RotLazySnapshot(A, o)
      BY <2>2
    <3>2. A.off - Len(A.buf) <= L.off - Least(L.off, Window - 1) /\ Len(A.buf) <= A.off
      BY <1>5, <1>6, <2>2
    <3> HIDE DEF S, n
    <3> QED BY <1>1, <1>5, <2>1, <3>1, <3>2, RotLazyFits DEF Kept
  <2>3. CASE n = 1
    <3> DEFINE from == o - Least(o, Window)
    <3>1. S[o] = RotSnapshot(A, from)
      BY <2>3
    <3>2. A.off = o /\ from \in Nat /\ from < A.off
      BY <1>1, <1>6, <2>1, <2>3 DEF Least
    <3>3. A.buf # <<>>
      BY <1>5, <1>8, <2>3, EmptySeq
    <3> HIDE DEF S, n, from
    <3> QED BY <1>5, <3>1, <3>2, <3>3, RotSnapshotFits DEF Kept
  <2>4. n > 1 \/ n = 1
    <3> HIDE DEF n
    <3> QED BY <1>1
  <2> HIDE DEF n, S
  <2> QED BY <2>2, <2>3, <2>4
<1>11. \A o \in L.due : L.off < o /\ o <= L.off + n => o \in DOMAIN S
  BY <1>1 DEF Crossed
<1> HIDE DEF S
<1>12. /\ LayerOK("rot", R) /\ TakenFits("rot", R) /\ SameLive(A, R) /\ R.due = A.due
       /\ DOMAIN R.taken = DOMAIN A.taken \cup {o \in DOMAIN S : S[o] # None}
  BY <1>2, <1>5, <1>9, <1>10, CaptureAllOK
<1>13. DOMAIN A.taken = DOMAIN C.taken /\ DOMAIN A.snap = DOMAIN L.snap /\ A.due = L.due /\ (L.spoiled => A.spoiled)
  BY <1>4, <1>5 DEF Untouched, SameLive
<1>14. /\ DOMAIN R.snap = DOMAIN L.snap /\ R.due = L.due /\ R.off = L.off + n /\ (L.spoiled => R.spoiled)
       /\ DOMAIN R.taken = DOMAIN C.taken \cup DOMAIN S
  BY <1>6, <1>10, <1>12, <1>13 DEF SameLive
<1>15. /\ DOMAIN L.taken \subseteq DOMAIN R.taken
       /\ L.due = {} => DOMAIN R.taken = DOMAIN L.taken
  BY <1>4, <1>9, <1>14
<1>16. L.off > 0 /\ L.off \in L.due => L.off \in DOMAIN R.taken
  BY <1>3, <1>4, <1>14
<1>17. \A o \in L.due : L.off < o /\ o <= L.off + n => o \in DOMAIN R.taken
  BY <1>11, <1>14
<1> QED BY <1>12, <1>14, <1>15, <1>16, <1>17 DEF Advanced, R

\* A forward of a RecurrentCache.
LEMMA RnnForwardOK ==
  ASSUME NEW L, LayerOK("rnn", L), TakenFits("rnn", L), NEW tokens \in Seq(Token), Len(tokens) > 0
  PROVE Advanced("rnn", L, RnnForward(L, tokens), Len(tokens))
<1> DEFINE n == Len(tokens)
           end == L.off + n
           After(o) == RnnState(L) \o SubSeq(tokens, 1, o - L.off)
           buf == <<After(end)>>
           A == [L EXCEPT !.buf = buf, !.off = end]
           S == [o \in Crossed(L, n) |-> RnnSnapshot(After(o), o)]
           R == RnnForward(L, tokens)
<1>0. L \in LayerType
  BY DEF LayerOK, Fits
<1>1. L.off \in Nat /\ L.due \in SUBSET Nat /\ n \in Nat /\ n > 0 /\ L.buf \in Seq(Content) /\ L.idx \in Nat
  BY <1>0, LayerIs
<1>2. R = CaptureAll(A, S)
  BY DEF RnnForward
<1>3. RnnState(L) \in Seq(Token)
  <2>1. CASE L.buf = <<>>
    BY <2>1 DEF RnnState
  <2>2. CASE L.buf # <<>>
    <3>1. Len(L.buf) \in Nat /\ Len(L.buf) # 0
      BY <1>1, <2>2, EmptySeq
    <3>2. L.buf[1] \in Content
      BY <1>1, <3>1
    <3> QED BY <2>2, <3>2 DEF RnnState, Content
  <2> QED BY <2>1, <2>2
<1>4. ASSUME NEW o \in Nat, L.off < o, o <= end PROVE After(o) \in Content
  <2> DEFINE e == o - L.off
  <2>1. e \in Nat /\ e <= Len(tokens)
    BY <1>1, <1>4
  <2> HIDE DEF e
  <2>2. SubSeq(tokens, 1, e) \in Seq(Token)
    <3>1. \A i \in 1 .. e : tokens[i] \in Token
      BY <2>1
    <3>2. 1 \in Int /\ e \in Int
      BY <2>1
    <3> QED BY <3>1, <3>2, SubSeqProperties
  <2> QED BY <1>3, <2>2, ConcatProperties DEF e, Content
<1>5. buf \in Seq(Content) /\ buf # <<>> /\ end \in Nat
  <2>1. end \in Nat /\ L.off < end /\ end <= end
    BY <1>1
  <2>2. After(end) \in Content
    <3> HIDE DEF end, After
    <3> QED BY <1>4, <2>1
  <2> HIDE DEF After
  <2> QED BY <2>1, <2>2
<1>6. LayerOK("rnn", A) /\ TakenFits("rnn", A) /\ Untouched(L, A) /\ A.off = end
  <2> HIDE DEF buf, end
  <2>1. IsRewritten(A, L, buf, end, L.idx) /\ A.off = end /\ A.buf = buf
    BY <1>0 DEF IsRewritten, LayerType
  <2> HIDE DEF A
  <2>2. Shape("rnn", A)
    BY <1>5, <2>1 DEF Shape
  <2> QED BY <1>1, <1>5, <2>1, <2>2, NotLazyRnn, Rewritten
<1>9. DOMAIN S \in SUBSET Nat /\ DOMAIN S \in SUBSET L.due
  BY <1>1 DEF Crossed
<1>10. ASSUME NEW o \in DOMAIN S PROVE Kept("rnn", A, o, S[o]) /\ S[o] # None
  <2>1. o \in Nat /\ L.off < o /\ o <= end
    BY <1>1 DEF Crossed
  <2>2. S[o] = RnnSnapshot(After(o), o)
    OBVIOUS
  <2>3. After(o) \in Content
    BY <1>4, <2>1
  <2> HIDE DEF S, After, A
  <2> QED BY <2>1, <2>2, <2>3, RnnSnapshotFits DEF Kept
<1>11. \A o \in L.due : L.off < o /\ o <= end => o \in DOMAIN S
  BY <1>1 DEF Crossed
<1> HIDE DEF S, A, R, buf, After
<1>12. /\ LayerOK("rnn", R) /\ TakenFits("rnn", R) /\ SameLive(A, R) /\ R.due = A.due
       /\ DOMAIN R.taken = DOMAIN A.taken \cup {o \in DOMAIN S : S[o] # None}
  BY <1>2, <1>6, <1>9, <1>10, CaptureAllOK
<1>13. DOMAIN A.taken = DOMAIN L.taken /\ DOMAIN A.snap = DOMAIN L.snap /\ A.due = L.due /\ (L.spoiled => A.spoiled)
  BY <1>6 DEF Untouched
<1>14. /\ DOMAIN R.snap = DOMAIN L.snap /\ R.due = L.due /\ R.off = end /\ (L.spoiled => R.spoiled)
       /\ DOMAIN R.taken = DOMAIN L.taken \cup DOMAIN S
  BY <1>6, <1>10, <1>12, <1>13 DEF SameLive
<1>15. /\ DOMAIN L.taken \subseteq DOMAIN R.taken
       /\ L.due = {} => DOMAIN R.taken = DOMAIN L.taken
  BY <1>9, <1>14
<1>17. \A o \in L.due : L.off < o /\ o <= end => o \in DOMAIN R.taken
  BY <1>11, <1>14
<1> QED BY <1>12, <1>14, <1>15, <1>17 DEF Advanced, R

\* A forward of any kind: n tokens further, every due offset on the way captured.
LEMMA ForwardOK ==
  ASSUME NEW k \in Kinds, NEW L, LayerOK(k, L), TakenFits(k, L), NEW full \in Seq(Token),
         NEW n \in Nat, n > 0, n <= Len(full)
  PROVE Advanced(k, L, Forward(k, L, full, n), n)
<1> DEFINE new == Len(full) - n
           data == [i \in 1 .. n |-> SubSeq(full, 1, new + i)]
           tokens == SubSeq(full, new + 1, Len(full))
<1>1. new \in Nat /\ Len(full) \in Nat /\ new + n = Len(full)
  OBVIOUS
<1>2. data \in Seq(Content) /\ Len(data) = n
  <2> HIDE DEF new
  <2>1. ASSUME NEW i \in 1 .. n PROVE SubSeq(full, 1, new + i) \in Content
    <3> DEFINE e == new + i
    <3>1. e \in Nat /\ e <= Len(full)
      BY <1>1
    <3> HIDE DEF e
    <3>2. SubSeq(full, 1, e) \in Seq(Token)
      <4>1. \A j \in 1 .. e : full[j] \in Token
        BY <3>1
      <4>2. 1 \in Int /\ e \in Int
        BY <3>1
      <4> QED BY <4>1, <4>2, SubSeqProperties
    <3> QED BY <3>2 DEF e, Content
  <2> QED BY <2>1
<1>3. tokens \in Seq(Token) /\ Len(tokens) = n
  <2> DEFINE m == new + 1
             e == Len(full)
  <2>1. m \in Int /\ e \in Int /\ \A j \in m .. e : full[j] \in Token
    BY <1>1
  <2>2. tokens = SubSeq(full, m, e) /\ m <= e /\ (e - m) + 1 = n
    BY <1>1
  <2> HIDE DEF m, e, tokens, new
  <2>3. SubSeq(full, m, e) \in Seq(Token) /\ Len(SubSeq(full, m, e)) = IF m <= e THEN (e - m) + 1 ELSE 0
    BY <2>1, SubSeqProperties
  <2> QED BY <2>2, <2>3
<1>4. CASE k = "kv"
  <2>1. Forward(k, L, full, n) = KVForward(L, data)
    BY <1>4 DEF Forward
  <2> HIDE DEF data
  <2> QED BY <1>2, <1>4, <2>1, KVForwardOK
<1>5. CASE k = "rot"
  <2>1. Forward(k, L, full, n) = RotForward(L, data)
    BY <1>5 DEF Forward
  <2> HIDE DEF data
  <2> QED BY <1>2, <1>5, <2>1, RotForwardOK
<1>6. CASE k = "rnn"
  <2>1. Forward(k, L, full, n) = RnnForward(L, tokens)
    BY <1>6 DEF Forward
  <2> HIDE DEF tokens
  <2> QED BY <1>3, <1>6, <2>1, RnnForwardOK
<1> QED BY <1>4, <1>5, <1>6 DEF Kinds

-----------------------------------------------------------------------------
(* The cache: layers and trie                                                *)

CacheType ==
  [nodes : SUBSET Seq(Token), user : SUBSET Seq(Token), lastUsed : Maps(Seq(Token), Nat),
   frontier : Seq(Token), layer : [Layers -> LayerType]]

Sound(C) == C \in CacheType /\ \A k \in Layers : LayerOK(k, C.layer[k])

TreeOK(C) ==
  /\ Trie(C.nodes) /\ C.user \in SUBSET C.nodes /\ C.frontier \in C.nodes
  /\ DOMAIN C.lastUsed = C.nodes
  /\ \A k \in Layers : DOMAIN C.layer[k].snap \in SUBSET (C.nodes \ {Root})

CacheOK(C) == Sound(C) /\ TreeOK(C)

SameTree(C, D) ==
  D.nodes = C.nodes /\ D.user = C.user /\ D.lastUsed = C.lastUsed /\ D.frontier = C.frontier

\* The live arrays and the schedule of a layer.
SameRun(L, R) ==
  /\ R.off = L.off /\ R.buf = L.buf /\ R.idx = L.idx /\ R.due = L.due /\ R.taken = L.taken
  /\ L.spoiled => R.spoiled

SameRuns(C, D) == \A k \in Layers : SameRun(C.layer[k], D.layer[k])

\* The fields of the cache.
LEMMA CacheIs ==
  ASSUME NEW C \in CacheType
  PROVE /\ C.nodes \in SUBSET Seq(Token) /\ C.user \in SUBSET Seq(Token) /\ C.lastUsed \in Maps(Seq(Token), Nat)
        /\ C.frontier \in Seq(Token) /\ C.layer \in [Layers -> LayerType]
        /\ \A k \in Layers : C.layer[k] \in LayerType
        /\ \A n \in DOMAIN C.lastUsed : C.lastUsed[n] \in Nat
<1>1. /\ C.nodes \in SUBSET Seq(Token) /\ C.user \in SUBSET Seq(Token) /\ C.lastUsed \in Maps(Seq(Token), Nat)
      /\ C.frontier \in Seq(Token) /\ C.layer \in [Layers -> LayerType]
  BY DEF CacheType
<1>2. \A n \in DOMAIN C.lastUsed : C.lastUsed[n] \in Nat
  BY <1>1, MapsAre
<1> QED BY <1>1, <1>2

IsRelayered(D, C, f) == D = [C EXCEPT !.layer = f]

\* A cache whose layers are replaced, field by field.
LEMMA Relayered ==
  ASSUME NEW C \in CacheType, NEW f, f \in [Layers -> LayerType], NEW D, IsRelayered(D, C, f)
  PROVE D \in CacheType /\ SameTree(C, D) /\ D.layer = f
BY DEF CacheType, IsRelayered, SameTree

IsRetreed(D, C, nodes, user, lastUsed, frontier) ==
  D = [C EXCEPT !.nodes = nodes, !.user = user, !.lastUsed = lastUsed, !.frontier = frontier]

\* A cache whose trie is replaced, field by field.
LEMMA Retreed ==
  ASSUME NEW C \in CacheType, NEW nodes \in SUBSET Seq(Token), NEW user \in SUBSET Seq(Token),
         NEW lastUsed \in Maps(Seq(Token), Nat), NEW frontier \in Seq(Token), NEW D,
         IsRetreed(D, C, nodes, user, lastUsed, frontier)
  PROVE /\ D \in CacheType /\ D.nodes = nodes /\ D.user = user /\ D.lastUsed = lastUsed
        /\ D.frontier = frontier /\ D.layer = C.layer
BY DEF CacheType, IsRetreed

\* A snapshot fits a layer whatever happens to the other snapshots.
LEMMA SameRunIs ==
  ASSUME NEW L, NEW R, SameRun(L, R)
  PROVE /\ R.off = L.off /\ R.buf = L.buf /\ R.due = L.due /\ R.taken = L.taken
        /\ \A k : TakenFits(k, L) => TakenFits(k, R)
        /\ \A k, s : Fit(k, L, s) => Fit(k, R, s)
BY DEF SameRun, TakenFits, Fit

\* Trie operations compose.
LEMMA SameRunsTrans ==
  ASSUME NEW C, NEW D, NEW E, SameRuns(C, D), SameRuns(D, E)
  PROVE SameRuns(C, E)
BY DEF SameRuns, SameRun

\* What hangs on a node fits.
LEMMA HeldFits ==
  ASSUME NEW k, NEW L, LayerOK(k, L), NEW n
  PROVE Fit(k, L, At(L.snap, n)) /\ (At(L.snap, n) # None <=> n \in DOMAIN L.snap)
<1>1. L \in LayerType
  BY DEF LayerOK, Fits
<1>2. CASE n \in DOMAIN L.snap
  <2>1. L.snap[n] \in SnapshotSet /\ L.snap[n] # None /\ SnapFits(k, Len(L.buf), L.snap[n])
    <3>1. L.snap[n] \in SnapshotSet /\ SnapFits(k, Len(L.buf), L.snap[n])
      BY <1>1, <1>2, LayerIs DEF LayerOK, Fits
    <3> QED BY <3>1, SnapshotIs
  <2> QED BY <1>2, <2>1 DEF At, Fit
<1>3. CASE n \notin DOMAIN L.snap
  BY <1>3 DEF At, Fit
<1> QED BY <1>2, <1>3

\* The snapshots of a node are replaced in every layer.
LEMMA SetSnapshotsOK ==
  ASSUME NEW C, Sound(C), NEW n, NEW snaps, \A k \in Layers : Fit(k, C.layer[k], snaps[k]),
         n \in Nodes \/ \A k \in Layers : snaps[k] = None
  PROVE LET D == SetSnapshots(C, n, snaps)
        IN /\ Sound(D) /\ SameTree(C, D) /\ SameRuns(C, D)
           /\ \A k \in Layers : DOMAIN D.layer[k].snap
                = (DOMAIN C.layer[k].snap \ {n}) \cup (IF snaps[k] = None THEN {} ELSE {n})
<1> DEFINE f == [k \in Layers |-> SetSnapshot(C.layer[k], n, snaps[k])]
           D == SetSnapshots(C, n, snaps)
<1>0. C \in CacheType
  BY DEF Sound
<1>1. IsRelayered(D, C, f)
  BY <1>0 DEF SetSnapshots, EachLayer, IsRelayered, CacheType
<1>2. ASSUME NEW k \in Layers
      PROVE  /\ LayerOK(k, f[k]) /\ f[k] \in LayerType /\ SameRun(C.layer[k], f[k])
             /\ DOMAIN f[k].snap = (DOMAIN C.layer[k].snap \ {n}) \cup (IF snaps[k] = None THEN {} ELSE {n})
  <2> DEFINE L == C.layer[k]
             s == snaps[k]
             R == SetSnapshot(L, n, s)
  <2>1. LayerOK(k, L) /\ s \in SnapshotSet \cup {None} /\ (s # None => SnapFits(k, Len(L.buf), s)) /\ (n \in Nodes \/ s = None)
    BY DEF Sound, Fit
  <2> HIDE DEF L, s
  <2>2. /\ LayerOK(k, R)
        /\ DOMAIN R.snap = (DOMAIN L.snap \ {n}) \cup (IF s = None THEN {} ELSE {n})
        /\ R.off = L.off /\ R.buf = L.buf /\ R.idx = L.idx /\ R.due = L.due /\ R.taken = L.taken
        /\ R.spoiled = L.spoiled
    BY <2>1, SetSnapshotOK
  <2>3. f[k] = R
    BY DEF L, s
  <2> HIDE DEF f, R
  <2>4. LayerOK(k, f[k]) /\ SameRun(L, f[k]) /\ f[k] \in LayerType
    BY <2>2, <2>3 DEF SameRun, LayerOK, Fits
  <2> QED BY <2>2, <2>3, <2>4 DEF L, s
<1>3. f \in [Layers -> LayerType]
  BY <1>2
<1> HIDE DEF f, D
<1>4. D \in CacheType /\ SameTree(C, D) /\ D.layer = f
  BY <1>0, <1>1, <1>3, Relayered
<1> QED BY <1>2, <1>4 DEF Sound, SameRuns, D

\* No snapshot fits.
LEMMA NoneFits == \A k \in Layers : \A L : Fit(k, L, NoSnapshots[k]) /\ NoSnapshots[k] = None
BY DEF Fit, NoSnapshots

\* The snapshots of a node are dropped in every layer.
LEMMA StrippedOK ==
  ASSUME NEW C, Sound(C), NEW n
  PROVE LET D == SetSnapshots(C, n, NoSnapshots)
        IN /\ Sound(D) /\ SameTree(C, D) /\ SameRuns(C, D)
           /\ \A k \in Layers : DOMAIN D.layer[k].snap = DOMAIN C.layer[k].snap \ {n}
<1> DEFINE D == SetSnapshots(C, n, NoSnapshots)
           snaps == NoSnapshots
<1>1. /\ \A k \in Layers : Fit(k, C.layer[k], snaps[k])
      /\ \A k \in Layers : snaps[k] = None
  BY NoneFits
<1>2. D = SetSnapshots(C, n, snaps)
  OBVIOUS
<1> HIDE DEF D, snaps
<1>3. /\ Sound(D) /\ SameTree(C, D) /\ SameRuns(C, D)
      /\ \A k \in Layers : DOMAIN D.layer[k].snap
           = (DOMAIN C.layer[k].snap \ {n}) \cup (IF snaps[k] = None THEN {} ELSE {n})
  BY <1>1, <1>2, SetSnapshotsOK
<1> QED BY <1>1, <1>3 DEF D

\* A map without some keys.
LEMMA WithoutIs ==
  ASSUME NEW K, NEW V, NEW f \in Maps(K, V), NEW S
  PROVE /\ Without(f, S) \in Maps(K, V) /\ DOMAIN Without(f, S) = DOMAIN f \ S
        /\ \A x \in DOMAIN f \ S : Without(f, S)[x] = f[x]
<1> DEFINE g == [x \in DOMAIN f \ S |-> f[x]]
<1>1. Without(f, S) = g
  BY DEF Without, Restrict
<1>2. DOMAIN f \in SUBSET K /\ \A x \in DOMAIN f : f[x] \in V
  BY MapsAre
<1>3. g \in Maps(K, V)
  BY <1>2, MapsAre
<1> QED BY <1>1, <1>3

\* The stamps without that of a node.
LEMMA UsedWithout ==
  ASSUME NEW g, g \in Maps(Seq(Token), Nat), NEW n
  PROVE Without(g, {n}) \in Maps(Seq(Token), Nat) /\ DOMAIN Without(g, {n}) = DOMAIN g \ {n}
<1> DEFINE K == Seq(Token)
           V == Nat
           S == {n}
<1>1. g \in Maps(K, V)
  OBVIOUS
<1> HIDE DEF K, V, S
<1>2. Without(g, S) \in Maps(K, V) /\ DOMAIN Without(g, S) = DOMAIN g \ S
  BY ONLY <1>1, WithoutIs
<1> QED BY <1>2 DEF K, V, S

\* evictNode of a leaf.
LEMMA RemovedOK ==
  ASSUME NEW C, CacheOK(C), NEW n \in C.nodes, n # Root, n # C.frontier, Children(C, n) = {}
  PROVE LET D == EvictNode(C, n)
        IN CacheOK(D) /\ SameRuns(C, D) /\ D.frontier = C.frontier /\ D.nodes = C.nodes \ {n}
<1> DEFINE B == SetSnapshots(C, n, NoSnapshots)
           D == EvictNode(C, n)
           nodes == C.nodes \ {n}
           user == C.user \ {n}
           used == Without(C.lastUsed, {n})
<1>0. C \in CacheType /\ Sound(C) /\ TreeOK(C)
  BY DEF CacheOK, Sound
<1>1. /\ Sound(B) /\ SameTree(C, B) /\ SameRuns(C, B)
      /\ \A k \in Layers : DOMAIN B.layer[k].snap = DOMAIN C.layer[k].snap \ {n}
  BY <1>0, StrippedOK
<1>2. D = [B EXCEPT !.nodes = B.nodes \ {n}, !.user = B.user \ {n}, !.lastUsed = Without(B.lastUsed, {n})]
  BY DEF EvictNode
<1> HIDE DEF B, D
<1>3. B \in CacheType
  BY <1>1 DEF Sound
<1>4. IsRetreed(D, B, nodes, user, used, C.frontier)
  <2>1. B.nodes = C.nodes /\ B.user = C.user /\ B.lastUsed = C.lastUsed /\ B.frontier = C.frontier
    BY <1>1 DEF SameTree
  <2>2. D = [B EXCEPT !.nodes = nodes, !.user = user, !.lastUsed = used]
    BY <1>2, <2>1
  <2> HIDE DEF nodes, user, used
  <2> QED BY <1>3, <2>1, <2>2 DEF IsRetreed, CacheType
<1>5. used \in Maps(Seq(Token), Nat) /\ DOMAIN used = nodes
  <2> DEFINE g == C.lastUsed
  <2>1. g \in Maps(Seq(Token), Nat) /\ DOMAIN g = C.nodes
    BY <1>0, CacheIs DEF TreeOK
  <2> HIDE DEF g
  <2>2. Without(g, {n}) \in Maps(Seq(Token), Nat) /\ DOMAIN Without(g, {n}) = DOMAIN g \ {n}
    BY <2>1, UsedWithout
  <2> QED BY <2>1, <2>2 DEF g
<1> HIDE DEF used
<1>6. nodes \in SUBSET Seq(Token) /\ user \in SUBSET Seq(Token) /\ C.frontier \in Seq(Token)
  BY <1>0, CacheIs
<1>7. /\ D \in CacheType /\ D.nodes = nodes /\ D.user = user /\ D.lastUsed = used
      /\ D.frontier = C.frontier /\ D.layer = B.layer
  <2> HIDE DEF nodes, user
  <2> QED BY <1>3, <1>4, <1>5, <1>6, Retreed
<1>8. Trie(nodes)
  <2>1. Cardinality(Children(C, n)) <= 1
    BY FS_EmptySet
  <2> QED BY <1>0, <2>1, RemoveNode DEF TreeOK
<1>9. TreeOK(D)
  BY <1>0, <1>1, <1>5, <1>7, <1>8 DEF TreeOK
<1>10. Sound(D) /\ SameRuns(C, D)
  BY <1>1, <1>7 DEF Sound, SameRuns
<1> QED BY <1>7, <1>9, <1>10 DEF CacheOK, D

\* The layers when the snapshots of two nodes are joined.
LEMMA JoinedOK ==
  ASSUME NEW C, Sound(C), NEW n, NEW c, NEW f,
         f = [k \in Layers |-> Merged(k, C.layer[k], At(C.layer[k].snap, n), At(C.layer[k].snap, c))],
         NEW D, IsRelayered(D, C, f)
  PROVE /\ Sound(D) /\ SameTree(C, D) /\ SameRuns(C, D)
        /\ \A k \in Layers : DOMAIN D.layer[k].snap = DOMAIN C.layer[k].snap
<1>0. C \in CacheType
  BY DEF Sound
<1>2. ASSUME NEW k \in Layers
      PROVE  /\ LayerOK(k, f[k]) /\ f[k] \in LayerType /\ SameRun(C.layer[k], f[k])
             /\ DOMAIN f[k].snap = DOMAIN C.layer[k].snap
  <2> DEFINE L == C.layer[k]
             R == Merged(k, L, At(L.snap, n), At(L.snap, c))
  <2>1. LayerOK(k, L)
    BY DEF Sound
  <2> HIDE DEF L
  <2>2. LayerOK(k, R) /\ SameLive(L, R) /\ R.due = L.due /\ R.base = L.base /\ R.taken = L.taken
    BY <2>1, MergedOK
  <2>3. f[k] = R
    BY DEF L
  <2> HIDE DEF R
  <2> QED BY <2>2, <2>3 DEF L, SameLive, SameRun, LayerOK, Fits
<1>3. f \in [Layers -> LayerType]
  BY <1>2
<1>4. D \in CacheType /\ SameTree(C, D) /\ D.layer = f
  BY <1>0, <1>3, Relayered
<1> QED BY <1>2, <1>4 DEF Sound, SameRuns

\* mergeWithChild: the child takes over the edge and the snapshots.
LEMMA MergeWithChildOK ==
  ASSUME NEW C, CacheOK(C), NEW n \in C.nodes, n # Root, n # C.frontier, NEW c \in Children(C, n),
         Cardinality(Children(C, n)) <= 1
  PROVE LET D == MergeWithChild(C, n, c)
        IN CacheOK(D) /\ SameRuns(C, D) /\ D.frontier = C.frontier /\ D.nodes = C.nodes \ {n}
<1> DEFINE merged == [k \in Layers |->
                        Merge(k, C.layer[k], At(C.layer[k].snap, n), At(C.layer[k].snap, c))]
           joined == EachLayer(C, LAMBDA k, L : Merged(k, L, At(L.snap, n), At(L.snap, c)))
           upper == SetSnapshots(joined, n, NoSnapshots)
           bare == SetSnapshots(upper, c, NoSnapshots)
           B == SetSnapshots(bare, c, merged)
           D == MergeWithChild(C, n, c)
           nodes == C.nodes \ {n}
           user == C.user \ {n}
           last == Max({C.lastUsed[n], C.lastUsed[c]})
           used == With(Without(C.lastUsed, {n}), c, last)
<1>0. C \in CacheType /\ Sound(C) /\ TreeOK(C)
  BY DEF CacheOK, Sound
<1>1. c \in C.nodes \ {Root} /\ c # n /\ c \in Nodes /\ c \in Seq(Token)
  BY <1>0, ChildrenAre, CacheIs DEF Nodes
<1>2. /\ Sound(joined) /\ SameTree(C, joined) /\ SameRuns(C, joined)
      /\ \A k \in Layers : DOMAIN joined.layer[k].snap = DOMAIN C.layer[k].snap
  <2> DEFINE f == [k \in Layers |-> Merged(k, C.layer[k], At(C.layer[k].snap, n), At(C.layer[k].snap, c))]
  <2>1. IsRelayered(joined, C, f)
    BY <1>0 DEF EachLayer, IsRelayered, CacheType
  <2>2. f = [k \in Layers |-> Merged(k, C.layer[k], At(C.layer[k].snap, n), At(C.layer[k].snap, c))]
    OBVIOUS
  <2> HIDE DEF f, joined
  <2> QED BY <1>0, <2>1, <2>2, JoinedOK
<1>3. /\ Sound(upper) /\ SameTree(joined, upper) /\ SameRuns(joined, upper)
      /\ \A k \in Layers : DOMAIN upper.layer[k].snap = DOMAIN joined.layer[k].snap \ {n}
  <2> HIDE DEF joined
  <2> QED BY <1>2, StrippedOK
<1>4. /\ Sound(bare) /\ SameTree(upper, bare) /\ SameRuns(upper, bare)
      /\ \A k \in Layers : DOMAIN bare.layer[k].snap = DOMAIN upper.layer[k].snap \ {c}
  <2> HIDE DEF upper
  <2> QED BY <1>3, StrippedOK
<1>5. ASSUME NEW k \in Layers PROVE Fit(k, bare.layer[k], merged[k])
  <2> DEFINE L == C.layer[k]
  <2>1. LayerOK(k, L) /\ L \in LayerType /\ k \in Kinds
    BY <1>0, ConstantsAre DEF Sound, LayerOK, Fits
  <2>2. SameRun(L, bare.layer[k])
    <3> HIDE DEF joined, upper, bare
    <3>1. SameRuns(C, bare)
      BY <1>2, <1>3, <1>4, SameRunsTrans
    <3> QED BY <3>1 DEF SameRuns
  <2>3. merged[k] = Merge(k, L, At(L.snap, n), At(L.snap, c))
    OBVIOUS
  <2> HIDE DEF L, merged, bare
  <2>4. Fit(k, L, At(L.snap, n)) /\ Fit(k, L, At(L.snap, c))
    BY <2>1, HeldFits
  <2>5. Fit(k, L, merged[k])
    BY <2>1, <2>3, <2>4, MergeFits
  <2> QED BY <2>2, <2>5, SameRunIs
<1>6. D = [B EXCEPT !.nodes = B.nodes \ {n}, !.user = B.user \ {n},
                    !.lastUsed = With(Without(B.lastUsed, {n}), c, last)]
  BY DEF MergeWithChild
<1>7. /\ Sound(B) /\ SameTree(bare, B) /\ SameRuns(bare, B)
      /\ \A k \in Layers : DOMAIN B.layer[k].snap
           = (DOMAIN bare.layer[k].snap \ {c}) \cup (IF merged[k] = None THEN {} ELSE {c})
  <2>1. B = SetSnapshots(bare, c, merged)
    OBVIOUS
  <2> HIDE DEF bare, merged, B
  <2>2. Sound(bare) /\ c \in Nodes /\ \A k \in Layers : Fit(k, bare.layer[k], merged[k])
    BY <1>1, <1>4, <1>5
  <2> QED BY ONLY <2>1, <2>2, SetSnapshotsOK
<1> HIDE DEF joined, upper, bare, merged, B, D
<1>8. SameTree(C, B) /\ SameRuns(C, B)
  <2>1. SameTree(C, B)
    BY <1>2, <1>3, <1>4, <1>7 DEF SameTree
  <2>2. SameRuns(C, B)
    BY <1>2, <1>3, <1>4, <1>7, SameRunsTrans
  <2> QED BY <2>1, <2>2
<1>9. \A k \in Layers : DOMAIN B.layer[k].snap \in SUBSET (nodes \ {Root})
  BY <1>0, <1>1, <1>2, <1>3, <1>4, <1>7 DEF TreeOK
<1>10. B \in CacheType
  BY <1>7 DEF Sound
<1>11. last \in Nat /\ last # None
  <2>1. C.lastUsed[n] \in Nat /\ C.lastUsed[c] \in Nat
    BY <1>0, <1>1, CacheIs DEF TreeOK
  <2>2. last \in Nat
    <3> DEFINE a == C.lastUsed[n]
               b == C.lastUsed[c]
    <3> HIDE DEF a, b
    <3>1. a \in Nat /\ b \in Nat /\ last = Max({a, b})
      BY <2>1 DEF a, b
    <3>2. a \in Int /\ b \in Int
      BY <3>1
    <3>3. Max({a, b}) = IF a >= b THEN a ELSE b
      BY <3>2, MaxIs
    <3> QED BY <3>1, <3>3
  <2> HIDE DEF last
  <2> QED BY <2>2, ConstantsAre
<1> HIDE DEF last
<1>12. used \in Maps(Seq(Token), Nat) /\ DOMAIN used = nodes
  <2> DEFINE g == C.lastUsed
             h == Without(g, {n})
  <2>1. g \in Maps(Seq(Token), Nat) /\ DOMAIN g = C.nodes
    BY <1>0, CacheIs DEF TreeOK
  <2> HIDE DEF g
  <2>2. h \in Maps(Seq(Token), Nat) /\ DOMAIN h = DOMAIN g \ {n}
    BY <2>1, UsedWithout
  <2>3. used = With(h, c, last)
    BY DEF g
  <2> HIDE DEF h, used
  <2>4. used \in Maps(Seq(Token), Nat) /\ IsWith(used, h, c, last)
    BY <1>1, <1>11, <2>2, <2>3, WithIs
  <2>5. DOMAIN used = (DOMAIN h \ {c}) \cup {c}
    BY <1>11, <2>4 DEF IsWith
  <2> QED BY <1>1, <2>1, <2>2, <2>4, <2>5
<1>13. IsRetreed(D, B, nodes, user, used, C.frontier)
  <2>1. B.nodes = C.nodes /\ B.user = C.user /\ B.lastUsed = C.lastUsed /\ B.frontier = C.frontier
    BY <1>8 DEF SameTree
  <2>2. D = [B EXCEPT !.nodes = nodes, !.user = user, !.lastUsed = used]
    BY <1>6, <2>1
  <2> HIDE DEF nodes, user, used
  <2> QED BY <1>10, <2>1, <2>2 DEF IsRetreed, CacheType
<1> HIDE DEF used
<1>14. nodes \in SUBSET Seq(Token) /\ user \in SUBSET Seq(Token) /\ C.frontier \in Seq(Token)
  BY <1>0, CacheIs
<1>15. /\ D \in CacheType /\ D.nodes = nodes /\ D.user = user /\ D.lastUsed = used
       /\ D.frontier = C.frontier /\ D.layer = B.layer
  <2> HIDE DEF nodes, user
  <2> QED BY <1>10, <1>12, <1>13, <1>14, Retreed
<1>16. Trie(nodes)
  BY <1>0, RemoveNode DEF TreeOK
<1>17. TreeOK(D)
  BY <1>0, <1>9, <1>12, <1>15, <1>16 DEF TreeOK
<1>18. Sound(D) /\ SameRuns(C, D)
  BY <1>7, <1>8, <1>15 DEF Sound, SameRuns
<1> QED BY <1>15, <1>17, <1>18 DEF CacheOK, D

\* evictNode removes exactly the node, never one of the active path.
LEMMA EvictNodeOK ==
  ASSUME NEW C, CacheOK(C), NEW n \in Evictable(C)
  PROVE LET D == EvictNode(C, n)
        IN CacheOK(D) /\ SameRuns(C, D) /\ D.frontier = C.frontier /\ D.nodes = C.nodes \ {n}
<1>1. n \in C.nodes /\ ~IsPrefix(n, C.frontier) /\ Cardinality(Children(C, n)) <= 1
  BY DEF Evictable
<1>2. n # Root /\ n # C.frontier
  <2>1. C.frontier \in Seq(Token)
    BY CacheIs DEF CacheOK, Sound
  <2> QED BY <1>1, <2>1, PrefixRoot, PrefixRefl
<1>3. CASE Children(C, n) = {}
  BY <1>1, <1>2, <1>3, RemovedOK
<1>4. CASE Children(C, n) # {}
  <2> DEFINE c == CHOOSE c \in Children(C, n) : TRUE
  <2>1. c \in Children(C, n)
    BY <1>4
  <2>2. EvictNode(C, n) = MergeWithChild(C, n, c)
    BY <1>4 DEF EvictNode
  <2> HIDE DEF c
  <2> QED BY <1>1, <1>2, <2>1, <2>2, MergeWithChildOK
<1> QED BY <1>3, <1>4

-----------------------------------------------------------------------------
(* Eviction, and recursion                                                   *)

IsRun(f, N, P, x, g) ==
  f \in [0 .. N -> P] /\ f[0] = x /\ \A i \in 1 .. N : f[i] = g[i][f[i - 1]]

\* A recursion through a set P has a solution of every length.
LEMMA RecursionExists ==
  ASSUME NEW N \in Nat, NEW P, NEW x \in P, NEW g, g \in [1 .. N -> [P -> P]]
  PROVE \E f : IsRun(f, N, P, x, g)
<1> DEFINE Is(f, n) == f \in [0 .. n -> P] /\ f[0] = x /\ \A i \in 1 .. n : f[i] = g[i][f[i - 1]]
           Bad == {n \in 0 .. N : ~ \E f : Is(f, n)}
<1>1. SUFFICES ASSUME N \in Bad PROVE FALSE
  <2>1. N \in 0 .. N
    OBVIOUS
  <2>2. \A f : Is(f, N) => IsRun(f, N, P, x, g)
    BY DEF IsRun
  <2> HIDE DEF Is
  <2> QED BY <2>1, <2>2
<1>2. PICK m \in Bad : \A n \in Bad : m <= n
  <2>1. Bad \in SUBSET Nat
    OBVIOUS
  <2> HIDE DEF Bad
  <2> QED BY <1>1, <2>1, LeastElement
<1>3. m \in 0 .. N /\ ~ \E f : Is(f, m)
  <2> HIDE DEF Is
  <2> QED BY <1>2
<1>4. CASE m = 0
  <2> DEFINE f == [i \in 0 .. m |-> x]
  <2>1. Is(f, m)
    BY <1>4
  <2> HIDE DEF Is, f
  <2> QED BY <1>3, <2>1
<1>5. CASE m # 0
  <2>1. m - 1 \in 0 .. N /\ m - 1 \notin Bad /\ m \in 1 .. N
    <3>1. m - 1 \in 0 .. N /\ m \in 1 .. N /\ ~(m <= m - 1)
      BY <1>3, <1>5
    <3> HIDE DEF Bad
    <3> QED BY <1>2, <3>1
  <2>2. PICK f : Is(f, m - 1)
    <3> HIDE DEF Is
    <3> QED BY <2>1
  <2> DEFINE h == [i \in 0 .. m |-> IF i = m THEN g[m][f[m - 1]] ELSE f[i]]
  <2>3. g[m] \in [P -> P] /\ f[m - 1] \in P
    BY <1>3, <2>1, <2>2
  <2>4. \A i \in 0 .. m - 1 : h[i] = f[i] /\ f[i] \in P
    BY <1>3, <2>2
  <2>5. h[m] = g[m][f[m - 1]] /\ h[m] \in P
    BY <1>3, <2>3
  <2>6. DOMAIN h = 0 .. m /\ h = [i \in DOMAIN h |-> h[i]]
    OBVIOUS
  <2> HIDE DEF h
  <2>7. h \in [0 .. m -> P]
    <3>1. \A i \in 0 .. m : i = m \/ i \in 0 .. m - 1
      BY <1>3
    <3>2. \A i \in 0 .. m : h[i] \in P
      BY <2>4, <2>5, <3>1
    <3> QED BY <2>6, <3>2
  <2>8. h[0] = x
    <3>1. 0 \in 0 .. m - 1
      BY <1>3, <1>5
    <3> QED BY <2>2, <2>4, <3>1
  <2>9. ASSUME NEW i \in 1 .. m PROVE h[i] = g[i][h[i - 1]]
    <3>1. i - 1 \in 0 .. m - 1 /\ (i = m \/ i \in 1 .. m - 1)
      BY <1>3
    <3>2. h[i - 1] = f[i - 1]
      BY <2>4, <3>1
    <3>3. CASE i = m
      BY <2>5, <3>2, <3>3
    <3>4. CASE i \in 1 .. m - 1
      <4>1. i \in 0 .. m - 1
        BY <3>4
      <4> QED BY <2>2, <2>4, <3>2, <3>4, <4>1
    <3> QED BY <3>1, <3>3, <3>4
  <2>10. Is(h, m)
    BY <2>7, <2>8, <2>9
  <2> HIDE DEF Is
  <2> QED BY <1>3, <2>10
<1> QED BY <1>4, <1>5

\* What each round keeps holds after every round.
LEMMA AlongRecursion ==
  ASSUME NEW N \in Nat, NEW P, NEW r, r[0] \in P, \A i \in 1 .. N : r[i - 1] \in P => r[i] \in P
  PROVE \A i \in 0 .. N : r[i] \in P
<1> DEFINE Bad == {n \in 0 .. N : r[n] \notin P}
<1>1. SUFFICES ASSUME NEW n \in Bad PROVE FALSE
  OBVIOUS
<1>2. PICK m \in Bad : \A i \in Bad : m <= i
  <2>1. Bad \in SUBSET Nat
    OBVIOUS
  <2> HIDE DEF Bad
  <2> QED BY <1>1, <2>1, LeastElement
<1>3. m \in 0 .. N /\ r[m] \notin P /\ m # 0
  BY <1>2
<1>4. m \in 1 .. N /\ m - 1 \in 0 .. N /\ ~(m <= m - 1)
  BY <1>3
<1>5. r[m - 1] \in P
  BY <1>2, <1>4
<1> QED BY <1>3, <1>4, <1>5

\* enforceEvictionPolicy finds the node that is first in its order.
LEMMA FirstToGo ==
  ASSUME NEW C, CacheOK(C), Evictable(C) # {}
  PROVE \E n \in Evictable(C) : \A m \in Evictable(C) : EvictsBefore(C, n, m)
<1> DEFINE E == Evictable(C)
           f == [n \in E |-> 0 - C.lastUsed[n]]
<1>0. C \in CacheType /\ IsFiniteSet(C.nodes) /\ DOMAIN C.lastUsed = C.nodes /\ C.nodes \in SUBSET Seq(Token)
  BY DEF CacheOK, Sound, TreeOK, Trie
<1>1. E \in SUBSET C.nodes /\ IsFiniteSet(E) /\ E # {}
  BY <1>0, FS_Subset DEF Evictable
<1> HIDE DEF E
<1>2. \A n \in E : C.lastUsed[n] \in Nat /\ Len(n) \in Nat
  BY <1>0, <1>1, CacheIs
<1>3. PICK x \in E : \A n \in E : C.lastUsed[x] <= C.lastUsed[n]
  <2>1. f \in [E -> Int]
    BY <1>2
  <2>2. \E x \in E : \A n \in E : f[n] <= f[x]
    <3> HIDE DEF f
    <3> QED BY <1>1, <2>1, GreatestIn
  <2>3. PICK x \in E : \A n \in E : f[n] <= f[x]
    BY <2>2
  <2>4. \A n \in E : C.lastUsed[x] <= C.lastUsed[n]
    BY <1>2, <2>3
  <2> QED BY <2>4
<1> DEFINE A == {n \in E : C.lastUsed[n] = C.lastUsed[x]}
           l == [n \in A |-> Len(n)]
<1>4. IsFiniteSet(A) /\ A # {} /\ l \in [A -> Int]
  BY <1>1, <1>2, <1>3, FS_Subset
<1>5. PICK y \in A : \A n \in A : Len(n) <= Len(y)
  <2>1. \E y \in A : \A n \in A : l[n] <= l[y]
    <3> HIDE DEF l, A
    <3> QED BY <1>4, GreatestIn
  <2> QED BY <2>1
<1> DEFINE B == {n \in A : Len(n) = Len(y)}
           b == [n \in B |-> NodeBytes(C, n)]
<1>6. ASSUME NEW n PROVE NodeBytes(C, n) \in Int
  <2> DEFINE g == [k \in Layers |-> Size(At(C.layer[k].snap, n))]
  <2>1. g \in [Layers -> Int]
    <3> SUFFICES ASSUME NEW k \in Layers PROVE Size(At(C.layer[k].snap, n)) \in Int
      OBVIOUS
    <3>1. Fit(k, C.layer[k], At(C.layer[k].snap, n))
      BY HeldFits DEF CacheOK, Sound
    <3>2. At(C.layer[k].snap, n) \in SnapshotSet \cup {None}
      BY <3>1 DEF Fit
    <3> QED BY <3>2, SizeIs
  <2> HIDE DEF g
  <2>2. SumFunction(g) \in Int
    BY <2>1, ConstantsAre, SumInt
  <2> QED BY <2>2 DEF NodeBytes, g
<1>7. IsFiniteSet(B) /\ B # {} /\ b \in [B -> Int]
  BY <1>4, <1>5, <1>6, FS_Subset
<1>8. PICK z \in B : \A n \in B : NodeBytes(C, n) <= NodeBytes(C, z)
  <2>1. \E z \in B : \A n \in B : b[n] <= b[z]
    <3> HIDE DEF b, B
    <3> QED BY <1>7, GreatestIn
  <2> QED BY <2>1
<1>9. z \in E /\ C.lastUsed[z] = C.lastUsed[x] /\ Len(z) = Len(y)
  BY <1>8
<1>10. ASSUME NEW m \in E PROVE EvictsBefore(C, z, m)
  <2>1. CASE C.lastUsed[z] < C.lastUsed[m]
    BY <2>1 DEF EvictsBefore
  <2>2. CASE ~(C.lastUsed[z] < C.lastUsed[m])
    <3>1. C.lastUsed[m] = C.lastUsed[x]
      BY <1>2, <1>3, <1>9, <2>2
    <3>2. m \in A /\ Len(m) <= Len(y)
      BY <1>5, <3>1
    <3>3. CASE Len(m) < Len(y)
      BY <1>2, <1>9, <3>1, <3>3 DEF EvictsBefore
    <3>4. CASE ~(Len(m) < Len(y))
      <4>1. Len(m) = Len(y)
        BY <1>2, <1>5, <3>2, <3>4
      <4>2. m \in B /\ NodeBytes(C, m) <= NodeBytes(C, z)
        BY <1>8, <3>2, <4>1
      <4>3. NodeBytes(C, z) >= NodeBytes(C, m)
        BY <1>6, <4>2
      <4> QED BY <1>9, <3>1, <4>1, <4>3 DEF EvictsBefore
    <3> QED BY <3>3, <3>4
  <2> QED BY <2>1, <2>2
<1> QED BY <1>9, <1>10 DEF E

\* A cache that is left alone.
LEMMA SameRunsRefl == \A C : SameRuns(C, C)
BY DEF SameRuns, SameRun

\* A round of enforceEvictionPolicy.
LEMMA EvictOneOK ==
  ASSUME NEW C, CacheOK(C)
  PROVE LET D == EvictOne(C)
        IN CacheOK(D) /\ SameRuns(C, D) /\ D.frontier = C.frontier
<1>1. CASE PagedOut(C) <= MaxPagedOut \/ Evictable(C) = {}
  <2>1. EvictOne(C) = C
    BY <1>1 DEF EvictOne
  <2> QED BY <2>1, SameRunsRefl
<1>2. CASE ~(PagedOut(C) <= MaxPagedOut \/ Evictable(C) = {})
  <2> DEFINE n == CHOOSE n \in Evictable(C) : \A m \in Evictable(C) : EvictsBefore(C, n, m)
  <2>1. EvictOne(C) = EvictNode(C, n)
    BY <1>2 DEF EvictOne
  <2>2. n \in Evictable(C)
    BY <1>2, FirstToGo
  <2> HIDE DEF n
  <2> QED BY <2>1, <2>2, EvictNodeOK
<1> QED BY <1>1, <1>2

IsRounds(C, N, r) == r = [i \in 0 .. N |-> IF i = 0 THEN C ELSE EvictOne(r[i - 1])]

\* enforceEvictionPolicy leaves the layers' arrays and the active path.
LEMMA EnforceOK ==
  ASSUME NEW C, CacheOK(C)
  PROVE LET D == EnforceEvictionPolicy(C)
        IN CacheOK(D) /\ SameRuns(C, D) /\ D.frontier = C.frontier
<1> DEFINE P == {D \in CacheType : CacheOK(D) /\ SameRuns(C, D) /\ D.frontier = C.frontier}
           N == Cardinality(C.nodes)
<1>1. N \in Nat
  BY FS_CardinalityType DEF CacheOK, TreeOK, Trie
<1>2. C \in P
  BY SameRunsRefl DEF CacheOK, Sound
<1>3. ASSUME NEW D \in P PROVE EvictOne(D) \in P
  <2> DEFINE E == EvictOne(D)
  <2>1. CacheOK(D) /\ SameRuns(C, D) /\ D.frontier = C.frontier
    OBVIOUS
  <2>2. CacheOK(E) /\ SameRuns(D, E) /\ E.frontier = D.frontier
    BY <2>1, EvictOneOK
  <2> HIDE DEF E
  <2>3. SameRuns(C, E)
    BY <2>1, <2>2, SameRunsTrans
  <2> QED BY <2>1, <2>2, <2>3 DEF CacheOK, Sound, E
<1> HIDE DEF N
<1>4. \E r : IsRounds(C, N, r)
  <2> DEFINE g == [i \in 1 .. N |-> [D \in P |-> EvictOne(D)]]
  <2>1. g \in [1 .. N -> [P -> P]]
    <3> HIDE DEF P
    <3> QED BY <1>3
  <2>2. PICK f : IsRun(f, N, P, C, g)
    <3>1. \E f : IsRun(f, N, P, C, g)
      <4> HIDE DEF g, P
      <4> QED BY ONLY <1>1, <1>2, <2>1, RecursionExists
    <3> HIDE DEF g, P
    <3> QED BY <3>1
  <2>a. f \in [0 .. N -> P] /\ f[0] = C /\ \A i \in 1 .. N : f[i] = g[i][f[i - 1]]
    <3> HIDE DEF g, P
    <3> QED BY <2>2 DEF IsRun
  <2>3. ASSUME NEW i \in 0 .. N PROVE f[i] = IF i = 0 THEN C ELSE EvictOne(f[i - 1])
    <3>1. CASE i = 0
      BY <2>a, <3>1
    <3>2. CASE i # 0
      <4>1. i \in 1 .. N /\ i - 1 \in 0 .. N
        BY <1>1, <3>2
      <4>2. f[i - 1] \in P /\ f[i] = g[i][f[i - 1]]
        <5> HIDE DEF g, P
        <5> QED BY <2>a, <4>1
      <4>3. g[i][f[i - 1]] = EvictOne(f[i - 1])
        <5> HIDE DEF P
        <5> QED BY <4>1, <4>2
      <4> HIDE DEF g
      <4> QED BY <3>2, <4>2, <4>3
    <3> QED BY <3>1, <3>2
  <2> HIDE DEF P
  <2>4. f = [i \in 0 .. N |-> f[i]]
    BY <2>a
  <2> QED BY <2>3, <2>4 DEF IsRounds
<1> DEFINE r == CHOOSE r : IsRounds(C, N, r)
<1>5. IsRounds(C, N, r)
  BY <1>4
<1>6. EnforceEvictionPolicy(C) = r[N]
  BY DEF EnforceEvictionPolicy, IsRounds, N
<1> HIDE DEF r
<1>7. r[0] = C /\ \A i \in 1 .. N : r[i] = EvictOne(r[i - 1])
  BY <1>1, <1>5 DEF IsRounds
<1>8. \A i \in 0 .. N : r[i] \in P
  <2>1. r[0] \in P /\ \A i \in 1 .. N : r[i - 1] \in P => r[i] \in P
    <3> HIDE DEF P
    <3> QED BY <1>2, <1>3, <1>7
  <2> HIDE DEF P
  <2> QED BY <1>1, <2>1, AlongRecursion
<1>9. r[N] \in P
  <2>1. N \in 0 .. N
    BY <1>1
  <2> HIDE DEF P
  <2> QED BY <1>8, <2>1
<1> QED BY <1>6, <1>9

-----------------------------------------------------------------------------
(* Paths of the trie                                                         *)

\* A cache whose trie is replaced keeps sound layers.
LEMMA RetreedOK ==
  ASSUME NEW B, Sound(B), NEW nodes \in SUBSET Seq(Token), NEW user \in SUBSET Seq(Token),
         NEW lastUsed \in Maps(Seq(Token), Nat), NEW frontier \in Seq(Token), NEW D,
         IsRetreed(D, B, nodes, user, lastUsed, frontier)
  PROVE /\ Sound(D) /\ SameRuns(B, D) /\ D.nodes = nodes /\ D.user = user /\ D.lastUsed = lastUsed
        /\ D.frontier = frontier /\ D.layer = B.layer
<1>1. B \in CacheType
  BY DEF Sound
<1>2. /\ D \in CacheType /\ D.nodes = nodes /\ D.user = user /\ D.lastUsed = lastUsed
      /\ D.frontier = frontier /\ D.layer = B.layer
  BY <1>1, Retreed
<1> QED BY <1>2 DEF Sound, SameRuns, SameRun

\* The stamps with that of a new node.
LEMMA UsedWith ==
  ASSUME NEW g, g \in Maps(Seq(Token), Nat), NEW m \in Seq(Token), NEW t \in Nat
  PROVE With(g, m, t) \in Maps(Seq(Token), Nat) /\ DOMAIN With(g, m, t) = DOMAIN g \cup {m}
<1> DEFINE h == With(g, m, t)
<1>1. t # None
  BY ConstantsAre
<1>2. h \in Maps(Seq(Token), Nat) /\ IsWith(h, g, m, t)
  BY <1>1, WithIs
<1> HIDE DEF h
<1>3. DOMAIN h = (DOMAIN g \ {m}) \cup {m}
  BY <1>1, <1>2 DEF IsWith
<1> QED BY <1>2, <1>3 DEF h

\* splitNode divides an edge and its snapshots.
LEMMA SplitNodeOK ==
  ASSUME NEW C, CacheOK(C), NEW n \in C.nodes \ {Root}, NEW m \in Nodes, m \notin C.nodes,
         Trie(C.nodes \cup {m})
  PROVE LET D == SplitNode(C, n, m)
        IN /\ CacheOK(D) /\ SameRuns(C, D)
           /\ D.nodes = C.nodes \cup {m} /\ D.user = C.user /\ D.frontier = C.frontier
<1> DEFINE halves == [k \in Layers |-> Split(k, C.layer[k], At(C.layer[k].snap, n), Len(m))]
           one == [k \in Layers |-> halves[k][1]]
           two == [k \in Layers |-> halves[k][2]]
           bare == SetSnapshots(C, n, NoSnapshots)
           upper == SetSnapshots(bare, m, one)
           B == SetSnapshots(upper, n, two)
           D == SplitNode(C, n, m)
           nodes == C.nodes \cup {m}
           used == With(C.lastUsed, m, C.lastUsed[n])
<1>0. C \in CacheType /\ Sound(C) /\ TreeOK(C)
  BY DEF CacheOK, Sound
<1>1. n \in Seq(Token) /\ n \in Nodes /\ m \in Seq(Token) /\ m # Root /\ m # n /\ Len(m) \in Nat
  BY <1>0, CacheIs DEF Nodes
<1>2. /\ Sound(bare) /\ SameTree(C, bare) /\ SameRuns(C, bare)
      /\ \A k \in Layers : DOMAIN bare.layer[k].snap = DOMAIN C.layer[k].snap \ {n}
  BY <1>0, StrippedOK
<1>3. ASSUME NEW k \in Layers PROVE Fit(k, C.layer[k], one[k]) /\ Fit(k, C.layer[k], two[k])
  <2> DEFINE L == C.layer[k]
             s == At(L.snap, n)
             at == Len(m)
  <2>1. LayerOK(k, L) /\ L \in LayerType /\ k \in Kinds
    BY <1>0, ConstantsAre DEF Sound, LayerOK, Fits
  <2>2. one[k] = Split(k, L, s, at)[1] /\ two[k] = Split(k, L, s, at)[2] /\ at \in Nat
    BY <1>1
  <2>3. Fit(k, L, s)
    <3> HIDE DEF L
    <3> QED BY <2>1, HeldFits
  <2> HIDE DEF L, s, at, one, two
  <2>4. Fit(k, L, one[k]) /\ Fit(k, L, two[k])
    BY <2>1, <2>2, <2>3, SplitFits
  <2> QED BY <2>4 DEF L
<1>4. D = [B EXCEPT !.nodes = B.nodes \cup {m}, !.lastUsed = With(B.lastUsed, m, C.lastUsed[n])]
  BY DEF SplitNode
<1>5. upper = SetSnapshots(bare, m, one) /\ B = SetSnapshots(upper, n, two)
  OBVIOUS
<1> HIDE DEF halves, one, two, bare, upper, B, D
<1>6. /\ Sound(upper) /\ SameTree(bare, upper) /\ SameRuns(bare, upper)
      /\ \A k \in Layers : DOMAIN upper.layer[k].snap
           = (DOMAIN bare.layer[k].snap \ {m}) \cup (IF one[k] = None THEN {} ELSE {m})
  <2>1. Sound(bare) /\ m \in Nodes /\ \A k \in Layers : Fit(k, bare.layer[k], one[k])
    BY <1>2, <1>3, SameRunIs DEF SameRuns
  <2> QED BY ONLY <1>5, <2>1, SetSnapshotsOK
<1>7. /\ Sound(B) /\ SameTree(upper, B) /\ SameRuns(upper, B)
      /\ \A k \in Layers : DOMAIN B.layer[k].snap
           = (DOMAIN upper.layer[k].snap \ {n}) \cup (IF two[k] = None THEN {} ELSE {n})
  <2>1. SameRuns(C, upper)
    BY <1>2, <1>6, SameRunsTrans
  <2>2. Sound(upper) /\ n \in Nodes /\ \A k \in Layers : Fit(k, upper.layer[k], two[k])
    BY <1>1, <1>3, <1>6, <2>1, SameRunIs DEF SameRuns
  <2> QED BY ONLY <1>5, <2>2, SetSnapshotsOK
<1>8. SameTree(C, B) /\ SameRuns(C, B)
  <2>1. SameTree(C, B)
    BY <1>2, <1>6, <1>7 DEF SameTree
  <2>2. SameRuns(C, B)
    BY <1>2, <1>6, <1>7, SameRunsTrans
  <2> QED BY <2>1, <2>2
<1>9. \A k \in Layers : DOMAIN B.layer[k].snap \in SUBSET (nodes \ {Root})
  BY <1>0, <1>1, <1>2, <1>6, <1>7 DEF TreeOK
<1>10. used \in Maps(Seq(Token), Nat) /\ DOMAIN used = nodes
  <2> DEFINE g == C.lastUsed
             t == C.lastUsed[n]
  <2>1. g \in Maps(Seq(Token), Nat) /\ DOMAIN g = C.nodes /\ t \in Nat
    BY <1>0, CacheIs DEF TreeOK
  <2>2. used = With(g, m, t)
    OBVIOUS
  <2> HIDE DEF g, t, used
  <2> QED BY <1>1, <2>1, <2>2, UsedWith
<1>11. IsRetreed(D, B, nodes, C.user, used, C.frontier)
  <2>1. B.nodes = C.nodes /\ B.user = C.user /\ B.lastUsed = C.lastUsed /\ B.frontier = C.frontier /\ B \in CacheType
    BY <1>7, <1>8 DEF SameTree, Sound
  <2>2. D = [B EXCEPT !.nodes = nodes, !.lastUsed = used]
    BY <1>4, <2>1
  <2> HIDE DEF nodes, used
  <2> QED BY <2>1, <2>2 DEF IsRetreed, CacheType
<1> HIDE DEF used
<1>12. nodes \in SUBSET Seq(Token) /\ C.user \in SUBSET Seq(Token) /\ C.frontier \in Seq(Token)
  BY <1>0, <1>1, CacheIs
<1>13. /\ Sound(D) /\ SameRuns(B, D) /\ D.nodes = nodes /\ D.user = C.user /\ D.lastUsed = used
       /\ D.frontier = C.frontier /\ D.layer = B.layer
  <2> HIDE DEF nodes
  <2> QED BY <1>7, <1>10, <1>11, <1>12, RetreedOK
<1>14. TreeOK(D)
  BY <1>0, <1>9, <1>10, <1>13 DEF TreeOK
<1>15. SameRuns(C, D)
  BY <1>8, <1>13, SameRunsTrans
<1> QED BY <1>13, <1>14, <1>15 DEF CacheOK, D

\* appendTokens extends a leaf without snapshots, or adds a child.
LEMMA AppendTokensOK ==
  ASSUME NEW C, CacheOK(C), NEW w \in Nodes, NEW n \in C.nodes, n = SubSeq(w, 1, Matched(C, w)),
         n # w
  PROVE LET D == [AppendTokens(C, n, w) EXCEPT !.frontier = w]
        IN CacheOK(D) /\ SameRuns(C, D) /\ D.frontier = w
<1> DEFINE A == AppendTokens(C, n, w)
           D == [A EXCEPT !.frontier = w]
           t == C.lastUsed[n]
<1>0. C \in CacheType /\ Sound(C) /\ TreeOK(C) /\ w \in Seq(Token) /\ w # Root /\ n \in Seq(Token)
  BY CacheIs DEF CacheOK, Sound, Nodes
<1>1. t \in Nat /\ C.lastUsed \in Maps(Seq(Token), Nat) /\ DOMAIN C.lastUsed = C.nodes
  BY <1>0, CacheIs DEF TreeOK
<1>2. C.nodes \in SUBSET Seq(Token) /\ C.user \in SUBSET C.nodes /\ Trie(C.nodes)
  BY <1>0, CacheIs DEF TreeOK
<1>3. CASE n = Root \/ Children(C, n) # {} \/ HasSnapshots(C, n)
  <2> DEFINE nodes == C.nodes \cup {w}
             used == With(C.lastUsed, w, t)
  <2>1. A = [C EXCEPT !.nodes = C.nodes \cup {w}, !.lastUsed = With(C.lastUsed, w, t)]
    BY <1>3 DEF AppendTokens
  <2>2. IsRetreed(D, C, nodes, C.user, used, w)
    <3> HIDE DEF t
    <3> QED BY <1>0, <2>1 DEF IsRetreed, CacheType
  <2>3. Trie(nodes)
    BY <1>0, <1>2, AppendKeeps
  <2>4. used \in Maps(Seq(Token), Nat) /\ DOMAIN used = nodes
    <3> HIDE DEF t
    <3> QED BY <1>0, <1>1, UsedWith
  <2> HIDE DEF D, used
  <2>5. /\ Sound(D) /\ SameRuns(C, D) /\ D.nodes = nodes /\ D.user = C.user /\ D.lastUsed = used
        /\ D.frontier = w /\ D.layer = C.layer
    <3>1. nodes \in SUBSET Seq(Token) /\ C.user \in SUBSET Seq(Token)
      BY <1>0, <1>2
    <3> HIDE DEF nodes
    <3> QED BY <1>0, <2>2, <2>4, <3>1, RetreedOK
  <2>6. TreeOK(D)
    BY <1>0, <2>3, <2>4, <2>5 DEF TreeOK
  <2> QED BY <2>5, <2>6 DEF CacheOK, D
<1>4. CASE ~(n = Root \/ Children(C, n) # {} \/ HasSnapshots(C, n))
  <2> DEFINE nodes == (C.nodes \ {n}) \cup {w}
             user == IF n \in C.user THEN (C.user \ {n}) \cup {w} ELSE C.user
             rest == Without(C.lastUsed, {n})
             used == With(rest, w, t)
  <2>1. A = [C EXCEPT !.nodes = (C.nodes \ {n}) \cup {w},
                      !.user = IF n \in C.user THEN (C.user \ {n}) \cup {w} ELSE C.user,
                      !.lastUsed = With(Without(C.lastUsed, {n}), w, t)]
    BY <1>4 DEF AppendTokens
  <2>2. IsRetreed(D, C, nodes, user, used, w)
    <3>1. A = [C EXCEPT !.nodes = nodes, !.user = user, !.lastUsed = used]
      BY <2>1
    <3> HIDE DEF t, A, nodes, user, used
    <3> QED BY <1>0, <3>1 DEF IsRetreed, CacheType
  <2>3. Trie(nodes)
    BY <1>0, <1>2, <1>4, ExtendKeeps
  <2>4. rest \in Maps(Seq(Token), Nat) /\ DOMAIN rest = C.nodes \ {n}
    <3> DEFINE g == C.lastUsed
    <3>1. g \in Maps(Seq(Token), Nat) /\ DOMAIN g = C.nodes /\ rest = Without(g, {n})
      BY <1>1
    <3> HIDE DEF g, rest
    <3> QED BY <3>1, UsedWithout
  <2>5. used \in Maps(Seq(Token), Nat) /\ DOMAIN used = nodes
    <3> HIDE DEF t, rest
    <3> QED BY <1>0, <1>1, <2>4, UsedWith, ZenonT(60)
  <2> HIDE DEF D, used, rest
  <2>6. user \in SUBSET nodes /\ nodes \in SUBSET Seq(Token)
    BY <1>0, <1>2
  <2>7. /\ Sound(D) /\ SameRuns(C, D) /\ D.nodes = nodes /\ D.user = user /\ D.lastUsed = used
        /\ D.frontier = w /\ D.layer = C.layer
    <3>1. user \in SUBSET Seq(Token)
      BY <2>6
    <3> HIDE DEF nodes, user
    <3> QED BY <1>0, <2>2, <2>5, <2>6, <3>1, RetreedOK
  <2>8. \A k \in Layers : DOMAIN C.layer[k].snap \in SUBSET (nodes \ {Root})
    BY <1>0, <1>4 DEF TreeOK, HasSnapshots
  <2>9. TreeOK(D)
    <3> HIDE DEF user
    <3>1. w \in nodes
      OBVIOUS
    <3> HIDE DEF nodes
    <3> QED BY <2>3, <2>5, <2>6, <2>7, <2>8, <3>1 DEF TreeOK
  <2> QED BY <2>7, <2>9 DEF CacheOK, D
<1> QED BY <1>3, <1>4

\* Another active path.
LEMMA FrontierOK ==
  ASSUME NEW C, CacheOK(C), NEW w \in C.nodes
  PROVE LET D == [C EXCEPT !.frontier = w]
        IN CacheOK(D) /\ SameRuns(C, D) /\ D.frontier = w /\ D.nodes = C.nodes /\ D.user = C.user /\ D.layer = C.layer
<1> DEFINE D == [C EXCEPT !.frontier = w]
<1>0. /\ C \in CacheType /\ Sound(C) /\ TreeOK(C) /\ w \in Seq(Token)
      /\ C.nodes \in SUBSET Seq(Token) /\ C.user \in SUBSET Seq(Token) /\ C.lastUsed \in Maps(Seq(Token), Nat)
  BY CacheIs DEF CacheOK, Sound
<1>1. IsRetreed(D, C, C.nodes, C.user, C.lastUsed, w)
  BY <1>0 DEF IsRetreed, CacheType
<1> HIDE DEF D
<1>2. /\ Sound(D) /\ SameRuns(C, D) /\ D.nodes = C.nodes /\ D.user = C.user /\ D.lastUsed = C.lastUsed
      /\ D.frontier = w /\ D.layer = C.layer
  BY <1>0, <1>1, RetreedOK
<1>3. TreeOK(D)
  BY <1>0, <1>2 DEF TreeOK
<1> QED BY <1>2, <1>3 DEF CacheOK, D

\* A split does not change what is matched.
LEMMA MatchedStays ==
  ASSUME NEW C, Trie(C.nodes), NEW w \in Seq(Token), NEW S,
         S.nodes = C.nodes \cup {SubSeq(w, 1, Matched(C, w))}, Trie(S.nodes)
  PROVE Matched(S, w) = Matched(C, w)
<1> DEFINE m == SubSeq(w, 1, Matched(C, w))
<1>1. Matched(C, w) \in 0 .. Len(w) /\ \A q \in C.nodes : CommonLength(q, w) <= Matched(C, w)
  BY MatchedIs
<1>2. m \in Seq(Token) /\ Len(m) = Matched(C, w) /\ IsPrefix(m, w)
  BY <1>1, PrefixSub
<1>3. CommonLength(m, w) = Matched(C, w)
  <2> HIDE DEF m
  <2>1. Meet(m, w) = m /\ Len(Meet(m, w)) = CommonLength(m, w)
    BY <1>2, MeetPrefix, MeetIs
  <2> QED BY <1>2, <2>1
<1>4. PICK p \in S.nodes : CommonLength(p, w) = Matched(S, w)
  BY MatchedIs
<1>5. Matched(S, w) <= Matched(C, w)
  <2>1. p \in C.nodes \/ p = m
    BY <1>4
  <2> HIDE DEF m
  <2> QED BY <1>1, <1>3, <1>4, <2>1
<1>6. Matched(C, w) <= Matched(S, w)
  <2>1. m \in S.nodes
    OBVIOUS
  <2>2. \A q \in S.nodes : CommonLength(q, w) <= Matched(S, w)
    BY MatchedIs
  <2> HIDE DEF m
  <2> QED BY <1>3, <2>1, <2>2
<1>7. Matched(S, w) \in 0 .. Len(w)
  BY MatchedIs
<1> QED BY <1>1, <1>5, <1>6, <1>7

\* advancePath makes w the end of the active path and leaves a trie.
LEMMA AdvancePathOK ==
  ASSUME NEW C, CacheOK(C), NEW w \in Nodes
  PROVE LET D == AdvancePath(C, w)
        IN CacheOK(D) /\ SameRuns(C, D) /\ D.frontier = w
<1> DEFINE m == SubSeq(w, 1, Matched(C, w))
           S == IF m \in C.nodes THEN C ELSE SplitNode(C, MatchEnd(C, w), m)
           D == IF m # w /\ Children(S, m) = {} /\ m \notin S.user
                THEN SetSnapshots(S, m, NoSnapshots) ELSE S
           A == IF m = w THEN S ELSE AppendTokens(D, m, w)
           R == [A EXCEPT !.frontier = w]
<1>0. C \in CacheType /\ Sound(C) /\ TreeOK(C) /\ w \in Seq(Token) /\ w # Root /\ Trie(C.nodes)
  BY DEF CacheOK, Sound, Nodes, TreeOK
<1>1. Matched(C, w) \in 0 .. Len(w)
  BY <1>0, MatchedIs
<1>2. m \in Seq(Token) /\ Trie(C.nodes \cup {m})
  BY <1>0, <1>1, PrefixSub, SplitKeeps
<1>3. CacheOK(S) /\ SameRuns(C, S) /\ S.nodes = C.nodes \cup {m}
  <2>1. CASE m \in C.nodes
    <3>1. S = C /\ C.nodes = C.nodes \cup {m}
      BY <2>1
    <3> HIDE DEF S, m
    <3> QED BY <3>1, SameRunsRefl
  <2>2. CASE m \notin C.nodes
    <3> DEFINE n == MatchEnd(C, w)
    <3>1. n \in C.nodes /\ IsPrefix(m, n)
      BY <1>0, MatchEndIs
    <3>2. m # Root
      BY <1>0, <2>2 DEF Trie
    <3>3. n # Root
      <4>1. n \in Seq(Token)
        BY <1>0, <3>1 DEF Trie
      <4> HIDE DEF m, n
      <4> QED BY <1>2, <3>1, <3>2, <4>1, PrefixLen, PrefixRoot
    <3>4. S = SplitNode(C, n, m)
      BY <2>2
    <3>5. m \in Nodes
      BY <1>2, <3>2 DEF Nodes
    <3> HIDE DEF m, n, S
    <3> QED BY <1>2, <2>2, <3>1, <3>3, <3>4, <3>5, SplitNodeOK
  <2> QED BY <2>1, <2>2
<1>4. m \in S.nodes /\ Matched(S, w) = Matched(C, w)
  <2> HIDE DEF S
  <2>1. Trie(S.nodes)
    BY <1>2, <1>3
  <2> QED BY <1>0, <1>3, <2>1, MatchedStays
<1>5. CacheOK(D) /\ SameRuns(C, D) /\ D.nodes = S.nodes
  <2>1. CASE D = S
    BY <1>3, <2>1
  <2>2. CASE D = SetSnapshots(S, m, NoSnapshots)
    <3> HIDE DEF S, m, D
    <3>1. /\ Sound(D) /\ SameTree(S, D) /\ SameRuns(S, D)
          /\ \A k \in Layers : DOMAIN D.layer[k].snap = DOMAIN S.layer[k].snap \ {m}
      BY <1>3, <2>2, StrippedOK DEF CacheOK
    <3>2. TreeOK(D)
      BY <1>3, <3>1 DEF CacheOK, TreeOK, SameTree
    <3>3. SameRuns(C, D)
      BY <1>3, <3>1, SameRunsTrans
    <3> QED BY <3>1, <3>2, <3>3 DEF CacheOK, SameTree
  <2> QED BY <2>1, <2>2
<1>6. AdvancePath(C, w) = R
  BY DEF AdvancePath
<1>7. CacheOK(R) /\ SameRuns(C, R) /\ R.frontier = w
  <2>1. CASE m = w
    <3>1. R = [S EXCEPT !.frontier = w] /\ w \in S.nodes
      BY <1>4, <2>1
    <3> HIDE DEF S, m, D, A, R
    <3>2. CacheOK(R) /\ SameRuns(S, R) /\ R.frontier = w
      BY <1>3, <3>1, FrontierOK
    <3> QED BY <1>3, <3>2, SameRunsTrans
  <2>2. CASE m # w
    <3>1. R = [AppendTokens(D, m, w) EXCEPT !.frontier = w]
      BY <2>2
    <3>2. Matched(D, w) = Matched(C, w)
      <4>1. Matched(D, w) = Matched(S, w)
        <5> HIDE DEF S, D
        <5> QED BY <1>5 DEF Matched
      <4> QED BY <1>4, <4>1
    <3>3. m \in D.nodes /\ m = SubSeq(w, 1, Matched(D, w))
      <4>1. m \in D.nodes
        BY <1>4, <1>5
      <4> HIDE DEF D
      <4> QED BY <3>2, <4>1
    <3> HIDE DEF S, m, D, A, R
    <3>4. CacheOK(R) /\ SameRuns(D, R) /\ R.frontier = w
      BY <1>0, <1>5, <2>2, <3>1, <3>3, AppendTokensOK
    <3> QED BY <1>5, <3>4, SameRunsTrans
  <2> QED BY <2>1, <2>2
<1> HIDE DEF R
<1> QED BY <1>6, <1>7

-----------------------------------------------------------------------------
(* switchToPath                                                              *)

\* A layer without a schedule.
LEMMA QuietIs ==
  ASSUME NEW k, NEW L, LayerOK(k, L), Quiet(L)
  PROVE /\ TakenFits(k, L)
        /\ \A R : LayerOK(k, R) /\ Untouched(L, R) => Quiet(R)
<1>1. DOMAIN L.taken = {}
  BY EmptyMap DEF Quiet
<1>2. TakenFits(k, L)
  BY <1>1 DEF TakenFits
<1>3. ASSUME NEW R, LayerOK(k, R), Untouched(L, R) PROVE Quiet(R)
  <2>1. R \in LayerType /\ R.due = L.due /\ DOMAIN R.taken = {}
    BY <1>1, <1>3 DEF LayerOK, Fits, Untouched
  <2>2. R.taken = [x \in DOMAIN R.taken |-> R.taken[x]]
    <3>1. R.taken \in Maps(Nat, SnapshotSet)
      BY <2>1, LayerIs
    <3> QED BY <3>1, MapsAre
  <2>3. R.taken = <<>>
    BY <2>1, <2>2, NoMap
  <2> QED BY <2>1, <2>3 DEF Quiet
<1> QED BY <1>2, <1>3

\* Operations on each layer that add no node leave a sound cache.
LEMMA RelayeredOK ==
  ASSUME NEW C, CacheOK(C), NEW f, f = [k \in Layers |-> f[k]],
         \A k \in Layers : LayerOK(k, f[k]) /\ DOMAIN f[k].snap \subseteq DOMAIN C.layer[k].snap,
         NEW D, IsRelayered(D, C, f)
  PROVE CacheOK(D) /\ SameTree(C, D) /\ D.layer = f
<1>1. C \in CacheType /\ Sound(C) /\ TreeOK(C)
  BY DEF CacheOK, Sound
<1>2. f \in [Layers -> LayerType]
  BY DEF LayerOK, Fits
<1>3. D \in CacheType /\ SameTree(C, D) /\ D.layer = f
  BY <1>1, <1>2, Relayered
<1>4. Sound(D)
  BY <1>3 DEF Sound
<1>5. TreeOK(D)
  BY <1>1, <1>3 DEF TreeOK, SameTree
<1> QED BY <1>3, <1>4, <1>5 DEF CacheOK

\* A cache for which no schedule is set up.
Calm(C) == CacheOK(C) /\ \A k \in Layers : Quiet(C.layer[k])

Within(C, most) == \A k \in Layers : C.layer[k].off <= most

\* The layers of a sound cache.
LEMMA LayersAre ==
  ASSUME NEW C, CacheOK(C)
  PROVE /\ Layers # {}
        /\ \A k \in Layers : k \in Kinds /\ LayerOK(k, C.layer[k]) /\ C.layer[k] \in LayerType /\ C.layer[k].off \in Nat
<1>1. \A k \in Layers : k \in Kinds /\ LayerOK(k, C.layer[k]) /\ C.layer[k] \in LayerType
  BY ConstantsAre DEF CacheOK, Sound, LayerOK, Fits
<1>2. \A k \in Layers : C.layer[k].off \in Nat
  BY <1>1, LayerIs
<1> QED BY <1>1, <1>2, ConstantsAre

\* An edge starts at an offset.
LEMMA StartIs ==
  ASSUME NEW C, CacheOK(C), NEW n \in C.nodes
  PROVE Start(C, n) \in Nat
<1>1. Trie(C.nodes)
  BY DEF CacheOK, TreeOK
<1>2. CASE n = Root
  BY <1>2 DEF Start
<1>3. CASE n # Root
  <2>1. Parent(C, n) \in C.nodes
    BY <1>1, <1>3, ParentIs
  <2>2. Parent(C, n) \in Seq(Token)
    BY <1>1, <2>1 DEF Trie
  <2> QED BY <1>3, <2>2 DEF Start
<1> QED BY <1>2, <1>3

\* Snapshots may be set on any node but the root.
LEMMA SetOnNodeOK ==
  ASSUME NEW C, CacheOK(C), NEW n, n \in C.nodes /\ n # Root, NEW snaps,
         \A k \in Layers : Fit(k, C.layer[k], snaps[k])
  PROVE LET D == SetSnapshots(C, n, snaps)
        IN CacheOK(D) /\ SameTree(C, D) /\ SameRuns(C, D)
<1> DEFINE D == SetSnapshots(C, n, snaps)
<1>1. Sound(C) /\ TreeOK(C) /\ n \in Nodes
  BY DEF CacheOK, TreeOK, Trie, Nodes
<1>2. /\ Sound(D) /\ SameTree(C, D) /\ SameRuns(C, D)
      /\ \A k \in Layers : DOMAIN D.layer[k].snap
           = (DOMAIN C.layer[k].snap \ {n}) \cup (IF snaps[k] = None THEN {} ELSE {n})
  BY <1>1, SetSnapshotsOK
<1> HIDE DEF D
<1>3. TreeOK(D)
  BY <1>1, <1>2 DEF TreeOK, SameTree
<1> QED BY <1>2, <1>3 DEF CacheOK, D

\* Trie operations set up no schedule.
LEMMA SameRunsCalm ==
  ASSUME NEW C, NEW D, Calm(C), CacheOK(D), SameRuns(C, D)
  PROVE Calm(D) /\ \A k \in Layers : D.layer[k].off = C.layer[k].off
BY DEF Calm, Quiet, SameRuns, SameRun

\* switchToPath pages the old leaf out; that is never the root.
LEMMA PageOutOK ==
  ASSUME NEW C, Calm(C), NEW end \in C.nodes, NEW matched \in Nat
  PROVE LET D == PageOut(C, end, matched)
        IN Calm(D) /\ SameTree(C, D)
<1> DEFINE D == PageOut(C, end, matched)
           n == C.frontier
           snaps == [k \in Layers |-> Snapshot(k, C.layer[k], Start(C, n))]
<1>0. CacheOK(C) /\ n \in C.nodes /\ n \in Seq(Token) /\ end \in Seq(Token)
  BY CacheIs DEF Calm, CacheOK, Sound, TreeOK
<1>1. CASE D = C
  BY <1>1 DEF SameTree
<1>2. CASE D # C
  <2>1. (~IsPrefix(n, end) \/ matched < Len(n)) /\ D = SetSnapshots(C, n, snaps)
    BY <1>2 DEF PageOut
  <2>2. n # Root
    <3> HIDE DEF n
    <3> QED BY <1>0, <2>1, PrefixRoot
  <2>3. \A k \in Layers : Fit(k, C.layer[k], snaps[k])
    <3>1. Start(C, n) \in Nat
      BY <1>0, StartIs
    <3> QED BY <1>0, <3>1, LayersAre, SnapshotFits
  <2> HIDE DEF D, n, snaps
  <2>4. CacheOK(D) /\ SameTree(C, D) /\ SameRuns(C, D)
    <3>1. (n \in C.nodes /\ n # Root) /\ D = SetSnapshots(C, n, snaps)
      BY <1>0, <2>1, <2>2
    <3>2. CacheOK(C)
      BY <1>0
    <3> QED BY ONLY <2>3, <3>1, <3>2, SetOnNodeOK
  <2> QED BY <2>4, SameRunsCalm DEF D
<1> QED BY <1>1, <1>2

\* switchToPath rewinds every layer to the common ancestor or frees it.
LEMMA RewindOK ==
  ASSUME NEW C, Calm(C), NEW target \in Nat
  PROVE LET D == Rewind(C, target)
        IN Calm(D) /\ SameTree(C, D) /\ Within(D, target)
<1> DEFINE D == Rewind(C, target)
           f == [k \in Layers |-> IF CanRestore(k, C.layer[k], None, target)
                                  THEN Restore(k, C.layer[k], None, target) ELSE Free(k, C.layer[k])]
<1>0. CacheOK(C) /\ C \in CacheType
  BY DEF Calm, CacheOK, Sound
<1>1. IsRelayered(D, C, f)
  BY <1>0 DEF Rewind, EachLayer, IsRelayered, CacheType
<1>2. ASSUME NEW k \in Layers
      PROVE LayerOK(k, f[k]) /\ DOMAIN f[k].snap = DOMAIN C.layer[k].snap /\ Quiet(f[k]) /\ f[k].off <= target
  <2> DEFINE L == C.layer[k]
  <2>1. k \in Kinds /\ LayerOK(k, L) /\ Quiet(L) /\ L.off \in Nat
    BY <1>0, LayersAre DEF Calm
  <2>2. f[k] = IF CanRestore(k, L, None, target) THEN Restore(k, L, None, target) ELSE Free(k, L)
    OBVIOUS
  <2> HIDE DEF L, f
  <2>3. TakenFits(k, L) /\ Fit(k, L, None)
    BY <2>1, QuietIs DEF Fit
  <2>4. CASE CanRestore(k, L, None, target)
    <3> DEFINE s == None
               R == Restore(k, L, s, target)
    <3>1. CanRestore(k, L, s, target) /\ Fit(k, L, s) /\ f[k] = R
      BY <2>2, <2>3, <2>4
    <3> HIDE DEF s
    <3>2. LayerOK(k, R) /\ Untouched(L, R) /\ R.off <= target
      BY <2>1, <2>3, <3>1, RestoreOK
    <3> HIDE DEF R
    <3>3. Quiet(R) /\ DOMAIN R.snap = DOMAIN L.snap
      BY <2>1, <3>2, QuietIs DEF Untouched
    <3> QED BY <3>1, <3>2, <3>3 DEF L
  <2>5. CASE ~CanRestore(k, L, None, target)
    <3> DEFINE R == Free(k, L)
    <3>1. f[k] = R
      BY <2>2, <2>5
    <3>2. LayerOK(k, R) /\ DOMAIN R.snap = DOMAIN L.snap /\ R.off = 0 /\ Quiet(R)
      BY <2>1, <2>3, FreeOK
    <3> HIDE DEF R
    <3> QED BY <3>1, <3>2 DEF L
  <2> QED BY <2>4, <2>5
<1>3. f = [k \in Layers |-> f[k]]
  OBVIOUS
<1> HIDE DEF f, D
<1>4. CacheOK(D) /\ SameTree(C, D) /\ D.layer = f
  BY <1>0, <1>1, <1>2, <1>3, RelayeredOK
<1> QED BY <1>2, <1>4 DEF Calm, Within, D

\* MinOffset is the smallest offset.
LEMMA MinOffsetIs ==
  ASSUME NEW C, CacheOK(C)
  PROVE /\ MinOffset(C) \in Nat /\ \A k \in Layers : MinOffset(C) <= C.layer[k].off
        /\ \E k \in Layers : MinOffset(C) = C.layer[k].off
<1> DEFINE S == {C.layer[k].off : k \in Layers}
<1>1. PICK j \in Layers : TRUE
  BY LayersAre
<1>2. S \in SUBSET Nat /\ C.layer[j].off \in S
  BY LayersAre
<1>3. MinOffset(C) = Min(S)
  BY DEF MinOffset
<1>4. Min(S) \in S /\ \A y \in S : Min(S) <= y
  <2> HIDE DEF S
  <2>1. \E m \in S : \A y \in S : m <= y
    BY <1>2, LeastElement
  <2> QED BY <2>1 DEF Min
<1>5. PICK k \in Layers : Min(S) = C.layer[k].off
  BY <1>4
<1>6. \A l \in Layers : Min(S) <= C.layer[l].off
  BY <1>4
<1> HIDE DEF S
<1> QED BY <1>2, <1>3, <1>4, <1>5, <1>6

\* Every layer holds as many tokens.
Even(C) == \A k \in Layers : C.layer[k].off = MinOffset(C)

\* Layers that hold as many tokens.
LEMMA EvenIs ==
  ASSUME NEW C, CacheOK(C), NEW o, \A k \in Layers : C.layer[k].off = o
  PROVE Even(C) /\ MinOffset(C) = o
BY MinOffsetIs DEF Even

\* switchToPath ends with all layers at one offset.
LEMMA AlignOK ==
  ASSUME NEW C, Calm(C), NEW end \in C.nodes, NEW most \in Nat, Within(C, most)
  PROVE LET D == Align(C, end)
        IN Calm(D) /\ Even(D) /\ MinOffset(D) <= most
<1> DEFINE D == Align(C, end)
           min == MinOffset(C)
           stuck == \E k \in Layers : C.layer[k].off # min /\ ~CanRestore(k, C.layer[k], None, min)
           w == Longest({p \in Ancestors(C, end) : Len(p) <= min})
           f == [k \in Layers |-> [Free(k, C.layer[k]) EXCEPT !.spoiled = @ \/ w # Root]]
           g == [k \in Layers |-> IF C.layer[k].off = min THEN C.layer[k] ELSE Restore(k, C.layer[k], None, min)]
           freed == EachLayer(C, LAMBDA k, L : [Free(k, L) EXCEPT !.spoiled = @ \/ w # Root])
           moved == EachLayer(C, LAMBDA k, L : IF L.off = min THEN L ELSE Restore(k, L, None, min))
           aligned == IF stuck THEN freed ELSE moved
<1>0. CacheOK(C) /\ C \in CacheType /\ min \in Nat /\ min <= most
  <2>1. CacheOK(C)
    BY DEF Calm
  <2>2. min \in Nat /\ \E k \in Layers : min = C.layer[k].off
    BY <2>1, MinOffsetIs
  <2> QED BY <2>1, <2>2 DEF CacheOK, Sound, Within
<1>1. IsRelayered(freed, C, f) /\ IsRelayered(moved, C, g)
  BY <1>0 DEF EachLayer, IsRelayered, CacheType
<1>2. D = [aligned EXCEPT !.frontier = w]
  BY DEF Align
<1>3. f = [k \in Layers |-> f[k]] /\ g = [k \in Layers |-> g[k]]
  OBVIOUS
<1>4. ASSUME NEW k \in Layers
      PROVE LayerOK(k, f[k]) /\ DOMAIN f[k].snap = DOMAIN C.layer[k].snap /\ Quiet(f[k]) /\ f[k].off = 0
  <2> DEFINE L == C.layer[k]
             F == Free(k, L)
             R == [F EXCEPT !.spoiled = @ \/ w # Root]
             b == F.spoiled \/ w # Root
  <2>1. k \in Kinds /\ LayerOK(k, L) /\ Quiet(L)
    BY <1>0, LayersAre DEF Calm
  <2>2. f[k] = R
    OBVIOUS
  <2> HIDE DEF L, f
  <2>3. TakenFits(k, L)
    BY <2>1, QuietIs
  <2>4. LayerOK(k, F) /\ DOMAIN F.snap = DOMAIN L.snap /\ F.off = 0 /\ Quiet(F)
    BY <2>1, <2>3, FreeOK
  <2> HIDE DEF F, w
  <2>5. R = [F EXCEPT !.spoiled = b] /\ b \in BOOLEAN /\ (F.spoiled => b)
    OBVIOUS
  <2> HIDE DEF R, b
  <2>6. LayerOK(k, R) /\ SameLive(F, R) /\ R.due = F.due /\ R.taken = F.taken
    BY <2>4, <2>5, SpoiledOK
  <2> QED BY <2>2, <2>4, <2>6 DEF L, SameLive, Quiet
<1>5. ASSUME NEW k \in Layers, ~stuck
      PROVE LayerOK(k, g[k]) /\ DOMAIN g[k].snap = DOMAIN C.layer[k].snap /\ Quiet(g[k]) /\ g[k].off = min
  <2> DEFINE L == C.layer[k]
             s == None
             R == Restore(k, L, s, min)
  <2>1. k \in Kinds /\ LayerOK(k, L) /\ Quiet(L)
    BY <1>0, LayersAre DEF Calm
  <2>2. g[k] = IF L.off = min THEN L ELSE R
    OBVIOUS
  <2>3. L.off # min => CanRestore(k, L, s, min)
    BY <1>5
  <2>4. Fit(k, L, s) /\ s = None
    BY DEF Fit
  <2> HIDE DEF L, g, min, s
  <2>5. TakenFits(k, L)
    BY <2>1, QuietIs
  <2>6. CASE L.off = min
    BY <2>1, <2>2, <2>6 DEF L
  <2>7. CASE L.off # min
    <3>1. LayerOK(k, R) /\ Untouched(L, R) /\ R.off = min
      BY <1>0, <2>1, <2>3, <2>4, <2>5, <2>7, RestoreOK
    <3> HIDE DEF R
    <3>2. Quiet(R) /\ DOMAIN R.snap = DOMAIN L.snap
      BY <2>1, <3>1, QuietIs DEF Untouched
    <3> QED BY <2>2, <2>7, <3>1, <3>2 DEF L
  <2> QED BY <2>6, <2>7
<1> HIDE DEF f, g, freed, moved
<1>6. PICK o \in Nat : /\ CacheOK(aligned) /\ aligned.nodes = C.nodes /\ o <= most
                       /\ \A k \in Layers : Quiet(aligned.layer[k]) /\ aligned.layer[k].off = o
  <2>1. CASE stuck
    <3>1. CacheOK(freed) /\ SameTree(C, freed) /\ freed.layer = f
      BY <1>0, <1>1, <1>3, <1>4, RelayeredOK
    <3>2. aligned = freed /\ 0 \in Nat /\ 0 <= most
      BY <2>1
    <3> HIDE DEF aligned
    <3> QED BY <1>4, <3>1, <3>2 DEF SameTree
  <2>2. CASE ~stuck
    <3>1. CacheOK(moved) /\ SameTree(C, moved) /\ moved.layer = g
      <4>1. \A k \in Layers : LayerOK(k, g[k]) /\ DOMAIN g[k].snap \subseteq DOMAIN C.layer[k].snap
        BY <1>5, <2>2
      <4> QED BY <1>0, <1>1, <1>3, <4>1, RelayeredOK
    <3>2. aligned = moved
      BY <2>2
    <3>3. \A k \in Layers : Quiet(g[k]) /\ g[k].off = min
      BY <1>5, <2>2
    <3> HIDE DEF aligned, min
    <3> QED BY <1>0, <3>1, <3>2, <3>3 DEF SameTree
  <2> QED BY <2>1, <2>2
<1>7. w \in C.nodes
  <2> DEFINE T == {p \in Ancestors(C, end) : Len(p) <= min}
  <2>1. C.nodes \in SUBSET Seq(Token) /\ IsFiniteSet(C.nodes) /\ Root \in C.nodes
    BY <1>0 DEF CacheOK, TreeOK, Trie
  <2>2. T \in SUBSET C.nodes
    BY DEF Ancestors
  <2>3. Root \in T
    BY <1>0, <2>1, PrefixRoot DEF Ancestors
  <2>4. T \in SUBSET Seq(Token) /\ IsFiniteSet(T) /\ T # {}
    BY <2>1, <2>2, <2>3, FS_Subset
  <2> HIDE DEF T
  <2>5. Longest(T) \in T
    BY <2>4, LongestIs
  <2> QED BY <2>2, <2>5 DEF T
<1> HIDE DEF aligned, w, D, min, stuck
<1>8. CacheOK(D) /\ SameRuns(aligned, D)
  <2>1. w \in aligned.nodes
    BY <1>6, <1>7
  <2> QED BY <1>2, <1>6, <2>1, FrontierOK
<1>9. Calm(aligned)
  BY <1>6 DEF Calm
<1>10. Calm(D) /\ \A k \in Layers : D.layer[k].off = o
  BY <1>6, <1>8, <1>9, SameRunsCalm
<1>11. Even(D) /\ MinOffset(D) = o
  BY <1>8, <1>10, EvenIs
<1> QED BY <1>6, <1>10, <1>11 DEF D

\* The stamp of the active path's end.
LEMMA TouchedOK ==
  ASSUME NEW C, CacheOK(C)
  PROVE LET D == Touched(C)
        IN CacheOK(D) /\ SameRuns(C, D) /\ D.frontier = C.frontier /\ D.nodes = C.nodes
<1> DEFINE D == Touched(C)
           S == {0} \cup {C.lastUsed[n] : n \in C.nodes \ {C.frontier}}
           t == 1 + Max(S)
           used == [C.lastUsed EXCEPT ![C.frontier] = t]
<1>0. /\ C \in CacheType /\ Sound(C) /\ TreeOK(C)
      /\ C.nodes \in SUBSET Seq(Token) /\ C.user \in SUBSET Seq(Token) /\ C.lastUsed \in Maps(Seq(Token), Nat)
      /\ C.frontier \in Seq(Token) /\ C.frontier \in C.nodes /\ DOMAIN C.lastUsed = C.nodes /\ IsFiniteSet(C.nodes)
      /\ \A n \in C.nodes : C.lastUsed[n] \in Nat
  BY CacheIs DEF CacheOK, Sound, TreeOK, Trie
<1>1. t \in Nat
  <2> DEFINE N == C.nodes \ {C.frontier}
             g == [n \in N |-> C.lastUsed[n]]
             most == Max(S)
  <2>1. IsFiniteSet(N) /\ g \in [N -> Int] /\ g \in [N -> Nat] /\ \A n \in N : g[n] = C.lastUsed[n]
    BY <1>0, FS_Subset
  <2>2. S = {0} \cup {g[n] : n \in N}
    OBVIOUS
  <2> HIDE DEF N, g, S
  <2>3. S \in SUBSET Nat
    BY <2>1, <2>2
  <2>4. \E x \in S : \A y \in S : x >= y
    <3>1. CASE N = {}
      BY <2>2, <3>1
    <3>2. CASE N # {}
      <4>1. PICK x \in N : \A y \in N : g[y] <= g[x]
        BY <2>1, <3>2, GreatestIn
      <4>2. g[x] \in S /\ \A y \in S : g[x] >= y
        BY <2>1, <2>2, <4>1
      <4> QED BY <4>2
    <3> QED BY <3>1, <3>2
  <2>5. most \in S
    BY <2>4 DEF Max
  <2>6. t = 1 + most /\ most \in Nat
    BY <2>3, <2>5 DEF S
  <2> HIDE DEF t, most
  <2> QED BY <2>6
<1> HIDE DEF t
<1>2. used \in Maps(Seq(Token), Nat) /\ DOMAIN used = C.nodes
  <2>1. DOMAIN used = C.nodes /\ \A n \in C.nodes : used[n] \in Nat
    BY <1>0, <1>1
  <2>2. used = [n \in DOMAIN used |-> used[n]]
    OBVIOUS
  <2> HIDE DEF used
  <2> QED BY <1>0, <2>1, <2>2, MapsAre
<1>3. D = [C EXCEPT !.lastUsed = used]
  <2>1. D = [C EXCEPT !.lastUsed[C.frontier] = 1 + Max({0} \cup {C.lastUsed[n] : n \in C.nodes \ {C.frontier}})]
    BY DEF Touched
  <2>2. D = [C EXCEPT !.lastUsed[C.frontier] = t]
    BY <2>1 DEF t
  <2> HIDE DEF D
  <2> QED BY <1>0, <2>2 DEF CacheType
<1>4. IsRetreed(D, C, C.nodes, C.user, used, C.frontier)
  <2> HIDE DEF D, used
  <2> QED BY <1>0, <1>3 DEF IsRetreed, CacheType
<1> HIDE DEF D, used
<1>5. /\ Sound(D) /\ SameRuns(C, D) /\ D.nodes = C.nodes /\ D.user = C.user /\ D.lastUsed = used
      /\ D.frontier = C.frontier /\ D.layer = C.layer
  BY <1>0, <1>2, <1>4, RetreedOK
<1>6. TreeOK(D)
  BY <1>0, <1>2, <1>5 DEF TreeOK
<1> QED BY <1>5, <1>6 DEF CacheOK, D

-----------------------------------------------------------------------------
(* The paging loop                                                           *)

\* What a round of PageIn keeps.
Paging(C, most) == [c : {D \in CacheType : Calm(D) /\ D.nodes = C.nodes /\ Within(D, most)}, stop : BOOLEAN]

IsHeld(B, A, k, L) == B = [A EXCEPT !.c.layer[k] = L]

\* One layer is restored, field by field.
LEMMA Held ==
  ASSUME NEW C, NEW most, NEW A, A \in Paging(C, most), NEW k \in Layers, NEW L \in LayerType,
         NEW B, IsHeld(B, A, k, L), NEW f, f = [j \in Layers |-> IF j = k THEN L ELSE A.c.layer[j]]
  PROVE B = [c |-> B.c, stop |-> A.stop] /\ IsRelayered(B.c, A.c, f)
<1>1. A = [c |-> A.c, stop |-> A.stop] /\ A.c \in CacheType
  BY DEF Paging
<1>2. A.c.layer \in [Layers -> LayerType] /\ A.c = [nodes |-> A.c.nodes, user |-> A.c.user, lastUsed |-> A.c.lastUsed,
                                                      frontier |-> A.c.frontier, layer |-> A.c.layer]
  BY <1>1 DEF CacheType
<1>3. B = [c |-> [A.c EXCEPT !.layer = [A.c.layer EXCEPT ![k] = L]], stop |-> A.stop]
  BY <1>1, <1>2 DEF IsHeld
<1>4. [A.c.layer EXCEPT ![k] = L] = f
  BY <1>2
<1> QED BY <1>3, <1>4 DEF IsRelayered

\* A step of the paging loop stays within what was matched.
LEMMA PageInOneOK ==
  ASSUME NEW C, NEW matched \in Nat, NEW A, A \in Paging(C, matched), NEW step,
         step.layer \in Layers
  PROVE PageInOne(A, step, matched) \in Paging(C, matched)
<1> DEFINE k == step.layer
           L == A.c.layer[k]
           s == At(L.snap, step.node)
           target == Least(Len(step.node), matched)
           R == PageInOne(A, step, matched)
<1>0. /\ k \in Layers /\ A.c \in CacheType /\ Calm(A.c) /\ A.c.nodes = C.nodes /\ Within(A.c, matched)
      /\ A.stop \in BOOLEAN /\ A = [c |-> A.c, stop |-> A.stop]
  BY DEF Paging
<1>1. CASE R = A
  BY <1>1
<1>2. CASE R = [A EXCEPT !.stop = TRUE]
  <2>1. [A EXCEPT !.stop = TRUE] \in Paging(C, matched)
    BY <1>0 DEF Paging
  <2> QED BY <1>2, <2>1
<1>3. CASE R # A /\ R # [A EXCEPT !.stop = TRUE]
  <2> DEFINE M == Restore(k, L, s, target)
             f == [j \in Layers |-> IF j = k THEN M ELSE A.c.layer[j]]
  <2>1. s # None /\ CanRestore(k, L, s, target) /\ R = [A EXCEPT !.c.layer[k] = M]
    BY <1>3 DEF PageInOne
  <2>2. CacheOK(A.c) /\ k \in Kinds /\ LayerOK(k, L) /\ Quiet(L) /\ L \in LayerType
    BY <1>0, LayersAre DEF Calm
  <2>3. TakenFits(k, L) /\ Fit(k, L, s) /\ step.node \in DOMAIN L.snap
    <3> HIDE DEF k, L
    <3> QED BY <2>1, <2>2, QuietIs, HeldFits
  <2>4. target \in Nat /\ target <= matched
    <3>1. step.node \in Seq(Token)
      BY <1>0, <2>2, <2>3 DEF CacheOK, TreeOK, Trie
    <3>2. Len(step.node) \in Nat
      BY <3>1
    <3> QED BY <3>2 DEF Least
  <2>5. IsHeld(R, A, k, M)
    BY <2>1 DEF IsHeld
  <2> HIDE DEF L, s, target, R
  <2>6. LayerOK(k, M) /\ Untouched(L, M) /\ M.off <= target
    <3> HIDE DEF k
    <3> QED BY <2>1, <2>2, <2>3, <2>4, RestoreOK
  <2>7. M \in LayerType /\ Quiet(M) /\ DOMAIN M.snap = DOMAIN L.snap /\ M.off <= matched
    <3>1. M \in LayerType /\ M.off \in Nat
      BY <2>6, LayerIs DEF LayerOK, Fits
    <3> HIDE DEF k, M
    <3> QED BY <2>2, <2>4, <2>6, <3>1, QuietIs DEF Untouched
  <2>8. f = [j \in Layers |-> IF j = k THEN M ELSE A.c.layer[j]] /\ f = [j \in Layers |-> f[j]]
    OBVIOUS
  <2>9. \A j \in Layers : f[j] = IF j = k THEN M ELSE A.c.layer[j]
    OBVIOUS
  <2> HIDE DEF k, M, f
  <2>10. R = [c |-> R.c, stop |-> A.stop] /\ IsRelayered(R.c, A.c, f)
    BY <1>0, <2>5, <2>7, <2>8, Held
  <2>11. \A j \in Layers : /\ LayerOK(j, f[j]) /\ DOMAIN f[j].snap = DOMAIN A.c.layer[j].snap
                           /\ Quiet(f[j]) /\ f[j].off <= matched
    BY <1>0, <2>2, <2>6, <2>7, <2>9, LayersAre DEF Calm, Within, L
  <2>12. CacheOK(R.c) /\ SameTree(A.c, R.c) /\ R.c.layer = f
    BY <2>2, <2>8, <2>10, <2>11, RelayeredOK
  <2>13. Calm(R.c) /\ Within(R.c, matched) /\ R.c \in CacheType /\ R.c.nodes = C.nodes
    BY <1>0, <2>11, <2>12 DEF Calm, Within, SameTree, CacheOK, Sound
  <2> QED BY <1>0, <2>10, <2>13 DEF Paging, R
<1> QED BY <1>1, <1>2, <1>3

\* A remainder is smaller than the divisor.
LEMMA RemainderIs ==
  ASSUME NEW i \in Nat, NEW w \in Nat, w > 0
  PROVE i % w \in 0 .. w - 1
OBVIOUS

\* The layer whose turn it is.
Turn(i) == LayerSeq[1 + ((i - 1) % Len(LayerSeq))]

\* Every step of the paging loop is about a layer.
LEMMA TurnIs ==
  ASSUME NEW i \in Nat, i > 0
  PROVE Turn(i) \in Layers
<1> DEFINE w == Len(LayerSeq)
           j == i - 1
<1>1. LayerSeq \in Seq(Kinds) /\ LayerSeq # <<>>
  BY PrefixAssumption DEF PrefixAssumption, Kinds
<1>2. w \in Nat /\ w > 0 /\ DOMAIN LayerSeq = 1 .. w
  BY <1>1, EmptySeq
<1>3. j \in Nat
  OBVIOUS
<1> HIDE DEF w, j
<1>4. j % w \in 0 .. w - 1
  BY <1>2, <1>3, RemainderIs
<1>5. 1 + (j % w) \in 1 .. w
  <2> DEFINE r == j % w
  <2>1. r \in 0 .. w - 1
    BY <1>4
  <2> HIDE DEF r
  <2>2. 1 + r \in 1 .. w
    BY <1>2, <2>1
  <2> QED BY <2>2 DEF r
<1>6. Turn(i) = LayerSeq[1 + (j % w)]
  BY DEF Turn, j, w
<1>7. \A x \in 1 .. w : LayerSeq[x] \in Layers
  BY <1>2 DEF Layers, ToSet
<1> QED BY <1>5, <1>6, <1>7

IsPaged(C, end, matched, N, r) ==
  r = [i \in 0 .. N |->
        IF i = 0 THEN [c |-> C, stop |-> FALSE]
        ELSE PageInOne(r[i - 1], [node |-> SubSeq(end, 1, (i - 1) \div Len(LayerSeq) + 1), layer |-> Turn(i)], matched)]

\* The paging loop stays within what was matched.
LEMMA PageInOK ==
  ASSUME NEW C, Calm(C), NEW end \in Seq(Token), NEW matched \in Nat, Within(C, matched)
  PROVE LET D == PageIn(C, end, matched)
        IN Calm(D) /\ D.nodes = C.nodes /\ Within(D, matched)
<1> DEFINE P == Paging(C, matched)
           N == Len(end) * Len(LayerSeq)
           start == [c |-> C, stop |-> FALSE]
           step(i) == [node |-> SubSeq(end, 1, (i - 1) \div Len(LayerSeq) + 1), layer |-> Turn(i)]
<1>1. N \in Nat
  <2>1. Len(LayerSeq) \in Nat /\ Len(end) \in Nat
    BY PrefixAssumption DEF PrefixAssumption
  <2> QED BY <2>1
<1>2. start \in P
  <2>1. C \in CacheType
    BY DEF Calm, CacheOK, Sound
  <2> QED BY <2>1 DEF Paging
<1>3. ASSUME NEW A \in P, NEW i \in Nat, i > 0 PROVE PageInOne(A, step(i), matched) \in P
  <2> DEFINE s == step(i)
  <2>1. s.layer \in Layers
    BY <1>3, TurnIs
  <2> HIDE DEF s
  <2>2. PageInOne(A, s, matched) \in P
    BY <2>1, PageInOneOK
  <2> QED BY <2>2 DEF s
<1> HIDE DEF N, P, start
<1>4. \E r : IsPaged(C, end, matched, N, r)
  <2> DEFINE g == [i \in 1 .. N |-> [A \in P |-> PageInOne(A, step(i), matched)]]
  <2>0. \A i \in 1 .. N : i \in Nat /\ i > 0
    BY <1>1
  <2>1. g \in [1 .. N -> [P -> P]]
    <3> HIDE DEF step
    <3> QED BY <1>3, <2>0
  <2>2. PICK f : IsRun(f, N, P, start, g)
    <3>1. \E f : IsRun(f, N, P, start, g)
      <4> HIDE DEF g
      <4> QED BY ONLY <1>1, <1>2, <2>1, RecursionExists
    <3> HIDE DEF g
    <3> QED BY <3>1
  <2>a. f \in [0 .. N -> P] /\ f[0] = start /\ \A i \in 1 .. N : f[i] = g[i][f[i - 1]]
    <3> HIDE DEF g
    <3> QED BY <2>2 DEF IsRun
  <2>3. ASSUME NEW i \in 0 .. N PROVE f[i] = IF i = 0 THEN start ELSE PageInOne(f[i - 1], step(i), matched)
    <3>1. CASE i = 0
      BY <2>a, <3>1
    <3>2. CASE i # 0
      <4>1. i \in 1 .. N /\ i - 1 \in 0 .. N
        BY <1>1, <3>2
      <4>2. f[i - 1] \in P /\ f[i] = g[i][f[i - 1]]
        <5> HIDE DEF g
        <5> QED BY <2>a, <4>1
      <4>3. g[i][f[i - 1]] = PageInOne(f[i - 1], step(i), matched)
        <5> HIDE DEF step
        <5> QED BY <4>1, <4>2
      <4> HIDE DEF g, step
      <4> QED BY <3>2, <4>2, <4>3
    <3> QED BY <3>1, <3>2
  <2>4. f = [i \in 0 .. N |-> f[i]]
    BY <2>a
  <2> QED BY <2>3, <2>4 DEF IsPaged, start
<1> DEFINE r == CHOOSE r : IsPaged(C, end, matched, N, r)
<1>5. IsPaged(C, end, matched, N, r)
  BY <1>4
<1>6. PageIn(C, end, matched) = r[N].c
  BY DEF PageIn, IsPaged, Turn, N
<1> HIDE DEF r
<1>7. r[0] = start /\ \A i \in 1 .. N : r[i] = PageInOne(r[i - 1], step(i), matched)
  <2>1. \A i \in 0 .. N : r[i] = IF i = 0 THEN start ELSE PageInOne(r[i - 1], step(i), matched)
    BY <1>5, Zenon DEF IsPaged, start
  <2> HIDE DEF step
  <2>2. 0 \in 0 .. N /\ \A i \in 1 .. N : i \in 0 .. N /\ i # 0
    BY <1>1
  <2> QED BY <2>1, <2>2
<1>8. \A i \in 0 .. N : r[i] \in P
  <2>1. \A i \in 1 .. N : i \in Nat /\ i > 0
    BY <1>1
  <2>2. r[0] \in P /\ \A i \in 1 .. N : r[i - 1] \in P => r[i] \in P
    <3> HIDE DEF step
    <3> QED BY <1>2, <1>3, <1>7, <2>1
  <2> QED BY <1>1, <2>2, AlongRecursion
<1>9. r[N] \in P
  <2>1. N \in 0 .. N
    BY <1>1
  <2> QED BY <1>8, <2>1
<1>10. Calm(r[N].c) /\ r[N].c.nodes = C.nodes /\ Within(r[N].c, matched)
  BY <1>9 DEF P, Paging
<1> QED BY <1>6, <1>10

\* A weaker bound.
LEMMA WithinMore ==
  ASSUME NEW C, CacheOK(C), NEW a \in Nat, NEW b \in Nat, a <= b, Within(C, a)
  PROVE Within(C, b)
BY LayersAre DEF Within

\* switchToPath leaves all layers at one offset, at most what was matched.
LEMMA SwitchToPathOK ==
  ASSUME NEW C, Calm(C), NEW end \in C.nodes, NEW matched \in Nat
  PROVE LET D == SwitchToPath(C, end, matched)
        IN Calm(D) /\ Even(D) /\ MinOffset(D) <= matched
<1> DEFINE common == Len(Longest(Ancestors(C, C.frontier) \cap Ancestors(C, end)))
           target == Least(common, matched)
           out == PageOut(C, end, matched)
           back == Rewind(out, target)
           paged == PageIn(back, end, matched)
           even == Align(paged, end)
           used == Touched(even)
           D == EnforceEvictionPolicy(used)
<1>1. SwitchToPath(C, end, matched) = D
  BY DEF SwitchToPath
<1>2. target \in Nat /\ target <= matched
  <2> DEFINE T == Ancestors(C, C.frontier) \cap Ancestors(C, end)
  <2>1. C.nodes \in SUBSET Seq(Token) /\ IsFiniteSet(C.nodes) /\ Root \in C.nodes /\ C.frontier \in C.nodes
    BY DEF Calm, CacheOK, TreeOK, Trie
  <2>2. T \in SUBSET C.nodes /\ Root \in T
    BY <2>1, PrefixRoot DEF Ancestors
  <2>3. T \in SUBSET Seq(Token) /\ IsFiniteSet(T) /\ T # {}
    BY <2>1, <2>2, FS_Subset
  <2> HIDE DEF T
  <2>4. Longest(T) \in Seq(Token)
    BY <2>3, LongestIs
  <2>5. common \in Nat
    BY <2>4 DEF T
  <2> HIDE DEF common
  <2> QED BY <2>5 DEF Least
<1>3. Calm(out) /\ SameTree(C, out)
  BY PageOutOK
<1> HIDE DEF target, out
<1>4. Calm(back) /\ SameTree(out, back) /\ Within(back, target)
  BY <1>2, <1>3, RewindOK
<1> HIDE DEF back
<1>5. Within(back, matched) /\ end \in Seq(Token) /\ end \in back.nodes
  <2>1. CacheOK(back) /\ end \in back.nodes
    BY <1>3, <1>4 DEF Calm, SameTree
  <2>2. end \in Seq(Token)
    BY <2>1 DEF CacheOK, TreeOK, Trie
  <2> QED BY <1>2, <1>4, <2>1, <2>2, WithinMore
<1>6. Calm(paged) /\ paged.nodes = back.nodes /\ Within(paged, matched)
  BY <1>4, <1>5, PageInOK
<1> HIDE DEF paged
<1>7. Calm(even) /\ Even(even) /\ MinOffset(even) <= matched
  BY <1>5, <1>6, AlignOK
<1> HIDE DEF even
<1>8. CacheOK(used) /\ SameRuns(even, used)
  BY <1>7, TouchedOK DEF Calm
<1> HIDE DEF used
<1>9. CacheOK(D) /\ SameRuns(used, D)
  BY <1>8, EnforceOK
<1> HIDE DEF D
<1>10. Calm(D) /\ \A k \in Layers : D.layer[k].off = even.layer[k].off
  <2>1. SameRuns(even, D)
    BY <1>8, <1>9, SameRunsTrans
  <2> QED BY <1>7, <1>9, <2>1, SameRunsCalm
<1>11. Even(D) /\ MinOffset(D) = MinOffset(even)
  <2>1. \A k \in Layers : D.layer[k].off = MinOffset(even)
    BY <1>7, <1>10 DEF Even
  <2> QED BY <1>9, <2>1, EvenIs
<1> QED BY <1>1, <1>7, <1>10, <1>11

-----------------------------------------------------------------------------
(* Forwards and schedules of all layers                                      *)

Taking(C) == \A k \in Layers : TakenFits(k, C.layer[k])

\* Without a schedule nothing is taken.
LEMMA CalmIs ==
  ASSUME NEW C, Calm(C)
  PROVE CacheOK(C) /\ Taking(C)
<1>1. CacheOK(C)
  BY DEF Calm
<1>2. Taking(C)
  BY <1>1, LayersAre, QuietIs DEF Calm, Taking
<1> QED BY <1>1, <1>2

\* A schedule that is not empty is set up in every layer.
LEMMA PreparedOK ==
  ASSUME NEW C, CacheOK(C), Even(C), NEW offsets \in SUBSET Nat, offsets # {}
  PROVE LET D == Scheduled(C, offsets)
        IN /\ CacheOK(D) /\ Taking(D) /\ Even(D) /\ MinOffset(D) = MinOffset(C) /\ SameTree(C, D)
           /\ \A k \in Layers : D.layer[k] = PrepareSnapshots(k, C.layer[k], offsets)
<1> DEFINE D == Scheduled(C, offsets)
           f == [k \in Layers |-> PrepareSnapshots(k, C.layer[k], offsets)]
<1>1. C \in CacheType
  BY DEF CacheOK, Sound
<1>2. IsRelayered(D, C, f)
  BY <1>1 DEF Scheduled, EachLayer, IsRelayered, CacheType
<1>3. ASSUME NEW k \in Layers
      PROVE LayerOK(k, f[k]) /\ TakenFits(k, f[k]) /\ DOMAIN f[k].snap = DOMAIN C.layer[k].snap /\ f[k].off = MinOffset(C)
  <2> DEFINE L == C.layer[k]
             R == PrepareSnapshots(k, L, offsets)
  <2>1. k \in Kinds /\ LayerOK(k, L) /\ L.off = MinOffset(C)
    BY LayersAre DEF Even
  <2>2. f[k] = R
    OBVIOUS
  <2> HIDE DEF L, f
  <2>3. LayerOK(k, R) /\ TakenFits(k, R) /\ SameLive(L, R)
    BY <2>1, PrepareOK
  <2> HIDE DEF R
  <2> QED BY <2>1, <2>2, <2>3 DEF L, SameLive
<1>4. f = [k \in Layers |-> f[k]] /\ \A k \in Layers : f[k] = PrepareSnapshots(k, C.layer[k], offsets)
  OBVIOUS
<1> HIDE DEF f, D
<1>5. CacheOK(D) /\ SameTree(C, D) /\ D.layer = f
  BY <1>2, <1>3, <1>4, RelayeredOK
<1>6. Even(D) /\ MinOffset(D) = MinOffset(C)
  BY <1>3, <1>5, EvenIs
<1> QED BY <1>3, <1>4, <1>5, <1>6 DEF Taking, D

\* schedulePrefillSnapshots.
LEMMA ScheduledOK ==
  ASSUME NEW C, Calm(C), Even(C), NEW offsets \in SUBSET Nat
  PROVE LET D == Scheduled(C, offsets)
        IN /\ CacheOK(D) /\ Taking(D) /\ Even(D) /\ MinOffset(D) = MinOffset(C)
           /\ offsets = {} => Calm(D)
<1>1. CASE offsets = {}
  BY <1>1, CalmIs DEF Scheduled
<1>2. CASE offsets # {}
  <2>1. CacheOK(C)
    BY DEF Calm
  <2> QED BY <1>2, <2>1, PreparedOK
<1> QED BY <1>1, <1>2

\* A forward through every layer.
LEMMA ForwardedOK ==
  ASSUME NEW C, CacheOK(C), Taking(C), Even(C), NEW w \in Seq(Token), NEW n \in Nat \ {0},
         MinOffset(C) + n = Len(w)
  PROVE LET D == Forwarded(C, w, n)
        IN /\ CacheOK(D) /\ Taking(D) /\ Even(D) /\ MinOffset(D) = Len(w) /\ SameTree(C, D)
           /\ \A k \in Layers : Advanced(k, C.layer[k], D.layer[k], n)
           /\ Calm(C) => Calm(D)
<1> DEFINE D == Forwarded(C, w, n)
           f == [k \in Layers |-> Forward(k, C.layer[k], w, n)]
<1>1. C \in CacheType /\ MinOffset(C) \in Nat /\ n \in Nat /\ n > 0 /\ n <= Len(w) /\ MinOffset(C) + n = Len(w)
  <2>1. C \in CacheType /\ MinOffset(C) \in Nat /\ Len(w) \in Nat
    BY MinOffsetIs DEF CacheOK, Sound
  <2> QED BY <2>1
<1>2. IsRelayered(D, C, f)
  BY <1>1 DEF Forwarded, EachLayer, IsRelayered, CacheType
<1>3. ASSUME NEW k \in Layers
      PROVE Advanced(k, C.layer[k], f[k], n) /\ f[k].off = Len(w)
  <2> DEFINE L == C.layer[k]
             R == Forward(k, L, w, n)
  <2>1. k \in Kinds /\ LayerOK(k, L) /\ TakenFits(k, L) /\ L.off = MinOffset(C)
    BY LayersAre DEF Even, Taking
  <2>2. f[k] = R
    OBVIOUS
  <2> HIDE DEF L, f
  <2>3. Advanced(k, L, R, n)
    BY <1>1, <2>1, ForwardOK
  <2> HIDE DEF R
  <2>4. R.off = Len(w)
    BY <1>1, <2>1, <2>3 DEF Advanced
  <2> QED BY <2>2, <2>3, <2>4 DEF L
<1>4. f = [k \in Layers |-> f[k]]
  OBVIOUS
<1> HIDE DEF f, D
<1>5. \A k \in Layers : LayerOK(k, f[k]) /\ TakenFits(k, f[k]) /\ DOMAIN f[k].snap = DOMAIN C.layer[k].snap
  BY <1>3 DEF Advanced
<1>6. CacheOK(D) /\ SameTree(C, D) /\ D.layer = f
  BY <1>2, <1>4, <1>5, RelayeredOK
<1>7. Even(D) /\ MinOffset(D) = Len(w)
  BY <1>3, <1>6, EvenIs
<1>8. ASSUME Calm(C), NEW k \in Layers PROVE Quiet(D.layer[k])
  <2> DEFINE L == C.layer[k]
             R == D.layer[k]
  <2>1. Quiet(L) /\ Advanced(k, L, R, n) /\ R \in LayerType
    BY <1>3, <1>6, <1>8, LayersAre DEF Calm
  <2> HIDE DEF L, R
  <2>2. DOMAIN R.taken = {} /\ R.due = {}
    <3>1. L.due = {} /\ DOMAIN L.taken = {}
      BY <2>1, EmptyMap DEF Quiet
    <3> QED BY <2>1, <3>1 DEF Advanced
  <2>3. R.taken = [x \in DOMAIN R.taken |-> R.taken[x]]
    <3>1. R.taken \in Maps(Nat, SnapshotSet)
      BY <2>1, LayerIs
    <3> QED BY <3>1, MapsAre
  <2>4. R.taken = <<>>
    BY <2>2, <2>3, NoMap
  <2> QED BY <2>2, <2>4 DEF Quiet, R
<1>9. Calm(C) => Calm(D)
  BY <1>6, <1>8 DEF Calm
<1>10. Taking(D) /\ \A k \in Layers : Advanced(k, C.layer[k], D.layer[k], n)
  BY <1>3, <1>5, <1>6 DEF Taking
<1> QED BY <1>6, <1>7, <1>9, <1>10 DEF D

\* The captures of every layer are taken.
LEMMA DrainedAllOK ==
  ASSUME NEW C, CacheOK(C), NEW f, f = [k \in Layers |-> Drained(C.layer[k])], NEW D,
         IsRelayered(D, C, f)
  PROVE /\ Calm(D) /\ SameTree(C, D)
        /\ \A k \in Layers : SameLive(C.layer[k], D.layer[k])
<1>1. ASSUME NEW k \in Layers
      PROVE LayerOK(k, f[k]) /\ Quiet(f[k]) /\ SameLive(C.layer[k], f[k]) /\ DOMAIN f[k].snap = DOMAIN C.layer[k].snap
  <2> DEFINE L == C.layer[k]
             R == Drained(L)
  <2>1. LayerOK(k, L) /\ f[k] = R
    BY LayersAre
  <2> HIDE DEF L
  <2>2. LayerOK(k, R) /\ SameLive(L, R) /\ Quiet(R)
    BY <2>1, DrainedOK
  <2> HIDE DEF R
  <2> QED BY <2>1, <2>2 DEF L, SameLive
<1>2. f = [k \in Layers |-> f[k]]
  OBVIOUS
<1>3. CacheOK(D) /\ SameTree(C, D) /\ D.layer = f
  BY <1>1, <1>2, RelayeredOK
<1> QED BY <1>1, <1>3 DEF Calm

-----------------------------------------------------------------------------
(* attachPrefillSnapshots                                                    *)

\* A node the user asked for is marked.
LEMMA RetainedOK ==
  ASSUME NEW C, CacheOK(C)
  PROVE LET D == [C EXCEPT !.user = @ \cup {C.frontier}]
        IN CacheOK(D) /\ SameRuns(C, D) /\ D.frontier = C.frontier
<1> DEFINE D == [C EXCEPT !.user = @ \cup {C.frontier}]
           user == C.user \cup {C.frontier}
<1>0. /\ C \in CacheType /\ Sound(C) /\ TreeOK(C)
      /\ C.nodes \in SUBSET Seq(Token) /\ C.user \in SUBSET Seq(Token) /\ C.lastUsed \in Maps(Seq(Token), Nat)
      /\ C.frontier \in Seq(Token) /\ user \in SUBSET Seq(Token)
  BY CacheIs DEF CacheOK, Sound
<1>1. IsRetreed(D, C, C.nodes, user, C.lastUsed, C.frontier)
  BY <1>0 DEF IsRetreed, CacheType
<1>2. user \in SUBSET C.nodes
  BY <1>0 DEF TreeOK
<1> HIDE DEF D, user
<1>3. /\ Sound(D) /\ SameRuns(C, D) /\ D.nodes = C.nodes /\ D.user = user /\ D.lastUsed = C.lastUsed
      /\ D.frontier = C.frontier /\ D.layer = C.layer
  BY <1>0, <1>1, RetreedOK
<1>4. TreeOK(D)
  BY <1>0, <1>2, <1>3 DEF TreeOK
<1> QED BY <1>3, <1>4 DEF CacheOK, D

\* attachPrefillSnapshots for one offset: it changes the trie, never the layers' arrays.
LEMMA AttachOK ==
  ASSUME NEW C, Calm(C), session.inputs \in Seq(Token), NEW o \in 1 .. Len(session.inputs),
         NEW rows, \A k \in Layers : Fit(k, C.layer[k], At(rows[k], o))
  PROVE LET D == Attach(C, o, rows)
        IN Calm(D) /\ SameRuns(C, D)
<1> DEFINE w == SubSeq(session.inputs, 1, o)
           A == IF Len(C.frontier) < o THEN AdvancePath(C, w) ELSE C
           U == IF o \in session.user THEN [A EXCEPT !.user = @ \cup {A.frontier}] ELSE A
           snaps == [k \in Layers |-> At(rows[k], o)]
           S == SetSnapshots(U, U.frontier, snaps)
           T == Touched(S)
           D == EnforceEvictionPolicy(T)
<1>0. Attach(C, o, rows) = D
  BY DEF Attach
<1>1. w \in Nodes /\ o > 0 /\ o \in Nat
  <2>1. o \in 0 .. Len(session.inputs) /\ o > 0 /\ o \in Nat
    OBVIOUS
  <2>2. w \in Seq(Token) /\ Len(w) = o
    BY <2>1, PrefixSub
  <2>3. w # Root
    BY <2>1, <2>2, PrefixRoot
  <2> QED BY <2>1, <2>2, <2>3 DEF Nodes
<1>2. CacheOK(A) /\ SameRuns(C, A) /\ A.frontier # Root
  <2>1. CASE Len(C.frontier) < o
    <3>1. A = AdvancePath(C, w)
      BY <2>1
    <3> HIDE DEF A, w
    <3>2. CacheOK(A) /\ SameRuns(C, A) /\ A.frontier = w
      BY <1>1, <3>1, AdvancePathOK DEF Calm
    <3> QED BY <1>1, <3>2 DEF Nodes
  <2>2. CASE ~(Len(C.frontier) < o)
    <3>1. A = C
      BY <2>2
    <3>2. C.frontier # Root
      BY <1>1, <2>2, PrefixRoot
    <3> HIDE DEF A
    <3> QED BY <3>1, <3>2, SameRunsRefl DEF Calm
  <2> QED BY <2>1, <2>2
<1> HIDE DEF A
<1>3. CacheOK(U) /\ SameRuns(C, U) /\ U.frontier # Root
  <2>1. CASE U = A
    BY <1>2, <2>1
  <2>2. CASE U = [A EXCEPT !.user = @ \cup {A.frontier}]
    <3> HIDE DEF U
    <3>1. CacheOK(U) /\ SameRuns(A, U) /\ U.frontier = A.frontier
      BY <1>2, <2>2, RetainedOK
    <3> QED BY <1>2, <3>1, SameRunsTrans
  <2> QED BY <2>1, <2>2
<1> HIDE DEF U
<1>4. CacheOK(S) /\ SameRuns(U, S)
  <2> DEFINE n == U.frontier
  <2>1. n \in U.nodes /\ n # Root /\ S = SetSnapshots(U, n, snaps) /\ CacheOK(U)
    BY <1>3 DEF CacheOK, TreeOK
  <2>2. \A k \in Layers : Fit(k, C.layer[k], snaps[k])
    OBVIOUS
  <2> HIDE DEF n, snaps, S
  <2>3. \A k \in Layers : Fit(k, U.layer[k], snaps[k])
    BY <1>3, <2>2, SameRunIs DEF SameRuns
  <2>4. n \in U.nodes /\ n # Root
    BY <2>1
  <2> QED BY ONLY <2>1, <2>3, <2>4, SetOnNodeOK
<1> HIDE DEF S
<1>5. CacheOK(T) /\ SameRuns(S, T)
  BY <1>4, TouchedOK
<1> HIDE DEF T
<1>6. CacheOK(D) /\ SameRuns(T, D)
  BY <1>5, EnforceOK
<1> HIDE DEF D
<1>7. SameRuns(C, D)
  BY <1>3, <1>4, <1>5, <1>6, SameRunsTrans
<1>8. Calm(D)
  BY <1>6, <1>7, SameRunsCalm
<1> QED BY <1>0, <1>7, <1>8

\* What attachPrefillSnapshots starts from: the layers with their captures taken, and the
\* captures.
Emptied(C) == EachLayer(C, LAMBDA k, L : Drained(L))

Rows(C) == [k \in Layers |-> C.layer[k].taken]

\* The schedules are drained.
LEMMA EmptiedOK ==
  ASSUME NEW C, CacheOK(C)
  PROVE /\ Calm(Emptied(C)) /\ SameTree(C, Emptied(C))
        /\ \A k \in Layers : SameLive(C.layer[k], Emptied(C).layer[k])
<1> DEFINE D == Emptied(C)
           f == [k \in Layers |-> Drained(C.layer[k])]
<1>1. IsRelayered(D, C, f)
  <2>1. C \in CacheType
    BY DEF CacheOK, Sound
  <2> QED BY <2>1 DEF Emptied, EachLayer, IsRelayered, CacheType
<1>2. f = [k \in Layers |-> Drained(C.layer[k])]
  OBVIOUS
<1> HIDE DEF f, D
<1>3. Calm(D) /\ SameTree(C, D) /\ \A k \in Layers : SameLive(C.layer[k], D.layer[k])
  BY <1>1, <1>2, DrainedAllOK
<1> QED BY <1>3 DEF D

\* Every capture can hang on a node.
LEMMA RowsFit ==
  ASSUME NEW C, CacheOK(C), Taking(C), NEW k \in Layers, NEW o \in Nat
  PROVE Fit(k, Emptied(C).layer[k], At(Rows(C)[k], o))
<1> DEFINE L == C.layer[k]
           R == Emptied(C).layer[k]
<1>1. L \in LayerType /\ TakenFits(k, L) /\ R.buf = L.buf /\ Rows(C)[k] = L.taken
  BY EmptiedOK, LayersAre DEF Taking, SameLive, Rows
<1> HIDE DEF L, R
<1>2. \A x \in DOMAIN L.taken : L.taken[x] \in SnapshotSet
  <2>1. L.taken \in Maps(Nat, SnapshotSet)
    BY <1>1, LayerIs
  <2> QED BY <2>1, MapsAre
<1>3. Fit(k, R, At(L.taken, o))
  BY <1>1, <1>2 DEF Fit, At, TakenFits
<1> QED BY <1>1, <1>3 DEF R

\* attachPrefillSnapshots, offset by offset: r[o] is the cache after the offsets up to o.
IsAttached(start, rows, pending, N, r) ==
  r = [o \in 0 .. N |->
        IF o = 0 THEN start ELSE IF o \in pending THEN Attach(r[o - 1], o, rows) ELSE r[o - 1]]

AttachedBy(r) ==
  /\ Attached = r[Cached] /\ r[0] = Emptied(cache)
  /\ \A o \in 1 .. Cached :
       r[o] = IF o \in session.pending THEN Attach(r[o - 1], o, Rows(cache)) ELSE r[o - 1]
  /\ \A o \in 0 .. Cached : Calm(r[o]) /\ SameRuns(Emptied(cache), r[o])

LEMMA AttachedRun ==
  ASSUME CacheOK(cache), Taking(cache), session.inputs \in Seq(Token),
         Cached <= Len(session.inputs)
  PROVE \E r : AttachedBy(r)
<1> DEFINE rows == Rows(cache)
           start == Emptied(cache)
           N == Cached
           P == {D \in CacheType : Calm(D) /\ SameRuns(start, D)}
           next(o, D) == IF o \in session.pending THEN Attach(D, o, rows) ELSE D
<1>1. N \in Nat /\ N <= Len(session.inputs)
  BY MinOffsetIs DEF Cached
<1>2. Calm(start)
  BY EmptiedOK
<1>3. \A k \in Layers : \A o \in Nat : Fit(k, start.layer[k], At(rows[k], o))
  BY RowsFit
<1> HIDE DEF start, rows
<1>4. start \in P
  BY <1>2, SameRunsRefl DEF Calm, CacheOK, Sound
<1>5. ASSUME NEW D \in P, NEW o \in 1 .. N PROVE next(o, D) \in P
  <2>1. CASE o \notin session.pending
    BY <1>5, <2>1
  <2>2. CASE o \in session.pending
    <3> DEFINE E == Attach(D, o, rows)
    <3>1. next(o, D) = E /\ Calm(D) /\ SameRuns(start, D) /\ o \in Nat /\ o \in 1 .. Len(session.inputs)
      BY <1>1, <1>5, <2>2
    <3> HIDE DEF E, next, P
    <3>2. \A k \in Layers : Fit(k, D.layer[k], At(rows[k], o))
      BY <1>3, <3>1, SameRunIs DEF SameRuns
    <3>3. Calm(E) /\ SameRuns(D, E)
      BY <3>1, <3>2, AttachOK DEF E
    <3>4. SameRuns(start, E)
      BY <3>1, <3>3, SameRunsTrans
    <3> QED BY <3>1, <3>3, <3>4 DEF Calm, CacheOK, Sound, P
  <2> QED BY <2>1, <2>2
<1> HIDE DEF N, P
<1>6. \E r : IsAttached(start, rows, session.pending, N, r)
  <2> DEFINE g == [o \in 1 .. N |-> [D \in P |-> next(o, D)]]
  <2>1. g \in [1 .. N -> [P -> P]]
    <3> HIDE DEF next
    <3> QED BY <1>5
  <2>2. PICK q : IsRun(q, N, P, start, g)
    <3>1. \E q : IsRun(q, N, P, start, g)
      <4> HIDE DEF g
      <4>1. N \in Nat
        BY <1>1
      <4> QED BY ONLY <1>4, <2>1, <4>1, RecursionExists
    <3> HIDE DEF g
    <3> QED BY <3>1
  <2>3. q \in [0 .. N -> P] /\ q[0] = start /\ \A i \in 1 .. N : q[i] = g[i][q[i - 1]]
    <3> HIDE DEF g
    <3> QED BY <2>2 DEF IsRun
  <2>4. ASSUME NEW i \in 0 .. N PROVE q[i] = IF i = 0 THEN start ELSE next(i, q[i - 1])
    <3>1. CASE i = 0
      BY <2>3, <3>1
    <3>2. CASE i # 0
      <4>1. i \in 1 .. N /\ i - 1 \in 0 .. N
        BY <1>1, <3>2
      <4>2. q[i - 1] \in P /\ q[i] = g[i][q[i - 1]]
        <5> HIDE DEF g
        <5> QED BY <2>3, <4>1
      <4>3. g[i][q[i - 1]] = next(i, q[i - 1])
        <5> HIDE DEF next
        <5> QED BY <4>1, <4>2
      <4> HIDE DEF g, next
      <4> QED BY <3>2, <4>2, <4>3
    <3> QED BY <3>1, <3>2
  <2>5. q = [i \in 0 .. N |-> q[i]]
    BY <2>3
  <2> QED BY <2>4, <2>5 DEF IsAttached
<1> DEFINE r == CHOOSE r : IsAttached(start, rows, session.pending, N, r)
<1>7. IsAttached(start, rows, session.pending, N, r)
  BY <1>6
<1>8. Attached = r[N]
  BY DEF Attached, IsAttached, N, rows, start, Rows, Emptied
<1> HIDE DEF r
<1>9. r[0] = start /\ \A i \in 1 .. N : r[i] = next(i, r[i - 1])
  <2>1. \A i \in 0 .. N : r[i] = IF i = 0 THEN start ELSE next(i, r[i - 1])
    BY <1>7, Zenon DEF IsAttached
  <2> HIDE DEF next
  <2>2. 0 \in 0 .. N /\ \A i \in 1 .. N : i \in 0 .. N /\ i # 0
    BY <1>1
  <2> QED BY <2>1, <2>2
<1>10. \A i \in 0 .. N : r[i] \in P
  <2>1. r[0] \in P /\ \A i \in 1 .. N : r[i - 1] \in P => r[i] \in P
    <3> HIDE DEF next
    <3> QED BY <1>4, <1>5, <1>9
  <2> QED BY <1>1, <2>1, AlongRecursion
<1> QED BY <1>8, <1>9, <1>10 DEF AttachedBy, P, N, start, rows

\* attachPrefillSnapshots for all of them.
LEMMA AttachedOK ==
  ASSUME CacheOK(cache), Taking(cache), Even(cache), session.inputs \in Seq(Token),
         Cached <= Len(session.inputs)
  PROVE Calm(Attached) /\ Even(Attached) /\ MinOffset(Attached) = Cached
<1>1. PICK r : AttachedBy(r)
  BY AttachedRun
<1>2. Cached \in 0 .. Cached
  BY MinOffsetIs DEF Cached
<1>3. Calm(Attached) /\ SameRuns(Emptied(cache), Attached)
  BY <1>1, <1>2 DEF AttachedBy
<1>4. \A k \in Layers : SameLive(cache.layer[k], Emptied(cache).layer[k])
  BY EmptiedOK
<1>5. \A k \in Layers : Attached.layer[k].off = Cached
  <2>1. \A k \in Layers : cache.layer[k].off = Cached
    BY DEF Even, Cached
  <2> QED BY <1>3, <1>4, <2>1 DEF SameRuns, SameRun, SameLive
<1>6. Even(Attached) /\ MinOffset(Attached) = Cached
  BY <1>3, <1>5, EvenIs DEF Calm
<1> QED BY <1>3, <1>6

-----------------------------------------------------------------------------
(* commitSpeculation, and the invariant                                      *)

IsKept(K, L, target) == K = [L EXCEPT !.taken = Restrict(@, DOMAIN @ \cap {target})]

IsRolled(R, k, K, target) ==
  R = IF CanRestore(k, K, None, target) THEN Restore(k, K, None, target)
      ELSE Restore(k, K, At(K.taken, target), target)

\* commitSpeculation rolls a layer back to an offset, by the capture it holds there.
LEMMA RolledOK ==
  ASSUME NEW k \in Kinds, NEW L, LayerOK(k, L), TakenFits(k, L), NEW target \in Nat,
         target <= L.off, k # "kv" => target \in DOMAIN L.taken, NEW K, IsKept(K, L, target),
         NEW R, IsRolled(R, k, K, target)
  PROVE LayerOK(k, R) /\ DOMAIN R.snap = DOMAIN L.snap /\ R.off = target /\ (L.spoiled => R.spoiled)
<1> DEFINE T == Restrict(L.taken, DOMAIN L.taken \cap {target})
           s == At(K.taken, target)
<1>0. L \in LayerType /\ L.taken \in Maps(Nat, SnapshotSet) /\ L.due \in SUBSET Nat /\ L.base \in Nat
  <2>1. L \in LayerType
    BY DEF LayerOK, Fits
  <2> QED BY <2>1, LayerIs
<1>1. DOMAIN T = DOMAIN L.taken \cap {target} /\ (\A o \in DOMAIN T : T[o] = L.taken[o]) /\ T = [o \in DOMAIN T |-> T[o]]
  BY DEF Restrict
<1>2. T \in Maps(Nat, SnapshotSet) /\ \A o \in DOMAIN T : SnapFits(k, Len(L.buf), T[o]) /\ T[o].to = o
  <2>1. DOMAIN L.taken \in SUBSET Nat /\ \A o \in DOMAIN L.taken : L.taken[o] \in SnapshotSet
    BY <1>0, MapsAre
  <2>2. DOMAIN T \in SUBSET Nat /\ \A o \in DOMAIN T : T[o] \in SnapshotSet
    <3> HIDE DEF T
    <3> QED BY <1>1, <2>1
  <2>3. T \in Maps(Nat, SnapshotSet)
    <3> HIDE DEF T
    <3> QED BY <1>1, <2>2, MapsAre
  <2> HIDE DEF T
  <2> QED BY <1>1, <2>3 DEF TakenFits
<1>3. IsRetaken(K, L, L.due, L.base, T)
  BY <1>0 DEF IsRetaken, LayerType, IsKept
<1> HIDE DEF T
<1>4. LayerOK(k, K) /\ TakenFits(k, K) /\ SameLive(L, K) /\ K.due = L.due /\ K.base = L.base /\ K.taken = T
  <2> DEFINE due == L.due
             base == L.base
  <2>1. due \in SUBSET Nat /\ base \in Nat /\ T \in Maps(Nat, SnapshotSet) /\ IsRetaken(K, L, due, base, T)
    BY <1>0, <1>2, <1>3
  <2>2. \A o \in DOMAIN T : SnapFits(k, Len(L.buf), T[o]) /\ T[o].to = o
    BY <1>2
  <2> HIDE DEF due, base
  <2>3. LayerOK(k, K) /\ TakenFits(k, K) /\ SameLive(L, K) /\ K.due = due /\ K.base = base /\ K.taken = T
    BY <2>1, <2>2, Retaken
  <2> QED BY <2>3 DEF due, base
<1>5. L.off \in Nat /\ target <= K.off
  BY <1>0, <1>4, LayerIs DEF SameLive
<1>6. CASE CanRestore(k, K, None, target)
  <2> DEFINE none == None
  <2>1. R = Restore(k, K, none, target) /\ CanRestore(k, K, none, target) /\ Fit(k, K, none) /\ none = None
    BY <1>6 DEF Fit, IsRolled
  <2> HIDE DEF none
  <2>2. LayerOK(k, R) /\ Untouched(K, R) /\ R.off = target
    BY <1>4, <2>1, RestoreOK
  <2> QED BY <1>4, <2>2 DEF Untouched, SameLive
<1>7. CASE ~CanRestore(k, K, None, target)
  <2>1. k # "kv"
    BY <1>5, <1>7 DEF CanRestore, KVCanRestore
  <2>2. target \in DOMAIN K.taken
    BY <1>1, <1>4, <2>1
  <2>3. s = K.taken[target] /\ s \in SnapshotSet /\ SnapFits(k, Len(K.buf), s) /\ s.to = target
    <3>1. K.taken \in Maps(Nat, SnapshotSet)
      BY <1>2, <1>4
    <3>2. K.taken[target] \in SnapshotSet
      BY <2>2, <3>1, MapsAre
    <3>3. s = K.taken[target]
      BY <2>2 DEF At
    <3>4. SnapFits(k, Len(K.buf), K.taken[target]) /\ K.taken[target].to = target
      BY <1>4, <2>2 DEF TakenFits
    <3> HIDE DEF s
    <3> QED BY <3>2, <3>3, <3>4
  <2>4. s # None /\ Fit(k, K, s) /\ R = Restore(k, K, s, target)
    BY <1>7, <2>3, SnapshotIs DEF Fit, IsRolled
  <2> HIDE DEF s
  <2>5. CanRestore(k, K, s, target)
    <3>1. RotCanRestore(K, s, target) /\ RnnCanRestore(K, s, target)
      <4>1. s.to = target /\ s # None
        BY <2>3, <2>4
      <4> QED BY <4>1 DEF RotCanRestore, RnnCanRestore
    <3>2. k = "rot" \/ k = "rnn"
      BY <2>1 DEF Kinds
    <3> QED BY <3>1, <3>2 DEF CanRestore
  <2>6. LayerOK(k, R) /\ Untouched(K, R) /\ R.off = target
    BY <1>4, <2>1, <2>4, <2>5, RestoreOK
  <2> QED BY <1>4, <2>6 DEF Untouched, SameLive
<1> QED BY <1>6, <1>7

\* commitSpeculation of one layer.
LEMMA CommittedOK ==
  ASSUME NEW k \in Kinds, NEW L, LayerOK(k, L), TakenFits(k, L), NEW before \in Nat,
         NEW drafted \in Nat, NEW accepted \in 0 .. drafted, L.off = before + drafted,
         accepted < drafted /\ k # "kv" => before + accepted \in DOMAIN L.taken
  PROVE LET R == Committed(k, L, accepted, drafted, before)
        IN /\ LayerOK(k, R) /\ Quiet(R) /\ DOMAIN R.snap = DOMAIN L.snap /\ R.off = before + accepted
           /\ L.spoiled => R.spoiled
<1> DEFINE target == before + accepted
           K == [L EXCEPT !.taken = Restrict(@, DOMAIN @ \cap {target})]
           A == IF CanRestore(k, K, None, target) THEN Restore(k, K, None, target)
                ELSE Restore(k, K, At(K.taken, target), target)
           rolled == IF accepted = drafted THEN L ELSE A
           R == Drained(rolled)
<1>1. Committed(k, L, accepted, drafted, before) = R
  BY DEF Committed
<1>2. LayerOK(k, rolled) /\ DOMAIN rolled.snap = DOMAIN L.snap /\ rolled.off = target /\ (L.spoiled => rolled.spoiled)
  <2>1. CASE accepted = drafted
    BY <2>1
  <2>2. CASE accepted # drafted
    <3>1. target \in Nat /\ target <= L.off /\ (k # "kv" => target \in DOMAIN L.taken)
      BY <2>2
    <3>2. rolled = A
      BY <2>2
    <3>3. IsKept(K, L, target) /\ IsRolled(A, k, K, target)
      BY DEF IsKept, IsRolled
    <3> HIDE DEF target, K, A, rolled
    <3>4. LayerOK(k, A) /\ DOMAIN A.snap = DOMAIN L.snap /\ A.off = target /\ (L.spoiled => A.spoiled)
      BY <3>1, <3>3, RolledOK
    <3> QED BY <3>2, <3>4
  <2> QED BY <2>1, <2>2
<1> HIDE DEF rolled
<1>3. LayerOK(k, R) /\ SameLive(rolled, R) /\ Quiet(R)
  BY <1>2, DrainedOK
<1> HIDE DEF R
<1> QED BY <1>1, <1>2, <1>3 DEF SameLive

\* What the pipeline keeps between the cache and the session.
SessionOK ==
  /\ left \in [prompt : Nat, output : Nat, draft : Nat, requests : Nat]
  /\ session \in [inputs : Seq(Token), outputs : Seq(Token), pending : SUBSET Nat, user : SUBSET Nat]
  /\ Len(session.inputs) <= left.prompt
  /\ session.pending \in SUBSET (1 .. left.prompt) /\ session.user \in SUBSET session.pending
  /\ phase \in {"idle", "prefill", "decode"}

\* The number of tokens that every layer holds, and when a schedule is set up.
ProgressOK ==
  /\ phase = "prefill" => session.outputs = <<>> /\ Cached < Len(session.inputs)
  /\ phase = "decode" => Cached = Len(Stored)
  /\ phase # "prefill" \/ session.pending = {} => Calm(cache)

PrefixInv ==
  /\ CacheOK(cache) /\ Taking(cache) /\ Even(cache)
  /\ SessionOK /\ ProgressOK

\* The tokens of the conversation.
LEMMA StoredIs ==
  ASSUME SessionOK
  PROVE /\ Stored \in Seq(Token) /\ Len(Stored) = Len(session.inputs) + Len(session.outputs)
        /\ session.outputs = <<>> => Stored = session.inputs
<1>1. session.inputs \in Seq(Token) /\ session.outputs \in Seq(Token)
  BY DEF SessionOK
<1>2. Stored \in Seq(Token) /\ Len(Stored) = Len(session.inputs) + Len(session.outputs)
  BY <1>1, ConcatProperties DEF Stored
<1>3. session.outputs = <<>> => Stored = session.inputs
  BY <1>1, ConcatEmptySeq DEF Stored
<1> QED BY <1>2, <1>3

-----------------------------------------------------------------------------
(* The actions keep the invariant                                            *)

\* The texts of a behaviour.
LEMMA TextIs ==
  ASSUME NEW n \in Nat, NEW w \in Texts(n)
  PROVE w \in Seq(Token) /\ Len(w) \in 1 .. n
BY DEF Texts

\* The cache starts empty.
LEMMA InitInv == PrefixInit => PrefixInv
<1> SUFFICES ASSUME PrefixInit PROVE PrefixInv
  OBVIOUS
<1> DEFINE zero == 0
<1>1. /\ cache = [nodes |-> {Root}, user |-> {}, lastUsed |-> [n \in {Root} |-> 0], frontier |-> Root,
                  layer |-> [k \in Layers |-> NewLayer]]
      /\ session = [inputs |-> <<>>, outputs |-> <<>>, pending |-> {}, user |-> {}]
      /\ phase = "idle" /\ left \in Limits
  BY DEF PrefixInit
<1>2. \A k \in Layers : LayerOK(k, NewLayer) /\ Quiet(NewLayer) /\ DOMAIN NewLayer.snap = {} /\ NewLayer.off = 0
  <2> SUFFICES ASSUME NEW k \in Layers PROVE LayerOK(k, NewLayer) /\ Quiet(NewLayer) /\ DOMAIN NewLayer.snap = {} /\ NewLayer.off = 0
    OBVIOUS
  <2>1. /\ NewLayer.off = 0 /\ NewLayer.buf = <<>> /\ NewLayer.idx = 0 /\ NewLayer.rewound = FALSE /\ NewLayer.snap = <<>>
        /\ NewLayer.due = {} /\ NewLayer.base = 0 /\ NewLayer.taken = <<>> /\ NewLayer.bytes = 0 /\ NewLayer.spoiled = FALSE
    BY DEF NewLayer
  <2>2. <<>> \in Seq(Content) /\ Len(<<>>) = 0 /\ <<>> \in Maps(Nat, SnapshotSet) /\ DOMAIN <<>> = {}
    BY EmptyMap
  <2>3. <<>> \in Maps(Nodes, SnapshotSet)
    <3>1. <<>> = [x \in DOMAIN <<>> |-> <<>>[x]]
      BY EmptyMap, MapsAre
    <3> QED BY <2>2, <3>1, MapsAre
  <2>4. NewLayer \in LayerType
    BY <2>2, <2>3 DEF NewLayer, LayerType
  <2>5. BytesOf(<<>>) = 0
    <3> DEFINE g == [n \in DOMAIN <<>> |-> Size((<<>>)[n])]
    <3>1. g \in [{} -> Int]
      BY <2>2
    <3>2. BytesOf(<<>>) = SumFunction(g)
      BY DEF BytesOf
    <3> HIDE DEF g
    <3> QED BY <3>1, <3>2, SumEmpty
  <2>6. Shape(k, NewLayer)
    BY <2>1, <2>2, ConstantsAre DEF Shape, RotFits
  <2>7. IsFiniteSet(DOMAIN NewLayer.snap)
    BY <2>1, <2>2, FS_EmptySet
  <2> HIDE DEF NewLayer
  <2> QED BY <2>1, <2>2, <2>4, <2>5, <2>6, <2>7 DEF LayerOK, Fits, Quiet
<1> HIDE DEF NewLayer
<1>3. Root \in Seq(Token)
  BY PrefixRoot
<1>4. [n \in {Root} |-> 0] \in Maps(Seq(Token), Nat) /\ DOMAIN [n \in {Root} |-> 0] = {Root}
  BY <1>3, MapsAre
<1>5. cache \in CacheType
  <2>1. [k \in Layers |-> NewLayer] \in [Layers -> LayerType]
    BY <1>2 DEF LayerOK, Fits
  <2> QED BY <1>1, <1>3, <1>4, <2>1 DEF CacheType
<1>6. Trie({Root})
  <2>1. Meet(Root, Root) = Root
    BY <1>3, MeetPrefix, PrefixRefl
  <2>2. IsFiniteSet({Root})
    BY FS_Singleton
  <2> QED BY <1>3, <2>1, <2>2 DEF Trie
<1>7. \A k \in Layers : cache.layer[k] = NewLayer
  BY <1>1
<1>8. cache.nodes = {Root} /\ cache.user = {} /\ cache.lastUsed = [n \in {Root} |-> 0] /\ cache.frontier = Root
  BY <1>1
<1>9. TreeOK(cache)
  BY <1>2, <1>4, <1>6, <1>7, <1>8 DEF TreeOK
<1>10. CacheOK(cache) /\ Calm(cache)
  BY <1>2, <1>5, <1>7, <1>9 DEF CacheOK, Sound, Calm
<1>11. Taking(cache)
  BY <1>10, CalmIs
<1>12. Even(cache)
  <2>1. \A k \in Layers : cache.layer[k].off = zero
    BY <1>2, <1>7
  <2> HIDE DEF zero
  <2> QED BY <1>10, <2>1, EvenIs
<1>13. SessionOK
  <2>1. left \in [prompt : Nat, output : Nat, draft : Nat, requests : Nat]
    BY <1>1, PrefixAssumption DEF PrefixAssumption
  <2>2. session.inputs = <<>> /\ session.outputs = <<>> /\ session.pending = {} /\ session.user = {}
    BY <1>1
  <2> QED BY <1>1, <2>1, <2>2 DEF SessionOK
<1>14. ProgressOK
  BY <1>1, <1>10 DEF ProgressOK
<1> QED BY <1>10, <1>11, <1>12, <1>13, <1>14 DEF PrefixInv

\* begin keeps the invariant.
LEMMA BeginKeeps ==
  ASSUME PrefixInv, NEW inputs \in Texts(left.prompt), Begin(inputs)
  PROVE PrefixInv'
<1> DEFINE full == Matched(cache, inputs)
           used == IF full = Len(inputs) /\ full > 0 THEN SubSeq(inputs, 1, full - 1) ELSE inputs
           matched == Matched(cache, used)
           end == MatchEnd(cache, used)
           C == SwitchToPath(cache, end, matched)
           prefix == MinOffset(C)
           user == {o \in Wanted(inputs) : o > prefix}
           pending == user \cup (IF prefix < matched THEN {matched} ELSE {})
           D == Scheduled(C, pending)
<1>1. /\ phase = "idle" /\ cache' = D
      /\ session' = [inputs |-> inputs, outputs |-> <<>>, pending |-> pending, user |-> user]
      /\ phase' = "prefill" /\ left' = [left EXCEPT !.requests = @ - 1] /\ left.requests > 0
  BY DEF Begin
<1>2. Calm(cache) /\ Trie(cache.nodes) /\ left \in [prompt : Nat, output : Nat, draft : Nat, requests : Nat]
  BY <1>1 DEF PrefixInv, ProgressOK, SessionOK, CacheOK, TreeOK
<1>3. inputs \in Seq(Token) /\ Len(inputs) \in Nat /\ Len(inputs) > 0 /\ Len(inputs) <= left.prompt /\ left.prompt \in Nat
  <2>1. left.prompt \in Nat
    BY <1>2
  <2>2. inputs \in Seq(Token) /\ Len(inputs) \in 1 .. left.prompt
    BY <2>1, TextIs
  <2> QED BY <2>1, <2>2
<1>4. full \in 0 .. Len(inputs)
  BY <1>2, <1>3, MatchedIs
<1>5. used \in Seq(Token) /\ matched \in Nat /\ matched < Len(inputs)
  <2>1. CASE full = Len(inputs) /\ full > 0
    <3>1. full - 1 \in 0 .. Len(inputs) /\ used = SubSeq(inputs, 1, full - 1)
      BY <1>3, <1>4, <2>1
    <3>2. used \in Seq(Token) /\ Len(used) = full - 1
      BY <1>3, <3>1, PrefixSub
    <3> HIDE DEF used
    <3>3. matched \in 0 .. Len(used)
      BY <1>2, <3>2, MatchedIs
    <3> QED BY <1>3, <1>4, <2>1, <3>2, <3>3
  <2>2. CASE ~(full = Len(inputs) /\ full > 0)
    <3>1. used = inputs
      BY <2>2
    <3>2. matched = full
      BY <3>1
    <3> HIDE DEF full, matched, used
    <3> QED BY <1>3, <1>4, <2>2, <3>1, <3>2
  <2> QED BY <2>1, <2>2
<1> HIDE DEF full, used
<1>6. end \in cache.nodes
  BY <1>2, <1>5, MatchEndIs
<1> HIDE DEF matched, end
<1>7. Calm(C) /\ Even(C) /\ MinOffset(C) <= matched
  BY <1>2, <1>5, <1>6, SwitchToPathOK
<1> HIDE DEF C
<1>8. prefix \in Nat
  BY <1>7, MinOffsetIs DEF Calm
<1>9. user \in SUBSET (1 .. Len(inputs))
  <2> SUFFICES ASSUME NEW o \in user PROVE o \in 1 .. Len(inputs)
    OBVIOUS
  <2>1. o \in Wanted(inputs) /\ o > prefix
    OBVIOUS
  <2>2. o \in Int /\ o <= Len(inputs)
    <3>1. CASE o \in 1 .. Len(inputs) - 1
      BY <1>3, <3>1
    <3>2. CASE o = Len(inputs) - PreThinking
      BY <1>3, <3>2, ConstantsAre
    <3> QED BY <2>1, <3>1, <3>2 DEF Wanted
  <2> HIDE DEF prefix, user
  <2> QED BY <1>3, <1>8, <2>1, <2>2
<1>10. pending \in SUBSET (1 .. Len(inputs)) /\ user \in SUBSET pending
  <2> HIDE DEF user, prefix
  <2> QED BY <1>3, <1>5, <1>8, <1>9
<1> HIDE DEF pending
<1>11. /\ CacheOK(D) /\ Taking(D) /\ Even(D) /\ MinOffset(D) = prefix
       /\ pending = {} => Calm(D)
  <2>1. pending \in SUBSET Nat
    BY <1>3, <1>10
  <2> QED BY <1>7, <2>1, ScheduledOK
<1> HIDE DEF D, user
<1>12. session'.inputs = inputs /\ session'.outputs = <<>> /\ session'.pending = pending /\ session'.user = user
  BY <1>1
<1>13. left' \in [prompt : Nat, output : Nat, draft : Nat, requests : Nat] /\ left'.prompt = left.prompt
  BY <1>1, <1>2
<1>14. SessionOK'
  <2>1. pending \in SUBSET (1 .. left.prompt)
    BY <1>3, <1>10
  <2> QED BY <1>1, <1>3, <1>10, <1>12, <1>13, <2>1 DEF SessionOK
<1>15. Cached' = prefix /\ prefix < Len(inputs)
  <2>1. Cached' = MinOffset(D)
    BY <1>1 DEF Cached
  <2> QED BY <1>3, <1>5, <1>7, <1>8, <1>11, <2>1
<1>16. ProgressOK'
  <2>1. Calm(cache)' = Calm(D)
    BY <1>1
  <2> QED BY <1>1, <1>11, <1>12, <1>15, <2>1 DEF ProgressOK
<1> QED BY <1>1, <1>11, <1>14, <1>16 DEF PrefixInv

\* The position of the conversation.
LEMMA PositionIs ==
  ASSUME PrefixInv
  PROVE Cached \in Nat /\ Cached = MinOffset(cache) /\ Len(session.inputs) \in Nat /\ Len(session.outputs) \in Nat
BY MinOffsetIs DEF PrefixInv, SessionOK, Cached

\* A round of the prefill loop keeps the invariant.
LEMMA PrefillKeeps ==
  ASSUME PrefixInv, Prefill
  PROVE PrefixInv'
<1> DEFINE n == Least(PrefillChunk, Left - 1)
           to == Cached + n
           w == SubSeq(session.inputs, 1, to)
           D == Forwarded(cache, w, n)
<1>1. phase = "prefill" /\ Left > 1 /\ cache' = D /\ UNCHANGED <<session, phase, left>>
  BY DEF Prefill
<1>2. to \in 0 .. Len(session.inputs) /\ n \in Nat \ {0} /\ Cached < to /\ to < Len(session.inputs)
  <2>1. Cached \in Nat /\ Len(session.inputs) \in Nat /\ PrefillChunk \in Nat /\ PrefillChunk > 0
    BY PositionIs, ConstantsAre
  <2>2. Left = Len(session.inputs) - Cached
    BY DEF Left
  <2> QED BY <1>1, <2>1, <2>2 DEF Least
<1>3. w \in Seq(Token) /\ Len(w) = to
  <2>1. session.inputs \in Seq(Token)
    BY DEF PrefixInv, SessionOK
  <2> HIDE DEF to
  <2> QED BY <1>2, <2>1, PrefixSub
<1> HIDE DEF w, to
<1>4. /\ CacheOK(D) /\ Taking(D) /\ Even(D) /\ MinOffset(D) = to
      /\ Calm(cache) => Calm(D)
  <2>1. MinOffset(cache) + n = Len(w) /\ CacheOK(cache) /\ Taking(cache) /\ Even(cache)
    BY <1>3, PositionIs DEF PrefixInv, to
  <2> HIDE DEF n
  <2>2. /\ CacheOK(D) /\ Taking(D) /\ Even(D) /\ MinOffset(D) = Len(w)
        /\ Calm(cache) => Calm(D)
    BY <1>2, <1>3, <2>1, ForwardedOK
  <2> QED BY <1>3, <2>2
<1> HIDE DEF D
<1>5. Cached' = to
  BY <1>1, <1>4 DEF Cached
<1>6. SessionOK'
  BY <1>1 DEF PrefixInv, SessionOK
<1>7. ProgressOK'
  <2>1. Calm(cache)' = Calm(D)
    BY <1>1
  <2> QED BY <1>1, <1>2, <1>4, <1>5, <2>1 DEF PrefixInv, ProgressOK
<1> QED BY <1>1, <1>4, <1>6, <1>7 DEF PrefixInv

\* The end of the prefill keeps the invariant.
LEMMA StartDecodeKeeps ==
  ASSUME PrefixInv, StartDecode
  PROVE PrefixInv'
<1> DEFINE A == Attached
           D == Forwarded(A, session.inputs, 1)
<1>1. /\ phase = "prefill" /\ Left = 1 /\ cache' = D
      /\ session' = [session EXCEPT !.pending = {}, !.user = {}] /\ phase' = "decode" /\ left' = left
  BY DEF StartDecode
<1>2. session.inputs \in Seq(Token) /\ Cached < Len(session.inputs) /\ session.outputs = <<>>
  BY <1>1 DEF PrefixInv, SessionOK, ProgressOK
<1>3. Calm(A) /\ Even(A) /\ MinOffset(A) = Cached
  <2>1. Cached <= Len(session.inputs)
    BY <1>2, PositionIs
  <2> QED BY <1>2, <2>1, AttachedOK DEF PrefixInv
<1> HIDE DEF A
<1>4. CacheOK(D) /\ Even(D) /\ MinOffset(D) = Len(session.inputs) /\ Calm(D)
  <2>1. CacheOK(A) /\ Taking(A)
    BY <1>3, CalmIs
  <2>2. MinOffset(A) + 1 = Len(session.inputs) /\ 1 \in Nat \ {0}
    BY <1>1, <1>3, PositionIs DEF Left
  <2> QED BY <1>2, <1>3, <2>1, <2>2, ForwardedOK
<1>5. Taking(D)
  BY <1>4, CalmIs
<1> HIDE DEF D
<1>6. SessionOK'
  <2>1. session'.inputs = session.inputs /\ session'.outputs = session.outputs /\ session'.pending = {} /\ session'.user = {}
    BY <1>1 DEF PrefixInv, SessionOK
  <2> QED BY <1>1, <2>1 DEF PrefixInv, SessionOK
<1>7. Cached' = Len(session.inputs) /\ Stored' = session.inputs
  <2>1. session'.inputs = session.inputs /\ session'.outputs = <<>>
    BY <1>1, <1>2
  <2>2. Cached' = MinOffset(D)
    BY <1>1 DEF Cached
  <2>3. Stored' = session.inputs \o <<>>
    BY <2>1 DEF Stored
  <2> QED BY <1>2, <1>4, <2>2, <2>3, ConcatEmptySeq
<1>8. ProgressOK'
  <2>1. Calm(cache)' = Calm(D)
    BY <1>1
  <2> QED BY <1>1, <1>4, <1>7, <2>1 DEF ProgressOK
<1> QED BY <1>1, <1>4, <1>5, <1>6, <1>8 DEF PrefixInv

\* A step of the decode loop keeps the invariant.
LEMMA DecodeKeeps ==
  ASSUME PrefixInv, NEW t \in Token, Decode(t)
  PROVE PrefixInv'
<1> DEFINE w == Append(Stored, t)
           D == Forwarded(cache, w, 1)
<1>1. /\ phase = "decode" /\ cache' = D /\ session' = [session EXCEPT !.outputs = Append(@, t)]
      /\ UNCHANGED <<phase, left>>
  BY DEF Decode
<1>2. Stored \in Seq(Token) /\ Cached = Len(Stored) /\ Calm(cache) /\ SessionOK
  BY <1>1, StoredIs DEF PrefixInv, ProgressOK
<1>3. w \in Seq(Token) /\ Len(w) = Cached + 1 /\ Cached \in Nat
  BY <1>2, PositionIs, AppendProperties
<1> HIDE DEF w
<1>4. CacheOK(D) /\ Even(D) /\ MinOffset(D) = Len(w) /\ Calm(D)
  <2>1. MinOffset(cache) + 1 = Len(w) /\ 1 \in Nat \ {0} /\ CacheOK(cache) /\ Taking(cache) /\ Even(cache)
    BY <1>3, PositionIs DEF PrefixInv
  <2> QED BY <1>2, <1>3, <2>1, ForwardedOK
<1>5. Taking(D)
  BY <1>4, CalmIs
<1> HIDE DEF D
<1>6. /\ session'.inputs = session.inputs /\ session'.outputs = Append(session.outputs, t)
      /\ session'.pending = session.pending /\ session'.user = session.user
  <2>1. DOMAIN session = DOMAIN session /\ session.outputs \in Seq(Token)
    BY <1>2 DEF SessionOK
  <2> QED BY <1>1 DEF PrefixInv, SessionOK
<1>7. SessionOK'
  BY <1>1, <1>2, <1>6, AppendProperties DEF SessionOK
<1>8. Cached' = Len(Stored')
  <2>1. Cached' = Len(w)
    BY <1>1, <1>4 DEF Cached
  <2>2. Len(Stored') = Len(session.inputs) + (Len(session.outputs) + 1)
    <3>1. session'.outputs \in Seq(Token) /\ Len(session'.outputs) = Len(session.outputs) + 1 /\ session.inputs \in Seq(Token)
      BY <1>2, <1>6, AppendProperties DEF SessionOK
    <3>2. Stored' = session.inputs \o session'.outputs
      BY <1>6 DEF Stored
    <3> DEFINE a == session.inputs
               b == session'.outputs
    <3>3. a \in Seq(Token) /\ b \in Seq(Token) /\ Stored' = a \o b
      BY <3>1, <3>2
    <3> HIDE DEF a, b
    <3>4. Len(a \o b) = Len(a) + Len(b)
      BY <3>3, ConcatProperties
    <3>5. Len(Stored') = Len(a) + Len(b)
      BY <3>3, <3>4
    <3> QED BY <3>1, <3>5 DEF a, b
  <2>3. Len(Stored) = Len(session.inputs) + Len(session.outputs)
    BY <1>2, StoredIs
  <2> DEFINE a == Len(session.inputs)
             b == Len(session.outputs)
             c == Len(Stored')
  <2>4. a \in Nat /\ b \in Nat
    BY PositionIs
  <2>5. Cached = a + b /\ c = a + (b + 1) /\ Cached' = Cached + 1
    BY <1>2, <1>3, <2>1, <2>2, <2>3
  <2> HIDE DEF a, b, c
  <2>6. Cached' = c
    BY <2>4, <2>5
  <2> QED BY <2>6 DEF c
<1>9. ProgressOK'
  <2>1. Calm(cache)' = Calm(D)
    BY <1>1
  <2> QED BY <1>1, <1>4, <1>8, <2>1 DEF ProgressOK
<1> QED BY <1>1, <1>4, <1>5, <1>7, <1>9 DEF PrefixInv

\* Without its schedule a session has only what it holds.
LEMMA DiscardedOK ==
  ASSUME PrefixInv, phase = "decode" \/ phase = "prefill", NEW C, C = Discarded
  PROVE  /\ Calm(C) /\ Even(C) /\ MinOffset(C) = Cached /\ C.frontier \in Seq(Token)
         /\ Stored \in Seq(Token) /\ Cached \in 0 .. Len(Stored)
<1>1. CacheOK(cache) /\ cache \in CacheType /\ Even(cache) /\ SessionOK /\ ProgressOK
  BY DEF PrefixInv, CacheOK, Sound
<1>2. Calm(C) /\ \A k \in Layers : C.layer[k].off = Cached
  <2>1. CASE session.pending = {}
    BY <1>1, <2>1 DEF ProgressOK, Discarded, Even, Cached
  <2>2. CASE session.pending # {}
    <3> DEFINE f == [k \in Layers |-> Drained(cache.layer[k])]
    <3>1. IsRelayered(C, cache, f)
      BY <1>1, <2>2 DEF Discarded, EachLayer, IsRelayered, CacheType
    <3>2. f = [k \in Layers |-> Drained(cache.layer[k])]
      OBVIOUS
    <3> HIDE DEF f
    <3>3. Calm(C) /\ \A k \in Layers : SameLive(cache.layer[k], C.layer[k])
      BY <1>1, <3>1, <3>2, DrainedAllOK
    <3> QED BY <1>1, <3>3 DEF SameLive, Even, Cached
  <2> QED BY <2>1, <2>2
<1>3. Even(C) /\ MinOffset(C) = Cached
  BY <1>2, EvenIs DEF Calm
<1>4. C.frontier \in Seq(Token)
  BY <1>2, CacheIs DEF Calm, CacheOK, Sound
<1>5. Stored \in Seq(Token) /\ Cached \in Nat
  BY <1>1, StoredIs, PositionIs
<1>6. Cached <= Len(Stored)
  <2>1. CASE phase = "decode"
    BY <1>1, <1>5, <2>1 DEF ProgressOK
  <2>2. CASE phase = "prefill"
    <3>1. Cached < Len(session.inputs) /\ Len(Stored) = Len(session.inputs)
      BY <1>1, <2>2, StoredIs DEF ProgressOK
    <3> QED BY <1>5, <3>1
  <2> QED BY <2>1, <2>2
<1> QED BY <1>2, <1>3, <1>4, <1>5, <1>6

\* close keeps the invariant.
LEMMA CloseKeeps ==
  ASSUME PrefixInv, Close
  PROVE PrefixInv'
<1> DEFINE C == Discarded
           off == MinOffset(C)
           w == SubSeq(Stored, 1, off)
           D == IF off > Len(C.frontier) THEN AdvancePath(C, w) ELSE C
           R == IF off = 0 THEN C ELSE Touched(D)
<1>1. /\ phase = "decode" \/ (phase = "prefill" /\ Left > 1)
      /\ cache' = R /\ phase' = "idle"
      /\ session' = [inputs |-> <<>>, outputs |-> <<>>, pending |-> {}, user |-> {}] /\ left' = left
  BY DEF Close
<1>2. C = Discarded
  OBVIOUS
<1> HIDE DEF C
<1>3. Calm(C) /\ Even(C) /\ off \in Nat /\ Stored \in Seq(Token) /\ off \in 0 .. Len(Stored) /\ C.frontier \in Seq(Token)
  BY <1>1, <1>2, PositionIs, DiscardedOK
<1>4. CacheOK(D) /\ SameRuns(C, D)
  <2>1. CASE off > Len(C.frontier)
    <3>1. w \in Seq(Token) /\ Len(w) = off
      BY <1>3, PrefixSub
    <3>2. w # Root
      BY <1>3, <2>1, <3>1, PrefixRoot
    <3>3. w \in Nodes /\ D = AdvancePath(C, w) /\ CacheOK(C)
      BY <1>3, <2>1, <3>1, <3>2 DEF Nodes, Calm
    <3> HIDE DEF D, w
    <3> QED BY <3>3, AdvancePathOK
  <2>2. CASE ~(off > Len(C.frontier))
    <3>1. D = C
      BY <2>2
    <3> HIDE DEF D
    <3> QED BY <1>3, <3>1, SameRunsRefl DEF Calm
  <2> QED BY <2>1, <2>2
<1> HIDE DEF D
<1>5. CacheOK(R) /\ SameRuns(C, R)
  <2>1. CASE off = 0
    <3>1. R = C
      BY <2>1
    <3> HIDE DEF R
    <3> QED BY <1>3, <3>1, SameRunsRefl DEF Calm
  <2>2. CASE off # 0
    <3>1. R = Touched(D)
      BY <2>2
    <3> HIDE DEF R
    <3>2. CacheOK(R) /\ SameRuns(D, R)
      BY <1>4, <3>1, TouchedOK
    <3> QED BY <1>4, <3>2, SameRunsTrans
  <2> QED BY <2>1, <2>2
<1> HIDE DEF R
<1>6. Calm(R) /\ \A k \in Layers : R.layer[k].off = C.layer[k].off
  BY <1>3, <1>5, SameRunsCalm
<1>7. Even(R) /\ Taking(R)
  <2>1. \A k \in Layers : C.layer[k].off = off
    BY <1>3 DEF Even
  <2>2. \A k \in Layers : R.layer[k].off = off
    BY <1>6, <2>1
  <2> HIDE DEF off
  <2> QED BY <1>5, <1>6, <2>2, EvenIs, CalmIs
<1>8. SessionOK'
  <2>1. session'.inputs = <<>> /\ session'.outputs = <<>> /\ session'.pending = {} /\ session'.user = {}
    BY <1>1
  <2>2. left \in [prompt : Nat, output : Nat, draft : Nat, requests : Nat]
    BY DEF PrefixInv, SessionOK
  <2> QED BY <1>1, <2>1, <2>2 DEF SessionOK
<1>9. ProgressOK'
  <2>1. Calm(cache)' = Calm(R)
    BY <1>1
  <2> QED BY <1>1, <1>6, <2>1 DEF ProgressOK
<1> QED BY <1>1, <1>5, <1>7, <1>8, <1>9 DEF PrefixInv

\* Every offset the drafts were written over was captured, but by a KVCache, which needs none.
LEMMA DraftedOK ==
  ASSUME NEW k \in Kinds, NEW L, LayerOK(k, L), NEW n \in Nat, n > 0, L.off \in Nat, L.off > 0,
         NEW P, P = PrepareSnapshots(k, L, L.off .. L.off + n - 1), NEW R, Advanced(k, P, R, n),
         NEW i \in 0 .. n - 1, k # "kv"
  PROVE L.off + i \in DOMAIN R.taken
<1> DEFINE offsets == L.off .. L.off + n - 1
           o == L.off + i
<1>1. offsets \in SUBSET Nat /\ o \in offsets /\ L.off \in offsets
  OBVIOUS
<1>2. P = PrepareSnapshots(k, L, offsets)
  OBVIOUS
<1>3. i \in Nat /\ (i = 0 <=> o = L.off) /\ (i # 0 => L.off < o) /\ o <= L.off + n /\ o \in Nat
  OBVIOUS
<1> HIDE DEF offsets, o
<1>4. SameLive(L, P) /\ P.due = offsets /\ (k = "rnn" /\ L.off \in offsets /\ L.buf # <<>> => L.off \in DOMAIN P.taken)
  BY <1>1, <1>2, PrepareOK
<1>5. P.off = L.off
  BY <1>4 DEF SameLive
<1>6. CASE i # 0
  <2>1. o \in P.due /\ P.off < o /\ o <= P.off + n
    BY <1>1, <1>3, <1>4, <1>5, <1>6
  <2>2. o \in DOMAIN R.taken
    BY <2>1 DEF Advanced
  <2> QED BY <2>2 DEF o
<1>7. CASE i = 0
  <2>1. CASE k = "rot"
    <3>1. P.off > 0 /\ P.off \in P.due
      BY <1>1, <1>4, <1>5
    <3>2. P.off \in DOMAIN R.taken
      BY <2>1, <3>1 DEF Advanced
    <3>3. o \in DOMAIN R.taken
      BY <1>3, <1>5, <1>7, <3>2
    <3> QED BY <3>3 DEF o
  <2>2. CASE k = "rnn"
    <3>1. L.buf # <<>>
      BY <2>2 DEF LayerOK, Fits, Shape
    <3>2. L.off \in DOMAIN P.taken
      BY <1>1, <1>4, <2>2, <3>1
    <3>3. o \in DOMAIN R.taken
      BY <1>3, <1>7, <3>2 DEF Advanced
    <3> QED BY <3>3 DEF o
  <2> QED BY <2>1, <2>2 DEF Kinds
<1> QED BY <1>6, <1>7

IsDrafted(C, accepted, drafted, before) ==
  /\ before \in Nat /\ drafted \in Nat /\ accepted \in 0 .. drafted
  /\ CacheOK(C) /\ Taking(C) /\ Even(C) /\ MinOffset(C) = before + drafted
  /\ \A k \in Layers : accepted < drafted /\ k # "kv" => before + accepted \in DOMAIN C.layer[k].taken

IsCommitted(D, accepted, before) == Calm(D) /\ Even(D) /\ MinOffset(D) = before + accepted

\* commitSpeculation leaves all layers behind the last accepted draft.
LEMMA CommittedAllOK ==
  ASSUME NEW C, NEW accepted, NEW drafted, NEW before, IsDrafted(C, accepted, drafted, before),
         NEW f, f = [k \in Layers |-> Committed(k, C.layer[k], accepted, drafted, before)], NEW D,
         IsRelayered(D, C, f)
  PROVE IsCommitted(D, accepted, before)
<1>0. /\ before \in Nat /\ drafted \in Nat /\ accepted \in 0 .. drafted
      /\ CacheOK(C) /\ Taking(C) /\ Even(C) /\ MinOffset(C) = before + drafted
      /\ \A k \in Layers : accepted < drafted /\ k # "kv" => before + accepted \in DOMAIN C.layer[k].taken
  BY DEF IsDrafted
<1>1. ASSUME NEW k \in Layers
      PROVE /\ LayerOK(k, f[k]) /\ Quiet(f[k]) /\ DOMAIN f[k].snap = DOMAIN C.layer[k].snap
            /\ f[k].off = before + accepted
  <2> DEFINE L == C.layer[k]
             R == Committed(k, L, accepted, drafted, before)
  <2>1. /\ k \in Kinds /\ LayerOK(k, L) /\ TakenFits(k, L) /\ L.off = before + drafted /\ f[k] = R
        /\ accepted < drafted /\ k # "kv" => before + accepted \in DOMAIN L.taken
    BY <1>0, LayersAre DEF Taking, Even
  <2> HIDE DEF L
  <2>2. LayerOK(k, R) /\ Quiet(R) /\ DOMAIN R.snap = DOMAIN L.snap /\ R.off = before + accepted
    BY <1>0, <2>1, CommittedOK
  <2> HIDE DEF R
  <2> QED BY <2>1, <2>2 DEF L
<1>2. f = [k \in Layers |-> f[k]]
  OBVIOUS
<1>3. CacheOK(D) /\ SameTree(C, D) /\ D.layer = f
  BY <1>0, <1>1, <1>2, RelayeredOK
<1>4. \A k \in Layers : D.layer[k].off = before + accepted
  BY <1>1, <1>3
<1>5. Even(D) /\ MinOffset(D) = before + accepted
  <2> DEFINE o == before + accepted
  <2>1. \A k \in Layers : D.layer[k].off = o
    BY <1>4
  <2> HIDE DEF o
  <2>2. Even(D) /\ MinOffset(D) = o
    BY <1>3, <2>1, EvenIs
  <2> QED BY <2>2 DEF o
<1> QED BY <1>1, <1>3, <1>5 DEF Calm, IsCommitted

\* The drafts are written, and every offset that may be rolled back to is captured.
LEMMA DraftingOK ==
  ASSUME PrefixInv, phase = "decode", session.outputs # <<>>, NEW drafts \in Texts(left.draft),
         NEW S, S = Scheduled(cache, Cached .. Cached + Len(drafts) - 1),
         NEW W, W = Forwarded(S, Stored \o drafts, Len(drafts))
  PROVE  /\ Stored \in Seq(Token) /\ Cached = Len(Stored) /\ Cached \in Nat /\ Calm(cache)
         /\ drafts \in Seq(Token) /\ Len(drafts) \in Nat \ {0}
         /\ Stored \o drafts \in Seq(Token) /\ Len(Stored \o drafts) = Cached + Len(drafts)
         /\ Cached .. Cached + Len(drafts) - 1 \in SUBSET Nat
         /\ CacheOK(S) /\ Taking(S) /\ Even(S) /\ MinOffset(S) = Cached /\ SameTree(cache, S) /\ SameTree(S, W)
         /\ \A accepted \in 0 .. Len(drafts) : IsDrafted(W, accepted, Len(drafts), Cached)
<1> DEFINE before == Cached
           n == Len(drafts)
           offsets == before .. before + Len(drafts) - 1
           w == Stored \o drafts
<1>1. S = Scheduled(cache, offsets) /\ W = Forwarded(S, w, n)
  OBVIOUS
<1>2. /\ Stored \in Seq(Token) /\ before = Len(Stored) /\ Calm(cache) /\ SessionOK
      /\ Len(Stored) = Len(session.inputs) + Len(session.outputs)
  BY StoredIs DEF PrefixInv, ProgressOK
<1>3. drafts \in Seq(Token) /\ n \in Nat /\ n > 0
  <2>1. left.draft \in Nat
    BY <1>2 DEF SessionOK
  <2>2. drafts \in Seq(Token) /\ n \in 1 .. left.draft
    BY <2>1, TextIs
  <2> QED BY <2>1, <2>2
<1>4. before \in Nat /\ before > 0
  <2>1. session.outputs \in Seq(Token) /\ Len(session.outputs) # 0
    BY <1>2, EmptySeq DEF SessionOK
  <2> DEFINE a == Len(session.inputs)
             b == Len(session.outputs)
  <2>2. before = a + b /\ a \in Nat /\ b \in Nat /\ b # 0
    BY <1>2, <2>1, PositionIs
  <2> HIDE DEF a, b, before
  <2> QED BY <2>2
<1>5. w \in Seq(Token) /\ Len(w) = before + n
  BY <1>2, <1>3, ConcatProperties
<1>6. CacheOK(cache) /\ Taking(cache) /\ Even(cache) /\ MinOffset(cache) = before /\ before \in Nat
  BY PositionIs DEF PrefixInv, Cached
<1>7. offsets \in SUBSET Nat /\ offsets # {}
  <2>1. before \in offsets
    BY <1>3, <1>4
  <2>2. ASSUME NEW i \in offsets PROVE i \in Nat
    <3> HIDE DEF before, n
    <3> QED BY <1>3, <1>4
  <2> HIDE DEF offsets
  <2> QED BY <2>1, <2>2
<1> HIDE DEF n, before, w
<1>8. /\ CacheOK(S) /\ Taking(S) /\ Even(S) /\ MinOffset(S) = before /\ SameTree(cache, S)
      /\ \A k \in Layers : S.layer[k] = PrepareSnapshots(k, cache.layer[k], offsets)
  <2> HIDE DEF offsets
  <2> QED BY <1>1, <1>6, <1>7, PreparedOK
<1>9. /\ CacheOK(W) /\ Taking(W) /\ Even(W) /\ MinOffset(W) = before + n /\ SameTree(S, W)
       /\ \A k \in Layers : Advanced(k, S.layer[k], W.layer[k], n)
  <2>1. MinOffset(S) + n = Len(w) /\ n \in Nat \ {0}
    BY <1>3, <1>5, <1>8
  <2>2. /\ CacheOK(W) /\ Taking(W) /\ Even(W) /\ MinOffset(W) = Len(w) /\ SameTree(S, W)
        /\ \A k \in Layers : Advanced(k, S.layer[k], W.layer[k], n)
    BY <1>1, <1>5, <1>8, <2>1, ForwardedOK
  <2> QED BY <1>5, <2>2
<1>10. ASSUME NEW accepted \in 0 .. n, NEW k \in Layers, accepted < n, k # "kv"
       PROVE before + accepted \in DOMAIN W.layer[k].taken
  <2> DEFINE L == cache.layer[k]
             P == S.layer[k]
             R == W.layer[k]
  <2>1. k \in Kinds /\ LayerOK(k, L) /\ L.off = before /\ Advanced(k, P, R, n)
    BY <1>6, <1>9, LayersAre DEF Even
  <2>2. P = PrepareSnapshots(k, L, L.off .. L.off + n - 1)
    BY <1>8, <2>1 DEF n
  <2>3. accepted \in 0 .. n - 1 /\ L.off \in Nat /\ L.off > 0
    BY <1>3, <1>4, <1>10, <2>1
  <2> HIDE DEF L, P, R
  <2>4. L.off + accepted \in DOMAIN R.taken
    BY <1>3, <1>10, <2>1, <2>2, <2>3, DraftedOK
  <2> QED BY <2>1, <2>4 DEF R
<1>11. ASSUME NEW accepted \in 0 .. n PROVE IsDrafted(W, accepted, n, before)
  <2>1. \A k \in Layers : accepted < n /\ k # "kv" => before + accepted \in DOMAIN W.layer[k].taken
    BY <1>10
  <2>2. /\ before \in Nat /\ n \in Nat /\ accepted \in 0 .. n
        /\ CacheOK(W) /\ Taking(W) /\ Even(W) /\ MinOffset(W) = before + n
    BY <1>3, <1>4, <1>9
  <2> QED BY ONLY <2>1, <2>2 DEF IsDrafted
<1>12. n \in Nat \ {0}
  BY <1>3
<1> HIDE DEF offsets
<1> QED BY <1>2, <1>3, <1>4, <1>5, <1>7, <1>8, <1>9, <1>11, <1>12 DEF n, before, w, offsets

\* A speculation keeps the invariant.
LEMMA SpeculateKeeps ==
  ASSUME PrefixInv, NEW drafts \in Texts(left.draft), NEW accepted \in 0 .. Len(drafts),
         Speculate(drafts, accepted)
  PROVE PrefixInv'
<1> DEFINE before == Cached
           n == Len(drafts)
           offsets == before .. before + Len(drafts) - 1
           S == Scheduled(cache, offsets)
           w == Stored \o drafts
           W == Forwarded(S, w, n)
           D == EachLayer(W, LAMBDA k, L : Committed(k, L, accepted, n, before))
           kept == SubSeq(drafts, 1, accepted)
<1>1. /\ phase = "decode" /\ session.outputs # <<>> /\ cache' = D
      /\ session' = [session EXCEPT !.outputs = @ \o kept]
      /\ phase' = phase /\ left' = left
  BY DEF Speculate
<1>2. SessionOK /\ Len(Stored) = Len(session.inputs) + Len(session.outputs)
  BY StoredIs DEF PrefixInv
<1>3. S = Scheduled(cache, Cached .. Cached + Len(drafts) - 1) /\ W = Forwarded(S, Stored \o drafts, Len(drafts))
  OBVIOUS
<1> HIDE DEF S, W
<1>4. /\ before = Len(Stored) /\ before \in Nat /\ drafts \in Seq(Token) /\ n \in Nat
      /\ IsDrafted(W, accepted, n, before)
  BY <1>1, <1>3, DraftingOK
<1>5. accepted \in Nat
  BY <1>4
<1>6. kept \in Seq(Token) /\ Len(kept) = accepted
  BY <1>4, SubSeqProperties
<1> HIDE DEF n, before, w, kept
<1>7. Calm(D) /\ Even(D) /\ MinOffset(D) = before + accepted
  <2> DEFINE f == [k \in Layers |-> Committed(k, W.layer[k], accepted, n, before)]
  <2>1. W \in CacheType
    BY <1>4 DEF IsDrafted, CacheOK, Sound
  <2>2. IsRelayered(D, W, f)
    BY <2>1 DEF EachLayer, IsRelayered, CacheType
  <2>3. f = [k \in Layers |-> Committed(k, W.layer[k], accepted, n, before)]
    OBVIOUS
  <2> HIDE DEF f, D
  <2>4. IsDrafted(W, accepted, n, before)
    BY <1>4
  <2>5. IsCommitted(D, accepted, before)
    BY ONLY <2>2, <2>3, <2>4, CommittedAllOK
  <2> QED BY <2>5 DEF IsCommitted
<1> HIDE DEF D
<1>8. CacheOK(D) /\ Taking(D)
  BY <1>7, CalmIs
<1>9. /\ session'.inputs = session.inputs /\ session'.outputs = session.outputs \o kept
       /\ session'.pending = session.pending /\ session'.user = session.user
       /\ session' \in [inputs : Seq(Token), outputs : Seq(Token), pending : SUBSET Nat, user : SUBSET Nat]
       /\ session.inputs \in Seq(Token) /\ session.outputs \in Seq(Token)
  <2> DEFINE o == session.outputs \o kept
  <2>1. session \in [inputs : Seq(Token), outputs : Seq(Token), pending : SUBSET Nat, user : SUBSET Nat]
    BY <1>2 DEF SessionOK
  <2>2. session.outputs \in Seq(Token)
    BY <2>1
  <2>3. o \in Seq(Token)
    BY <1>6, <2>2, ConcatProperties
  <2>4. session' = [session EXCEPT !.outputs = o]
    BY <1>1
  <2> HIDE DEF o
  <2>5. /\ session'.inputs = session.inputs /\ session'.outputs = o
        /\ session'.pending = session.pending /\ session'.user = session.user
        /\ session' \in [inputs : Seq(Token), outputs : Seq(Token), pending : SUBSET Nat, user : SUBSET Nat]
    BY <2>1, <2>3, <2>4
  <2> QED BY <2>1, <2>2, <2>5 DEF o
<1>10. SessionOK'
  BY <1>1, <1>2, <1>9 DEF SessionOK
<1>11. Cached' = Len(Stored')
  <2> DEFINE a == session.inputs
             b == session.outputs
             c == b \o kept
  <2>1. a \in Seq(Token) /\ b \in Seq(Token) /\ Len(kept) = accepted /\ kept \in Seq(Token)
    BY <1>6, <1>9
  <2>2. Stored' = a \o c
    BY <1>9 DEF Stored
  <2>3. Cached' = before + accepted /\ before = Len(a) + Len(b)
    BY <1>1, <1>2, <1>4, <1>7 DEF Cached
  <2> HIDE DEF a, b
  <2>4. c \in Seq(Token) /\ Len(c) = Len(b) + Len(kept)
    BY <2>1, ConcatProperties
  <2> HIDE DEF c
  <2>5. Len(a \o c) = Len(a) + Len(c)
    BY <2>1, <2>4, ConcatProperties
  <2>6. Len(Stored') = Len(a) + Len(c)
    BY <2>2, <2>5
  <2>7. Len(a) \in Nat /\ Len(b) \in Nat
    BY <2>1
  <2> QED BY <1>5, <2>1, <2>3, <2>4, <2>6, <2>7
<1>12. ProgressOK'
  <2>1. Calm(cache)' = Calm(D)
    BY <1>1
  <2> QED BY <1>1, <1>7, <1>11, <2>1 DEF ProgressOK
<1> QED BY <1>1, <1>7, <1>8, <1>10, <1>12 DEF PrefixInv

\* In every reachable state the trie is one, every snapshot on it or taken can be
\* restored, the bytes are counted exactly and all layers hold equally many tokens
\* (x/mlxrunner/cache.go, cache_trie.go, cache/*.go).
THEOREM PrefixInvHolds == PrefixSpec => []PrefixInv
<1>1. PrefixInv /\ [PrefixNext]_prefixVars => PrefixInv'
  <2> SUFFICES ASSUME PrefixInv, [PrefixNext]_prefixVars PROVE PrefixInv'
    OBVIOUS
  <2>1. ASSUME NEW inputs \in Texts(left.prompt), Begin(inputs) PROVE PrefixInv'
    BY <2>1, BeginKeeps
  <2>2. CASE Prefill
    BY <2>2, PrefillKeeps
  <2>3. CASE StartDecode
    BY <2>3, StartDecodeKeeps
  <2>4. ASSUME NEW t \in Token, Decode(t) PROVE PrefixInv'
    BY <2>4, DecodeKeeps
  <2>5. ASSUME NEW drafts \in Texts(left.draft), NEW accepted \in 0 .. Len(drafts), Speculate(drafts, accepted)
        PROVE PrefixInv'
    BY <2>5, SpeculateKeeps
  <2>6. CASE Close
    BY <2>6, CloseKeeps
  <2>7. CASE UNCHANGED prefixVars
    BY <2>7 DEF prefixVars, PrefixInv, SessionOK, ProgressOK, Cached, Stored
  <2> QED BY <2>1, <2>2, <2>3, <2>4, <2>5, <2>6, <2>7 DEF PrefixNext
<1> QED BY <1>1, InitInv, PTL DEF PrefixSpec

\* The invariant contains the type invariant.
LEMMA InvTypeOK == PrefixInv => PrefixTypeOK
<1> SUFFICES ASSUME PrefixInv PROVE PrefixTypeOK
  OBVIOUS
<1>1. TreeOK(cache) /\ SessionOK /\ ProgressOK
  BY DEF PrefixInv, CacheOK
<1>2. /\ cache.nodes \subseteq Seq(Token) /\ Root \in cache.nodes
      /\ \A p, q \in cache.nodes : SubSeq(p, 1, CommonLength(p, q)) \in cache.nodes
  BY <1>1 DEF TreeOK, Trie, Meet
<1>3. /\ cache.frontier \in cache.nodes /\ cache.user \subseteq cache.nodes
      /\ DOMAIN cache.lastUsed = cache.nodes
      /\ \A k \in Layers : DOMAIN cache.layer[k].snap \subseteq cache.nodes \ {Root}
  BY <1>1 DEF TreeOK
<1>4. /\ phase \in {"idle", "prefill", "decode"}
      /\ session.pending \subseteq 1 .. left.prompt /\ session.user \subseteq session.pending
  BY <1>1 DEF SessionOK
<1>5. phase # "prefill" => \A k \in Layers : cache.layer[k].due = {} /\ cache.layer[k].taken = <<>>
  BY <1>1 DEF ProgressOK, Calm, Quiet
<1> QED BY <1>2, <1>3, <1>4, <1>5 DEF PrefixTypeOK

\* The type invariant for every number of tokens, layers and requests: the trie is
\* closed under common prefixes, the active path ends in it, and no schedule outlives
\* its prefill, so that PrepareSnapshots never panics (cache/cache.go:79).
THEOREM PrefixTypes == PrefixSpec => []PrefixTypeOK
BY PrefixInvHolds, InvTypeOK, PTL

\* The invariant contains the exact count.
LEMMA InvBytes == PrefixInv => PagedOutBytesExact
BY DEF PrefixInv, CacheOK, Sound, LayerOK, BytesOf, PagedOutBytesExact

\* pagedOutBytes is the sum of what the snapshots on the trie own, whatever the order
\* of captures, copies, splits, merges, replacements and evictions
\* (cache_trie.go:45-74).
THEOREM BytesExact == PrefixSpec => []PagedOutBytesExact
BY PrefixInvHolds, InvBytes, PTL

=============================================================================
