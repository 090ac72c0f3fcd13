--------------------------- MODULE PublicSite_proofs ---------------------------
(***************************************************************************)
(* Proofs about the board and the public site, for any entry files under    *)
(* any names.                                                              *)
(*                                                                         *)
(* Most of it is about the data.  A set has a sorted sequence (SortedExists)*)
(* and the loop of _dedup_best knows, at every moment, the best entry of    *)
(* each model it has seen (BestSoFar); so what build_board returns is a     *)
(* board of its entries (BoardSpec).  What the site shows was built of what *)
(* a run checked out, which is what the branch held at one moment.          *)
(***************************************************************************)
EXTENDS PublicSite, FiniteSetTheorems, WellFoundedInduction, TLAPS

-----------------------------------------------------------------------------
(* Induction.  The library states it with an operator as a parameter, which
   the provers cannot instantiate; here the property is a set. *)

(* A set of natural numbers that is not empty has a least one. *)
LEMMA LeastNatural ==
  ASSUME NEW T \in SUBSET Nat, T # {}
  PROVE  \E m \in T : \A k \in T : m <= k
  <1>1. IsWellFoundedOn(OpToRel(<, Nat), Nat)
    BY NatLessThanWellFounded
  <1>2. PICK m \in T : \A k \in T : ~(<<k, m>> \in OpToRel(<, Nat))
    BY <1>1, WFMin
  <1>3. \A k \in T : ~(k < m)
    BY <1>2 DEF OpToRel
  <1>4. QED
    BY <1>3

(* Induction: the property is a set. *)
LEMMA Induction ==
  ASSUME NEW T, 0 \in T, \A n \in Nat : n \in T => n + 1 \in T
  PROVE  \A n \in Nat : n \in T
  <1>1. SUFFICES ASSUME Nat \ T # {} PROVE FALSE
    OBVIOUS
  <1>2. PICK m \in Nat \ T : \A k \in Nat \ T : m <= k
    BY <1>1, LeastNatural
  <1>3. m - 1 \in Nat /\ m - 1 \in T
    BY <1>2
  <1>4. QED
    BY <1>2, <1>3

-----------------------------------------------------------------------------
(* Sorting. *)

IsOrder(R, S) ==
  /\ \A x, y \in S : x # y => <<x, y>> \in R \/ <<y, x>> \in R
  /\ \A x, y, z \in S : <<x, y>> \in R /\ <<y, z>> \in R => <<x, z>> \in R

(* A finite set has a last element. *)
LEMMA LastExists ==
  ASSUME NEW S, IsFiniteSet(S), S # {}, NEW R, IsOrder(R, S)
  PROVE  \E m \in S : \A x \in S : x # m => <<x, m>> \in R
  <1> DEFINE HasLast(U) == \E m \in U : \A x \in U : x # m => <<x, m>> \in R
             T == {n \in Nat : \A U \in SUBSET S : Cardinality(U) = n /\ U # {} => HasLast(U)}
  <1>1. \A U \in SUBSET S : IsFiniteSet(U) /\ Cardinality(U) \in Nat
    BY FS_Subset, FS_CardinalityType
  <1>2. 0 \in T
    BY <1>1, FS_EmptySet
  <1>3. ASSUME NEW n \in Nat, n \in T PROVE n + 1 \in T
    <2> SUFFICES ASSUME NEW U \in SUBSET S, Cardinality(U) = n + 1, U # {}
                 PROVE  HasLast(U)
      OBVIOUS
    <2>1. PICK e \in U : TRUE
      OBVIOUS
    <2> DEFINE V == U \ {e}
    <2>2. V \in SUBSET S /\ Cardinality(V) = n
      <3>1. Cardinality(V) = Cardinality(U) - 1
        BY <1>1, <2>1, FS_RemoveElement
      <3>2. QED
        BY <3>1
    <2>3. CASE V = {}
      BY <2>3
    <2>4. CASE V # {}
      <3>1. PICK m \in V : \A x \in V : x # m => <<x, m>> \in R
        BY <1>3, <2>2, <2>4
      <3>2. CASE <<e, m>> \in R
        <4>1. \A x \in U : x # m => <<x, m>> \in R
          BY <3>1, <3>2
        <4>2. QED
          BY <4>1
      <3>3. CASE <<m, e>> \in R
        <4>1. \A x \in V : x # m => <<x, e>> \in R
          BY <2>1, <3>1, <3>3 DEF IsOrder
        <4>2. \A x \in U : x # e => <<x, e>> \in R
          BY <3>3, <4>1
        <4>3. QED
          BY <4>2
      <3>4. m # e /\ m \in S /\ e \in S
        OBVIOUS
      <3>5. QED
        BY <3>2, <3>3, <3>4 DEF IsOrder
    <2>5. QED
      BY <2>3, <2>4
  <1> HIDE DEF T
  <1>4. \A n \in Nat : n \in T
    BY <1>2, <1>3, Induction
  <1>5. QED
    BY <1>1, <1>4 DEF T

LEMMA Greatest ==
  ASSUME NEW N \in SUBSET Int, IsFiniteSet(N), N # {}
  PROVE  Max(N) \in N /\ \A x \in N : Max(N) >= x
  <1> DEFINE R == {p \in N \X N : p[1] < p[2]}
  <1>1. IsOrder(R, N)
    BY DEF IsOrder
  <1> HIDE DEF R
  <1>2. PICK m \in N : \A x \in N : x # m => <<x, m>> \in R
    BY <1>1, LastExists
  <1>3. \A x \in N : x # m => x < m
    BY <1>2 DEF R
  <1>4. \A x \in N : m >= x
    BY <1>3
  <1>5. QED
    BY <1>4 DEF Max

(* A finite set can be sorted. *)
LEMMA SortedExists ==
  ASSUME NEW S, IsFiniteSet(S), NEW R, IsOrder(R, S)
  PROVE  \E s \in SetToSeqs(S) : \A i, j \in 1 .. Len(s) : i < j => <<s[i], s[j]>> \in R
  <1> DEFINE Sorts(s, U) == /\ s \in SetToSeqs(U)
                            /\ \A i, j \in 1 .. Cardinality(U) : i < j => <<s[i], s[j]>> \in R
             T == {n \in Nat : \A U \in SUBSET S : Cardinality(U) = n => \E s : Sorts(s, U)}
  <1>1. \A U \in SUBSET S : IsFiniteSet(U) /\ Cardinality(U) \in Nat
    BY FS_Subset, FS_CardinalityType
  <1>2. 0 \in T
    <2>1. SUFFICES ASSUME NEW U \in SUBSET S, Cardinality(U) = 0
                   PROVE  Sorts(<<>>, U)
      OBVIOUS
    <2>2. <<>> \in [1 .. 0 -> U]
      OBVIOUS
    <2>3. QED
      BY <2>1, <2>2 DEF SetToSeqs
  <1>3. ASSUME NEW n \in Nat, n \in T PROVE n + 1 \in T
    <2> SUFFICES ASSUME NEW U \in SUBSET S, Cardinality(U) = n + 1
                 PROVE  \E s : Sorts(s, U)
      OBVIOUS
    <2>1. U # {}
      BY FS_EmptySet
    <2>2. IsOrder(R, U)
      BY DEF IsOrder
    <2>3. PICK m \in U : \A x \in U : x # m => <<x, m>> \in R
      BY <1>1, <2>1, <2>2, LastExists
    <2> DEFINE V == U \ {m}
    <2>4. V \in SUBSET S /\ Cardinality(V) = n
      <3>1. Cardinality(V) = Cardinality(U) - 1
        BY <1>1, <2>3, FS_RemoveElement
      <3>2. QED
        BY <3>1
    <2>5. PICK t : Sorts(t, V)
      BY <1>3, <2>4
    <2>6. /\ t \in [1 .. n -> V]
          /\ \A i, j \in 1 .. n : i # j => t[i] # t[j]
          /\ \A i, j \in 1 .. n : i < j => <<t[i], t[j]>> \in R
      BY <2>4, <2>5 DEF SetToSeqs
    <2> DEFINE s == [i \in 1 .. n + 1 |-> IF i = n + 1 THEN m ELSE t[i]]
    <2>7. \A i \in 1 .. n : s[i] = t[i] /\ s[i] \in V
      BY <2>6
    <2>8. s[n + 1] = m
      OBVIOUS
    <2>9. s \in [1 .. n + 1 -> U]
      BY <2>6
    <2> HIDE DEF s
    <2>10. \A i, j \in 1 .. n + 1 : i # j => s[i] # s[j]
      BY <2>6, <2>7, <2>8
    <2>11. \A i, j \in 1 .. n + 1 : i < j => <<s[i], s[j]>> \in R
      BY <2>3, <2>6, <2>7, <2>8
    <2>12. QED
      BY <2>9, <2>10, <2>11 DEF SetToSeqs
  <1> HIDE DEF T
  <1>4. \A n \in Nat : n \in T
    BY <1>2, <1>3, Induction
  <1>5. PICK s : Sorts(s, S)
    BY <1>1, <1>4 DEF T
  <1>6. Len(s) = Cardinality(S)
    BY <1>1, <1>5 DEF SetToSeqs
  <1>7. QED
    BY <1>5, <1>6

(* A sequence of a set's elements holds each of them once. *)
LEMMA SetToSeqsSpec ==
  ASSUME NEW S, IsFiniteSet(S), NEW s \in SetToSeqs(S)
  PROVE  /\ s \in Seq(S)
         /\ {s[i] : i \in DOMAIN s} = S
         /\ \A i, j \in DOMAIN s : i # j => s[i] # s[j]
  <1> DEFINE n == Cardinality(S)
             image == {s[i] : i \in 1 .. n}
  <1>1. n \in Nat
    BY FS_CardinalityType
  <1>2. s \in [1 .. n -> S] /\ \A i, j \in 1 .. n : i # j => s[i] # s[j]
    BY DEF SetToSeqs
  <1>3. s \in Seq(S) /\ DOMAIN s = 1 .. n
    BY <1>1, <1>2
  <1>4. s \in Injection(1 .. n, S)
    BY <1>2 DEF Injection, IsInjective
  <1>5. Cardinality(1 .. n) = n
    BY <1>1, FS_Interval
  <1>6. s \in Surjection(1 .. n, S)
    BY <1>4, <1>5, FS_Injection
  <1>7. image = S
    BY <1>2, <1>6 DEF Surjection
  <1>8. QED
    BY <1>2, <1>3, <1>7

(* InOrder: the numbers of a set, each once, from the least to the greatest. *)
LEMMA InOrderSpec ==
  ASSUME NEW N \in SUBSET Int, IsFiniteSet(N)
  PROVE  /\ InOrder(N) \in Seq(N)
         /\ {InOrder(N)[i] : i \in DOMAIN InOrder(N)} = N
         /\ \A i, j \in DOMAIN InOrder(N) : i < j => InOrder(N)[i] < InOrder(N)[j]
  <1> DEFINE R == {p \in N \X N : p[1] < p[2]}
  <1>1. IsOrder(R, N)
    BY DEF IsOrder
  <1>2. PICK s \in SetToSeqs(N) : \A i, j \in 1 .. Len(s) : i < j => <<s[i], s[j]>> \in R
    BY <1>1, SortedExists
  <1>3. \A i, j \in 1 .. Len(s) : i < j => s[i] < s[j]
    BY <1>2
  <1>4. /\ InOrder(N) \in SetToSeqs(N)
        /\ \A i, j \in 1 .. Len(InOrder(N)) : i < j => InOrder(N)[i] < InOrder(N)[j]
    BY <1>3 DEF InOrder, Sorted, IsSorted
  <1> DEFINE o == InOrder(N)
  <1> HIDE DEF o
  <1>5. /\ o \in Seq(N)
        /\ {o[i] : i \in DOMAIN o} = N
        /\ \A i, j \in 1 .. Len(o) : i < j => o[i] < o[j]
    BY <1>4, SetToSeqsSpec DEF o
  <1>6. DOMAIN o = 1 .. Len(o)
    BY <1>5
  <1>7. QED
    BY <1>5, <1>6 DEF o

-----------------------------------------------------------------------------
(* The loop of _dedup_best. *)

(* The fold goes through the entries one by one: F[k] is what is known after
   the first k. *)
Follows(F, s) ==
  /\ F[0] = <<>>
  /\ \A k \in Nat : k < Len(s) => F[k + 1] = KeepBetter(F[k], s[k + 1])

LEMMA FoldSteps ==
  ASSUME NEW s \in Seq(Entry)
  PROVE  \E F : Follows(F, s) /\ FoldLeft(KeepBetter, <<>>, s) = F[Len(s)]
  <1> DEFINE n == Len(s)
             D == 1 .. n
             Step(f, t) == IF t = {} THEN <<>> ELSE KeepBetter(f[t \ {Max(t)}], s[Max(t)])
             IsFold(f) == f = [t \in SUBSET D |-> Step(f, t)]
             fold == CHOOSE f : IsFold(f)
             Small(k) == {t \in SUBSET D : Cardinality(t) <= k}
  <1>1. n \in Nat /\ DOMAIN s = D
    OBVIOUS
  <1>2. FoldLeft(KeepBetter, <<>>, s) = fold[D]
    BY <1>1 DEF FoldLeft, MapThenFoldSet
  <1>3. \A t \in SUBSET D : IsFiniteSet(t) /\ Cardinality(t) \in Nat
    <2>1. IsFiniteSet(D)
      BY <1>1, FS_Interval
    <2> HIDE DEF D
    <2>2. QED
      BY <2>1, FS_Subset, FS_CardinalityType
  <1>4. ASSUME NEW t \in SUBSET D, t # {}
        PROVE  Max(t) \in t
    <2>1. t \in SUBSET Int
      BY <1>1
    <2>2. QED
      BY <1>3, <1>4, <2>1, Greatest
  <1> HIDE DEF D, fold
  <1>5. \E f : IsFold(f)
    <2> DEFINE Good(f, k) == /\ DOMAIN f = Small(k)
                             /\ \A t \in Small(k) : f[t] = Step(f, t)
               T == {k \in Nat : \E f : Good(f, k)}
    <2>1. 0 \in T
      <3> DEFINE f == [t \in Small(0) |-> <<>>]
      <3>1. \A t \in Small(0) : t = {}
        BY <1>3, FS_EmptySet
      <3>2. Good(f, 0)
        BY <3>1
      <3>3. QED
        BY <3>2
    <2>2. ASSUME NEW k \in Nat, k \in T PROVE k + 1 \in T
      <3>1. PICK f : Good(f, k)
        BY <2>2
      <3> DEFINE g == [t \in Small(k + 1) |-> IF t \in Small(k) THEN f[t] ELSE Step(f, t)]
      <3>2. \A t \in Small(k) : t \in Small(k + 1) /\ g[t] = f[t]
        BY <1>3
      <3>3. ASSUME NEW t \in Small(k + 1) PROVE g[t] = Step(g, t)
        <4>1. g[t] = Step(f, t)
          BY <3>1
        <4>2. CASE t = {}
          BY <4>1, <4>2
        <4>3. CASE t # {}
          <5> DEFINE u == t \ {Max(t)}
          <5>1. Max(t) \in t
            BY <1>4, <4>3
          <5>2. u \in Small(k)
            <6>1. Cardinality(u) = Cardinality(t) - 1
              BY <1>3, <5>1, FS_RemoveElement
            <6>2. u \in SUBSET D /\ Cardinality(t) <= k + 1 /\ Cardinality(t) \in Nat
              BY <1>3
            <6>3. QED
              BY <6>1, <6>2
          <5>3. g[u] = f[u]
            BY <3>2, <5>2
          <5> HIDE DEF g, u
          <5>4. QED
            BY <4>1, <4>3, <5>3 DEF u
        <4>4. QED
          BY <4>2, <4>3
      <3>4. DOMAIN g = Small(k + 1)
        OBVIOUS
      <3> HIDE DEF g
      <3>5. Good(g, k + 1)
        BY <3>3, <3>4
      <3> HIDE DEF Good
      <3>6. QED
        BY <3>5
    <2> HIDE DEF T
    <2>3. n \in T
      BY <1>1, <2>1, <2>2, Induction
    <2>4. PICK f : Good(f, n)
      BY <2>3 DEF T
    <2>5. Small(n) = SUBSET D
      <3>1. IsFiniteSet(D) /\ Cardinality(D) = n
        BY <1>1, FS_Interval DEF D
      <3>2. QED
        BY <3>1, FS_Subset
    <2> DEFINE h == [t \in SUBSET D |-> f[t]]
    <2>6. \A t \in SUBSET D : h[t] = f[t] /\ Step(h, t) = Step(f, t)
      OBVIOUS
    <2>7. h = [t \in SUBSET D |-> Step(h, t)]
      BY <2>4, <2>5, <2>6
    <2>8. QED
      BY <2>7
  <1>6. IsFold(fold)
    BY <1>5 DEF fold
  <1> DEFINE F == [k \in 0 .. n |-> fold[1 .. k]]
  <1>7. F[0] = <<>>
    <2>1. 1 .. 0 = {} /\ {} \in SUBSET D
      OBVIOUS
    <2>2. fold[{}] = <<>>
      BY <1>6, <2>1
    <2>3. F[0] = fold[1 .. 0]
      BY <1>1
    <2>4. QED
      BY <2>1, <2>2, <2>3
  <1>8. ASSUME NEW k \in Nat, k < n PROVE F[k + 1] = KeepBetter(F[k], s[k + 1])
    <2> DEFINE t == 1 .. k + 1
    <2>1. t \in SUBSET D /\ t # {}
      <3>1. k + 1 <= n
        BY <1>1, <1>8
      <3>2. \A i \in t : i \in D
        BY <1>1, <3>1 DEF D
      <3>3. 1 \in t
        OBVIOUS
      <3>4. QED
        BY <3>2, <3>3
    <2>2. Max(t) = k + 1
      <3>1. k + 1 \in t /\ \A y \in t : k + 1 >= y
        OBVIOUS
      <3>2. \A x \in t : (\A y \in t : x >= y) => x = k + 1
        OBVIOUS
      <3>3. QED
        BY <3>1, <3>2 DEF Max
    <2>3. t \ {k + 1} = 1 .. k
      OBVIOUS
    <2>4. fold[t] = Step(fold, t)
      BY <1>6, <2>1
    <2>5. F[k + 1] = fold[t] /\ F[k] = fold[1 .. k]
      BY <1>1, <1>8
    <2> HIDE DEF t, F
    <2>6. QED
      BY <2>1, <2>2, <2>3, <2>4, <2>5
  <1>9. F[n] = fold[D]
    BY <1>1 DEF D
  <1> HIDE DEF F
  <1>10. Follows(F, s)
    BY <1>7, <1>8 DEF Follows
  <1>11. QED
    BY <1>2, <1>9, <1>10

(* What best knows of the first k entries: the models they are of, and of each
   one of its entries that has the most bugs. *)
Knows(best, s, k) ==
  /\ DOMAIN best = {s[i].model : i \in 1 .. k}
  /\ \A m \in DOMAIN best : best[m].model = m /\ \E i \in 1 .. k : best[m] = s[i]
  /\ \A i \in 1 .. k : s[i].bugs <= best[s[i].model].bugs

LEMMA BestSoFar ==
  ASSUME NEW s \in Seq(Entry), NEW F, Follows(F, s)
  PROVE  Knows(F[Len(s)], s, Len(s))
  <1> DEFINE T == {k \in Nat : k <= Len(s) => Knows(F[k], s, k)}
  <1>1. 0 \in T
    <2>1. F[0] = <<>> /\ DOMAIN F[0] = {} /\ 1 .. 0 = {}
      BY DEF Follows
    <2>2. QED
      BY <2>1 DEF Knows
  <1>2. ASSUME NEW k \in Nat, k \in T PROVE k + 1 \in T
    <2> SUFFICES ASSUME k + 1 <= Len(s) PROVE Knows(F[k + 1], s, k + 1)
      OBVIOUS
    <2> DEFINE best == F[k]
               entry == s[k + 1]
               m0 == entry.model
    <2>1. Knows(best, s, k) /\ k < Len(s) /\ F[k + 1] = KeepBetter(best, entry)
      BY <1>2 DEF Follows
    <2>2. \A i \in 1 .. k + 1 : s[i].bugs \in Nat
      <3>1. \A i \in 1 .. k + 1 : s[i] \in Entry
        OBVIOUS
      <3>2. QED
        BY <3>1 DEF Entry
    <2>3. 1 .. k + 1 = 1 .. k \cup {k + 1}
      OBVIOUS
    <2> HIDE DEF best, entry
    <2>4. {s[i].model : i \in 1 .. k + 1} = DOMAIN best \cup {m0}
      BY <2>1, <2>3 DEF Knows, entry
    <2>5. ASSUME NEW m \in DOMAIN best PROVE best[m].bugs \in Nat
      <3>1. PICK i \in 1 .. k : best[m] = s[i]
        BY <2>1 DEF Knows
      <3>2. QED
        BY <2>2, <2>3, <3>1
    <2>6. CASE m0 \in DOMAIN best /\ entry.bugs <= best[m0].bugs
      <3>1. F[k + 1] = best
        BY <2>1, <2>6 DEF KeepBetter
      <3>2. \A i \in 1 .. k + 1 : s[i].bugs <= best[s[i].model].bugs
        BY <2>1, <2>3, <2>6 DEF Knows, entry
      <3>3. QED
        BY <2>1, <2>3, <2>4, <2>6, <3>1, <3>2 DEF Knows
    <2>7. CASE ~(m0 \in DOMAIN best /\ entry.bugs <= best[m0].bugs)
      <3> DEFINE next == F[k + 1]
      <3>1. next = [m \in DOMAIN best \cup {m0} |-> IF m = m0 THEN entry ELSE best[m]]
        BY <2>1, <2>7 DEF KeepBetter
      <3> HIDE DEF next
      <3>2. \A m \in DOMAIN next : next[m].model = m /\ \E i \in 1 .. k + 1 : next[m] = s[i]
        <4>1. ASSUME NEW m \in DOMAIN next, m = m0
              PROVE  next[m].model = m /\ \E i \in 1 .. k + 1 : next[m] = s[i]
          BY <3>1, <4>1 DEF entry
        <4>2. ASSUME NEW m \in DOMAIN next, m # m0
              PROVE  next[m].model = m /\ \E i \in 1 .. k + 1 : next[m] = s[i]
          <5>1. m \in DOMAIN best /\ next[m] = best[m]
            BY <3>1, <4>2
          <5>2. QED
            BY <2>1, <5>1 DEF Knows
        <4>3. QED
          BY <4>1, <4>2
      <3>3. ASSUME NEW i \in 1 .. k + 1
            PROVE  s[i].bugs <= next[s[i].model].bugs
        <4>1. CASE i = k + 1
          <5>1. next[s[i].model] = s[i]
            BY <3>1, <4>1 DEF entry
          <5>2. QED
            BY <2>2, <5>1
        <4>2. CASE i \in 1 .. k /\ s[i].model # m0
          BY <2>1, <3>1, <4>2 DEF Knows
        <4>3. CASE i \in 1 .. k /\ s[i].model = m0
          <5>1. m0 \in DOMAIN best /\ s[i].bugs <= best[m0].bugs
            BY <2>1, <4>3 DEF Knows
          <5>2. entry.bugs \in Nat
            BY <2>2 DEF entry
          <5>3. best[m0].bugs <= entry.bugs
            BY <2>5, <2>7, <5>1, <5>2
          <5>4. next[m0] = entry
            BY <3>1
          <5>5. QED
            BY <2>2, <2>5, <4>3, <5>1, <5>2, <5>3, <5>4
        <4>4. QED
          BY <2>3, <4>1, <4>2, <4>3
      <3>4. DOMAIN next = {s[i].model : i \in 1 .. k + 1}
        BY <2>4, <3>1
      <3>5. QED
        BY <3>2, <3>3, <3>4 DEF Knows, next
    <2>8. QED
      BY <2>6, <2>7
  <1> HIDE DEF T
  <1>3. Len(s) \in T
    BY <1>1, <1>2, Induction
  <1>4. QED
    BY <1>3 DEF T

(* _dedup_best: whatever the entries, what it returns is a board of them. *)
LEMMA DedupSpec ==
  ASSUME NEW s \in Seq(Entry)
  PROVE  IsBoardOf(DedupBest(s), s)
  <1> DEFINE n == Len(s)
             best == FoldLeft(KeepBetter, <<>>, s)
             rows == {best[m] : m \in DOMAIN best}
             R == {p \in rows \X rows : Above(p[1], p[2])}
  <1>1. Knows(best, s, n)
    BY FoldSteps, BestSoFar
  <1>2. n \in Nat /\ DOMAIN s = 1 .. n
    OBVIOUS
  <1>3. DedupBest(s) = Sorted(rows, Above)
    BY DEF DedupBest
  <1> HIDE DEF best, n
  <1>4. rows \subseteq ToSet(s)
    <2>1. ASSUME NEW m \in DOMAIN best PROVE best[m] \in ToSet(s)
      <3>1. PICK i \in 1 .. n : best[m] = s[i]
        BY <1>1 DEF Knows
      <3>2. QED
        BY <1>2, <3>1 DEF ToSet
    <2>2. QED
      BY <2>1
  <1>5. \A x \in ToSet(s) : x.model \in Nat /\ x.bugs \in Nat
    <2>1. \A i \in 1 .. n : s[i] \in Entry
      BY DEF n
    <2>2. QED
      BY <1>2, <2>1 DEF ToSet, Entry
  <1>6. IsFiniteSet(rows)
    <2>1. s \in Surjection(1 .. n, ToSet(s))
      BY <1>2 DEF Surjection, ToSet
    <2>2. IsFiniteSet(ToSet(s))
      BY <1>2, <2>1, FS_Interval, FS_Surjection
    <2>3. QED
      BY <1>4, <2>2, FS_Subset
  <1>7. \A x, y \in rows : x # y => x.model # y.model
    BY <1>1 DEF Knows
  <1>8. IsOrder(R, rows)
    <2> HIDE DEF rows
    <2>1. \A x, y \in rows : x # y => Above(x, y) \/ Above(y, x)
      BY <1>4, <1>5, <1>7 DEF Above
    <2>2. \A x, y, z \in rows : Above(x, y) /\ Above(y, z) => Above(x, z)
      BY <1>4, <1>5 DEF Above
    <2> HIDE DEF Above
    <2>3. \A x, y \in rows : <<x, y>> \in R <=> Above(x, y)
      OBVIOUS
    <2> HIDE DEF R
    <2>4. QED
      BY <2>1, <2>2, <2>3 DEF IsOrder
  <1> DEFINE board == DedupBest(s)
  <1>9. /\ board \in SetToSeqs(rows)
        /\ \A i, j \in 1 .. Len(board) : i < j => Above(board[i], board[j])
    <2> HIDE DEF R, rows
    <2>1. PICK t \in SetToSeqs(rows) : \A i, j \in 1 .. Len(t) : i < j => <<t[i], t[j]>> \in R
      BY <1>6, <1>8, SortedExists
    <2>2. \A i, j \in 1 .. Len(t) : i < j => Above(t[i], t[j])
      BY <2>1 DEF R
    <2>3. QED
      BY <1>3, <2>2 DEF Sorted, IsSorted
  <1> HIDE DEF board
  <1>10. /\ board \in Seq(rows)
         /\ {board[i] : i \in DOMAIN board} = rows
         /\ \A i, j \in DOMAIN board : i # j => board[i] # board[j]
    <2> HIDE DEF rows
    <2>1. QED
      BY <1>6, <1>9, SetToSeqsSpec
  <1>11. ToSet(board) = rows
    BY <1>10 DEF ToSet
  <1>12. ASSUME NEW e \in ToSet(s)
         PROVE  \E r \in ToSet(board) : r.model = e.model /\ r.bugs >= e.bugs
    <2>1. PICK i \in 1 .. n : e = s[i]
      BY <1>2 DEF ToSet
    <2>2. e.model \in DOMAIN best /\ e.bugs <= best[e.model].bugs /\ best[e.model].model = e.model
      BY <1>1, <2>1 DEF Knows
    <2>3. best[e.model] \in rows
      BY <2>2
    <2>4. best[e.model].bugs >= e.bugs
      BY <1>4, <1>5, <2>2, <2>3
    <2>5. QED
      BY <1>11, <2>2, <2>3, <2>4
  <1>13. ASSUME NEW i \in DOMAIN board, NEW j \in DOMAIN board, i < j
         PROVE  Above(board[i], board[j]) /\ board[i].model # board[j].model
    <2> HIDE DEF rows
    <2>1. DOMAIN board = 1 .. Len(board)
      BY <1>10
    <2>2. i # j
      BY <1>13, <2>1
    <2>3. board[i] \in rows /\ board[j] \in rows /\ board[i] # board[j]
      BY <1>10, <2>2
    <2>4. QED
      BY <1>7, <1>9, <1>13, <2>1, <2>3
  <1>14. QED
    BY <1>4, <1>11, <1>12, <1>13 DEF IsBoardOf, board

-----------------------------------------------------------------------------
(* From the branch to its entries. *)

There(branch) == {n \in Name : branch[n] # Missing}

(* Each push brings one file, so a branch never holds infinitely many. *)
IsBranch(branch) == branch \in [Name -> PublicFile] /\ IsFiniteSet(There(branch))

(* The files are all there are, and the loop reads nothing else. *)
LEMMA FilesSpec ==
  ASSUME NEW branch, IsBranch(branch)
  PROVE  /\ FilesOf(branch) \in Seq(PublicFile)
         /\ \A n \in There(branch) : \E i \in DOMAIN FilesOf(branch) : FilesOf(branch)[i] = branch[n]
  <1> DEFINE names == InOrder(There(branch))
             files == [i \in DOMAIN names |-> branch[names[i]]]
  <1>1. There(branch) \in SUBSET Int /\ There(branch) \subseteq Name
    <2>1. \A n \in Name : n \in Int
      BY SiteAssumption
    <2>2. There(branch) \subseteq Name
      BY DEF There
    <2>3. QED
      BY <2>1, <2>2
  <1>2. names \in Seq(There(branch)) /\ {names[i] : i \in DOMAIN names} = There(branch)
    BY <1>1, InOrderSpec DEF IsBranch
  <1>3. FilesOf(branch) = files
    BY DEF FilesOf, There
  <1> HIDE DEF names
  <1>4. \A i \in DOMAIN names : names[i] \in There(branch)
    BY <1>2
  <1>5. \A i \in DOMAIN names : branch[names[i]] \in PublicFile
    BY <1>1, <1>4 DEF IsBranch
  <1>6. DOMAIN names = 1 .. Len(names) /\ Len(names) \in Nat
    BY <1>2
  <1>7. files \in Seq(PublicFile)
    BY <1>5, <1>6
  <1>8. \A n \in There(branch) : \E i \in DOMAIN files : files[i] = branch[n]
    BY <1>2
  <1>9. QED
    BY <1>3, <1>7, <1>8

LEMMA ReadableSpec ==
  ASSUME NEW files \in Seq(PublicFile)
  PROVE  Readable(files) \in Seq(Entry)
  <1> DEFINE usable == {i \in DOMAIN files :
                          /\ files[i].shape = "object"
                          /\ Head(files[i].entries).model # NoModel}
             at == InOrder(usable)
             kept == [i \in DOMAIN at |-> Head(files[at[i]].entries)]
  <1>1. DOMAIN files = 1 .. Len(files) /\ Len(files) \in Nat
    OBVIOUS
  <1>2. usable \in SUBSET Int /\ IsFiniteSet(usable)
    <2>1. usable \in SUBSET (1 .. Len(files))
      BY <1>1
    <2>2. IsFiniteSet(1 .. Len(files))
      BY <1>1, FS_Interval
    <2> HIDE DEF usable
    <2>3. IsFiniteSet(usable)
      BY <2>1, <2>2, FS_Subset
    <2>4. \A i \in usable : i \in Int
      BY <1>1, <2>1
    <2>5. QED
      BY <2>3, <2>4
  <1>3. \A i \in usable : Head(files[i].entries) \in Entry
    <2> SUFFICES ASSUME NEW i \in usable PROVE Head(files[i].entries) \in Entry
      OBVIOUS
    <2>1. files[i] \in PublicFile /\ files[i].shape = "object"
      BY <1>1
    <2>2. files[i].entries \in Seq(Entry) /\ Len(files[i].entries) = 1
      BY <2>1 DEF PublicFile
    <2>3. QED
      BY <2>2
  <1>4. Readable(files) = kept
    BY DEF Readable
  <1> HIDE DEF usable
  <1>5. at \in Seq(usable)
    BY <1>2, InOrderSpec
  <1> HIDE DEF at
  <1>6. DOMAIN at = 1 .. Len(at) /\ Len(at) \in Nat /\ \A i \in DOMAIN at : at[i] \in usable
    BY <1>5
  <1>7. kept \in Seq(Entry)
    BY <1>3, <1>6
  <1>8. QED
    BY <1>4, <1>7

(* build_board: the board of the files of a branch is one of their entries. *)
LEMMA BoardSpec ==
  ASSUME NEW branch, IsBranch(branch)
  PROVE  IsBoardOf(Board(FilesOf(branch)), Readable(FilesOf(branch)))
  BY FilesSpec, ReadableSpec, DedupSpec DEF Board

-----------------------------------------------------------------------------
(* The site. *)

IInv ==
  /\ IsBranch(main) /\ IsBranch(checkout)
  /\ BoardIsBest

LEMMA NothingThere == IsBranch(NoFiles)
  <1>1. Missing \in PublicFile
    BY DEF Missing, PublicFile, Shapes
  <1>2. There(NoFiles) = {}
    BY DEF There, NoFiles
  <1>3. QED
    BY <1>1, <1>2, FS_EmptySet DEF IsBranch, NoFiles

LEMMA InitIInv == Init => IInv
  <1> SUFFICES ASSUME Init PROVE IInv
    OBVIOUS
  <1>1. IsBranch(main) /\ IsBranch(checkout)
    BY NothingThere DEF Init
  <1>2. live = NoFiles /\ site = <<>>
    BY DEF Init
  <1>3. FilesOf(NoFiles) = <<>>
    <2>1. {n \in Name : NoFiles[n] # Missing} = {}
      BY DEF NoFiles
    <2>2. {} \in SUBSET Int /\ IsFiniteSet({})
      BY FS_EmptySet
    <2>3. InOrder({}) \in Seq({})
      BY <2>2, InOrderSpec
    <2>4. InOrder({}) = <<>>
      BY <2>3
    <2> DEFINE names == InOrder({n \in Name : NoFiles[n] # Missing})
    <2>5. FilesOf(NoFiles) = [i \in DOMAIN names |-> NoFiles[names[i]]]
      BY DEF FilesOf
    <2>6. names = <<>>
      BY <2>1, <2>4
    <2> HIDE DEF names
    <2>7. QED
      BY <2>5, <2>6
  <1>4. Readable(<<>>) = <<>>
    <2> DEFINE usable == {i \in DOMAIN <<>> :
                            /\ <<>>[i].shape = "object"
                            /\ Head(<<>>[i].entries).model # NoModel}
    <2>1. usable = {}
      OBVIOUS
    <2>2. InOrder({}) \in Seq({})
      BY FS_EmptySet, InOrderSpec
    <2>3. InOrder({}) = <<>>
      BY <2>2
    <2>4. QED
      BY <2>1, <2>3 DEF Readable
  <1>5. IsBoardOf(<<>>, <<>>)
    BY DEF IsBoardOf, ToSet
  <1>6. \A n \in Name : live[n] = Missing
    BY <1>2 DEF NoFiles
  <1>7. QED
    BY <1>1, <1>2, <1>3, <1>4, <1>5, <1>6 DEF IInv, BoardIsBest

LEMMA StepIInv == IInv /\ [Next]_vars => IInv'
  <1> SUFFICES ASSUME IInv, [Next]_vars PROVE IInv'
    OBVIOUS
  <1>1. ASSUME NEW n \in Name, NEW content \in Files \cup {Missing}, Push(n, content)
        PROVE  IInv'
    <2>1. content \in PublicFile
      <3>1. Missing \in PublicFile
        BY DEF Missing, PublicFile, Shapes
      <3>2. Files \subseteq PublicFile
        BY SiteAssumption
      <3>3. QED
        BY <3>1, <3>2
    <2>2. main \in [Name -> PublicFile] /\ main' = [main EXCEPT ![n] = content]
      BY <1>1 DEF IInv, IsBranch, Push
    <2>3. There(main') \in SUBSET (There(main) \cup {n})
      BY <2>2 DEF There
    <2>4. IsFiniteSet(There(main) \cup {n})
      BY FS_AddElement DEF IInv, IsBranch
    <2>5. IsFiniteSet(There(main'))
      BY <2>3, <2>4, FS_Subset
    <2>6. IsBranch(main')
      BY <2>1, <2>2, <2>5 DEF IsBranch
    <2>7. QED
      BY <1>1, <2>6 DEF IInv, BoardIsBest, Push
  <1>2. CASE StartRun
    BY <1>2 DEF IInv, BoardIsBest, StartRun
  <1>3. CASE Deploy
    <2>1. IsBranch(checkout)
      BY DEF IInv
    <2>2. IsBoardOf(site', Readable(FilesOf(live')))
      BY <1>3, <2>1, BoardSpec DEF Deploy
    <2>3. ASSUME NEW n \in Name, checkout[n] # Missing
          PROVE  Passes(checkout[n])
      <3>1. n \in There(checkout)
        BY <2>3 DEF There
      <3>2. PICK i \in DOMAIN FilesOf(checkout) : FilesOf(checkout)[i] = checkout[n]
        BY <2>1, <3>1, FilesSpec
      <3>3. Passes(FilesOf(checkout)[i])
        BY <1>3 DEF Deploy, Guarded
      <3>4. QED
        BY <3>2, <3>3
    <2>4. BoardIsBest'
      BY <1>3, <2>2, <2>3 DEF BoardIsBest, Deploy
    <2>5. main' = main /\ checkout' = NoFiles
      BY <1>3 DEF Deploy, EndRun
    <2>6. QED
      BY <2>4, <2>5, NothingThere DEF IInv
  <1>4. CASE FailRun
    <2>1. main' = main /\ checkout' = NoFiles /\ live' = live /\ site' = site
      BY <1>4 DEF FailRun, EndRun
    <2>2. QED
      BY <2>1, NothingThere DEF IInv, BoardIsBest
  <1>5. CASE Dispatch
    BY <1>5 DEF IInv, BoardIsBest, Dispatch
  <1>6. CASE UNCHANGED vars
    BY <1>6 DEF IInv, BoardIsBest, vars
  <1>7. QED
    BY <1>1, <1>2, <1>3, <1>4, <1>5, <1>6 DEF Next

(* The site shows, for each model, the best of the entries that were on the
   branch at one moment, ranked by bugs, and of no branch that holds a file the
   guard refuses (build_board, _dedup_best and publish-on-merge.yml). *)
THEOREM SiteShowsTheBest == Spec => []BoardIsBest
  <1>1. IInv => BoardIsBest
    BY DEF IInv
  <1>2. QED
    BY <1>1, InitIInv, StepIInv, PTL DEF Spec

===============================================================================
