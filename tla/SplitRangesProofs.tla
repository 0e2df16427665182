-------------------------- MODULE SplitRangesProofs --------------------------
(***************************************************************************)
(* What is computed of a request, for any list of songs and any number of  *)
(* accounts.  The ranges are a partition, since the bound never falls      *)
(* below the heaviest song.  check answers whether the list can be cut     *)
(* into the wanted number of ranges at all: no way of cutting is ahead of  *)
(* the greedy one after any song (GreedyIsBest), and where it cuts is a    *)
(* way itself (GreedyCuts).  So the search, which keeps check true above   *)
(* its interval and false below it, ends at the least bound; and as the    *)
(* songs then weigh no more than count times the bound, the cutting loop,  *)
(* which takes the bound off once for every range, makes no more ranges.   *)
(*                                                                         *)
(* Recursive functions are reached through sets: SetInduction is the       *)
(* induction over a set of numbers, and RecursionExists says that a first  *)
(* value and a step given as a function determine a function.              *)
(***************************************************************************)
EXTENDS SplitRanges, TLAPS, WellFoundedInduction, FiniteSetTheorems

----------------------------------------------------------------------------
(* Recursion over numbers *)

\* Every set of numbers has a least one.
LEMMA SmallestOf ==
  ASSUME NEW T \in SUBSET Nat, T # {}
  PROVE  \E n \in T : \A m \in T : n <= m
<1>1. PICK n \in T : \A m \in T : <<m, n>> \notin OpToRel(<, Nat)
  BY NatLessThanWellFounded, WFMin
<1>2. ASSUME NEW m \in T, m < n PROVE FALSE
  BY <1>1, <1>2 DEF OpToRel
<1>3. \A m \in T : n <= m
  BY <1>2
<1>4. QED
  BY <1>3

\* Induction over the numbers, for a property given as a set, and up to a bound.
LEMMA SetInduction ==
  ASSUME NEW T, 0 \in T, \A n \in Nat : n \in T => n + 1 \in T
  PROVE  Nat \subseteq T
<1> SUFFICES ASSUME Nat \ T # {} PROVE FALSE
  OBVIOUS
<1>1. PICK n \in Nat \ T : \A m \in Nat \ T : n <= m
  BY SmallestOf
<1>2. n # 0 /\ n - 1 \in Nat
  BY <1>1
<1>3. n - 1 \in T
  BY <1>1, <1>2
<1>4. QED
  BY <1>1, <1>2, <1>3

LEMMA UpTo ==
  ASSUME NEW N \in Nat, NEW T, 0 \in T, \A n \in 0 .. N - 1 : n \in T => n + 1 \in T
  PROVE  0 .. N \subseteq T
<1> DEFINE U == {n \in Nat : n <= N => n \in T}
<1>1. 0 \in U
  OBVIOUS
<1>2. ASSUME NEW n \in Nat, n \in U PROVE n + 1 \in U
  BY <1>2
<1>3. Nat \subseteq U
  <2> HIDE DEF U
  <2>1. QED
    BY <1>1, <1>2, SetInduction
<1>4. QED
  BY <1>3

\* A function on 0 .. N is given by its first value and its step.
Follows(f, N, b, g) == f = [k \in 0 .. N |-> IF k = 0 THEN b ELSE g[<<k, f[k - 1]>>]]

LEMMA RecursionExists ==
  ASSUME NEW N \in Nat, NEW S, NEW b \in S, NEW g \in [(1 .. N) \X S -> S]
  PROVE  \E f \in [0 .. N -> S] : Follows(f, N, b, g)
<1> DEFINE T == {n \in Nat : n <= N => \E f \in [0 .. n -> S] : Follows(f, n, b, g)}
<1>1. 0 \in T
  <2> DEFINE f == [k \in 0 .. 0 |-> b]
  <2>1. f \in [0 .. 0 -> S] /\ Follows(f, 0, b, g)
    BY DEF Follows
  <2>2. QED
    BY <2>1
<1>2. ASSUME NEW n \in Nat, n \in T PROVE n + 1 \in T
  <2> SUFFICES ASSUME n + 1 <= N
               PROVE  \E f \in [0 .. n + 1 -> S] : Follows(f, n + 1, b, g)
    OBVIOUS
  <2>1. PICK h \in [0 .. n -> S] : Follows(h, n, b, g)
    BY <1>2
  <2> DEFINE f == [k \in 0 .. n + 1 |-> IF k = n + 1 THEN g[<<n + 1, h[n]>>] ELSE h[k]]
  <2>2. f \in [0 .. n + 1 -> S]
    BY <2>1
  <2>3. ASSUME NEW k \in 0 .. n + 1
        PROVE  f[k] = IF k = 0 THEN b ELSE g[<<k, f[k - 1]>>]
    <3>0. f[n + 1] = g[<<n + 1, h[n]>>] /\ \A j \in 0 .. n : f[j] = h[j]
      OBVIOUS
    <3> HIDE DEF f
    <3>1. CASE k = n + 1
      BY <3>0, <3>1
    <3>2. CASE k \in 0 .. n
      <4>1. h[k] = IF k = 0 THEN b ELSE g[<<k, h[k - 1]>>]
        BY <2>1, <3>2 DEF Follows
      <4>2. k # 0 => k - 1 \in 0 .. n
        BY <3>2
      <4>3. QED
        BY <3>0, <3>2, <4>1, <4>2
    <3>3. QED
      BY <3>1, <3>2
  <2>4. Follows(f, n + 1, b, g)
    <3> HIDE DEF f
    <3>1. DOMAIN f = 0 .. n + 1 /\ f = [k \in 0 .. n + 1 |-> f[k]]
      BY <2>2
    <3>2. QED
      BY <2>3, <3>1 DEF Follows
  <2>5. QED
    BY <2>2, <2>4
<1>3. N \in T
  <2> HIDE DEF T
  <2>1. QED
    BY <1>1, <1>2, SetInduction
<1>4. QED
  BY <1>3

----------------------------------------------------------------------------
(* The operators of the model *)

LEMMA SumsDef ==
  ASSUME NEW w \in Seq(Nat)
  PROVE  /\ Sums(w) \in [0 .. Len(w) -> Nat]
         /\ Sums(w)[0] = 0
         /\ \A k \in 1 .. Len(w) : Sums(w)[k] = Sums(w)[k - 1] + w[k]
<1> DEFINE N == Len(w)
           g == [p \in (1 .. N) \X Nat |-> p[2] + w[p[1]]]
           Eq(s) == s = [k \in 0 .. N |-> IF k = 0 THEN 0 ELSE s[k - 1] + w[k]]
<1>1. N \in Nat /\ g \in [(1 .. N) \X Nat -> Nat]
  OBVIOUS
<1>2. PICK f \in [0 .. N -> Nat] : Follows(f, N, 0, g)
  <2> HIDE DEF g, N
  <2>1. QED
    BY <1>1, RecursionExists
<1>3. Eq(f)
  <2>1. \A k \in 1 .. N, x \in Nat : g[<<k, x>>] = x + w[k]
    OBVIOUS
  <2> HIDE DEF g, N
  <2>2. ASSUME NEW k \in 1 .. N PROVE f[k - 1] \in Nat
    BY <1>1, <1>2
  <2>3. QED
    BY <1>1, <1>2, <2>1, <2>2 DEF Follows
<1>4. Eq(Sums(w))
  BY <1>3 DEF Sums
<1>5. DOMAIN Sums(w) = 0 .. N /\ Sums(w)[0] = 0 /\ \A k \in 1 .. N : Sums(w)[k] = Sums(w)[k - 1] + w[k]
  BY <1>1, <1>4
<1> DEFINE T == {n \in Nat : n <= N => Sums(w)[n] \in Nat}
<1>6. 0 \in T
  BY <1>5
<1>7. ASSUME NEW n \in Nat, n \in T PROVE n + 1 \in T
  <2> SUFFICES ASSUME n + 1 <= N PROVE Sums(w)[n + 1] \in Nat
    OBVIOUS
  <2>1. n + 1 \in 1 .. N /\ w[n + 1] \in Nat
    BY <1>1
  <2>2. Sums(w)[n + 1] = Sums(w)[n] + w[n + 1]
    BY <1>5, <2>1
  <2>3. QED
    BY <1>7, <2>1, <2>2
<1>8. \A n \in 0 .. N : Sums(w)[n] \in Nat
  <2>1. Nat \subseteq T
    <3> HIDE DEF T
    <3>1. QED
      BY <1>6, <1>7, SetInduction
  <2>2. QED
    BY <2>1, <1>1
<1>9. QED
  BY <1>4, <1>5, <1>8

RangeState == [cnt : Nat, sum : Nat]

LEMMA PutType ==
  ASSUME NEW acc \in RangeState, NEW n \in Nat, NEW d \in Nat
  PROVE  /\ Put(acc, n, d) \in RangeState
         /\ acc.sum + n <= d => Put(acc, n, d).cnt = acc.cnt /\ Put(acc, n, d).sum = acc.sum + n
         /\ acc.sum + n > d => Put(acc, n, d).cnt = acc.cnt + 1 /\ Put(acc, n, d).sum = n
  BY DEF Put, RangeState

LEMMA FilledDef ==
  ASSUME NEW w \in Seq(Nat), NEW d \in Nat
  PROVE  /\ Filled(w, d) \in [0 .. Len(w) -> RangeState]
         /\ Filled(w, d)[0].cnt = 0 /\ Filled(w, d)[0].sum = 0
         /\ \A k \in 1 .. Len(w) : Filled(w, d)[k] = Put(Filled(w, d)[k - 1], w[k], d)
<1> DEFINE N == Len(w)
           b == [cnt |-> 0, sum |-> 0]
           g == [p \in (1 .. N) \X RangeState |-> Put(p[2], w[p[1]], d)]
           Eq(s) == s = [k \in 0 .. N |-> IF k = 0 THEN b ELSE Put(s[k - 1], w[k], d)]
<1>1. N \in Nat /\ b \in RangeState /\ g \in [(1 .. N) \X RangeState -> RangeState]
  <2>1. N \in Nat /\ \A k \in 1 .. N : w[k] \in Nat
    OBVIOUS
  <2>2. b \in RangeState
    BY DEF RangeState
  <2>3. ASSUME NEW p \in (1 .. N) \X RangeState PROVE Put(p[2], w[p[1]], d) \in RangeState
    <3>1. p[1] \in 1 .. N /\ p[2] \in RangeState
      OBVIOUS
    <3>2. QED
      BY <2>1, <3>1, PutType
  <2>4. QED
    BY <2>1, <2>2, <2>3
<1>2. PICK f \in [0 .. N -> RangeState] : Follows(f, N, b, g)
  <2> HIDE DEF g, N, b
  <2>1. QED
    BY <1>1, RecursionExists
<1>3. Eq(f)
  <2>1. \A k \in 1 .. N, x \in RangeState : g[<<k, x>>] = Put(x, w[k], d)
    OBVIOUS
  <2> HIDE DEF g, N, b
  <2>2. ASSUME NEW k \in 1 .. N PROVE f[k - 1] \in RangeState
    <3>1. k - 1 \in 0 .. N
      BY <1>1
    <3>2. QED
      BY <1>2, <3>1
  <2>3. QED
    BY <1>1, <1>2, <2>1, <2>2 DEF Follows
<1>4. Eq(Filled(w, d))
  BY <1>3 DEF Filled
<1>5. /\ DOMAIN Filled(w, d) = 0 .. N /\ Filled(w, d)[0] = b
      /\ \A k \in 1 .. N : Filled(w, d)[k] = Put(Filled(w, d)[k - 1], w[k], d)
  BY <1>1, <1>4
<1> DEFINE T == {n \in Nat : n <= N => Filled(w, d)[n] \in RangeState}
<1>6. 0 \in T
  BY <1>1, <1>5
<1>7. ASSUME NEW n \in Nat, n \in T PROVE n + 1 \in T
  <2> SUFFICES ASSUME n + 1 <= N PROVE Filled(w, d)[n + 1] \in RangeState
    OBVIOUS
  <2>1. Filled(w, d)[n + 1] = Put(Filled(w, d)[n], w[n + 1], d)
    BY <1>1, <1>5
  <2>2. Filled(w, d)[n] \in RangeState /\ w[n + 1] \in Nat
    BY <1>1, <1>7
  <2>3. QED
    BY <2>1, <2>2, PutType
<1>8. \A n \in 0 .. N : Filled(w, d)[n] \in RangeState
  <2>1. Nat \subseteq T
    <3> HIDE DEF T
    <3>1. QED
      BY <1>6, <1>7, SetInduction
  <2>2. QED
    BY <2>1, <1>1
<1>9. QED
  <2>1. Filled(w, d) = [k \in 0 .. N |-> Filled(w, d)[k]]
    BY <1>4
  <2>2. Filled(w, d) \in [0 .. N -> RangeState]
    <3> HIDE DEF N
    <3>1. QED
      BY <1>8, <2>1
  <2>3. QED
    BY <1>5, <2>2

\* A longer part of the list weighs no less.
LEMMA SumsGrow ==
  ASSUME NEW w \in Seq(Nat), NEW j \in 0 .. Len(w), NEW k \in j .. Len(w)
  PROVE  Sums(w)[j] <= Sums(w)[k]
<1> DEFINE N == Len(w)
           T == {n \in 0 .. N : j <= n => Sums(w)[j] <= Sums(w)[n]}
<1>1. /\ N \in Nat /\ j \in 0 .. N /\ k \in 0 .. N /\ j <= k
      /\ \A n \in 0 .. N : Sums(w)[n] \in Nat
      /\ \A n \in 1 .. N : w[n] \in Nat /\ Sums(w)[n] = Sums(w)[n - 1] + w[n]
  BY SumsDef
<1> HIDE DEF N
<1>2. 0 \in T
  BY <1>1
<1>3. ASSUME NEW n \in 0 .. N - 1, n \in T PROVE n + 1 \in T
  <2>1. n + 1 \in 1 .. N /\ Sums(w)[n] \in Nat
    BY <1>1
  <2>2. Sums(w)[n + 1] = Sums(w)[n] + w[n + 1] /\ w[n + 1] \in Nat
    BY <1>1, <2>1
  <2>3. QED
    BY <1>1, <1>3, <2>1, <2>2
<1>4. 0 .. N \subseteq T
  <2> HIDE DEF T
  <2>1. QED
    BY <1>1, <1>2, <1>3, UpTo
<1>5. QED
  BY <1>1, <1>4

\* The songs from s + 1 to e.
LEMMA SumsOfPart ==
  ASSUME NEW w \in Seq(Nat), NEW e \in 0 .. Len(w), NEW s \in 0 .. e
  PROVE  Sum(SubSeq(w, s + 1, e)) = Sums(w)[e] - Sums(w)[s]
<1> DEFINE N == Len(w)
           v == SubSeq(w, s + 1, e)
           M == e - s
           T == {n \in 0 .. M : Sums(v)[n] = Sums(w)[s + n] - Sums(w)[s]}
<1>1. /\ M \in Nat /\ v \in Seq(Nat) /\ Len(v) = M
      /\ \A n \in 1 .. M : v[n] = w[s + n] /\ w[s + n] \in Nat /\ s + n \in 1 .. N
  OBVIOUS
<1>2. /\ \A n \in 0 .. N : Sums(w)[n] \in Nat
      /\ \A n \in 1 .. N : Sums(w)[n] = Sums(w)[n - 1] + w[n]
  BY SumsDef
<1>3. /\ Sums(v)[0] = 0
      /\ \A n \in 1 .. M : Sums(v)[n] = Sums(v)[n - 1] + v[n]
  <2> HIDE DEF v, M
  <2>1. QED
    BY <1>1, SumsDef
<1>4. s \in Nat /\ e \in Nat /\ N \in Nat /\ s <= e /\ e <= N
  OBVIOUS
<1> HIDE DEF v, N
<1>5. 0 \in T
  BY <1>1, <1>2, <1>3, <1>4
<1>6. ASSUME NEW n \in 0 .. M - 1, n \in T PROVE n + 1 \in T
  <2>1. n + 1 \in 1 .. M /\ s + (n + 1) \in 1 .. N /\ s + n \in 0 .. N
    BY <1>1, <1>4
  <2>2. Sums(v)[n + 1] = Sums(v)[n] + w[s + (n + 1)]
    BY <1>1, <1>3, <2>1
  <2>3. Sums(w)[s + (n + 1)] = Sums(w)[s + n] + w[s + (n + 1)] /\ w[s + (n + 1)] \in Nat
    BY <1>1, <1>2, <1>4, <2>1
  <2>4. Sums(v)[n] = Sums(w)[s + n] - Sums(w)[s]
    BY <1>6
  <2>5. Sums(w)[s] \in Nat /\ Sums(w)[s + n] \in Nat
    BY <1>2, <1>4, <2>1
  <2>6. Sums(v)[n + 1] = Sums(w)[s + (n + 1)] - Sums(w)[s]
    BY <2>2, <2>3, <2>4, <2>5
  <2>7. n + 1 \in 0 .. M
    BY <2>1
  <2>8. QED
    BY <2>6, <2>7
<1>7. 0 .. M \subseteq T
  <2> HIDE DEF T, M
  <2>1. QED
    BY <1>1, <1>5, <1>6, UpTo
<1>8. Sum(v) = Sums(v)[M]
  BY <1>1 DEF Sum
<1>9. M \in T /\ s + M = e
  BY <1>1, <1>4, <1>7
<1>10. QED
  BY <1>8, <1>9 DEF v

\* A bound no song exceeds: no range exceeds it, and what is full holds no more
\* than the ranges have room for.
LEMMA FilledWithinBound ==
  ASSUME NEW w \in Seq(Nat), NEW d \in Nat, \A j \in 1 .. Len(w) : w[j] <= d
  PROVE  \A k \in 0 .. Len(w) :
           /\ Filled(w, d)[k].sum <= d
           /\ Sums(w)[k] <= Filled(w, d)[k].cnt * d + Filled(w, d)[k].sum
<1> DEFINE N == Len(w)
           F == Filled(w, d)
           Ok(n) == F[n].sum <= d /\ Sums(w)[n] <= F[n].cnt * d + F[n].sum
           T == {n \in 0 .. N : Ok(n)}
<1>1. /\ N \in Nat
      /\ \A n \in 0 .. N : Sums(w)[n] \in Nat /\ F[n] \in RangeState
      /\ \A n \in 1 .. N : w[n] \in Nat /\ w[n] <= d
      /\ \A n \in 1 .. N : Sums(w)[n] = Sums(w)[n - 1] + w[n] /\ F[n] = Put(F[n - 1], w[n], d)
      /\ Sums(w)[0] = 0 /\ F[0].cnt = 0 /\ F[0].sum = 0
  BY SumsDef, FilledDef
<1> HIDE DEF N, F
<1>2. 0 \in T
  BY <1>1
<1>3. ASSUME NEW n \in 0 .. N - 1, n \in T PROVE n + 1 \in T
  <2> DEFINE x == w[n + 1]
  <2>0. \A a \in Nat : a * d \in Nat /\ (a + 1) * d = a * d + d
    OBVIOUS
  <2>1. n + 1 \in 1 .. N /\ n \in 0 .. N /\ n + 1 - 1 = n
    BY <1>1
  <2>2. /\ Sums(w)[n] \in Nat /\ F[n] \in RangeState
        /\ F[n].cnt \in Nat /\ F[n].sum \in Nat /\ x \in Nat /\ x <= d
        /\ Sums(w)[n + 1] = Sums(w)[n] + x /\ F[n + 1] = Put(F[n], x, d)
    BY <1>1, <2>1 DEF RangeState
  <2> HIDE DEF x
  <2>3. Ok(n)
    BY <1>3
  <2>4. CASE F[n].sum + x <= d
    <3>1. F[n + 1].cnt = F[n].cnt /\ F[n + 1].sum = F[n].sum + x
      BY <2>2, <2>4 DEF Put, RangeState
    <3> DEFINE p == F[n].cnt * d
               q == F[n + 1].cnt * d
    <3>2. p \in Nat /\ q = p
      BY <2>0, <2>2, <3>1
    <3>3. Sums(w)[n] <= p + F[n].sum
      BY <2>3
    <3> HIDE DEF p, q
    <3>4. Sums(w)[n + 1] <= q + F[n + 1].sum /\ F[n + 1].sum <= d
      BY <2>2, <2>4, <3>1, <3>2, <3>3
    <3>5. QED
      BY <2>1, <3>4 DEF q, Ok, T
  <2>5. CASE F[n].sum + x > d
    <3>1. F[n + 1].cnt = F[n].cnt + 1 /\ F[n + 1].sum = x
      BY <2>2, <2>5 DEF Put, RangeState
    <3> DEFINE p == F[n].cnt * d
               q == F[n + 1].cnt * d
    <3>2. p \in Nat /\ q = p + d
      BY <2>0, <2>2, <3>1
    <3>3. Sums(w)[n] <= p + F[n].sum /\ F[n].sum <= d
      BY <2>3
    <3> HIDE DEF p, q, Ok, T
    <3>4. Sums(w)[n + 1] <= q + F[n + 1].sum /\ F[n + 1].sum <= d
      BY <2>2, <3>1, <3>2, <3>3
    <3>5. QED
      BY <2>1, <3>4 DEF q, Ok, T
  <2>6. QED
    BY <2>2, <2>4, <2>5
<1>4. 0 .. N \subseteq T
  <2> HIDE DEF T
  <2>1. QED
    BY <1>1, <1>2, <1>3, UpTo
<1>5. QED
  BY <1>4 DEF N, F

\* With room for the whole list in one range, nothing is cut.
LEMMA WholeListFits ==
  ASSUME NEW w \in Seq(Nat), NEW d \in Nat, Sum(w) <= d
  PROVE  Filled(w, d)[Len(w)].cnt = 0
<1> DEFINE N == Len(w)
           F == Filled(w, d)
           T == {n \in 0 .. N : F[n].cnt = 0 /\ F[n].sum = Sums(w)[n]}
<1>1. /\ N \in Nat
      /\ \A n \in 0 .. N : Sums(w)[n] \in Nat /\ F[n] \in RangeState
      /\ \A n \in 1 .. N : w[n] \in Nat
      /\ \A n \in 1 .. N : Sums(w)[n] = Sums(w)[n - 1] + w[n] /\ F[n] = Put(F[n - 1], w[n], d)
      /\ Sums(w)[0] = 0 /\ F[0].cnt = 0 /\ F[0].sum = 0
  BY SumsDef, FilledDef
<1>2. ASSUME NEW n \in 0 .. N PROVE Sums(w)[n] <= d
  <2>1. N \in n .. N
    BY <1>1
  <2>2. Sums(w)[n] <= Sums(w)[N] /\ Sums(w)[N] <= d
    BY <2>1, SumsGrow DEF Sum
  <2>3. Sums(w)[n] \in Nat /\ Sums(w)[N] \in Nat
    BY <1>1
  <2> HIDE DEF N
  <2>4. QED
    BY <2>2, <2>3
<1> HIDE DEF N, F
<1>3. 0 \in T
  BY <1>1
<1>4. ASSUME NEW n \in 0 .. N - 1, n \in T PROVE n + 1 \in T
  <2>1. n + 1 \in 1 .. N /\ n \in 0 .. N /\ n + 1 \in 0 .. N
    BY <1>1
  <2>2. /\ F[n] \in RangeState /\ w[n + 1] \in Nat
        /\ F[n].cnt = 0 /\ F[n].sum = Sums(w)[n]
        /\ Sums(w)[n + 1] = Sums(w)[n] + w[n + 1] /\ F[n + 1] = Put(F[n], w[n + 1], d)
    BY <1>1, <1>4, <2>1
  <2>3. Sums(w)[n + 1] <= d
    BY <1>2, <2>1
  <2>4. QED
    BY <2>1, <2>2, <2>3 DEF Put, RangeState
<1>5. 0 .. N \subseteq T
  <2> HIDE DEF T
  <2>1. QED
    BY <1>1, <1>3, <1>4, UpTo
<1>6. QED
  BY <1>1, <1>5 DEF N, F

\* Where the range of song k begins.
LEMMA BeginDef ==
  ASSUME NEW N \in Nat, NEW c \in SUBSET (1 .. N), NEW k \in 1 .. N
  PROVE  /\ Begin(c, k) \in c \cup {0} /\ Begin(c, k) \in 0 .. k - 1
         /\ \A y \in c : y <= Begin(c, k) \/ y >= k
<1> DEFINE T == {m \in Nat : \E x \in c \cup {0} : x < k /\ m = k - x}
<1>1. k \in T
  OBVIOUS
<1>2. PICK m \in T : \A n \in T : m <= n
  <2> HIDE DEF T
  <2>1. T \in SUBSET Nat
    BY DEF T
  <2>2. QED
    BY <1>1, <2>1, SmallestOf
<1>3. PICK x \in c \cup {0} : x < k /\ m = k - x
  BY <1>2
<1>4. ASSUME NEW y \in c, y > x, y < k PROVE FALSE
  <2>1. k - y \in T
    BY <1>4
  <2>2. QED
    BY <1>2, <1>3, <1>4, <2>1
<1>5. x < k /\ \A y \in c : y <= x \/ y >= k
  BY <1>3, <1>4
<1>6. /\ Begin(c, k) \in c \cup {0} /\ Begin(c, k) < k
      /\ \A y \in c : y <= Begin(c, k) \/ y >= k
  BY <1>3, <1>5 DEF Begin
<1>7. Begin(c, k) \in Nat
  <2>1. c \cup {0} \subseteq Nat
    OBVIOUS
  <2>2. QED
    BY <1>6, <2>1
<1>8. QED
  BY <1>6, <1>7

LEMMA BeginNext ==
  ASSUME NEW N \in Nat, NEW c \in SUBSET (1 .. N), NEW k \in 1 .. N, k + 1 <= N
  PROVE  Begin(c, k + 1) = IF k \in c THEN k ELSE Begin(c, k)
<1>1. k + 1 \in 1 .. N
  OBVIOUS
<1> DEFINE a == Begin(c, k)
           b == Begin(c, k + 1)
<1>2. a \in c \cup {0} /\ a \in 0 .. k - 1 /\ \A y \in c : y <= a \/ y >= k
  BY BeginDef
<1>3. b \in c \cup {0} /\ b \in 0 .. k + 1 - 1 /\ \A y \in c : y <= b \/ y >= k + 1
  BY <1>1, BeginDef
<1> HIDE DEF a, b
<1>4. b = IF k \in c THEN k ELSE a
  BY <1>2, <1>3
<1>5. QED
  BY <1>4 DEF a, b

\* The ranges that end before song k.
Full(c, k) == Cardinality(c \cap (1 .. k - 1))

LEMMA FullNext ==
  ASSUME NEW N \in Nat, NEW c \in SUBSET (1 .. N), NEW k \in 1 .. N
  PROVE  /\ Full(c, k) \in Nat /\ Full(c, 1) = 0
         /\ Full(c, k + 1) = IF k \in c THEN Full(c, k) + 1 ELSE Full(c, k)
<1> DEFINE S == c \cap (1 .. k - 1)
<1>1. IsFiniteSet(S) /\ Cardinality(S) \in Nat
  <2>1. IsFiniteSet(1 .. k - 1)
    BY FS_Interval
  <2>2. IsFiniteSet(S)
    BY <2>1, FS_Subset
  <2>3. QED
    BY <2>2, FS_CardinalityType
<1>2. c \cap (1 .. 1 - 1) = {}
  OBVIOUS
<1>3. Full(c, 1) = 0
  BY <1>2, FS_EmptySet DEF Full
<1>4. c \cap (1 .. k + 1 - 1) = IF k \in c THEN S \cup {k} ELSE S
  OBVIOUS
<1>5. k \notin S
  OBVIOUS
<1> HIDE DEF S
<1>6. Cardinality(S \cup {k}) = Cardinality(S) + 1
  BY <1>1, <1>5, FS_AddElement
<1>7. Full(c, k + 1) = Cardinality(IF k \in c THEN S \cup {k} ELSE S)
  BY <1>4 DEF Full
<1>8. Full(c, k) = Cardinality(S)
  BY DEF Full, S
<1>9. QED
  BY <1>1, <1>3, <1>6, <1>7, <1>8

\* The weight of the range of song k, from its beginning to that song.
LEMMA WeightIs ==
  ASSUME weights \in Seq(Nat), NEW c \in SUBSET DOMAIN weights, NEW k \in 1 .. Len(weights)
  PROVE  /\ Begin(c, k) \in 0 .. k - 1
         /\ Weight(c, k) = Sums(weights)[k] - Sums(weights)[Begin(c, k)]
<1>1. Len(weights) \in Nat /\ c \in SUBSET (1 .. Len(weights))
  OBVIOUS
<1>2. Begin(c, k) \in 0 .. k - 1
  BY <1>1, BeginDef
<1>3. Begin(c, k) \in 0 .. k /\ k \in 0 .. Len(weights)
  BY <1>1, <1>2
<1>4. QED
  BY <1>2, <1>3, SumsOfPart DEF Weight

LEMMA WeightNext ==
  ASSUME weights \in Seq(Nat), NEW c \in SUBSET DOMAIN weights, NEW k \in 1 .. Len(weights)
  PROVE  /\ Weight(c, k) \in Nat
         /\ k = 1 => Weight(c, k) = weights[1]
         /\ k + 1 <= Len(weights) =>
              Weight(c, k + 1) = IF k \in c THEN weights[k + 1] ELSE Weight(c, k) + weights[k + 1]
<1> DEFINE N == Len(weights)
           P == Sums(weights)
<1>1. N \in Nat /\ c \in SUBSET (1 .. N) /\ N \in k .. N /\ k \in 1 .. N
  OBVIOUS
<1>2. /\ \A n \in 0 .. N : P[n] \in Nat
      /\ \A n \in 1 .. N : weights[n] \in Nat /\ P[n] = P[n - 1] + weights[n]
      /\ P[0] = 0
  <2>1. \A n \in 1 .. N : weights[n] \in Nat
    OBVIOUS
  <2>2. QED
    BY <2>1, SumsDef
<1>3. ASSUME NEW n \in 1 .. N
      PROVE  Begin(c, n) \in 0 .. n - 1 /\ Weight(c, n) = P[n] - P[Begin(c, n)]
  BY WeightIs
<1>4. Weight(c, k) \in Nat
  <2>1. Begin(c, k) \in 0 .. N /\ k \in Begin(c, k) .. N /\ k \in 0 .. N
    BY <1>1, <1>3
  <2>2. P[Begin(c, k)] <= P[k]
    BY <2>1, SumsGrow
  <2> HIDE DEF P, N
  <2>3. P[Begin(c, k)] \in Nat /\ P[k] \in Nat
    BY <1>2, <2>1
  <2>4. QED
    BY <1>1, <1>3, <2>2, <2>3
<1> HIDE DEF P, N
<1>5. ASSUME k = 1 PROVE Weight(c, k) = weights[1]
  BY <1>1, <1>2, <1>3, <1>5
<1>6. ASSUME k + 1 <= N
      PROVE  Weight(c, k + 1) = IF k \in c THEN weights[k + 1] ELSE Weight(c, k) + weights[k + 1]
  <2>1. k + 1 \in 1 .. N /\ k \in 1 .. N
    BY <1>6, <1>1 DEF N
  <2>2. Begin(c, k + 1) = IF k \in c THEN k ELSE Begin(c, k)
    BY <1>1, <1>6, <2>1, BeginNext
  <2>3. P[k + 1] = P[k] + weights[k + 1] /\ P[k] \in Nat /\ weights[k + 1] \in Nat
    BY <1>1, <1>2, <2>1
  <2>4. Weight(c, k + 1) = P[k + 1] - P[Begin(c, k + 1)]
    BY <1>3, <2>1
  <2>5. Weight(c, k) = P[k] - P[Begin(c, k)] /\ P[Begin(c, k)] \in Nat
    <3>1. Begin(c, k) \in 0 .. N
      BY <1>1, <1>3, <2>1
    <3>2. QED
      BY <1>2, <1>3, <2>1, <3>1
  <2>6. QED
    BY <2>2, <2>3, <2>4, <2>5
<1>7. QED
  BY <1>4, <1>5, <1>6 DEF N

\* A range that is not yet closed weighs no more than it will in the end.
LEMMA OpenRangeFits ==
  ASSUME weights \in Seq(Nat), NEW d \in Nat,
         NEW c \in SUBSET DOMAIN weights, Len(weights) \in c,
         \A e \in c : Weight(c, e) <= d, NEW n \in 1 .. Len(weights)
  PROVE  Weight(c, n) <= d
<1> DEFINE N == Len(weights)
<1>0. N \in Nat /\ n \in 1 .. N /\ c \in SUBSET (1 .. N) /\ N \in c
  OBVIOUS
<1> DEFINE U == {y \in c : n <= y}
           P == Sums(weights)
<1>1. U \in SUBSET Nat /\ N \in U
  BY <1>0
<1>2. PICK e \in U : \A y \in U : e <= y
  <2> HIDE DEF U
  <2>1. QED
    BY <1>1, SmallestOf
<1>3. e \in 1 .. N /\ e \in c /\ n <= e /\ \A y \in c : y < n \/ e <= y
  BY <1>0, <1>2
<1>4. Begin(c, e) = Begin(c, n)
  <2>1. /\ Begin(c, e) \in c \cup {0} /\ Begin(c, e) \in 0 .. e - 1
        /\ \A y \in c : y <= Begin(c, e) \/ y >= e
    BY <1>0, <1>3, BeginDef
  <2>2. /\ Begin(c, n) \in c \cup {0} /\ Begin(c, n) \in 0 .. n - 1
        /\ \A y \in c : y <= Begin(c, n) \/ y >= n
    BY <1>0, BeginDef
  <2>3. c \subseteq Nat \ {0} /\ n \in Nat /\ e \in Nat
    BY <1>0, <1>3
  <2> DEFINE a == Begin(c, e)
             b == Begin(c, n)
  <2>4. a \in Nat /\ b \in Nat /\ a < e /\ b < n
    BY <2>1, <2>2, <2>3
  <2>5. /\ a \in c => a <= b \/ (a >= n /\ e <= a)
        /\ b \in c => b <= a \/ b >= e
        /\ (a \in c \/ a = 0) /\ (b \in c \/ b = 0)
    BY <1>3, <2>1, <2>2, <2>3
  <2> HIDE DEF a, b
  <2>6. a = b
    BY <1>3, <2>3, <2>4, <2>5
  <2>7. QED
    BY <2>6 DEF a, b
<1>5. /\ Weight(c, e) = P[e] - P[Begin(c, e)] /\ Weight(c, n) = P[n] - P[Begin(c, n)]
      /\ Begin(c, n) \in 0 .. N
  BY <1>3, WeightIs
<1>6. P[n] <= P[e]
  <2>1. n \in 0 .. N /\ e \in n .. N
    BY <1>0, <1>3
  <2>2. QED
    BY <2>1, SumsGrow
<1>7. P[e] \in Nat /\ P[n] \in Nat /\ P[Begin(c, n)] \in Nat
  <2>1. P \in [0 .. N -> Nat]
    BY SumsDef
  <2>2. e \in 0 .. N /\ n \in 0 .. N
    BY <1>0, <1>3
  <2> HIDE DEF P, N
  <2>3. QED
    BY <1>5, <2>1, <2>2
<1>8. Weight(c, e) <= d
  BY <1>3
<1> HIDE DEF P, N
<1>9. QED
  BY <1>4, <1>5, <1>6, <1>7, <1>8

\* No way to cut the list fills fewer ranges than check counts, and of those with
\* as few, none leaves more room in the last one.
LEMMA GreedyIsBest ==
  ASSUME weights \in Seq(Nat), weights # <<>>, NEW d \in Nat,
         NEW c \in SUBSET DOMAIN weights, Len(weights) \in c,
         \A e \in c : Weight(c, e) <= d
  PROVE  cnt(d) < Cardinality(c)
<1> DEFINE N == Len(weights)
           F == Filled(weights, d)
           Ok(n) == \/ F[n].cnt < Full(c, n)
                    \/ F[n].cnt = Full(c, n) /\ F[n].sum <= Weight(c, n)
           T == {n \in 0 .. N : n = 0 \/ Ok(n)}
<1>1. /\ N \in Nat /\ 1 \in 1 .. N /\ N \in 1 .. N
      /\ c \in SUBSET (1 .. N) /\ N \in c
      /\ \A n \in 1 .. N : weights[n] \in Nat
  OBVIOUS
<1>2. /\ \A n \in 0 .. N : F[n] \in RangeState /\ F[n].cnt \in Nat /\ F[n].sum \in Nat
      /\ \A n \in 1 .. N : F[n] = Put(F[n - 1], weights[n], d)
      /\ F[0].cnt = 0 /\ F[0].sum = 0
  <2>1. \A n \in 0 .. N : F[n] \in RangeState
    BY FilledDef
  <2>2. QED
    BY <2>1, FilledDef DEF RangeState
<1>3. \A n \in 1 .. N :
        /\ Weight(c, n) \in Nat /\ (n = 1 => Weight(c, n) = weights[1])
        /\ n + 1 <= N =>
             Weight(c, n + 1) = IF n \in c THEN weights[n + 1] ELSE Weight(c, n) + weights[n + 1]
  BY WeightNext
<1>4. \A n \in 1 .. N :
        /\ Full(c, n) \in Nat /\ Full(c, 1) = 0
        /\ Full(c, n + 1) = IF n \in c THEN Full(c, n) + 1 ELSE Full(c, n)
  BY <1>1, FullNext
<1>5. \A n \in 1 .. N : Weight(c, n) <= d
  BY OpenRangeFits
<1> HIDE DEF N, F
<1>6. 0 \in T
  BY <1>1
<1>7. ASSUME NEW n \in 0 .. N - 1, n \in T PROVE n + 1 \in T
  <2> DEFINE x == weights[n + 1]
  <2>1. /\ n + 1 \in 1 .. N /\ n \in 0 .. N /\ x \in Nat /\ n \in Nat
        /\ F[n] \in RangeState /\ F[n].cnt \in Nat /\ F[n].sum \in Nat
        /\ F[n + 1] = Put(F[n], x, d)
        /\ Weight(c, n + 1) \in Nat /\ Weight(c, n + 1) <= d
    BY <1>1, <1>2, <1>3, <1>5
  <2>2. CASE n = 0
    <3>1. /\ F[n].cnt = 0 /\ F[n].sum = 0
          /\ Full(c, n + 1) = 0 /\ Weight(c, n + 1) = x
      BY <1>1, <1>2, <1>3, <1>4, <2>2
    <3>2. F[n + 1].cnt = 0 /\ F[n + 1].sum = x
      BY <2>1, <3>1 DEF Put, RangeState
    <3>3. QED
      BY <2>1, <3>1, <3>2
  <2>3. CASE n # 0
    <3>1. n \in 1 .. N /\ n + 1 <= N
      BY <2>1, <2>3, <1>1
    <3>2. /\ Weight(c, n) \in Nat /\ Full(c, n) \in Nat
          /\ Weight(c, n + 1) = IF n \in c THEN x ELSE Weight(c, n) + x
          /\ Full(c, n + 1) = IF n \in c THEN Full(c, n) + 1 ELSE Full(c, n)
      BY <1>3, <1>4, <3>1
    <3>3. Ok(n)
      BY <1>7, <2>3
    <3> HIDE DEF x
    <3>4. \/ F[n + 1].cnt = F[n].cnt /\ F[n + 1].sum = F[n].sum + x /\ F[n].sum + x <= d
          \/ F[n + 1].cnt = F[n].cnt + 1 /\ F[n + 1].sum = x /\ F[n].sum + x > d
      BY <2>1 DEF Put, RangeState
    <3>5. Ok(n + 1)
      <4>1. CASE n \in c
        <5>1. Full(c, n + 1) = Full(c, n) + 1 /\ Weight(c, n + 1) = x
          BY <3>2, <4>1
        <5>2. Full(c, n) \in Nat /\ F[n].cnt \in Nat /\ F[n].cnt <= Full(c, n) /\ x \in Nat
          BY <2>1, <3>2, <3>3
        <5>3. CASE F[n + 1].cnt = F[n].cnt
          BY <5>1, <5>2, <5>3
        <5>4. CASE F[n + 1].cnt = F[n].cnt + 1 /\ F[n + 1].sum = x
          BY <5>1, <5>2, <5>4
        <5>5. QED
          BY <3>4, <5>3, <5>4
      <4>2. CASE n \notin c
        <5>1. Full(c, n + 1) = Full(c, n) /\ Weight(c, n + 1) = Weight(c, n) + x
          BY <3>2, <4>2
        <5>2. CASE F[n].cnt < Full(c, n)
          <6>1. Weight(c, n) \in Nat /\ Full(c, n) \in Nat /\ F[n].cnt \in Nat /\ x \in Nat
            BY <2>1, <3>2
          <6>2. F[n + 1].cnt < Full(c, n) \/ (F[n + 1].cnt = Full(c, n) /\ F[n + 1].sum = x)
            <7>1. F[n].cnt + 1 <= Full(c, n)
              BY <5>2, <6>1
            <7>2. CASE F[n + 1].cnt = F[n].cnt
              BY <5>2, <6>1, <7>2
            <7>3. CASE F[n + 1].cnt = F[n].cnt + 1 /\ F[n + 1].sum = x
              BY <6>1, <7>1, <7>3
            <7>4. QED
              BY <3>4, <7>2, <7>3
          <6>3. QED
            BY <5>1, <6>1, <6>2
        <5>3. CASE F[n].cnt = Full(c, n) /\ F[n].sum <= Weight(c, n)
          <6>1. F[n].sum + x <= d
            BY <2>1, <3>2, <5>1, <5>3
          <6>2. F[n + 1].cnt = F[n].cnt /\ F[n + 1].sum = F[n].sum + x
            BY <2>1, <3>4, <6>1
          <6>3. QED
            BY <2>1, <3>2, <5>1, <5>3, <6>2
        <5>4. QED
          BY <3>3, <5>2, <5>3
      <4>3. QED
        BY <4>1, <4>2
    <3>6. QED
      BY <2>1, <3>5
  <2>4. QED
    BY <2>2, <2>3
<1>8. 0 .. N \subseteq T
  <2> HIDE DEF T
  <2>1. QED
    BY <1>1, <1>6, <1>7, UpTo
<1>9. F[N].cnt <= Full(c, N) /\ Full(c, N + 1) = Full(c, N) + 1
  <2>1. N \in T /\ N # 0 /\ N \in 0 .. N
    BY <1>1, <1>8
  <2>2. Ok(N)
    BY <2>1
  <2>3. F[N].cnt \in Nat /\ Full(c, N) \in Nat
    BY <1>1, <1>2, <1>4, <2>1
  <2>4. QED
    BY <1>1, <1>4, <2>2, <2>3
<1>10. Full(c, N + 1) = Cardinality(c)
  <2>1. N + 1 - 1 = N
    BY <1>1
  <2>2. QED
    <3>1. c \cap (1 .. ((N + 1) - 1)) = c
      BY <1>1, <2>1
    <3>2. Full(c, N + 1) = Cardinality(c \cap (1 .. ((N + 1) - 1)))
      BY DEF Full
    <3>3. QED
      BY <3>1, <3>2
<1>11. QED
  BY <1>1, <1>2, <1>4, <1>9, <1>10 DEF cnt, F, N

\* With a bound no song exceeds, cutting where check counts is a way to cut the
\* list.
LEMMA GreedyCuts ==
  ASSUME weights \in Seq(Nat), weights # <<>>, NEW d \in Nat,
         \A j \in 1 .. Len(weights) : weights[j] <= d
  PROVE  \E c \in Cuts : /\ Cardinality(c) = cnt(d) + 1
                        /\ \A e \in c : Weight(c, e) <= d
<1> DEFINE N == Len(weights)
           F == Filled(weights, d)
           c == {n \in 1 .. N : n = N \/ F[n + 1].cnt # F[n].cnt}
           Ok(n) == F[n].cnt = Full(c, n) /\ F[n].sum = Weight(c, n)
           T == {n \in 0 .. N : n = 0 \/ Ok(n)}
<1>1. /\ N \in Nat /\ 1 \in 1 .. N /\ N \in 1 .. N
      /\ c \in SUBSET (1 .. N) /\ N \in c
      /\ \A n \in 1 .. N : weights[n] \in Nat /\ weights[n] <= d
  OBVIOUS
<1>2. /\ \A n \in 0 .. N : F[n] \in RangeState /\ F[n].cnt \in Nat /\ F[n].sum \in Nat
      /\ \A n \in 1 .. N : F[n] = Put(F[n - 1], weights[n], d)
      /\ F[0].cnt = 0 /\ F[0].sum = 0
  <2>1. \A n \in 0 .. N : F[n] \in RangeState
    BY FilledDef
  <2>2. QED
    BY <2>1, FilledDef DEF RangeState
<1>3. \A n \in 1 .. N - 1 : n \in c <=> F[n + 1].cnt # F[n].cnt
  BY <1>1
<1>4. \A n \in 1 .. N : F[n].sum <= d
  <2>1. \A n \in 0 .. N : F[n].sum <= d
    BY <1>1, FilledWithinBound
  <2>2. QED
    BY <2>1
<1> HIDE DEF c
<1>4a. c \in SUBSET DOMAIN weights
  BY <1>1
<1>5. \A n \in 1 .. N :
        /\ Weight(c, n) \in Nat /\ (n = 1 => Weight(c, n) = weights[1])
        /\ n + 1 <= N =>
             Weight(c, n + 1) = IF n \in c THEN weights[n + 1] ELSE Weight(c, n) + weights[n + 1]
  BY <1>4a, WeightNext
<1>6. \A n \in 1 .. N :
        /\ Full(c, n) \in Nat /\ Full(c, 1) = 0
        /\ Full(c, n + 1) = IF n \in c THEN Full(c, n) + 1 ELSE Full(c, n)
  BY <1>1, FullNext
<1> HIDE DEF N, F
<1>7. 0 \in T
  BY <1>1
<1>8. ASSUME NEW n \in 0 .. N - 1, n \in T PROVE n + 1 \in T
  <2> DEFINE x == weights[n + 1]
  <2>1. /\ n + 1 \in 1 .. N /\ n \in 0 .. N /\ x \in Nat /\ x <= d /\ n \in Nat
        /\ F[n] \in RangeState /\ F[n].cnt \in Nat /\ F[n].sum \in Nat
        /\ F[n + 1] = Put(F[n], x, d)
    BY <1>1, <1>2
  <2>2. CASE n = 0
    <3>1. /\ F[n].cnt = 0 /\ F[n].sum = 0
          /\ Full(c, n + 1) = 0 /\ Weight(c, n + 1) = x
      BY <1>1, <1>2, <1>5, <1>6, <2>2
    <3>2. F[n + 1].cnt = 0 /\ F[n + 1].sum = x
      BY <2>1, <3>1 DEF Put, RangeState
    <3>3. QED
      BY <2>1, <3>1, <3>2
  <2>3. CASE n # 0
    <3>1. n \in 1 .. N - 1 /\ n \in 1 .. N /\ n + 1 <= N
      BY <2>1, <2>3, <1>1
    <3>2. /\ Weight(c, n + 1) = IF n \in c THEN x ELSE Weight(c, n) + x
          /\ Full(c, n + 1) = IF n \in c THEN Full(c, n) + 1 ELSE Full(c, n)
          /\ n \in c <=> F[n + 1].cnt # F[n].cnt
      BY <1>3, <1>5, <1>6, <3>1
    <3>3. Ok(n)
      BY <1>8, <2>3
    <3> HIDE DEF x
    <3>4. \/ F[n + 1].cnt = F[n].cnt /\ F[n + 1].sum = F[n].sum + x
          \/ F[n + 1].cnt = F[n].cnt + 1 /\ F[n + 1].sum = x
      BY <2>1 DEF Put, RangeState
    <3>5. CASE F[n + 1].cnt = F[n].cnt /\ F[n + 1].sum = F[n].sum + x
      BY <2>1, <3>2, <3>3, <3>5
    <3>6. CASE F[n + 1].cnt = F[n].cnt + 1 /\ F[n + 1].sum = x
      <4>1. n \in c
        BY <2>1, <3>2, <3>6
      <4>2. QED
        BY <2>1, <3>2, <3>3, <3>6, <4>1
    <3>7. QED
      BY <3>4, <3>5, <3>6
  <2>4. QED
    BY <2>2, <2>3
<1>9. \A n \in 1 .. N : Ok(n)
  <2>1. 0 .. N \subseteq T
    <3> HIDE DEF T
    <3>1. QED
      BY <1>1, <1>7, <1>8, UpTo
  <2>2. QED
    BY <1>1, <2>1
<1>10. Cardinality(c) = F[N].cnt + 1
  <2>0. (N + 1) - 1 = N
    BY <1>1
  <2>1. c \cap (1 .. ((N + 1) - 1)) = c
    BY <1>1, <2>0
  <2>2. Full(c, N + 1) = Cardinality(c)
    BY <2>1 DEF Full
  <2>3. QED
    BY <1>1, <1>6, <1>9, <2>2
<1>11. c \in Cuts
  BY <1>1 DEF Cuts, N
<1>12. \A e \in c : Weight(c, e) <= d
  BY <1>1, <1>4, <1>9
<1>13. QED
  BY <1>10, <1>11, <1>12 DEF cnt, F, N

\* What check answers: whether the list can be cut into the wanted number of
\* ranges at all.
LEMMA CheckIsPossible ==
  ASSUME weights \in Seq(Nat), weights # <<>>, count \in Nat, NEW d \in Nat
  PROVE  Possible(d) <=> check(d) /\ \A j \in 1 .. Len(weights) : weights[j] <= d
<1> DEFINE Small == \A j \in 1 .. Len(weights) : weights[j] <= d
<1>0. cnt(d) \in Nat
  <2>1. Len(weights) \in 0 .. Len(weights)
    OBVIOUS
  <2>2. QED
    BY <2>1, FilledDef DEF cnt, RangeState
<1>1. ASSUME Possible(d) PROVE check(d) /\ Small
  <2>1. PICK c \in Cuts : Cardinality(c) <= count /\ \A e \in c : Weight(c, e) <= d
    BY <1>1 DEF Possible
  <2>2. c \in SUBSET DOMAIN weights /\ Len(weights) \in c
    BY DEF Cuts
  <2>3. cnt(d) < Cardinality(c)
    BY <2>1, <2>2, GreedyIsBest
  <2>4. Cardinality(c) \in Nat
    <3>1. c \in SUBSET (1 .. Len(weights)) /\ Len(weights) \in Int
      BY <2>2
    <3>2. IsFiniteSet(1 .. Len(weights))
      BY <3>1, FS_Interval
    <3>3. QED
      BY <3>1, <3>2, FS_Subset, FS_CardinalityType
  <2>5. ASSUME NEW j \in 1 .. Len(weights) PROVE weights[j] <= d
    <3>1. Weight(c, j) <= d
      BY <2>1, <2>2, OpenRangeFits
    <3>2. Weight(c, j) \in Nat /\ weights[j] \in Nat
      BY <2>2, WeightNext
    <3>3. weights[j] <= Weight(c, j)
      <4>1. CASE j = 1
        BY <2>2, <4>1, <3>2, WeightNext
      <4>2. CASE j # 1
        <5>1. j - 1 \in 1 .. Len(weights) /\ (j - 1) + 1 = j /\ (j - 1) + 1 <= Len(weights)
          BY <4>2
        <5>2. /\ Weight(c, j - 1) \in Nat
              /\ Weight(c, j) = IF j - 1 \in c THEN weights[j] ELSE Weight(c, j - 1) + weights[j]
          BY <2>2, <5>1, WeightNext
        <5>3. QED
          BY <3>2, <5>2
      <4>3. QED
        BY <4>1, <4>2
    <3>4. QED
      BY <3>1, <3>2, <3>3
  <2>6. QED
    BY <1>0, <2>1, <2>3, <2>4, <2>5 DEF check
<1>2. ASSUME check(d), Small PROVE Possible(d)
  <2>1. PICK c \in Cuts : /\ Cardinality(c) = cnt(d) + 1
                          /\ \A e \in c : Weight(c, e) <= d
    BY <1>2, GreedyCuts
  <2>2. Cardinality(c) <= count
    BY <1>0, <1>2, <2>1 DEF check
  <2>3. QED
    BY <2>1, <2>2 DEF Possible
<1>3. QED
  BY <1>1, <1>2
----------------------------------------------------------------------------
(* The function *)

BoundInv ==
  /\ weights \in Seq(Nat) /\ weights # <<>>
  /\ l \in Nat /\ r \in Nat
  /\ \A j \in 1 .. Len(weights) : weights[j] <= l

\* Where the last range ended.
End == IF out = <<>> THEN 0 ELSE out[Len(out)].end

LoopInv ==
  /\ phase \in {"search", "split", "done"}
  /\ i \in 0 .. Len(weights) /\ last \in 0 .. Len(weights) /\ tot \in Int
  /\ IF i = 0 THEN tot = 0 /\ last = 0 ELSE last < i
  /\ phase = "search" => i = 0 /\ out = <<>>
  /\ phase # "done" => last = End

Place == 0 .. Len(weights)

PartInv ==
  /\ out \in Seq([start : Place, end : Place])
  /\ RangesPartition

\* Everything above the interval that is searched passes check, everything below
\* it does not or is too little for some song.
SearchInv ==
  /\ weights \in Lists /\ count \in Nat \ {0}
  /\ l <= MaxUsize /\ r <= MaxUsize
  /\ IF phase = "search" THEN l <= r + 1 /\ check(r + 1) ELSE check(l)
  /\ Largest(l) \/ (l > 0 /\ ~check(l - 1))

\* The cutting loop takes the bound off for every range, so that what it carries
\* is what the songs weigh beyond them.
CutInv ==
  /\ tot \in 0 .. l
  /\ phase = "split" => /\ Len(out) * l + tot = Sums(weights)[i]
                        /\ out # <<>> => tot > 0
  /\ AtMostCount

Inv == BoundInv /\ LoopInv /\ PartInv
IInv == Inv /\ SearchInv /\ CutInv

LEMMA OneLessType == ASSUME NEW x \in Nat PROVE OneLess(x) \in Nat
  BY ConstantsAssumption DEF OneLess

LEMMA MidType ==
  ASSUME l \in Nat, r \in Nat, l <= r
  PROVE  mid \in Nat /\ l <= mid
  BY DEF mid

\* A range that begins where the last one ended extends the partition.
LEMMA AppendPart ==
  ASSUME PartInv, Len(weights) \in Nat, NEW a \in Place, NEW b \in Place, a = End, a < b,
         out' = Append(out, Piece(a, b))
  PROVE  /\ out' \in Seq([start : Place, end : Place]) /\ out' # <<>>
         /\ \A k \in DOMAIN out' : out'[k].start = Before(k)' /\ out'[k].start < out'[k].end
         /\ End' = b /\ out'[Len(out')].end = b
<1> DEFINE R == [start : Place, end : Place]
<1>1. out \in Seq(R) /\ Piece(a, b) \in R
  BY DEF PartInv, Piece
<1>2. /\ out' \in Seq(R) /\ Len(out') = Len(out) + 1 /\ out' # <<>>
      /\ out'[Len(out) + 1] = Piece(a, b)
      /\ \A k \in 1 .. Len(out) : out'[k] = out[k]
      /\ DOMAIN out = 1 .. Len(out) /\ DOMAIN out' = 1 .. Len(out) + 1
      /\ Len(out) \in Nat
  BY <1>1
<1>3. ASSUME NEW k \in 1 .. Len(out)
      PROVE  out'[k].start = Before(k)' /\ out'[k].start < out'[k].end
  <2>1. out[k].start = Before(k) /\ out[k].start < out[k].end
    BY <1>2 DEF PartInv, RangesPartition
  <2>2. Before(k)' = Before(k)
    BY <1>2 DEF Before
  <2>3. QED
    BY <1>2, <2>1, <2>2
<1>4. ASSUME NEW k \in Nat, k = Len(out) + 1 PROVE out'[k].start = Before(k)'
  <2>1. CASE out = <<>>
    BY <1>2, <1>4, <2>1 DEF Before, End, Piece
  <2>2. CASE out # <<>>
    <3>1. Len(out) \in 1 .. Len(out)
      BY <1>1, <2>2
    <3>2. QED
      BY <1>2, <1>4, <2>2, <3>1 DEF Before, End, Piece
  <2>3. QED
    BY <2>1, <2>2
<1>5. End' = b /\ out'[Len(out')].end = b
  BY <1>2 DEF End, Piece
<1>6. out'[Len(out) + 1].start < out'[Len(out) + 1].end
  BY <1>2 DEF Piece
<1>7. QED
  BY <1>2, <1>3, <1>4, <1>5, <1>6

LEMMA InvInit == Init => Inv
<1> SUFFICES ASSUME Init PROVE Inv
  OBVIOUS
<1>1. PICK n \in 1 .. MaxSongs : weights \in [1 .. n -> 0 .. MaxWeight]
  BY DEF Init, Lists
<1>2. weights \in Seq(Nat) /\ Len(weights) = n /\ DOMAIN weights = 1 .. n
  BY <1>1, ConstantsAssumption
<1>3. Sum(weights) \in Nat
  BY ConstantsAssumption DEF Init, Lists
<1>4. BoundInv
  BY <1>1, <1>2, <1>3, ConstantsAssumption DEF BoundInv, Init, Largest
<1>5. LoopInv
  BY <1>2 DEF LoopInv, Init, End
<1>6. PartInv
  BY DEF PartInv, RangesPartition, Init
<1>7. QED
  BY <1>4, <1>5, <1>6 DEF Inv

LEMMA InvNext == Inv /\ [Next]_vars => Inv'
<1> SUFFICES ASSUME Inv, [Next]_vars PROVE Inv'
  OBVIOUS
<1> USE DEF Inv
<1>1. ASSUME Search PROVE Inv'
  <2>1. l' \in Nat /\ r' \in Nat /\ l <= l'
    <3>1. mid \in Nat /\ l <= mid
      BY <1>1, MidType DEF Search, BoundInv
    <3>2. CASE Higher
      BY <3>1, <3>2 DEF Higher, BoundInv
    <3>3. CASE Lower
      BY <3>1, <3>3, OneLessType DEF Lower, BoundInv
    <3>4. QED
      BY <1>1, <3>2, <3>3 DEF Search
  <2>2. BoundInv'
    BY <1>1, <2>1 DEF Search, args, BoundInv
  <2>3. LoopInv' /\ PartInv'
    BY <1>1 DEF Search, args, LoopInv, End, PartInv, Place, RangesPartition, Before
  <2>4. QED
    BY <2>2, <2>3
<1>2. ASSUME Found PROVE Inv'
  <2>1. BoundInv' /\ LoopInv'
    BY <1>2 DEF Found, args, BoundInv, LoopInv, End
  <2>2. PartInv'
    BY <1>2 DEF Found, args, PartInv, Place, RangesPartition, Before
  <2>3. QED
    BY <2>1, <2>2
<1>3. ASSUME Split PROVE Inv'
  <2>1. BoundInv'
    BY <1>3 DEF Split, args, BoundInv
  <2>2. i \in Nat /\ i + 1 \in 1 .. Len(weights) /\ this \in Nat /\ this <= l /\ l \in Nat
    BY <1>3 DEF Split, LoopInv, BoundInv, this
  <2>3. CASE Keep
    <3>1. LoopInv'
      BY <1>3, <2>2, <2>3 DEF Split, Keep, args, LoopInv, End
    <3>2. PartInv'
      BY <1>3, <2>3 DEF Split, Keep, args, PartInv, Place, RangesPartition, Before
    <3>3. QED
      BY <2>1, <3>1, <3>2
  <2>4. CASE Cut
    <3>1. last \in Place /\ i \in Place /\ Len(weights) \in Nat /\ last = End /\ last < i
      <4>1. tot + this > l /\ i \in 0 .. Len(weights) /\ Len(weights) \in Nat
        BY <1>3, <2>4 DEF Split, Cut, LoopInv, BoundInv
      <4>2. i # 0
        BY <2>2, <4>1 DEF LoopInv
      <4>3. QED
        BY <1>3, <4>1, <4>2 DEF Split, LoopInv, Place
    <3>2. /\ out' \in Seq([start : Place, end : Place])
          /\ \A k \in DOMAIN out' : out'[k].start = Before(k)' /\ out'[k].start < out'[k].end
          /\ End' = i
      BY <2>4, <3>1, AppendPart DEF Cut
    <3>3. LoopInv'
      BY <1>3, <2>2, <2>4, <3>2 DEF Split, Cut, args, LoopInv
    <3>4. PartInv'
      BY <1>3, <3>2 DEF Split, args, PartInv, Place, RangesPartition
    <3>5. QED
      BY <2>1, <3>3, <3>4
  <2>5. QED
    BY <1>3, <2>3, <2>4 DEF Split
<1>4. ASSUME Finish PROVE Inv'
  <2>1. BoundInv'
    BY <1>4 DEF Finish, args, BoundInv
  <2>2. Len(weights) \in Nat /\ Len(weights) > 0 /\ i = Len(weights)
    BY <1>4 DEF Finish, BoundInv
  <2>3. /\ last \in Place /\ Len(weights) \in Place
        /\ last = End /\ last < Len(weights)
    BY <1>4, <2>2 DEF Finish, LoopInv, Place
  <2>4. out' = Append(out, Piece(last, Len(weights)))
    BY <1>4, <2>3 DEF Finish
  <2>5. /\ out' \in Seq([start : Place, end : Place]) /\ out' # <<>>
        /\ \A k \in DOMAIN out' : out'[k].start = Before(k)' /\ out'[k].start < out'[k].end
        /\ out'[Len(out')].end = Len(weights)
    BY <2>2, <2>3, <2>4, AppendPart
  <2>6. PartInv'
    BY <1>4, <2>5 DEF Finish, args, PartInv, Place, RangesPartition
  <2>7. LoopInv'
    BY <1>4, <2>2, <2>3 DEF Finish, args, LoopInv
  <2>8. QED
    BY <2>1, <2>6, <2>7
<1>5. ASSUME UNCHANGED vars PROVE Inv'
  BY <1>5 DEF vars, args, BoundInv, LoopInv, End, PartInv, Place, RangesPartition, Before
<1>6. QED
  BY <1>1, <1>2, <1>3, <1>4, <1>5 DEF Next

----------------------------------------------------------------------------
(* The search *)

LEMMA RoomForAll ==
  ASSUME weights \in Seq(Nat), count \in Nat \ {0}, NEW d \in Nat, Sum(weights) <= d
  PROVE  check(d)
  BY WholeListFits DEF check, cnt

LEMMA SearchInit == Init => SearchInv
<1> SUFFICES ASSUME Init PROVE SearchInv
  OBVIOUS
<1>1. BoundInv
  BY InvInit DEF Inv
<1>2. weights \in Lists /\ Largest(l) /\ phase = "search" /\ r = Sum(weights)
  BY DEF Init
<1>3. count \in Nat \ {0}
  <2>1. PICK n \in 1 .. MaxAccounts : count = n * JobsPerAccount
    BY DEF Init
  <2>2. n \in Nat \ {0} /\ JobsPerAccount \in Nat \ {0}
    BY ConstantsAssumption
  <2>3. \A a, b \in Nat \ {0} : a * b \in Nat \ {0}
    OBVIOUS
  <2>4. QED
    BY <2>1, <2>2, <2>3
<1>4. r \in Nat /\ r <= MaxUsize
  BY <1>2, ConstantsAssumption DEF Lists
<1>5. check(r + 1)
  <2>1. r + 1 \in Nat /\ Sum(weights) <= r + 1
    BY <1>2, <1>4
  <2>2. QED
    BY <1>1, <1>3, <2>1, RoomForAll DEF BoundInv
<1>6. l <= r
  <2>1. PICK j \in DOMAIN weights : l = weights[j]
    BY <1>2 DEF Largest
  <2>2. j \in 1 .. Len(weights) /\ Len(weights) \in Nat /\ weights \in Seq(Nat)
    BY <1>1 DEF BoundInv
  <2> DEFINE P == Sums(weights)
             N == Len(weights)
  <2>3. P \in [0 .. N -> Nat] /\ P[j] = P[j - 1] + weights[j]
    BY <2>2, SumsDef
  <2>4. j - 1 \in 0 .. N /\ j \in 0 .. N /\ N \in j .. N /\ N \in 0 .. N
    BY <2>2
  <2>5. P[j] <= P[N]
    BY <2>2, <2>4, SumsGrow
  <2>6. r = P[N]
    BY <1>2 DEF Sum
  <2> HIDE DEF P, N
  <2>7. P[j - 1] \in Nat /\ P[j] \in Nat /\ P[N] \in Nat /\ weights[j] \in Nat
    BY <2>2, <2>3, <2>4
  <2>8. QED
    BY <2>1, <2>3, <2>5, <2>6, <2>7
<1>7. l \in Nat /\ l <= MaxUsize
  BY <1>1, <1>4, <1>6, ConstantsAssumption DEF BoundInv
<1>8. QED
  BY <1>2, <1>3, <1>4, <1>5, <1>6, <1>7 DEF SearchInv, BoundInv

LEMMA SearchNext == Inv /\ SearchInv /\ [Next]_vars => SearchInv'
<1> SUFFICES ASSUME Inv, SearchInv, [Next]_vars PROVE SearchInv'
  OBVIOUS
<1>1. /\ weights \in Seq(Nat) /\ l \in Nat /\ r \in Nat /\ count \in Nat \ {0}
      /\ MaxUsize \in Nat /\ l <= MaxUsize /\ r <= MaxUsize
  BY ConstantsAssumption DEF Inv, BoundInv, SearchInv
<1>2. ASSUME UNCHANGED args PROVE weights' = weights /\ count' = count
  BY <1>2 DEF args
<1>3. ASSUME Search PROVE SearchInv'
  <2>1. /\ weights' = weights /\ count' = count /\ phase = "search" /\ phase' = "search" /\ l <= r
    BY <1>3, <1>2 DEF Search, args
  <2>2. mid \in Nat /\ l <= mid /\ mid <= r
    BY <1>1, <2>1 DEF mid
  <2>3. CASE Higher
    <3>1. ~check(mid) /\ l' = mid + 1 /\ r' = r
      BY <2>3 DEF Higher
    <3>2. mid < Sum(weights) /\ Sum(weights) <= MaxUsize /\ Sum(weights) \in Nat
      <4>1. Sum(weights) \in 0 .. MaxUsize
        BY DEF SearchInv, Lists
      <4>2. QED
        BY <1>1, <2>2, <3>1, <4>1, RoomForAll
    <3>3. l' \in Nat /\ l' <= MaxUsize /\ l' <= r' + 1 /\ l' > 0
      BY <1>1, <2>2, <3>1, <3>2
    <3>4. ~check(l - 1)'
      <4>1. l' - 1 = mid
        BY <2>2, <3>1
      <4>2. QED
        BY <2>1, <3>1, <4>1 DEF check, cnt
    <3>5. check(r + 1)'
      BY <2>1, <3>1 DEF SearchInv, check, cnt
    <3>6. QED
      BY <1>1, <2>1, <3>1, <3>3, <3>4, <3>5 DEF SearchInv
  <2>4. CASE Lower
    <3>1. check(mid) /\ r' = OneLess(mid) /\ l' = l
      BY <2>4 DEF Lower
    <3>2. (Largest(l) \/ (l > 0 /\ ~check(l - 1)))'
      BY <2>1, <3>1 DEF SearchInv, Largest, check, cnt
    <3>3. CASE mid = 0
      <4>1. r' = MaxUsize
        BY <3>1, <3>3 DEF OneLess
      <4>2. Sum(weights) <= MaxUsize + 1 /\ MaxUsize + 1 \in Nat
        BY <1>1 DEF SearchInv, Lists
      <4>3. check(MaxUsize + 1)
        BY <1>1, <4>2, RoomForAll
      <4>4. check(r + 1)'
        BY <2>1, <4>1, <4>3 DEF check, cnt
      <4>5. QED
        BY <1>1, <2>1, <3>1, <3>2, <4>1, <4>4 DEF SearchInv
    <3>4. CASE mid # 0
      <4>1. r' = mid - 1 /\ r' + 1 = mid
        BY <2>2, <3>1, <3>4 DEF OneLess
      <4>2. check(r + 1)'
        BY <2>1, <3>1, <4>1 DEF check, cnt
      <4>3. l' <= r' + 1 /\ r' <= MaxUsize
        BY <1>1, <2>2, <3>1, <4>1
      <4>4. QED
        BY <1>1, <2>1, <3>1, <3>2, <4>2, <4>3 DEF SearchInv
    <3>5. QED
      BY <3>3, <3>4
  <2>5. QED
    BY <1>3, <2>3, <2>4 DEF Search
<1>4. ASSUME Found PROVE SearchInv'
  <2>1. /\ weights' = weights /\ count' = count /\ l' = l /\ r' = r
        /\ phase = "search" /\ phase' = "split" /\ l > r
    BY <1>4, <1>2 DEF Found, args
  <2>2. l = r + 1
    BY <1>1, <2>1 DEF SearchInv
  <2>3. check(l)
    BY <2>1, <2>2 DEF SearchInv
  <2>4. QED
    BY <2>1, <2>3 DEF SearchInv, Largest, check, cnt
<1>5. ASSUME Split \/ Finish PROVE SearchInv'
  <2>1. /\ weights' = weights /\ count' = count /\ l' = l /\ r' = r
        /\ phase = "split" /\ phase' # "search"
    BY <1>5, <1>2 DEF Split, Finish, args
  <2>2. QED
    BY <2>1 DEF SearchInv, Largest, check, cnt
<1>6. ASSUME UNCHANGED vars PROVE SearchInv'
  BY <1>6 DEF vars, args, SearchInv, Largest, check, cnt
<1>7. QED
  BY <1>3, <1>4, <1>5, <1>6 DEF Next

\* Whatever the search has found, the songs fit into the wanted number of ranges.
LEMMA CheckIsRoom ==
  ASSUME Inv, SearchInv, phase # "search"
  PROVE  Sums(weights)[Len(weights)] <= count * l
<1> DEFINE N == Len(weights)
           F == Filled(weights, l)
           k == F[N].cnt
<1>1. /\ weights \in Seq(Nat) /\ l \in Nat /\ count \in Nat /\ N \in 0 .. N
      /\ \A j \in 1 .. N : weights[j] <= l
  BY DEF Inv, BoundInv, SearchInv
<1>2. F[N].sum <= l /\ Sums(weights)[N] <= k * l + F[N].sum
  BY <1>1, FilledWithinBound
<1>3. k \in Nat /\ F[N].sum \in Nat /\ Sums(weights)[N] \in Nat
  <2>1. F \in [0 .. N -> RangeState] /\ Sums(weights) \in [0 .. N -> Nat]
    BY <1>1, FilledDef, SumsDef
  <2>2. F[N] \in RangeState /\ Sums(weights)[N] \in Nat
    BY <1>1, <2>1
  <2>3. QED
    BY <2>2 DEF RangeState
<1>4. k + 1 <= count
  <2>1. k < count
    BY DEF SearchInv, check, cnt
  <2>2. QED
    BY <1>1, <1>3, <2>1
<1> HIDE DEF k
<1>5. k * l + l <= count * l /\ k * l \in Nat /\ count * l \in Nat
  <2>1. PICK e \in Nat : count = (k + 1) + e
    <3>1. count - (k + 1) \in Nat
      BY <1>1, <1>3, <1>4
    <3>2. count = (k + 1) + (count - (k + 1))
      BY <1>1, <1>3
    <3>3. QED
      BY <3>1, <3>2
  <2>2. count * l = k * l + l + e * l
    BY <1>1, <1>3, <2>1
  <2>3. e * l \in Nat /\ k * l \in Nat
    BY <1>1, <1>3
  <2>4. QED
    BY <1>1, <2>2, <2>3
<1>6. QED
  BY <1>1, <1>2, <1>3, <1>5

----------------------------------------------------------------------------
(* The number of ranges *)

LEMMA FewerRanges ==
  ASSUME NEW a \in Nat, NEW b \in Nat, NEW d \in Nat, NEW t \in Nat,
         t > 0, a * d + t <= b * d
  PROVE  a < b
<1> SUFFICES ASSUME b <= a PROVE FALSE
  OBVIOUS
<1>1. PICK e \in Nat : a = b + e
  <2>1. a - b \in Nat /\ a = b + (a - b)
    OBVIOUS
  <2>2. QED
    BY <2>1
<1>2. a * d = b * d + e * d /\ e * d \in Nat /\ b * d \in Nat
  BY <1>1
<1>3. QED
  BY <1>2

LEMMA CutInit == Init => CutInv
<1> SUFFICES ASSUME Init PROVE CutInv
  OBVIOUS
<1>1. l \in Nat /\ count \in Nat \ {0}
  BY InvInit, SearchInit DEF Inv, BoundInv, SearchInv
<1>2. QED
  BY <1>1 DEF Init, CutInv, AtMostCount

LEMMA CutNext == Inv /\ SearchInv /\ CutInv /\ [Next]_vars => CutInv'
<1> SUFFICES ASSUME Inv, SearchInv, CutInv, [Next]_vars PROVE CutInv'
  OBVIOUS
<1> DEFINE N == Len(weights)
           P == Sums(weights)
           k == Len(out)
<1>1. /\ weights \in Seq(Nat) /\ N \in Nat /\ l \in Nat /\ count \in Nat \ {0} /\ k \in Nat
      /\ i \in 0 .. N /\ tot \in 0 .. l /\ k <= count
      /\ \A j \in 1 .. N : weights[j] \in Nat /\ weights[j] <= l
  BY DEF Inv, BoundInv, LoopInv, PartInv, SearchInv, CutInv, AtMostCount
<1>2. P \in [0 .. N -> Nat] /\ P[0] = 0 /\ \A j \in 1 .. N : P[j] = P[j - 1] + weights[j]
  BY <1>1, SumsDef
<1>3. ASSUME phase # "search", NEW j \in 0 .. N PROVE P[j] <= count * l /\ P[j] \in Nat
  <2>1. N \in j .. N /\ N \in 0 .. N
    BY <1>1
  <2>2. P[j] <= P[N] /\ P[N] <= count * l
    BY <1>1, <1>3, <2>1, SumsGrow, CheckIsRoom
  <2>3. \A a, b \in Nat : a * b \in Nat
    OBVIOUS
  <2>4. count * l \in Nat
    BY <1>1, <2>3
  <2>5. P[j] \in Nat /\ P[N] \in Nat
    BY <1>2, <2>1
  <2> HIDE DEF P, N
  <2>6. QED
    BY <2>2, <2>4, <2>5
<1>4. ASSUME phase = "split" PROVE k * l + tot = P[i] /\ (k > 0 => tot > 0)
  <2>1. k > 0 => out # <<>>
    OBVIOUS
  <2>2. QED
    BY <1>4, <2>1 DEF CutInv
<1>5. ASSUME Search PROVE CutInv'
  <2>1. i = 0 /\ tot = 0 /\ out = <<>> /\ phase' = "search"
    BY <1>5 DEF Search, Inv, LoopInv
  <2>2. l' \in Nat
    BY <1>5, InvNext DEF Next, Inv, BoundInv
  <2>3. tot' = 0 /\ out' = <<>> /\ count' = count
    BY <1>5, <2>1 DEF Search, args
  <2>4. QED
    BY <1>1, <2>1, <2>2, <2>3 DEF CutInv, AtMostCount
<1>6. ASSUME Found PROVE CutInv'
  <2>1. i = 0 /\ tot = 0 /\ out = <<>>
    BY <1>6 DEF Found, Inv, LoopInv
  <2>2. /\ weights' = weights /\ count' = count /\ l' = l
        /\ i' = 0 /\ tot' = 0 /\ out' = <<>>
    BY <1>6, <2>1 DEF Found, args
  <2>3. Len(out') = 0 /\ 0 * l + 0 = 0
    BY <1>1, <2>2
  <2>4. Sums(weights')[i'] = 0
    BY <1>2, <2>2
  <2>5. QED
    BY <1>1, <2>2, <2>3, <2>4 DEF CutInv, AtMostCount
<1>7. ASSUME Split PROVE CutInv'
  <2>1. /\ phase = "split" /\ phase' = "split" /\ i < N /\ i' = i + 1
        /\ weights' = weights /\ count' = count /\ l' = l
    BY <1>7 DEF Split, args
  <2>2. i + 1 \in 1 .. N /\ i + 1 \in 0 .. N /\ (i + 1) - 1 = i
    BY <1>1, <2>1
  <2>3. this \in Nat /\ this <= l /\ P[i + 1] = P[i] + this
    BY <1>1, <1>2, <2>2 DEF this
  <2>4. P[i + 1] <= count * l /\ P[i + 1] \in Nat /\ Sums(weights')[i'] = P[i + 1]
    BY <1>3, <2>1, <2>2
  <2>5. k * l + tot = P[i] /\ k * l \in Nat /\ P[i] \in Nat
    <3>1. k * l \in Nat
      BY <1>1
    <3>2. QED
      BY <1>2, <1>1, <1>4, <2>1, <3>1
  <2> DEFINE p == k * l
  <2>6. CASE Keep
    <3>1. tot + this <= l /\ tot' = tot + this /\ out' = out
      BY <2>6 DEF Keep
    <3>2. Len(out') = k /\ k * l' = p
      BY <2>1, <3>1
    <3> HIDE DEF p, P
    <3>3. p + tot' = P[i + 1]
      BY <1>1, <2>3, <2>5, <3>1 DEF p
    <3>4. tot' \in 0 .. l /\ (out' # <<>> => tot' > 0)
      BY <1>1, <2>1, <2>3, <3>1 DEF CutInv
    <3>5. QED
      BY <1>1, <2>1, <2>4, <3>2, <3>3, <3>4 DEF CutInv, AtMostCount
  <2>7. CASE Cut
    <3>1. tot + this > l /\ tot' = tot + this - l /\ out' = Append(out, Piece(last, i))
      BY <2>7 DEF Cut
    <3>2. Len(out') = k + 1
      BY <3>1 DEF Inv, PartInv
    <3>3. (k + 1) * l = p + l /\ p \in Nat
      BY <1>1
    <3>4. tot' \in 0 .. l /\ tot' > 0 /\ tot' \in Nat
      BY <1>1, <2>3, <3>1
    <3>5. (k + 1) * l + tot' = P[i + 1]
      <4> HIDE DEF p, P
      <4>1. p + tot = P[i]
        BY <2>5 DEF p
      <4>2. QED
        BY <1>1, <2>3, <2>5, <3>1, <3>3, <4>1
    <3>6. k + 1 <= count
      <4>1. (k + 1) * l + tot' <= count * l /\ k + 1 \in Nat
        BY <1>1, <2>4, <3>5
      <4>2. k + 1 < count
        BY <1>1, <3>4, <4>1, FewerRanges
      <4>3. QED
        BY <1>1, <4>2
    <3>7. (Len(out) * l + tot = Sums(weights)[i])'
      BY <2>1, <2>4, <3>2, <3>5
    <3>8. QED
      BY <2>1, <3>2, <3>4, <3>6, <3>7 DEF CutInv, AtMostCount
  <2>8. QED
    BY <1>7, <2>6, <2>7 DEF Split
<1>8. ASSUME Finish PROVE CutInv'
  <2>1. /\ phase = "split" /\ phase' = "done" /\ count' = count /\ l' = l /\ tot' = tot
        /\ out' = out \/ out' = Append(out, Piece(last, N))
    BY <1>8 DEF Finish, args
  <2>2. k < count
    <3>1. CASE k = 0
      BY <1>1, <3>1
    <3>2. CASE k # 0
      <4>1. tot > 0 /\ tot \in Nat /\ k * l + tot = P[i]
        BY <1>1, <1>4, <2>1, <3>2
      <4>2. k * l + tot <= count * l
        BY <1>1, <1>3, <2>1, <4>1
      <4>3. QED
        BY <1>1, <4>1, <4>2, FewerRanges
    <3>3. QED
      BY <3>1, <3>2
  <2>3. Len(out') = k \/ Len(out') = k + 1
    BY <2>1 DEF Inv, PartInv
  <2>4. QED
    BY <1>1, <2>1, <2>2, <2>3 DEF CutInv, AtMostCount
<1>9. ASSUME UNCHANGED vars PROVE CutInv'
  BY <1>9 DEF vars, args, CutInv, AtMostCount
<1>10. QED
  BY <1>5, <1>6, <1>7, <1>8, <1>9 DEF Next

LEMMA AllInvariants == Spec => []IInv
<1>1. Init => IInv
  BY InvInit, SearchInit, CutInit DEF IInv
<1>2. IInv /\ [Next]_vars => IInv'
  BY InvNext, SearchNext, CutNext DEF IInv
<1>3. QED
  BY <1>1, <1>2, PTL DEF Spec

----------------------------------------------------------------------------
(* The theorems *)

\* The variables keep their types, and no number of the function leaves those of
\* a usize, even where the upper end of the search wraps around.
THEOREM TypeCorrect == Spec => []TypeOK
<1>1. IInv => TypeOK
  <2> SUFFICES ASSUME IInv PROVE TypeOK
    OBVIOUS
  <2>1. /\ weights \in Lists /\ count \in Nat /\ phase \in {"search", "split", "done"}
        /\ i \in 0 .. Len(weights) /\ last \in 0 .. Len(weights)
        /\ out \in Seq([start : 0 .. Len(weights), end : 0 .. Len(weights)])
    BY DEF IInv, Inv, LoopInv, PartInv, Place, SearchInv
  <2>2. /\ l \in Nat /\ r \in Nat /\ l <= MaxUsize /\ r <= MaxUsize /\ tot \in 0 .. l
        /\ MaxUsize \in Nat
    BY ConstantsAssumption DEF IInv, Inv, BoundInv, SearchInv, CutInv
  <2>3. l \in 0 .. MaxUsize /\ r \in 0 .. MaxUsize /\ tot \in 0 .. MaxUsize
    BY <2>2
  <2>4. QED
    BY <2>1, <2>3 DEF TypeOK
<1>2. QED
  BY AllInvariants, <1>1, PTL

\* Whatever the song list and however many accounts there are, the jobs of an
\* enqueue request cover every song once and none of them is empty.
THEOREM JobsPartitionSongs == Spec => []RangesPartition
<1>1. IInv => RangesPartition
  BY DEF IInv, Inv, PartInv
<1>2. QED
  BY AllInvariants, <1>1, PTL

\* A request never makes more jobs than the active accounts are meant to take: what
\* the cutting loop counts is covered by what check has counted.
THEOREM JobsStayWithinCount == Spec => []AtMostCount
<1>1. IInv => AtMostCount
  BY DEF IInv, CutInv
<1>2. QED
  BY AllInvariants, <1>1, PTL

\* The binary search finds the least bound: the list can be cut into the wanted
\* number of ranges with it, and in no way at all with a smaller one.
THEOREM SearchFindsLeast == Spec => []BoundIsLeast
<1>1. IInv => BoundIsLeast
  <2> SUFFICES ASSUME IInv, phase # "search"
               PROVE  Possible(l) /\ \A d \in 0 .. l - 1 : ~Possible(d)
    BY DEF BoundIsLeast
  <2>1. /\ weights \in Seq(Nat) /\ weights # <<>> /\ l \in Nat /\ count \in Nat
        /\ \A j \in 1 .. Len(weights) : weights[j] <= l
    BY DEF IInv, Inv, BoundInv, SearchInv
  <2>2. check(l) /\ (Largest(l) \/ (l > 0 /\ ~check(l - 1)))
    BY DEF IInv, SearchInv
  <2>3. Possible(l)
    BY <2>1, <2>2, CheckIsPossible
  <2>4. ASSUME NEW d \in 0 .. l - 1, Possible(d) PROVE FALSE
    <3>1. d \in Nat /\ d < l
      BY <2>1
    <3>2. \A j \in 1 .. Len(weights) : weights[j] <= d
      BY <2>1, <2>4, <3>1, CheckIsPossible
    <3>3. CASE Largest(l)
      <4>1. PICK j \in DOMAIN weights : l = weights[j]
        BY <3>3 DEF Largest
      <4>2. j \in 1 .. Len(weights)
        BY <2>1
      <4>3. QED
        BY <2>1, <3>1, <3>2, <4>1, <4>2
    <3>4. CASE l > 0 /\ ~check(l - 1)
      <4>1. l - 1 \in Nat /\ d <= l - 1
        BY <2>1, <3>1, <3>4
      <4>2. PICK c \in Cuts : Cardinality(c) <= count /\ \A e \in c : Weight(c, e) <= d
        BY <2>4 DEF Possible
      <4>3. ASSUME NEW e \in c PROVE Weight(c, e) <= l - 1
        <5>1. c \in SUBSET DOMAIN weights /\ e \in 1 .. Len(weights)
          BY <2>1 DEF Cuts
        <5>2. Weight(c, e) \in Nat
          BY <2>1, <5>1, WeightNext
        <5>3. Weight(c, e) <= d
          BY <4>2
        <5>4. QED
          BY <3>1, <4>1, <5>2, <5>3
      <4>4. Possible(l - 1)
        BY <4>2, <4>3 DEF Possible
      <4>5. QED
        BY <2>1, <3>4, <4>1, <4>4, CheckIsPossible
    <3>5. QED
      BY <2>2, <3>3, <3>4
  <2>5. QED
    BY <2>3, <2>4
<1>2. QED
  BY AllInvariants, <1>1, PTL

\* An enqueue request is never stuck in the search or in the cutting: what is left
\* to do shrinks with every step, if any song has a difficulty.
THEOREM FunctionDescends == Spec => StepsDescend
<1> DEFINE Heavy == \E j \in DOMAIN weights : weights[j] > 0
           Descends == Heavy => Rank \in Nat /\ Rank' \in Nat /\ Rank' < Rank
<1>1. IInv /\ IInv' /\ [Next]_vars => [Descends]_vars
  <2> SUFFICES ASSUME IInv, IInv', Next, Heavy PROVE Rank \in Nat /\ Rank' \in Nat /\ Rank' < Rank
    OBVIOUS
  <2> DEFINE N == Len(weights)
  <2>1. /\ N \in Nat /\ l \in Nat /\ r \in Nat /\ l > 0
        /\ i \in 0 .. N /\ (phase = "search" => l <= r + 1)
    <3>1. /\ N \in Nat /\ l \in Nat /\ r \in Nat /\ weights \in Seq(Nat)
          /\ \A j \in 1 .. N : weights[j] <= l
      BY DEF IInv, Inv, BoundInv
    <3>2. PICK j \in 1 .. N : weights[j] > 0 /\ weights[j] \in Nat
      BY <3>1
    <3>3. l > 0
      BY <3>1, <3>2
    <3>4. i \in 0 .. N /\ (phase = "search" => l <= r + 1)
      BY DEF IInv, Inv, LoopInv, SearchInv
    <3>5. QED
      BY <3>1, <3>3, <3>4
  <2>2. CASE Search
    <3>1. /\ phase = "search" /\ phase' = "search" /\ l <= r /\ weights' = weights
      BY <2>2 DEF Search, args
    <3>2. mid \in Nat /\ l <= mid /\ mid <= r
      BY <2>1, <3>1 DEF mid
    <3>3. (l' = mid + 1 /\ r' = r) \/ (l' = l /\ r' = mid - 1)
      BY <2>1, <2>2, <3>2 DEF Search, Higher, Lower, OneLess
    <3> HIDE DEF N
    <3>4. Rank = (r + 1 - l) + N + 2 /\ Rank' = (r' + 1 - l') + N + 2
      BY <3>1 DEF Rank, N
    <3>5. QED
      BY <2>1, <3>1, <3>2, <3>3, <3>4
  <2>3. CASE Found
    <3>1. /\ phase = "search" /\ phase' = "split" /\ weights' = weights /\ i' = i /\ i = 0
      BY <2>3 DEF Found, args, IInv, Inv, LoopInv
    <3> HIDE DEF N
    <3>2. Rank = (r + 1 - l) + N + 2 /\ Rank' = N - i + 1
      BY <3>1 DEF Rank, N
    <3>3. QED
      BY <2>1, <3>1, <3>2
  <2>4. CASE Split
    <3>1. phase = "split" /\ phase' = "split" /\ weights' = weights /\ i' = i + 1 /\ i < N
      BY <2>4 DEF Split, args
    <3> HIDE DEF N
    <3>2. Rank = N - i + 1 /\ Rank' = N - (i + 1) + 1
      BY <3>1 DEF Rank, N
    <3>3. QED
      BY <2>1, <3>1, <3>2
  <2>5. CASE Finish
    <3>1. phase = "split" /\ phase' = "done" /\ i = N
      BY <2>5 DEF Finish
    <3> HIDE DEF N
    <3>2. Rank = N - i + 1 /\ Rank' = 0
      BY <3>1 DEF Rank, N
    <3>3. QED
      BY <2>1, <3>1, <3>2
  <2>6. QED
    BY <2>2, <2>3, <2>4, <2>5 DEF Next
<1>2. QED
  BY AllInvariants, <1>1, PTL DEF Spec, StepsDescend
==============================================================================
