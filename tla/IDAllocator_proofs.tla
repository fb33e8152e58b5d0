------------------------ MODULE IDAllocator_proofs ------------------------
(***************************************************************************)
(* Theorems about IDAllocator: no ID is in two places, offsets keep their  *)
(* IDs, and a commit commits what the session was told to use.  The loops  *)
(* over lists of ranges are recursive functions; what they compute is      *)
(* shown by induction over the rounds, stated with sets of rounds.         *)
(***************************************************************************)
EXTENDS IDAllocator, TLAPS, NaturalsInduction, WellFoundedInduction

-----------------------------------------------------------------------------
(* Induction over the rounds of a loop *)

\* A set of natural numbers with a member has a least one.
LEMMA LeastElement ==
    ASSUME NEW S \in SUBSET Nat, S # {}
    PROVE  \E m \in S : \A n \in S : m <= n
<1>1. \E m \in S : \A n \in S : ~(<<n, m>> \in OpToRel(<, Nat))
  BY NatLessThanWellFounded, WFMin
<1>2. PICK m \in S : \A n \in S : ~(<<n, m>> \in OpToRel(<, Nat))
  BY <1>1
<1>3. ASSUME NEW n \in S PROVE m <= n
  <2>1. ~(n < m)
    BY <1>2 DEF OpToRel
  <2> QED BY <2>1
<1> QED BY <1>3

\* Induction up to n, over the set of numbers for which a fact holds.
LEMMA SetInduction ==
    ASSUME NEW n \in Nat, NEW B, 0 \in B, \A i \in 1..n : i - 1 \in B => i \in B
    PROVE  \A i \in 0..n : i \in B
<1> DEFINE C == {i \in 0..n : i \notin B}
<1> SUFFICES ASSUME C # {} PROVE FALSE
  OBVIOUS
<1>1. PICK m \in C : \A i \in C : m <= i
  <2>1. C \in SUBSET Nat
    OBVIOUS
  <2> HIDE DEF C
  <2> QED BY <2>1, LeastElement
<1>2. m \in 1..n /\ m - 1 \in 0..n /\ m - 1 \notin C
  BY <1>1
<1> QED BY <1>1, <1>2

\* g records the states of a loop of n rounds over S that starts with s.
IsRun(g, S, n, s, step) ==
    g \in [0..n -> S] /\ g[0] = s /\ \A i \in 1..n : g[i] = step[i][g[i - 1]]

\* h satisfies the equations of the loop as long as it stays in S.
Obeys(h, S, n, s, step) ==
    h[0] = s /\ \A i \in 1..n : h[i - 1] \in S => h[i] = step[i][h[i - 1]]

\* Every loop has a run.
LEMMA RunExists ==
    ASSUME NEW S, NEW n \in Nat, NEW s \in S, NEW step \in [1..n -> [S -> S]]
    PROVE  \E g : IsRun(g, S, n, s, step)
<1> DEFINE Is(g, k) == g[0] = s /\ \A i \in 1..k : g[i] = step[i][g[i - 1]]
           B == {k \in 0..n : \E g \in [0..k -> S] : Is(g, k)}
<1>1. 0 \in B
  <2>1. Is([i \in 0..0 |-> s], 0) /\ [i \in 0..0 |-> s] \in [0..0 -> S]
    OBVIOUS
  <2>2. \E g \in [0..0 -> S] : Is(g, 0)
    <3> HIDE DEF Is
    <3> QED BY <2>1
  <2> QED BY <2>2
<1>2. ASSUME NEW k \in 1..n, k - 1 \in B PROVE k \in B
  <2>1. PICK g \in [0..(k - 1) -> S] : Is(g, k - 1)
    BY <1>2
  <2> DEFINE h == [i \in 0..k |-> IF i = k THEN step[k][g[k - 1]] ELSE g[i]]
  <2>2. h \in [0..k -> S]
    BY <2>1
  <2>3. Is(h, k)
    BY <2>1
  <2>4. \E g2 \in [0..k -> S] : Is(g2, k)
    <3> HIDE DEF Is, h
    <3> QED BY <2>2, <2>3
  <2>5. k \in 0..n
    OBVIOUS
  <2> HIDE DEF Is
  <2> QED BY <2>4, <2>5
<1>3. n \in B
  <2>1. \A k \in 1..n : k - 1 \in B => k \in B
    <3> HIDE DEF B
    <3> QED BY <1>2
  <2> HIDE DEF B
  <2>2. \A k \in 0..n : k \in B
    BY <1>1, <2>1, SetInduction
  <2> QED BY <2>2
<1> QED BY <1>3 DEF IsRun

\* What satisfies the equations of a loop is its run.
LEMMA RunUnique ==
    ASSUME NEW S, NEW n \in Nat, NEW s, NEW step, NEW g, NEW h,
           IsRun(g, S, n, s, step), Obeys(h, S, n, s, step)
    PROVE  \A i \in 0..n : h[i] = g[i]
<1> DEFINE B == {i \in 0..n : h[i] = g[i]}
<1>1. 0 \in B
  BY DEF IsRun, Obeys
<1>2. ASSUME NEW i \in 1..n, i - 1 \in B PROVE i \in B
  BY <1>2 DEF IsRun, Obeys
<1> HIDE DEF B
<1>3. \A i \in 0..n : i \in B
  BY <1>1, <1>2, SetInduction
<1> QED BY <1>3 DEF B

-----------------------------------------------------------------------------
(* Counting the IDs of a list *)

Range2 == [First : Int, Last : Int]

\* A list of ranges each of which has an ID.
Forward(a) == a \in Seq(Range2) /\ \A i \in 1..Len(a) : a[i].First <= a[i].Last

\* f counts the IDs of a.
CountsOf(f, a) ==
    /\ f \in [0..Len(a) -> Int] /\ f[0] = 0
    /\ \A i \in 1..Len(a) : f[i] = f[i - 1] + (width(a[i]) + 1)

\* Counts satisfies the equation that defines it.
LEMMA CountsRun ==
    ASSUME NEW a \in Seq(Range2)
    PROVE  CountsOf(Counts(a), a)
<1> DEFINE m == Len(a)
           Add(x, i) == x + (width(a[i]) + 1)
           F == CHOOSE f : f = [i \in 0..m |-> IF i = 0 THEN 0 ELSE Add(f[i - 1], i)]
           step == [i \in 1..m |-> [x \in Int |-> Add(x, i)]]
<1>1. Counts(a) = F
  BY DEF Counts
<1>2. m \in Nat /\ \A i \in 1..m : width(a[i]) \in Int
  <2>1. \A i \in 1..m : a[i] \in Range2
    OBVIOUS
  <2> QED BY <2>1 DEF width, Range2
<1>3. \A i \in 1..m, x \in Int : Add(x, i) \in Int
  BY <1>2
<1>4. Len(a) = m /\ \A i \in 1..m, x \in Int : Add(x, i) = x + (width(a[i]) + 1)
  OBVIOUS
<1> HIDE DEF m, Add, F
<1>5. step \in [1..m -> [Int -> Int]] /\ 0 \in Int
  BY <1>3
<1>6. PICK g : IsRun(g, Int, m, 0, step)
  <2> HIDE DEF step
  <2> QED BY <1>2, <1>5, RunExists
<1>7. /\ g \in [0..m -> Int] /\ g[0] = 0
      /\ \A i \in 1..m : g[i - 1] \in Int /\ g[i] = Add(g[i - 1], i)
  <2>1. g \in [0..m -> Int] /\ g[0] = 0 /\ \A i \in 1..m : g[i] = step[i][g[i - 1]]
    BY <1>6 DEF IsRun
  <2>2. \A i \in 1..m : g[i - 1] \in Int
    BY <1>2, <2>1
  <2> QED BY <2>1, <2>2
<1>8. g = [i \in 0..m |-> IF i = 0 THEN 0 ELSE Add(g[i - 1], i)]
  BY <1>2, <1>7
<1>9. F = [i \in 0..m |-> IF i = 0 THEN 0 ELSE Add(F[i - 1], i)]
  BY <1>8 DEF F
<1>10. \A i \in 0..m : F[i] = g[i]
  <2>1. Obeys(F, Int, m, 0, step)
    BY <1>2, <1>9 DEF Obeys
  <2> HIDE DEF step
  <2> QED BY <1>2, <1>6, <2>1, RunUnique
<1>11. F \in [0..m -> Int] /\ F[0] = 0 /\ \A i \in 1..m : F[i] = Add(F[i - 1], i)
  BY <1>2, <1>7, <1>9, <1>10
<1>12. \A i \in 1..m : F[i - 1] \in Int
  BY <1>2, <1>11
<1> QED BY <1>1, <1>4, <1>11, <1>12 DEF CountsOf

\* Nothing else does.
LEMMA CountsUnique ==
    ASSUME NEW a \in Seq(Range2), NEW f, CountsOf(f, a)
    PROVE  f = Counts(a)
<1> DEFINE B == {i \in 0..Len(a) : f[i] = Counts(a)[i]}
<1>1. CountsOf(Counts(a), a) /\ Len(a) \in Nat
  BY CountsRun
<1>2. 0 \in B
  BY <1>1 DEF CountsOf
<1>3. ASSUME NEW i \in 1..Len(a), i - 1 \in B PROVE i \in B
  BY <1>1, <1>3 DEF CountsOf
<1>4. \A i \in 0..Len(a) : i \in B
  <2> HIDE DEF B
  <2> QED BY <1>1, <1>2, <1>3, SetInduction
<1>5. \A i \in 0..Len(a) : f[i] = Counts(a)[i]
  BY <1>4
<1> QED BY <1>1, <1>5 DEF CountsOf

\* The counts of a list of forward ranges grow.
LEMMA CountsGrow ==
    ASSUME NEW a, Forward(a), NEW i \in 0..Len(a), NEW j \in 0..Len(a), i < j
    PROVE  Counts(a)[i] < Counts(a)[j]
<1> DEFINE C == Counts(a)
           B == {k \in 0..Len(a) : i < k => C[i] < C[k]}
<1>1. CountsOf(C, a) /\ Len(a) \in Nat /\ \A k \in 1..Len(a) : width(a[k]) \in Nat
  <2>1. \A k \in 1..Len(a) : a[k] \in Range2 /\ a[k].First <= a[k].Last
    BY DEF Forward
  <2> QED BY <2>1, CountsRun DEF Forward, width, Range2
<1> HIDE DEF C
<1>2. 0 \in B
  BY <1>1
<1>3. ASSUME NEW k \in 1..Len(a), k - 1 \in B PROVE k \in B
  <2>1. C[k] = C[k - 1] + (width(a[k]) + 1) /\ C[k - 1] \in Int /\ C[i] \in Int /\ width(a[k]) \in Nat
    <3>1. k - 1 \in 0..Len(a) /\ k \in 0..Len(a)
      BY <1>1
    <3> QED BY <1>1, <3>1 DEF CountsOf
  <2>2. i < k => i = k - 1 \/ i < k - 1
    BY <1>1
  <2> QED BY <2>1, <2>2, <1>3
<1>4. \A k \in 0..Len(a) : k \in B
  <2> HIDE DEF B
  <2> QED BY <1>1, <1>2, <1>3, SetInduction
<1> QED BY <1>4 DEF C

\* The n-th ID is in exactly one range.
LEMMA CountsReach ==
    ASSUME NEW a, Forward(a), NEW n \in 1..Count(a)
    PROVE  \E i \in 1..Len(a) : Counts(a)[i - 1] < n /\ n <= Counts(a)[i]
<1> DEFINE C == Counts(a)
           M == {i \in 0..Len(a) : n <= C[i]}
<1>1. CountsOf(C, a) /\ Len(a) \in Nat
  BY CountsRun DEF Forward
<1> HIDE DEF C
<1>2. M \in SUBSET Nat /\ Len(a) \in M
  BY <1>1 DEF Count, C
<1>3. PICK i \in M : \A j \in M : i <= j
  <2> HIDE DEF M
  <2> QED BY <1>2, LeastElement
<1>4. i # 0
  BY <1>1, <1>3 DEF CountsOf
<1>5. i \in 1..Len(a) /\ i - 1 \in 0..Len(a) /\ i - 1 \notin M
  BY <1>1, <1>3, <1>4
<1>6. C[i - 1] \in Int /\ C[i] \in Int
  BY <1>1, <1>5 DEF CountsOf
<1> QED BY <1>3, <1>5, <1>6 DEF C

-----------------------------------------------------------------------------
(* The IDs of a list in order *)

\* The counts of a forward list, with the types the proofs need.
LEMMA ForwardCounts ==
    ASSUME NEW a, Forward(a)
    PROVE  /\ Len(a) \in Nat /\ a \in Seq(Range2) /\ DOMAIN a = 1..Len(a)
           /\ \A i \in 1..Len(a) : /\ a[i] \in Range2 /\ width(a[i]) \in Nat
                                   /\ a[i].First \in Int /\ a[i].Last \in Int
                                   /\ width(a[i]) = a[i].Last - a[i].First
           /\ CountsOf(Counts(a), a)
           /\ Count(a) \in Nat
<1>1. a \in Seq(Range2) /\ Len(a) \in Nat /\ DOMAIN a = 1..Len(a) /\ \A i \in 1..Len(a) : a[i] \in Range2
  BY DEF Forward
<1>2. ASSUME NEW i \in 1..Len(a)
      PROVE  /\ a[i].First \in Int /\ a[i].Last \in Int /\ width(a[i]) \in Nat
             /\ width(a[i]) = a[i].Last - a[i].First
  <2>1. a[i].First <= a[i].Last /\ a[i] \in Range2
    BY <1>1 DEF Forward
  <2> QED BY <2>1 DEF width, Range2
<1>3. CountsOf(Counts(a), a)
  BY <1>1, CountsRun
<1>4. Count(a) \in Nat
  <2>1. Counts(a)[0] = 0 /\ Counts(a)[Len(a)] \in Int
    BY <1>1, <1>3 DEF CountsOf
  <2>2. CASE Len(a) = 0
    BY <2>1, <2>2 DEF Count
  <2>3. CASE Len(a) # 0
    <3>1. Counts(a)[0] < Counts(a)[Len(a)]
      BY <1>1, <2>3, CountsGrow
    <3> QED BY <3>1, <2>1 DEF Count
  <2> QED BY <2>2, <2>3
<1> QED BY <1>1, <1>2, <1>3, <1>4

\* IDSeq is a sequence with as many elements as there are IDs.
LEMMA IDSeqType ==
    ASSUME NEW a, Forward(a)
    PROVE  /\ IDSeq(a) \in Seq(Int) /\ Len(IDSeq(a)) = Count(a) /\ DOMAIN IDSeq(a) = 1..Count(a)
           /\ \A n \in 1..Count(a) : IDSeq(a)[n] \in Int
<1> DEFINE C == Counts(a)
           At(n) == CHOOSE i \in DOMAIN a : C[i - 1] < n /\ n <= C[i]
           seq == [n \in 1..Count(a) |-> a[At(n)].First + (n - 1 - C[At(n) - 1])]
<1>1. IDSeq(a) = seq
  BY DEF IDSeq
<1>2. /\ Len(a) \in Nat /\ DOMAIN a = 1..Len(a) /\ Count(a) \in Nat
      /\ CountsOf(C, a) /\ \A i \in 1..Len(a) : a[i].First \in Int
  BY ForwardCounts
<1>3. ASSUME NEW n \in 1..Count(a) PROVE a[At(n)].First + (n - 1 - C[At(n) - 1]) \in Int
  <2>1. \E i \in DOMAIN a : C[i - 1] < n /\ n <= C[i]
    BY <1>2, CountsReach
  <2> HIDE DEF C
  <2>2. At(n) \in 1..Len(a)
    BY <2>1, <1>2
  <2> HIDE DEF At
  <2>3. C[At(n) - 1] \in Int /\ a[At(n)].First \in Int
    BY <2>2, <1>2 DEF CountsOf
  <2> QED BY <2>3, <1>2
<1> HIDE DEF C, At
<1>4. seq \in [1..Count(a) -> Int]
  BY <1>3
<1> HIDE DEF seq
<1>5. IDSeq(a) \in [1..Count(a) -> Int]
  BY <1>1, <1>4
<1> QED BY <1>2, <1>5

\* Which ID is the n-th.
LEMMA IDSeqAt ==
    ASSUME NEW a, Forward(a), NEW i \in 1..Len(a), NEW n \in Int,
           Counts(a)[i - 1] < n, n <= Counts(a)[i]
    PROVE  n \in 1..Count(a) /\ IDSeq(a)[n] = a[i].First + (n - 1 - Counts(a)[i - 1])
<1> DEFINE C == Counts(a)
           At(m) == CHOOSE j \in DOMAIN a : C[j - 1] < m /\ m <= C[j]
<1>1. Len(a) \in Nat /\ DOMAIN a = 1..Len(a) /\ CountsOf(C, a) /\ Count(a) = C[Len(a)] /\ Count(a) \in Nat
  BY ForwardCounts DEF Count
<1>2. \A p, q \in 0..Len(a) : p < q => C[p] < C[q]
  BY CountsGrow
<1>3. C[i - 1] < n /\ n <= C[i]
  OBVIOUS
<1>4. n \in 1..Count(a) => IDSeq(a)[n] = a[At(n)].First + (n - 1 - C[At(n) - 1])
  BY DEF IDSeq
<1> HIDE DEF C
<1>5. \A p \in 0..Len(a) : C[p] \in Int
  BY <1>1 DEF CountsOf
<1>6. n \in 1..Count(a)
  <2>1. C[0] = 0 /\ i - 1 \in 0..Len(a) /\ i \in 0..Len(a) /\ 0 \in 0..Len(a) /\ Len(a) \in 0..Len(a)
    BY <1>1 DEF CountsOf
  <2>2. 0 <= C[i - 1]
    BY <2>1, <1>2, <1>5
  <2>3. C[i] <= C[Len(a)]
    BY <2>1, <1>1, <1>2, <1>5
  <2> QED BY <2>1, <2>2, <2>3, <1>1, <1>3, <1>5
<1>7. At(n) \in DOMAIN a /\ C[At(n) - 1] < n /\ n <= C[At(n)]
  BY <1>1, <1>3
<1>8. At(n) = i
  <2> DEFINE j == At(n)
  <2> HIDE DEF At
  <2>1. j \in 1..Len(a) /\ j - 1 \in 0..Len(a) /\ j \in 0..Len(a) /\ i - 1 \in 0..Len(a) /\ i \in 0..Len(a)
    BY <1>1, <1>7
  <2>2. ~(j < i)
    <3>1. j < i => j = i - 1 \/ j < i - 1
      BY <2>1
    <3> QED BY <3>1, <2>1, <1>2, <1>3, <1>5, <1>7
  <2>3. ~(i < j)
    <3>1. i < j => i = j - 1 \/ i < j - 1
      BY <2>1
    <3> QED BY <3>1, <2>1, <1>2, <1>3, <1>5, <1>7
  <2> QED BY <2>1, <2>2, <2>3
<1> HIDE DEF At
<1> QED BY <1>4, <1>6, <1>8 DEF C

\* The n-th ID has a range, in which it is at its place.
LEMMA IDSeqIn ==
    ASSUME NEW a, Forward(a), NEW n \in 1..Count(a)
    PROVE  \E i \in 1..Len(a) :
             /\ Counts(a)[i - 1] < n /\ n <= Counts(a)[i]
             /\ Counts(a)[i - 1] \in Int /\ Counts(a)[i] = Counts(a)[i - 1] + (width(a[i]) + 1)
             /\ IDSeq(a)[n] = a[i].First + (n - 1 - Counts(a)[i - 1])
<1>1. PICK i \in 1..Len(a) : Counts(a)[i - 1] < n /\ n <= Counts(a)[i]
  BY CountsReach
<1>2. IDSeq(a)[n] = a[i].First + (n - 1 - Counts(a)[i - 1])
  <2>1. n \in Int
    BY ForwardCounts
  <2> QED BY <1>1, <2>1, IDSeqAt
<1>3. Counts(a)[i - 1] \in Int /\ Counts(a)[i] = Counts(a)[i - 1] + (width(a[i]) + 1)
  <2>1. CountsOf(Counts(a), a) /\ Len(a) \in Nat
    BY ForwardCounts
  <2>2. i - 1 \in 0..Len(a)
    BY <2>1
  <2> QED BY <2>1, <2>2 DEF CountsOf
<1> QED BY <1>1, <1>2, <1>3

\* b is a without its first m IDs.
After(a, b, m) ==
    /\ Forward(b) /\ Count(b) = Count(a) - m
    /\ \A n \in 1..Count(b) : IDSeq(b)[n] = IDSeq(a)[n + m]

\* b begins with the IDs of a.
Begins(a, b) ==
    /\ Forward(b) /\ Count(a) <= Count(b)
    /\ \A n \in 1..Count(a) : IDSeq(b)[n] = IDSeq(a)[n]

\* Without its first range, a list is without the IDs of that range.
LEMMA AfterTail ==
    ASSUME NEW a, Forward(a), a # <<>>
    PROVE  After(a, Tail(a), width(a[1]) + 1)
<1> DEFINE b == Tail(a)
           m == width(a[1]) + 1
           f == [i \in 0..Len(b) |-> Counts(a)[i + 1] - m]
<1>1. /\ Len(a) \in Nat /\ a \in Seq(Range2) /\ CountsOf(Counts(a), a) /\ Count(a) \in Nat
      /\ \A i \in 1..Len(a) : width(a[i]) \in Nat
  BY ForwardCounts
<1>2. Len(a) >= 1 /\ b \in Seq(Range2) /\ Len(b) = Len(a) - 1 /\ \A i \in 1..Len(b) : b[i] = a[i + 1]
  BY <1>1
<1>3. Forward(b)
  <2>1. \A i \in 1..Len(b) : i + 1 \in 1..Len(a)
    BY <1>1, <1>2
  <2> HIDE DEF b
  <2> QED BY <1>2, <2>1 DEF Forward
<1>4. Counts(a)[0] = 0 /\ \A i \in 1..Len(a) : Counts(a)[i - 1] \in Int /\ Counts(a)[i] \in Int /\ Counts(a)[i] = Counts(a)[i - 1] + (width(a[i]) + 1)
  <2>1. \A i \in 1..Len(a) : i - 1 \in 0..Len(a) /\ i \in 0..Len(a)
    BY <1>1
  <2> QED BY <1>1, <2>1 DEF CountsOf
<1> HIDE DEF b
<1>5. m \in Nat /\ Counts(a)[1] = m
  <2>1. 1 \in 1..Len(a)
    BY <1>1, <1>2
  <2>2. Counts(a)[1] = Counts(a)[1 - 1] + m /\ 1 - 1 = 0 /\ width(a[1]) \in Nat
    BY <1>1, <1>4, <2>1
  <2> QED BY <1>4, <2>2
<1> HIDE DEF m
<1>6. CountsOf(f, b)
  <2>1. ASSUME NEW i \in 0..Len(b) PROVE f[i] = Counts(a)[i + 1] - m /\ f[i] \in Int
    <3>1. i + 1 \in 1..Len(a)
      BY <1>1, <1>2
    <3> QED BY <3>1, <1>4, <1>5
  <2>2. ASSUME NEW i \in 1..Len(b) PROVE f[i] = f[i - 1] + (width(b[i]) + 1)
    <3>1. i + 1 \in 1..Len(a) /\ i - 1 \in 0..Len(b) /\ i \in 0..Len(b) /\ (i + 1) - 1 = i /\ (i - 1) + 1 = i
      BY <1>1, <1>2
    <3>2. Counts(a)[i + 1] = Counts(a)[i] + (width(a[i + 1]) + 1) /\ Counts(a)[i] \in Int /\ width(a[i + 1]) \in Nat /\ b[i] = a[i + 1]
      BY <3>1, <1>1, <1>2, <1>4
    <3>3. f[i] = Counts(a)[i + 1] - m /\ f[i - 1] = Counts(a)[i] - m
      BY <2>1, <3>1
    <3> QED BY <3>2, <3>3, <1>5
  <2>3. f[0] = 0
    <3>1. 0 \in 0..Len(b) /\ 0 + 1 = 1
      BY <1>1, <1>2
    <3> QED BY <2>1, <3>1, <1>5
  <2> QED BY <2>1, <2>2, <2>3 DEF CountsOf
<1>7. \A i \in 0..Len(b) : Counts(b)[i] = Counts(a)[i + 1] - m
  <2>1. Counts(b) = f
    <3> HIDE DEF f
    <3> QED BY <1>2, <1>6, CountsUnique
  <2> QED BY <2>1
<1>8. Count(b) = Count(a) - m
  <2>1. Len(b) \in 0..Len(b) /\ Len(b) + 1 = Len(a)
    BY <1>1, <1>2
  <2> QED BY <2>1, <1>7 DEF Count
<1>9. ASSUME NEW n \in 1..Count(b) PROVE IDSeq(b)[n] = IDSeq(a)[n + m]
  <2>1. PICK i \in 1..Len(b) :
             /\ Counts(b)[i - 1] < n /\ n <= Counts(b)[i]
             /\ IDSeq(b)[n] = b[i].First + (n - 1 - Counts(b)[i - 1])
    BY <1>3, IDSeqIn
  <2>2. /\ i + 1 \in 1..Len(a) /\ i - 1 \in 0..Len(b) /\ i \in 0..Len(b) /\ (i + 1) - 1 = i /\ (i - 1) + 1 = i
        /\ n \in Int
    BY <1>1, <1>2, <1>8, <1>5
  <2>3. Counts(b)[i - 1] = Counts(a)[i] - m /\ Counts(b)[i] = Counts(a)[i + 1] - m
        /\ Counts(a)[i] \in Int /\ Counts(a)[i + 1] \in Int /\ b[i] = a[i + 1]
    BY <2>2, <1>2, <1>4, <1>7
  <2>4. Counts(a)[(i + 1) - 1] < n + m /\ n + m <= Counts(a)[i + 1] /\ n + m \in Int
    BY <2>1, <2>2, <2>3, <1>5, SMTT(30)
  <2>5. IDSeq(a)[n + m] = a[i + 1].First + ((n + m) - 1 - Counts(a)[i])
    BY <2>2, <2>4, IDSeqAt
  <2>6. (n + m) - 1 - Counts(a)[i] = n - 1 - Counts(b)[i - 1]
    BY <2>2, <2>3, <1>5
  <2> QED BY <2>1, <2>3, <2>5, <2>6
<1> QED BY <1>3, <1>8, <1>9 DEF After, b, m

\* With a shorter first range, it is without the IDs dropped from that range.
LEMMA AfterDrop ==
    ASSUME NEW a, Forward(a), a # <<>>, NEW m \in 1..width(a[1])
    PROVE  After(a, [a EXCEPT ![1] = Drop(a[1], m)], m)
<1> DEFINE b == [a EXCEPT ![1] = Drop(a[1], m)]
           f == [i \in 0..Len(b) |-> IF i = 0 THEN 0 ELSE Counts(a)[i] - m]
<1>1. /\ Len(a) \in Nat /\ a \in Seq(Range2) /\ CountsOf(Counts(a), a) /\ Count(a) \in Nat
      /\ \A i \in 1..Len(a) : width(a[i]) \in Nat /\ a[i] \in Range2 /\ a[i].First \in Int /\ a[i].Last \in Int
                              /\ width(a[i]) = a[i].Last - a[i].First
  BY ForwardCounts
<1>2. Len(a) >= 1 /\ 1 \in 1..Len(a) /\ m \in Nat
  BY <1>1
<1>3. /\ Drop(a[1], m) \in Range2 /\ width(Drop(a[1], m)) = width(a[1]) - m
      /\ Drop(a[1], m).First = a[1].First + m /\ Drop(a[1], m).Last = a[1].Last
      /\ Drop(a[1], m).First <= Drop(a[1], m).Last
  <2>1. a[1] \in Range2 /\ a[1].First \in Int /\ a[1].Last \in Int /\ width(a[1]) = a[1].Last - a[1].First
    BY <1>1, <1>2
  <2> QED BY <1>2, <2>1 DEF Drop, width, Range2
<1>4. /\ b \in Seq(Range2) /\ Len(b) = Len(a) /\ b[1] = Drop(a[1], m)
      /\ \A i \in 2..Len(a) : b[i] = a[i]
  <2> HIDE DEF Drop
  <2> QED BY <1>1, <1>2, <1>3
<1> HIDE DEF b
<1>5. Forward(b)
  <2>1. ASSUME NEW i \in 1..Len(b) PROVE b[i].First <= b[i].Last
    <3>1. CASE i = 1
      BY <3>1, <1>3, <1>4
    <3>2. CASE i # 1
      <4>1. i \in 2..Len(a) /\ i \in 1..Len(a)
        BY <3>2, <1>1, <1>4
      <4> QED BY <4>1, <1>4 DEF Forward
    <3> QED BY <3>1, <3>2
  <2> QED BY <2>1, <1>4 DEF Forward
<1>6. Counts(a)[0] = 0 /\ \A i \in 1..Len(a) : Counts(a)[i - 1] \in Int /\ Counts(a)[i] \in Int /\ Counts(a)[i] = Counts(a)[i - 1] + (width(a[i]) + 1)
  <2>1. \A i \in 1..Len(a) : i - 1 \in 0..Len(a) /\ i \in 0..Len(a)
    BY <1>1
  <2> QED BY <1>1, <2>1 DEF CountsOf
<1>7. CountsOf(f, b)
  <2>1. ASSUME NEW i \in 0..Len(b) PROVE f[i] \in Int
    BY <1>1, <1>2, <1>4, <1>6
  <2>2. ASSUME NEW i \in 1..Len(b) PROVE f[i] = f[i - 1] + (width(b[i]) + 1)
    <3>1. i \in 1..Len(a) /\ i - 1 \in 0..Len(b) /\ i \in 0..Len(b)
      BY <1>1, <1>4
    <3>2. Counts(a)[i] = Counts(a)[i - 1] + (width(a[i]) + 1) /\ Counts(a)[i - 1] \in Int /\ width(a[i]) \in Nat
      BY <3>1, <1>1, <1>6
    <3>3. CASE i = 1
      <4>1. i - 1 = 0 /\ f[0] = 0 /\ f[1] = Counts(a)[1] - m
        BY <3>1, <3>3
      <4>2. width(b[1]) = width(a[1]) - m
        BY <1>3, <1>4
      <4> QED BY <3>2, <3>3, <4>1, <4>2, <1>2, <1>6
    <3>4. CASE i # 1
      <4>1. i - 1 # 0 /\ i # 0 /\ i \in 2..Len(a)
        BY <3>1, <3>4, <1>1
      <4>2. f[i] = Counts(a)[i] - m /\ f[i - 1] = Counts(a)[i - 1] - m /\ b[i] = a[i]
        BY <4>1, <3>1, <1>4
      <4> QED BY <4>2, <3>2, <1>2
    <3> QED BY <3>3, <3>4
  <2>3. f[0] = 0
    BY <1>1, <1>4
  <2> QED BY <2>1, <2>2, <2>3 DEF CountsOf
<1>8. \A i \in 0..Len(b) : Counts(b)[i] = IF i = 0 THEN 0 ELSE Counts(a)[i] - m
  <2>1. Counts(b) = f
    <3> HIDE DEF f
    <3> QED BY <1>4, <1>7, CountsUnique
  <2> QED BY <2>1
<1>9. Count(b) = Count(a) - m
  <2>1. Len(b) \in 0..Len(b) /\ Len(b) # 0
    BY <1>1, <1>2, <1>4
  <2> QED BY <2>1, <1>4, <1>8 DEF Count
<1>10. ASSUME NEW n \in 1..Count(b) PROVE IDSeq(b)[n] = IDSeq(a)[n + m]
  <2>1. PICK i \in 1..Len(b) :
             /\ Counts(b)[i - 1] < n /\ n <= Counts(b)[i]
             /\ IDSeq(b)[n] = b[i].First + (n - 1 - Counts(b)[i - 1])
    BY <1>5, IDSeqIn
  <2>2. i \in 1..Len(a) /\ i - 1 \in 0..Len(b) /\ i \in 0..Len(b) /\ i # 0 /\ n \in Nat /\ n + m \in Int /\ n >= 1
    BY <1>1, <1>2, <1>4, <1>9
  <2>3. Counts(a)[i - 1] \in Int /\ Counts(a)[i] \in Int /\ Counts(b)[i] = Counts(a)[i] - m /\ a[i].First \in Int
    BY <2>2, <1>1, <1>6, <1>8
  <2>4. /\ Counts(a)[i - 1] < n + m
        /\ b[i].First + (n - 1 - Counts(b)[i - 1]) = a[i].First + ((n + m) - 1 - Counts(a)[i - 1])
    <3>1. CASE i = 1
      <4>1. i - 1 = 0 /\ Counts(a)[i - 1] = 0 /\ Counts(b)[i - 1] = 0
        BY <2>2, <3>1, <1>6, <1>8
      <4>2. b[i].First = a[i].First + m
        BY <3>1, <1>3, <1>4
      <4> QED BY <4>1, <4>2, <2>2, <2>3, <1>2
    <3>2. CASE i # 1
      <4>1. i - 1 # 0 /\ i \in 2..Len(a)
        BY <2>2, <3>2, <1>1
      <4>2. Counts(b)[i - 1] = Counts(a)[i - 1] - m /\ b[i] = a[i]
        BY <4>1, <2>2, <1>4, <1>8
      <4> QED BY <4>2, <2>1, <2>2, <2>3, <1>2
    <3> QED BY <3>1, <3>2
  <2>5. n + m <= Counts(a)[i]
    BY <2>1, <2>2, <2>3, <1>2
  <2>6. IDSeq(a)[n + m] = a[i].First + ((n + m) - 1 - Counts(a)[i - 1])
    BY <2>2, <2>4, <2>5, IDSeqAt
  <2> QED BY <2>1, <2>4, <2>6
<1> QED BY <1>5, <1>9, <1>10 DEF After, b

\* The counts of two lists one after the other.
LEMMA ConcatCounts ==
    ASSUME NEW a, NEW b, Forward(a), Forward(b)
    PROVE  /\ Forward(a \o b) /\ Len(a \o b) = Len(a) + Len(b)
           /\ \A i \in 1..Len(a) : (a \o b)[i] = a[i]
           /\ \A i \in 1..Len(b) : (a \o b)[Len(a) + i] = b[i]
           /\ \A i \in 0..Len(a) : Counts(a \o b)[i] = Counts(a)[i]
           /\ \A i \in 0..Len(b) : Counts(a \o b)[Len(a) + i] = Count(a) + Counts(b)[i]
<1> DEFINE c == a \o b
           f == [i \in 0..Len(c) |-> IF i <= Len(a) THEN Counts(a)[i] ELSE Count(a) + Counts(b)[i - Len(a)]]
<1>1. /\ Len(a) \in Nat /\ a \in Seq(Range2) /\ CountsOf(Counts(a), a) /\ Count(a) \in Nat
      /\ \A i \in 1..Len(a) : width(a[i]) \in Nat
  BY ForwardCounts
<1>2. /\ Len(b) \in Nat /\ b \in Seq(Range2) /\ CountsOf(Counts(b), b) /\ Count(b) \in Nat
      /\ \A i \in 1..Len(b) : width(b[i]) \in Nat
  BY ForwardCounts
<1>3. /\ c \in Seq(Range2) /\ Len(c) = Len(a) + Len(b) /\ \A i \in 1..Len(a) : c[i] = a[i]
      /\ \A i \in 1..Len(b) : c[Len(a) + i] = b[i]
  BY <1>1, <1>2
<1> HIDE DEF c
<1>4. \A i \in 1..Len(c) : i \in 1..Len(a) \/ (i - Len(a) \in 1..Len(b) /\ Len(a) + (i - Len(a)) = i)
  BY <1>1, <1>2, <1>3
<1>5. Forward(c)
  <2>1. ASSUME NEW i \in 1..Len(c) PROVE c[i].First <= c[i].Last
    <3>1. CASE i \in 1..Len(a)
      BY <3>1, <1>3 DEF Forward
    <3>2. CASE i - Len(a) \in 1..Len(b) /\ Len(a) + (i - Len(a)) = i
      <4>1. c[i] = b[i - Len(a)]
        BY <3>2, <1>3
      <4> QED BY <3>2, <4>1 DEF Forward
    <3> QED BY <3>1, <3>2, <1>4
  <2> QED BY <2>1, <1>3 DEF Forward
<1>6. CountsOf(f, c)
  <2>1. \A i \in 0..Len(a) : Counts(a)[i] \in Int
    BY <1>1 DEF CountsOf
  <2>2. \A i \in 0..Len(b) : Counts(b)[i] \in Int
    BY <1>2 DEF CountsOf
  <2>3. Counts(a)[0] = 0 /\ Counts(b)[0] = 0 /\ Counts(a)[Len(a)] = Count(a)
    BY <1>1, <1>2 DEF CountsOf, Count
  <2>4. ASSUME NEW i \in 0..Len(c) PROVE f[i] \in Int
    <3>1. i <= Len(a) => i \in 0..Len(a)
      BY <1>1, <1>2, <1>3
    <3>2. ~(i <= Len(a)) => i - Len(a) \in 0..Len(b)
      BY <1>1, <1>2, <1>3
    <3> QED BY <3>1, <3>2, <2>1, <2>2, <1>1
  <2>5. ASSUME NEW i \in 1..Len(c) PROVE f[i] = f[i - 1] + (width(c[i]) + 1)
    <3>0. i \in 0..Len(c) /\ i - 1 \in 0..Len(c)
      BY <1>1, <1>2, <1>3
    <3>1. CASE i \in 1..Len(a)
      <4>1. i <= Len(a) /\ i - 1 <= Len(a)
        BY <3>1, <1>1
      <4>2. f[i] = Counts(a)[i] /\ f[i - 1] = Counts(a)[i - 1] /\ c[i] = a[i]
        BY <3>0, <3>1, <4>1, <1>3
      <4> QED BY <4>2, <3>1, <1>1 DEF CountsOf
    <3>2. CASE i - Len(a) \in 1..Len(b) /\ Len(a) + (i - Len(a)) = i
      <4> DEFINE j == i - Len(a)
      <4>1. ~(i <= Len(a)) /\ (i - 1 <= Len(a) <=> j = 1) /\ i - 1 - Len(a) = j - 1 /\ j \in 1..Len(b) /\ (j = 1 => i - 1 = Len(a))
            /\ j - 1 \in 0..Len(b)
        BY <3>2, <1>1, <1>2
      <4>2. c[i] = b[j]
        BY <3>2, <1>3
      <4>3. Counts(b)[j] = Counts(b)[j - 1] + (width(b[j]) + 1) /\ Counts(b)[j - 1] \in Int /\ width(b[j]) \in Nat
        BY <4>1, <1>2, <2>2 DEF CountsOf
      <4>4. f[i] = Count(a) + Counts(b)[j]
        BY <3>0, <4>1
      <4>5. f[i - 1] = Count(a) + Counts(b)[j - 1]
        <5>1. CASE j = 1
          <6>1. j - 1 = 0 /\ f[i - 1] = Counts(a)[Len(a)]
            BY <5>1, <4>1, <3>0
          <6> QED BY <6>1, <2>3, <1>1
        <5>2. CASE j # 1
          BY <5>2, <4>1, <3>0
        <5> QED BY <5>1, <5>2
      <4> QED BY <4>2, <4>3, <4>4, <4>5, <1>1
    <3> QED BY <3>1, <3>2, <1>4
  <2>6. f[0] = 0
    BY <1>1, <1>2, <1>3, <2>3
  <2> QED BY <2>4, <2>5, <2>6 DEF CountsOf
<1>7. Counts(c) = f
  <2> HIDE DEF f
  <2> QED BY <1>3, <1>6, CountsUnique
<1>8. \A i \in 0..Len(a) : Counts(c)[i] = Counts(a)[i]
  BY <1>1, <1>2, <1>3, <1>7
<1>9. ASSUME NEW i \in 0..Len(b) PROVE Counts(c)[Len(a) + i] = Count(a) + Counts(b)[i]
  <2>1. Len(a) + i \in 0..Len(c) /\ (Len(a) + i <= Len(a) <=> i = 0) /\ (Len(a) + i) - Len(a) = i
    BY <1>1, <1>2, <1>3
  <2>2. CASE i = 0
    <3>1. Counts(c)[Len(a) + i] = Counts(a)[Len(a)] /\ Counts(b)[i] = 0
      BY <2>1, <2>2, <1>1, <1>2, <1>7 DEF CountsOf
    <3> QED BY <3>1, <1>1 DEF Count
  <2>3. CASE i # 0
    BY <2>1, <2>3, <1>7
  <2> QED BY <2>2, <2>3
<1> QED BY <1>3, <1>5, <1>8, <1>9 DEF c

\* A list that is extended begins with its IDs.
LEMMA BeginsConcat ==
    ASSUME NEW a, NEW b, Forward(a), Forward(b)
    PROVE  Begins(a, a \o b) /\ Count(a \o b) = Count(a) + Count(b)
<1> DEFINE c == a \o b
<1>1. /\ Forward(c) /\ Len(c) = Len(a) + Len(b)
      /\ \A i \in 1..Len(a) : c[i] = a[i]
      /\ \A i \in 0..Len(a) : Counts(c)[i] = Counts(a)[i]
      /\ \A i \in 0..Len(b) : Counts(c)[Len(a) + i] = Count(a) + Counts(b)[i]
  BY ConcatCounts
<1> HIDE DEF c
<1>2. Len(a) \in Nat /\ Len(b) \in Nat /\ Count(a) \in Nat /\ Count(b) \in Nat
  BY ForwardCounts
<1>3. Count(c) = Count(a) + Count(b)
  <2>1. Len(b) \in 0..Len(b)
    BY <1>2
  <2>2. Counts(c)[Len(c)] = Count(a) + Counts(b)[Len(b)]
    BY <1>1, <2>1
  <2> QED BY <2>2 DEF Count
<1>4. ASSUME NEW n \in 1..Count(a) PROVE IDSeq(c)[n] = IDSeq(a)[n]
  <2>1. PICK i \in 1..Len(a) :
             /\ Counts(a)[i - 1] < n /\ n <= Counts(a)[i]
             /\ IDSeq(a)[n] = a[i].First + (n - 1 - Counts(a)[i - 1])
    BY IDSeqIn
  <2>2. i \in 1..Len(c) /\ i \in 0..Len(a) /\ i - 1 \in 0..Len(a) /\ n \in Int
    BY <1>1, <1>2
  <2>3. Counts(c)[i] = Counts(a)[i] /\ Counts(c)[i - 1] = Counts(a)[i - 1] /\ c[i] = a[i]
    BY <1>1, <2>2
  <2>4. IDSeq(c)[n] = c[i].First + (n - 1 - Counts(c)[i - 1])
    BY <1>1, <2>1, <2>2, <2>3, IDSeqAt
  <2> QED BY <2>1, <2>3, <2>4
<1> QED BY <1>1, <1>2, <1>3, <1>4 DEF Begins, c

\* One more range adds its IDs at the end.
LEMMA AppendIDs ==
    ASSUME NEW a, Forward(a), NEW r \in Range2, r.First <= r.Last
    PROVE  /\ Begins(a, Append(a, r))
           /\ Count(Append(a, r)) = Count(a) + (width(r) + 1)
           /\ \A n \in (Count(a) + 1)..(Count(a) + (width(r) + 1)) :
                IDSeq(Append(a, r))[n] = r.First + (n - 1 - Count(a))
<1> DEFINE b == <<r>>
           c == a \o b
<1>1. Forward(b) /\ Len(b) = 1 /\ b[1] = r
  BY DEF Forward
<1>2. Append(a, r) = c
  BY DEF Forward
<1>c. /\ Forward(c) /\ Len(c) = Len(a) + Len(b)
      /\ \A i \in 1..Len(b) : c[Len(a) + i] = b[i]
      /\ \A i \in 0..Len(b) : Counts(c)[Len(a) + i] = Count(a) + Counts(b)[i]
      /\ Begins(a, c) /\ Count(c) = Count(a) + Count(b)
  <2> HIDE DEF b
  <2> QED BY <1>1, ConcatCounts, BeginsConcat, SMTT(30)
<1> HIDE DEF b, c
<1>3. /\ Forward(c) /\ Len(c) = Len(a) + 1
      /\ c[Len(a) + 1] = r
      /\ \A i \in 0..1 : Counts(c)[Len(a) + i] = Count(a) + Counts(b)[i]
  <2>1. 1 \in 1..Len(b) /\ 0..Len(b) = 0..1
    BY <1>1
  <2> QED BY <1>1, <1>c, <2>1
<1>4. Len(a) \in Nat /\ Count(a) \in Nat /\ width(r) \in Nat /\ Counts(b)[0] = 0 /\ Counts(b)[1] = width(r) + 1
  <2>1. CountsOf(Counts(b), b) /\ Len(a) \in Nat /\ Count(a) \in Nat
    BY <1>1, ForwardCounts
  <2>2. width(r) \in Nat
    BY DEF width, Range2
  <2>3. Counts(b)[0] = 0 /\ Counts(b)[1] = Counts(b)[1 - 1] + (width(b[1]) + 1) /\ 1 - 1 = 0
    BY <2>1, <1>1 DEF CountsOf
  <2> QED BY <2>1, <2>2, <2>3, <1>1
<1>5. Begins(a, c) /\ Count(c) = Count(a) + (width(r) + 1)
  BY <1>1, <1>4, <1>c DEF Count
<1>6. ASSUME NEW n \in (Count(a) + 1)..(Count(a) + (width(r) + 1))
      PROVE  IDSeq(c)[n] = r.First + (n - 1 - Count(a))
  <2>1. n \in Int /\ Len(a) + 1 \in 1..Len(c) /\ (Len(a) + 1) - 1 = Len(a) + 0 /\ 0 \in 0..1 /\ 1 \in 0..1
    BY <1>3, <1>4
  <2>2. Counts(c)[(Len(a) + 1) - 1] = Count(a) + Counts(b)[0] /\ Counts(c)[Len(a) + 1] = Count(a) + Counts(b)[1]
    BY <1>3, <2>1
  <2>3. Counts(c)[(Len(a) + 1) - 1] = Count(a) /\ Counts(c)[Len(a) + 1] = Count(a) + (width(r) + 1)
    BY <1>4, <2>2
  <2>4. Counts(c)[(Len(a) + 1) - 1] < n /\ n <= Counts(c)[Len(a) + 1]
    BY <1>4, <2>1, <2>3
  <2>5. IDSeq(c)[n] = c[Len(a) + 1].First + (n - 1 - Counts(c)[(Len(a) + 1) - 1])
    BY <1>3, <2>1, <2>4, IDSeqAt
  <2> QED BY <1>3, <2>3, <2>5
<1> QED BY <1>2, <1>5, <1>6

-----------------------------------------------------------------------------
(* The rounds of the loops over reservations *)

DiscardState == [ranges : Seq(Range2), n : Int]

\* What a shorter and a longer range are.
LEMMA TakeDropType ==
    ASSUME NEW r \in Range2, NEW n \in Int
    PROVE  /\ r.First \in Int /\ r.Last \in Int /\ width(r) = r.Last - r.First /\ width(r) \in Int
           /\ Take(r, n) \in Range2 /\ Take(r, n).First = r.First /\ Take(r, n).Last = r.First + n - 1
           /\ Drop(r, n) \in Range2 /\ Drop(r, n).First = r.First + n /\ Drop(r, n).Last = r.Last
BY DEF Take, Drop, width, Range2

\* A round of Discard keeps the types.
LEMMA DiscardFirstType ==
    ASSUME NEW s \in DiscardState
    PROVE  DiscardFirst(s) \in DiscardState
<1> DEFINE r == Head(s.ranges)
<1>1. CASE s.n = 0 \/ s.ranges = <<>>
  BY <1>1 DEF DiscardFirst
<1>2. CASE ~(s.n = 0 \/ s.ranges = <<>>)
  <2>1. s.ranges \in Seq(Range2) /\ s.n \in Int /\ s.ranges # <<>>
    BY <1>2 DEF DiscardState
  <2>2. r \in Range2 /\ Tail(s.ranges) \in Seq(Range2)
    BY <2>1
  <2>3. Drop(r, s.n) \in Range2 /\ width(r) \in Int
    BY <2>1, <2>2, TakeDropType
  <2>4. [s.ranges EXCEPT ![1] = Drop(r, s.n)] \in Seq(Range2)
    <3> HIDE DEF r
    <3> QED BY <2>1, <2>3
  <2>5. DiscardFirst(s) = IF s.n - 1 < width(r)
                          THEN [ranges |-> [s.ranges EXCEPT ![1] = Drop(r, s.n)], n |-> 0]
                          ELSE [ranges |-> Tail(s.ranges), n |-> s.n - (width(r) + 1)]
    BY <1>2 DEF DiscardFirst
  <2> HIDE DEF r
  <2>6. CASE s.n - 1 < width(r)
    BY <2>4, <2>5, <2>6 DEF DiscardState
  <2>7. CASE ~(s.n - 1 < width(r))
    BY <2>1, <2>2, <2>3, <2>5, <2>7 DEF DiscardState
  <2> QED BY <2>6, <2>7
<1> QED BY <1>1, <1>2

\* A round of Prefix keeps the types.
LEMMA PrefixNextType ==
    ASSUME NEW s \in DiscardState, NEW r \in Range2
    PROVE  PrefixNext(s, r) \in DiscardState
<1>1. s.ranges \in Seq(Range2) /\ s.n \in Int
  BY DEF DiscardState
<1>2. Take(r, s.n) \in Range2 /\ width(r) \in Int
  BY <1>1, TakeDropType
<1>3. Append(s.ranges, Take(r, s.n)) \in Seq(Range2) /\ Append(s.ranges, r) \in Seq(Range2) /\ s.n - (width(r) + 1) \in Int
  BY <1>1, <1>2
<1> QED BY <1>3 DEF PrefixNext, DiscardState

\* g records the rounds of Discard, and there are such rounds.
IsDiscardRun(g, a, k) ==
    /\ g \in [0..Len(a) -> DiscardState] /\ g[0] = [ranges |-> a, n |-> k]
    /\ \A i \in 1..Len(a) : g[i - 1] \in DiscardState /\ g[i] = DiscardFirst(g[i - 1])
    /\ Discard(a, k) = g[Len(a)]

LEMMA DiscardRun ==
    ASSUME NEW a \in Seq(Range2), NEW k \in Int
    PROVE  \E g : IsDiscardRun(g, a, k)
<1> DEFINE m == Len(a)
           S == DiscardState
           s0 == [ranges |-> a, n |-> k]
           Round(x, i) == DiscardFirst(x)
           F == CHOOSE f : f = [i \in 0..m |-> IF i = 0 THEN s0 ELSE Round(f[i - 1], i)]
           step == [i \in 1..m |-> [x \in S |-> Round(x, i)]]
<1>1. Discard(a, k) = F[m]
  BY DEF Discard, Iterate
<1>2. m \in Nat
  OBVIOUS
<1>3. s0 \in S
  BY DEF DiscardState
<1>4. ASSUME NEW x \in S, NEW i \in 1..m PROVE Round(x, i) \in S
  BY DiscardFirstType
<1>5. m = Len(a) /\ S = DiscardState /\ s0 = [ranges |-> a, n |-> k] /\ \A x, i : Round(x, i) = DiscardFirst(x)
  OBVIOUS
<1> HIDE DEF m, S, s0, Round, F
<1>6. step \in [1..m -> [S -> S]]
  BY <1>4
<1>7. PICK g : IsRun(g, S, m, s0, step)
  <2> HIDE DEF step
  <2> QED BY <1>2, <1>3, <1>6, RunExists
<1>8. /\ g \in [0..m -> S] /\ g[0] = s0
      /\ \A i \in 1..m : g[i - 1] \in S /\ g[i] = Round(g[i - 1], i)
  <2>1. g \in [0..m -> S] /\ g[0] = s0 /\ \A i \in 1..m : g[i] = step[i][g[i - 1]]
    BY <1>7 DEF IsRun
  <2>2. \A i \in 1..m : g[i - 1] \in S
    BY <1>2, <2>1
  <2> QED BY <2>1, <2>2
<1>9. g = [i \in 0..m |-> IF i = 0 THEN s0 ELSE Round(g[i - 1], i)]
  BY <1>2, <1>8
<1>10. F = [i \in 0..m |-> IF i = 0 THEN s0 ELSE Round(F[i - 1], i)]
  BY <1>9 DEF F
<1>11. \A i \in 0..m : F[i] = g[i]
  <2>1. Obeys(F, S, m, s0, step)
    BY <1>2, <1>10 DEF Obeys
  <2> HIDE DEF step
  <2> QED BY <1>2, <1>7, <2>1, RunUnique
<1>12. Discard(a, k) = g[m]
  BY <1>1, <1>2, <1>11
<1>13. IsDiscardRun(g, a, k)
  BY <1>5, <1>8, <1>12 DEF IsDiscardRun
<1> QED BY <1>13

\* g records the rounds of Prefix, and there are such rounds.
IsPrefixRun(g, a, k) ==
    /\ g \in [0..Len(a) -> DiscardState] /\ g[0] = [ranges |-> <<>>, n |-> k]
    /\ \A i \in 1..Len(a) : g[i - 1] \in DiscardState /\ g[i] = PrefixNext(g[i - 1], a[i])
    /\ Prefix(a, k) = g[Len(a)].ranges

LEMMA PrefixRun ==
    ASSUME NEW a \in Seq(Range2), NEW k \in Int
    PROVE  \E g : IsPrefixRun(g, a, k)
<1> DEFINE m == Len(a)
           S == DiscardState
           s0 == [ranges |-> <<>>, n |-> k]
           Round(x, i) == PrefixNext(x, a[i])
           F == CHOOSE f : f = [i \in 0..m |-> IF i = 0 THEN s0 ELSE Round(f[i - 1], i)]
           step == [i \in 1..m |-> [x \in S |-> Round(x, i)]]
<1>1. Prefix(a, k) = F[m].ranges
  BY DEF Prefix, ForEach
<1>2. m \in Nat
  OBVIOUS
<1>3. s0 \in S
  BY DEF DiscardState
<1>4. ASSUME NEW x \in S, NEW i \in 1..m PROVE Round(x, i) \in S
  BY PrefixNextType
<1>5. m = Len(a) /\ S = DiscardState /\ s0 = [ranges |-> <<>>, n |-> k] /\ \A x, i : Round(x, i) = PrefixNext(x, a[i])
  OBVIOUS
<1> HIDE DEF m, S, s0, Round, F
<1>6. step \in [1..m -> [S -> S]]
  BY <1>4
<1>7. PICK g : IsRun(g, S, m, s0, step)
  <2> HIDE DEF step
  <2> QED BY <1>2, <1>3, <1>6, RunExists
<1>8. /\ g \in [0..m -> S] /\ g[0] = s0
      /\ \A i \in 1..m : g[i - 1] \in S /\ g[i] = Round(g[i - 1], i)
  <2>1. g \in [0..m -> S] /\ g[0] = s0 /\ \A i \in 1..m : g[i] = step[i][g[i - 1]]
    BY <1>7 DEF IsRun
  <2>2. \A i \in 1..m : g[i - 1] \in S
    BY <1>2, <2>1
  <2> QED BY <2>1, <2>2
<1>9. g = [i \in 0..m |-> IF i = 0 THEN s0 ELSE Round(g[i - 1], i)]
  BY <1>2, <1>8
<1>10. F = [i \in 0..m |-> IF i = 0 THEN s0 ELSE Round(F[i - 1], i)]
  BY <1>9 DEF F
<1>11. \A i \in 0..m : F[i] = g[i]
  <2>1. Obeys(F, S, m, s0, step)
    BY <1>2, <1>10 DEF Obeys
  <2> HIDE DEF step
  <2> QED BY <1>2, <1>7, <2>1, RunUnique
<1>12. Prefix(a, k) = g[m].ranges
  BY <1>1, <1>2, <1>11
<1>13. IsPrefixRun(g, a, k)
  BY <1>5, <1>8, <1>12 DEF IsPrefixRun
<1> QED BY <1>13

\* A list without its first IDs twice.
LEMMA AfterTwice ==
    ASSUME NEW a, NEW b, NEW c, NEW m \in Nat, NEW l \in Nat,
           Forward(a), After(a, b, m), After(b, c, l)
    PROVE  After(a, c, m + l)
<1>1. Forward(b) /\ Forward(c) /\ Count(a) \in Nat /\ Count(b) \in Nat /\ Count(c) \in Nat
  BY ForwardCounts DEF After
<1>2. Count(b) = Count(a) - m /\ Count(c) = Count(b) - l
  BY DEF After
<1>3. ASSUME NEW n \in 1..Count(c) PROVE IDSeq(c)[n] = IDSeq(a)[n + (m + l)]
  <2>1. n + l \in 1..Count(b) /\ (n + l) + m = n + (m + l)
    BY <1>1, <1>2
  <2>2. IDSeq(c)[n] = IDSeq(b)[n + l] /\ IDSeq(b)[n + l] = IDSeq(a)[(n + l) + m]
    BY <2>1 DEF After
  <2> QED BY <2>1, <2>2
<1> QED BY <1>1, <1>2, <1>3 DEF After

\* Ranges that are apart stay so when the first one is dropped or shortened.
LEMMA ApartDrop ==
    ASSUME NEW a, Forward(a), a # <<>>, Apart(a)
    PROVE  /\ Apart(Tail(a))
           /\ \A m \in 1..width(a[1]) : Apart([a EXCEPT ![1] = Drop(a[1], m)])
<1>1. /\ Len(a) \in Nat /\ a \in Seq(Range2) /\ DOMAIN a = 1..Len(a) /\ Len(a) >= 1
      /\ \A i \in 1..Len(a) : a[i] \in Range2 /\ a[i].First \in Int /\ a[i].Last \in Int /\ width(a[i]) = a[i].Last - a[i].First
  <2>1. a \in Seq(Range2) /\ Len(a) \in Nat
    BY ForwardCounts
  <2>2. Len(a) >= 1
    BY <2>1
  <2> QED BY <2>2, ForwardCounts
<1>2. Apart(Tail(a))
  <2> DEFINE b == Tail(a)
  <2>1. DOMAIN b = 1..(Len(a) - 1) /\ \A i \in 1..(Len(a) - 1) : b[i] = a[i + 1] /\ i + 1 \in 1..Len(a)
    BY <1>1
  <2> HIDE DEF b
  <2>2. ASSUME NEW i \in DOMAIN b, NEW j \in DOMAIN b
        PROVE  /\ b[i].First <= b[i].Last
               /\ i # j => b[i].Last < b[j].First \/ b[j].Last < b[i].First
    <3>1. i + 1 \in DOMAIN a /\ j + 1 \in DOMAIN a /\ b[i] = a[i + 1] /\ b[j] = a[j + 1] /\ (i # j => i + 1 # j + 1)
      BY <1>1, <2>1
    <3> QED BY <3>1 DEF Apart
  <2>3. Apart(b)
    BY <2>2 DEF Apart
  <2> QED BY <2>3 DEF b
<1>3. ASSUME NEW m \in 1..width(a[1]) PROVE Apart([a EXCEPT ![1] = Drop(a[1], m)])
  <2> DEFINE b == [a EXCEPT ![1] = Drop(a[1], m)]
  <2>1. 1 \in 1..Len(a) /\ a[1].First \in Int /\ a[1].Last \in Int /\ width(a[1]) = a[1].Last - a[1].First /\ m \in Nat /\ m <= width(a[1]) /\ a[1] \in Range2
    BY <1>1
  <2>2. Drop(a[1], m).First = a[1].First + m /\ Drop(a[1], m).Last = a[1].Last
    <3>1. m \in Int
      BY <2>1
    <3> QED BY <2>1, <3>1, TakeDropType
  <2>3. /\ DOMAIN b = DOMAIN a
        /\ \A i \in DOMAIN a : b[i] = IF i = 1 THEN Drop(a[1], m) ELSE a[i]
    BY <1>1
  <2> HIDE DEF b
  <2>4. \A i \in DOMAIN a : a[i].First \in Int /\ b[i].First \in Int /\ b[i].Last = a[i].Last /\ a[i].Last \in Int /\ a[i].First <= b[i].First /\ b[i].First <= b[i].Last
    <3>1. ASSUME NEW i \in DOMAIN a
          PROVE  a[i].First \in Int /\ b[i].First \in Int /\ b[i].Last = a[i].Last /\ a[i].Last \in Int /\ a[i].First <= b[i].First /\ b[i].First <= b[i].Last
      <4>1. a[i].First \in Int /\ a[i].Last \in Int /\ a[i].First <= a[i].Last
        BY <1>1 DEF Apart
      <4>2. CASE i = 1
        BY <4>2, <2>1, <2>2, <2>3
      <4>3. CASE i # 1
        BY <4>1, <4>3, <2>3
      <4> QED BY <4>2, <4>3
    <3> QED BY <3>1
  <2>5. ASSUME NEW i \in DOMAIN b, NEW j \in DOMAIN b
        PROVE  /\ b[i].First <= b[i].Last
               /\ i # j => b[i].Last < b[j].First \/ b[j].Last < b[i].First
    <3>1. i # j => a[i].Last < a[j].First \/ a[j].Last < a[i].First
      BY <2>3 DEF Apart
    <3> QED BY <3>1, <2>3, <2>4
  <2>6. Apart(b)
    BY <2>5 DEF Apart
  <2> QED BY <2>6 DEF b
<1> QED BY <1>2, <1>3

\* A list of ranges that are apart is forward.
LEMMA ApartForward ==
    ASSUME NEW a \in Seq(Range2), Apart(a)
    PROVE  Forward(a)
BY DEF Apart, Forward

\* Discard takes the first IDs off, and is short of IDs only when none are left.
LEMMA DiscardIDs ==
    ASSUME NEW a \in Seq(Range2), Apart(a), NEW k \in Nat
    PROVE  LET d == Discard(a, k)
           IN /\ d.n \in 0..k /\ After(a, d.ranges, k - d.n) /\ Apart(d.ranges)
              /\ d.n # 0 => d.ranges = <<>>
<1> DEFINE Inv(s, i) ==
               /\ s.n \in 0..k /\ After(a, s.ranges, k - s.n) /\ Apart(s.ranges)
               /\ s.n # 0 => Len(s.ranges) <= Len(a) - i
<1>1. Forward(a) /\ Len(a) \in Nat /\ Count(a) \in Nat
  BY ApartForward, ForwardCounts
<1>2. PICK g : /\ g \in [0..Len(a) -> DiscardState] /\ g[0] = [ranges |-> a, n |-> k]
               /\ \A i \in 1..Len(a) : g[i - 1] \in DiscardState /\ g[i] = DiscardFirst(g[i - 1])
               /\ Discard(a, k) = g[Len(a)]
  <2>1. PICK g : IsDiscardRun(g, a, k)
    BY DiscardRun
  <2> QED BY <2>1 DEF IsDiscardRun
<1>3. Inv(g[0], 0)
  <2>1. After(a, a, 0)
    <3>1. \A n \in 1..Count(a) : n + 0 = n
      BY <1>1
    <3> QED BY <1>1, <3>1 DEF After
  <2> QED BY <1>1, <1>2, <2>1
<1>4. ASSUME NEW i \in 1..Len(a), Inv(g[i - 1], i - 1) PROVE Inv(g[i], i)
  <2> DEFINE s == g[i - 1]
             r == Head(s.ranges)
  <2>1. g[i] = DiscardFirst(s) /\ s \in DiscardState
    BY <1>2
  <2>2. /\ s.n \in 0..k /\ After(a, s.ranges, k - s.n) /\ Apart(s.ranges) /\ Forward(s.ranges)
        /\ s.n # 0 => Len(s.ranges) <= Len(a) - (i - 1)
        /\ s.ranges \in Seq(Range2) /\ Len(s.ranges) \in Nat
    BY <1>4, <2>1 DEF After, DiscardState
  <2> HIDE DEF s
  <2>3. CASE s.n = 0 \/ s.ranges = <<>>
    <3>1. g[i] = s
      BY <2>1, <2>3 DEF DiscardFirst
    <3>2. s.n # 0 => Len(s.ranges) <= Len(a) - i
      BY <1>1, <2>2, <2>3
    <3> QED BY <2>2, <3>1, <3>2
  <2>4. CASE ~(s.n = 0 \/ s.ranges = <<>>)
    <3>1. r = s.ranges[1] /\ s.ranges # <<>> /\ s.n \in 1..k /\ Len(s.ranges) >= 1
      BY <2>2, <2>4
    <3>2. width(r) \in Nat
      <4>1. 1 \in 1..Len(s.ranges)
        BY <2>2, <3>1
      <4> QED BY <2>2, <3>1, <4>1, ForwardCounts
    <3>3. CASE s.n - 1 < width(r)
      <4>1. g[i] = [ranges |-> [s.ranges EXCEPT ![1] = Drop(r, s.n)], n |-> 0]
        BY <2>1, <2>4, <3>3 DEF DiscardFirst
      <4>2. s.n \in 1..width(s.ranges[1])
        BY <3>1, <3>2, <3>3
      <4>3. After(s.ranges, [s.ranges EXCEPT ![1] = Drop(r, s.n)], s.n)
        BY <2>2, <3>1, <4>2, AfterDrop
      <4>4. Apart([s.ranges EXCEPT ![1] = Drop(r, s.n)])
        BY <2>2, <3>1, <4>2, ApartDrop
      <4>5. k - s.n \in Nat /\ s.n \in Nat /\ (k - s.n) + s.n = k - 0
        BY <2>2
      <4>6. After(a, [s.ranges EXCEPT ![1] = Drop(r, s.n)], (k - s.n) + s.n)
        BY <1>1, <2>2, <4>3, <4>5, AfterTwice
      <4> HIDE DEF r
      <4> QED BY <4>1, <4>4, <4>5, <4>6
    <3>4. CASE ~(s.n - 1 < width(r))
      <4>1. g[i] = [ranges |-> Tail(s.ranges), n |-> s.n - (width(r) + 1)]
        BY <2>1, <2>4, <3>4 DEF DiscardFirst
      <4>2. After(s.ranges, Tail(s.ranges), width(r) + 1) /\ Apart(Tail(s.ranges))
        BY <2>2, <3>1, AfterTail, ApartDrop
      <4>3. /\ k - s.n \in Nat /\ width(r) + 1 \in Nat
            /\ (k - s.n) + (width(r) + 1) = k - (s.n - (width(r) + 1))
            /\ s.n - (width(r) + 1) \in 0..k
        <5> DEFINE w == width(r)
        <5>1. w \in Nat /\ s.n \in 1..k /\ ~(s.n - 1 < w)
          BY <3>1, <3>2, <3>4
        <5> HIDE DEF w
        <5>2. /\ k - s.n \in Nat /\ w + 1 \in Nat
              /\ (k - s.n) + (w + 1) = k - (s.n - (w + 1))
              /\ s.n - (w + 1) \in 0..k
          BY <5>1
        <5> QED BY <5>2 DEF w
      <4>4. After(a, Tail(s.ranges), (k - s.n) + (width(r) + 1))
        BY <1>1, <2>2, <4>2, <4>3, AfterTwice
      <4>5. Len(Tail(s.ranges)) <= Len(a) - i
        BY <1>1, <2>2, <3>1
      <4> HIDE DEF r
      <4> QED BY <4>1, <4>2, <4>3, <4>4, <4>5
    <3> QED BY <3>3, <3>4
  <2> QED BY <2>3, <2>4
<1>5. Inv(g[Len(a)], Len(a))
  <2> DEFINE B == {i \in 0..Len(a) : Inv(g[i], i)}
  <2> HIDE DEF Inv
  <2>1. 0 \in B
    BY <1>1, <1>3
  <2>2. ASSUME NEW i \in 1..Len(a), i - 1 \in B PROVE i \in B
    BY <1>1, <1>4, <2>2
  <2>3. \A i \in 0..Len(a) : i \in B
    <3> HIDE DEF B
    <3> QED BY <1>1, <2>1, <2>2, SetInduction
  <2> QED BY <1>1, <2>3
<1>6. g[Len(a)].ranges \in Seq(Range2)
  BY <1>1, <1>2 DEF DiscardState
<1>7. g[Len(a)].n # 0 => g[Len(a)].ranges = <<>>
  <2>1. g[Len(a)].n # 0 => Len(g[Len(a)].ranges) <= 0
    BY <1>1, <1>5
  <2> QED BY <1>6, <2>1
<1> QED BY <1>2, <1>5, <1>7

\* A beginning of a list that ends with a range is extended by a beginning of the
\* next range.
LEMMA BeginsNext ==
    ASSUME NEW a, Forward(a), NEW i \in 1..Len(a), NEW b, Forward(b), Begins(b, a),
           Count(b) = Counts(a)[i - 1],
           NEW r \in Range2, r.First = a[i].First, r.First <= r.Last, r.Last <= a[i].Last
    PROVE  /\ Begins(Append(b, r), a) /\ Forward(Append(b, r))
           /\ Count(Append(b, r)) = Count(b) + (width(r) + 1)
           /\ r = a[i] => Count(Append(b, r)) = Counts(a)[i]
<1> DEFINE c == Append(b, r)
           C == Counts(a)
<1>1. /\ Begins(b, c) /\ Count(c) = Count(b) + (width(r) + 1)
      /\ \A n \in (Count(b) + 1)..(Count(b) + (width(r) + 1)) : IDSeq(c)[n] = r.First + (n - 1 - Count(b))
  BY AppendIDs
<1> HIDE DEF c
<1>2. /\ Count(a) \in Nat /\ Count(b) \in Nat /\ Len(a) \in Nat
      /\ a[i].First \in Int /\ a[i].Last \in Int /\ width(a[i]) = a[i].Last - a[i].First
  BY ForwardCounts
<1>3. C[i] = C[i - 1] + (width(a[i]) + 1) /\ C[i - 1] = Count(b) /\ C[i] \in Int
  <2>1. CountsOf(C, a)
    BY ForwardCounts
  <2>2. i \in 0..Len(a) /\ i - 1 \in 0..Len(a)
    BY <1>2
  <2> QED BY <2>1, <2>2 DEF CountsOf
<1>4. r.First \in Int /\ r.Last \in Int /\ width(r) = r.Last - r.First /\ width(r) \in Nat /\ width(r) <= width(a[i])
  <2>1. r.First \in Int /\ r.Last \in Int /\ width(r) = r.Last - r.First
    BY DEF width, Range2
  <2> QED BY <2>1, <1>2
<1>5. Count(c) <= C[i] /\ C[i] <= Count(a)
  <2>1. Count(c) <= C[i]
    BY <1>1, <1>2, <1>3, <1>4, SMTT(30)
  <2>2. C[i] <= Count(a)
    <3>1. CASE i = Len(a)
      BY <3>1, <1>2 DEF Count
    <3>2. CASE i # Len(a)
      <4>1. i \in 0..Len(a) /\ Len(a) \in 0..Len(a) /\ i < Len(a)
        BY <3>2, <1>2
      <4>2. C[i] < C[Len(a)]
        BY <4>1, CountsGrow
      <4> QED BY <4>2, <1>2, <1>3 DEF Count
    <3> QED BY <3>1, <3>2
  <2> QED BY <2>1, <2>2
<1>6. ASSUME NEW n \in 1..Count(c) PROVE IDSeq(a)[n] = IDSeq(c)[n]
  <2>1. CASE n <= Count(b)
    <3>1. n \in 1..Count(b)
      BY <2>1, <1>2
    <3> QED BY <3>1, <1>1 DEF Begins
  <2>2. CASE ~(n <= Count(b))
    <3>1. n \in (Count(b) + 1)..(Count(b) + (width(r) + 1)) /\ n \in Int
      BY <2>2, <1>1, <1>2, <1>4
    <3>2. IDSeq(c)[n] = r.First + (n - 1 - Count(b))
      BY <3>1, <1>1
    <3>3. C[i - 1] < n /\ n <= C[i]
      <4>1. Count(c) = Count(b) + (width(r) + 1) /\ Count(c) \in Nat
        BY <1>1, <1>2, <1>4, SMTT(30)
      <4> QED BY <2>2, <3>1, <4>1, <1>2, <1>3, <1>5
    <3>4. IDSeq(a)[n] = a[i].First + (n - 1 - C[i - 1])
      BY <3>1, <3>3, IDSeqAt
    <3> QED BY <3>2, <3>4, <1>3
  <2> QED BY <2>1, <2>2
<1>7. Forward(c)
  BY <1>1 DEF Begins
<1>8. Begins(c, a)
  <2>1. Count(c) \in Nat
    BY <1>7, ForwardCounts
  <2> QED BY <2>1, <1>2, <1>3, <1>5, <1>6 DEF Begins
<1> QED BY <1>1, <1>3, <1>7, <1>8 DEF c

\* Prefix is a beginning with as many IDs as are asked for.
LEMMA PrefixIDs ==
    ASSUME NEW a, Forward(a), NEW k \in 0..Count(a)
    PROVE  Begins(Prefix(a, k), a) /\ Forward(Prefix(a, k)) /\ Count(Prefix(a, k)) = k
<1> DEFINE Inv(s, i) ==
               /\ s.n \in Nat /\ Forward(s.ranges) /\ Begins(s.ranges, a)
               /\ Count(s.ranges) + s.n = k
               /\ s.n # 0 => Count(s.ranges) = Counts(a)[i]
<1>1. /\ a \in Seq(Range2) /\ Len(a) \in Nat /\ Count(a) \in Nat /\ k \in Nat /\ k \in Int /\ k <= Count(a)
      /\ Counts(a)[0] = 0
      /\ \A i \in 1..Len(a) : a[i] \in Range2 /\ a[i].First \in Int /\ a[i].Last \in Int /\ width(a[i]) = a[i].Last - a[i].First /\ width(a[i]) \in Nat
  <2>1. Count(a) \in Nat /\ CountsOf(Counts(a), a)
    BY ForwardCounts
  <2> QED BY <2>1, ForwardCounts DEF CountsOf
<1>2. PICK g : /\ g \in [0..Len(a) -> DiscardState] /\ g[0] = [ranges |-> <<>>, n |-> k]
               /\ \A i \in 1..Len(a) : g[i - 1] \in DiscardState /\ g[i] = PrefixNext(g[i - 1], a[i])
               /\ Prefix(a, k) = g[Len(a)].ranges
  <2>1. a \in Seq(Range2) /\ k \in Int
    BY <1>1
  <2>2. PICK g : IsPrefixRun(g, a, k)
    BY <2>1, PrefixRun
  <2> QED BY <2>2 DEF IsPrefixRun
<1>3. Inv(g[0], 0)
  <2>1. Forward(<<>>) /\ Count(<<>>) = 0
    <3>1. Forward(<<>>) /\ Len(<<>>) = 0
      BY DEF Forward
    <3>2. Counts(<<>>)[0] = 0
      BY <3>1, ForwardCounts DEF CountsOf
    <3> QED BY <3>1, <3>2 DEF Count
  <2>2. Begins(<<>>, a)
    BY <1>1, <2>1 DEF Begins
  <2> QED BY <1>1, <1>2, <2>1, <2>2
<1>4. ASSUME NEW i \in 1..Len(a), Inv(g[i - 1], i - 1) PROVE Inv(g[i], i)
  <2> DEFINE s == g[i - 1]
             r == a[i]
  <2>1. g[i] = PrefixNext(s, r)
    BY <1>2
  <2>2. /\ s.n \in Nat /\ Forward(s.ranges) /\ Begins(s.ranges, a)
        /\ Count(s.ranges) + s.n = k /\ Count(s.ranges) \in Nat
        /\ s.n # 0 => Count(s.ranges) = Counts(a)[i - 1]
    BY <1>4, ForwardCounts
  <2> HIDE DEF s
  <2>3. CASE s.n = 0
    BY <2>1, <2>2, <2>3 DEF PrefixNext
  <2>4. CASE s.n # 0 /\ s.n - 1 < width(r)
    <3>1. g[i] = [ranges |-> Append(s.ranges, Take(r, s.n)), n |-> 0]
      BY <2>1, <2>4 DEF PrefixNext
    <3>2. /\ Take(r, s.n) \in Range2 /\ Take(r, s.n).First = r.First /\ Take(r, s.n).Last = r.First + s.n - 1
      <4>1. r \in Range2 /\ s.n \in Int
        BY <1>1, <2>2
      <4> QED BY <4>1, TakeDropType
    <3>3. r.First <= r.First + s.n - 1 /\ r.First + s.n - 1 <= r.Last /\ width(Take(r, s.n)) = s.n - 1
      <4>1. r.First \in Int /\ r.Last \in Int /\ width(r) = r.Last - r.First
        BY <1>1
      <4>2. width(Take(r, s.n)) = (r.First + s.n - 1) - r.First
        BY <3>2 DEF width
      <4> QED BY <4>1, <4>2, <2>2, <2>4, SMTT(30)
    <3>4. /\ Begins(Append(s.ranges, Take(r, s.n)), a) /\ Forward(Append(s.ranges, Take(r, s.n)))
          /\ Count(Append(s.ranges, Take(r, s.n))) = Count(s.ranges) + (width(Take(r, s.n)) + 1)
      BY <2>2, <2>4, <3>2, <3>3, BeginsNext
    <3>5. Count(Append(s.ranges, Take(r, s.n))) + 0 = k
      BY <3>4, <3>3, <2>2, <1>1
    <3> QED BY <3>1, <3>4, <3>5
  <2>5. CASE s.n # 0 /\ ~(s.n - 1 < width(r))
    <3>1. g[i] = [ranges |-> Append(s.ranges, r), n |-> s.n - (width(r) + 1)]
      BY <2>1, <2>5 DEF PrefixNext
    <3>2. r \in Range2 /\ r.First \in Int /\ r.Last \in Int /\ r.First <= r.Last /\ width(r) \in Nat
      BY <1>1 DEF Forward
    <3>3. /\ Begins(Append(s.ranges, r), a) /\ Forward(Append(s.ranges, r))
          /\ Count(Append(s.ranges, r)) = Count(s.ranges) + (width(r) + 1)
          /\ Count(Append(s.ranges, r)) = Counts(a)[i]
      BY <2>2, <2>5, <3>2, BeginsNext
    <3>4. s.n - (width(r) + 1) \in Nat /\ Count(Append(s.ranges, r)) + (s.n - (width(r) + 1)) = k
      <4> DEFINE w == width(r)
      <4>1. w \in Nat /\ s.n \in Nat /\ s.n # 0 /\ ~(s.n - 1 < w)
        BY <2>2, <2>5, <3>2
      <4>2. Count(Append(s.ranges, r)) = Count(s.ranges) + (w + 1) /\ Count(s.ranges) + s.n = k /\ Count(s.ranges) \in Nat
        BY <2>2, <3>3
      <4> HIDE DEF w
      <4>3. s.n - (w + 1) \in Nat
        BY <4>1
      <4>4. (Count(s.ranges) + (w + 1)) + (s.n - (w + 1)) = k
        BY <4>1, <4>2
      <4> QED BY <4>2, <4>3, <4>4 DEF w
    <3> HIDE DEF r
    <3> QED BY <3>1, <3>3, <3>4
  <2> QED BY <2>3, <2>4, <2>5
<1>5. Inv(g[Len(a)], Len(a))
  <2> DEFINE B == {i \in 0..Len(a) : Inv(g[i], i)}
  <2> HIDE DEF Inv
  <2>1. 0 \in B
    BY <1>1, <1>3
  <2>2. ASSUME NEW i \in 1..Len(a), i - 1 \in B PROVE i \in B
    BY <1>1, <1>4, <2>2
  <2>3. \A i \in 0..Len(a) : i \in B
    <3> HIDE DEF B
    <3> QED BY <1>1, <2>1, <2>2, SetInduction
  <2> QED BY <1>1, <2>3
<1>6. Prefix(a, k) = g[Len(a)].ranges
  BY <1>2
<1>7. g[Len(a)].n = 0
  <2>1. Counts(a)[Len(a)] = Count(a) /\ Count(g[Len(a)].ranges) \in Nat
    BY <1>5, ForwardCounts DEF Count
  <2> QED BY <1>1, <1>5, <2>1
<1>8. Count(g[Len(a)].ranges) \in Nat
  BY <1>5, ForwardCounts
<1> QED BY <1>1, <1>5, <1>6, <1>7, <1>8

-----------------------------------------------------------------------------
(* The set of the IDs of a list *)

\* An ID of a list is in one of its ranges.
LEMMA InIDs ==
    ASSUME NEW a \in Seq(Range2)
    PROVE  \A x : x \in IDsOf(a) <=> x \in Int /\ \E i \in 1..Len(a) : a[i].First <= x /\ x <= a[i].Last
<1>1. DOMAIN a = 1..Len(a) /\ \A i \in 1..Len(a) : a[i] \in Range2
  OBVIOUS
<1>2. \A i \in 1..Len(a) : a[i].First \in Int /\ a[i].Last \in Int
  BY <1>1 DEF Range2
<1>3. ASSUME NEW x, x \in IDsOf(a)
      PROVE  x \in Int /\ \E i \in 1..Len(a) : a[i].First <= x /\ x <= a[i].Last
  <2>1. PICK r \in ToSet(a) : x \in r.First..r.Last
    BY <1>3 DEF IDsOf
  <2>2. PICK i \in 1..Len(a) : r = a[i]
    BY <1>1, <2>1 DEF ToSet
  <2> QED BY <1>2, <2>1, <2>2
<1>4. ASSUME NEW x \in Int, NEW i \in 1..Len(a), a[i].First <= x, x <= a[i].Last
      PROVE  x \in IDsOf(a)
  <2>1. x \in a[i].First..a[i].Last /\ a[i] \in ToSet(a)
    BY <1>1, <1>2, <1>4 DEF ToSet
  <2> HIDE DEF ToSet
  <2> QED BY <2>1 DEF IDsOf
<1> QED BY <1>3, <1>4

\* The IDs of a list are the elements of IDSeq.
LEMMA IDsAsSeq ==
    ASSUME NEW a, Forward(a)
    PROVE  /\ \A n \in 1..Count(a) : IDSeq(a)[n] \in IDsOf(a)
           /\ \A x \in IDsOf(a) : \E n \in 1..Count(a) : x = IDSeq(a)[n]
<1> DEFINE C == Counts(a)
<1>1. /\ a \in Seq(Range2) /\ Len(a) \in Nat /\ Count(a) \in Nat
      /\ \A i \in 1..Len(a) : a[i].First \in Int /\ a[i].Last \in Int /\ width(a[i]) = a[i].Last - a[i].First
  BY ForwardCounts
<1>2. \A i \in 1..Len(a) : C[i - 1] \in Int /\ C[i] = C[i - 1] + (width(a[i]) + 1)
  <2>1. CountsOf(C, a)
    BY ForwardCounts
  <2>2. \A i \in 1..Len(a) : i - 1 \in 0..Len(a)
    BY <1>1
  <2> QED BY <2>1, <2>2 DEF CountsOf
<1>3. ASSUME NEW n \in 1..Count(a) PROVE IDSeq(a)[n] \in IDsOf(a)
  <2>1. PICK i \in 1..Len(a) : /\ C[i - 1] < n /\ n <= C[i]
                               /\ IDSeq(a)[n] = a[i].First + (n - 1 - C[i - 1])
    BY IDSeqIn
  <2> DEFINE x == IDSeq(a)[n]
  <2>2. x \in Int /\ a[i].First <= x /\ x <= a[i].Last
    <3> HIDE DEF C
    <3> QED BY <1>1, <1>2, <2>1, SMTT(30)
  <2> HIDE DEF x
  <2>3. x \in IDsOf(a)
    BY <1>1, <2>2, InIDs
  <2> QED BY <2>3 DEF x
<1>4. ASSUME NEW x \in IDsOf(a) PROVE \E n \in 1..Count(a) : x = IDSeq(a)[n]
  <2>1. x \in Int /\ \E i \in 1..Len(a) : a[i].First <= x /\ x <= a[i].Last
    BY <1>1, InIDs
  <2>2. PICK i \in 1..Len(a) : a[i].First <= x /\ x <= a[i].Last
    BY <2>1
  <2> DEFINE n == C[i - 1] + (x - a[i].First) + 1
  <2>3. n \in Int /\ C[i - 1] < n /\ n <= C[i] /\ a[i].First + (n - 1 - C[i - 1]) = x
    <3>1. a[i].First \in Int /\ a[i].Last \in Int /\ C[i] = C[i - 1] + ((a[i].Last - a[i].First) + 1) /\ C[i - 1] \in Int
      BY <1>1, <1>2
    <3>2. x \in Int /\ a[i].First <= x /\ x <= a[i].Last
      BY <2>1, <2>2
    <3>3. PICK p \in Int, f \in Int, l \in Int : p = C[i - 1] /\ f = a[i].First /\ l = a[i].Last
      BY <3>1
    <3>4. C[i] = p + ((l - f) + 1) /\ n = p + (x - f) + 1 /\ f <= x /\ x <= l
      BY <3>1, <3>2, <3>3
    <3>5. n \in Int /\ p < n /\ n <= p + ((l - f) + 1) /\ f + (n - 1 - p) = x
      <4> HIDE DEF n
      <4> QED BY <3>2, <3>4
    <3> HIDE DEF n, C
    <3> QED BY <3>3, <3>4, <3>5
  <2> HIDE DEF n
  <2>4. n \in 1..Count(a) /\ IDSeq(a)[n] = a[i].First + (n - 1 - C[i - 1])
    BY <2>3, IDSeqAt
  <2> QED BY <2>3, <2>4
<1> QED BY <1>3, <1>4

\* No ID is in a list twice when its ranges are apart.
LEMMA IDsDistinct ==
    ASSUME NEW a \in Seq(Range2), Apart(a), NEW n \in 1..Count(a), NEW m \in 1..Count(a),
           IDSeq(a)[n] = IDSeq(a)[m]
    PROVE  n = m
<1> DEFINE C == Counts(a)
<1>1. /\ Forward(a) /\ Len(a) \in Nat /\ Count(a) \in Nat /\ DOMAIN a = 1..Len(a)
      /\ \A i \in 1..Len(a) : a[i].First \in Int /\ a[i].Last \in Int /\ width(a[i]) = a[i].Last - a[i].First
  <2>1. Forward(a)
    BY ApartForward
  <2> QED BY <2>1, ForwardCounts
<1>2. PICK i \in 1..Len(a) : /\ C[i - 1] < n /\ n <= C[i] /\ C[i - 1] \in Int /\ C[i] = C[i - 1] + (width(a[i]) + 1)
                             /\ IDSeq(a)[n] = a[i].First + (n - 1 - C[i - 1])
  BY <1>1, IDSeqIn
<1>3. PICK j \in 1..Len(a) : /\ C[j - 1] < m /\ m <= C[j] /\ C[j - 1] \in Int /\ C[j] = C[j - 1] + (width(a[j]) + 1)
                             /\ IDSeq(a)[m] = a[j].First + (m - 1 - C[j - 1])
  BY <1>1, IDSeqIn
<1> HIDE DEF C
<1>4. n \in Int /\ m \in Int
  BY <1>1
<1>5. i = j
  <2>1. a[i].First <= IDSeq(a)[n] /\ IDSeq(a)[n] <= a[i].Last /\ IDSeq(a)[n] \in Int
    BY <1>1, <1>2, <1>4, SMTT(30)
  <2>2. a[j].First <= IDSeq(a)[n] /\ IDSeq(a)[n] <= a[j].Last
    BY <1>1, <1>3, <1>4
  <2>3. i # j => a[i].Last < a[j].First \/ a[j].Last < a[i].First
    BY <1>1 DEF Apart
  <2> QED BY <1>1, <2>1, <2>2, <2>3
<1>6. a[i].First \in Int /\ C[i - 1] \in Int /\ a[i].First + (n - 1 - C[i - 1]) = a[i].First + (m - 1 - C[i - 1])
  BY <1>1, <1>2, <1>3, <1>5
<1> QED BY <1>4, <1>6

\* A list without its first m IDs is without exactly those.
LEMMA AfterIDs ==
    ASSUME NEW a \in Seq(Range2), Apart(a), NEW b, NEW m \in Nat, After(a, b, m)
    PROVE  /\ IDsOf(b) \subseteq IDsOf(a) /\ m <= Count(a)
           /\ IDsOf(a) \ IDsOf(b) = {IDSeq(a)[n] : n \in 1..m}
<1>1. Forward(a) /\ Forward(b) /\ Count(a) \in Nat /\ Count(b) \in Nat /\ Count(b) = Count(a) - m /\ m <= Count(a)
  <2>1. Forward(a) /\ Forward(b) /\ Count(b) = Count(a) - m
    BY ApartForward DEF After
  <2>2. Count(a) \in Nat /\ Count(b) \in Nat
    BY <2>1, ForwardCounts
  <2> QED BY <2>1, <2>2
<1>2. \A n \in 1..Count(b) : n + m \in 1..Count(a) /\ IDSeq(b)[n] = IDSeq(a)[n + m]
  BY <1>1 DEF After
<1>3. ASSUME NEW x \in IDsOf(b) PROVE x \in IDsOf(a) /\ x \notin {IDSeq(a)[n] : n \in 1..m}
  <2>1. PICK n \in 1..Count(b) : x = IDSeq(b)[n]
    BY <1>1, IDsAsSeq
  <2>2. x = IDSeq(a)[n + m] /\ n + m \in 1..Count(a)
    BY <1>2, <2>1
  <2>3. x \in IDsOf(a)
    BY <1>1, <2>2, IDsAsSeq
  <2>4. ASSUME NEW l \in 1..m PROVE x # IDSeq(a)[l]
    <3>1. l \in 1..Count(a) /\ l # n + m
      BY <1>1
    <3> QED BY <2>2, <3>1, IDsDistinct
  <2> QED BY <2>3, <2>4
<1>4. ASSUME NEW x \in IDsOf(a), x \notin IDsOf(b) PROVE x \in {IDSeq(a)[n] : n \in 1..m}
  <2>1. PICK n \in 1..Count(a) : x = IDSeq(a)[n]
    BY <1>1, IDsAsSeq
  <2>2. CASE n <= m
    <3>1. n \in 1..m
      BY <2>2, <1>1
    <3> QED BY <2>1, <3>1
  <2>3. CASE ~(n <= m)
    <3>1. n - m \in 1..Count(b) /\ (n - m) + m = n
      BY <2>3, <1>1
    <3>2. x = IDSeq(b)[n - m]
      BY <1>2, <2>1, <3>1
    <3>3. x \in IDsOf(b)
      BY <1>1, <3>1, <3>2, IDsAsSeq
    <3> QED BY <3>3, <1>4
  <2> QED BY <2>2, <2>3
<1>5. ASSUME NEW n \in 1..m PROVE IDSeq(a)[n] \in IDsOf(a)
  <2>1. n \in 1..Count(a)
    BY <1>1
  <2> QED BY <1>1, <2>1, IDsAsSeq
<1> QED BY <1>1, <1>3, <1>4, <1>5

-----------------------------------------------------------------------------
(* The heap *)

\* The ranges of b are those of a in another order.
Shuffled(a, b) ==
    b \in [1..Len(a) -> Range2] /\ ToSet(b) = ToSet(a) /\ Apart(b)

\* The first n ranges are a heap by width.
Heap(a, n) == \A c \in 2..n : width(a[c \div 2]) <= width(a[c])

\* Lists of a length as functions.
LEMMA ListAsFunction ==
    /\ \A a \in Seq(Range2) : a \in [1..Len(a) -> Range2] /\ Len(a) \in Nat /\ DOMAIN a = 1..Len(a)
    /\ \A n \in Nat : \A a \in [1..n -> Range2] : a \in Seq(Range2) /\ Len(a) = n /\ DOMAIN a = 1..n
<1>1. ASSUME NEW n \in Nat, NEW a \in [1..n -> Range2] PROVE a \in Seq(Range2) /\ Len(a) = n /\ DOMAIN a = 1..n
  OBVIOUS
<1>2. ASSUME NEW a \in Seq(Range2) PROVE a \in [1..Len(a) -> Range2] /\ Len(a) \in Nat /\ DOMAIN a = 1..Len(a)
  OBVIOUS
<1> QED BY <1>1, <1>2

\* The tree: a parent is before its child, and a child is at twice the index of its
\* parent or next to that.
LEMMA TreeIndex ==
    \A c \in Nat : c >= 2 =>
        /\ c \div 2 \in Nat /\ c \div 2 >= 1 /\ c \div 2 < c
        /\ \A i \in Nat : c \div 2 = i <=> c = 2 * i \/ c = 2 * i + 1
OBVIOUS

\* Swapping two ranges.
LEMMA SwapShuffled ==
    ASSUME NEW n \in Nat, NEW a \in [1..n -> Range2], NEW i \in 1..n, NEW j \in 1..n
    PROVE  /\ Swap(a, i, j) \in [1..n -> Range2]
           /\ \A k \in 1..n : Swap(a, i, j)[k] = IF k = j THEN a[i] ELSE IF k = i THEN a[j] ELSE a[k]
           /\ Apart(a) => Shuffled(a, Swap(a, i, j))
<1> DEFINE b == Swap(a, i, j)
<1>1. /\ b \in [1..n -> Range2]
      /\ \A k \in 1..n : b[k] = IF k = j THEN a[i] ELSE IF k = i THEN a[j] ELSE a[k]
  BY DEF Swap
<1> HIDE DEF b
<1>2. DOMAIN a = 1..n /\ DOMAIN b = 1..n /\ Len(a) = n
  BY <1>1, ListAsFunction
<1>3. ToSet(b) = ToSet(a)
  <2>1. ASSUME NEW k \in 1..n PROVE \E l \in 1..n : b[k] = a[l]
    BY <1>1
  <2>2. ASSUME NEW k \in 1..n PROVE \E l \in 1..n : a[k] = b[l]
    <3>1. b[j] = a[i] /\ b[i] = a[j] /\ (k # i /\ k # j => b[k] = a[k])
      BY <1>1
    <3> QED BY <3>1
  <2>3. ToSet(a) = {a[l] : l \in 1..n} /\ ToSet(b) = {b[l] : l \in 1..n}
    BY <1>2 DEF ToSet
  <2>4. ASSUME NEW x \in {b[l] : l \in 1..n} PROVE x \in {a[l] : l \in 1..n}
    <3>1. PICK k \in 1..n : x = b[k]
      OBVIOUS
    <3>2. PICK l \in 1..n : b[k] = a[l]
      BY <2>1
    <3> QED BY <3>1, <3>2
  <2>5. {a[l] : l \in 1..n} \subseteq {b[l] : l \in 1..n}
    BY <2>2
  <2> QED BY <2>3, <2>4, <2>5
<1>4. ASSUME Apart(a) PROVE Apart(b)
  <2> DEFINE P(k) == IF k = j THEN i ELSE IF k = i THEN j ELSE k
  <2>1. \A k \in 1..n : P(k) \in 1..n /\ b[k] = a[P(k)]
    BY <1>1
  <2>2. \A k, l \in 1..n : k # l => P(k) # P(l)
    OBVIOUS
  <2> HIDE DEF P
  <2>3. ASSUME NEW k \in DOMAIN b, NEW l \in DOMAIN b
        PROVE  /\ b[k].First <= b[k].Last
               /\ k # l => b[k].Last < b[l].First \/ b[l].Last < b[k].First
    <3>1. P(k) \in DOMAIN a /\ P(l) \in DOMAIN a /\ b[k] = a[P(k)] /\ b[l] = a[P(l)] /\ (k # l => P(k) # P(l))
      BY <1>2, <2>1, <2>2
    <3> QED BY <3>1, <1>4 DEF Apart
  <2> QED BY <2>3 DEF Apart
<1> QED BY <1>1, <1>2, <1>3, <1>4 DEF b, Shuffled

\* A shuffled list shuffled again.
LEMMA ShuffledTwice ==
    ASSUME NEW a \in Seq(Range2), NEW b, NEW c, Shuffled(a, b), Shuffled(b, c)
    PROVE  Shuffled(a, c)
<1>1. Len(b) = Len(a)
  BY ListAsFunction DEF Shuffled
<1> QED BY <1>1 DEF Shuffled

HeapState(n) == [a : [1..n -> Range2], i : 1..n]

\* A round of going up, and where it goes.
LEMMA GoUpType ==
    ASSUME NEW n \in Nat, NEW s \in HeapState(n)
    PROVE  GoUp(s) \in HeapState(n) /\ Parent(s.i) \in 1..n
<1>1. s.a \in [1..n -> Range2] /\ s.i \in 1..n
  BY DEF HeapState
<1>2. Parent(s.i) \in 1..n
  BY <1>1, TreeIndex DEF Parent
<1>3. Swap(s.a, s.i, Parent(s.i)) \in [1..n -> Range2]
  BY <1>1, <1>2, SwapShuffled
<1> QED BY <1>1, <1>2, <1>3 DEF GoUp, HeapState

\* g records the rounds of SiftUp, and there are such rounds.
IsSiftUpRun(g, n, a, k) ==
    /\ g \in [0..k -> HeapState(n)] /\ g[0] = [a |-> a, i |-> k]
    /\ \A i \in 1..k : g[i - 1] \in HeapState(n) /\ g[i] = GoUp(g[i - 1])
    /\ SiftUp(a, k) = g[k].a

LEMMA SiftUpRun ==
    ASSUME NEW n \in Nat, NEW a \in [1..n -> Range2], NEW k \in 1..n
    PROVE  \E g : IsSiftUpRun(g, n, a, k)
<1> DEFINE m == k
           S == HeapState(n)
           s0 == [a |-> a, i |-> k]
           Round(x, i) == GoUp(x)
           F == CHOOSE f : f = [i \in 0..m |-> IF i = 0 THEN s0 ELSE Round(f[i - 1], i)]
           step == [i \in 1..m |-> [x \in S |-> Round(x, i)]]
<1>1. SiftUp(a, k) = F[m].a
  BY DEF SiftUp, Iterate
<1>2. m \in Nat
  OBVIOUS
<1>3. s0 \in S
  BY DEF HeapState
<1>4. ASSUME NEW x \in S, NEW i \in 1..m PROVE Round(x, i) \in S
  BY GoUpType
<1>5. m = k /\ S = HeapState(n) /\ s0 = [a |-> a, i |-> k] /\ \A x, i : Round(x, i) = GoUp(x)
  OBVIOUS
<1> HIDE DEF m, S, s0, Round, F
<1>6. step \in [1..m -> [S -> S]]
  BY <1>4
<1>7. PICK g : IsRun(g, S, m, s0, step)
  <2> HIDE DEF step
  <2> QED BY <1>2, <1>3, <1>6, RunExists
<1>8. /\ g \in [0..m -> S] /\ g[0] = s0
      /\ \A i \in 1..m : g[i - 1] \in S /\ g[i] = Round(g[i - 1], i)
  <2>1. g \in [0..m -> S] /\ g[0] = s0 /\ \A i \in 1..m : g[i] = step[i][g[i - 1]]
    BY <1>7 DEF IsRun
  <2>2. \A i \in 1..m : g[i - 1] \in S
    BY <1>2, <2>1
  <2> QED BY <2>1, <2>2
<1>9. g = [i \in 0..m |-> IF i = 0 THEN s0 ELSE Round(g[i - 1], i)]
  BY <1>2, <1>8
<1>10. F = [i \in 0..m |-> IF i = 0 THEN s0 ELSE Round(F[i - 1], i)]
  BY <1>9 DEF F
<1>11. \A i \in 0..m : F[i] = g[i]
  <2>1. Obeys(F, S, m, s0, step)
    BY <1>2, <1>10 DEF Obeys
  <2> HIDE DEF step
  <2> QED BY <1>2, <1>7, <2>1, RunUnique
<1>12. SiftUp(a, k) = g[m].a
  BY <1>1, <1>2, <1>11
<1>13. IsSiftUpRun(g, n, a, k)
  BY <1>5, <1>8, <1>12 DEF IsSiftUpRun
<1> QED BY <1>13

\* The widths of a list.
Widths(a, n) == [c \in 1..n |-> width(a[c])]

LEMMA WidthsType ==
    ASSUME NEW n \in Nat, NEW a \in [1..n -> Range2]
    PROVE  Widths(a, n) \in [1..n -> Int] /\ \A c \in 1..n : Widths(a, n)[c] = width(a[c])
<1>1. \A c \in 1..n : a[c] \in Range2
  OBVIOUS
<1>2. \A c \in 1..n : width(a[c]) \in Int
  BY <1>1 DEF width, Range2
<1> QED BY <1>2 DEF Widths

\* A heap of k widths but for the one at i, which may be smaller than its parent.
UpTo(W, k, i) ==
    /\ \A c \in 2..k : c # i => W[c \div 2] <= W[c]
    /\ i >= 2 => \A c \in 2..k : c \div 2 = i => W[i \div 2] <= W[c]

\* After a swap with its parent it is the one at the parent's place.
LEMMA UpToParent ==
    ASSUME NEW n \in Nat, NEW k \in 1..n, NEW i \in 2..k, NEW W \in [1..n -> Int], NEW V \in [1..n -> Int],
           UpTo(W, k, i), W[i] < W[i \div 2],
           \A c \in 1..n : V[c] = IF c = i \div 2 THEN W[i] ELSE IF c = i THEN W[i \div 2] ELSE W[c]
    PROVE  UpTo(V, k, i \div 2)
<1> DEFINE p == i \div 2
<1>1. i \in Nat /\ i >= 2 /\ p \in 1..n /\ p < i /\ i \in 1..n /\ k \in Nat /\ k <= n
  BY TreeIndex
<1>2. \A c \in 2..k : c \in Nat /\ c >= 2 /\ c \div 2 \in 1..n /\ c \in 1..n /\ c \div 2 < c
  BY <1>1, TreeIndex
<1>3. \A c \in 1..n : V[c] = IF c = p THEN W[i] ELSE IF c = i THEN W[p] ELSE W[c]
  OBVIOUS
<1>4. W[i] < W[p] /\ W[i] \in Int /\ W[p] \in Int
  BY <1>1
<1>5. ASSUME NEW c \in 2..k, c # p PROVE V[c \div 2] <= V[c]
  <2>1. c \in 1..n /\ c \div 2 \in 1..n /\ c \div 2 < c /\ W[c] \in Int /\ W[c \div 2] \in Int
    BY <1>2
  <2> DEFINE q == c \div 2
  <2>2. c # i => W[q] <= W[c]
    BY DEF UpTo
  <2>3. q = i => W[p] <= W[c]
    BY <1>1 DEF UpTo
  <2>4. c = i => q = p
    OBVIOUS
  <2> HIDE DEF p, q
  <2>5. q \in 1..n /\ c \in 1..n /\ W[c] \in Int /\ W[q] \in Int /\ q # c
    BY <2>1 DEF q
  <2>6. CASE c = i
    <3>1. V[c] = W[p] /\ V[q] = W[i]
      BY <2>4, <2>5, <2>6, <1>1, <1>3, <1>5
    <3> QED BY <3>1, <1>4 DEF q
  <2>7. CASE c # i /\ q = i
    <3>1. V[c] = W[c] /\ V[q] = W[p]
      BY <2>5, <2>7, <1>1, <1>3, <1>5
    <3> QED BY <3>1, <2>3, <2>7 DEF q
  <2>8. CASE c # i /\ q = p
    <3>1. V[c] = W[c] /\ V[q] = W[i]
      BY <2>5, <2>8, <1>1, <1>3, <1>5
    <3> QED BY <3>1, <2>2, <2>5, <2>8, <1>4 DEF q
  <2>9. CASE c # i /\ q # i /\ q # p
    <3>1. V[c] = W[c] /\ V[q] = W[q]
      BY <2>5, <2>9, <1>1, <1>3, <1>5
    <3> QED BY <3>1, <2>2, <2>9 DEF q
  <2> QED BY <2>6, <2>7, <2>8, <2>9
<1>6. ASSUME p >= 2, NEW c \in 2..k, c \div 2 = p PROVE V[p \div 2] <= V[c]
  <2> DEFINE q == p \div 2
  <2>1. q \in 1..n /\ q < p /\ q # i /\ q # p /\ p \in 2..k
    BY <1>1, <1>6, TreeIndex
  <2>2. W[q] <= W[p]
    BY <2>1, <1>1 DEF UpTo
  <2>3. c # i => W[p] <= W[c]
    BY <1>6 DEF UpTo
  <2>4. c # p /\ c \in 1..n /\ W[c] \in Int /\ W[q] \in Int
    BY <1>2, <1>6, <2>1
  <2> HIDE DEF p, q
  <2>5. V[q] = W[q]
    BY <2>1, <1>3
  <2>6. V[c] = W[p] \/ (c # i /\ V[c] = W[c])
    BY <2>4, <1>3
  <2> QED BY <2>2, <2>3, <2>4, <2>5, <2>6, <1>4 DEF q
<1> QED BY <1>5, <1>6 DEF UpTo

\* SiftUp makes the heap one longer.
LEMMA SiftUpHeap ==
    ASSUME NEW n \in Nat, NEW a \in [1..n -> Range2], Apart(a), NEW k \in 1..n, Heap(a, k - 1)
    PROVE  Shuffled(a, SiftUp(a, k)) /\ Heap(SiftUp(a, k), k)
<1> DEFINE W(s) == Widths(s.a, n)
           Settled(s) == s.i >= 2 => W(s)[s.i \div 2] <= W(s)[s.i]
           Inv(s, t) == /\ s.i \in 1..k /\ Shuffled(a, s.a) /\ UpTo(W(s), k, s.i)
                        /\ Settled(s) \/ s.i <= k - t
<1>1. k \in Nat /\ a \in Seq(Range2) /\ Len(a) = n
  BY ListAsFunction
<1>2. PICK g : /\ g \in [0..k -> HeapState(n)] /\ g[0] = [a |-> a, i |-> k]
               /\ \A t \in 1..k : g[t - 1] \in HeapState(n) /\ g[t] = GoUp(g[t - 1])
               /\ SiftUp(a, k) = g[k].a
  <2>1. PICK g : IsSiftUpRun(g, n, a, k)
    BY SiftUpRun
  <2> QED BY <2>1 DEF IsSiftUpRun
<1>3. Inv(g[0], 0)
  <2>1. Shuffled(a, a)
    BY <1>1 DEF Shuffled
  <2>2. ASSUME NEW c \in 2..k, c # k PROVE Widths(a, n)[c \div 2] <= Widths(a, n)[c]
    <3>1. c \in 2..(k - 1) /\ c \in 1..n /\ c \div 2 \in 1..n
      BY <2>2, TreeIndex
    <3> QED BY <3>1, WidthsType DEF Heap
  <2>3. \A c \in 2..k : c \div 2 # k
    BY TreeIndex
  <2>4. UpTo(Widths(a, n), k, k)
    BY <2>2, <2>3 DEF UpTo
  <2> HIDE DEF Settled
  <2> QED BY <1>1, <1>2, <2>1, <2>4
<1>4. ASSUME NEW t \in 1..k, Inv(g[t - 1], t - 1) PROVE Inv(g[t], t)
  <2> DEFINE s == g[t - 1]
             p == Parent(s.i)
             b == Swap(s.a, s.i, p)
  <2>1. s \in HeapState(n) /\ g[t] = GoUp(s)
    BY <1>2
  <2>2. /\ s.i \in 1..k /\ Shuffled(a, s.a) /\ UpTo(W(s), k, s.i)
        /\ Settled(s) \/ s.i <= k - (t - 1)
    BY <1>4
  <2> HIDE DEF s
  <2>3. s.a \in [1..n -> Range2] /\ s.i \in 1..n /\ p \in 1..n /\ Apart(s.a) /\ Len(s.a) = n
    BY <2>1, <2>2, GoUpType, ListAsFunction DEF HeapState, Shuffled
  <2>4. W(s) \in [1..n -> Int] /\ \A c \in 1..n : W(s)[c] = width(s.a[c])
    BY <2>3, WidthsType
  <2>5. CASE width(s.a[s.i]) < width(s.a[p])
    <3>1. g[t] = [a |-> b, i |-> p]
      BY <2>1, <2>5 DEF GoUp
    <3>2. s.i # 1 /\ s.i \in 2..k /\ p = s.i \div 2 /\ p < s.i
      <4>1. s.i # 1
        <5>1. s.i = 1 => p = s.i
          BY DEF Parent
        <5>2. W(s)[s.i] < W(s)[p] /\ W(s)[s.i] \in Int
          BY <2>3, <2>4, <2>5
        <5> QED BY <5>1, <5>2
      <4>2. s.i \in 2..k
        BY <4>1, <2>2
      <4> QED BY <4>1, <4>2, TreeIndex DEF Parent
    <3>3. /\ b \in [1..n -> Range2] /\ Shuffled(s.a, b)
          /\ \A c \in 1..n : b[c] = IF c = p THEN s.a[s.i] ELSE IF c = s.i THEN s.a[p] ELSE s.a[c]
      <4> HIDE DEF p
      <4>1. b \in [1..n -> Range2]
        BY <2>3, SwapShuffled
      <4>2. Shuffled(s.a, b)
        BY <2>3, SwapShuffled
      <4>3. \A c \in 1..n : b[c] = IF c = p THEN s.a[s.i] ELSE IF c = s.i THEN s.a[p] ELSE s.a[c]
        BY <2>3, SwapShuffled
      <4> QED BY <4>1, <4>2, <4>3
    <3>4. Shuffled(a, b)
      BY <1>1, <2>2, <3>3, ShuffledTwice
    <3>5. UpTo(Widths(b, n), k, p)
      <4> DEFINE V == Widths(b, n)
                 U == Widths(s.a, n)
      <4>1. V \in [1..n -> Int] /\ \A c \in 1..n : V[c] = width(b[c])
        BY <3>3, WidthsType
      <4>2. U \in [1..n -> Int] /\ (\A c \in 1..n : U[c] = width(s.a[c])) /\ UpTo(U, k, s.i)
        BY <2>2, <2>4
      <4> HIDE DEF b, V, U
      <4>3. \A c \in 1..n : V[c] = IF c = s.i \div 2 THEN U[s.i] ELSE IF c = s.i THEN U[s.i \div 2] ELSE U[c]
        <5>1. s.i \div 2 = p /\ U[p] = width(s.a[p]) /\ U[s.i] = width(s.a[s.i])
          BY <4>2, <2>3, <3>2
        <5> HIDE DEF p
        <5>2. ASSUME NEW c \in 1..n
              PROVE  V[c] = IF c = p THEN U[s.i] ELSE IF c = s.i THEN U[p] ELSE U[c]
          <6>1. V[c] = width(b[c]) /\ U[c] = width(s.a[c])
            BY <4>1, <4>2
          <6>2. b[c] = IF c = p THEN s.a[s.i] ELSE IF c = s.i THEN s.a[p] ELSE s.a[c]
            BY <3>3
          <6> QED BY <5>1, <6>1, <6>2
        <5> QED BY <5>1, <5>2
      <4>4. U[s.i] < U[s.i \div 2]
        BY <4>2, <2>3, <2>5, <3>2
      <4>5. UpTo(V, k, s.i \div 2)
        BY <3>2, <4>1, <4>2, <4>3, <4>4, UpToParent
      <4> QED BY <4>5, <3>2 DEF V
    <3>6. p \in 1..k /\ p <= k - t
      <4>1. ~Settled(s)
        BY <2>3, <2>4, <2>5, <3>2, SMTT(30)
      <4>2. s.i <= k - (t - 1)
        BY <2>2, <4>1
      <4> HIDE DEF p
      <4> QED BY <1>1, <2>2, <2>3, <3>2, <4>2
    <3> HIDE DEF p, b, Settled
    <3> QED BY <3>1, <3>4, <3>5, <3>6
  <2>6. CASE ~(width(s.a[s.i]) < width(s.a[p]))
    <3>1. g[t] = s
      BY <2>1, <2>6 DEF GoUp
    <3>2. Settled(s)
      <4>1. ASSUME s.i >= 2 PROVE W(s)[s.i \div 2] <= W(s)[s.i]
        <5>1. p = s.i \div 2
          BY <4>1 DEF Parent
        <5>2. W(s)[p] \in Int /\ W(s)[s.i] \in Int /\ ~(W(s)[s.i] < W(s)[p])
          BY <2>3, <2>4, <2>6
        <5> QED BY <5>1, <5>2
      <4> QED BY <4>1
    <3> QED BY <2>2, <3>1, <3>2
  <2> QED BY <2>5, <2>6
<1>5. Inv(g[k], k)
  <2> DEFINE B == {t \in 0..k : Inv(g[t], t)}
  <2> HIDE DEF Inv
  <2>1. 0 \in B
    BY <1>1, <1>3
  <2>2. ASSUME NEW t \in 1..k, t - 1 \in B PROVE t \in B
    BY <1>1, <1>4, <2>2
  <2>3. \A t \in 0..k : t \in B
    <3> HIDE DEF B
    <3> QED BY <1>1, <2>1, <2>2, SetInduction
  <2> QED BY <1>1, <2>3
<1>6. Heap(g[k].a, k)
  <2> DEFINE s == g[k]
  <2>1. s.i \in 1..k /\ UpTo(W(s), k, s.i) /\ s.a \in [1..n -> Range2] /\ (Settled(s) \/ s.i <= k - k)
    BY <1>1, <1>5 DEF Shuffled
  <2>2. W(s) \in [1..n -> Int] /\ \A c \in 1..n : W(s)[c] = width(s.a[c])
    BY <2>1, WidthsType
  <2>3. Settled(s)
    BY <1>1, <2>1
  <2> HIDE DEF s
  <2>4. ASSUME NEW c \in 2..k PROVE width(s.a[c \div 2]) <= width(s.a[c])
    <3>1. c \in 1..n /\ c \div 2 \in 1..n
      BY TreeIndex
    <3>2. W(s)[c \div 2] <= W(s)[c]
      BY <2>1, <2>3 DEF UpTo
    <3> QED BY <3>1, <3>2, <2>2
  <2> QED BY <2>4 DEF Heap, s
<1> QED BY <1>2, <1>5, <1>6

\* SiftUp keeps the length.
LEMMA SiftUpType ==
    ASSUME NEW n \in Nat, NEW a \in [1..n -> Range2], NEW k \in 1..n
    PROVE  SiftUp(a, k) \in [1..n -> Range2]
<1>1. PICK g : IsSiftUpRun(g, n, a, k)
  BY SiftUpRun
<1>2. k \in 0..k
  OBVIOUS
<1> QED BY <1>1, <1>2 DEF IsSiftUpRun, HeapState

\* g records the rounds of Heapify, and there are such rounds.
IsHeapifyRun(g, a) ==
    /\ g \in [0..Len([j \in DOMAIN a |-> j]) -> [1..Len(a) -> Range2]] /\ g[0] = a
    /\ \A i \in 1..Len([j \in DOMAIN a |-> j]) : g[i - 1] \in [1..Len(a) -> Range2] /\ g[i] = SiftUp(g[i - 1], [j \in DOMAIN a |-> j][i])
    /\ Heapify(a) = g[Len([j \in DOMAIN a |-> j])]

LEMMA HeapifyRun ==
    ASSUME NEW a \in Seq(Range2)
    PROVE  \E g : IsHeapifyRun(g, a)
<1> DEFINE m == Len([j \in DOMAIN a |-> j])
           S == [1..Len(a) -> Range2]
           s0 == a
           Round(x, i) == SiftUp(x, [j \in DOMAIN a |-> j][i])
           F == CHOOSE f : f = [i \in 0..m |-> IF i = 0 THEN s0 ELSE Round(f[i - 1], i)]
           step == [i \in 1..m |-> [x \in S |-> Round(x, i)]]
<1>1. Heapify(a) = F[m]
  BY DEF Heapify, ForEach
<1>2. m \in Nat
  <2>1. [j \in DOMAIN a |-> j] \in [1..Len(a) -> Nat] /\ Len(a) \in Nat
    OBVIOUS
  <2> QED BY <2>1
<1>3. s0 \in S
  BY ListAsFunction
<1>4. ASSUME NEW x \in S, NEW i \in 1..m PROVE Round(x, i) \in S
  <2>1. m = Len(a) /\ [j \in DOMAIN a |-> j][i] = i /\ Len(a) \in Nat
    OBVIOUS
  <2>2. i \in 1..Len(a)
    BY <2>1
  <2> QED BY <2>1, <2>2, SiftUpType
<1>5. m = Len([j \in DOMAIN a |-> j]) /\ S = [1..Len(a) -> Range2] /\ s0 = a /\ \A x, i : Round(x, i) = SiftUp(x, [j \in DOMAIN a |-> j][i])
  OBVIOUS
<1> HIDE DEF m, S, s0, Round, F
<1>6. step \in [1..m -> [S -> S]]
  BY <1>4
<1>7. PICK g : IsRun(g, S, m, s0, step)
  <2> HIDE DEF step
  <2> QED BY <1>2, <1>3, <1>6, RunExists
<1>8. /\ g \in [0..m -> S] /\ g[0] = s0
      /\ \A i \in 1..m : g[i - 1] \in S /\ g[i] = Round(g[i - 1], i)
  <2>1. g \in [0..m -> S] /\ g[0] = s0 /\ \A i \in 1..m : g[i] = step[i][g[i - 1]]
    BY <1>7 DEF IsRun
  <2>2. \A i \in 1..m : g[i - 1] \in S
    BY <1>2, <2>1
  <2> QED BY <2>1, <2>2
<1>9. g = [i \in 0..m |-> IF i = 0 THEN s0 ELSE Round(g[i - 1], i)]
  BY <1>2, <1>8
<1>10. F = [i \in 0..m |-> IF i = 0 THEN s0 ELSE Round(F[i - 1], i)]
  BY <1>9 DEF F
<1>11. \A i \in 0..m : F[i] = g[i]
  <2>1. Obeys(F, S, m, s0, step)
    BY <1>2, <1>10 DEF Obeys
  <2> HIDE DEF step
  <2> QED BY <1>2, <1>7, <2>1, RunUnique
<1>12. Heapify(a) = g[m]
  BY <1>1, <1>2, <1>11
<1>13. IsHeapifyRun(g, a)
  BY <1>5, <1>8, <1>12 DEF IsHeapifyRun
<1> QED BY <1>13

\* Heapify makes a heap of the ranges.
LEMMA HeapifyHeap ==
    ASSUME NEW a \in Seq(Range2), Apart(a)
    PROVE  Shuffled(a, Heapify(a)) /\ Heap(Heapify(a), Len(a))
<1> DEFINE n == Len(a)
           Inv(b, k) == Shuffled(a, b) /\ Heap(b, k)
<1>1. n \in Nat /\ a \in [1..n -> Range2] /\ DOMAIN a = 1..n
  BY ListAsFunction
<1>2. Len([j \in DOMAIN a |-> j]) = n /\ \A i \in 1..n : [j \in DOMAIN a |-> j][i] = i
  BY <1>1
<1>3. PICK g : IsHeapifyRun(g, a)
  BY HeapifyRun
<1>4. /\ g[0] = a /\ \A i \in 1..n : g[i] = SiftUp(g[i - 1], i)
      /\ Heapify(a) = g[n]
  <2>1. /\ g[0] = a /\ \A i \in 1..n : g[i] = SiftUp(g[i - 1], [j \in DOMAIN a |-> j][i])
        /\ Heapify(a) = g[n]
    BY <1>2, <1>3 DEF IsHeapifyRun
  <2> QED BY <1>2, <2>1
<1>5. Inv(g[0], 0)
  BY <1>1, <1>4 DEF Shuffled, Heap
<1>6. ASSUME NEW i \in 1..n, Inv(g[i - 1], i - 1) PROVE Inv(g[i], i)
  <2> DEFINE b == g[i - 1]
  <2>1. Shuffled(a, b) /\ Heap(b, i - 1) /\ g[i] = SiftUp(b, i)
    BY <1>4, <1>6
  <2> HIDE DEF b
  <2>2. b \in [1..n -> Range2] /\ Apart(b)
    BY <2>1 DEF Shuffled
  <2>3. Shuffled(b, g[i]) /\ Heap(g[i], i)
    BY <1>1, <2>1, <2>2, SiftUpHeap
  <2> QED BY <2>1, <2>3, ShuffledTwice
<1>7. Inv(g[n], n)
  <2> DEFINE B == {i \in 0..n : Inv(g[i], i)}
  <2> HIDE DEF Inv
  <2>1. 0 \in B
    BY <1>1, <1>5
  <2>2. ASSUME NEW i \in 1..n, i - 1 \in B PROVE i \in B
    BY <1>1, <1>6, <2>2
  <2>3. \A i \in 0..n : i \in B
    <3> HIDE DEF B, n
    <3> QED BY <1>1, <2>1, <2>2, SetInduction
  <2> QED BY <1>1, <2>3
<1> QED BY <1>4, <1>7

\* The first range of a heap is the smallest.
LEMMA HeapFirst ==
    ASSUME NEW n \in Nat, NEW a \in [1..n -> Range2], Heap(a, n), NEW c \in 1..n
    PROVE  width(a[1]) <= width(a[c])
<1> DEFINE W == Widths(a, n)
           M == {d \in 1..n : ~(W[1] <= W[d])}
<1>1. W \in [1..n -> Int] /\ \A d \in 1..n : W[d] = width(a[d])
  BY WidthsType
<1>2. 1 \in 1..n
  OBVIOUS
<1> HIDE DEF W
<1>3. M = {}
  <2> SUFFICES ASSUME M # {} PROVE FALSE
    OBVIOUS
  <2>1. PICK d \in M : \A e \in M : d <= e
    <3>1. M \in SUBSET Nat
      OBVIOUS
    <3> HIDE DEF M
    <3> QED BY <3>1, LeastElement
  <2>2. d # 1 /\ d \in 1..n /\ W[1] \in Int /\ W[d] \in Int
    BY <1>1, <1>2, <2>1
  <2>3. d \in 2..n /\ d \div 2 \in 1..n /\ d \div 2 < d /\ d \div 2 \in Nat
    BY <2>2, TreeIndex
  <2>4. W[d \div 2] <= W[d] /\ W[d \div 2] \in Int
    BY <1>1, <2>2, <2>3 DEF Heap
  <2>5. d \div 2 \notin M
    <3> HIDE DEF M
    <3> QED BY <2>1, <2>2, <2>3
  <2>6. W[1] <= W[d \div 2]
    BY <2>3, <2>5
  <2> QED BY <2>1, <2>2, <2>4, <2>6
<1>4. W[1] <= W[c]
  BY <1>3
<1> QED BY <1>1, <1>2, <1>4

\* Where the smallest of a range and its children is.
LEMMA SmallestIs ==
    ASSUME NEW n \in Nat, NEW a \in [1..n -> Range2], NEW i \in 1..n
    PROVE  LET k == Smallest(a, i)
               W == Widths(a, n)
           IN /\ k \in 1..n /\ (k = i \/ k = 2 * i \/ k = 2 * i + 1)
              /\ k # i => W[k] < W[i]
              /\ \A c \in 2..n : c \div 2 = i => W[k] <= W[c]
              /\ W[k] <= W[i]
<1> DEFINE W == Widths(a, n)
           Less(x, y) == IF y <= n /\ W[y] < W[x] THEN y ELSE x
           j == Less(i, 2 * i)
           k == Less(j, 2 * i + 1)
<1>1. W \in [1..n -> Int] /\ \A d \in 1..n : W[d] = width(a[d])
  BY WidthsType
<1>2. Len(a) = n
  BY ListAsFunction
<1>3. i \in Nat /\ 2 * i \in Nat /\ 2 * i + 1 \in Nat /\ 2 * i >= 1 /\ i < 2 * i
  OBVIOUS
<1> HIDE DEF W
<1>4. j \in 1..n /\ (j = i \/ j = 2 * i) /\ W[j] <= W[i] /\ (j # i => W[j] < W[i]) /\ (2 * i <= n => W[j] <= W[2 * i])
  <2>1. W[i] \in Int
    BY <1>1
  <2>2. CASE 2 * i <= n
    <3>1. 2 * i \in 1..n /\ W[2 * i] \in Int
      BY <2>2, <1>1, <1>3
    <3> QED BY <2>1, <2>2, <3>1
  <2>3. CASE ~(2 * i <= n)
    BY <2>1, <2>3
  <2> QED BY <2>2, <2>3
<1>5. Smallest(a, i) = k
  <2>1. j = IF 2 * i <= Len(a) /\ width(a[2 * i]) < width(a[i]) THEN 2 * i ELSE i
    <3>1. 2 * i <= n => 2 * i \in 1..n
      BY <1>3
    <3> QED BY <1>1, <1>2, <3>1
  <2> HIDE DEF j
  <2>2. k = IF 2 * i + 1 <= Len(a) /\ width(a[2 * i + 1]) < width(a[j]) THEN 2 * i + 1 ELSE j
    <3>1. 2 * i + 1 <= n => 2 * i + 1 \in 1..n
      BY <1>3
    <3> QED BY <1>1, <1>2, <1>4, <3>1
  <2> HIDE DEF k
  <2> QED BY <2>1, <2>2 DEF Smallest
<1>6. /\ k \in 1..n /\ (k = i \/ k = 2 * i \/ k = 2 * i + 1) /\ W[k] <= W[i] /\ (k # i => W[k] < W[i])
      /\ (2 * i <= n => W[k] <= W[2 * i]) /\ (2 * i + 1 <= n => W[k] <= W[2 * i + 1])
  <2> HIDE DEF j
  <2>1. W[i] \in Int /\ W[j] \in Int
    BY <1>1, <1>4
  <2>2. 2 * i <= n => W[2 * i] \in Int
    BY <1>1, <1>3
  <2>3. CASE 2 * i + 1 <= n
    <3>1. 2 * i + 1 \in 1..n /\ W[2 * i + 1] \in Int
      BY <2>3, <1>1, <1>3
    <3> QED BY <1>4, <2>1, <2>2, <2>3, <3>1
  <2>4. CASE ~(2 * i + 1 <= n)
    BY <1>4, <2>1, <2>4
  <2> QED BY <2>3, <2>4
<1> HIDE DEF k
<1>7. ASSUME NEW c \in 2..n, c \div 2 = i PROVE W[k] <= W[c]
  <2>1. c = 2 * i \/ c = 2 * i + 1
    BY <1>3, <1>7, TreeIndex
  <2> QED BY <1>6, <2>1
<1> QED BY <1>5, <1>6, <1>7 DEF W

\* A heap but for the range at i, which may be larger than its children.
DownFrom(W, n, i) ==
    /\ \A c \in 2..n : c \div 2 # i => W[c \div 2] <= W[c]
    /\ i >= 2 => \A c \in 2..n : c \div 2 = i => W[i \div 2] <= W[c]

\* After a swap with the smaller child it is the one at the child's place.
LEMMA DownToChild ==
    ASSUME NEW n \in Nat, NEW i \in 1..n, NEW k \in 2..n, k \div 2 = i,
           NEW W \in [1..n -> Int], NEW V \in [1..n -> Int], DownFrom(W, n, i), W[k] < W[i],
           \A c \in 2..n : c \div 2 = i => W[k] <= W[c],
           \A c \in 1..n : V[c] = IF c = k THEN W[i] ELSE IF c = i THEN W[k] ELSE W[c]
    PROVE  DownFrom(V, n, k)
<1>1. i < k /\ k \in 1..n /\ W[i] \in Int /\ W[k] \in Int
  BY TreeIndex
<1>2. \A c \in 2..n : c \div 2 \in 1..n /\ c \in 1..n /\ c \div 2 < c /\ W[c] \in Int /\ W[c \div 2] \in Int
  BY TreeIndex
<1>3. ASSUME NEW c \in 2..n, c \div 2 # k PROVE V[c \div 2] <= V[c]
  <2> DEFINE q == c \div 2
  <2>1. q \in 1..n /\ c \in 1..n /\ q < c /\ q # c /\ W[c] \in Int /\ W[q] \in Int
    BY <1>2, SMTT(30)
  <2>2. q # i => W[q] <= W[c]
    BY DEF DownFrom
  <2>3. q = i => W[k] <= W[c]
    OBVIOUS
  <2>4. c = i => W[q] <= W[k]
    BY <2>1 DEF DownFrom
  <2>5. q # k /\ (c = k => q = i)
    BY <1>3
  <2> HIDE DEF q
  <2>6. V[c] = (IF c = k THEN W[i] ELSE IF c = i THEN W[k] ELSE W[c])
    BY <2>1
  <2>7. V[q] = (IF q = i THEN W[k] ELSE W[q])
    BY <2>1, <2>5
  <2>8. V[q] <= V[c]
    <3>1. CASE c = k
      BY <3>1, <2>5, <2>6, <2>7, <1>1
    <3>2. CASE c # k /\ c = i
      <4>1. q # i
        BY <3>2, <2>1
      <4> QED BY <3>2, <4>1, <2>4, <2>6, <2>7
    <3>3. CASE c # k /\ c # i
      BY <3>3, <2>2, <2>3, <2>6, <2>7
    <3> QED BY <3>1, <3>2, <3>3
  <2> QED BY <2>8 DEF q
<1>4. ASSUME NEW c \in 2..n, c \div 2 = k PROVE V[k \div 2] <= V[c]
  <2>1. c \in 1..n /\ c # k /\ c # i /\ k # i
    BY <1>1, <1>2, <1>4
  <2>2. V[i] = W[k] /\ V[c] = W[c]
    BY <2>1
  <2>3. W[k] <= W[c]
    BY <2>1, <1>4 DEF DownFrom
  <2> QED BY <2>2, <2>3
<1> QED BY <1>3, <1>4 DEF DownFrom

\* A round of going down keeps the length.
LEMMA GoDownType ==
    ASSUME NEW n \in Nat, NEW s \in HeapState(n)
    PROVE  GoDown(s) \in HeapState(n)
<1>1. s.a \in [1..n -> Range2] /\ s.i \in 1..n
  BY DEF HeapState
<1>2. Smallest(s.a, s.i) \in 1..n
  BY <1>1, SmallestIs
<1>3. Swap(s.a, s.i, Smallest(s.a, s.i)) \in [1..n -> Range2]
  BY <1>1, <1>2, SwapShuffled
<1> QED BY <1>2, <1>3 DEF GoDown, HeapState

\* The list that the last range went to the front of.
PopStart(a) == Front([a EXCEPT ![1] = Last(a)])

\* g records the rounds of Pop, and there are such rounds.
IsPopRun(g, n, a, b) ==
    /\ g \in [0..n + 1 -> HeapState(n)] /\ g[0] = [a |-> b, i |-> 1]
    /\ \A i \in 1..n + 1 : g[i - 1] \in HeapState(n) /\ g[i] = GoDown(g[i - 1])
    /\ Pop(a) = g[n + 1].a

LEMMA PopRun ==
    ASSUME NEW n \in Nat \ {0}, NEW a, NEW b \in [1..n -> Range2], Len(a) = n + 1, b = PopStart(a)
    PROVE  \E g : IsPopRun(g, n, a, b)
<1> DEFINE m == n + 1
           S == HeapState(n)
           s0 == [a |-> b, i |-> 1]
           Round(x, i) == GoDown(x)
           F == CHOOSE f : f = [i \in 0..m |-> IF i = 0 THEN s0 ELSE Round(f[i - 1], i)]
           step == [i \in 1..m |-> [x \in S |-> Round(x, i)]]
<1>1. Pop(a) = F[m].a
  BY DEF Pop, PopStart, Iterate
<1>2. m \in Nat
  OBVIOUS
<1>3. s0 \in S
  BY DEF HeapState
<1>4. ASSUME NEW x \in S, NEW i \in 1..m PROVE Round(x, i) \in S
  BY GoDownType
<1>5. m = n + 1 /\ S = HeapState(n) /\ s0 = [a |-> b, i |-> 1] /\ \A x, i : Round(x, i) = GoDown(x)
  OBVIOUS
<1> HIDE DEF m, S, s0, Round, F
<1>6. step \in [1..m -> [S -> S]]
  BY <1>4
<1>7. PICK g : IsRun(g, S, m, s0, step)
  <2> HIDE DEF step
  <2> QED BY <1>2, <1>3, <1>6, RunExists
<1>8. /\ g \in [0..m -> S] /\ g[0] = s0
      /\ \A i \in 1..m : g[i - 1] \in S /\ g[i] = Round(g[i - 1], i)
  <2>1. g \in [0..m -> S] /\ g[0] = s0 /\ \A i \in 1..m : g[i] = step[i][g[i - 1]]
    BY <1>7 DEF IsRun
  <2>2. \A i \in 1..m : g[i - 1] \in S
    BY <1>2, <2>1
  <2> QED BY <2>1, <2>2
<1>9. g = [i \in 0..m |-> IF i = 0 THEN s0 ELSE Round(g[i - 1], i)]
  BY <1>2, <1>8
<1>10. F = [i \in 0..m |-> IF i = 0 THEN s0 ELSE Round(F[i - 1], i)]
  BY <1>9 DEF F
<1>11. \A i \in 0..m : F[i] = g[i]
  <2>1. Obeys(F, S, m, s0, step)
    BY <1>2, <1>10 DEF Obeys
  <2> HIDE DEF step
  <2> QED BY <1>2, <1>7, <2>1, RunUnique
<1>12. Pop(a) = g[m].a
  BY <1>1, <1>2, <1>11
<1>13. IsPopRun(g, n, a, b)
  BY <1>5, <1>8, <1>12 DEF IsPopRun
<1> QED BY <1>13

\* What goes down ends in a heap of the same ranges.
LEMMA SiftDownHeap ==
    ASSUME NEW n \in Nat \ {0}, NEW a, NEW b \in [1..n -> Range2], Len(a) = n + 1,
           b = PopStart(a), Apart(b), DownFrom(Widths(b, n), n, 1)
    PROVE  Shuffled(b, Pop(a)) /\ Heap(Pop(a), n)
<1> DEFINE W(s) == Widths(s.a, n)
           Settled(s) == \A c \in 2..n : c \div 2 = s.i => W(s)[s.i] <= W(s)[c]
           Inv(s, t) == /\ s.i \in 1..n /\ Shuffled(b, s.a) /\ DownFrom(W(s), n, s.i)
                        /\ Settled(s) \/ s.i >= t + 1
<1>1. n \in Nat /\ n >= 1 /\ b \in Seq(Range2) /\ Len(b) = n
  BY ListAsFunction
<1>2. PICK g : IsPopRun(g, n, a, b)
  BY PopRun
<1>3. /\ g[0] = [a |-> b, i |-> 1] /\ Pop(a) = g[n + 1].a
      /\ \A t \in 1..(n + 1) : g[t - 1] \in HeapState(n) /\ g[t] = GoDown(g[t - 1])
  BY <1>2 DEF IsPopRun
<1>4. Inv(g[0], 0)
  <2>1. Shuffled(b, b)
    BY <1>1 DEF Shuffled
  <2> HIDE DEF Settled
  <2> QED BY <1>1, <1>3, <2>1
<1>5. ASSUME NEW t \in 1..(n + 1), Inv(g[t - 1], t - 1) PROVE Inv(g[t], t)
  <2> DEFINE s == g[t - 1]
             i == s.i
             k == Smallest(s.a, i)
             e == Swap(s.a, i, k)
             U == Widths(s.a, n)
             V == Widths(e, n)
  <2>1. s \in HeapState(n) /\ g[t] = GoDown(s)
    BY <1>3
  <2>2. /\ i \in 1..n /\ Shuffled(b, s.a) /\ DownFrom(U, n, i)
        /\ Settled(s) \/ i >= (t - 1) + 1
    BY <1>5
  <2> HIDE DEF s
  <2>3. s.a \in [1..n -> Range2] /\ Apart(s.a)
    BY <2>1, <2>2, <1>1 DEF HeapState, Shuffled
  <2>4. U \in [1..n -> Int] /\ \A c \in 1..n : U[c] = width(s.a[c])
    BY <1>1, <2>3, WidthsType
  <2> HIDE DEF i
  <2>5. /\ k \in 1..n /\ (k = i \/ k = 2 * i \/ k = 2 * i + 1)
        /\ k # i => U[k] < U[i]
        /\ \A c \in 2..n : c \div 2 = i => U[k] <= U[c]
    BY <1>1, <2>2, <2>3, SmallestIs
  <2>6. g[t] = [a |-> e, i |-> k]
    BY <2>1 DEF GoDown, i
  <2> HIDE DEF k, U
  <2>7. /\ e \in [1..n -> Range2] /\ Shuffled(s.a, e)
        /\ \A c \in 1..n : e[c] = IF c = k THEN s.a[i] ELSE IF c = i THEN s.a[k] ELSE s.a[c]
    BY <1>1, <2>2, <2>3, <2>5, SwapShuffled
  <2>8. Shuffled(b, e)
    BY <1>1, <2>2, <2>7, ShuffledTwice
  <2> HIDE DEF e
  <2>9. V \in [1..n -> Int] /\ \A c \in 1..n : V[c] = IF c = k THEN U[i] ELSE IF c = i THEN U[k] ELSE U[c]
    <3>1. V \in [1..n -> Int] /\ \A c \in 1..n : V[c] = width(e[c])
      BY <1>1, <2>7, WidthsType
    <3> HIDE DEF V
    <3>2. ASSUME NEW c \in 1..n PROVE V[c] = IF c = k THEN U[i] ELSE IF c = i THEN U[k] ELSE U[c]
      <4>1. U[c] = width(s.a[c]) /\ U[i] = width(s.a[i]) /\ U[k] = width(s.a[k]) /\ V[c] = width(e[c])
        BY <2>2, <2>4, <2>5, <3>1
      <4> QED BY <4>1, <2>7
    <3> QED BY <3>1, <3>2
  <2> HIDE DEF V
  <2>10. CASE k = i
    <3>1. V = U
      BY <2>4, <2>9, <2>10
    <3>2. \A c \in 2..n : c \div 2 = k => V[k] <= V[c]
      BY <2>5, <2>10, <3>1
    <3>3. DownFrom(V, n, k) /\ k \in 1..n
      BY <2>2, <2>10, <3>1
    <3>4. Settled(g[t])
      BY <2>6, <3>2 DEF V
    <3> HIDE DEF Settled
    <3> QED BY <2>6, <2>8, <3>3, <3>4 DEF V
  <2>11. CASE k # i
    <3>1. k \in 2..n /\ k \div 2 = i /\ k >= i + 1
      <4>1. k \in Nat /\ i \in Nat /\ k >= 2 * i /\ k >= 2 /\ (k = 2 * i \/ k = 2 * i + 1)
        BY <2>2, <2>5, <2>11
      <4> QED BY <4>1, <2>5, TreeIndex
    <3>2. DownFrom(V, n, k)
      <4>1. U[k] < U[i]
        BY <2>5, <2>11
      <4>2. /\ n \in Nat /\ i \in 1..n /\ U \in [1..n -> Int] /\ V \in [1..n -> Int] /\ DownFrom(U, n, i)
            /\ \A c \in 2..n : c \div 2 = i => U[k] <= U[c]
            /\ \A c \in 1..n : V[c] = IF c = k THEN U[i] ELSE IF c = i THEN U[k] ELSE U[c]
        BY <1>1, <2>2, <2>4, <2>5, <2>9
      <4>3. k \in 2..n /\ k \div 2 = i
        BY <3>1
      <4> QED BY ONLY <4>1, <4>2, <4>3, DownToChild
    <3>3. ~Settled(s)
      <4>1. U[k] < U[i] /\ U[k] \in Int /\ U[i] \in Int
        BY <2>2, <2>4, <2>5, <2>11
      <4>2. ~(U[i] <= U[k])
        BY <4>1
      <4> QED BY <3>1, <4>2 DEF U, i
    <3>4. k >= t + 1
      <4>1. i >= (t - 1) + 1
        BY <2>2, <3>3
      <4> QED BY <2>2, <3>1, <4>1, <1>1
    <3> HIDE DEF Settled
    <3> QED BY <2>5, <2>6, <2>8, <3>2, <3>4 DEF V
  <2> QED BY <2>10, <2>11
<1>6. Inv(g[n + 1], n + 1)
  <2> DEFINE B == {t \in 0..(n + 1) : Inv(g[t], t)}
  <2> HIDE DEF Inv
  <2>1. 0 \in B /\ n + 1 \in Nat
    BY <1>1, <1>4
  <2>2. ASSUME NEW t \in 1..(n + 1), t - 1 \in B PROVE t \in B
    BY <1>1, <1>5, <2>2
  <2>3. \A t \in 0..(n + 1) : t \in B
    <3> HIDE DEF B
    <3> QED BY <2>1, <2>2, SetInduction
  <2> QED BY <1>1, <2>3
<1>7. Heap(g[n + 1].a, n)
  <2> DEFINE s == g[n + 1]
  <2>1. s.i \in 1..n /\ DownFrom(W(s), n, s.i) /\ s.a \in [1..n -> Range2] /\ (Settled(s) \/ s.i >= (n + 1) + 1)
    BY <1>1, <1>6 DEF Shuffled
  <2>2. W(s) \in [1..n -> Int] /\ \A c \in 1..n : W(s)[c] = width(s.a[c])
    BY <1>1, <2>1, WidthsType
  <2>3. Settled(s)
    BY <1>1, <2>1
  <2> HIDE DEF s
  <2>4. ASSUME NEW c \in 2..n PROVE width(s.a[c \div 2]) <= width(s.a[c])
    <3>1. c \in 1..n /\ c \div 2 \in 1..n
      BY TreeIndex
    <3>2. W(s)[c \div 2] <= W(s)[c]
      BY <2>1, <2>3 DEF DownFrom
    <3> QED BY <3>1, <3>2, <2>2
  <2> QED BY <2>4 DEF Heap, s
<1> QED BY <1>3, <1>6, <1>7

\* What PopStart makes of a list of two or more ranges.
LEMMA PopStartIs ==
    ASSUME NEW a \in Seq(Range2), NEW n \in Nat \ {0}, Len(a) = n + 1
    PROVE  /\ PopStart(a) \in [1..n -> Range2]
           /\ PopStart(a)[1] = a[n + 1] /\ \A c \in 2..n : PopStart(a)[c] = a[c]
<1> DEFINE b == [a EXCEPT ![1] = Last(a)]
<1>1. Last(a) = a[n + 1] /\ Last(a) \in Range2
  BY DEF Last
<1>2. b \in Seq(Range2) /\ Len(b) = n + 1 /\ b[1] = a[n + 1] /\ \A c \in 2..n : b[c] = a[c]
  BY <1>1
<1> HIDE DEF b
<1>3. /\ SubSeq(b, 1, Len(b) - 1) \in Seq(Range2) /\ Len(SubSeq(b, 1, Len(b) - 1)) = n
      /\ \A c \in 1..n : SubSeq(b, 1, Len(b) - 1)[c] = b[c]
  <2>1. Len(b) - 1 = n /\ 1..n \subseteq 1..Len(b)
    BY <1>2
  <2>2. \A c \in 1..n : b[c] \in Range2
    BY <1>2, <2>1
  <2>3. SubSeq(b, 1, n) = [c \in 1..n |-> b[c]]
    BY <1>2
  <2>4. [c \in 1..n |-> b[c]] \in [1..n -> Range2]
    BY <2>2
  <2> QED BY <2>1, <2>3, <2>4, ListAsFunction
<1>4. PopStart(a) = SubSeq(b, 1, Len(b) - 1)
  BY DEF PopStart, Front, b
<1>5. PopStart(a) \in [1..n -> Range2]
  BY <1>3, <1>4, ListAsFunction
<1> QED BY <1>2, <1>3, <1>4, <1>5

\* Pop yields a list that is one shorter.
LEMMA PopType ==
    ASSUME NEW a \in Seq(Range2), a # <<>>
    PROVE  Pop(a) \in Seq(Range2) /\ Len(Pop(a)) = Len(a) - 1
<1>1. Len(a) \in Nat /\ Len(a) >= 1
  OBVIOUS
<1>2. CASE Len(a) = 1
  BY <1>2 DEF Pop
<1>3. CASE Len(a) # 1
  <2> DEFINE n == Len(a) - 1
  <2>1. n \in Nat \ {0} /\ Len(a) = n + 1
    BY <1>1, <1>3
  <2> HIDE DEF n
  <2>2. PopStart(a) \in [1..n -> Range2]
    BY <2>1, PopStartIs
  <2>3. PICK g : IsPopRun(g, n, a, PopStart(a))
    BY <2>1, <2>2, PopRun
  <2>4. n + 1 \in 0..(n + 1)
    BY <2>1
  <2>5. Pop(a) \in [1..n -> Range2]
    BY <2>3, <2>4 DEF IsPopRun, HeapState
  <2> QED BY <2>1, <2>5, ListAsFunction
<1> QED BY <1>2, <1>3

\* Pop takes the first range off a heap.
LEMMA PopHeap ==
    ASSUME NEW a \in Seq(Range2), a # <<>>, Apart(a), Heap(a, Len(a))
    PROVE  /\ Apart(Pop(a)) /\ ToSet(Pop(a)) = ToSet(a) \ {a[1]}
           /\ Heap(Pop(a), Len(Pop(a)))
<1>1. Len(a) \in Nat /\ Len(a) >= 1 /\ DOMAIN a = 1..Len(a) /\ \A i \in 1..Len(a) : a[i] \in Range2
  OBVIOUS
<1>2. \A i, j \in 1..Len(a) : i # j => a[i] # a[j]
  <2>1. ASSUME NEW i \in 1..Len(a), NEW j \in 1..Len(a), i # j, a[i] = a[j] PROVE FALSE
    <3>1. a[i].First \in Int /\ a[i].Last \in Int
      BY <1>1 DEF Range2
    <3>2. a[i].First <= a[i].Last /\ (a[i].Last < a[i].First \/ a[i].Last < a[i].First)
      BY <1>1, <2>1 DEF Apart
    <3> QED BY <3>1, <3>2
  <2> QED BY <2>1
<1>3. CASE Len(a) = 1
  <2>1. Pop(a) = <<>> /\ Len(Pop(a)) = 0 /\ DOMAIN Pop(a) = {}
    BY <1>3 DEF Pop
  <2>2. ToSet(a) = {a[1]} /\ ToSet(Pop(a)) = {}
    BY <1>1, <1>3, <2>1 DEF ToSet
  <2> QED BY <2>1, <2>2 DEF Apart, Heap
<1>4. CASE Len(a) # 1
  <2> DEFINE n == Len(a) - 1
             b == PopStart(a)
  <2>1. n \in Nat \ {0} /\ Len(a) = n + 1 /\ n >= 1
    BY <1>1, <1>4
  <2> HIDE DEF n
  <2>2. b \in [1..n -> Range2] /\ b[1] = a[n + 1] /\ \A c \in 2..n : b[c] = a[c]
    BY <2>1, PopStartIs
  <2> HIDE DEF b
  <2>3. DOMAIN b = 1..n /\ Len(b) = n /\ b \in Seq(Range2)
    BY <2>1, <2>2, ListAsFunction
  <2> DEFINE P(c) == IF c = 1 THEN n + 1 ELSE c
  <2>4. \A c \in 1..n : P(c) \in 2..(n + 1) /\ b[c] = a[P(c)]
    BY <2>1, <2>2
  <2>5. \A c, d \in 1..n : c # d => P(c) # P(d)
    BY <2>1
  <2>6. \A c \in 2..(n + 1) : \E d \in 1..n : P(d) = c
    <3>1. ASSUME NEW c \in 2..(n + 1) PROVE \E d \in 1..n : P(d) = c
      <4>1. CASE c = n + 1
        <5>1. 1 \in 1..n /\ P(1) = c
          BY <2>1, <4>1
        <5> QED BY <5>1
      <4>2. CASE c # n + 1
        <5>1. c \in 1..n /\ P(c) = c
          BY <2>1, <4>2
        <5> QED BY <5>1
      <4> QED BY <4>1, <4>2
    <3> QED BY <3>1
  <2> HIDE DEF P
  <2>7. Apart(b)
    <3>1. ASSUME NEW c \in DOMAIN b, NEW d \in DOMAIN b
          PROVE  /\ b[c].First <= b[c].Last
                 /\ c # d => b[c].Last < b[d].First \/ b[d].Last < b[c].First
      <4>1. P(c) \in DOMAIN a /\ P(d) \in DOMAIN a /\ b[c] = a[P(c)] /\ b[d] = a[P(d)] /\ (c # d => P(c) # P(d))
        BY <1>1, <2>1, <2>3, <2>4, <2>5
      <4> QED BY <4>1 DEF Apart
    <3> QED BY <3>1 DEF Apart
  <2>8. ToSet(b) = ToSet(a) \ {a[1]}
    <3>1. ToSet(b) = {b[c] : c \in 1..n} /\ ToSet(a) = {a[c] : c \in 1..(n + 1)}
      BY <1>1, <2>1, <2>3 DEF ToSet
    <3>2. ASSUME NEW c \in 1..n PROVE b[c] \in {a[d] : d \in 1..(n + 1)} /\ b[c] # a[1]
      <4>1. P(c) \in 1..(n + 1) /\ P(c) # 1 /\ b[c] = a[P(c)] /\ 1 \in 1..(n + 1)
        BY <2>1, <2>4
      <4> QED BY <4>1, <1>2, <2>1
    <3>3. ASSUME NEW c \in 1..(n + 1), a[c] # a[1] PROVE a[c] \in {b[d] : d \in 1..n}
      <4>1. c \in 2..(n + 1)
        BY <3>3, <2>1
      <4>2. PICK d \in 1..n : P(d) = c
        BY <4>1, <2>6
      <4>3. b[d] = a[c]
        BY <4>2, <2>4
      <4> QED BY <4>3
    <3>4. ToSet(b) \subseteq ToSet(a) \ {a[1]}
      BY <3>1, <3>2
    <3>5. ToSet(a) \ {a[1]} \subseteq ToSet(b)
      BY <3>1, <3>3
    <3> QED BY <3>4, <3>5
  <2>9. DownFrom(Widths(b, n), n, 1)
    <3> DEFINE W == Widths(b, n)
    <3>1. \A c \in 1..n : W[c] = width(b[c])
      BY <2>1, <2>2, WidthsType
    <3> HIDE DEF W
    <3>2. ASSUME NEW c \in 2..n, c \div 2 # 1 PROVE W[c \div 2] <= W[c]
      <4>1. c \in 2..(n + 1) /\ c \div 2 \in 2..n /\ c \in 1..n /\ c \div 2 \in 1..n
        BY <2>1, <3>2, TreeIndex
      <4>2. width(a[c \div 2]) <= width(a[c])
        BY <2>1, <4>1 DEF Heap
      <4> QED BY <2>2, <3>1, <4>1, <4>2
    <3> QED BY <3>2 DEF DownFrom, W
  <2>10. Shuffled(b, Pop(a)) /\ Heap(Pop(a), n)
    BY <2>1, <2>2, <2>7, <2>9, SiftDownHeap DEF b
  <2>11. Len(Pop(a)) = n
    BY <2>1, PopType
  <2> QED BY <2>8, <2>10, <2>11 DEF Shuffled
<1> QED BY <1>3, <1>4

-----------------------------------------------------------------------------
(* Taking the smallest ranges *)

IDsIn(r) == r.First..r.Last

\* The ranges of a list, one by one.
LEMMA ToSetIs ==
    ASSUME NEW a \in Seq(Range2)
    PROVE  /\ \A r : r \in ToSet(a) <=> \E i \in 1..Len(a) : r = a[i]
           /\ \A r \in ToSet(a) : r \in Range2 /\ r.First \in Int /\ r.Last \in Int
           /\ IDsOf(a) = UNION {IDsIn(r) : r \in ToSet(a)}
<1>1. DOMAIN a = 1..Len(a) /\ \A i \in 1..Len(a) : a[i] \in Range2
  OBVIOUS
<1>2. \A r : r \in ToSet(a) <=> \E i \in 1..Len(a) : r = a[i]
  BY <1>1 DEF ToSet
<1>3. \A r \in ToSet(a) : r \in Range2
  BY <1>1, <1>2
<1> QED BY <1>2, <1>3 DEF Range2, IDsOf, IDsIn

\* Two ranges of a list that share an ID are the same.
LEMMA ApartShare ==
    ASSUME NEW a \in Seq(Range2), Apart(a), NEW r \in ToSet(a), NEW q \in ToSet(a),
           NEW x, x \in IDsIn(r), x \in IDsIn(q)
    PROVE  r = q
<1>1. PICK i \in 1..Len(a) : r = a[i]
  BY ToSetIs
<1>2. PICK j \in 1..Len(a) : q = a[j]
  BY ToSetIs
<1>3. r.First \in Int /\ r.Last \in Int /\ q.First \in Int /\ q.Last \in Int
  BY ToSetIs
<1>4. i \in DOMAIN a /\ j \in DOMAIN a
  OBVIOUS
<1>5. i # j => r.Last < q.First \/ q.Last < r.First
  BY <1>1, <1>2, <1>4 DEF Apart
<1>6. i = j
  BY <1>3, <1>5 DEF IDsIn
<1> QED BY <1>1, <1>2, <1>6

\* One more range that is apart from the others.
LEMMA ApartAppend ==
    ASSUME NEW a \in Seq(Range2), Apart(a), NEW r \in Range2, r.First <= r.Last,
           IDsIn(r) \cap IDsOf(a) = {}
    PROVE  /\ Append(a, r) \in Seq(Range2) /\ Apart(Append(a, r))
           /\ ToSet(Append(a, r)) = ToSet(a) \cup {r}
           /\ IDsOf(Append(a, r)) = IDsOf(a) \cup IDsIn(r)
<1> DEFINE b == Append(a, r)
           n == Len(a)
<1>1. /\ b \in Seq(Range2) /\ Len(b) = n + 1 /\ n \in Nat /\ b[n + 1] = r
      /\ \A i \in 1..n : b[i] = a[i] /\ a[i] \in Range2
      /\ DOMAIN b = 1..(n + 1) /\ DOMAIN a = 1..n
  OBVIOUS
<1> HIDE DEF b, n
<1>2. r.First \in Int /\ r.Last \in Int /\ \A i \in 1..n : a[i].First \in Int /\ a[i].Last \in Int
  BY <1>1 DEF Range2
<1>3. ASSUME NEW i \in 1..n PROVE a[i].Last < r.First \/ r.Last < a[i].First
  <2>1. a[i].First <= a[i].Last /\ a[i].First \in Int /\ a[i].Last \in Int
    BY <1>1, <1>2 DEF Apart
  <2>2. \A x \in Int : ~(a[i].First <= x /\ x <= a[i].Last /\ r.First <= x /\ x <= r.Last)
    <3>1. ASSUME NEW x \in Int, a[i].First <= x, x <= a[i].Last, r.First <= x, x <= r.Last PROVE FALSE
      <4>1. x \in IDsIn(r)
        BY <1>2, <3>1 DEF IDsIn
      <4>2. x \in IDsOf(a)
        BY <3>1, InIDs DEF n
      <4> QED BY <4>1, <4>2
    <3> QED BY <3>1
  <2> QED BY <1>2, <2>1, <2>2
<1>4. Apart(b)
  <2>1. ASSUME NEW i \in DOMAIN b, NEW j \in DOMAIN b
        PROVE  /\ b[i].First <= b[i].Last
               /\ i # j => b[i].Last < b[j].First \/ b[j].Last < b[i].First
    <3>1. (i \in 1..n \/ i = n + 1) /\ (j \in 1..n \/ j = n + 1)
      BY <1>1
    <3>2. CASE i \in 1..n /\ j \in 1..n
      BY <1>1, <3>2 DEF Apart
    <3>3. CASE i \in 1..n /\ j = n + 1
      BY <1>1, <1>3, <3>3 DEF Apart
    <3>4. CASE i = n + 1 /\ j \in 1..n
      BY <1>1, <1>3, <3>4
    <3>5. CASE i = n + 1 /\ j = n + 1
      BY <1>1, <3>5
    <3> QED BY <3>1, <3>2, <3>3, <3>4, <3>5
  <2> QED BY <2>1 DEF Apart
<1>5. ToSet(b) = ToSet(a) \cup {r}
  <2>1. ASSUME NEW q \in ToSet(b) PROVE q \in ToSet(a) \cup {r}
    <3>1. PICK i \in 1..(n + 1) : q = b[i]
      BY <1>1, ToSetIs
    <3>2. i \in 1..n \/ i = n + 1
      BY <1>1
    <3> QED BY <1>1, <3>1, <3>2, ToSetIs DEF n
  <2>2. ASSUME NEW q \in ToSet(a) \cup {r} PROVE q \in ToSet(b)
    <3>1. CASE q \in ToSet(a)
      <4>1. PICK i \in 1..n : q = a[i]
        BY <3>1, ToSetIs DEF n
      <4>2. i \in 1..Len(b) /\ q = b[i]
        BY <1>1, <4>1
      <4> QED BY <1>1, <4>2, ToSetIs
    <3>2. CASE q = r
      <4>1. n + 1 \in 1..Len(b)
        BY <1>1
      <4> QED BY <1>1, <3>2, <4>1, ToSetIs
    <3> QED BY <3>1, <3>2
  <2> QED BY <2>1, <2>2
<1>6. IDsOf(b) = IDsOf(a) \cup IDsIn(r)
  <2>1. IDsOf(b) = UNION {IDsIn(q) : q \in ToSet(b)} /\ IDsOf(a) = UNION {IDsIn(q) : q \in ToSet(a)}
    BY <1>1, ToSetIs
  <2> QED BY <1>5, <2>1
<1> QED BY <1>1, <1>4, <1>5, <1>6 DEF b

\* Without one of its ranges, a list is without the IDs of that range.
LEMMA IDsWithout ==
    ASSUME NEW a \in Seq(Range2), Apart(a), NEW b \in Seq(Range2), NEW r \in ToSet(a),
           ToSet(b) = ToSet(a) \ {r}
    PROVE  IDsOf(b) = IDsOf(a) \ IDsIn(r)
<1>1. IDsOf(b) = UNION {IDsIn(q) : q \in ToSet(b)} /\ IDsOf(a) = UNION {IDsIn(q) : q \in ToSet(a)}
  BY ToSetIs
<1>2. ASSUME NEW x \in IDsOf(b) PROVE x \in IDsOf(a) /\ x \notin IDsIn(r)
  <2>1. PICK q \in ToSet(b) : x \in IDsIn(q)
    BY <1>1
  <2>2. q \in ToSet(a) /\ q # r
    BY <2>1
  <2>3. x \notin IDsIn(r)
    BY <2>1, <2>2, ApartShare
  <2> QED BY <1>1, <2>1, <2>2, <2>3
<1>3. ASSUME NEW x \in IDsOf(a), x \notin IDsIn(r) PROVE x \in IDsOf(b)
  <2>1. PICK q \in ToSet(a) : x \in IDsIn(q)
    BY <1>1
  <2>2. q \in ToSet(b)
    BY <1>3, <2>1
  <2> QED BY <1>1, <2>1, <2>2
<1> QED BY <1>2, <1>3

\* With a shorter first range, it is without the IDs dropped from that range.
LEMMA IDsDropped ==
    ASSUME NEW a \in Seq(Range2), Apart(a), a # <<>>, NEW m \in 1..width(a[1])
    PROVE  /\ [a EXCEPT ![1] = Drop(a[1], m)] \in Seq(Range2)
           /\ IDsOf([a EXCEPT ![1] = Drop(a[1], m)]) = IDsOf(a) \ IDsIn(Take(a[1], m))
<1> DEFINE r == a[1]
           b == [a EXCEPT ![1] = Drop(a[1], m)]
<1>1. Len(a) \in Nat /\ 1 \in 1..Len(a) /\ r \in Range2 /\ DOMAIN a = 1..Len(a)
  OBVIOUS
<1>2. /\ r.First \in Int /\ r.Last \in Int /\ m \in Int /\ 1 <= m /\ m <= r.Last - r.First
      /\ Take(r, m).First = r.First /\ Take(r, m).Last = r.First + m - 1
      /\ Drop(r, m) \in Range2 /\ Drop(r, m).First = r.First + m /\ Drop(r, m).Last = r.Last
  <2>1. width(r) \in Int /\ width(r) = r.Last - r.First /\ r.First \in Int /\ r.Last \in Int
    BY <1>1 DEF width, Range2
  <2>2. m \in Int /\ 1 <= m /\ m <= width(r)
    BY <2>1
  <2> QED BY <1>1, <2>1, <2>2, TakeDropType
<1>3. /\ b \in Seq(Range2) /\ Len(b) = Len(a) /\ b[1] = Drop(r, m)
      /\ \A i \in 2..Len(a) : b[i] = a[i]
  BY <1>1, <1>2
<1> HIDE DEF b
<1>4. \A x : x \in IDsIn(Take(r, m)) <=> x \in Int /\ r.First <= x /\ x <= r.First + m - 1
  BY <1>2 DEF IDsIn
<1>5. ASSUME NEW i \in 2..Len(a), NEW x \in Int, a[i].First <= x, x <= a[i].Last
      PROVE  ~(r.First <= x /\ x <= r.Last)
  <2>1. a[i].First \in Int /\ a[i].Last \in Int /\ i # 1 /\ i \in DOMAIN a
    <3>1. i # 1 /\ i \in 1..Len(a)
      OBVIOUS
    <3>2. a[i] \in Range2
      BY <3>1
    <3> QED BY <1>1, <3>1, <3>2 DEF Range2
  <2>2. a[i].Last < r.First \/ r.Last < a[i].First
    BY <1>1, <2>1 DEF Apart
  <2> QED BY <1>2, <1>5, <2>1, <2>2
<1>6. ASSUME NEW x, x \in IDsOf(b) PROVE x \in IDsOf(a) /\ x \notin IDsIn(Take(r, m))
  <2>1. x \in Int /\ \E i \in 1..Len(b) : b[i].First <= x /\ x <= b[i].Last
    BY <1>3, <1>6, InIDs
  <2>2. PICK i \in 1..Len(b) : b[i].First <= x /\ x <= b[i].Last
    BY <2>1
  <2>3. CASE i = 1
    <3>1. r.First + m <= x /\ x <= r.Last
      BY <1>2, <1>3, <2>2, <2>3
    <3>2. r.First <= x /\ ~(x <= r.First + m - 1)
      BY <1>2, <2>1, <3>1
    <3>3. x \in IDsOf(a)
      BY <1>1, <2>1, <3>1, <3>2, InIDs
    <3> QED BY <1>4, <3>2, <3>3
  <2>4. CASE i # 1
    <3>1. i \in 2..Len(a) /\ a[i].First <= x /\ x <= a[i].Last /\ i \in 1..Len(a)
      BY <1>3, <2>2, <2>4
    <3>2. x \in IDsOf(a)
      BY <2>1, <3>1, InIDs
    <3>3. ~(r.First <= x /\ x <= r.Last)
      BY <1>5, <2>1, <3>1
    <3> QED BY <1>2, <1>4, <2>1, <3>2, <3>3
  <2> QED BY <2>3, <2>4
<1>7. ASSUME NEW x, x \in IDsOf(a), x \notin IDsIn(Take(r, m)) PROVE x \in IDsOf(b)
  <2>1. x \in Int /\ \E i \in 1..Len(a) : a[i].First <= x /\ x <= a[i].Last
    BY <1>7, InIDs
  <2>2. PICK i \in 1..Len(a) : a[i].First <= x /\ x <= a[i].Last
    BY <2>1
  <2>3. b[i].First <= x /\ x <= b[i].Last /\ i \in 1..Len(b)
    <3>1. CASE i = 1
      <4>1. ~(x <= r.First + m - 1)
        BY <1>4, <1>7, <2>1, <2>2, <3>1
      <4> QED BY <1>2, <1>3, <2>1, <2>2, <3>1, <4>1
    <3>2. CASE i # 1
      <4>1. i \in 2..Len(a)
        BY <3>2
      <4> QED BY <1>3, <2>2, <4>1
    <3> QED BY <3>1, <3>2
  <2> QED BY <1>3, <2>1, <2>3, InIDs
<1> QED BY <1>3, <1>6, <1>7 DEF b

\* Of the ranges that were taken whole (R) and of the others (Q), of which r is the
\* smallest: with IDs of r only, ranges smaller than one that is touched are taken.
LEMMA SmallestTaken ==
    ASSUME NEW a \in Seq(Range2), Apart(a), NEW R \in Seq(Range2), NEW Q \in Seq(Range2),
           ToSet(R) \cup ToSet(Q) = ToSet(a), IDsOf(R) \cap IDsOf(Q) = {},
           \A q \in ToSet(R), p \in ToSet(Q) : width(q) <= width(p),
           NEW r \in ToSet(Q), \A p \in ToSet(Q) : width(r) <= width(p),
           NEW q \in ToSet(a), NEW p \in ToSet(a), width(q) < width(p),
           NEW x, x \in IDsIn(p), x \in IDsOf(R) \/ x \in IDsIn(r)
    PROVE  IDsIn(q) \subseteq IDsOf(R)
<1>1. /\ IDsOf(R) = UNION {IDsIn(z) : z \in ToSet(R)} /\ IDsOf(Q) = UNION {IDsIn(z) : z \in ToSet(Q)}
      /\ r \in ToSet(a)
  BY ToSetIs
<1>2. \A z \in ToSet(a) : width(z) \in Int
  <2>1. \A z \in ToSet(a) : z.First \in Int /\ z.Last \in Int
    BY ToSetIs
  <2> QED BY <2>1 DEF width
<1>3. p \in ToSet(R) \/ p = r
  <2>1. CASE x \in IDsIn(r)
    BY <1>1, <2>1, ApartShare
  <2>2. CASE x \in IDsOf(R)
    <3>1. x \notin IDsOf(Q)
      BY <2>2
    <3>2. p \notin ToSet(Q)
      BY <1>1, <3>1
    <3> QED BY <3>2
  <2> QED BY <2>1, <2>2
<1>4. width(p) <= width(r)
  BY <1>1, <1>2, <1>3
<1>5. q \notin ToSet(Q)
  <2>1. SUFFICES ASSUME q \in ToSet(Q) PROVE FALSE
    OBVIOUS
  <2>2. width(r) <= width(q)
    BY <2>1
  <2> QED BY <1>1, <1>2, <1>4, <2>2
<1>6. q \in ToSet(R)
  BY <1>5
<1> QED BY <1>1, <1>6

ReserveState == [reserved : Seq(Range2), avail : Seq(Range2), count : Int]

\* What a round of reserveIDs does.
LEMMA TakeSmallestIs ==
    ASSUME NEW s \in ReserveState, s.count # 0, s.avail # <<>>
    PROVE  /\ s.avail[1] \in Range2 /\ width(s.avail[1]) \in Int
           /\ s.count - 1 < width(s.avail[1]) =>
                TakeSmallest(s) = [reserved |-> Append(s.reserved, Take(s.avail[1], s.count)),
                                   avail    |-> [s.avail EXCEPT ![1] = Drop(s.avail[1], s.count)],
                                   count    |-> 0]
           /\ ~(s.count - 1 < width(s.avail[1])) =>
                TakeSmallest(s) = [reserved |-> Append(s.reserved, s.avail[1]),
                                   avail    |-> Pop(s.avail),
                                   count    |-> s.count - (width(s.avail[1]) + 1)]
<1>1. s.avail \in Seq(Range2) /\ s.avail # <<>>
  BY DEF ReserveState
<1>2. s.avail[1] \in Range2 /\ Head(s.avail) = s.avail[1]
  BY <1>1
<1>3. width(s.avail[1]) \in Int
  BY <1>2 DEF width, Range2
<1> QED BY <1>2, <1>3 DEF TakeSmallest

\* A round of reserveIDs keeps the types.
LEMMA TakeSmallestType ==
    ASSUME NEW s \in ReserveState
    PROVE  TakeSmallest(s) \in ReserveState
<1>1. CASE s.count = 0 \/ s.avail = <<>>
  BY <1>1 DEF TakeSmallest
<1>2. CASE ~(s.count = 0 \/ s.avail = <<>>)
  <2> DEFINE r == s.avail[1]
  <2>1. s.reserved \in Seq(Range2) /\ s.avail \in Seq(Range2) /\ s.count \in Int /\ s.avail # <<>> /\ s.count # 0
    BY <1>2 DEF ReserveState
  <2>2. r \in Range2 /\ width(r) \in Int
    BY <2>1, TakeSmallestIs
  <2>3. Take(r, s.count) \in Range2 /\ Drop(r, s.count) \in Range2
    BY <2>1, <2>2, TakeDropType
  <2>4. Pop(s.avail) \in Seq(Range2)
    BY <2>1, PopType
  <2>5. CASE s.count - 1 < width(r)
    <3>1. TakeSmallest(s) = [reserved |-> Append(s.reserved, Take(r, s.count)),
                             avail    |-> [s.avail EXCEPT ![1] = Drop(r, s.count)],
                             count    |-> 0]
      BY <2>1, <2>5, TakeSmallestIs
    <3> HIDE DEF r
    <3>2. Append(s.reserved, Take(r, s.count)) \in Seq(Range2) /\ [s.avail EXCEPT ![1] = Drop(r, s.count)] \in Seq(Range2)
      BY <2>1, <2>3
    <3> QED BY <3>1, <3>2 DEF ReserveState
  <2>6. CASE ~(s.count - 1 < width(r))
    <3>1. TakeSmallest(s) = [reserved |-> Append(s.reserved, r), avail |-> Pop(s.avail),
                             count    |-> s.count - (width(r) + 1)]
      BY <2>1, <2>6, TakeSmallestIs
    <3> HIDE DEF r
    <3>2. Append(s.reserved, r) \in Seq(Range2) /\ s.count - (width(r) + 1) \in Int
      BY <2>1, <2>2
    <3> QED BY <2>4, <3>1, <3>2 DEF ReserveState
  <2> QED BY <2>5, <2>6
<1> QED BY <1>1, <1>2

\* g records the rounds of reserveIDs, and there are such rounds.
IsReserveRun(g, a, k) ==
    /\ g \in [0..Len(a) -> ReserveState] /\ g[0] = [reserved |-> <<>>, avail |-> Heapify(a), count |-> k]
    /\ \A i \in 1..Len(a) : g[i - 1] \in ReserveState /\ g[i] = TakeSmallest(g[i - 1])
    /\ reserveIDs(a, k) = g[Len(a)]

LEMMA ReserveRun ==
    ASSUME NEW a \in Seq(Range2), NEW k \in Int, Heapify(a) \in Seq(Range2)
    PROVE  \E g : IsReserveRun(g, a, k)
<1> DEFINE m == Len(a)
           S == ReserveState
           s0 == [reserved |-> <<>>, avail |-> Heapify(a), count |-> k]
           Round(x, i) == TakeSmallest(x)
           F == CHOOSE f : f = [i \in 0..m |-> IF i = 0 THEN s0 ELSE Round(f[i - 1], i)]
           step == [i \in 1..m |-> [x \in S |-> Round(x, i)]]
<1>1. reserveIDs(a, k) = F[m]
  BY DEF reserveIDs, Iterate
<1>2. m \in Nat
  OBVIOUS
<1>3. s0 \in S
  BY DEF ReserveState
<1>4. ASSUME NEW x \in S, NEW i \in 1..m PROVE Round(x, i) \in S
  BY TakeSmallestType
<1>5. m = Len(a) /\ S = ReserveState /\ s0 = [reserved |-> <<>>, avail |-> Heapify(a), count |-> k] /\ \A x, i : Round(x, i) = TakeSmallest(x)
  OBVIOUS
<1> HIDE DEF m, S, s0, Round, F
<1>6. step \in [1..m -> [S -> S]]
  BY <1>4
<1>7. PICK g : IsRun(g, S, m, s0, step)
  <2> HIDE DEF step
  <2> QED BY <1>2, <1>3, <1>6, RunExists
<1>8. /\ g \in [0..m -> S] /\ g[0] = s0
      /\ \A i \in 1..m : g[i - 1] \in S /\ g[i] = Round(g[i - 1], i)
  <2>1. g \in [0..m -> S] /\ g[0] = s0 /\ \A i \in 1..m : g[i] = step[i][g[i - 1]]
    BY <1>7 DEF IsRun
  <2>2. \A i \in 1..m : g[i - 1] \in S
    BY <1>2, <2>1
  <2> QED BY <2>1, <2>2
<1>9. g = [i \in 0..m |-> IF i = 0 THEN s0 ELSE Round(g[i - 1], i)]
  BY <1>2, <1>8
<1>10. F = [i \in 0..m |-> IF i = 0 THEN s0 ELSE Round(F[i - 1], i)]
  BY <1>9 DEF F
<1>11. \A i \in 0..m : F[i] = g[i]
  <2>1. Obeys(F, S, m, s0, step)
    BY <1>2, <1>10 DEF Obeys
  <2> HIDE DEF step
  <2> QED BY <1>2, <1>7, <2>1, RunUnique
<1>12. reserveIDs(a, k) = g[m]
  BY <1>1, <1>2, <1>11
<1>13. IsReserveRun(g, a, k)
  BY <1>5, <1>8, <1>12 DEF IsReserveRun
<1> QED BY <1>13

\* What holds after t rounds of reserveIDs(a, k): the IDs are divided; while some are
\* missing, whole ranges were taken, the smallest first, and the others are a heap.
Divided(a, s) ==
    /\ Apart(s.reserved) /\ Apart(s.avail)
    /\ IDsOf(s.reserved) \cup IDsOf(s.avail) = IDsOf(a)
    /\ IDsOf(s.reserved) \cap IDsOf(s.avail) = {}

WholeRanges(a, s) ==
    /\ Heap(s.avail, Len(s.avail))
    /\ ToSet(s.reserved) \cup ToSet(s.avail) = ToSet(a)
    /\ \A q \in ToSet(s.reserved), p \in ToSet(s.avail) : width(q) <= width(p)

SmallerGone(a, taken) ==
    \A q, p \in ToSet(a) :
        width(q) < width(p) /\ IDsIn(p) \cap taken # {} => IDsIn(q) \subseteq taken

Reserving(a, k, s, t) ==
    /\ Divided(a, s)
    /\ s.count \in Nat /\ Count(s.reserved) + s.count = k
    /\ s.count # 0 => WholeRanges(a, s) /\ Len(s.avail) <= Len(a) - t
    /\ SmallerGone(a, IDsOf(s.reserved))

\* Before the first round.
LEMMA ReservingInit ==
    ASSUME NEW a \in Seq(Range2), Apart(a), NEW k \in Nat
    PROVE  /\ Heapify(a) \in Seq(Range2)
           /\ Reserving(a, k, [reserved |-> <<>>, avail |-> Heapify(a), count |-> k], 0)
<1> DEFINE h == Heapify(a)
           n == Len(a)
           e == <<>>
<1>1. Shuffled(a, h) /\ Heap(h, n) /\ n \in Nat
  BY HeapifyHeap
<1> HIDE DEF h
<1>2. h \in Seq(Range2) /\ Len(h) = n /\ ToSet(h) = ToSet(a) /\ Apart(h)
  <2>1. h \in [1..n -> Range2] /\ ToSet(h) = ToSet(a) /\ Apart(h)
    BY <1>1 DEF Shuffled
  <2> QED BY <1>1, <2>1, ListAsFunction
<1>3. e \in Seq(Range2) /\ Len(e) = 0 /\ DOMAIN e = {}
  OBVIOUS
<1>4. ToSet(e) = {} /\ Apart(e) /\ IDsOf(e) = {}
  <2>1. ToSet(e) = {}
    BY <1>3 DEF ToSet
  <2> HIDE DEF e
  <2> QED BY <1>3, <2>1 DEF Apart, IDsOf
<1>5. Count(e) = 0
  <2>1. Forward(e)
    BY <1>3 DEF Forward
  <2> HIDE DEF e
  <2>2. CountsOf(Counts(e), e)
    BY <1>3, <2>1, ForwardCounts
  <2> QED BY <1>3, <2>2 DEF CountsOf, Count
<1>6. IDsOf(h) = IDsOf(a)
  <2>1. IDsOf(h) = UNION {IDsIn(q) : q \in ToSet(h)} /\ IDsOf(a) = UNION {IDsIn(q) : q \in ToSet(a)}
    BY <1>2, ToSetIs
  <2> QED BY <1>2, <2>1
<1> DEFINE s == [reserved |-> e, avail |-> h, count |-> k]
<1>7. s.reserved = e /\ s.avail = h /\ s.count = k
  OBVIOUS
<1> HIDE DEF s, e, n
<1>8. Divided(a, s)
  BY <1>2, <1>4, <1>6, <1>7 DEF Divided
<1>9. WholeRanges(a, s)
  BY <1>1, <1>2, <1>4, <1>7 DEF WholeRanges
<1>10. SmallerGone(a, IDsOf(s.reserved))
  BY <1>4, <1>7 DEF SmallerGone
<1>11. Len(s.avail) <= Len(a) - 0
  BY <1>1, <1>2, <1>7 DEF n
<1>12. Reserving(a, k, s, 0)
  BY <1>5, <1>7, <1>8, <1>9, <1>10, <1>11 DEF Reserving
<1> QED BY <1>2, <1>12 DEF s, e, h

\* Taking IDs T of the first range r, the smallest: the rest is Q.
LEMMA TakeFrom ==
    ASSUME NEW a \in Seq(Range2), Apart(a), NEW s \in ReserveState, Divided(a, s), WholeRanges(a, s),
           s.avail # <<>>, NEW q \in Range2, q.First = s.avail[1].First,
           q.First <= q.Last, q.Last <= s.avail[1].Last,
           NEW Q \in Seq(Range2), Apart(Q), IDsOf(Q) = IDsOf(s.avail) \ IDsIn(q),
           NEW c
    PROVE  LET u == [reserved |-> Append(s.reserved, q), avail |-> Q, count |-> c]
           IN /\ Divided(a, u) /\ SmallerGone(a, IDsOf(u.reserved))
              /\ Count(u.reserved) = Count(s.reserved) + (width(q) + 1)
<1> DEFINE R == s.reserved
           A == s.avail
           r == A[1]
           u == [reserved |-> Append(R, q), avail |-> Q, count |-> c]
<1>1. R \in Seq(Range2) /\ A \in Seq(Range2) /\ Len(A) \in Nat /\ 1 \in 1..Len(A)
  BY DEF ReserveState
<1>2. /\ Apart(R) /\ Apart(A) /\ IDsOf(R) \cup IDsOf(A) = IDsOf(a) /\ IDsOf(R) \cap IDsOf(A) = {}
  BY DEF Divided
<1>3. /\ Heap(A, Len(A)) /\ ToSet(R) \cup ToSet(A) = ToSet(a)
      /\ \A z \in ToSet(R), p \in ToSet(A) : width(z) <= width(p)
  BY DEF WholeRanges
<1>4. u.reserved = Append(R, q) /\ u.avail = Q
  OBVIOUS
<1> HIDE DEF R, A, u
<1>5. r \in ToSet(A) /\ r \in Range2 /\ r.First \in Int /\ r.Last \in Int
  BY <1>1, ToSetIs
<1>6. q.First = r.First /\ q.Last <= r.Last /\ q.First \in Int /\ q.Last \in Int
  BY DEF A, Range2
<1> HIDE DEF r
<1>7. IDsIn(q) \subseteq IDsIn(r)
  BY <1>5, <1>6 DEF IDsIn
<1>8. IDsIn(r) \subseteq IDsOf(A)
  <2>1. IDsOf(A) = UNION {IDsIn(z) : z \in ToSet(A)}
    BY <1>1, ToSetIs
  <2> QED BY <1>5, <2>1
<1>9. IDsIn(q) \cap IDsOf(R) = {}
  BY <1>2, <1>7, <1>8
<1>10. /\ Append(R, q) \in Seq(Range2) /\ Apart(Append(R, q))
       /\ IDsOf(Append(R, q)) = IDsOf(R) \cup IDsIn(q)
  BY <1>1, <1>2, <1>9, ApartAppend
<1>11. Divided(a, u)
  <2>1. IDsOf(Q) = IDsOf(A) \ IDsIn(q)
    BY DEF A
  <2>2. IDsOf(u.reserved) \cup IDsOf(u.avail) = IDsOf(a)
    BY <1>2, <1>4, <1>7, <1>8, <1>10, <2>1
  <2>3. IDsOf(u.reserved) \cap IDsOf(u.avail) = {}
    BY <1>2, <1>4, <1>10, <2>1
  <2> QED BY <1>4, <1>10, <2>2, <2>3 DEF Divided
<1>12. \A p \in ToSet(A) : width(r) <= width(p)
  <2>1. ASSUME NEW p \in ToSet(A) PROVE width(r) <= width(p)
    <3>1. PICK i \in 1..Len(A) : p = A[i]
      BY <1>1, ToSetIs
    <3>2. A \in [1..Len(A) -> Range2]
      BY <1>1
    <3>3. width(A[1]) <= width(A[i])
      BY <1>1, <1>3, <3>2, HeapFirst
    <3> QED BY <3>1, <3>3 DEF r
  <2> QED BY <2>1
<1>13. ASSUME NEW z \in ToSet(a), NEW p \in ToSet(a), width(z) < width(p),
              IDsIn(p) \cap IDsOf(u.reserved) # {}
       PROVE  IDsIn(z) \subseteq IDsOf(u.reserved)
  <2>1. PICK x \in IDsIn(p) : x \in IDsOf(R) \/ x \in IDsIn(q)
    BY <1>4, <1>10, <1>13
  <2>2. x \in IDsOf(R) \/ x \in IDsIn(r)
    BY <1>7, <2>1
  <2>3. IDsIn(z) \subseteq IDsOf(R)
    BY <1>1, <1>2, <1>3, <1>5, <1>12, <1>13, <2>1, <2>2, SmallestTaken
  <2> QED BY <1>4, <1>10, <2>3
<1>14. SmallerGone(a, IDsOf(u.reserved))
  BY <1>13 DEF SmallerGone
<1>15. Count(u.reserved) = Count(R) + (width(q) + 1)
  <2>1. Forward(R)
    BY <1>1, <1>2, ApartForward
  <2>2. q.First <= q.Last
    OBVIOUS
  <2> QED BY <1>4, <2>1, <2>2, AppendIDs
<1> QED BY <1>11, <1>14, <1>15 DEF u, R

\* A round of reserveIDs.
LEMMA ReservingNext ==
    ASSUME NEW a \in Seq(Range2), Apart(a), NEW k \in Nat, NEW s \in ReserveState,
           NEW t \in Nat, t < Len(a), Reserving(a, k, s, t)
    PROVE  Reserving(a, k, TakeSmallest(s), t + 1)
<1> DEFINE R == s.reserved
           A == s.avail
           r == A[1]
           c == s.count
           u == TakeSmallest(s)
<1>1. R \in Seq(Range2) /\ A \in Seq(Range2) /\ Len(A) \in Nat /\ Len(a) \in Nat
  BY DEF ReserveState
<1>2. /\ Divided(a, s) /\ c \in Nat /\ Count(R) + c = k
      /\ c # 0 => WholeRanges(a, s) /\ Len(A) <= Len(a) - t
      /\ SmallerGone(a, IDsOf(R)) /\ Apart(R) /\ Apart(A)
  BY DEF Reserving, Divided
<1>3. Count(R) \in Nat
  BY <1>1, <1>2, ApartForward, ForwardCounts
<1>4. CASE c = 0 \/ A = <<>>
  <2>1. u = s
    BY <1>4 DEF TakeSmallest
  <2>2. ASSUME c # 0 PROVE Len(A) <= Len(a) - (t + 1)
    <3>1. A = <<>>
      BY <1>4, <2>2
    <3>2. Len(A) = 0
      BY <3>1
    <3> HIDE DEF A
    <3> QED BY <1>1, <3>2
  <2> QED BY <1>2, <2>1, <2>2 DEF Reserving
<1>5. CASE c # 0 /\ A # <<>>
  <2>1. r \in Range2 /\ width(r) \in Int /\ 1 \in 1..Len(A) /\ s.avail # <<>> /\ s.count # 0
    BY <1>1, <1>5, TakeSmallestIs
  <2>2. width(r) = r.Last - r.First /\ r.First \in Int /\ r.Last \in Int /\ c \in Int
    <3>1. c \in Int
      BY <1>2
    <3> HIDE DEF r, c
    <3> QED BY <2>1, <3>1, TakeDropType
  <2>3. r.First <= r.Last
    BY <1>1, <1>2, <2>1 DEF Apart
  <2>4. WholeRanges(a, s) /\ Len(A) <= Len(a) - t
    BY <1>2, <1>5
  <2>5. CASE c - 1 < width(r)
    <3> DEFINE q == Take(r, c)
               Q == [A EXCEPT ![1] = Drop(r, c)]
    <3>1. u = [reserved |-> Append(R, q), avail |-> Q, count |-> 0]
      BY <2>1, <2>5, TakeSmallestIs
    <3>2. c \in 1..width(r)
      BY <1>2, <1>5, <2>1, <2>5
    <3>3. q \in Range2 /\ q.First = r.First /\ q.Last = r.First + c - 1 /\ width(q) = q.Last - q.First
      BY <2>1, <2>2, TakeDropType
    <3>4. q.First <= q.Last /\ q.Last <= r.Last /\ width(q) + 1 = c
      <4> HIDE DEF q, r, c
      <4> QED BY <2>2, <3>2, <3>3
    <3>5. Q \in Seq(Range2) /\ IDsOf(Q) = IDsOf(A) \ IDsIn(q)
      <4> HIDE DEF A, c
      <4> QED BY <1>1, <1>2, <1>5, <3>2, IDsDropped
    <3>6. Apart(Q)
      <4>1. Forward(A)
        BY <1>1, <1>2, ApartForward
      <4> HIDE DEF A, c
      <4> QED BY <1>2, <1>5, <3>2, <4>1, ApartDrop
    <3> HIDE DEF q, Q
    <3>7. /\ Divided(a, u) /\ SmallerGone(a, IDsOf(u.reserved))
          /\ Count(u.reserved) = Count(R) + (width(q) + 1)
      <4> DEFINE v == [reserved |-> Append(s.reserved, q), avail |-> Q, count |-> 0]
      <4>1. /\ Divided(a, v) /\ SmallerGone(a, IDsOf(v.reserved))
            /\ Count(v.reserved) = Count(s.reserved) + (width(q) + 1)
        BY <1>2, <1>5, <2>4, <3>3, <3>4, <3>5, <3>6, TakeFrom
      <4>2. u = v
        BY <3>1
      <4> HIDE DEF u, v
      <4> QED BY <4>1, <4>2
    <3>8. u.count = 0
      BY <3>1
    <3> HIDE DEF u, R, c
    <3>9. Count(u.reserved) + u.count = k
      BY <1>2, <1>3, <3>4, <3>7, <3>8
    <3>10. Reserving(a, k, u, t + 1)
      BY <3>7, <3>8, <3>9 DEF Reserving
    <3> QED BY <3>10 DEF u
  <2>6. CASE ~(c - 1 < width(r))
    <3> DEFINE Q == Pop(A)
    <3>1. u = [reserved |-> Append(R, r), avail |-> Q, count |-> c - (width(r) + 1)]
      BY <2>1, <2>6, TakeSmallestIs
    <3>2. Q \in Seq(Range2) /\ Len(Q) = Len(A) - 1
      BY <1>1, <1>5, PopType
    <3>3. Heap(A, Len(A))
      BY <2>4 DEF WholeRanges
    <3>4. Apart(Q) /\ ToSet(Q) = ToSet(A) \ {r} /\ Heap(Q, Len(Q))
      <4> HIDE DEF A
      <4> QED BY <1>1, <1>2, <1>5, <3>3, PopHeap
    <3>5. r \in ToSet(A)
      <4> HIDE DEF A
      <4> QED BY <1>1, <2>1, ToSetIs
    <3>6. IDsOf(Q) = IDsOf(A) \ IDsIn(r)
      <4> HIDE DEF A, r, Q
      <4> QED BY <1>1, <1>2, <3>2, <3>4, <3>5, IDsWithout
    <3> DEFINE d == c - (width(r) + 1)
    <3>7. d \in Nat
      BY <1>2, <2>1, <2>6
    <3> HIDE DEF Q, d
    <3>8. /\ Divided(a, u) /\ SmallerGone(a, IDsOf(u.reserved))
          /\ Count(u.reserved) = Count(R) + (width(r) + 1)
      <4> DEFINE v == [reserved |-> Append(s.reserved, r), avail |-> Q, count |-> d]
      <4>1. r.Last <= r.Last
        BY <2>2
      <4>2. r = s.avail[1]
        OBVIOUS
      <4> HIDE DEF r
      <4>3. /\ Divided(a, v) /\ SmallerGone(a, IDsOf(v.reserved))
            /\ Count(v.reserved) = Count(s.reserved) + (width(r) + 1)
        BY <1>2, <1>5, <2>1, <2>3, <2>4, <3>2, <3>4, <3>6, <4>1, <4>2, TakeFrom
      <4>4. u = v
        BY <3>1 DEF d
      <4> HIDE DEF u, v
      <4> QED BY <4>3, <4>4
    <3>9. u.count = d /\ u.avail = Q /\ u.reserved = Append(R, r)
      BY <3>1 DEF d
    <3>10. WholeRanges(a, u)
      <4>1. /\ ToSet(R) \cup ToSet(A) = ToSet(a)
            /\ \A z \in ToSet(R), p \in ToSet(A) : width(z) <= width(p)
        BY <2>4 DEF WholeRanges
      <4>2. ToSet(u.reserved) = ToSet(R) \cup {r}
        <5>1. IDsIn(r) \cap IDsOf(R) = {}
          <6>1. IDsOf(R) \cap IDsOf(A) = {}
            BY <1>2 DEF Divided
          <6>2. IDsOf(A) = UNION {IDsIn(z) : z \in ToSet(A)}
            <7> HIDE DEF A
            <7> QED BY <1>1, ToSetIs
          <6> HIDE DEF A, R, r
          <6> QED BY <3>5, <6>1, <6>2
        <5> HIDE DEF r, R, u
        <5> QED BY <1>1, <1>2, <2>1, <2>3, <3>9, <5>1, ApartAppend
      <4>3. \A p \in ToSet(A) : width(r) <= width(p)
        <5>1. ASSUME NEW p \in ToSet(A) PROVE width(r) <= width(p)
          <6>1. PICK i \in 1..Len(A) : p = A[i]
            <7> HIDE DEF A
            <7> QED BY <1>1, ToSetIs
          <6>2. A \in [1..Len(A) -> Range2]
            BY <1>1
          <6> HIDE DEF A
          <6>3. width(A[1]) <= width(A[i])
            BY <1>1, <3>3, <6>2, HeapFirst
          <6> QED BY <6>1, <6>3
        <5> QED BY <5>1
      <4> HIDE DEF A, R, u, r
      <4>4. ToSet(u.reserved) \cup ToSet(u.avail) = ToSet(a)
        BY <3>4, <3>5, <3>9, <4>1, <4>2
      <4>5. \A z \in ToSet(u.reserved), p \in ToSet(u.avail) : width(z) <= width(p)
        BY <3>4, <3>9, <4>1, <4>2, <4>3
      <4> QED BY <3>4, <3>9, <4>4, <4>5 DEF WholeRanges
    <3>11. Len(u.avail) <= Len(a) - (t + 1)
      <4> HIDE DEF A, u
      <4> QED BY <1>1, <2>4, <3>2, <3>9
    <3>12. Count(u.reserved) + u.count = k
      <4>1. u.count = c - (width(r) + 1)
        BY <3>9 DEF d
      <4> HIDE DEF R, c, r, u
      <4> QED BY <1>2, <1>3, <2>1, <3>8, <4>1
    <3>13. u.count \in Nat
      BY <3>7, <3>9
    <3> HIDE DEF u
    <3>14. Reserving(a, k, u, t + 1)
      BY <3>8, <3>10, <3>11, <3>12, <3>13 DEF Reserving
    <3> QED BY <3>14 DEF u
  <2> QED BY <2>5, <2>6
<1> QED BY <1>4, <1>5

\* reserveIDs takes the smallest ranges first, for every list of ranges that are
\* apart and every number of IDs (reserveIDs, the heap of idalloc.go).
THEOREM ReservesSmallest ==
    ASSUME NEW a \in Seq(Range2), Apart(a), NEW k \in Nat
    PROVE  SmallestFirst(a, k)
<1> DEFINE n == Len(a)
           s == reserveIDs(a, k)
<1>1. n \in Nat /\ k \in Int
  OBVIOUS
<1>2. /\ Heapify(a) \in Seq(Range2)
      /\ Reserving(a, k, [reserved |-> <<>>, avail |-> Heapify(a), count |-> k], 0)
  BY ReservingInit
<1>3. PICK g : IsReserveRun(g, a, k)
  BY <1>1, <1>2, ReserveRun
<1>4. /\ g \in [0..n -> ReserveState] /\ g[0] = [reserved |-> <<>>, avail |-> Heapify(a), count |-> k]
      /\ \A i \in 1..n : g[i - 1] \in ReserveState /\ g[i] = TakeSmallest(g[i - 1])
      /\ s = g[n]
  BY <1>3 DEF IsReserveRun
<1> HIDE DEF n, s
<1>5. Reserving(a, k, g[n], n)
  <2> DEFINE B == {i \in 0..n : Reserving(a, k, g[i], i)}
  <2>1. 0 \in B
    BY <1>1, <1>2, <1>4
  <2>2. ASSUME NEW i \in 1..n, i - 1 \in B PROVE i \in B
    <3>1. i - 1 \in Nat /\ i - 1 < Len(a) /\ (i - 1) + 1 = i
      BY <1>1 DEF n
    <3>2. Reserving(a, k, g[i - 1], i - 1) /\ g[i - 1] \in ReserveState /\ g[i] = TakeSmallest(g[i - 1])
      BY <1>4, <2>2
    <3>3. Reserving(a, k, TakeSmallest(g[i - 1]), (i - 1) + 1)
      BY <3>1, <3>2, ReservingNext
    <3> QED BY <3>1, <3>2, <3>3
  <2>3. \A i \in 0..n : i \in B
    <3> HIDE DEF B
    <3> QED BY <1>1, <2>1, <2>2, SetInduction
  <2> QED BY <1>1, <2>3
<1>6. /\ Divided(a, s) /\ s.count \in Nat /\ Count(s.reserved) + s.count = k
      /\ s.count # 0 => Len(s.avail) <= n - n
      /\ SmallerGone(a, IDsOf(s.reserved))
  BY <1>4, <1>5 DEF Reserving, n
<1>7. s \in ReserveState
  BY <1>1, <1>4
<1>8. s.count > 0 => s.avail = <<>>
  <2>1. s.avail \in Seq(Range2)
    BY <1>7 DEF ReserveState
  <2> QED BY <1>1, <1>6, <2>1
<1>9. ASSUME NEW i \in DOMAIN a, NEW j \in DOMAIN a, width(a[i]) < width(a[j]),
             (a[j].First..a[j].Last) \cap IDsOf(s.reserved) # {}
      PROVE  (a[i].First..a[i].Last) \subseteq IDsOf(s.reserved)
  <2>1. a[i] \in ToSet(a) /\ a[j] \in ToSet(a)
    BY DEF ToSet
  <2>2. IDsIn(a[i]) = a[i].First..a[i].Last /\ IDsIn(a[j]) = a[j].First..a[j].Last
    BY DEF IDsIn
  <2>3. width(a[i]) < width(a[j]) /\ IDsIn(a[j]) \cap IDsOf(s.reserved) # {} => IDsIn(a[i]) \subseteq IDsOf(s.reserved)
    BY <1>6, <2>1 DEF SmallerGone
  <2> QED BY <1>9, <2>2, <2>3
<1>10. SmallestFirst(a, k) =
         /\ Count(s.reserved) + s.count = k
         /\ s.count > 0 => s.avail = <<>>
         /\ IDsOf(s.reserved) \cup IDsOf(s.avail) = IDsOf(a) /\ IDsOf(s.reserved) \cap IDsOf(s.avail) = {}
         /\ Apart(s.reserved) /\ Apart(s.avail)
         /\ \A i, j \in DOMAIN a :
              width(a[i]) < width(a[j]) /\ (a[j].First..a[j].Last) \cap IDsOf(s.reserved) # {}
                  => (a[i].First..a[i].Last) \subseteq IDsOf(s.reserved)
  BY DEF SmallestFirst, s
<1> QED BY <1>6, <1>8, <1>9, <1>10 DEF Divided

\* The types of what reserveIDs returns.
LEMMA ReserveType ==
    ASSUME NEW a \in Seq(Range2), Apart(a), NEW k \in Nat
    PROVE  reserveIDs(a, k) \in ReserveState
<1>1. Heapify(a) \in Seq(Range2)
  BY ReservingInit
<1>2. PICK g : IsReserveRun(g, a, k)
  BY <1>1, ReserveRun
<1>3. Len(a) \in 0..Len(a)
  OBVIOUS
<1> QED BY <1>2, <1>3 DEF IsReserveRun

-----------------------------------------------------------------------------
(* Putting lists together *)

\* Two lists without a common ID, one after the other.
LEMMA ApartConcat ==
    ASSUME NEW a \in Seq(Range2), NEW b \in Seq(Range2), Apart(a), Apart(b),
           IDsOf(a) \cap IDsOf(b) = {}
    PROVE  /\ a \o b \in Seq(Range2) /\ Apart(a \o b)
           /\ IDsOf(a \o b) = IDsOf(a) \cup IDsOf(b)
<1> DEFINE c == a \o b
           n == Len(a)
           m == Len(b)
<1>1. n \in Nat /\ m \in Nat /\ DOMAIN a = 1..n /\ DOMAIN b = 1..m
  OBVIOUS
<1>2. /\ c \in Seq(Range2) /\ Len(c) = n + m /\ DOMAIN c = 1..(n + m)
      /\ \A i \in 1..n : c[i] = a[i]
      /\ \A i \in (n + 1)..(n + m) : c[i] = b[i - n] /\ i - n \in 1..m
  OBVIOUS
<1> HIDE DEF c
<1>3. ASSUME NEW x PROVE x \in IDsOf(c) <=> x \in IDsOf(a) \/ x \in IDsOf(b)
  <2>1. ASSUME x \in IDsOf(c) PROVE x \in IDsOf(a) \/ x \in IDsOf(b)
    <3>1. PICK i \in 1..(n + m) : c[i].First <= x /\ x <= c[i].Last /\ x \in Int
      BY <1>2, <2>1, InIDs
    <3>2. CASE i \in 1..n
      BY <1>2, <3>1, <3>2, InIDs
    <3>3. CASE i \in (n + 1)..(n + m)
      <4>1. i - n \in 1..m /\ b[i - n].First <= x /\ x <= b[i - n].Last
        BY <1>2, <3>1, <3>3
      <4> QED BY <3>1, <4>1, InIDs
    <3>4. i \in 1..n \/ i \in (n + 1)..(n + m)
      BY <1>1
    <3> QED BY <3>2, <3>3, <3>4
  <2>2. ASSUME x \in IDsOf(a) PROVE x \in IDsOf(c)
    <3>1. PICK i \in 1..n : a[i].First <= x /\ x <= a[i].Last /\ x \in Int
      BY <2>2, InIDs
    <3>2. i \in 1..Len(c) /\ c[i].First <= x /\ x <= c[i].Last
      BY <1>1, <1>2, <3>1
    <3> QED BY <1>2, <3>1, <3>2, InIDs
  <2>3. ASSUME x \in IDsOf(b) PROVE x \in IDsOf(c)
    <3>1. PICK i \in 1..m : b[i].First <= x /\ x <= b[i].Last /\ x \in Int
      BY <2>3, InIDs
    <3>2. i + n \in (n + 1)..(n + m) /\ (i + n) - n = i /\ i + n \in 1..Len(c)
      BY <1>1, <1>2
    <3>3. c[i + n] = b[i]
      BY <1>2, <3>2
    <3> QED BY <1>2, <3>1, <3>2, <3>3, InIDs
  <2> QED BY <2>1, <2>2, <2>3
<1>4. ASSUME NEW i \in 1..n, NEW j \in 1..m PROVE a[i].Last < b[j].First \/ b[j].Last < a[i].First
  <2>1. a[i].First \in Int /\ a[i].Last \in Int /\ b[j].First \in Int /\ b[j].Last \in Int
    <3>1. a[i] \in Range2 /\ b[j] \in Range2
      OBVIOUS
    <3> QED BY <3>1 DEF Range2
  <2>2. a[i].First <= a[i].Last /\ b[j].First <= b[j].Last
    BY <1>1 DEF Apart
  <2>3. \A x \in Int : ~(a[i].First <= x /\ x <= a[i].Last /\ b[j].First <= x /\ x <= b[j].Last)
    <3>1. ASSUME NEW x \in Int, a[i].First <= x, x <= a[i].Last, b[j].First <= x, x <= b[j].Last PROVE FALSE
      <4>1. x \in IDsOf(a)
        BY <3>1, InIDs
      <4>2. x \in IDsOf(b)
        BY <3>1, InIDs
      <4> QED BY <4>1, <4>2
    <3> QED BY <3>1
  <2> QED BY <2>1, <2>2, <2>3
<1>5. Apart(c)
  <2>1. ASSUME NEW i \in DOMAIN c, NEW j \in DOMAIN c
        PROVE  /\ c[i].First <= c[i].Last
               /\ i # j => c[i].Last < c[j].First \/ c[j].Last < c[i].First
    <3>1. (i \in 1..n \/ i \in (n + 1)..(n + m)) /\ (j \in 1..n \/ j \in (n + 1)..(n + m))
      BY <1>1, <1>2
    <3>2. CASE i \in 1..n /\ j \in 1..n
      BY <1>1, <1>2, <3>2 DEF Apart
    <3>3. CASE i \in 1..n /\ j \in (n + 1)..(n + m)
      <4>1. c[i] = a[i] /\ c[j] = b[j - n] /\ j - n \in 1..m /\ a[i].First <= a[i].Last
        BY <1>1, <1>2, <3>3 DEF Apart
      <4> QED BY <1>4, <3>3, <4>1
    <3>4. CASE i \in (n + 1)..(n + m) /\ j \in 1..n
      <4>1. c[i] = b[i - n] /\ c[j] = a[j] /\ i - n \in 1..m /\ b[i - n].First <= b[i - n].Last
        BY <1>1, <1>2, <3>4 DEF Apart
      <4> QED BY <1>4, <3>4, <4>1
    <3>5. CASE i \in (n + 1)..(n + m) /\ j \in (n + 1)..(n + m)
      <4>1. c[i] = b[i - n] /\ c[j] = b[j - n] /\ i - n \in DOMAIN b /\ j - n \in DOMAIN b /\ (i # j => i - n # j - n)
        BY <1>1, <1>2, <3>5
      <4> QED BY <4>1 DEF Apart
    <3> QED BY <3>1, <3>2, <3>3, <3>4, <3>5
  <2> QED BY <2>1 DEF Apart
<1> QED BY <1>2, <1>3, <1>5 DEF c

\* p puts the first n ranges into the order of their first IDs.
Orders(list, n, p) ==
    /\ p \in [1..n -> 1..n]
    /\ \A i, j \in 1..n : i # j => p[i] # p[j]
    /\ \A c \in 1..n : \E i \in 1..n : p[i] = c
    /\ \A i, j \in 1..n : i < j => list[p[i]].First <= list[p[j]].First

\* One more range: it goes before the first one that begins later.
LEMMA OrdersNext ==
    ASSUME NEW list \in Seq(Range2), NEW n \in Nat, n < Len(list), NEW p, Orders(list, n, p)
    PROVE  \E q : Orders(list, n + 1, q)
<1> DEFINE m == n + 1
           F == [i \in 1..m |-> list[i].First]
           later == {i \in 1..m : i = m \/ F[m] < F[p[i]]}
<1>1. F \in [1..m -> Int] /\ \A i \in 1..m : list[i].First = F[i]
  <2>1. \A i \in 1..m : list[i] \in Range2
    OBVIOUS
  <2> QED BY <2>1 DEF Range2
<1> HIDE DEF F
<1>2. m \in 1..m /\ 1..n \subseteq 1..m /\ m \notin 1..n /\ m \in Nat /\ \A i \in 1..m : i # m => i \in 1..n
  OBVIOUS
<1>3. /\ p \in [1..n -> 1..n]
      /\ \A i, j \in 1..n : i # j => p[i] # p[j]
      /\ \A c \in 1..n : \E i \in 1..n : p[i] = c
      /\ \A i, j \in 1..n : i < j => F[p[i]] <= F[p[j]]
  <2>1. p \in [1..n -> 1..n]
    BY DEF Orders
  <2>2. \A i \in 1..n : p[i] \in 1..m
    BY <1>2, <2>1
  <2> QED BY <1>1, <2>1, <2>2 DEF Orders
<1>4. PICK c \in later : \A e \in later : c <= e
  <2>1. later \in SUBSET Nat /\ m \in later
    BY <1>2
  <2> HIDE DEF later
  <2> QED BY <2>1, LeastElement
<1>5. c \in 1..m /\ (c = m \/ F[m] < F[p[c]])
  BY <1>4
<1>6. ASSUME NEW i \in 1..m, i < c PROVE i \in 1..n /\ F[p[i]] <= F[m]
  <2>1. i \notin later /\ i # m
    <3>1. i \in Int /\ c \in Int /\ c <= m
      BY <1>5
    <3>2. i \notin later
      <4> HIDE DEF later
      <4> QED BY <1>4, <1>6, <3>1
    <3> QED BY <1>6, <3>1, <3>2
  <2>2. i \in 1..n /\ ~(F[m] < F[p[i]])
    BY <1>2, <2>1
  <2>3. F[m] \in Int /\ F[p[i]] \in Int
    <3>1. p[i] \in 1..m
      BY <1>2, <1>3, <2>2
    <3> QED BY <1>1, <1>2, <3>1
  <2> QED BY <2>2, <2>3
<1>7. ASSUME NEW i \in 1..n, c <= i PROVE F[m] <= F[p[i]]
  <2>1. c \in 1..n /\ c # m /\ p[c] \in 1..m /\ p[i] \in 1..m
    BY <1>2, <1>3, <1>5, <1>7, SMTT(30)
  <2>2. F[m] < F[p[c]] /\ F[m] \in Int /\ F[p[c]] \in Int /\ F[p[i]] \in Int
    BY <1>1, <1>2, <1>5, <2>1
  <2>3. F[p[c]] <= F[p[i]]
    <3>1. c = i \/ c < i
      BY <1>7, <2>1
    <3>2. CASE c = i
      BY <2>2, <3>2
    <3>3. CASE c < i
      BY <1>3, <2>1, <3>3
    <3> QED BY <3>1, <3>2, <3>3
  <2> QED BY <2>2, <2>3
<1> DEFINE q == [i \in 1..m |-> IF i < c THEN p[i] ELSE IF i = c THEN m ELSE p[i - 1]]
<1>8. \A i \in 1..m : /\ i < c => i \in 1..n /\ q[i] = p[i]
                      /\ i = c => q[i] = m
                      /\ i > c => i - 1 \in 1..n /\ q[i] = p[i - 1] /\ c <= i - 1
  <2>1. ASSUME NEW i \in 1..m, i > c PROVE i - 1 \in 1..n /\ q[i] = p[i - 1] /\ c <= i - 1
    BY <1>5, <2>1
  <2>2. ASSUME NEW i \in 1..m, i < c PROVE i \in 1..n /\ q[i] = p[i]
    BY <1>6, <2>2
  <2>3. ASSUME NEW i \in 1..m, i = c PROVE q[i] = m
    BY <1>5, <2>3
  <2> QED BY <2>1, <2>2, <2>3
<1>9. q \in [1..m -> 1..m]
  <2>1. ASSUME NEW i \in 1..m
        PROVE  (IF i < c THEN p[i] ELSE IF i = c THEN m ELSE p[i - 1]) \in 1..m
    <3>1. i < c \/ i = c \/ i > c
      BY <1>5
    <3> HIDE DEF m, q
    <3>2. \A j \in 1..n : p[j] \in 1..m
      BY <1>2, <1>3
    <3>3. i \in Int /\ c \in Int
      BY <1>2, <1>5
    <3>4. CASE i < c
      BY <1>8, <3>2, <3>4
    <3>5. CASE i = c
      BY <1>2, <3>3, <3>5
    <3>6. CASE i > c
      BY <1>8, <3>2, <3>3, <3>6
    <3> QED BY <3>1, <3>4, <3>5, <3>6
  <2> QED BY <2>1
<1> HIDE DEF q
<1>10. \A i \in 1..m : i < c \/ i = c \/ i > c
  BY <1>5
<1>11. ASSUME NEW i \in 1..m, NEW j \in 1..m, i < j PROVE q[i] # q[j] /\ F[q[i]] <= F[q[j]]
  <2>1. i \in Int /\ j \in Int /\ c \in Int
    BY <1>5
  <2>2. \A e \in 1..n : p[e] \in 1..n /\ p[e] # m
    BY <1>2, <1>3
  <2>3. CASE j < c
    <3>1. i < c
      BY <1>11, <2>1, <2>3
    <3>2. i \in 1..n /\ q[i] = p[i] /\ j \in 1..n /\ q[j] = p[j] /\ i # j
      BY <1>8, <1>11, <2>1, <2>3, <3>1
    <3> QED BY <1>3, <1>11, <3>2
  <2>4. CASE j = c
    <3>1. i < c
      BY <1>11, <2>1, <2>4
    <3> QED BY <1>6, <1>8, <2>2, <2>4, <3>1
  <2>5. CASE j > c
    <3>1. j - 1 \in 1..n /\ q[j] = p[j - 1] /\ c <= j - 1
      BY <1>8, <2>5
    <3>2. CASE i < c
      <4>1. i \in 1..n /\ q[i] = p[i] /\ i < j - 1 /\ i # j - 1
        BY <1>8, <2>1, <3>1, <3>2
      <4> QED BY <1>3, <3>1, <4>1
    <3>3. CASE i = c
      BY <1>7, <1>8, <2>2, <3>1, <3>3
    <3>4. CASE i > c
      <4>1. i - 1 \in 1..n /\ q[i] = p[i - 1] /\ i - 1 < j - 1 /\ i - 1 # j - 1
        BY <1>8, <1>11, <2>1, <3>4
      <4> QED BY <1>3, <3>1, <4>1
    <3> QED BY <1>10, <3>2, <3>3, <3>4
  <2> QED BY <1>10, <2>3, <2>4, <2>5
<1>12. ASSUME NEW e \in 1..m PROVE \E i \in 1..m : q[i] = e
  <2>1. CASE e = m
    BY <1>5, <1>8, <2>1
  <2>2. CASE e # m
    <3>1. PICK i \in 1..n : p[i] = e
      BY <1>2, <1>3, <2>2
    <3>2. CASE i < c
      BY <1>2, <1>8, <3>1, <3>2
    <3>3. CASE ~(i < c)
      <4>1. i + 1 \in 1..m /\ i + 1 > c /\ (i + 1) - 1 = i
        BY <1>5, <3>3
      <4> QED BY <1>8, <3>1, <4>1
    <3> QED BY <3>2, <3>3
  <2> QED BY <2>1, <2>2
<1>13. \A i, j \in 1..m : i # j => q[i] # q[j]
  <2>1. ASSUME NEW i \in 1..m, NEW j \in 1..m, i # j PROVE q[i] # q[j]
    <3>1. i < j \/ j < i
      BY <2>1
    <3> QED BY <1>11, <3>1
  <2> QED BY <2>1
<1>14. \A i, j \in 1..m : i < j => list[q[i]].First <= list[q[j]].First
  <2> SUFFICES ASSUME NEW i \in 1..m, NEW j \in 1..m, i < j PROVE list[q[i]].First <= list[q[j]].First
    OBVIOUS
  <2>1. q[i] \in 1..m /\ q[j] \in 1..m
    BY <1>9
  <2>2. F[q[i]] = list[q[i]].First /\ F[q[j]] = list[q[j]].First
    BY <1>1, <2>1
  <2>3. F[q[i]] <= F[q[j]]
    BY <1>11
  <2> QED BY <2>2, <2>3
<1>15. Orders(list, m, q)
  <2> HIDE DEF m
  <2> QED BY <1>9, <1>12, <1>13, <1>14 DEF Orders
<1> QED BY <1>15

\* There is such an order of every list.
LEMMA OrdersExist ==
    ASSUME NEW list \in Seq(Range2)
    PROVE  \E p : Orders(list, Len(list), p)
<1> DEFINE N == Len(list)
           B == {n \in 0..N : \E p : Orders(list, n, p)}
<1>1. N \in Nat
  OBVIOUS
<1> HIDE DEF N
<1>2. 0 \in B
  <2> DEFINE p == [i \in 1..0 |-> i]
  <2>1. 1..0 = {}
    OBVIOUS
  <2>2. Orders(list, 0, p)
    BY <2>1 DEF Orders
  <2> QED BY <1>1, <2>2
<1>3. ASSUME NEW n \in 1..N, n - 1 \in B PROVE n \in B
  <2>1. n - 1 \in Nat /\ n - 1 < Len(list) /\ (n - 1) + 1 = n
    BY <1>1 DEF N
  <2>2. PICK p : Orders(list, n - 1, p)
    BY <1>3
  <2>3. \E q : Orders(list, (n - 1) + 1, q)
    BY <2>1, <2>2, OrdersNext
  <2>4. \E q : Orders(list, n, q)
    BY <2>1, <2>3
  <2> QED BY <1>1, <2>4
<1>4. \A n \in 0..N : n \in B
  <2> HIDE DEF B
  <2> QED BY <1>1, <1>2, <1>3, SetInduction
<1>5. N \in B
  BY <1>1, <1>4
<1> QED BY <1>5 DEF N

\* Ranges in the order of their IDs.
Ascending(list) ==
    /\ \A i \in 1..Len(list) : list[i].First <= list[i].Last
    /\ \A i, j \in 1..Len(list) : i < j => list[i].Last < list[j].First

\* Sorting a list of ranges that are apart.
LEMMA SortedIs ==
    ASSUME NEW list \in Seq(Range2), Apart(list)
    PROVE  /\ SortByFirst(list) \in Seq(Range2) /\ Len(SortByFirst(list)) = Len(list)
           /\ Ascending(SortByFirst(list)) /\ IDsOf(SortByFirst(list)) = IDsOf(list)
<1> DEFINE N == Len(list)
           D == DOMAIN list
           Sorts(p) == \A i, j \in DOMAIN list : i < j => list[p[i]].First <= list[p[j]].First
           p == CHOOSE p \in Bijection(DOMAIN list, DOMAIN list) : Sorts(p)
           b == SortByFirst(list)
<1>1. N \in Nat /\ D = 1..N /\ \A i \in 1..N : list[i] \in Range2
  OBVIOUS
<1>2. b = [i \in DOMAIN list |-> list[p[i]]]
  BY DEF SortByFirst
<1>3. \E q \in Bijection(D, D) : Sorts(q)
  <2>1. PICK q : Orders(list, N, q)
    BY OrdersExist
  <2>2. /\ q \in [D -> D] /\ \A i, j \in D : i # j => q[i] # q[j]
        /\ \A c \in D : \E i \in D : q[i] = c
        /\ \A i, j \in D : i < j => list[q[i]].First <= list[q[j]].First
    BY <1>1, <2>1 DEF Orders
  <2> HIDE DEF D
  <2>3. q \in Bijection(D, D)
    BY <2>2 DEF Bijection, Injection, Surjection, IsInjective
  <2> QED BY <2>2, <2>3 DEF D
<1>4. p \in Bijection(D, D) /\ Sorts(p)
  <2> DEFINE C(q) == q \in Bijection(D, D) /\ Sorts(q)
  <2>1. \E q : C(q)
    BY <1>3
  <2>2. p = CHOOSE q : C(q)
    OBVIOUS
  <2> HIDE DEF C, p
  <2>3. C(p)
    BY <2>1, <2>2
  <2> QED BY <2>3 DEF C
<1> HIDE DEF p
<1>5. /\ p \in [1..N -> 1..N] /\ \A i, j \in 1..N : i # j => p[i] # p[j]
      /\ \A c \in 1..N : \E i \in 1..N : p[i] = c
  <2> HIDE DEF D
  <2>1. p \in Injection(D, D) /\ p \in Surjection(D, D)
    BY <1>4 DEF Bijection
  <2>2. p \in [D -> D] /\ IsInjective(p)
    BY <2>1 DEF Injection
  <2>3. \A c \in D : \E i \in D : p[i] = c
    BY <2>1 DEF Surjection
  <2>4. \A i, j \in D : i # j => p[i] # p[j]
    BY <2>2 DEF IsInjective
  <2> QED BY <1>1, <2>2, <2>3, <2>4
<1>6. b \in [1..N -> Range2] /\ \A i \in 1..N : b[i] = list[p[i]]
  BY <1>1, <1>2, <1>5
<1>7. \A i, j \in 1..N : i < j => b[i].First <= b[j].First
  BY <1>1, <1>4, <1>6
<1> HIDE DEF b, Sorts
<1>8. b \in Seq(Range2) /\ Len(b) = N
  BY <1>1, <1>6, ListAsFunction
<1>9. Ascending(b)
  <2>1. ASSUME NEW i \in 1..N PROVE b[i].First <= b[i].Last
    BY <1>1, <1>5, <1>6 DEF Apart
  <2>2. ASSUME NEW i \in 1..N, NEW j \in 1..N, i < j PROVE b[i].Last < b[j].First
    <3>1. p[i] \in DOMAIN list /\ p[j] \in DOMAIN list /\ p[i] # p[j] /\ b[i] = list[p[i]] /\ b[j] = list[p[j]]
      <4>1. i # j
        BY <2>2
      <4>2. p[i] \in 1..N /\ p[j] \in 1..N /\ p[i] # p[j]
        BY <1>5, <4>1
      <4> QED BY <1>1, <1>6, <4>2
    <3>2. b[i].Last < b[j].First \/ b[j].Last < b[i].First
      BY <3>1 DEF Apart
    <3>3. b[i].First <= b[j].First /\ b[j].First <= b[j].Last
      BY <1>7, <2>1, <2>2
    <3>4. b[i].First \in Int /\ b[i].Last \in Int /\ b[j].First \in Int /\ b[j].Last \in Int
      <4>1. b[i] \in Range2 /\ b[j] \in Range2
        BY <1>6
      <4> QED BY <4>1 DEF Range2
    <3> QED BY <3>2, <3>3, <3>4
  <2> QED BY <1>8, <2>1, <2>2 DEF Ascending
<1>10. IDsOf(b) = IDsOf(list)
  <2>1. ASSUME NEW x PROVE x \in IDsOf(b) <=> x \in IDsOf(list)
    <3>1. ASSUME x \in IDsOf(b) PROVE x \in IDsOf(list)
      <4>1. PICK i \in 1..N : b[i].First <= x /\ x <= b[i].Last /\ x \in Int
        BY <1>8, <3>1, InIDs
      <4>2. p[i] \in 1..N /\ b[i] = list[p[i]]
        BY <1>5, <1>6
      <4> QED BY <4>1, <4>2, InIDs
    <3>2. ASSUME x \in IDsOf(list) PROVE x \in IDsOf(b)
      <4>1. PICK c \in 1..N : list[c].First <= x /\ x <= list[c].Last /\ x \in Int
        BY <3>2, InIDs
      <4>2. PICK i \in 1..N : p[i] = c
        BY <1>5
      <4>3. b[i] = list[c]
        BY <1>6, <4>2
      <4> QED BY <1>8, <4>1, <4>3, InIDs
    <3> QED BY <3>1, <3>2
  <2> QED BY <2>1
<1> QED BY <1>8, <1>9, <1>10 DEF b

MergeState == [list : Seq(Range2), ok : BOOLEAN]

\* A round of mergeIDs keeps the types.
LEMMA MergeNextType ==
    ASSUME NEW s \in MergeState, NEW v \in Range2
    PROVE  MergeNext(s, v) \in MergeState
<1>1. s.list \in Seq(Range2) /\ s.ok \in BOOLEAN
  BY DEF MergeState
<1>2. CASE s.list = <<>>
  <2>1. <<v>> \in Seq(Range2)
    OBVIOUS
  <2> QED BY <1>2, <2>1 DEF MergeNext, MergeState
<1>3. CASE s.list # <<>>
  <2> DEFINE prev == Last(s.list)
             w == [prev EXCEPT !.Last = v.Last]
  <2>1. Front(s.list) \in Seq(Range2) /\ prev \in Range2
    BY <1>1, <1>3 DEF Front, Last
  <2>2. w \in Range2
    <3> HIDE DEF prev
    <3> QED BY <2>1 DEF Range2
  <2>3. MergeNext(s, v) = IF v.First <= prev.Last THEN [s EXCEPT !.ok = FALSE]
                          ELSE IF v.First = (prev.Last + 1) % (MaxUint + 1)
                          THEN [s EXCEPT !.list = Append(Front(s.list), w)]
                          ELSE [s EXCEPT !.list = Append(s.list, v)]
    BY <1>3 DEF MergeNext
  <2> HIDE DEF prev, w
  <2>4. Append(Front(s.list), w) \in Seq(Range2) /\ Append(s.list, v) \in Seq(Range2)
    BY <1>1, <2>1, <2>2
  <2>5. [s EXCEPT !.ok = FALSE] \in MergeState
    BY DEF MergeState
  <2>6. [s EXCEPT !.list = Append(Front(s.list), w)] \in MergeState
    BY <2>4 DEF MergeState
  <2>7. [s EXCEPT !.list = Append(s.list, v)] \in MergeState
    BY <2>4 DEF MergeState
  <2> QED BY <2>3, <2>5, <2>6, <2>7
<1> QED BY <1>2, <1>3

\* g records the rounds of mergeIDs over the sorted list b, and there are such rounds.
IsMergeRun(g, main, returned, b) ==
    /\ g \in [0..Len(b) -> MergeState] /\ g[0] = [list |-> <<>>, ok |-> TRUE]
    /\ \A i \in 1..Len(b) : g[i - 1] \in MergeState /\ g[i] = MergeNext(g[i - 1], b[i])
    /\ mergeIDs(main, returned) = g[Len(b)]

LEMMA MergeRun ==
    ASSUME NEW main, NEW returned, NEW b \in Seq(Range2), b = SortByFirst(main \o returned)
    PROVE  \E g : IsMergeRun(g, main, returned, b)
<1> DEFINE m == Len(b)
           S == MergeState
           s0 == [list |-> <<>>, ok |-> TRUE]
           Round(x, i) == MergeNext(x, b[i])
           F == CHOOSE f : f = [i \in 0..m |-> IF i = 0 THEN s0 ELSE Round(f[i - 1], i)]
           step == [i \in 1..m |-> [x \in S |-> Round(x, i)]]
<1>1. mergeIDs(main, returned) = F[m]
  BY DEF mergeIDs, ForEach
<1>2. m \in Nat
  OBVIOUS
<1>3. s0 \in S
  BY DEF MergeState
<1>4. ASSUME NEW x \in S, NEW i \in 1..m PROVE Round(x, i) \in S
  BY MergeNextType
<1>5. m = Len(b) /\ S = MergeState /\ s0 = [list |-> <<>>, ok |-> TRUE] /\ \A x, i : Round(x, i) = MergeNext(x, b[i])
  OBVIOUS
<1> HIDE DEF m, S, s0, Round, F
<1>6. step \in [1..m -> [S -> S]]
  BY <1>4
<1>7. PICK g : IsRun(g, S, m, s0, step)
  <2> HIDE DEF step
  <2> QED BY <1>2, <1>3, <1>6, RunExists
<1>8. /\ g \in [0..m -> S] /\ g[0] = s0
      /\ \A i \in 1..m : g[i - 1] \in S /\ g[i] = Round(g[i - 1], i)
  <2>1. g \in [0..m -> S] /\ g[0] = s0 /\ \A i \in 1..m : g[i] = step[i][g[i - 1]]
    BY <1>7 DEF IsRun
  <2>2. \A i \in 1..m : g[i - 1] \in S
    BY <1>2, <2>1
  <2> QED BY <2>1, <2>2
<1>9. g = [i \in 0..m |-> IF i = 0 THEN s0 ELSE Round(g[i - 1], i)]
  BY <1>2, <1>8
<1>10. F = [i \in 0..m |-> IF i = 0 THEN s0 ELSE Round(F[i - 1], i)]
  BY <1>9 DEF F
<1>11. \A i \in 0..m : F[i] = g[i]
  <2>1. Obeys(F, S, m, s0, step)
    BY <1>2, <1>10 DEF Obeys
  <2> HIDE DEF step
  <2> QED BY <1>2, <1>7, <2>1, RunUnique
<1>12. mergeIDs(main, returned) = g[m]
  BY <1>1, <1>2, <1>11
<1>13. IsMergeRun(g, main, returned, b)
  BY <1>5, <1>8, <1>12 DEF IsMergeRun
<1> QED BY <1>13

\* After the first i ranges of the sorted list b: they are merged, in order.
Merging(b, s, i) ==
    /\ s.ok /\ Ascending(s.list)
    /\ \A x : x \in IDsOf(s.list) <=> x \in Int /\ \E j \in 1..i : b[j].First <= x /\ x <= b[j].Last
    /\ IF i = 0 THEN s.list = <<>> ELSE s.list # <<>> /\ Last(s.list).Last = b[i].Last

\* The last range of a list in order, made longer, or another one after it.
LEMMA AscendingLonger ==
    ASSUME NEW a \in Seq(Range2), a # <<>>, Ascending(a), NEW v \in Range2, v.First <= v.Last,
           Last(a).Last < v.First
    PROVE  /\ LET c == Append(a, v)
              IN /\ c \in Seq(Range2) /\ c # <<>> /\ Last(c) = v /\ Ascending(c)
                 /\ IDsOf(c) = IDsOf(a) \cup IDsIn(v)
           /\ LET w == [Last(a) EXCEPT !.Last = v.Last]
                  c == Append(Front(a), w)
              IN v.First = Last(a).Last + 1 =>
                   /\ c \in Seq(Range2) /\ c # <<>> /\ Last(c).Last = v.Last /\ Ascending(c)
                   /\ IDsOf(c) = IDsOf(a) \cup IDsIn(v)
<1> DEFINE n == Len(a)
           z == a[n]
<1>1. n \in Nat /\ n >= 1 /\ n \in 1..n /\ \A i \in 1..n : a[i] \in Range2
  OBVIOUS
<1>2. Last(a) = z
  BY DEF Last
<1>3. /\ v.First \in Int /\ v.Last \in Int
      /\ \A i \in 1..n : a[i].First \in Int /\ a[i].Last \in Int
  BY <1>1 DEF Range2
<1>4. /\ \A i \in 1..n : a[i].First <= a[i].Last
      /\ \A i, j \in 1..n : i < j => a[i].Last < a[j].First
      /\ z.Last < v.First
  BY <1>2 DEF Ascending
<1>5. \A x : x \in IDsIn(v) <=> x \in Int /\ v.First <= x /\ x <= v.Last
  BY <1>3 DEF IDsIn
<1>6. \A i \in 1..n : a[i].Last < v.First
  <2>1. ASSUME NEW i \in 1..n PROVE a[i].Last < v.First
    <3>1. CASE i = n
      BY <1>4, <3>1
    <3>2. CASE i # n
      <4>1. a[i].Last < z.First /\ z.First <= z.Last /\ z.Last < v.First
        <5>1. i < n
          BY <1>1, <3>2
        <5> QED BY <1>1, <1>4, <5>1
      <4> QED BY <1>1, <1>3, <4>1
    <3> QED BY <3>1, <3>2
  <2> QED BY <2>1
<1>7. /\ Append(a, v) \in Seq(Range2) /\ Append(a, v) # <<>> /\ Last(Append(a, v)) = v /\ Ascending(Append(a, v))
      /\ IDsOf(Append(a, v)) = IDsOf(a) \cup IDsIn(v)
  <2> DEFINE c == Append(a, v)
  <2>1. c \in Seq(Range2) /\ c # <<>> /\ Len(c) = n + 1 /\ c[n + 1] = v /\ \A i \in 1..n : c[i] = a[i]
    OBVIOUS
  <2>2. Last(c) = v
    BY <2>1 DEF Last
  <2> HIDE DEF c
  <2>3. \A i \in 1..(n + 1) : i \in 1..n \/ i = n + 1
    BY <1>1
  <2>4. Ascending(c)
    <3>1. ASSUME NEW i \in 1..(n + 1) PROVE c[i].First <= c[i].Last
      BY <1>4, <2>1, <2>3
    <3>2. ASSUME NEW i \in 1..(n + 1), NEW j \in 1..(n + 1), i < j PROVE c[i].Last < c[j].First
      <4>1. i \in 1..n
        BY <1>1, <3>2
      <4>2. CASE j \in 1..n
        BY <1>4, <2>1, <3>2, <4>1, <4>2
      <4>3. CASE j = n + 1
        BY <1>6, <2>1, <4>1, <4>3
      <4> QED BY <2>3, <4>2, <4>3
    <3> QED BY <2>1, <3>1, <3>2 DEF Ascending
  <2>5. ASSUME NEW x PROVE x \in IDsOf(c) <=> x \in IDsOf(a) \/ x \in IDsIn(v)
    <3>1. ASSUME x \in IDsOf(c) PROVE x \in IDsOf(a) \/ x \in IDsIn(v)
      <4>1. PICK i \in 1..(n + 1) : c[i].First <= x /\ x <= c[i].Last /\ x \in Int
        BY <2>1, <3>1, InIDs
      <4>2. CASE i \in 1..n
        BY <2>1, <4>1, <4>2, InIDs
      <4>3. CASE i = n + 1
        BY <1>5, <2>1, <4>1, <4>3
      <4> QED BY <2>3, <4>2, <4>3
    <3>2. ASSUME x \in IDsOf(a) PROVE x \in IDsOf(c)
      <4>1. PICK i \in 1..n : a[i].First <= x /\ x <= a[i].Last /\ x \in Int
        BY <3>2, InIDs
      <4>2. i \in 1..Len(c) /\ c[i] = a[i]
        BY <1>1, <2>1
      <4> QED BY <2>1, <4>1, <4>2, InIDs
    <3>3. ASSUME x \in IDsIn(v) PROVE x \in IDsOf(c)
      <4>1. n + 1 \in 1..Len(c) /\ c[n + 1] = v /\ x \in Int /\ v.First <= x /\ x <= v.Last
        BY <1>1, <1>5, <2>1, <3>3
      <4> QED BY <2>1, <4>1, InIDs
    <3> QED BY <3>1, <3>2, <3>3
  <2>6. IDsOf(c) = IDsOf(a) \cup IDsIn(v)
    BY <2>5
  <2> QED BY <2>1, <2>2, <2>4, <2>6 DEF c
<1>8. ASSUME v.First = Last(a).Last + 1
      PROVE  LET w == [Last(a) EXCEPT !.Last = v.Last]
                 c == Append(Front(a), w)
             IN /\ c \in Seq(Range2) /\ c # <<>> /\ Last(c).Last = v.Last /\ Ascending(c)
                /\ IDsOf(c) = IDsOf(a) \cup IDsIn(v)
  <2> DEFINE w == [Last(a) EXCEPT !.Last = v.Last]
             f == Front(a)
             c == Append(f, w)
  <2>1. w \in Range2 /\ w.First = z.First /\ w.Last = v.Last
    <3>1. z \in Range2
      BY <1>1
    <3> HIDE DEF z
    <3> QED BY <1>2, <3>1 DEF Range2
  <2>2. f \in Seq(Range2) /\ Len(f) = n - 1 /\ \A i \in 1..(n - 1) : f[i] = a[i]
    <3> DEFINE m == n - 1
    <3>1. m \in Nat /\ 1..m \subseteq 1..n /\ f = SubSeq(a, 1, m)
      BY <1>1 DEF Front
    <3>2. SubSeq(a, 1, m) = [i \in 1..m |-> a[i]]
      BY <1>1
    <3> HIDE DEF m
    <3>3. [i \in 1..m |-> a[i]] \in [1..m -> Range2]
      BY <1>1, <3>1
    <3>4. f \in Seq(Range2) /\ Len(f) = m /\ \A i \in 1..m : f[i] = a[i]
      BY <3>1, <3>2, <3>3, ListAsFunction
    <3> QED BY <3>4 DEF m
  <2> HIDE DEF w, f
  <2>3. c \in Seq(Range2) /\ c # <<>> /\ Len(c) = n /\ c[n] = w /\ \A i \in 1..(n - 1) : c[i] = a[i]
    BY <1>1, <2>1, <2>2
  <2> HIDE DEF c
  <2>4. Last(c) = w
    BY <2>3 DEF Last
  <2>5. \A i \in 1..n : i \in 1..(n - 1) \/ i = n
    BY <1>1
  <2>6. v.First = z.Last + 1 /\ z.First <= z.Last /\ z.First \in Int /\ z.Last \in Int
    BY <1>1, <1>2, <1>3, <1>4, <1>8
  <2>7. Ascending(c)
    <3>1. ASSUME NEW i \in 1..n PROVE c[i].First <= c[i].Last
      <4>1. CASE i \in 1..(n - 1)
        BY <1>4, <2>3, <4>1
      <4>2. CASE i = n
        <5>1. z.First <= v.Last
          BY <1>3, <2>6
        <5> QED BY <2>1, <2>3, <4>2, <5>1
      <4> QED BY <2>5, <4>1, <4>2
    <3>2. ASSUME NEW i \in 1..n, NEW j \in 1..n, i < j PROVE c[i].Last < c[j].First
      <4>1. i \in 1..(n - 1) /\ a[i].Last < a[j].First
        BY <1>1, <1>4, <3>2
      <4>2. CASE j \in 1..(n - 1)
        BY <2>3, <4>1, <4>2
      <4>3. CASE j = n
        BY <2>1, <2>3, <4>1, <4>3
      <4> QED BY <2>5, <4>2, <4>3
    <3> QED BY <2>3, <3>1, <3>2 DEF Ascending
  <2>8. ASSUME NEW x PROVE x \in IDsOf(c) <=> x \in IDsOf(a) \/ x \in IDsIn(v)
    <3>1. ASSUME x \in IDsOf(c) PROVE x \in IDsOf(a) \/ x \in IDsIn(v)
      <4>1. PICK i \in 1..n : c[i].First <= x /\ x <= c[i].Last /\ x \in Int
        BY <2>3, <3>1, InIDs
      <4>2. CASE i \in 1..(n - 1)
        <5>1. c[i] = a[i]
          BY <2>3, <4>2
        <5> QED BY <4>1, <5>1, InIDs
      <4>3. CASE i = n
        <5>1. z.First <= x /\ x <= v.Last
          BY <2>1, <2>3, <4>1, <4>3
        <5>2. CASE x <= z.Last
          BY <1>1, <4>1, <5>1, <5>2, InIDs
        <5>3. CASE ~(x <= z.Last)
          <6>1. v.First <= x
            BY <2>6, <4>1, <5>3
          <6> QED BY <1>5, <4>1, <5>1, <6>1
        <5> QED BY <5>2, <5>3
      <4> QED BY <2>5, <4>2, <4>3
    <3>2. ASSUME x \in IDsOf(a) PROVE x \in IDsOf(c)
      <4>1. PICK i \in 1..n : a[i].First <= x /\ x <= a[i].Last /\ x \in Int
        BY <3>2, InIDs
      <4>2. CASE i \in 1..(n - 1)
        <5>1. c[i] = a[i] /\ i \in 1..Len(c)
          BY <2>3, <4>2
        <5> QED BY <2>3, <4>1, <5>1, InIDs
      <4>3. CASE i = n
        <5>1. x <= v.Last
          BY <1>3, <2>6, <4>1, <4>3
        <5>2. c[n].First <= x /\ x <= c[n].Last /\ n \in 1..Len(c)
          BY <1>1, <2>1, <2>3, <4>1, <4>3, <5>1
        <5> QED BY <2>3, <4>1, <5>2, InIDs
      <4> QED BY <2>5, <4>2, <4>3
    <3>3. ASSUME x \in IDsIn(v) PROVE x \in IDsOf(c)
      <4>1. x \in Int /\ v.First <= x /\ x <= v.Last
        BY <1>5, <3>3
      <4>2. z.First <= x
        BY <1>3, <2>6, <4>1
      <4>3. c[n].First <= x /\ x <= c[n].Last /\ n \in 1..Len(c)
        BY <1>1, <2>1, <2>3, <4>1, <4>2
      <4> QED BY <2>3, <4>1, <4>3, InIDs
    <3> QED BY <3>1, <3>2, <3>3
  <2>9. IDsOf(c) = IDsOf(a) \cup IDsIn(v)
    BY <2>8
  <2>10. Last(c).Last = v.Last
    BY <2>1, <2>4
  <2> QED BY <2>3, <2>7, <2>9, <2>10 DEF c, f, w
<1> QED BY <1>7, <1>8

\* A round of mergeIDs: the next range is after the others, so it never fails.
LEMMA MergingNext ==
    ASSUME NEW b \in Seq(Range2), Ascending(b), IDsOf(b) \subseteq ID, NEW s \in MergeState,
           NEW i \in 1..Len(b), Merging(b, s, i - 1)
    PROVE  Merging(b, MergeNext(s, b[i]), i)
<1> DEFINE v == b[i]
           a == s.list
           u == MergeNext(s, v)
           Ids(l, x) == x \in Int /\ \E j \in 1..l : b[j].First <= x /\ x <= b[j].Last
<1>1. v \in Range2 /\ Len(b) \in Nat /\ i \in Nat /\ i >= 1 /\ a \in Seq(Range2) /\ s \in MergeState
  BY DEF MergeState
<1>2. v.First \in Int /\ v.Last \in Int /\ v.First <= v.Last
  BY <1>1 DEF Range2, Ascending
<1>3. s.ok /\ Ascending(a) /\ \A x : x \in IDsOf(a) <=> Ids(i - 1, x)
  BY DEF Merging
<1>4. \A x : Ids(i, x) <=> Ids(i - 1, x) \/ x \in IDsIn(v)
  <2>1. \A j \in 1..i : j \in 1..(i - 1) \/ j = i
    BY <1>1
  <2>2. \A j \in 1..(i - 1) : j \in 1..i
    BY <1>1
  <2>3. i \in 1..i
    BY <1>1
  <2>4. \A x : x \in IDsIn(v) <=> x \in Int /\ v.First <= x /\ x <= v.Last
    BY <1>2 DEF IDsIn
  <2> QED BY <2>1, <2>2, <2>3, <2>4
<1> HIDE DEF Ids
<1>5. ASSUME NEW w \in Seq(Range2), w # <<>>, Ascending(w), u = [s EXCEPT !.list = w],
             IDsOf(w) = IDsOf(a) \cup IDsIn(v), Last(w).Last = v.Last
      PROVE  Merging(b, u, i)
  <2>1. u.ok = s.ok /\ u.list = w
    <3> HIDE DEF u
    <3> QED BY <1>5 DEF MergeState
  <2>2. \A x : x \in IDsOf(w) <=> Ids(i, x)
    BY <1>3, <1>4, <1>5
  <2> HIDE DEF u
  <2>3. i # 0
    BY <1>1
  <2> QED BY <1>3, <1>5, <2>1, <2>2, <2>3 DEF Merging, Ids
<1>6. CASE i = 1
  <2> DEFINE w == <<v>>
  <2>1. a = <<>>
    BY <1>6 DEF Merging
  <2>2. u = [s EXCEPT !.list = w]
    BY <2>1 DEF MergeNext
  <2>3. w \in Seq(Range2) /\ w # <<>> /\ Len(w) = 1 /\ w[1] = v
    BY <1>1
  <2>4. Last(w) = v
    BY <2>3 DEF Last
  <2> HIDE DEF w
  <2>5. Ascending(w)
    BY <1>2, <2>3 DEF Ascending
  <2>6. IDsOf(w) = IDsOf(a) \cup IDsIn(v)
    <3>1. ASSUME NEW x PROVE x \in IDsOf(w) <=> x \in IDsIn(v)
      <4>1. \A j \in 1..1 : j = 1
        OBVIOUS
      <4>2. 1 \in 1..1
        OBVIOUS
      <4>3. x \in IDsOf(w) <=> x \in Int /\ \E j \in 1..1 : w[j].First <= x /\ x <= w[j].Last
        BY <2>3, InIDs
      <4>4. x \in IDsOf(w) <=> x \in Int /\ v.First <= x /\ x <= v.Last
        BY <2>3, <4>1, <4>2, <4>3
      <4> QED BY <1>2, <4>4 DEF IDsIn
    <3>2. IDsOf(a) = {}
      <4>1. 1..(i - 1) = {}
        BY <1>6
      <4> QED BY <1>3, <4>1 DEF Ids
    <3> QED BY <3>1, <3>2
  <2> QED BY <1>5, <2>2, <2>3, <2>4, <2>5, <2>6
<1>7. CASE i # 1
  <2> DEFINE prev == Last(a)
  <2>1. i - 1 # 0 /\ i - 1 \in 1..Len(b) /\ i - 1 < i
    BY <1>1, <1>7
  <2>2. a # <<>> /\ prev.Last = b[i - 1].Last
    BY <2>1 DEF Merging
  <2>3. prev.Last < v.First /\ prev.Last \in Int
    <3>1. b[i - 1].Last < v.First
      BY <2>1 DEF Ascending
    <3>2. b[i - 1].Last \in Int
      <4>1. b[i - 1] \in Range2
        BY <2>1
      <4> QED BY <4>1 DEF Range2
    <3> QED BY <2>2, <3>1, <3>2
  <2>4. u = IF v.First <= prev.Last THEN [s EXCEPT !.ok = FALSE]
            ELSE IF v.First = (prev.Last + 1) % (MaxUint + 1)
            THEN [s EXCEPT !.list = Append(Front(a), [prev EXCEPT !.Last = v.Last])]
            ELSE [s EXCEPT !.list = Append(a, v)]
    BY <2>2 DEF MergeNext
  <2>5. ~(v.First <= prev.Last)
    <3> HIDE DEF prev, v
    <3> QED BY <1>2, <2>3
  <2>6. (prev.Last + 1) % (MaxUint + 1) = prev.Last + 1
    <3>1. v.First \in ID
      <4>1. v.First \in IDsOf(b)
        BY <1>2, InIDs
      <4> QED BY <4>1
    <3>2. b[i - 1].Last \in ID
      <4>1. b[i - 1] \in Range2 /\ b[i - 1].First <= b[i - 1].Last
        BY <2>1 DEF Ascending
      <4>2. b[i - 1].First \in Int /\ b[i - 1].Last \in Int /\ b[i - 1].Last <= b[i - 1].Last
        BY <4>1 DEF Range2
      <4>3. b[i - 1].Last \in IDsOf(b)
        BY <2>1, <4>1, <4>2, InIDs
      <4> QED BY <4>3
    <3> DEFINE q == prev.Last + 1
    <3>3. q \in 0..MaxUint /\ MaxUint \in Nat
      <4> HIDE DEF prev, v
      <4> QED BY <2>2, <2>3, <3>1, <3>2, IDAssumption DEF ID
    <3> HIDE DEF q
    <3>4. q % (MaxUint + 1) = q
      BY <3>3
    <3> QED BY <3>4 DEF q
  <2>7. CASE v.First = prev.Last + 1
    <3> DEFINE w == Append(Front(a), [prev EXCEPT !.Last = v.Last])
    <3>1. /\ w \in Seq(Range2) /\ w # <<>> /\ Last(w).Last = v.Last /\ Ascending(w)
          /\ IDsOf(w) = IDsOf(a) \cup IDsIn(v)
      <4> HIDE DEF a, v
      <4> QED BY <1>1, <1>2, <1>3, <2>2, <2>3, <2>7, AscendingLonger
    <3>2. u = [s EXCEPT !.list = w]
      <4> HIDE DEF u, prev, v, a
      <4> QED BY <2>4, <2>5, <2>6, <2>7
    <3> HIDE DEF w
    <3> QED BY <1>5, <3>1, <3>2
  <2>8. CASE v.First # prev.Last + 1
    <3> DEFINE w == Append(a, v)
    <3>1. /\ w \in Seq(Range2) /\ w # <<>> /\ Last(w) = v /\ Ascending(w)
          /\ IDsOf(w) = IDsOf(a) \cup IDsIn(v)
      <4> HIDE DEF a, v
      <4> QED BY <1>1, <1>2, <1>3, <2>2, <2>3, AscendingLonger
    <3>2. u = [s EXCEPT !.list = w]
      <4> HIDE DEF u, prev, v, a
      <4> QED BY <2>4, <2>5, <2>6, <2>8
    <3>3. Last(w).Last = v.Last
      BY <3>1
    <3> HIDE DEF w
    <3> QED BY <1>5, <3>1, <3>2, <3>3
  <2> QED BY <2>7, <2>8
<1> QED BY <1>6, <1>7

\* Ranges in order are apart.
LEMMA AscendingApart ==
    ASSUME NEW a \in Seq(Range2), Ascending(a)
    PROVE  Apart(a)
<1>1. DOMAIN a = 1..Len(a)
  OBVIOUS
<1>2. ASSUME NEW i \in 1..Len(a), NEW j \in 1..Len(a), i # j
      PROVE  a[i].Last < a[j].First \/ a[j].Last < a[i].First
  <2>1. i < j \/ j < i
    BY <1>2
  <2> QED BY <2>1 DEF Ascending
<1> QED BY <1>1, <1>2 DEF Apart, Ascending

\* Returning IDs never fails when no ID is in both lists, and loses and makes none
\* (mergeIDs, sort.Slice and the loop after it).
THEOREM MergesAll ==
    ASSUME NEW a \in Seq(Range2), NEW b \in Seq(Range2), Apart(a), Apart(b),
           IDsOf(a) \cap IDsOf(b) = {}, IDsOf(a) \cup IDsOf(b) \subseteq ID
    PROVE  LET m == mergeIDs(a, b)
           IN m.ok /\ m.list \in Seq(Range2) /\ Apart(m.list) /\ IDsOf(m.list) = IDsOf(a) \cup IDsOf(b)
<1> DEFINE m == mergeIDs(a, b)
           all == SortByFirst(a \o b)
           n == Len(all)
<1>1. a \o b \in Seq(Range2) /\ Apart(a \o b) /\ IDsOf(a \o b) = IDsOf(a) \cup IDsOf(b)
  BY ApartConcat
<1>2. all \in Seq(Range2) /\ Ascending(all) /\ IDsOf(all) = IDsOf(a) \cup IDsOf(b)
  BY <1>1, SortedIs
<1>3. PICK g : IsMergeRun(g, a, b, all)
  BY <1>2, MergeRun
<1> HIDE DEF all
<1>4. n \in Nat
  BY <1>2
<1>5. /\ g \in [0..n -> MergeState] /\ g[0] = [list |-> <<>>, ok |-> TRUE]
      /\ \A i \in 1..n : g[i - 1] \in MergeState /\ g[i] = MergeNext(g[i - 1], all[i])
      /\ m = g[n]
  BY <1>3 DEF IsMergeRun
<1> HIDE DEF m, n
<1>6. Merging(all, g[0], 0)
  <2> DEFINE e == <<>>
  <2>1. e \in Seq(Range2) /\ Len(e) = 0
    OBVIOUS
  <2>2. g[0].list = e /\ g[0].ok
    BY <1>5
  <2>3. 1..0 = {}
    OBVIOUS
  <2> HIDE DEF e
  <2>4. Ascending(e)
    BY <2>1, <2>3 DEF Ascending
  <2>5. \A x : x \notin IDsOf(e)
    BY <2>1, <2>3, InIDs
  <2> QED BY <2>2, <2>3, <2>4, <2>5 DEF Merging, e
<1>7. Merging(all, g[n], n)
  <2> DEFINE B == {i \in 0..n : Merging(all, g[i], i)}
  <2>1. 0 \in B
    BY <1>4, <1>6
  <2>2. ASSUME NEW i \in 1..n, i - 1 \in B PROVE i \in B
    <3>1. Merging(all, g[i - 1], i - 1) /\ g[i - 1] \in MergeState /\ g[i] = MergeNext(g[i - 1], all[i])
      BY <1>5, <2>2
    <3>2. i \in 1..Len(all)
      BY DEF n
    <3>3. Merging(all, g[i], i)
      BY <1>2, <3>1, <3>2, MergingNext
    <3> QED BY <1>4, <3>3
  <2>3. \A i \in 0..n : i \in B
    <3> HIDE DEF B
    <3> QED BY <1>4, <2>1, <2>2, SetInduction
  <2> QED BY <1>4, <2>3
<1>8. m \in MergeState
  BY <1>4, <1>5
<1>9. m.list \in Seq(Range2)
  BY <1>8 DEF MergeState
<1>10. /\ m.ok /\ Ascending(m.list)
       /\ \A x : x \in IDsOf(m.list) <=> x \in Int /\ \E j \in 1..n : all[j].First <= x /\ x <= all[j].Last
  BY <1>5, <1>7 DEF Merging
<1>11. IDsOf(m.list) = IDsOf(all)
  <2>1. \A x : x \in IDsOf(all) <=> x \in Int /\ \E j \in 1..n : all[j].First <= x /\ x <= all[j].Last
    BY <1>2, InIDs DEF n
  <2> QED BY <1>10, <2>1
<1>12. Apart(m.list)
  BY <1>9, <1>10, AscendingApart
<1> QED BY <1>2, <1>9, <1>10, <1>11, <1>12 DEF m

-----------------------------------------------------------------------------
(* The allocator *)

Reservation == [ranges : Seq(Range2), offset : 0..MaxUint, lock : Session \cup {NoSession}]

Told == [key : Key \cup {NoSession}, ids : Seq(Int)]

TypeInv ==
    /\ avail \in Seq(Range2) /\ res \in [Key -> Reservation]
    /\ held \in [Session -> Told] /\ spent \subseteq ID

\* ids are the first IDs of ranges.
FirstOf(ids, ranges) ==
    Len(ids) <= Count(ranges) /\ \A j \in 1..Len(ids) : ids[j] = IDSeq(ranges)[j]

\* The session that holds the lock was told to use the first IDs of the reservation.
HeldInv ==
    \A k \in Key, s \in Session : res[k].lock = s => FirstOf(held[s].ids, res[k].ranges)

\* EachIDOnce is not inductive: what is taken off the lists has to be what they
\* begin with, and CommitAgrees needs to know what sessions were told.
IDInv == TypeInv /\ EachIDOnce /\ HeldInv

\* Each ID is available, spent or in one place.
Placed(A, S, P) ==
    /\ ID = A \cup S \cup UNION {P[k] : k \in Key}
    /\ A \cap S = {}
    /\ \A k \in Key : P[k] \cap (A \cup S) = {} /\ \A j \in Key \ {k} : P[j] \cap P[k] = {}

\* The IDs of one place, and available and spent ones, are moved.
LEMMA Moved ==
    ASSUME NEW A, NEW S, NEW P, NEW k \in Key, NEW A2, NEW S2, NEW P2, Placed(A, S, P),
           A2 \cup S2 \cup P2[k] = A \cup S \cup P[k],
           A2 \cap S2 = {}, P2[k] \cap A2 = {}, P2[k] \cap S2 = {},
           \A j \in Key \ {k} : P2[j] = P[j]
    PROVE  Placed(A2, S2, P2)
<1>1. \A j \in Key \ {k} : P[j] \cap (A \cup S \cup P[k]) = {}
  BY DEF Placed
<1>2. \A j \in Key \ {k} : P2[j] \cap (A2 \cup S2 \cup P2[k]) = {}
  BY <1>1
<1>3. ID = A2 \cup S2 \cup UNION {P2[j] : j \in Key}
  <2>1. UNION {P[j] : j \in Key} = P[k] \cup UNION {P[j] : j \in Key \ {k}}
    OBVIOUS
  <2>2. UNION {P2[j] : j \in Key} = P2[k] \cup UNION {P2[j] : j \in Key \ {k}}
    OBVIOUS
  <2>3. UNION {P2[j] : j \in Key \ {k}} = UNION {P[j] : j \in Key \ {k}}
    OBVIOUS
  <2>4. ID = A \cup S \cup UNION {P[j] : j \in Key}
    BY DEF Placed
  <2> QED BY <2>1, <2>2, <2>3, <2>4
<1>4. ASSUME NEW j \in Key PROVE P2[j] \cap (A2 \cup S2) = {}
  <2>1. CASE j = k
    BY <2>1
  <2>2. CASE j # k
    BY <1>2, <2>2
  <2> QED BY <2>1, <2>2
<1>5. ASSUME NEW j \in Key, NEW i \in Key \ {j} PROVE P2[i] \cap P2[j] = {}
  <2>1. CASE j = k
    BY <1>2, <2>1
  <2>2. CASE i = k
    BY <1>2, <2>2
  <2>3. CASE i # k /\ j # k
    <3>1. P2[i] = P[i] /\ P2[j] = P[j]
      BY <2>3
    <3>2. P[i] \cap P[j] = {}
      BY DEF Placed
    <3> QED BY <3>1, <3>2
  <2> QED BY <2>1, <2>2, <2>3
<1> QED BY <1>3, <1>4, <1>5 DEF Placed

Places == [k \in Key |-> IDsOf(res[k].ranges)]

\* EachIDOnce, part by part.
LEMMA EachIDOnceIs ==
    /\ EachIDOnce <=> /\ Placed(IDsOf(avail), spent, Places)
                      /\ Apart(avail) /\ \A k \in Key : Apart(res[k].ranges)
    /\ EachIDOnce' <=> /\ Placed(IDsOf(avail'), spent', Places')
                       /\ Apart(avail') /\ \A k \in Key : Apart(res'[k].ranges)
BY DEF EachIDOnce, Placed, Places, IDsOf, Apart

\* All IDs are available in the beginning and after a reset.
LEMMA AllAvailable ==
    LET all == <<[First |-> 1, Last |-> MaxUint]>>
        e   == <<>>
    IN /\ all \in Seq(Range2) /\ Apart(all) /\ IDsOf(all) = ID
       /\ e \in Seq(Range2) /\ Apart(e) /\ IDsOf(e) = {} /\ Count(e) = 0
<1> DEFINE r == [First |-> 1, Last |-> MaxUint]
           all == <<r>>
           e == <<>>
<1>1. MaxUint \in Nat /\ MaxUint > 1
  BY IDAssumption
<1>2. r \in Range2 /\ r.First = 1 /\ r.Last = MaxUint
  BY <1>1 DEF Range2
<1> HIDE DEF r
<1>3. all \in Seq(Range2) /\ Len(all) = 1 /\ DOMAIN all = 1..1 /\ all[1] = r
  BY <1>2
<1>4. Apart(all)
  BY <1>1, <1>2, <1>3 DEF Apart
<1>5. ToSet(all) = {r}
  BY <1>3 DEF ToSet
<1>6. IDsOf(all) = ID
  BY <1>2, <1>5 DEF IDsOf, ID
<1>7. e \in Seq(Range2) /\ Len(e) = 0 /\ DOMAIN e = {}
  OBVIOUS
<1>8. ToSet(e) = {}
  BY <1>7 DEF ToSet
<1>9. Count(e) = 0
  <2>1. Forward(e)
    BY <1>7 DEF Forward
  <2> HIDE DEF e
  <2>2. CountsOf(Counts(e), e)
    BY <2>1, ForwardCounts
  <2> QED BY <1>7, <2>2 DEF CountsOf, Count
<1>10. Apart(e) /\ IDsOf(e) = {}
  <2> HIDE DEF e
  <2> QED BY <1>7, <1>8 DEF Apart, IDsOf
<1> QED BY <1>3, <1>4, <1>6, <1>7, <1>9, <1>10 DEF r

\* A state without reservations, whatever sessions were told before.
NoneReserved ==
    /\ avail = <<[First |-> 1, Last |-> MaxUint]>> /\ res = [k \in Key |-> NoReservation]
    /\ spent = {} /\ held \in [Session -> Told]

LEMMA NoneReservedInv == NoneReserved => IDInv
<1> SUFFICES ASSUME NoneReserved PROVE IDInv
  OBVIOUS
<1> USE DEF NoneReserved
<1>1. /\ avail \in Seq(Range2) /\ Apart(avail) /\ IDsOf(avail) = ID
      /\ NoReservation.ranges \in Seq(Range2) /\ Apart(NoReservation.ranges) /\ IDsOf(NoReservation.ranges) = {}
  BY AllAvailable DEF NoReservation
<1>2. NoReservation \in Reservation /\ NoReservation.lock = NoSession
  BY IDAssumption DEF NoReservation, Reservation
<1>3. TypeInv
  BY <1>1, <1>2 DEF TypeInv, ID
<1>4. \A k \in Key : res[k] = NoReservation
  OBVIOUS
<1>5. EachIDOnce
  <2>1. \A k \in Key : Places[k] = {}
    BY <1>1, <1>4 DEF Places
  <2>2. UNION {Places[k] : k \in Key} = {}
    BY <2>1
  <2>3. Placed(IDsOf(avail), spent, Places)
    BY <1>1, <2>1, <2>2 DEF Placed
  <2>4. \A k \in Key : Apart(res[k].ranges)
    BY <1>1, <1>4
  <2> QED BY <1>1, <2>3, <2>4, EachIDOnceIs
<1>6. HeldInv
  BY <1>2, <1>4, IDAssumption DEF HeldInv
<1> QED BY <1>3, <1>5, <1>6 DEF IDInv

LEMMA InitInv == Init => IDInv
<1> SUFFICES ASSUME Init PROVE IDInv
  OBVIOUS
<1>1. Nothing \in Told
  BY DEF Nothing, Told
<1>2. NoneReserved
  BY <1>1 DEF Init, NoneReserved
<1> QED BY <1>2, NoneReservedInv

LEMMA ResetInv == IDInv /\ Reset => IDInv'
<1>1. TypeInv /\ Reset => NoneReserved'
  BY DEF Reset, NoneReserved, TypeInv
<1>2. NoneReserved' => IDInv'
  BY NoneReservedInv, PTL
<1> QED BY <1>1, <1>2 DEF IDInv

\* A reservation has its IDs, and no others have them.
LEMMA ReservationIs ==
    ASSUME IDInv, NEW k \in Key
    PROVE  /\ res[k] \in Reservation /\ res[k].ranges \in Seq(Range2) /\ Apart(res[k].ranges)
           /\ res[k].offset \in 0..MaxUint
           /\ avail \in Seq(Range2) /\ Apart(avail) /\ spent \subseteq ID
           /\ Placed(IDsOf(avail), spent, Places) /\ Places[k] = IDsOf(res[k].ranges)
           /\ IDsOf(res[k].ranges) \subseteq ID /\ IDsOf(avail) \subseteq ID
           /\ IDsOf(res[k].ranges) \cap IDsOf(avail) = {} /\ IDsOf(res[k].ranges) \cap spent = {}
           /\ IDsOf(avail) \cap spent = {}
<1>1. TypeInv /\ EachIDOnce
  BY DEF IDInv
<1>2. /\ res[k] \in Reservation /\ avail \in Seq(Range2) /\ spent \subseteq ID
  BY <1>1 DEF TypeInv
<1>3. res[k].ranges \in Seq(Range2) /\ res[k].offset \in 0..MaxUint
  BY <1>2 DEF Reservation
<1>4. Placed(IDsOf(avail), spent, Places) /\ Apart(avail) /\ Apart(res[k].ranges)
  BY <1>1, EachIDOnceIs
<1>5. Places[k] = IDsOf(res[k].ranges)
  BY DEF Places
<1>6. Places[k] \subseteq ID /\ IDsOf(avail) \subseteq ID
  BY <1>4 DEF Placed
<1>7. Places[k] \cap (IDsOf(avail) \cup spent) = {} /\ IDsOf(avail) \cap spent = {}
  BY <1>4 DEF Placed
<1> QED BY <1>2, <1>3, <1>4, <1>5, <1>6, <1>7

\* What Reserve does: the session is told the first IDs of the new reservation,
\* which begins with what was kept of the old one.
Reserved(k, s, offset, kept, ranges, ids) ==
    /\ res' = [res EXCEPT ![k] = [ranges |-> ranges, offset |-> offset, lock |-> s]]
    /\ held' = [held EXCEPT ![s] = [key |-> k, ids |-> IDSeq(ids)]]
    /\ ranges \in Seq(Range2) /\ Apart(ranges) /\ Begins(kept, ranges)
    /\ Forward(ids) /\ Begins(ids, ranges)
    /\ avail' \in Seq(Range2) /\ Apart(avail')
    /\ IDsOf(avail') \cup IDsOf(ranges) = IDsOf(avail) \cup IDsOf(kept)
    /\ IDsOf(avail') \cap IDsOf(ranges) = {}
    /\ spent' = spent \cup (IDsOf(res[k].ranges) \ IDsOf(kept))

\* What a reservation keeps when earlier offsets are passed.
Kept(r, offset) ==
    Discard(r.ranges, IF offset = NoOffset THEN 0 ELSE offset - r.offset).ranges

LEMMA BeginsItself ==
    ASSUME NEW a, Forward(a)
    PROVE  Begins(a, a)
<1>1. Count(a) \in Nat
  BY ForwardCounts
<1> QED BY <1>1 DEF Begins

LEMMA KeptIs ==
    ASSUME NEW r \in Reservation, Apart(r.ranges), NEW offset \in 0..MaxUint,
           offset = NoOffset \/ offset >= r.offset
    PROVE  /\ Kept(r, offset) \in Seq(Range2) /\ Apart(Kept(r, offset)) /\ Forward(Kept(r, offset))
           /\ IDsOf(Kept(r, offset)) \subseteq IDsOf(r.ranges) /\ Count(Kept(r, offset)) \in Nat
<1> DEFINE p == IF offset = NoOffset THEN 0 ELSE offset - r.offset
           d == Discard(r.ranges, p)
<1>1. r.ranges \in Seq(Range2) /\ r.offset \in 0..MaxUint /\ MaxUint \in Nat
  BY IDAssumption DEF Reservation
<1>2. p \in Nat
  BY <1>1
<1> HIDE DEF p
<1>3. d.n \in 0..p /\ After(r.ranges, d.ranges, p - d.n) /\ Apart(d.ranges)
  BY <1>1, <1>2, DiscardIDs
<1> HIDE DEF d
<1>4. p - d.n \in Nat
  BY <1>2, <1>3
<1>5. IDsOf(d.ranges) \subseteq IDsOf(r.ranges)
  BY <1>1, <1>3, <1>4, AfterIDs
<1>6. Forward(d.ranges)
  BY <1>3 DEF After
<1>7. d.ranges \in Seq(Range2) /\ Count(d.ranges) \in Nat
  BY <1>6, ForwardCounts
<1>8. Kept(r, offset) = d.ranges
  BY DEF Kept, d, p
<1> QED BY <1>3, <1>5, <1>6, <1>7, <1>8

LEMMA ReserveIs ==
    ASSUME IDInv, NEW k \in Key, NEW s \in Session, NEW offset \in 0..MaxUint,
           NEW count \in 0..MaxCount, Reserve(k, s, offset, count)
    PROVE  \E ranges, ids : Reserved(k, s, offset, Kept(res[k], offset), ranges, ids)
<1> DEFINE r == res[k]
           kept == Kept(r, offset)
           c == count - Count(kept)
           more == reserveIDs(avail, c)
<1>1. /\ r \in Reservation /\ r.ranges \in Seq(Range2) /\ Apart(r.ranges) /\ avail \in Seq(Range2)
      /\ Apart(avail) /\ IDsOf(r.ranges) \cap IDsOf(avail) = {}
  BY ReservationIs
<1>2. offset = NoOffset \/ offset >= r.offset
  BY DEF Reserve
<1>3. kept \in Seq(Range2) /\ Apart(kept) /\ Forward(kept) /\ IDsOf(kept) \subseteq IDsOf(r.ranges) /\ Count(kept) \in Nat
  BY <1>1, <1>2, KeptIs
<1>4. IDsOf(avail) \cap IDsOf(kept) = {}
  BY <1>1, <1>3
<1>5. count \in Nat
  BY IDAssumption
<1>6. /\ \/ /\ Count(kept) >= count
            /\ res' = [res EXCEPT ![k] = [ranges |-> kept, offset |-> offset, lock |-> s]]
            /\ held' = [held EXCEPT ![s] = [key |-> k, ids |-> IDSeq(Prefix(kept, count))]]
            /\ UNCHANGED avail
         \/ /\ Count(kept) < count /\ more.count = 0
            /\ res' = [res EXCEPT ![k] = [ranges |-> Extend(kept, more.reserved),
                                          offset |-> offset, lock |-> s]]
            /\ held' = [held EXCEPT ![s] = [key |-> k, ids |-> IDSeq(Extend(kept, more.reserved))]]
            /\ avail' = more.avail
      /\ spent' = spent \cup (IDsOf(r.ranges) \ IDsOf(kept))
  BY DEF Reserve, Kept
<1> HIDE DEF kept
<1>7. CASE /\ Count(kept) >= count
           /\ res' = [res EXCEPT ![k] = [ranges |-> kept, offset |-> offset, lock |-> s]]
           /\ held' = [held EXCEPT ![s] = [key |-> k, ids |-> IDSeq(Prefix(kept, count))]]
           /\ UNCHANGED avail
  <2>1. count \in 0..Count(kept)
    BY <1>3, <1>5, <1>7
  <2>2. Begins(Prefix(kept, count), kept) /\ Forward(Prefix(kept, count))
    BY <1>3, <2>1, PrefixIDs
  <2>3. Begins(kept, kept)
    BY <1>3, BeginsItself
  <2>4. Reserved(k, s, offset, kept, kept, Prefix(kept, count))
    BY <1>1, <1>3, <1>4, <1>6, <1>7, <2>2, <2>3 DEF Reserved
  <2> QED BY <2>4 DEF kept
<1>8. CASE /\ Count(kept) < count /\ more.count = 0
           /\ res' = [res EXCEPT ![k] = [ranges |-> Extend(kept, more.reserved),
                                         offset |-> offset, lock |-> s]]
           /\ held' = [held EXCEPT ![s] = [key |-> k, ids |-> IDSeq(Extend(kept, more.reserved))]]
           /\ avail' = more.avail
  <2>1. c \in Nat
    BY <1>3, <1>5, <1>8
  <2> HIDE DEF c
  <2>2. more \in ReserveState /\ SmallestFirst(avail, c)
    BY <1>1, <2>1, ReserveType, ReservesSmallest
  <2>3. /\ IDsOf(more.reserved) \cup IDsOf(more.avail) = IDsOf(avail)
        /\ IDsOf(more.reserved) \cap IDsOf(more.avail) = {}
        /\ Apart(more.reserved) /\ Apart(more.avail)
    BY <2>2 DEF SmallestFirst
  <2> HIDE DEF more
  <2>4. more.reserved \in Seq(Range2) /\ more.avail \in Seq(Range2)
    BY <2>2 DEF ReserveState
  <2> DEFINE all == kept \o more.reserved
  <2>5. IDsOf(kept) \cap IDsOf(more.reserved) = {} /\ IDsOf(kept) \cap IDsOf(more.avail) = {}
    BY <1>4, <2>3
  <2>6. all \in Seq(Range2) /\ Apart(all) /\ IDsOf(all) = IDsOf(kept) \cup IDsOf(more.reserved)
    BY <1>3, <2>3, <2>4, <2>5, ApartConcat
  <2>7. Begins(kept, all)
    <3>1. Forward(more.reserved)
      BY <2>3, <2>4, ApartForward
    <3> QED BY <1>3, <3>1, BeginsConcat
  <2>8. all = Extend(kept, more.reserved)
    BY DEF Extend
  <2> HIDE DEF all
  <2>9. Forward(all) /\ Begins(all, all)
    BY <2>6, ApartForward, BeginsItself
  <2>10. IDsOf(avail') \cup IDsOf(all) = IDsOf(avail) \cup IDsOf(kept) /\ IDsOf(avail') \cap IDsOf(all) = {}
    <3>1. avail' = more.avail
      BY <1>8
    <3> QED BY <2>3, <2>5, <2>6, <3>1
  <2>11. Reserved(k, s, offset, kept, all, all)
    BY <1>6, <1>8, <2>3, <2>4, <2>6, <2>7, <2>8, <2>9, <2>10 DEF Reserved
  <2> QED BY <2>11 DEF kept
<1> QED BY <1>6, <1>7, <1>8

\* IDs of a list, in order, as a list.
LEMMA ToldIs ==
    ASSUME NEW ids, Forward(ids), NEW ranges, Begins(ids, ranges)
    PROVE  IDSeq(ids) \in Seq(Int) /\ FirstOf(IDSeq(ids), ranges)
<1>1. Count(ids) \in Nat /\ IDSeq(ids) \in [1..Count(ids) -> Int]
  BY ForwardCounts, IDSeqType
<1>2. IDSeq(ids) \in Seq(Int) /\ Len(IDSeq(ids)) = Count(ids)
  BY <1>1
<1> QED BY <1>1, <1>2 DEF FirstOf, Begins

LEMMA ReserveInv ==
    ASSUME IDInv, NEW k \in Key, NEW s \in Session, NEW offset \in 0..MaxUint,
           NEW count \in 0..MaxCount, Reserve(k, s, offset, count), ~Foreign(k, s)
    PROVE  IDInv'
<1> DEFINE r == res[k]
           kept == Kept(r, offset)
<1>1. /\ r \in Reservation /\ r.ranges \in Seq(Range2) /\ Apart(r.ranges) /\ avail \in Seq(Range2)
      /\ Apart(avail) /\ spent \subseteq ID
      /\ Placed(IDsOf(avail), spent, Places) /\ Places[k] = IDsOf(r.ranges)
      /\ IDsOf(r.ranges) \subseteq ID
      /\ IDsOf(r.ranges) \cap IDsOf(avail) = {} /\ IDsOf(r.ranges) \cap spent = {} /\ IDsOf(avail) \cap spent = {}
  BY ReservationIs
<1>2. PICK ranges, ids : Reserved(k, s, offset, kept, ranges, ids)
  BY ReserveIs
<1>3. IDsOf(kept) \subseteq IDsOf(r.ranges)
  <2>1. offset = NoOffset \/ offset >= r.offset
    BY DEF Reserve
  <2> QED BY <1>1, <2>1, KeptIs
<1> HIDE DEF kept
<1> DEFINE new == [ranges |-> ranges, offset |-> offset, lock |-> s]
           told == [key |-> k, ids |-> IDSeq(ids)]
<1>4. /\ res' = [res EXCEPT ![k] = new]
      /\ held' = [held EXCEPT ![s] = told]
      /\ ranges \in Seq(Range2) /\ Apart(ranges)
      /\ Forward(ids) /\ Begins(ids, ranges)
      /\ avail' \in Seq(Range2) /\ Apart(avail')
      /\ IDsOf(avail') \cup IDsOf(ranges) = IDsOf(avail) \cup IDsOf(kept)
      /\ IDsOf(avail') \cap IDsOf(ranges) = {}
      /\ spent' = spent \cup (IDsOf(r.ranges) \ IDsOf(kept))
  BY <1>2 DEF Reserved
<1>5. IDSeq(ids) \in Seq(Int) /\ FirstOf(IDSeq(ids), ranges)
  BY <1>4, ToldIs
<1>6. res \in [Key -> Reservation] /\ held \in [Session -> Told]
  BY DEF IDInv, TypeInv
<1>7. new \in Reservation /\ told \in Told /\ new.ranges = ranges /\ new.lock = s /\ told.ids = IDSeq(ids)
  BY <1>4, <1>5 DEF Reservation, Told
<1> HIDE DEF new, told
<1>8. /\ res' \in [Key -> Reservation] /\ held' \in [Session -> Told]
      /\ res'[k] = new /\ held'[s] = told
      /\ \A j \in Key \ {k} : res'[j] = res[j]
      /\ \A q \in Session \ {s} : held'[q] = held[q]
  BY <1>4, <1>6, <1>7
<1>9. TypeInv'
  <2>1. spent' \subseteq ID
    BY <1>1, <1>4
  <2> QED BY <1>4, <1>8, <2>1 DEF TypeInv
<1>10. EachIDOnce'
  <2>1. Places'[k] = IDsOf(ranges) /\ \A j \in Key \ {k} : Places'[j] = Places[j]
    BY <1>7, <1>8 DEF Places
  <2>2. IDsOf(avail') \cup spent' \cup IDsOf(ranges) = IDsOf(avail) \cup spent \cup IDsOf(r.ranges)
    BY <1>3, <1>4
  <2>3. IDsOf(avail') \cap spent' = {} /\ IDsOf(ranges) \cap spent' = {}
    BY <1>1, <1>3, <1>4
  <2>4. Placed(IDsOf(avail'), spent', Places')
    <3>1. /\ IDsOf(avail') \cup spent' \cup Places'[k] = IDsOf(avail) \cup spent \cup Places[k]
          /\ IDsOf(avail') \cap spent' = {} /\ Places'[k] \cap IDsOf(avail') = {} /\ Places'[k] \cap spent' = {}
      BY <1>1, <1>4, <2>1, <2>2, <2>3
    <3>2. Placed(IDsOf(avail), spent, Places)
      BY <1>1
    <3> QED BY ONLY <2>1, <3>1, <3>2, k \in Key, Moved
  <2>5. \A j \in Key : Apart(res'[j].ranges)
    <3>1. \A j \in Key : Apart(res[j].ranges)
      BY EachIDOnceIs DEF IDInv
    <3> QED BY <1>4, <1>7, <1>8, <3>1
  <2> QED BY <1>4, <2>4, <2>5, EachIDOnceIs
<1>11. HeldInv'
  <2>1. ASSUME NEW j \in Key, NEW q \in Session, res'[j].lock = q
        PROVE  FirstOf(held'[q].ids, res'[j].ranges)
    <3>1. CASE j = k
      BY <1>5, <1>7, <1>8, <2>1, <3>1
    <3>2. CASE j # k
      <4>1. res'[j] = res[j] /\ res[j].lock = q
        BY <1>8, <2>1, <3>2
      <4>2. q # s
        BY <3>2, <4>1 DEF Foreign
      <4>3. held'[q] = held[q]
        BY <1>8, <4>2
      <4>4. FirstOf(held[q].ids, res[j].ranges)
        BY <4>1 DEF IDInv, HeldInv
      <4> QED BY <4>1, <4>3, <4>4
    <3> QED BY <3>1, <3>2
  <2> QED BY <2>1 DEF HeldInv, FirstOf
<1> QED BY <1>9, <1>10, <1>11 DEF IDInv

\* What Commit does: new is the reservation that is left, its first count IDs are
\* spent, and told is what the session may still use.
Committed(k, s, count, new, told) ==
    /\ count <= Count(res[k].ranges)
    /\ {IDSeq(res[k].ranges)[n] : n \in 1..count} \subseteq IDsOf(res[k].ranges)
    /\ spent' = spent \cup {IDSeq(res[k].ranges)[n] : n \in 1..count}
    /\ res' = [res EXCEPT ![k] = new] /\ held' = [held EXCEPT ![s] = told]
    /\ new \in Reservation /\ told \in Told /\ Apart(new.ranges)
    /\ new.lock = s => FirstOf(told.ids, new.ranges)
    /\ avail' \in Seq(Range2) /\ Apart(avail')
    /\ IDsOf(avail') \cup IDsOf(new.ranges) =
         IDsOf(avail) \cup (IDsOf(res[k].ranges) \ {IDSeq(res[k].ranges)[n] : n \in 1..count})
    /\ IDsOf(avail') \cap IDsOf(new.ranges) = {}
    /\ \/ new.lock = NoSession
       \/ /\ new.lock = s /\ res[k].offset # NoOffset /\ new.offset = res[k].offset + count
          /\ After(res[k].ranges, new.ranges, count)

\* What is left of a list of IDs.
LEMMA RestOf ==
    ASSUME NEW ids \in Seq(Int), NEW a, NEW b, Forward(a), NEW m \in Nat, After(a, b, m), FirstOf(ids, a)
    PROVE  LET rest == SubSeq(ids, m + 1, Len(ids)) IN rest \in Seq(Int) /\ FirstOf(rest, b)
<1> DEFINE n == Len(ids)
           rest == SubSeq(ids, m + 1, n)
<1>1. Forward(b) /\ Count(a) \in Nat /\ Count(b) \in Nat /\ Count(b) = Count(a) - m /\ n \in Nat
  BY ForwardCounts DEF After
<1>2. n <= Count(a) /\ \A j \in 1..n : ids[j] = IDSeq(a)[j] /\ ids[j] \in Int
  BY DEF FirstOf
<1>3. CASE m <= n
  <2> DEFINE l == n - m
  <2>1. l \in Nat /\ l <= Count(b) /\ \A j \in 1..l : j + m \in 1..n /\ j \in 1..Count(b)
    BY <1>1, <1>2, <1>3
  <2>2. rest \in Seq(Int) /\ Len(rest) = l /\ \A j \in 1..l : rest[j] = ids[j + m]
    <3>1. rest = [j \in 1..l |-> ids[j + m]]
      BY <1>1, <1>3
    <3> HIDE DEF l, rest
    <3>2. rest \in [1..l -> Int]
      BY <1>2, <2>1, <3>1
    <3>3. rest \in Seq(Int) /\ Len(rest) = l
      BY <2>1, <3>2
    <3> QED BY <3>1, <3>3
  <2> HIDE DEF l, rest
  <2>3. ASSUME NEW j \in 1..l PROVE rest[j] = IDSeq(b)[j]
    <3>1. rest[j] = ids[j + m] /\ ids[j + m] = IDSeq(a)[j + m]
      BY <1>2, <2>1, <2>2
    <3>2. IDSeq(b)[j] = IDSeq(a)[j + m]
      BY <2>1 DEF After
    <3> QED BY <3>1, <3>2
  <2> QED BY <2>1, <2>2, <2>3 DEF FirstOf, rest
<1>4. CASE ~(m <= n)
  <2>1. rest = <<>>
    BY <1>1, <1>4
  <2>2. <<>> \in Seq(Int) /\ Len(<<>>) = 0 /\ 1..0 = {}
    OBVIOUS
  <2> HIDE DEF rest
  <2>3. rest \in Seq(Int) /\ Len(rest) = 0 /\ 1..0 = {}
    BY <2>1, <2>2
  <2> QED BY <1>1, <2>3 DEF FirstOf, rest
<1> QED BY <1>3, <1>4

LEMMA CommitIs ==
    ASSUME IDInv, NEW k \in Key, NEW s \in Session, NEW count \in 0..MaxCount, Commit(k, s, count)
    PROVE  \E new, told : Committed(k, s, count, new, told)
<1> DEFINE r == res[k]
           rest == Discard(r.ranges, count)
           merged == mergeIDs(avail, rest.ranges)
           gone == {IDSeq(r.ranges)[n] : n \in 1..count}
<1>1. /\ r \in Reservation /\ r.ranges \in Seq(Range2) /\ Apart(r.ranges) /\ avail \in Seq(Range2)
      /\ Apart(avail) /\ IDsOf(r.ranges) \subseteq ID /\ IDsOf(avail) \subseteq ID
      /\ IDsOf(r.ranges) \cap IDsOf(avail) = {} /\ r.offset \in 0..MaxUint
  BY ReservationIs
<1>2. count \in Nat /\ MaxUint \in Nat /\ MaxUint \in 0..MaxUint /\ 0 \in 0..MaxUint
  BY IDAssumption
<1>3. r.lock = s /\ (r.offset # NoOffset => count <= MaxUint - 1 - r.offset) /\ rest.n = 0
  BY DEF Commit, LockedBy
<1>4. \/ /\ r.offset = NoOffset /\ merged.ok
         /\ avail' = IF rest.ranges = <<>> THEN avail ELSE merged.list
         /\ res' = [res EXCEPT ![k] = NoReservation]
         /\ held' = [held EXCEPT ![s] = Nothing]
      \/ /\ r.offset # NoOffset
         /\ res' = [res EXCEPT ![k].ranges = rest.ranges, ![k].offset = @ + count]
         /\ held' = [held EXCEPT ![s].ids = SubSeq(@, count + 1, Len(@))]
         /\ UNCHANGED avail
  BY DEF Commit
<1>5. spent' = spent \cup (IDsOf(r.ranges) \ IDsOf(rest.ranges))
  BY DEF Commit
<1>6. After(r.ranges, rest.ranges, count) /\ Apart(rest.ranges)
  <2>1. After(r.ranges, rest.ranges, count - rest.n) /\ Apart(rest.ranges)
    BY <1>1, <1>2, DiscardIDs
  <2>2. count - rest.n = count
    BY <1>2, <1>3
  <2> QED BY <2>1, <2>2
<1> HIDE DEF rest
<1>7. /\ IDsOf(rest.ranges) \subseteq IDsOf(r.ranges) /\ count <= Count(r.ranges)
      /\ IDsOf(r.ranges) \ IDsOf(rest.ranges) = gone
  BY <1>1, <1>2, <1>6, AfterIDs
<1>8. Forward(rest.ranges) /\ rest.ranges \in Seq(Range2)
  BY <1>6, ForwardCounts DEF After
<1> HIDE DEF gone
<1>9. IDsOf(rest.ranges) = IDsOf(r.ranges) \ gone /\ gone \subseteq IDsOf(r.ranges)
  BY <1>7
<1>10. res \in [Key -> Reservation] /\ held \in [Session -> Told]
  BY DEF IDInv, TypeInv
<1>11. CASE /\ r.offset = NoOffset /\ merged.ok
            /\ avail' = IF rest.ranges = <<>> THEN avail ELSE merged.list
            /\ res' = [res EXCEPT ![k] = NoReservation]
            /\ held' = [held EXCEPT ![s] = Nothing]
  <2>1. avail' \in Seq(Range2) /\ Apart(avail') /\ IDsOf(avail') = IDsOf(avail) \cup IDsOf(rest.ranges)
    <3>1. CASE rest.ranges = <<>>
      <4>1. IDsOf(rest.ranges) = {}
        BY <3>1, AllAvailable
      <4> QED BY <1>1, <1>11, <3>1, <4>1
    <3>2. CASE rest.ranges # <<>>
      <4>1. IDsOf(avail) \cap IDsOf(rest.ranges) = {} /\ IDsOf(avail) \cup IDsOf(rest.ranges) \subseteq ID
        BY <1>1, <1>7
      <4>2. merged.list \in Seq(Range2) /\ Apart(merged.list) /\ IDsOf(merged.list) = IDsOf(avail) \cup IDsOf(rest.ranges)
        BY <1>1, <1>6, <1>8, <4>1, MergesAll
      <4> QED BY <1>11, <3>2, <4>2
    <3> QED BY <3>1, <3>2
  <2>2. /\ NoReservation \in Reservation /\ Nothing \in Told /\ NoReservation.lock = NoSession
        /\ NoReservation.ranges = <<>> /\ NoSession # s
    BY <1>2, IDAssumption DEF NoReservation, Nothing, Reservation, Told
  <2>3. Apart(NoReservation.ranges) /\ IDsOf(NoReservation.ranges) = {}
    BY <2>2, AllAvailable
  <2>4. Committed(k, s, count, NoReservation, Nothing)
    BY <1>5, <1>7, <1>9, <1>11, <2>1, <2>2, <2>3 DEF Committed, gone
  <2> QED BY <2>4
<1>12. CASE /\ r.offset # NoOffset
            /\ res' = [res EXCEPT ![k].ranges = rest.ranges, ![k].offset = @ + count]
            /\ held' = [held EXCEPT ![s].ids = SubSeq(@, count + 1, Len(@))]
            /\ UNCHANGED avail
  <2> DEFINE h == held[s]
             left == SubSeq(h.ids, count + 1, Len(h.ids))
             new == [ranges |-> rest.ranges, offset |-> r.offset + count, lock |-> s]
             told == [key |-> h.key, ids |-> left]
  <2>1. h \in Told /\ h.ids \in Seq(Int)
    BY <1>10 DEF Told
  <2>2. FirstOf(h.ids, r.ranges)
    BY <1>3 DEF IDInv, HeldInv
  <2>3. left \in Seq(Int) /\ FirstOf(left, rest.ranges)
    <3>1. Forward(r.ranges)
      BY <1>1, ApartForward
    <3> HIDE DEF h, r
    <3> QED BY <1>2, <1>6, <2>1, <2>2, <3>1, RestOf
  <2>4. r.offset + count \in 0..MaxUint
    BY <1>1, <1>2, <1>3, <1>12
  <2>5. /\ new \in Reservation /\ new.ranges = rest.ranges /\ new.lock = s /\ new.offset = r.offset + count
        /\ told \in Told /\ told.ids = left
    <3> HIDE DEF left
    <3> QED BY <1>8, <2>1, <2>3, <2>4 DEF Reservation, Told
  <2>6. res' = [res EXCEPT ![k] = new]
    <3>1. r = [ranges |-> r.ranges, offset |-> r.offset, lock |-> s]
      BY <1>1, <1>3 DEF Reservation
    <3>2. res' = [res EXCEPT ![k] = [r EXCEPT !.ranges = rest.ranges, !.offset = @ + count]]
      BY <1>10, <1>12
    <3>3. [r EXCEPT !.ranges = rest.ranges, !.offset = @ + count] = new
      <4> DEFINE q == [r EXCEPT !.ranges = rest.ranges]
                 y == r.offset + count
      <4>1. PICK a, o : r = [ranges |-> a, offset |-> o, lock |-> s]
        BY <3>1
      <4>2. q = [ranges |-> rest.ranges, offset |-> o, lock |-> s]
        <5> HIDE DEF r
        <5> QED BY <4>1
      <4>3. [r EXCEPT !.ranges = rest.ranges, !.offset = @ + count] = [q EXCEPT !.offset = y]
        OBVIOUS
      <4> HIDE DEF q, y
      <4>4. [q EXCEPT !.offset = y] = [ranges |-> rest.ranges, offset |-> y, lock |-> s]
        BY <4>2
      <4> QED BY <4>3, <4>4 DEF y
    <3> QED BY <3>2, <3>3
  <2>7. held' = [held EXCEPT ![s] = told]
    <3>1. held' = [held EXCEPT ![s] = [h EXCEPT !.ids = left]]
      BY <1>10, <1>12
    <3>2. [h EXCEPT !.ids = left] = told
      <4>1. h = [key |-> h.key, ids |-> h.ids]
        BY <2>1 DEF Told
      <4> HIDE DEF h, left
      <4> QED BY <4>1
    <3> QED BY <3>1, <3>2
  <2>8. avail' = avail
    BY <1>12
  <2> HIDE DEF new, told, left
  <2>9. Committed(k, s, count, new, told)
    BY <1>1, <1>5, <1>6, <1>7, <1>9, <1>12, <2>3, <2>5, <2>6, <2>7, <2>8 DEF Committed, gone
  <2> QED BY <2>9
<1> QED BY <1>4, <1>11, <1>12

LEMMA CommitInv ==
    ASSUME IDInv, NEW k \in Key, NEW s \in Session, NEW count \in 0..MaxCount, Commit(k, s, count),
           ~Foreign(k, s)
    PROVE  IDInv'
<1> DEFINE r == res[k]
           gone == {IDSeq(r.ranges)[n] : n \in 1..count}
<1>1. /\ spent \subseteq ID /\ Placed(IDsOf(avail), spent, Places) /\ Places[k] = IDsOf(r.ranges)
      /\ IDsOf(r.ranges) \subseteq ID
      /\ IDsOf(r.ranges) \cap IDsOf(avail) = {} /\ IDsOf(r.ranges) \cap spent = {} /\ IDsOf(avail) \cap spent = {}
  BY ReservationIs
<1>2. PICK new, told : Committed(k, s, count, new, told)
  BY CommitIs
<1>3. /\ gone \subseteq IDsOf(r.ranges) /\ spent' = spent \cup gone
      /\ res' = [res EXCEPT ![k] = new] /\ held' = [held EXCEPT ![s] = told]
      /\ new \in Reservation /\ told \in Told /\ Apart(new.ranges)
      /\ new.lock = s => FirstOf(told.ids, new.ranges)
      /\ avail' \in Seq(Range2) /\ Apart(avail')
      /\ IDsOf(avail') \cup IDsOf(new.ranges) = IDsOf(avail) \cup (IDsOf(r.ranges) \ gone)
      /\ IDsOf(avail') \cap IDsOf(new.ranges) = {}
      /\ new.lock = s \/ new.lock = NoSession
  BY <1>2 DEF Committed
<1> HIDE DEF gone
<1>4. res \in [Key -> Reservation] /\ held \in [Session -> Told]
  BY DEF IDInv, TypeInv
<1>5. /\ res' \in [Key -> Reservation] /\ held' \in [Session -> Told]
      /\ res'[k] = new /\ held'[s] = told
      /\ \A j \in Key \ {k} : res'[j] = res[j]
      /\ \A q \in Session \ {s} : held'[q] = held[q]
  BY <1>3, <1>4
<1>6. TypeInv'
  <2>1. spent' \subseteq ID
    BY <1>1, <1>3
  <2> QED BY <1>3, <1>5, <2>1 DEF TypeInv
<1>7. EachIDOnce'
  <2>1. Places'[k] = IDsOf(new.ranges) /\ \A j \in Key \ {k} : Places'[j] = Places[j]
    BY <1>5 DEF Places
  <2>2. Placed(IDsOf(avail'), spent', Places')
    <3>1. /\ IDsOf(avail') \cup spent' \cup Places'[k] = IDsOf(avail) \cup spent \cup Places[k]
          /\ IDsOf(avail') \cap spent' = {} /\ Places'[k] \cap IDsOf(avail') = {} /\ Places'[k] \cap spent' = {}
      BY <1>1, <1>3, <2>1
    <3>2. Placed(IDsOf(avail), spent, Places)
      BY <1>1
    <3> QED BY ONLY <2>1, <3>1, <3>2, k \in Key, Moved
  <2>3. \A j \in Key : Apart(res'[j].ranges)
    <3>1. \A j \in Key : Apart(res[j].ranges)
      BY EachIDOnceIs DEF IDInv
    <3> QED BY <1>3, <1>5, <3>1
  <2> QED BY <1>3, <2>2, <2>3, EachIDOnceIs
<1>8. HeldInv'
  <2>1. ASSUME NEW j \in Key, NEW q \in Session, res'[j].lock = q
        PROVE  FirstOf(held'[q].ids, res'[j].ranges)
    <3>1. CASE j = k
      <4>1. q = s
        BY <1>3, <1>5, <2>1, <3>1, IDAssumption
      <4> QED BY <1>3, <1>5, <2>1, <3>1, <4>1
    <3>2. CASE j # k
      <4>1. res'[j] = res[j] /\ res[j].lock = q
        BY <1>5, <2>1, <3>2
      <4>2. q # s
        BY <3>2, <4>1 DEF Foreign
      <4>3. held'[q] = held[q]
        BY <1>5, <4>2
      <4>4. FirstOf(held[q].ids, res[j].ranges)
        BY <4>1 DEF IDInv, HeldInv
      <4> QED BY <4>1, <4>3, <4>4
    <3> QED BY <3>1, <3>2
  <2> QED BY <2>1 DEF HeldInv, FirstOf
<1> QED BY <1>6, <1>7, <1>8 DEF IDInv

\* Every step preserves the invariant.
LEMMA NextInv == IDInv /\ [Next]_vars => IDInv'
<1> SUFFICES ASSUME IDInv, [Next]_vars PROVE IDInv'
  OBVIOUS
<1>1. ASSUME NEW k \in Key, NEW s \in Session, NEW count \in 0..MaxCount, ~Foreign(k, s),
             NEW offset \in 0..MaxUint, Reserve(k, s, offset, count)
      PROVE  IDInv'
  BY <1>1, ReserveInv
<1>2. ASSUME NEW k \in Key, NEW s \in Session, NEW count \in 0..MaxCount, ~Foreign(k, s),
             Commit(k, s, count)
      PROVE  IDInv'
  BY <1>2, CommitInv
<1>3. CASE Reset
  BY <1>3, ResetInv
<1>4. CASE UNCHANGED vars
  <2>1. avail' = avail /\ res' = res /\ held' = held /\ spent' = spent
    BY <1>4 DEF vars
  <2>2. TypeInv' /\ HeldInv'
    BY <2>1 DEF IDInv, TypeInv, HeldInv, FirstOf
  <2>3. EachIDOnce'
    <3>1. Places' = Places
      BY <2>1 DEF Places
    <3>2. EachIDOnce
      BY DEF IDInv
    <3> QED BY <2>1, <3>1, <3>2, EachIDOnceIs
  <2> QED BY <2>2, <2>3 DEF IDInv
<1> QED BY <1>1, <1>2, <1>3, <1>4 DEF Next

THEOREM SpecInv == Spec => []IDInv
BY InitInv, NextInv, PTL DEF Spec

\* No ID is in two places and none is lost, whatever the calls of ingesters, the
\* loops of reserveIDs and mergeIDs included (reserve, commit and reset).
THEOREM SpecEachIDOnce == Spec => []EachIDOnce
<1>1. IDInv => EachIDOnce
  BY DEF IDInv
<1> QED BY <1>1, SpecInv, PTL

\* reserveIDs empties the smallest ranges first, from every list that is reached.
THEOREM SpecTakesSmallest == Spec => []TakesSmallest
<1>1. IDInv => TakesSmallest
  <2> SUFFICES ASSUME IDInv, NEW n \in 0..MaxUint PROVE SmallestFirst(avail, n)
    BY DEF TakesSmallest
  <2>1. avail \in Seq(Range2)
    BY DEF IDInv, TypeInv
  <2>2. Apart(avail)
    BY EachIDOnceIs DEF IDInv
  <2>3. n \in Nat
    BY IDAssumption
  <2> QED BY <2>1, <2>2, <2>3, ReservesSmallest
<1> QED BY <1>1, SpecInv, PTL

\* What StableIDs says of a key.
Stable(r, q) ==
    /\ r.offset <= q.offset
    /\ \A o \in Offsets(r) : o >= q.offset => o \in Offsets(q) /\ IDAt(q, o) = IDAt(r, o)

\* Offsets keep their IDs when p of them are passed and the reservation q begins with
\* what is left (c) of r; when there were only m of them, none is left.
LEMMA OffsetsKept ==
    ASSUME NEW r, r.ranges \in Seq(Range2), Apart(r.ranges), r.offset \in Nat,
           NEW p \in Nat, NEW m \in Nat, NEW c, After(r.ranges, c, m), m = p \/ (m <= p /\ c = <<>>),
           NEW q, q.offset = r.offset + p, Begins(c, q.ranges)
    PROVE  Stable(r, q)
<1> DEFINE f == r.offset
           a == r.ranges
           b == q.ranges
<1>1. Count(a) \in Nat /\ f \in Nat /\ q.offset = f + p
  BY ApartForward, ForwardCounts
<1>2. Forward(c) /\ Forward(b) /\ Count(c) = Count(a) - m /\ Count(c) <= Count(b)
  BY DEF After, Begins
<1>3. Count(c) \in Nat /\ Count(b) \in Nat
  BY <1>2, ForwardCounts
<1>4. /\ \A j \in 1..Count(c) : IDSeq(b)[j] = IDSeq(c)[j]
      /\ \A j \in 1..Count(c) : IDSeq(c)[j] = IDSeq(a)[j + m]
  BY DEF After, Begins
<1>5. \A o : o \in Offsets(r) <=> o \in f..(f + Count(a) - 1)
  BY DEF Offsets
<1>6. \A o : o \in Offsets(q) <=> o \in (f + p)..((f + p) + Count(b) - 1)
  BY DEF Offsets
<1>7. \A o : IDAt(r, o) = IDSeq(a)[o - f + 1] /\ IDAt(q, o) = IDSeq(b)[o - (f + p) + 1]
  BY DEF IDAt
<1> HIDE DEF f, a, b
<1>8. ASSUME NEW o \in Offsets(r), o >= f + p
      PROVE  o \in Offsets(q) /\ IDAt(q, o) = IDAt(r, o)
  <2> DEFINE j == o - (f + p) + 1
  <2>1. o \in f..(f + Count(a) - 1)
    BY <1>5
  <2>2. m = p
    <3> SUFFICES ASSUME m # p PROVE FALSE
      OBVIOUS
    <3>1. Count(c) = 0 /\ m <= p
      BY AllAvailable
    <3> QED BY <1>1, <1>2, <1>8, <2>1, <3>1
  <2>3. j \in 1..Count(c) /\ j + m = o - f + 1 /\ j \in Int
    BY <1>1, <1>2, <1>8, <2>1, <2>2
  <2>4. o \in (f + p)..((f + p) + Count(b) - 1)
    BY <1>1, <1>2, <1>3, <1>8, <2>1, <2>2
  <2>5. IDSeq(b)[j] = IDSeq(a)[o - f + 1]
    <3> HIDE DEF j
    <3> QED BY <1>4, <2>3
  <2> QED BY <1>6, <1>7, <2>4, <2>5
<1>9. f <= q.offset
  BY <1>1
<1> QED BY <1>1, <1>8, <1>9 DEF Stable, f

LEMMA ReserveStable ==
    ASSUME IDInv, NEW k \in Key, NEW s \in Session, NEW offset \in 0..MaxUint,
           NEW count \in 0..MaxCount, Reserve(k, s, offset, count), offset # NoOffset
    PROVE  Stable(res[k], res'[k])
<1> DEFINE r == res[k]
           p == offset - r.offset
           d == Discard(r.ranges, p)
           kept == Kept(r, offset)
           m == p - d.n
<1>1. r.ranges \in Seq(Range2) /\ Apart(r.ranges) /\ r.offset \in 0..MaxUint /\ MaxUint \in Nat
  BY ReservationIs, IDAssumption
<1>2. offset >= r.offset
  BY DEF Reserve
<1>3. p \in Nat /\ offset = r.offset + p /\ r.offset \in Nat
  BY <1>1, <1>2
<1> HIDE DEF p
<1>4. d.n \in 0..p /\ After(r.ranges, d.ranges, m) /\ (d.n # 0 => d.ranges = <<>>)
  BY <1>1, <1>3, DiscardIDs
<1>5. kept = d.ranges
  BY DEF Kept, p
<1>6. PICK ranges, ids : Reserved(k, s, offset, kept, ranges, ids)
  BY ReserveIs
<1> DEFINE new == [ranges |-> ranges, offset |-> offset, lock |-> s]
<1>7. res'[k].ranges = ranges /\ res'[k].offset = offset
  <2>1. res' = [res EXCEPT ![k] = new] /\ res \in [Key -> Reservation]
    BY <1>6 DEF Reserved, IDInv, TypeInv
  <2>2. new.ranges = ranges /\ new.offset = offset
    OBVIOUS
  <2> HIDE DEF new
  <2> QED BY <2>1, <2>2
<1>8. Begins(d.ranges, ranges)
  BY <1>5, <1>6 DEF Reserved
<1> HIDE DEF d, kept
<1>9. m \in Nat /\ (m = p \/ (m <= p /\ d.ranges = <<>>))
  BY <1>3, <1>4
<1>10. res'[k].offset = r.offset + p /\ Begins(d.ranges, res'[k].ranges)
  BY <1>3, <1>7, <1>8
<1> HIDE DEF m, r
<1>11. Stable(r, res'[k])
  BY <1>1, <1>3, <1>4, <1>9, <1>10, OffsetsKept
<1> QED BY <1>11 DEF r

LEMMA CommitStable ==
    ASSUME IDInv, NEW k \in Key, NEW s \in Session, NEW count \in 0..MaxCount, Commit(k, s, count),
           res'[k].lock # NoSession
    PROVE  Stable(res[k], res'[k])
<1> DEFINE r == res[k]
<1>1. r.ranges \in Seq(Range2) /\ Apart(r.ranges) /\ r.offset \in 0..MaxUint /\ MaxUint \in Nat
  BY ReservationIs, IDAssumption
<1>2. count \in Nat /\ r.offset \in Nat
  BY <1>1, IDAssumption
<1>3. PICK new, told : Committed(k, s, count, new, told)
  BY CommitIs
<1>4. res'[k] = new
  BY <1>3 DEF Committed, IDInv, TypeInv
<1>5. new.offset = r.offset + count /\ After(r.ranges, new.ranges, count)
  BY <1>3, <1>4 DEF Committed
<1>6. Begins(new.ranges, new.ranges)
  BY <1>5, BeginsItself DEF After
<1> HIDE DEF r
<1>7. Stable(r, new)
  BY <1>1, <1>2, <1>5, <1>6, OffsetsKept
<1> QED BY <1>4, <1>7 DEF r

\* With offset control an offset keeps its ID until it is passed, over retries and
\* takeovers (reserve and commit): the inductive invariant says that what Discard
\* leaves is what follows the IDs that were passed.
THEOREM SpecStableIDs == Spec => StableIDs
<1> DEFINE Body == \A k \in Key : res'[k] # res[k] /\ Controlled(res[k]) /\ Controlled(res[k])' =>
                     /\ res[k].offset <= res'[k].offset
                     /\ \A o \in Offsets(res[k]) : o >= res'[k].offset =>
                          o \in Offsets(res'[k]) /\ IDAt(res'[k], o) = IDAt(res[k], o)
<1>1. ASSUME IDInv, Next PROVE Body
  <2> SUFFICES ASSUME NEW k \in Key, res'[k] # res[k], Controlled(res[k]), Controlled(res[k])'
               PROVE  Stable(res[k], res'[k])
    BY DEF Stable
  <2>1. res[k].offset # NoOffset /\ res'[k].offset # NoOffset /\ res'[k].lock # NoSession
    BY DEF Controlled, NoOffset
  <2>2. res \in [Key -> Reservation]
    BY <1>1 DEF IDInv, TypeInv
  <2>3. ASSUME NEW j \in Key, NEW s \in Session, NEW count \in 0..MaxCount,
               NEW offset \in 0..MaxUint, Reserve(j, s, offset, count)
        PROVE  Stable(res[k], res'[k])
    <3>1. PICK ranges, ids : Reserved(j, s, offset, Kept(res[j], offset), ranges, ids)
      BY <1>1, <2>3, ReserveIs
    <3>2. res' = [res EXCEPT ![j] = [ranges |-> ranges, offset |-> offset, lock |-> s]]
      BY <3>1 DEF Reserved
    <3>3. j = k
      BY <2>2, <3>2
    <3>4. res'[k].offset = offset
      BY <2>2, <3>2, <3>3
    <3> QED BY <1>1, <2>1, <2>3, <3>3, <3>4, ReserveStable
  <2>4. ASSUME NEW j \in Key, NEW s \in Session, NEW count \in 0..MaxCount, Commit(j, s, count)
        PROVE  Stable(res[k], res'[k])
    <3>1. PICK new, told : Committed(j, s, count, new, told)
      BY <1>1, <2>4, CommitIs
    <3>2. res' = [res EXCEPT ![j] = new]
      BY <3>1 DEF Committed
    <3>3. j = k
      BY <2>2, <3>2
    <3> QED BY <1>1, <2>1, <2>4, <3>3, CommitStable
  <2>5. CASE Reset
    BY <2>1, <2>5 DEF Reset, NoReservation
  <2> QED BY <1>1, <2>3, <2>4, <2>5 DEF Next
<1>2. IDInv /\ [Next]_vars => [Body]_vars
  BY <1>1
<1>3. StableIDs <=> [][Body]_vars
  BY DEF StableIDs
<1> HIDE DEF Body
<1> QED BY <1>2, <1>3, SpecInv, PTL DEF Spec

\* A commit commits what the session was told, and nobody committed it before
\* (commit, after any takeovers): the invariant says that the session that holds
\* the lock was told the first IDs of the reservation.
THEOREM SpecCommitAgrees == Spec => CommitAgrees
<1> DEFINE Body == \A k \in Key, s \in Session, n \in 0..MaxCount :
                     res'[k] # res[k] /\ n <= Len(held[s].ids) /\ Commit(k, s, n) =>
                       LET mine == ToSet(SubSeq(held[s].ids, 1, n))
                       IN spent' = spent \cup mine /\ mine \cap spent = {}
<1>1. ASSUME IDInv PROVE Body
  <2> SUFFICES ASSUME NEW k \in Key, NEW s \in Session, NEW n \in 0..MaxCount,
                      n <= Len(held[s].ids), Commit(k, s, n)
               PROVE  LET mine == ToSet(SubSeq(held[s].ids, 1, n))
                      IN spent' = spent \cup mine /\ mine \cap spent = {}
    OBVIOUS
  <2> DEFINE ids == held[s].ids
             gone == {IDSeq(res[k].ranges)[j] : j \in 1..n}
  <2>1. PICK new, told : Committed(k, s, n, new, told)
    BY <1>1, CommitIs
  <2>2. spent' = spent \cup gone /\ gone \subseteq IDsOf(res[k].ranges)
    BY <2>1 DEF Committed
  <2>3. FirstOf(ids, res[k].ranges)
    BY <1>1 DEF IDInv, HeldInv, Commit, LockedBy
  <2>4. ids \in Seq(Int) /\ n \in Nat /\ n <= Len(ids) /\ Len(ids) \in Nat
    <3>1. held[s] \in Told
      BY <1>1 DEF IDInv, TypeInv
    <3> QED BY <3>1, IDAssumption DEF Told
  <2> HIDE DEF ids
  <2>5. SubSeq(ids, 1, n) = [j \in 1..n |-> ids[j]]
    BY <2>4
  <2>6. ToSet(SubSeq(ids, 1, n)) = {ids[j] : j \in 1..n}
    BY <2>5 DEF ToSet
  <2>7. \A j \in 1..n : ids[j] = IDSeq(res[k].ranges)[j]
    BY <2>3, <2>4 DEF FirstOf
  <2>8. ToSet(SubSeq(ids, 1, n)) = gone
    BY <2>6, <2>7
  <2>9. gone \cap spent = {}
    <3>1. IDsOf(res[k].ranges) \cap spent = {}
      BY <1>1, ReservationIs
    <3> HIDE DEF gone
    <3> QED BY <2>2, <3>1
  <2> QED BY <2>2, <2>8, <2>9 DEF ids
<1>2. IDInv /\ [Next]_vars => [Body]_vars
  BY <1>1
<1>3. CommitAgrees <=> [][Body]_vars
  BY DEF CommitAgrees
<1> HIDE DEF Body
<1> QED BY <1>2, <1>3, SpecInv, PTL DEF Spec
=============================================================================
