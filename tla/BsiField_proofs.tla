--------------------------- MODULE BsiField_proofs ---------------------------
(***************************************************************************)
(* Theorems about BsiField: with requests that do not overlap every column *)
(* keeps the value it was given, and every query on the bit-sliced rows    *)
(* answers what the values say, for every number of columns and rows.      *)
(***************************************************************************)
EXTENDS BsiField, TLAPS, NaturalsInduction, WellFoundedInduction

-----------------------------------------------------------------------------
(* Induction over rows *)

\* A set of natural numbers with a member has a least one.
LEMMA LeastElement ==
    ASSUME NEW S \in SUBSET Nat, S # {}
    PROVE  \E m \in S : \A n \in S : m <= n
<1>1. \E m \in S : \A n \in S : ~(<<n, m>> \in OpToRel(<, Nat))
  BY NatLessThanWellFounded, WFMin
<1>2. PICK m \in S : \A n \in S : ~(<<n, m>> \in OpToRel(<, Nat))
  BY <1>1
<1>3. ASSUME NEW n \in S PROVE m <= n
  <2>1. ~(n < m)
    BY <1>2 DEF OpToRel
  <2> QED BY <2>1
<1> QED BY <1>3

\* Induction up to n, over the set of numbers for which a fact holds.
LEMMA SetInduction ==
    ASSUME NEW n \in Nat, NEW B, 0 \in B, \A i \in 1..n : i - 1 \in B => i \in B
    PROVE  \A i \in 0..n : i \in B
<1> DEFINE C == {i \in 0..n : i \notin B}
<1> SUFFICES ASSUME C # {} PROVE FALSE
  OBVIOUS
<1>1. PICK m \in C : \A i \in C : m <= i
  <2>1. C \in SUBSET Nat
    OBVIOUS
  <2> HIDE DEF C
  <2> QED BY <2>1, LeastElement
<1>2. m \in 1..n /\ m - 1 \in 0..n /\ m - 1 \notin C
  BY <1>1
<1> QED BY <1>1, <1>2

\* The same for all numbers.
LEMMA NatSetInduction ==
    ASSUME NEW B, 0 \in B, \A i \in Nat : i \in B => i + 1 \in B
    PROVE  \A i \in Nat : i \in B
<1> DEFINE C == {i \in Nat : i \notin B}
<1> SUFFICES ASSUME C # {} PROVE FALSE
  OBVIOUS
<1>1. PICK m \in C : \A i \in C : m <= i
  <2>1. C \in SUBSET Nat
    OBVIOUS
  <2> HIDE DEF C
  <2> QED BY <2>1, LeastElement
<1>2. m # 0 /\ m - 1 \in Nat /\ m - 1 \notin C /\ (m - 1) + 1 = m
  BY <1>1
<1>3. m - 1 \in B
  BY <1>2
<1>4. m \in B
  BY <1>2, <1>3
<1> QED BY <1>1, <1>4

\* A set of integers that is bounded has a greatest member.
LEMMA MaxOfBounded ==
    ASSUME NEW S \in SUBSET Int, S # {}, NEW b \in Int, \A x \in S : x <= b
    PROVE  Max(S) \in S /\ \A x \in S : x <= Max(S)
<1> DEFINE D == {b - x : x \in S}
<1>1. D \in SUBSET Nat /\ D # {}
  <2>1. ASSUME NEW x \in S PROVE b - x \in Nat
    <3>1. x \in Int
      OBVIOUS
    <3> QED BY <3>1
  <2> QED BY <2>1
<1>2. PICK d \in D : \A n \in D : d <= n
  <2> HIDE DEF D
  <2> QED BY <1>1, LeastElement
<1>3. PICK m \in S : d = b - m
  BY <1>2
<1>4. \A x \in S : m >= x
  <2> TAKE x \in S
  <2>1. b - x \in D
    OBVIOUS
  <2>2. d <= b - x
    BY <1>2, <2>1
  <2>3. m \in Int /\ x \in Int
    OBVIOUS
  <2> QED BY <1>3, <2>2, <2>3
<1>5. \E x \in S : \A y \in S : x >= y
  BY <1>4
<1>6. Max(S) \in S /\ \A y \in S : Max(S) >= y
  BY <1>5 DEF Max
<1>7. ASSUME NEW x \in S PROVE x <= Max(S)
  <2>1. Max(S) >= x /\ x \in Int /\ Max(S) \in Int
    BY <1>6
  <2> QED BY <2>1
<1> QED BY <1>6, <1>7

\* And a least one.
LEMMA MinOfBounded ==
    ASSUME NEW S \in SUBSET Int, S # {}, NEW b \in Int, \A x \in S : b <= x
    PROVE  Min(S) \in S /\ \A x \in S : Min(S) <= x
<1> DEFINE D == {x - b : x \in S}
<1>1. D \in SUBSET Nat /\ D # {}
  <2>1. ASSUME NEW x \in S PROVE x - b \in Nat
    <3>1. x \in Int
      OBVIOUS
    <3> QED BY <3>1
  <2> QED BY <2>1
<1>2. PICK d \in D : \A n \in D : d <= n
  <2> HIDE DEF D
  <2> QED BY <1>1, LeastElement
<1>3. PICK m \in S : d = m - b
  BY <1>2
<1>4. \A x \in S : m <= x
  <2> TAKE x \in S
  <2>1. x - b \in D
    OBVIOUS
  <2>2. d <= x - b
    BY <1>2, <2>1
  <2>3. m \in Int /\ x \in Int
    OBVIOUS
  <2> QED BY <1>3, <2>2, <2>3
<1>5. \E x \in S : \A y \in S : x <= y
  BY <1>4
<1> QED BY <1>5 DEF Min

-----------------------------------------------------------------------------
(* Loops *)

\* g records the states of a loop of n rounds over S that starts with s.
IsRun(g, S, n, s, step) ==
    g \in [0..n -> S] /\ g[0] = s /\ \A i \in 1..n : g[i] = step[i][g[i - 1]]

\* h satisfies the equations of the loop as long as it stays in S.
Obeys(h, S, n, s, step) ==
    h[0] = s /\ \A i \in 1..n : h[i - 1] \in S => h[i] = step[i][h[i - 1]]

\* Every loop has a run.
LEMMA RunExists ==
    ASSUME NEW S, NEW n \in Nat, NEW s \in S, NEW step \in [1..n -> [S -> S]]
    PROVE  \E g : IsRun(g, S, n, s, step)
<1> DEFINE Is(g, k) == g[0] = s /\ \A i \in 1..k : g[i] = step[i][g[i - 1]]
           B == {k \in 0..n : \E g \in [0..k -> S] : Is(g, k)}
<1>1. 0 \in B
  <2>1. Is([i \in 0..0 |-> s], 0) /\ [i \in 0..0 |-> s] \in [0..0 -> S]
    OBVIOUS
  <2>2. \E g \in [0..0 -> S] : Is(g, 0)
    <3> HIDE DEF Is
    <3> QED BY <2>1
  <2> QED BY <2>2
<1>2. ASSUME NEW k \in 1..n, k - 1 \in B PROVE k \in B
  <2>1. PICK g \in [0..(k - 1) -> S] : Is(g, k - 1)
    BY <1>2
  <2> DEFINE h == [i \in 0..k |-> IF i = k THEN step[k][g[k - 1]] ELSE g[i]]
  <2>2. h \in [0..k -> S]
    BY <2>1
  <2>3. Is(h, k)
    BY <2>1
  <2>4. \E g2 \in [0..k -> S] : Is(g2, k)
    <3> HIDE DEF Is, h
    <3> QED BY <2>2, <2>3
  <2>5. k \in 0..n
    OBVIOUS
  <2> HIDE DEF Is
  <2> QED BY <2>4, <2>5
<1>3. n \in B
  <2>1. \A k \in 1..n : k - 1 \in B => k \in B
    <3> HIDE DEF B
    <3> QED BY <1>2
  <2> HIDE DEF B
  <2>2. \A k \in 0..n : k \in B
    BY <1>1, <2>1, SetInduction
  <2> QED BY <2>2
<1> QED BY <1>3 DEF IsRun

\* What satisfies the equations of a loop is its run.
LEMMA RunUnique ==
    ASSUME NEW S, NEW n \in Nat, NEW s, NEW step, NEW g, NEW h,
           IsRun(g, S, n, s, step), Obeys(h, S, n, s, step)
    PROVE  \A i \in 0..n : h[i] = g[i]
<1> DEFINE B == {i \in 0..n : h[i] = g[i]}
<1>1. 0 \in B
  BY DEF IsRun, Obeys
<1>2. ASSUME NEW i \in 1..n, i - 1 \in B PROVE i \in B
  BY <1>2 DEF IsRun, Obeys
<1> HIDE DEF B
<1>3. \A i \in 0..n : i \in B
  BY <1>1, <1>2, SetInduction
<1> QED BY <1>3 DEF B

\* A loop may go on for ever.
LEMMA NatRunExists ==
    ASSUME NEW S, NEW s \in S, NEW step \in [S -> S]
    PROVE  \E g \in [Nat -> S] : g[0] = s /\ \A i \in Nat : g[i + 1] = step[g[i]]
<1> DEFINE steps(n) == [i \in 1..n |-> step]
           G(n) == CHOOSE g : IsRun(g, S, n, s, steps(n))
           h == [n \in Nat |-> G(n)[n]]
<1>1. ASSUME NEW n \in Nat PROVE IsRun(G(n), S, n, s, steps(n))
  <2>1. steps(n) \in [1..n -> [S -> S]]
    OBVIOUS
  <2> HIDE DEF steps
  <2>2. \E g : IsRun(g, S, n, s, steps(n))
    BY <2>1, RunExists
  <2> QED BY <2>2
<1> HIDE DEF G
<1>2. ASSUME NEW n \in Nat
      PROVE  /\ G(n) \in [0..n -> S] /\ G(n)[0] = s
             /\ \A i \in 1..n : G(n)[i] = step[G(n)[i - 1]]
  BY <1>1 DEF IsRun
<1>3. ASSUME NEW n \in Nat PROVE G(n + 1)[n] = G(n)[n]
  <2>1. n + 1 \in Nat /\ 1..n \subseteq 1..(n + 1)
    OBVIOUS
  <2>2. G(n + 1)[0] = s /\ \A i \in 1..n : G(n + 1)[i] = step[G(n + 1)[i - 1]]
    BY <1>2, <2>1
  <2>3. Obeys(G(n + 1), S, n, s, steps(n))
    BY <2>2 DEF Obeys
  <2> HIDE DEF steps
  <2>4. \A i \in 0..n : G(n + 1)[i] = G(n)[i]
    BY <1>1, <2>3, RunUnique
  <2> QED BY <2>4
<1>4. h \in [Nat -> S] /\ h[0] = s
  <2>1. ASSUME NEW n \in Nat PROVE G(n)[n] \in S
    BY <1>2
  <2>2. G(0)[0] = s
    BY <1>2
  <2> QED BY <2>1, <2>2
<1>5. ASSUME NEW i \in Nat PROVE h[i + 1] = step[h[i]]
  <2>1. i + 1 \in Nat /\ i + 1 \in 1..(i + 1) /\ (i + 1) - 1 = i
    OBVIOUS
  <2>2. G(i + 1)[i + 1] = step[G(i + 1)[i]]
    BY <1>2, <2>1
  <2> QED BY <1>3, <2>1, <2>2
<1> HIDE DEF h
<1> QED BY <1>4, <1>5

-----------------------------------------------------------------------------
(* Bits *)

\* Powers of two.
LEMMA Pow2Def ==
    /\ pow2[0] = 1
    /\ \A i \in Nat : pow2[i] \in Nat /\ pow2[i] > 0 /\ pow2[i + 1] = 2 * pow2[i]
<1> DEFINE F == CHOOSE f : f = [i \in Nat |-> IF i = 0 THEN 1 ELSE 2 * f[i - 1]]
<1>1. pow2 = F
  BY DEF pow2
<1>2. PICK g \in [Nat -> Nat] : g[0] = 1 /\ \A i \in Nat : g[i + 1] = [x \in Nat |-> 2 * x][g[i]]
  <2> DEFINE step == [x \in Nat |-> 2 * x]
  <2>1. step \in [Nat -> Nat]
    OBVIOUS
  <2> HIDE DEF step
  <2>2. \E g \in [Nat -> Nat] : g[0] = 1 /\ \A i \in Nat : g[i + 1] = step[g[i]]
    <3> DEFINE N == Nat
               s == 1
    <3>1. s \in N /\ step \in [N -> N]
      BY <2>1
    <3> HIDE DEF N, s
    <3>2. \E g \in [Nat -> N] : g[0] = s /\ \A i \in Nat : g[i + 1] = step[g[i]]
      BY <3>1, NatRunExists
    <3> QED BY <3>2 DEF N, s
  <2> QED BY <2>2 DEF step
<1>3. \A i \in Nat : i # 0 => g[i] = 2 * g[i - 1]
  <2> SUFFICES ASSUME NEW i \in Nat, i # 0 PROVE g[i] = 2 * g[i - 1]
    OBVIOUS
  <2>1. i - 1 \in Nat /\ (i - 1) + 1 = i /\ g[i - 1] \in Nat
    OBVIOUS
  <2>2. g[(i - 1) + 1] = [x \in Nat |-> 2 * x][g[i - 1]]
    BY <1>2, <2>1
  <2> QED BY <2>1, <2>2
<1>4. g = [i \in Nat |-> IF i = 0 THEN 1 ELSE 2 * g[i - 1]]
  BY <1>2, <1>3
<1>5. F = [i \in Nat |-> IF i = 0 THEN 1 ELSE 2 * F[i - 1]]
  BY <1>4
<1> HIDE DEF F
<1>6. F[0] = 1 /\ \A i \in Nat : F[i + 1] = 2 * F[i]
  BY <1>5
<1> DEFINE B == {i \in Nat : F[i] \in Nat /\ F[i] > 0}
<1>7. 0 \in B
  BY <1>6
<1>8. ASSUME NEW i \in Nat, i \in B PROVE i + 1 \in B
  BY <1>6, <1>8
<1>9. \A i \in Nat : i \in B
  <2> HIDE DEF B
  <2> QED BY <1>7, <1>8, NatSetInduction
<1> QED BY <1>1, <1>6, <1>9

\* Shifting.
LEMMA ShiftsDef ==
    ASSUME NEW u \in Nat
    PROVE  /\ Shifts(u)[0] = u
           /\ \A i \in Nat : Shifts(u)[i] \in Nat /\ Shifts(u)[i + 1] = Shifts(u)[i] \div 2
<1> DEFINE F == CHOOSE f : f = [i \in Nat |-> IF i = 0 THEN u ELSE f[i - 1] \div 2]
<1>1. Shifts(u) = F
  BY DEF Shifts
<1>2. PICK g \in [Nat -> Nat] : g[0] = u /\ \A i \in Nat : g[i + 1] = [x \in Nat |-> x \div 2][g[i]]
  <2> DEFINE step == [x \in Nat |-> x \div 2]
  <2>1. step \in [Nat -> Nat]
    OBVIOUS
  <2> HIDE DEF step
  <2>2. \E g \in [Nat -> Nat] : g[0] = u /\ \A i \in Nat : g[i + 1] = step[g[i]]
    <3> DEFINE N == Nat
               s == u
    <3>1. s \in N /\ step \in [N -> N]
      BY <2>1
    <3> HIDE DEF N, s
    <3>2. \E g \in [Nat -> N] : g[0] = s /\ \A i \in Nat : g[i + 1] = step[g[i]]
      BY <3>1, NatRunExists
    <3> QED BY <3>2 DEF N, s
  <2> QED BY <2>2 DEF step
<1>3. \A i \in Nat : i # 0 => g[i] = g[i - 1] \div 2
  <2> SUFFICES ASSUME NEW i \in Nat, i # 0 PROVE g[i] = g[i - 1] \div 2
    OBVIOUS
  <2>1. i - 1 \in Nat /\ (i - 1) + 1 = i /\ g[i - 1] \in Nat
    OBVIOUS
  <2>2. g[(i - 1) + 1] = [x \in Nat |-> x \div 2][g[i - 1]]
    BY <1>2, <2>1
  <2> QED BY <2>1, <2>2
<1>4. g = [i \in Nat |-> IF i = 0 THEN u ELSE g[i - 1] \div 2]
  BY <1>2, <1>3
<1>5. F = [i \in Nat |-> IF i = 0 THEN u ELSE F[i - 1] \div 2]
  BY <1>4
<1> HIDE DEF F
<1>6. F[0] = u /\ \A i \in Nat : F[i + 1] = F[i] \div 2
  BY <1>5
<1> DEFINE B == {i \in Nat : F[i] \in Nat}
<1>7. 0 \in B
  BY <1>6
<1>8. ASSUME NEW i \in Nat, i \in B PROVE i + 1 \in B
  BY <1>6, <1>8
<1>9. \A i \in Nat : i \in B
  <2> HIDE DEF B
  <2> QED BY <1>7, <1>8, NatSetInduction
<1> QED BY <1>1, <1>6, <1>9

\* A number determines its half and its last bit.
LEMMA Halves ==
    \A a, b \in Nat, e, f \in {0, 1} : 2 * a + e = 2 * b + f => a = b /\ e = f
OBVIOUS

\* u >> i
Shr(u, i) == Shifts(u)[i]

\* A number, bit by bit.
LEMMA ShrStep ==
    ASSUME NEW u \in Nat
    PROVE  /\ Shr(u, 0) = u
           /\ \A i \in Nat : /\ Shr(u, i) \in Nat /\ Shr(u, i + 1) \in Nat
                             /\ BitOf(u, i) \in {0, 1}
                             /\ Shr(u, i) = 2 * Shr(u, i + 1) + BitOf(u, i)
<1> DEFINE s == Shifts(u)
<1>1. s[0] = u /\ \A i \in Nat : s[i] \in Nat /\ s[i + 1] = s[i] \div 2
  BY ShiftsDef
<1>2. \A i \in Nat : BitOf(u, i) = s[i] % 2 /\ Shr(u, i) = s[i] /\ Shr(u, i + 1) = s[i + 1]
  BY DEF BitOf, Shr
<1>3. Shr(u, 0) = s[0]
  BY DEF Shr
<1> HIDE DEF s
<1>4. ASSUME NEW i \in Nat
      PROVE  /\ Shr(u, i) \in Nat /\ Shr(u, i + 1) \in Nat
             /\ BitOf(u, i) \in {0, 1} /\ Shr(u, i) = 2 * Shr(u, i + 1) + BitOf(u, i)
  <2>1. s[i] \in Nat /\ i + 1 \in Nat
    BY <1>1
  <2>2. s[i + 1] \in Nat /\ s[i + 1] = s[i] \div 2
    BY <1>1, <2>1
  <2>3. \A x \in Nat : x % 2 \in {0, 1} /\ x = 2 * (x \div 2) + (x % 2)
    OBVIOUS
  <2>4. s[i] % 2 \in {0, 1} /\ s[i] = 2 * (s[i] \div 2) + (s[i] % 2)
    BY <2>1, <2>3
  <2> QED BY <1>2, <2>1, <2>2, <2>4
<1> QED BY <1>1, <1>3, <1>4

\* The number that i bits are left of, in two parts.
LEMMA Digits ==
    ASSUME NEW u \in Nat
    PROVE  \A i \in Nat : /\ LowBits(u, i) \in Nat /\ LowBits(u, i) < pow2[i]
                          /\ u = LowBits(u, i) + pow2[i] * Shr(u, i)
                          /\ LowBits(u, i + 1) = LowBits(u, i) + BitOf(u, i) * pow2[i]
<1> DEFINE L(i) == LowBits(u, i)
           B == {i \in Nat : L(i) \in Nat /\ L(i) < pow2[i]}
<1>1. ASSUME NEW i \in Nat
      PROVE  /\ L(i) = u - pow2[i] * Shr(u, i) /\ pow2[i] \in Nat /\ pow2[i] > 0 /\ pow2[i + 1] = 2 * pow2[i]
             /\ Shr(u, i) \in Nat
  BY Pow2Def, ShrStep DEF LowBits, Shr
<1>2. ASSUME NEW i \in Nat PROVE L(i + 1) = L(i) + BitOf(u, i) * pow2[i]
  <2>1. i + 1 \in Nat /\ Shr(u, i) = 2 * Shr(u, i + 1) + BitOf(u, i) /\ BitOf(u, i) \in {0, 1}
    BY ShrStep
  <2>2. L(i + 1) = u - (2 * pow2[i]) * Shr(u, i + 1) /\ Shr(u, i + 1) \in Nat
    BY <1>1, <2>1
  <2>3. L(i) = u - pow2[i] * (2 * Shr(u, i + 1) + BitOf(u, i))
    BY <1>1, <2>1
  <2>4. \A p, s \in Nat, b \in {0, 1} : u - (2 * p) * s = (u - p * (2 * s + b)) + b * p
    OBVIOUS
  <2> HIDE DEF L
  <2> QED BY <1>1, <2>1, <2>2, <2>3, <2>4
<1>3. 0 \in B
  <2>1. L(0) = u - pow2[0] * Shr(u, 0)
    BY <1>1
  <2>2. L(0) = 0
    BY <2>1, Pow2Def, ShrStep
  <2> HIDE DEF L
  <2> QED BY <2>2, Pow2Def
<1>4. ASSUME NEW i \in Nat, i \in B PROVE i + 1 \in B
  <2>1. L(i) \in Nat /\ L(i) < pow2[i] /\ L(i + 1) = L(i) + BitOf(u, i) * pow2[i]
    BY <1>2, <1>4
  <2>2. BitOf(u, i) \in {0, 1} /\ pow2[i + 1] = 2 * pow2[i] /\ pow2[i] \in Nat
    BY <1>1, ShrStep
  <2> HIDE DEF L
  <2>3. L(i + 1) \in Nat /\ L(i + 1) < pow2[i + 1]
    <3>1. CASE BitOf(u, i) = 0
      BY <2>1, <2>2, <3>1
    <3>2. CASE BitOf(u, i) = 1
      BY <2>1, <2>2, <3>2
    <3> QED BY <2>2, <3>1, <3>2
  <2> QED BY <2>3
<1>5. \A i \in Nat : i \in B
  <2> HIDE DEF B
  <2> QED BY <1>3, <1>4, NatSetInduction
<1>6. ASSUME NEW i \in Nat PROVE u = L(i) + pow2[i] * Shr(u, i)
  <2>1. pow2[i] * Shr(u, i) \in Int
    BY <1>1
  <2> QED BY <1>1, <2>1
<1> QED BY <1>2, <1>5, <1>6

\* A number has d bits if shifting by d leaves nothing.
LEMMA Fits ==
    ASSUME NEW u \in Nat, NEW d \in Nat
    PROVE  /\ u < pow2[d] <=> Shr(u, d) = 0
           /\ u < pow2[d] => LowBits(u, d) = u
<1>1. /\ LowBits(u, d) \in Nat /\ LowBits(u, d) < pow2[d] /\ u = LowBits(u, d) + pow2[d] * Shr(u, d)
      /\ pow2[d] \in Nat /\ pow2[d] > 0 /\ Shr(u, d) \in Nat
  BY Digits, Pow2Def, ShrStep
<1>2. \A l, p, s \in Nat : l < p /\ p > 0 => ((l + p * s < p <=> s = 0) /\ (s = 0 => l = l + p * s))
  <2> SUFFICES ASSUME NEW l \in Nat, NEW p \in Nat, NEW s \in Nat, l < p, p > 0
               PROVE (l + p * s < p <=> s = 0) /\ (s = 0 => l = l + p * s)
    OBVIOUS
  <2>1. CASE s = 0
    BY <2>1
  <2>2. CASE s >= 1
    <3>1. p * s \in Nat /\ p * s >= p
      BY <2>2
    <3> QED BY <2>2, <3>1
  <2> QED BY <2>1, <2>2
<1> QED BY <1>1, <1>2

\* Powers grow.
LEMMA Pow2Grows ==
    /\ \A i \in Nat : pow2[i] > i
    /\ \A i, j \in Nat : i <= j => pow2[i] <= pow2[j]
<1>1. \A i \in Nat : pow2[i] \in Nat /\ pow2[i] > 0 /\ pow2[i + 1] = 2 * pow2[i]
  BY Pow2Def
<1>2. \A i \in Nat : pow2[i] > i
  <2> DEFINE B == {i \in Nat : pow2[i] > i}
  <2>1. 0 \in B
    BY Pow2Def
  <2>2. ASSUME NEW i \in Nat, i \in B PROVE i + 1 \in B
    BY <1>1, <2>2
  <2>3. \A i \in Nat : i \in B
    <3> HIDE DEF B
    <3> QED BY <2>1, <2>2, NatSetInduction
  <2> QED BY <2>3
<1>3. ASSUME NEW i \in Nat PROVE \A k \in Nat : pow2[i] <= pow2[i + k]
  <2> DEFINE B == {k \in Nat : pow2[i] <= pow2[i + k]}
  <2>1. 0 \in B
    BY <1>1
  <2>2. ASSUME NEW k \in Nat, k \in B PROVE k + 1 \in B
    <3>1. i + k \in Nat /\ (i + k) + 1 = i + (k + 1)
      OBVIOUS
    <3>2. pow2[i + (k + 1)] = 2 * pow2[i + k] /\ pow2[i + k] \in Nat /\ pow2[i] \in Nat
      BY <1>1, <3>1
    <3> QED BY <2>2, <3>2
  <2>3. \A k \in Nat : k \in B
    <3> HIDE DEF B
    <3> QED BY <2>1, <2>2, NatSetInduction
  <2> QED BY <2>3
<1>4. ASSUME NEW i \in Nat, NEW j \in Nat, i <= j PROVE pow2[i] <= pow2[j]
  <2>1. j - i \in Nat /\ i + (j - i) = j
    BY <1>4
  <2> QED BY <1>3, <2>1
<1> QED BY <1>2, <1>4

\* bits.Len64 is the least number of bits.
LEMMA BitDepthLeast ==
    ASSUME NEW u \in Nat
    PROVE  bitDepth(u) \in Nat /\ u < pow2[bitDepth(u)] /\ \A d \in Nat : bitDepth(u) > d <=> u >= pow2[d]
<1> DEFINE S == {n \in Nat : pow2[n] > u}
<1>1. u \in S
  BY Pow2Grows
<1>2. PICK n \in S : \A m \in S : n <= m
  <2>1. S \in SUBSET Nat /\ S # {}
    BY <1>1
  <2> HIDE DEF S
  <2> QED BY <2>1, LeastElement
<1>3. n \in 0..u /\ pow2[n] > u
  BY <1>1, <1>2
<1>4. n > 0 => pow2[n - 1] <= u
  <2> SUFFICES ASSUME n > 0 PROVE pow2[n - 1] <= u
    OBVIOUS
  <2>1. n - 1 \in Nat /\ ~(n <= n - 1)
    BY <1>3
  <2>2. n - 1 \notin S
    BY <1>2, <2>1
  <2>3. pow2[n - 1] \in Nat
    BY <2>1, Pow2Def
  <2> QED BY <2>1, <2>2, <2>3
<1> DEFINE P(k) == pow2[k] > u /\ (k > 0 => pow2[k - 1] <= u)
<1>5. bitDepth(u) = CHOOSE k \in 0..u : P(k)
  BY DEF bitDepth
<1>6. \E k \in 0..u : P(k)
  BY <1>3, <1>4
<1> DEFINE b == bitDepth(u)
<1>7. b \in 0..u /\ P(b)
  <2> HIDE DEF P
  <2> QED BY <1>5, <1>6
<1>8. b \in Nat /\ u < pow2[b] /\ (b > 0 => pow2[b - 1] <= u)
  BY <1>7, Pow2Def
<1> HIDE DEF b
<1>9. ASSUME NEW d \in Nat PROVE b > d <=> u >= pow2[d]
  <2>0. pow2[d] \in Nat /\ pow2[b] \in Nat
    BY <1>8, Pow2Def
  <2>1. CASE b > d
    <3>1. b - 1 \in Nat /\ d <= b - 1 /\ b > 0
      BY <1>8, <2>1
    <3>2. pow2[d] <= pow2[b - 1] /\ pow2[b - 1] \in Nat
      BY <3>1, Pow2Grows, Pow2Def
    <3> QED BY <1>8, <2>0, <2>1, <3>1, <3>2
  <2>2. CASE b <= d
    <3>1. pow2[b] <= pow2[d]
      BY <1>8, <2>2, Pow2Grows
    <3> QED BY <1>8, <2>0, <2>2, <3>1
  <2> QED BY <1>8, <2>1, <2>2
<1> QED BY <1>8, <1>9 DEF b

\* The higher bits decide.
LEMMA ShrLess ==
    ASSUME NEW u \in Nat, NEW v \in Nat, NEW i \in Nat, Shr(u, i) < Shr(v, i)
    PROVE  u < v
<1> DEFINE B == {j \in Nat : Shr(u, j) < Shr(v, j) => u < v}
<1>1. 0 \in B
  BY ShrStep
<1>2. ASSUME NEW j \in Nat, j \in B PROVE j + 1 \in B
  <2>1. Shr(u, j) = 2 * Shr(u, j + 1) + BitOf(u, j) /\ BitOf(u, j) \in {0, 1} /\ Shr(u, j + 1) \in Nat
    BY ShrStep
  <2>2. Shr(v, j) = 2 * Shr(v, j + 1) + BitOf(v, j) /\ BitOf(v, j) \in {0, 1} /\ Shr(v, j + 1) \in Nat
    BY ShrStep
  <2>3. Shr(u, j + 1) < Shr(v, j + 1) => Shr(u, j) < Shr(v, j)
    BY <2>1, <2>2
  <2> QED BY <1>2, <2>3
<1>3. \A j \in Nat : j \in B
  <2> HIDE DEF B
  <2> QED BY <1>1, <1>2, NatSetInduction
<1> QED BY <1>3

\* Numbers with the same bits from l to d - 1, and the same above, are the same
\* above l.
LEMMA ShrSameFrom ==
    ASSUME NEW u \in Nat, NEW v \in Nat, NEW d \in Nat, NEW l \in 0..d,
           \A j \in l..(d - 1) : BitOf(u, j) = BitOf(v, j), Shr(u, d) = Shr(v, d)
    PROVE  Shr(u, l) = Shr(v, l)
<1> DEFINE n == d - l
           B == {k \in 0..n : Shr(u, d - k) = Shr(v, d - k)}
<1>0. n \in Nat /\ d - n = l
  OBVIOUS
<1>1. 0 \in B
  BY <1>0
<1>2. ASSUME NEW k \in 1..n, k - 1 \in B PROVE k \in B
  <2> DEFINE j == d - k
  <2>1. j \in l..(d - 1) /\ j \in Nat /\ d - (k - 1) = j + 1 /\ k \in 0..n
    BY <1>0
  <2>2. Shr(u, j + 1) = Shr(v, j + 1)
    BY <1>2, <2>1
  <2>3. BitOf(u, j) = BitOf(v, j)
    BY <2>1
  <2> HIDE DEF j
  <2>4. Shr(u, j) = Shr(v, j)
    BY <2>1, <2>2, <2>3, ShrStep
  <2> QED BY <2>1, <2>4 DEF j
<1>3. \A k \in 0..n : k \in B
  <2> HIDE DEF B, n
  <2> QED BY <1>0, <1>1, <1>2, SetInduction
<1>4. n \in B
  <2>1. n \in 0..n
    BY <1>0
  <2> HIDE DEF B, n
  <2> QED BY <1>3, <2>1
<1> QED BY <1>0, <1>4

\* Numbers with the same bits are the same.
LEMMA ShrSame ==
    ASSUME NEW u \in Nat, NEW v \in Nat, NEW d \in Nat,
           \A j \in 0..(d - 1) : BitOf(u, j) = BitOf(v, j), Shr(u, d) = Shr(v, d)
    PROVE  u = v
<1>1. 0 \in 0..d
  OBVIOUS
<1>2. Shr(u, 0) = Shr(v, 0)
  BY <1>1, ShrSameFrom
<1> QED BY <1>2, ShrStep

\* A number of d bits has none above.
LEMMA HighBitsZero ==
    ASSUME NEW u \in Nat, NEW d \in Nat, u < pow2[d], NEW i \in Nat, d <= i
    PROVE  Shr(u, i) = 0 /\ BitOf(u, i) = 0
<1>1. pow2[d] <= pow2[i] /\ pow2[d] \in Nat /\ pow2[i] \in Nat
  BY Pow2Grows, Pow2Def
<1>2. Shr(u, i) = 0
  BY <1>1, Fits
<1>3. Shr(u, i) = 2 * Shr(u, i + 1) + BitOf(u, i) /\ BitOf(u, i) \in {0, 1} /\ Shr(u, i + 1) \in Nat
  BY ShrStep
<1> QED BY <1>2, <1>3

\* Adding a multiple of 2^d changes no bit below the d-th.
LEMMA ShrAdd ==
    ASSUME NEW x \in Nat, NEW d \in Nat, NEW s \in Nat
    PROVE  /\ x + pow2[d] * s \in Nat
           /\ \A j \in 0..d : Shr(x + pow2[d] * s, j) = Shr(x, j) + pow2[d - j] * s
           /\ \A j \in 0..(d - 1) : BitOf(x + pow2[d] * s, j) = BitOf(x, j)
<1> DEFINE y == x + pow2[d] * s
           T(j) == pow2[d - j] * s
           B == {j \in 0..d : Shr(y, j) = Shr(x, j) + T(j)}
<1>1. \A j \in 0..d : pow2[d - j] \in Nat /\ T(j) \in Nat
  <2> TAKE j \in 0..d
  <2>1. pow2[d - j] \in Nat
    BY Pow2Def
  <2> QED BY <2>1
<1>2. y \in Nat /\ y = x + T(0)
  BY <1>1
<1>3. ASSUME NEW j \in 0..(d - 1) PROVE T(j) = 2 * T(j + 1)
  <2>1. d - (j + 1) \in Nat /\ (d - (j + 1)) + 1 = d - j
    OBVIOUS
  <2>2. pow2[d - j] = 2 * pow2[d - (j + 1)] /\ pow2[d - (j + 1)] \in Nat
    BY <2>1, Pow2Def
  <2>3. \A p \in Nat : (2 * p) * s = 2 * (p * s)
    OBVIOUS
  <2> QED BY <2>2, <2>3
<1> HIDE DEF y, T
<1>4. 0 \in B
  <2>1. Shr(y, 0) = y /\ Shr(x, 0) = x
    BY <1>2, ShrStep
  <2> QED BY <1>2, <2>1
<1>5. ASSUME NEW j \in 0..(d - 1), Shr(y, j) = Shr(x, j) + T(j)
      PROVE  Shr(y, j + 1) = Shr(x, j + 1) + T(j + 1) /\ BitOf(y, j) = BitOf(x, j)
  <2>1. /\ Shr(x, j) = 2 * Shr(x, j + 1) + BitOf(x, j) /\ BitOf(x, j) \in {0, 1} /\ Shr(x, j + 1) \in Nat
        /\ Shr(y, j) = 2 * Shr(y, j + 1) + BitOf(y, j) /\ BitOf(y, j) \in {0, 1} /\ Shr(y, j + 1) \in Nat
    <3>1. j \in Nat
      OBVIOUS
    <3> QED BY <1>2, <3>1, ShrStep
  <2>2. T(j) = 2 * T(j + 1) /\ T(j + 1) \in Nat
    <3>1. j + 1 \in 0..d
      OBVIOUS
    <3> QED BY <1>1, <1>3, <3>1
  <2>3. Shr(y, j) = Shr(x, j) + T(j)
    BY <1>5
  <2>4. Shr(x, j + 1) + T(j + 1) \in Nat /\ 2 * (Shr(x, j + 1) + T(j + 1)) = 2 * Shr(x, j + 1) + T(j)
    BY <2>1, <2>2
  <2>5. 2 * Shr(y, j + 1) + BitOf(y, j) = 2 * (Shr(x, j + 1) + T(j + 1)) + BitOf(x, j)
    BY <2>1, <2>2, <2>3, <2>4
  <2> HIDE DEF B
  <2> QED BY <2>1, <2>4, <2>5, Halves
<1>6. ASSUME NEW j \in 1..d, j - 1 \in B PROVE j \in B
  <2>1. j - 1 \in 0..(d - 1) /\ (j - 1) + 1 = j /\ j \in 0..d
    OBVIOUS
  <2>2. Shr(y, j - 1) = Shr(x, j - 1) + T(j - 1)
    BY <1>6
  <2>3. Shr(y, (j - 1) + 1) = Shr(x, (j - 1) + 1) + T((j - 1) + 1)
    BY <1>5, <2>1, <2>2
  <2> QED BY <2>1, <2>3
<1>7. \A j \in 0..d : j \in B
  <2> HIDE DEF B
  <2> QED BY <1>4, <1>6, SetInduction
<1>8. \A j \in 0..d : Shr(y, j) = Shr(x, j) + T(j)
  BY <1>7
<1>9. \A j \in 0..(d - 1) : BitOf(y, j) = BitOf(x, j)
  BY <1>5, <1>8
<1> QED BY <1>2, <1>8, <1>9 DEF y, T

\* LowBits has the low bits.
LEMMA LowBitsBits ==
    ASSUME NEW u \in Nat, NEW d \in Nat
    PROVE  /\ LowBits(u, d) \in Nat /\ LowBits(u, d) < pow2[d] /\ u = LowBits(u, d) + pow2[d] * Shr(u, d)
           /\ \A j \in 0..(d - 1) : BitOf(LowBits(u, d), j) = BitOf(u, j)
<1>1. LowBits(u, d) \in Nat /\ LowBits(u, d) < pow2[d] /\ u = LowBits(u, d) + pow2[d] * Shr(u, d)
  BY Digits
<1>2. Shr(u, d) \in Nat
  BY ShrStep
<1> DEFINE l == LowBits(u, d)
           s == Shr(u, d)
<1> HIDE DEF l, s
<1>3. \A j \in 0..(d - 1) : BitOf(l + pow2[d] * s, j) = BitOf(l, j)
  BY <1>1, <1>2, ShrAdd DEF l, s
<1> QED BY <1>1, <1>3 DEF l, s

\* Setting a bit that is not set.
LEMMA SetBit ==
    ASSUME NEW x \in Nat, NEW i \in Nat, BitOf(x, i) = 0
    PROVE  /\ x + pow2[i] \in Nat
           /\ \A j \in Nat : BitOf(x + pow2[i], j) = IF j = i THEN 1 ELSE BitOf(x, j)
<1> DEFINE y == x + pow2[i]
<1>1. /\ y \in Nat
      /\ \A j \in 0..i : Shr(y, j) = Shr(x, j) + pow2[i - j]
      /\ \A j \in 0..(i - 1) : BitOf(y, j) = BitOf(x, j)
  <2>1. \A j \in 0..i : pow2[i - j] * 1 = pow2[i - j]
    <3> TAKE j \in 0..i
    <3>1. pow2[i - j] \in Nat
      BY Pow2Def
    <3> QED BY <3>1
  <2>2. pow2[i] * 1 = pow2[i]
    BY Pow2Def
  <2>3. /\ x + pow2[i] * 1 \in Nat
        /\ \A j \in 0..i : Shr(x + pow2[i] * 1, j) = Shr(x, j) + pow2[i - j] * 1
        /\ \A j \in 0..(i - 1) : BitOf(x + pow2[i] * 1, j) = BitOf(x, j)
    BY ShrAdd
  <2> QED BY <2>1, <2>2, <2>3
<1> HIDE DEF y
<1>2. Shr(y, i) = Shr(x, i) + 1
  <2>1. i \in 0..i /\ i - i = 0
    OBVIOUS
  <2> QED BY <1>1, <2>1, Pow2Def
<1>3. BitOf(y, i) = 1 /\ Shr(y, i + 1) = Shr(x, i + 1)
  <2>1. /\ Shr(x, i) = 2 * Shr(x, i + 1) + BitOf(x, i) /\ Shr(x, i + 1) \in Nat
        /\ Shr(y, i) = 2 * Shr(y, i + 1) + BitOf(y, i) /\ BitOf(y, i) \in {0, 1} /\ Shr(y, i + 1) \in Nat
    BY <1>1, ShrStep
  <2> QED BY <1>2, <2>1
<1> DEFINE B == {k \in Nat : Shr(y, i + 1 + k) = Shr(x, i + 1 + k)}
<1>4. 0 \in B
  BY <1>3
<1>5. ASSUME NEW k \in Nat, Shr(y, i + 1 + k) = Shr(x, i + 1 + k)
      PROVE  Shr(y, i + 1 + (k + 1)) = Shr(x, i + 1 + (k + 1)) /\ BitOf(y, i + 1 + k) = BitOf(x, i + 1 + k)
  <2> DEFINE j == i + 1 + k
  <2>1. j \in Nat /\ i + 1 + (k + 1) = j + 1
    OBVIOUS
  <2> HIDE DEF j
  <2>2. /\ Shr(x, j) = 2 * Shr(x, j + 1) + BitOf(x, j) /\ BitOf(x, j) \in {0, 1} /\ Shr(x, j + 1) \in Nat
        /\ Shr(y, j) = 2 * Shr(y, j + 1) + BitOf(y, j) /\ BitOf(y, j) \in {0, 1} /\ Shr(y, j + 1) \in Nat
    BY <1>1, <2>1, ShrStep
  <2>3. Shr(y, j) = Shr(x, j)
    BY <1>5 DEF j
  <2>4. Shr(y, j + 1) = Shr(x, j + 1) /\ BitOf(y, j) = BitOf(x, j)
    BY <2>2, <2>3
  <2> QED BY <2>1, <2>4 DEF j
<1>6. ASSUME NEW k \in Nat, k \in B PROVE k + 1 \in B
  BY <1>5, <1>6
<1>7. \A k \in Nat : k \in B
  <2> HIDE DEF B
  <2> QED BY <1>4, <1>6, NatSetInduction
<1>8. ASSUME NEW j \in Nat, j > i PROVE BitOf(y, j) = BitOf(x, j)
  <2>1. j - i - 1 \in Nat /\ i + 1 + (j - i - 1) = j
    BY <1>8
  <2>2. j - i - 1 \in B
    BY <1>7, <2>1
  <2> QED BY <1>5, <2>1, <2>2
<1>9. ASSUME NEW j \in Nat PROVE BitOf(y, j) = IF j = i THEN 1 ELSE BitOf(x, j)
  <2>1. CASE j < i
    <3>1. j \in 0..(i - 1)
      BY <2>1
    <3> QED BY <1>1, <2>1, <3>1
  <2> QED BY <1>3, <1>8, <2>1
<1> QED BY <1>1, <1>9 DEF y

\* Clearing a bit that is set.
LEMMA ClearBit ==
    ASSUME NEW x \in Nat, NEW i \in Nat, BitOf(x, i) = 1
    PROVE  /\ x - pow2[i] \in Nat
           /\ \A j \in Nat : BitOf(x - pow2[i], j) = IF j = i THEN 0 ELSE BitOf(x, j)
<1> DEFINE y == x - pow2[i]
<1>1. y \in Nat /\ y + pow2[i] = x
  <2>1. /\ LowBits(x, i) \in Nat /\ x = LowBits(x, i) + pow2[i] * Shr(x, i)
        /\ pow2[i] \in Nat /\ Shr(x, i) \in Nat
    BY Digits, Pow2Def, ShrStep
  <2>2. Shr(x, i) >= 1
    BY ShrStep
  <2>3. \A l, p, s \in Nat : s >= 1 => l + p * s - p \in Nat /\ (l + p * s - p) + p = l + p * s
    <3> TAKE l, p, s \in Nat
    <3>1. s >= 1 => p * s \in Nat /\ p * s >= p
      OBVIOUS
    <3> QED BY <3>1
  <2> QED BY <2>1, <2>2, <2>3
<1> HIDE DEF y
<1>2. BitOf(y, i) = 0
  <2>1. Shr(y + pow2[i] * 1, i) = Shr(y, i) + pow2[i - i] * 1
    BY <1>1, ShrAdd
  <2>2. pow2[i] * 1 = pow2[i] /\ i - i = 0 /\ pow2[0] = 1
    BY Pow2Def
  <2>3. Shr(x, i) = Shr(y, i) + 1
    BY <1>1, <2>1, <2>2
  <2>4. /\ Shr(x, i) = 2 * Shr(x, i + 1) + BitOf(x, i) /\ Shr(x, i + 1) \in Nat
        /\ Shr(y, i) = 2 * Shr(y, i + 1) + BitOf(y, i) /\ BitOf(y, i) \in {0, 1} /\ Shr(y, i + 1) \in Nat
    BY <1>1, ShrStep
  <2> QED BY <2>3, <2>4
<1>3. \A j \in Nat : BitOf(x, j) = IF j = i THEN 1 ELSE BitOf(y, j)
  BY <1>1, <1>2, SetBit
<1>4. \A j \in Nat : BitOf(y, j) = IF j = i THEN 0 ELSE BitOf(x, j)
  BY <1>2, <1>3
<1> QED BY <1>1, <1>4 DEF y

\* The bits of 0 and of 2^d - 1.
LEMMA ZeroBits ==
    \A j \in Nat : BitOf(0, j) = 0 /\ Shr(0, j) = 0
<1> DEFINE B == {j \in Nat : Shr(0, j) = 0}
<1>1. 0 \in B
  BY ShrStep
<1>2. ASSUME NEW j \in Nat, Shr(0, j) = 0 PROVE Shr(0, j + 1) = 0 /\ BitOf(0, j) = 0
  <2>1. /\ Shr(0, j) = 2 * Shr(0, j + 1) + BitOf(0, j) /\ BitOf(0, j) \in {0, 1} /\ Shr(0, j + 1) \in Nat
    BY ShrStep
  <2> QED BY <1>2, <2>1
<1>3. \A j \in Nat : j \in B
  <2>1. \A j \in Nat : j \in B => j + 1 \in B
    BY <1>2
  <2> HIDE DEF B
  <2> QED BY <1>1, <2>1, NatSetInduction
<1> QED BY <1>2, <1>3

LEMMA OneBits ==
    ASSUME NEW d \in Nat
    PROVE  pow2[d] - 1 \in Nat /\ \A j \in 0..(d - 1) : BitOf(pow2[d] - 1, j) = 1
<1> DEFINE x == pow2[d] - 1
           B == {j \in 0..d : Shr(x, j) = pow2[d - j] - 1}
<1>0. pow2[d] \in Nat /\ pow2[d] > 0
  BY Pow2Def
<1>1. x \in Nat
  BY <1>0
<1>x. x = pow2[d - 0] - 1
  OBVIOUS
<1> HIDE DEF x
<1>2. 0 \in B
  <2>1. Shr(x, 0) = x /\ 0 \in 0..d
    BY <1>1, ShrStep
  <2> QED BY <1>x, <2>1
<1>3. ASSUME NEW j \in 0..(d - 1), Shr(x, j) = pow2[d - j] - 1
      PROVE  Shr(x, j + 1) = pow2[d - (j + 1)] - 1 /\ BitOf(x, j) = 1
  <2>1. d - (j + 1) \in Nat /\ (d - (j + 1)) + 1 = d - j
    OBVIOUS
  <2>2. pow2[d - j] = 2 * pow2[d - (j + 1)] /\ pow2[d - (j + 1)] \in Nat
    BY <2>1, Pow2Def
  <2>3. Shr(x, j) = 2 * Shr(x, j + 1) + BitOf(x, j) /\ BitOf(x, j) \in {0, 1} /\ Shr(x, j + 1) \in Nat
    <3>1. j \in Nat
      OBVIOUS
    <3> QED BY <1>1, <3>1, ShrStep
  <2> QED BY <1>3, <2>2, <2>3
<1>4. ASSUME NEW j \in 1..d, j - 1 \in B PROVE j \in B
  <2>1. j - 1 \in 0..(d - 1) /\ (j - 1) + 1 = j /\ j \in 0..d
    OBVIOUS
  <2>2. Shr(x, j - 1) = pow2[d - (j - 1)] - 1
    BY <1>4
  <2>3. Shr(x, (j - 1) + 1) = pow2[d - ((j - 1) + 1)] - 1
    BY <1>3, <2>1, <2>2
  <2> QED BY <2>1, <2>3
<1>5. \A j \in 0..d : j \in B
  <2> HIDE DEF B
  <2> QED BY <1>2, <1>4, SetInduction
<1>6. \A j \in 0..(d - 1) : BitOf(x, j) = 1
  BY <1>3, <1>5
<1> QED BY <1>1, <1>6 DEF x

-----------------------------------------------------------------------------
(* The value of a column *)

\* The rows that are read hold the bits of u in column c.
RowsHold(c, u, depth) == \A i \in 0..(depth - 1) : c \in bit[i] <=> BitOf(u, i) = 1

\* view.value sums up the number that the rows hold.
LEMMA ValueSum ==
    ASSUME NEW c \in exists, NEW depth \in Nat, NEW u \in Nat, u < pow2[depth], RowsHold(c, u, depth)
    PROVE  value(c, depth) = IF c \in sign THEN -u ELSE u
<1> DEFINE Add(x, i) == x + (IF c \in bit[i - 1] THEN pow2[i - 1] ELSE 0)
           F == CHOOSE f : f = [i \in 0..depth |-> IF i = 0 THEN 0 ELSE Add(f[i - 1], i)]
           step == [i \in 1..depth |-> [x \in Int |-> Add(x, i)]]
<1>1. value(c, depth) = IF c \in sign THEN -F[depth] ELSE F[depth]
  BY DEF value
<1>2. ASSUME NEW i \in 1..depth PROVE i - 1 \in Nat /\ pow2[i - 1] \in Nat
  BY Pow2Def
<1>3. \A i \in 1..depth, x \in Int : Add(x, i) \in Int
  BY <1>2
<1>4. ASSUME NEW i \in 1..depth PROVE LowBits(u, i) = Add(LowBits(u, i - 1), i)
  <2>1. i - 1 \in Nat /\ (i - 1) + 1 = i /\ i - 1 \in 0..(depth - 1)
    OBVIOUS
  <2>2. /\ LowBits(u, i) = LowBits(u, i - 1) + BitOf(u, i - 1) * pow2[i - 1]
        /\ LowBits(u, i - 1) \in Nat /\ pow2[i - 1] \in Nat /\ BitOf(u, i - 1) \in {0, 1}
    <3> DEFINE j == i - 1
    <3>1. j \in Nat /\ i = j + 1
      OBVIOUS
    <3> HIDE DEF j
    <3>2. LowBits(u, j + 1) = LowBits(u, j) + BitOf(u, j) * pow2[j] /\ LowBits(u, j) \in Nat
      BY <3>1, Digits
    <3>3. pow2[j] \in Nat /\ BitOf(u, j) \in {0, 1}
      BY <3>1, Pow2Def, ShrStep
    <3> QED BY <3>1, <3>2, <3>3 DEF j
  <2>3. c \in bit[i - 1] <=> BitOf(u, i - 1) = 1
    BY <2>1 DEF RowsHold
  <2> QED BY <2>2, <2>3
<1>5. LowBits(u, 0) = 0
  <2>1. LowBits(u, 0) \in Nat /\ LowBits(u, 0) < pow2[0] /\ pow2[0] = 1
    BY Digits, Pow2Def
  <2> QED BY <2>1
<1> HIDE DEF Add, F
<1> DEFINE g == [i \in 0..depth |-> LowBits(u, i)]
<1>6. \A i \in 0..depth : g[i] = LowBits(u, i) /\ g[i] \in Nat
  <2> TAKE i \in 0..depth
  <2>1. i \in Nat
    OBVIOUS
  <2>2. LowBits(u, i) \in Nat
    BY <2>1, Digits
  <2> QED BY <2>2
<1>7. g = [i \in 0..depth |-> IF i = 0 THEN 0 ELSE Add(g[i - 1], i)]
  <2>1. ASSUME NEW i \in 0..depth, i # 0 PROVE g[i] = Add(g[i - 1], i)
    <3>1. i \in 1..depth /\ i - 1 \in 0..depth
      BY <2>1
    <3> QED BY <1>4, <1>6, <3>1
  <2>2. 0 \in 0..depth /\ g[0] = 0
    BY <1>5, <1>6
  <2>3. \A i \in 0..depth : g[i] = IF i = 0 THEN 0 ELSE Add(g[i - 1], i)
    BY <2>1, <2>2
  <2> QED BY <2>3
<1>8. F = [i \in 0..depth |-> IF i = 0 THEN 0 ELSE Add(F[i - 1], i)]
  <2> HIDE DEF g
  <2> QED BY <1>7 DEF F
<1> DEFINE B == {i \in 0..depth : F[i] = g[i]}
<1>9. 0 \in B
  <2>1. 0 \in 0..depth
    OBVIOUS
  <2>2. F[0] = 0 /\ g[0] = 0
    BY <1>5, <1>6, <1>8, <2>1
  <2> QED BY <2>1, <2>2
<1>10. ASSUME NEW i \in 1..depth, i - 1 \in B PROVE i \in B
  <2>1. i \in 0..depth /\ i # 0 /\ i - 1 \in 0..depth
    OBVIOUS
  <2>2. F[i] = Add(F[i - 1], i)
    BY <1>8, <2>1
  <2>3. g[i] = Add(g[i - 1], i)
    BY <1>4, <1>6, <2>1
  <2> QED BY <1>10, <2>1, <2>2, <2>3
<1>11. \A i \in 0..depth : i \in B
  <2> HIDE DEF B
  <2> QED BY <1>9, <1>10, SetInduction
<1>12. F[depth] = LowBits(u, depth)
  <2>1. depth \in 0..depth
    OBVIOUS
  <2> QED BY <1>6, <1>11, <2>1
<1> QED BY <1>1, <1>12, Fits

-----------------------------------------------------------------------------
(* The invariant *)

\* Nothing is said of what cleared columns left in the rows in use.
BsiType ==
    /\ bsig \in [Min : Int, Max : Int, Base : Int, BitDepth : 0..MaxDepth]
    /\ \A v \in bsig.Min..bsig.Max : Abs(v - bsig.Base) < pow2[MaxDepth]
    /\ exists \subseteq Column
    /\ bit \in [DepthRange -> SUBSET Column]
    /\ written \in [Column -> Int \cup {None}]

\* The bits that a column has in the rows.
Unsigned(c) == Abs(written[c] - bsig.Base)

\* The rows hold the value of a column, within the bits in use.
Stored(c) ==
    /\ written[c] \in bsig.Min..bsig.Max
    /\ Unsigned(c) < pow2[bsig.BitDepth]
    /\ c \in sign <=> written[c] < bsig.Base
    /\ \A i \in DepthRange : c \in bit[i] <=> BitOf(Unsigned(c), i) = 1

StoredInv == \A c \in Column : IF c \in exists THEN Stored(c) ELSE written[c] = None

\* No bit is left behind above the rows in use, where a deeper value would find it.
EmptyInv == \A i \in DepthRange : i >= bsig.BitDepth => bit[i] = {}

\* A value, less Base, that the bits in use can hold.
Holds(b, v) ==
    /\ v \in Int /\ v + b.Base \in b.Min..b.Max
    /\ Abs(v) < pow2[b.BitDepth]

\* What a request is about to write fits into the bits in use.
CallOK(b, o) ==
    \/ o = Idle
    \/ /\ o \in [pc : {"raise"}, col : Column, value : Int, clear : {FALSE}]
       /\ o.value + b.Base \in b.Min..b.Max
       /\ bitDepth(Abs(o.value)) > b.BitDepth
    \/ /\ o.pc \in {"arg", "write"} /\ o.col \in Column /\ o.clear \in BOOLEAN
       /\ o.clear \/ Holds(b, o.value)
       /\ o.pc = "write" => o.depth = b.BitDepth
    \/ /\ o.pc = "import" /\ o.pairs \in Batches /\ o.clear \in BOOLEAN
       /\ o.depth = b.BitDepth
       /\ \A i \in DOMAIN o.pairs : Holds(b, o.pairs[i][2])

CallInv == /\ DOMAIN call = Proc
           /\ \A p \in Proc : CallOK(bsig, call[p])

BsiInv == BsiType /\ StoredInv /\ EmptyInv /\ CallInv

\* Requests do not overlap.
OneAtATime == \A p, q \in Proc : p = q

\* The value of a field, less its base.
LEMMA AbsNat == \A v \in Int : Abs(v) \in Nat
BY DEF Abs

LEMMA BsiInit ==
    ASSUME Init PROVE BsiInv
<1>1. PICK r \in FieldRange : bsig = [Min |-> r[1], Max |-> r[2], Base |-> bsiBase(r[1], r[2]), BitDepth |-> 0]
  BY DEF Init
<1>2. r[1] \in Int /\ r[2] \in Int /\ MaxDepth \in Nat
  BY BsiAssumption
<1>3. bsiBase(r[1], r[2]) \in Int
  BY <1>2 DEF bsiBase
<1>4. \A v \in r[1]..r[2] : Abs(v - bsiBase(r[1], r[2])) < pow2[MaxDepth]
  BY BsiAssumption
<1>5. bsig \in [Min : Int, Max : Int, Base : Int, BitDepth : 0..MaxDepth]
  BY <1>1, <1>2, <1>3
<1>6. \A v \in bsig.Min..bsig.Max : Abs(v - bsig.Base) < pow2[MaxDepth]
  BY <1>1, <1>4
<1>7. exists = {} /\ bit = [i \in DepthRange |-> {}] /\ written = [c \in Column |-> None] /\ call = [p \in Proc |-> Idle]
  BY DEF Init
<1>8. BsiType
  BY <1>5, <1>6, <1>7 DEF BsiType
<1>9. StoredInv
  BY <1>7 DEF StoredInv
<1>10. EmptyInv
  BY <1>7 DEF EmptyInv
<1>11. CallInv
  BY <1>7 DEF CallInv, CallOK
<1> QED BY <1>8, <1>9, <1>10, <1>11 DEF BsiInv

-----------------------------------------------------------------------------
(* Writing *)

\* What the rows hold after a write that uses all bits in use.
LEMMA PutBitsRows ==
    ASSUME BsiType, EmptyInv, NEW batch, DOMAIN batch \subseteq Column, PutBits(batch, bsig.BitDepth)
    PROVE  /\ bit' \in [DepthRange -> SUBSET Column]
           /\ \A i \in DepthRange : i >= bsig.BitDepth => bit'[i] = {}
           /\ \A i \in DepthRange, c \in Column \ DOMAIN batch : c \in bit'[i] <=> c \in bit[i]
           /\ \A c \in DOMAIN batch : batch[c] \in Int /\ Abs(batch[c]) < pow2[bsig.BitDepth] =>
                \A i \in DepthRange : c \in bit'[i] <=> BitOf(Abs(batch[c]), i) = 1
<1> DEFINE d == bsig.BitDepth
           On(i) == {c \in DOMAIN batch : BitOf(Abs(batch[c]), i) = 1}
<1>1. /\ d \in Nat /\ bit \in [DepthRange -> SUBSET Column]
      /\ \A i \in DepthRange : i \in Nat
  BY DEF BsiType, DepthRange
<1>2. bit' = [i \in DepthRange |-> IF i >= d THEN bit[i] ELSE (bit[i] \ DOMAIN batch) \cup On(i)]
  BY DEF PutBits
<1>3. \A i \in DepthRange : i >= d => bit[i] = {}
  BY DEF EmptyInv
<1>4. \A i \in DepthRange : bit'[i] = IF i >= d THEN {} ELSE (bit[i] \ DOMAIN batch) \cup On(i)
  BY <1>2, <1>3
<1> HIDE DEF d
<1>5. bit' \in [DepthRange -> SUBSET Column]
  BY <1>1, <1>2
<1>6. \A i \in DepthRange, c \in Column \ DOMAIN batch : c \in bit'[i] <=> c \in bit[i]
  BY <1>3, <1>4
<1>7. ASSUME NEW c \in DOMAIN batch, batch[c] \in Int, Abs(batch[c]) < pow2[d], NEW i \in DepthRange
      PROVE  c \in bit'[i] <=> BitOf(Abs(batch[c]), i) = 1
  <2>1. CASE i >= d
    <3>1. Abs(batch[c]) \in Nat /\ i \in Nat /\ d <= i
      BY <1>1, <1>7, <2>1, AbsNat
    <3>2. BitOf(Abs(batch[c]), i) = 0
      BY <1>1, <1>7, <3>1, HighBitsZero
    <3>3. bit'[i] = {}
      BY <1>4, <2>1
    <3> QED BY <3>2, <3>3
  <2>2. CASE ~(i >= d)
    <3>1. bit'[i] = (bit[i] \ DOMAIN batch) \cup On(i)
      BY <1>4, <2>2
    <3>2. c \in On(i) <=> BitOf(Abs(batch[c]), i) = 1
      OBVIOUS
    <3> HIDE DEF On
    <3> QED BY <3>1, <3>2
  <2> QED BY <2>1, <2>2
<1> QED BY <1>4, <1>5, <1>6, <1>7 DEF d

\* Columns that are not written stay as they are.
LEMMA OthersStored ==
    ASSUME NEW c \in Column, StoredInv, bsig' = bsig, written'[c] = written[c],
           c \in exists' <=> c \in exists, c \in sign' <=> c \in sign,
           \A i \in DepthRange : c \in bit'[i] <=> c \in bit[i]
    PROVE  IF c \in exists' THEN Stored(c)' ELSE written'[c] = None
<1>1. Unsigned(c)' = Unsigned(c)
  BY DEF Unsigned
<1>2. CASE c \in exists
  <2>1. Stored(c)
    BY <1>2 DEF StoredInv
  <2> QED BY <1>1, <1>2, <2>1 DEF Stored
<1>3. CASE c \notin exists
  BY <1>3 DEF StoredInv
<1> QED BY <1>2, <1>3

\* A column that is written holds its value.
LEMMA WrittenStored ==
    ASSUME NEW c \in Column, BsiType, NEW v, Holds(bsig, v), bsig' = bsig, written'[c] = v + bsig.Base,
           c \in sign' <=> v < 0, \A i \in DepthRange : c \in bit'[i] <=> BitOf(Abs(v), i) = 1
    PROVE  Stored(c)'
<1>1. v \in Int /\ bsig.Base \in Int
  BY DEF Holds, BsiType
<1>2. written'[c] - bsig'.Base = v
  BY <1>1
<1>3. Unsigned(c)' = Abs(v)
  BY <1>2 DEF Unsigned
<1>4. written'[c] \in bsig'.Min..bsig'.Max /\ Abs(v) < pow2[bsig'.BitDepth]
  BY DEF Holds
<1>5. c \in sign' <=> written'[c] < bsig'.Base
  BY <1>1
<1> QED BY <1>3, <1>4, <1>5 DEF Stored

\* The last entry of each column counts.
LEMMA LastWinsIs ==
    ASSUME NEW pairs \in Batches
    PROVE  LET batch == LastWins(pairs)
               entries(c) == {i \in DOMAIN pairs : pairs[i][1] = c}
           IN  /\ DOMAIN batch \subseteq Column
               /\ \A c \in Column : c \in DOMAIN batch <=> entries(c) # {}
               /\ \A c \in DOMAIN batch : /\ Max(entries(c)) \in DOMAIN pairs
                                          /\ batch[c] = pairs[Max(entries(c))][2]
<1> DEFINE entries(c) == {i \in DOMAIN pairs : pairs[i][1] = c}
           kept == {i \in DOMAIN pairs : i = Len(pairs) \/ pairs[i][1] # pairs[i + 1][1]}
           batch == LastWins(pairs)
<1>1. PICK n \in 1..MaxBatch : pairs \in [1..n -> Column \X ImportValue]
  BY DEF Batches
<1>2. \A i, j \in DOMAIN pairs : \A k \in i..j : pairs[i][1] = pairs[j][1] => pairs[k][1] = pairs[i][1]
  BY DEF Batches
<1>3. n \in Nat /\ DOMAIN pairs = 1..n /\ Len(pairs) = n
  <2>1. n \in Nat
    BY BsiAssumption
  <2> QED BY <1>1, <2>1
<1>4. \A i \in DOMAIN pairs : pairs[i][1] \in Column
  BY <1>1
<1>5. batch = [c \in {pairs[i][1] : i \in kept} |-> pairs[CHOOSE i \in kept : pairs[i][1] = c][2]]
  BY DEF LastWins
<1>6. ASSUME NEW c, entries(c) # {}
      PROVE  Max(entries(c)) \in entries(c) /\ \A i \in entries(c) : i <= Max(entries(c))
  <2>1. entries(c) \in SUBSET Int /\ \A i \in entries(c) : i <= n
    BY <1>3
  <2>2. entries(c) # {} /\ n \in Int
    BY <1>3, <1>6
  <2> DEFINE S == entries(c)
  <2> HIDE DEF entries, S
  <2>3. Max(S) \in S /\ \A i \in S : i <= Max(S)
    BY <2>1, <2>2, MaxOfBounded DEF S
  <2> QED BY <2>3 DEF S
<1>7. ASSUME NEW c, entries(c) # {} PROVE Max(entries(c)) \in kept
  <2> DEFINE m == Max(entries(c))
  <2>1. m \in entries(c) /\ \A i \in entries(c) : i <= m
    BY <1>6, <1>7
  <2> HIDE DEF m
  <2>2. m \in 1..n /\ pairs[m][1] = c
    BY <1>3, <2>1
  <2>3. CASE m # n
    <3>1. m + 1 \in 1..n /\ ~(m + 1 <= m)
      BY <1>3, <2>2, <2>3
    <3>2. m + 1 \notin entries(c)
      BY <2>1, <3>1
    <3>3. pairs[m + 1][1] # c
      BY <1>3, <3>1, <3>2
    <3> QED BY <1>3, <2>2, <3>3 DEF m
  <2> QED BY <1>3, <2>2, <2>3 DEF m
<1>8. ASSUME NEW c, NEW i \in kept, pairs[i][1] = c PROVE i = Max(entries(c))
  <2> DEFINE m == Max(entries(c))
  <2>1. i \in entries(c) /\ i \in 1..n
    BY <1>3, <1>8
  <2>2. m \in entries(c) /\ i <= m
    BY <1>6, <2>1
  <2> HIDE DEF m
  <2>3. m \in 1..n /\ pairs[m][1] = c
    BY <1>3, <2>2
  <2>4. CASE i < m
    <3>1. i + 1 \in i..m /\ i # n
      BY <1>3, <2>1, <2>3, <2>4
    <3>2. pairs[i + 1][1] = pairs[i][1]
      BY <1>2, <1>3, <1>8, <2>1, <2>3, <3>1
    <3> QED BY <1>3, <3>1, <3>2
  <2>5. CASE ~(i < m)
    BY <1>3, <2>1, <2>2, <2>3, <2>5 DEF m
  <2> QED BY <2>4, <2>5
<1>9. \A c : c \in DOMAIN batch <=> entries(c) # {}
  <2> TAKE c
  <2>1. DOMAIN batch = {pairs[i][1] : i \in kept}
    BY <1>5
  <2>2. CASE entries(c) # {}
    <3>1. Max(entries(c)) \in kept /\ pairs[Max(entries(c))][1] = c
      BY <1>6, <1>7, <2>2
    <3> QED BY <2>1, <2>2, <3>1
  <2>3. CASE entries(c) = {}
    BY <2>1, <2>3
  <2> QED BY <2>2, <2>3
<1>10. DOMAIN batch \subseteq Column
  BY <1>4, <1>5
<1>11. ASSUME NEW c \in DOMAIN batch
       PROVE  Max(entries(c)) \in DOMAIN pairs /\ batch[c] = pairs[Max(entries(c))][2]
  <2>1. entries(c) # {}
    BY <1>9, <1>11
  <2>2. Max(entries(c)) \in kept /\ Max(entries(c)) \in entries(c)
    BY <1>6, <1>7, <2>1
  <2>3. pairs[Max(entries(c))][1] = c /\ Max(entries(c)) \in DOMAIN pairs
    BY <2>2
  <2> DEFINE ch == CHOOSE i \in kept : pairs[i][1] = c
  <2>4. ch \in kept /\ pairs[ch][1] = c
    <3>1. \E i \in kept : pairs[i][1] = c
      BY <2>2, <2>3
    <3> QED BY <3>1
  <2>5. batch[c] = pairs[ch][2]
    BY <1>5, <1>11
  <2> HIDE DEF ch
  <2>6. ch = Max(entries(c))
    BY <1>8, <2>4, ZenonT(60)
  <2> QED BY <2>3, <2>5, <2>6
<1> QED BY <1>9, <1>10, <1>11

-----------------------------------------------------------------------------
(* The steps *)

\* There is one request.
LEMMA OneCall ==
    ASSUME OneAtATime, NEW p \in Proc, DOMAIN call' = Proc, CallOK(bsig', call'[p])
    PROVE  CallInv'
BY DEF OneAtATime, CallInv

\* Rows that stay and a depth that does not fall.
LEMMA DepthKeeps ==
    ASSUME BsiType, StoredInv, EmptyInv, UNCHANGED <<exists, sign, bit, written>>,
           NEW d \in 0..MaxDepth, bsig' = [bsig EXCEPT !.BitDepth = d], bsig.BitDepth <= d
    PROVE  BsiType' /\ StoredInv' /\ EmptyInv'
<1>1. /\ bsig'.Min = bsig.Min /\ bsig'.Max = bsig.Max /\ bsig'.Base = bsig.Base /\ bsig'.BitDepth = d
      /\ bsig' \in [Min : Int, Max : Int, Base : Int, BitDepth : 0..MaxDepth]
      /\ bsig.BitDepth \in Nat /\ d \in Nat /\ bsig.Base \in Int /\ bsig.Min \in Int /\ bsig.Max \in Int
  BY BsiAssumption DEF BsiType
<1>2. BsiType'
  BY <1>1 DEF BsiType
<1>3. EmptyInv'
  <2>1. ASSUME NEW i \in DepthRange, i >= d PROVE bit[i] = {}
    <3>1. i \in Nat /\ i >= bsig.BitDepth
      BY <1>1, <2>1 DEF DepthRange
    <3> QED BY <3>1 DEF EmptyInv
  <2> QED BY <1>1, <2>1 DEF EmptyInv
<1>4. pow2[bsig.BitDepth] <= pow2[d] /\ pow2[bsig.BitDepth] \in Nat /\ pow2[d] \in Nat
  BY <1>1, Pow2Grows, Pow2Def
<1>5. ASSUME NEW c \in Column, c \in exists PROVE Stored(c)'
  <2>1. Stored(c)
    BY <1>5 DEF StoredInv
  <2>2. Unsigned(c)' = Unsigned(c)
    BY <1>1 DEF Unsigned
  <2>3. written[c] \in Int
    BY <1>1, <2>1 DEF Stored
  <2>4. Unsigned(c) \in Nat
    BY <1>1, <2>3, AbsNat DEF Unsigned
  <2>5. Unsigned(c) < pow2[d]
    BY <1>4, <2>1, <2>4 DEF Stored
  <2> QED BY <1>1, <2>1, <2>2, <2>5 DEF Stored
<1>6. StoredInv'
  BY <1>5 DEF StoredInv
<1> QED BY <1>2, <1>3, <1>6

\* The depth that a value of the field needs.
LEMMA DepthOfValue ==
    ASSUME BsiType, NEW v \in Int, v + bsig.Base \in bsig.Min..bsig.Max
    PROVE  /\ bitDepth(Abs(v)) \in 0..MaxDepth
           /\ \A d \in Nat : bitDepth(Abs(v)) <= d => Abs(v) < pow2[d]
<1>1. Abs(v) \in Nat /\ MaxDepth \in Nat /\ bsig.Base \in Int
  BY AbsNat, BsiAssumption DEF BsiType
<1>2. (v + bsig.Base) - bsig.Base = v
  BY <1>1
<1>3. Abs(v) < pow2[MaxDepth]
  BY <1>2 DEF BsiType
<1>4. bitDepth(Abs(v)) \in Nat /\ \A d \in Nat : bitDepth(Abs(v)) > d <=> Abs(v) >= pow2[d]
  BY <1>1, BitDepthLeast
<1>5. \A d \in Nat : pow2[d] \in Nat
  BY Pow2Def
<1>6. ~(bitDepth(Abs(v)) > MaxDepth)
  BY <1>1, <1>3, <1>4, <1>5
<1>7. ASSUME NEW d \in Nat, bitDepth(Abs(v)) <= d PROVE Abs(v) < pow2[d]
  BY <1>1, <1>4, <1>5, <1>7
<1> QED BY <1>1, <1>4, <1>6, <1>7

LEMMA SetValueInv ==
    ASSUME BsiInv, OneAtATime, NEW p \in Proc, NEW c \in Column, NEW v \in bsig.Min..bsig.Max, SetValue(p, c, v)
    PROVE  BsiInv'
<1> DEFINE x == v - bsig.Base
<1>1. /\ UNCHANGED <<bsig, exists, sign, bit, written>>
      /\ call' = [call EXCEPT ![p] = [pc |-> IF bitDepth(Abs(x)) > bsig.BitDepth THEN "raise" ELSE "arg",
                                      col |-> c, value |-> x, clear |-> FALSE]]
  BY DEF SetValue
<1>2. bsig.Base \in Int /\ bsig.Min \in Int /\ bsig.Max \in Int /\ bsig.BitDepth \in Nat /\ v \in Int
  BY DEF BsiInv, BsiType
<1>3. x \in Int /\ x + bsig.Base \in bsig.Min..bsig.Max
  BY <1>2
<1> HIDE DEF x
<1>4. bitDepth(Abs(x)) \in Nat /\ (bitDepth(Abs(x)) <= bsig.BitDepth => Abs(x) < pow2[bsig.BitDepth])
  BY <1>2, <1>3, DepthOfValue DEF BsiInv
<1>5. BsiType' /\ StoredInv' /\ EmptyInv'
  BY <1>1 DEF BsiInv, BsiType, StoredInv, Stored, Unsigned, EmptyInv
<1>6. DOMAIN call' = Proc /\ call'[p] = [pc |-> IF bitDepth(Abs(x)) > bsig.BitDepth THEN "raise" ELSE "arg",
                                         col |-> c, value |-> x, clear |-> FALSE]
  BY <1>1 DEF BsiInv, CallInv
<1>7. CallOK(bsig', call'[p])
  <2>1. CASE bitDepth(Abs(x)) > bsig.BitDepth
    BY <1>1, <1>3, <1>6, <2>1 DEF CallOK
  <2>2. CASE ~(bitDepth(Abs(x)) > bsig.BitDepth)
    <3>1. Holds(bsig, x)
      BY <1>2, <1>3, <1>4, <2>2 DEF Holds
    <3>2. Holds(bsig', x)
      BY <1>1, <3>1 DEF Holds
    <3> QED BY <1>1, <1>6, <2>2, <3>2 DEF CallOK
  <2> QED BY <2>1, <2>2
<1>8. CallInv'
  BY <1>6, <1>7, OneCall
<1> QED BY <1>5, <1>8 DEF BsiInv

LEMMA RaiseInv ==
    ASSUME BsiInv, OneAtATime, NEW p \in Proc, Raise(p)
    PROVE  BsiInv'
<1> DEFINE o == call[p]
           d == bitDepth(Abs(o.value))
<1>1. /\ UNCHANGED <<exists, sign, bit, written>> /\ bsig' = [bsig EXCEPT !.BitDepth = d]
      /\ call' = [call EXCEPT ![p].pc = "arg"] /\ o.pc = "raise"
  BY DEF Raise
<1>2. /\ o \in [pc : {"raise"}, col : Column, value : Int, clear : {FALSE}] /\ o.value \in Int /\ o.value + bsig.Base \in bsig.Min..bsig.Max
      /\ d > bsig.BitDepth
  <2>1. CallOK(bsig, o)
    BY DEF BsiInv, CallInv
  <2>2. o # Idle /\ o.pc = "raise"
    BY <1>1 DEF Idle
  <2> HIDE DEF o
  <2>3. /\ o \in [pc : {"raise"}, col : Column, value : Int, clear : {FALSE}]
        /\ o.value + bsig.Base \in bsig.Min..bsig.Max /\ bitDepth(Abs(o.value)) > bsig.BitDepth
    BY <2>1, <2>2 DEF CallOK
  <2> QED BY <2>3
<1> HIDE DEF o
<1>3. d \in 0..MaxDepth /\ d \in Nat /\ Abs(o.value) < pow2[d]
  <2>1. BsiType
    BY DEF BsiInv
  <2>2. d \in 0..MaxDepth /\ \A e \in Nat : d <= e => Abs(o.value) < pow2[e]
    BY <1>2, <2>1, DepthOfValue
  <2>3. d \in Nat
    BY <2>2, BsiAssumption
  <2> QED BY <2>2, <2>3
<1> HIDE DEF d
<1>4. BsiType' /\ StoredInv' /\ EmptyInv'
  <2>1. bsig.BitDepth <= d
    BY <1>2, <1>3, BsiAssumption DEF BsiInv, BsiType
  <2> QED BY <1>1, <1>3, <2>1, DepthKeeps DEF BsiInv
<1>5. /\ bsig'.Min = bsig.Min /\ bsig'.Max = bsig.Max /\ bsig'.Base = bsig.Base /\ bsig'.BitDepth = d
  BY <1>1 DEF BsiInv, BsiType
<1>6. DOMAIN call' = Proc /\ call'[p] = [o EXCEPT !.pc = "arg"]
  BY <1>1 DEF BsiInv, CallInv, o
<1>7. Holds(bsig', o.value)
  BY <1>2, <1>3, <1>5 DEF Holds
<1>8. CallOK(bsig', call'[p])
  <2> DEFINE n == call'[p]
  <2>1. n.pc = "arg" /\ n.col \in Column /\ n.clear = FALSE /\ n.value = o.value
    BY <1>2, <1>6
  <2> HIDE DEF n
  <2>2. CallOK(bsig', n)
    BY <1>7, <2>1 DEF CallOK
  <2> QED BY <2>2 DEF n
<1>9. CallInv'
  BY <1>6, <1>8, OneCall
<1> QED BY <1>4, <1>9 DEF BsiInv


LEMMA ClearValueInv ==
    ASSUME BsiInv, OneAtATime, NEW p \in Proc, NEW c \in Column, ClearValue(p, c)
    PROVE  BsiInv'
<1> DEFINE v == value(c, bsig.BitDepth)
<1>1. /\ UNCHANGED <<bsig, exists, sign, bit, written>>
      /\ call' = [call EXCEPT ![p] = [pc |-> "arg", col |-> c, value |-> v, clear |-> TRUE]]
  BY DEF ClearValue
<1> HIDE DEF v
<1>2. BsiType' /\ StoredInv' /\ EmptyInv'
  BY <1>1 DEF BsiInv, BsiType, StoredInv, Stored, Unsigned, EmptyInv
<1>3. DOMAIN call' = Proc /\ call'[p] = [pc |-> "arg", col |-> c, value |-> v, clear |-> TRUE]
  BY <1>1 DEF BsiInv, CallInv
<1>4. CallOK(bsig', call'[p])
  <2> DEFINE n == call'[p]
  <2>1. n.pc = "arg" /\ n.col \in Column /\ n.clear = TRUE
    BY <1>3
  <2> HIDE DEF n
  <2>2. CallOK(bsig', n)
    BY <2>1 DEF CallOK
  <2> QED BY <2>2 DEF n
<1>5. CallInv'
  BY <1>3, <1>4, OneCall
<1> QED BY <1>2, <1>5 DEF BsiInv

LEMMA ReadDepthInv ==
    ASSUME BsiInv, OneAtATime, NEW p \in Proc, ReadDepth(p)
    PROVE  BsiInv'
<1> DEFINE o == call[p]
<1>1. /\ UNCHANGED <<bsig, exists, sign, bit, written>> /\ o.pc = "arg"
      /\ call' = [call EXCEPT ![p] = [pc |-> "write", col |-> o.col, value |-> o.value,
                                      clear |-> o.clear, depth |-> bsig.BitDepth]]
  BY DEF ReadDepth
<1>2. CallOK(bsig, o) /\ o # Idle
  BY <1>1 DEF BsiInv, CallInv, Idle
<1> HIDE DEF o
<1>3. o.col \in Column /\ o.clear \in BOOLEAN /\ (o.clear \/ Holds(bsig, o.value))
  BY <1>1, <1>2 DEF CallOK
<1>4. BsiType' /\ StoredInv' /\ EmptyInv'
  BY <1>1 DEF BsiInv, BsiType, StoredInv, Stored, Unsigned, EmptyInv
<1>5. DOMAIN call' = Proc /\ call'[p] = [pc |-> "write", col |-> o.col, value |-> o.value,
                                         clear |-> o.clear, depth |-> bsig.BitDepth]
  BY <1>1 DEF BsiInv, CallInv
<1>6. CallOK(bsig', call'[p])
  <2> DEFINE n == call'[p]
  <2>1. n.pc = "write" /\ n.col = o.col /\ n.clear = o.clear /\ n.value = o.value /\ n.depth = bsig'.BitDepth
    BY <1>1, <1>5
  <2>2. bsig' = bsig
    BY <1>1
  <2> HIDE DEF n
  <2>3. CallOK(bsig', n)
    BY <1>3, <2>1, <2>2 DEF CallOK
  <2> QED BY <2>3 DEF n
<1>7. CallInv'
  BY <1>5, <1>6, OneCall
<1> QED BY <1>4, <1>7 DEF BsiInv

\* A write of a batch in one transaction: the columns of the batch hold their new
\* values, or nothing if they were cleared.
LEMMA BatchInv ==
    ASSUME BsiInv, OneAtATime, NEW p \in Proc, NEW batch, DOMAIN batch \subseteq Column, NEW clear \in BOOLEAN,
           clear \/ \A c \in DOMAIN batch : Holds(bsig, batch[c]),
           PutBits(batch, bsig.BitDepth), UNCHANGED bsig,
           exists' = IF clear THEN exists \ DOMAIN batch ELSE exists \cup DOMAIN batch,
           \A c \in Column \ DOMAIN batch : c \in sign' <=> c \in sign,
           ~clear => \A c \in DOMAIN batch : c \in sign' <=> batch[c] < 0,
           written' \in [Column -> Int \cup {None}],
           \A c \in Column \ DOMAIN batch : written'[c] = written[c],
           \A c \in DOMAIN batch : written'[c] = IF clear THEN None ELSE batch[c] + bsig.Base,
           call' = [call EXCEPT ![p] = Idle]
    PROVE  BsiInv'
<1>1. /\ bit' \in [DepthRange -> SUBSET Column]
      /\ \A i \in DepthRange : i >= bsig.BitDepth => bit'[i] = {}
      /\ \A i \in DepthRange, c \in Column \ DOMAIN batch : c \in bit'[i] <=> c \in bit[i]
      /\ \A c \in DOMAIN batch : batch[c] \in Int /\ Abs(batch[c]) < pow2[bsig.BitDepth] =>
           \A i \in DepthRange : c \in bit'[i] <=> BitOf(Abs(batch[c]), i) = 1
  BY PutBitsRows DEF BsiInv
<1>2. exists' \subseteq Column /\ BsiType /\ StoredInv
  BY DEF BsiInv, BsiType
<1>3. BsiType'
  BY <1>1, <1>2 DEF BsiType
<1>4. EmptyInv'
  BY <1>1 DEF EmptyInv
<1>5. ASSUME NEW c \in Column PROVE IF c \in exists' THEN Stored(c)' ELSE written'[c] = None
  <2>1. CASE c \notin DOMAIN batch
    <3>1. written'[c] = written[c] /\ (c \in exists' <=> c \in exists) /\ (c \in sign' <=> c \in sign)
      BY <2>1
    <3>2. \A i \in DepthRange : c \in bit'[i] <=> c \in bit[i]
      BY <1>1, <2>1
    <3> QED BY <1>2, <3>1, <3>2, OthersStored
  <2>2. CASE c \in DOMAIN batch /\ clear
    BY <2>2
  <2>3. CASE c \in DOMAIN batch /\ ~clear
    <3>1. Holds(bsig, batch[c]) /\ c \in exists' /\ written'[c] = batch[c] + bsig.Base /\ (c \in sign' <=> batch[c] < 0)
      BY <2>3
    <3>2. \A i \in DepthRange : c \in bit'[i] <=> BitOf(Abs(batch[c]), i) = 1
      BY <1>1, <2>3, <3>1 DEF Holds
    <3>3. Stored(c)'
      BY <1>2, <3>1, <3>2, WrittenStored
    <3> QED BY <3>1, <3>3
  <2> QED BY <2>1, <2>2, <2>3
<1>6. StoredInv'
  BY <1>5 DEF StoredInv
<1>7. CallInv'
  <2>1. DOMAIN call' = Proc /\ call'[p] = Idle
    BY DEF BsiInv, CallInv
  <2>2. CallOK(bsig', call'[p])
    BY <2>1 DEF CallOK
  <2> QED BY <2>1, <2>2, OneCall
<1> QED BY <1>3, <1>4, <1>6, <1>7 DEF BsiInv

LEMMA WriteInv ==
    ASSUME BsiInv, OneAtATime, NEW p \in Proc, Write(p)
    PROVE  BsiInv'
<1> DEFINE o == call[p]
           c == o.col
           batch == [x \in {c} |-> o.value]
<1>1. /\ o.pc = "write" /\ setValueBase(c, o.depth, o.value, o.clear)
      /\ written' = [written EXCEPT ![c] = IF o.clear THEN None ELSE o.value + bsig.Base]
      /\ call' = [call EXCEPT ![p] = Idle] /\ UNCHANGED bsig
  BY DEF Write
<1>2. CallOK(bsig, o) /\ o # Idle
  BY <1>1 DEF BsiInv, CallInv, Idle
<1> HIDE DEF o
<1>3. c \in Column /\ o.clear \in BOOLEAN /\ (o.clear \/ Holds(bsig, o.value)) /\ o.depth = bsig.BitDepth
  BY <1>1, <1>2 DEF CallOK
<1>4. /\ PutBits(batch, bsig.BitDepth)
      /\ exists' = IF o.clear THEN exists \ {c} ELSE exists \cup {c}
      /\ sign' = IF o.clear THEN sign \ {c} ELSE (sign \ {c}) \cup Negatives(batch)
  BY <1>1, <1>3 DEF setValueBase
<1>5. DOMAIN batch = {c} /\ batch[c] = o.value
  OBVIOUS
<1>6. written \in [Column -> Int \cup {None}] /\ bsig.Base \in Int
  BY DEF BsiInv, BsiType
<1>7. /\ written' \in [Column -> Int \cup {None}]
      /\ \A x \in Column \ {c} : written'[x] = written[x]
      /\ written'[c] = IF o.clear THEN None ELSE o.value + bsig.Base
  BY <1>1, <1>3, <1>6 DEF Holds
<1> HIDE DEF batch, c
<1>8. Negatives(batch) = {x \in {c} : o.value < 0}
  BY <1>5 DEF Negatives
<1>9. /\ \A x \in Column \ {c} : x \in sign' <=> x \in sign
      /\ ~o.clear => (c \in sign' <=> o.value < 0)
  BY <1>4, <1>8
<1> DEFINE clear == o.clear
<1>10. /\ DOMAIN batch \subseteq Column /\ clear \in BOOLEAN
       /\ clear \/ \A x \in DOMAIN batch : Holds(bsig, batch[x])
  BY <1>3, <1>5
<1>11. exists' = IF clear THEN exists \ DOMAIN batch ELSE exists \cup DOMAIN batch
  BY <1>4, <1>5
<1>12. /\ \A x \in Column \ DOMAIN batch : x \in sign' <=> x \in sign
       /\ ~clear => \A x \in DOMAIN batch : x \in sign' <=> batch[x] < 0
  BY <1>5, <1>9
<1>13. /\ \A x \in Column \ DOMAIN batch : written'[x] = written[x]
       /\ \A x \in DOMAIN batch : written'[x] = IF clear THEN None ELSE batch[x] + bsig.Base
  BY <1>5, <1>7
<1> HIDE DEF clear
<1> QED BY <1>1, <1>4, <1>7, <1>10, <1>11, <1>12, <1>13, BatchInv, ZenonT(60)

LEMMA ImportInv ==
    ASSUME BsiInv, OneAtATime, NEW p \in Proc, Import(p)
    PROVE  BsiInv'
<1> DEFINE o == call[p]
           batch == LastWins(o.pairs)
           entries(c) == {i \in DOMAIN o.pairs : o.pairs[i][1] = c}
<1>1. /\ o.pc = "import" /\ importPositions(batch, o.depth, o.clear)
      /\ written' = [c \in Column |->
                 IF entries(c) = {} THEN written[c]
                 ELSE IF o.clear THEN None
                 ELSE o.pairs[Max(entries(c))][2] + bsig.Base]
      /\ call' = [call EXCEPT ![p] = Idle] /\ UNCHANGED bsig
  BY DEF Import
<1>2. CallOK(bsig, o) /\ o # Idle
  BY <1>1 DEF BsiInv, CallInv, Idle
<1> HIDE DEF o
<1>3. /\ o.pairs \in Batches /\ o.clear \in BOOLEAN /\ o.depth = bsig.BitDepth
      /\ \A i \in DOMAIN o.pairs : Holds(bsig, o.pairs[i][2])
  BY <1>1, <1>2 DEF CallOK
<1>4. /\ DOMAIN batch \subseteq Column
      /\ \A c \in Column : c \in DOMAIN batch <=> entries(c) # {}
      /\ \A c \in DOMAIN batch : Max(entries(c)) \in DOMAIN o.pairs /\ batch[c] = o.pairs[Max(entries(c))][2]
  BY <1>3, LastWinsIs
<1>5. /\ PutBits(batch, bsig.BitDepth)
      /\ exists' = IF o.clear THEN exists \ DOMAIN batch ELSE exists \cup DOMAIN batch
      /\ sign' = (sign \ DOMAIN batch) \cup Negatives(batch)
  BY <1>1, <1>3 DEF importPositions
<1>6. written \in [Column -> Int \cup {None}] /\ bsig.Base \in Int
  BY DEF BsiInv, BsiType
<1> HIDE DEF batch, entries
<1>7. \A c \in DOMAIN batch : Holds(bsig, batch[c])
  BY <1>3, <1>4
<1>8. /\ \A c \in Column \ DOMAIN batch : written'[c] = written[c]
      /\ \A c \in DOMAIN batch : written'[c] = IF o.clear THEN None ELSE batch[c] + bsig.Base
  BY <1>1, <1>4
<1>9. written' \in [Column -> Int \cup {None}]
  <2>1. ASSUME NEW c \in Column PROVE written'[c] \in Int \cup {None}
    <3>1. CASE c \in DOMAIN batch
      BY <1>6, <1>7, <1>8, <3>1 DEF Holds
    <3>2. CASE c \notin DOMAIN batch
      BY <1>6, <1>8, <3>2
    <3> QED BY <3>1, <3>2
  <2>2. written' = [c \in Column |-> written'[c]]
    BY <1>1
  <2> QED BY <2>1, <2>2
<1>10. /\ \A c \in Column \ DOMAIN batch : c \in sign' <=> c \in sign
       /\ \A c \in DOMAIN batch : c \in sign' <=> batch[c] < 0
  BY <1>5 DEF Negatives
<1> QED BY <1>1, <1>3, <1>4, <1>5, <1>7, <1>8, <1>9, <1>10, BatchInv

LEMMA ImportValueInv ==
    ASSUME BsiInv, OneAtATime, NEW p \in Proc, NEW pairs \in Batches, NEW clear \in BOOLEAN,
           importValue(p, pairs, clear)
    PROVE  BsiInv'
<1> DEFINE D == {bitDepth(Abs(pairs[i][2])) : i \in DOMAIN pairs}
           required == Max(D)
           E == {required, bsig.BitDepth}
           d == Max(E)
<1>1. /\ UNCHANGED <<exists, sign, bit, written>> /\ bsig' = [bsig EXCEPT !.BitDepth = d]
      /\ call' = [call EXCEPT ![p] = [pc |-> "import", pairs |-> pairs, clear |-> clear, depth |-> d]]
      /\ \A i \in DOMAIN pairs : InRange(pairs[i][2] + bsig.Base)
  BY DEF importValue
<1>2. /\ bsig.Base \in Int /\ bsig.Min \in Int /\ bsig.Max \in Int /\ bsig.BitDepth \in Nat
      /\ bsig.BitDepth <= MaxDepth /\ MaxDepth \in Nat /\ BsiType
  BY BsiAssumption DEF BsiInv, BsiType
<1>3. PICK n \in 1..MaxBatch : pairs \in [1..n -> Column \X ImportValue]
  BY DEF Batches
<1>4. 1 \in DOMAIN pairs /\ \A i \in DOMAIN pairs : pairs[i][2] \in Int
  <2>1. n \in Nat /\ n >= 1 /\ ImportValue \subseteq Int
    BY BsiAssumption
  <2>2. DOMAIN pairs = 1..n /\ 1 \in 1..n
    BY <1>3, <2>1
  <2>3. ASSUME NEW i \in 1..n PROVE pairs[i][2] \in Int
    <3>1. pairs[i] \in Column \X ImportValue
      BY <1>3
    <3> QED BY <2>1, <3>1
  <2> QED BY <2>2, <2>3
<1>5. ASSUME NEW i \in DOMAIN pairs
      PROVE  /\ pairs[i][2] + bsig.Base \in bsig.Min..bsig.Max /\ bitDepth(Abs(pairs[i][2])) \in 0..MaxDepth
             /\ \A e \in Nat : bitDepth(Abs(pairs[i][2])) <= e => Abs(pairs[i][2]) < pow2[e]
  <2>1. pairs[i][2] \in Int /\ pairs[i][2] + bsig.Base \in bsig.Min..bsig.Max
    BY <1>1, <1>2, <1>4 DEF InRange
  <2> QED BY <1>2, <2>1, DepthOfValue
<1>6. required \in D /\ (\A x \in D : x <= required) /\ required \in 0..MaxDepth
  <2>1. \A x \in D : x \in 0..MaxDepth
    BY <1>5
  <2>2. D # {}
    BY <1>4
  <2> HIDE DEF D
  <2>3. D \in SUBSET Int /\ MaxDepth \in Int /\ \A x \in D : x <= MaxDepth
    BY <1>2, <2>1
  <2>4. Max(D) \in D /\ \A x \in D : x <= Max(D)
    BY <2>2, <2>3, MaxOfBounded
  <2> QED BY <2>1, <2>4
<1> HIDE DEF required
<1>7. d \in 0..MaxDepth /\ required <= d /\ bsig.BitDepth <= d
  <2>1. \A x \in E : x \in 0..MaxDepth
    BY <1>2, <1>6
  <2>2. required \in E /\ bsig.BitDepth \in E
    OBVIOUS
  <2> HIDE DEF E
  <2>3. E \in SUBSET Int /\ E # {} /\ MaxDepth \in Int /\ \A x \in E : x <= MaxDepth
    BY <1>2, <2>1, <2>2
  <2>4. Max(E) \in E /\ \A x \in E : x <= Max(E)
    BY <2>3, MaxOfBounded
  <2> QED BY <2>1, <2>2, <2>4
<1> HIDE DEF d, E
<1>8. BsiType' /\ StoredInv' /\ EmptyInv'
  BY <1>1, <1>7, DepthKeeps DEF BsiInv
<1>9. bsig'.Min = bsig.Min /\ bsig'.Max = bsig.Max /\ bsig'.Base = bsig.Base /\ bsig'.BitDepth = d
  BY <1>1 DEF BsiInv, BsiType
<1>10. ASSUME NEW i \in DOMAIN pairs PROVE Holds(bsig', pairs[i][2])
  <2> DEFINE b == bitDepth(Abs(pairs[i][2]))
  <2>1. b \in 0..MaxDepth /\ b <= required
    BY <1>5, <1>6
  <2>2. b <= d /\ d \in Nat
    BY <1>2, <1>6, <1>7, <2>1
  <2>3. Abs(pairs[i][2]) < pow2[d]
    BY <1>5, <2>2
  <2> QED BY <1>4, <1>5, <1>9, <2>3 DEF Holds
<1>11. DOMAIN call' = Proc /\ call'[p] = [pc |-> "import", pairs |-> pairs, clear |-> clear, depth |-> d]
  BY <1>1 DEF BsiInv, CallInv
<1>12. CallOK(bsig', call'[p])
  <2> DEFINE m == call'[p]
  <2>1. m.pc = "import" /\ m.pairs = pairs /\ m.clear = clear /\ m.depth = bsig'.BitDepth
    BY <1>9, <1>11
  <2> HIDE DEF m
  <2>2. CallOK(bsig', m)
    BY <1>10, <2>1 DEF CallOK
  <2> QED BY <2>2 DEF m
<1>13. CallInv'
  BY <1>11, <1>12, OneCall
<1> QED BY <1>8, <1>13 DEF BsiInv

LEMMA RestartInv ==
    ASSUME BsiInv, Restart
    PROVE  BsiInv'
<1> DEFINE used == {i \in DepthRange : bit[i] # {}}
           d == StoredDepth
<1>1. /\ UNCHANGED <<exists, sign, bit, written>> /\ bsig' = [bsig EXCEPT !.BitDepth = d]
      /\ call' = [p \in Proc |-> Idle]
  BY DEF Restart
<1>2. MaxDepth \in Nat /\ BsiType /\ bsig.BitDepth \in Nat /\ bsig.BitDepth <= MaxDepth
  BY BsiAssumption DEF BsiInv, BsiType
<1>3. d = IF used = {} THEN 0 ELSE Max(used) + 1
  BY DEF StoredDepth
<1>4. d \in 0..MaxDepth /\ \A i \in DepthRange : i >= d => bit[i] = {}
  <2>1. CASE used = {}
    BY <1>2, <1>3, <2>1
  <2>2. CASE used # {}
    <3>1. used \in SUBSET Int /\ \A i \in used : i <= MaxDepth - 1 /\ i \in 0..(MaxDepth - 1)
      BY <1>2 DEF DepthRange
    <3> DEFINE S == used
               b == MaxDepth - 1
    <3>2. S \in SUBSET Int /\ S # {} /\ b \in Int /\ \A x \in S : x <= b
      BY <1>2, <2>2, <3>1
    <3> HIDE DEF S, b
    <3>3. Max(S) \in S /\ \A x \in S : x <= Max(S)
      BY <3>2, MaxOfBounded
    <3>4. Max(used) \in 0..(MaxDepth - 1) /\ \A x \in used : x <= Max(used)
      BY <3>1, <3>3 DEF S
    <3> DEFINE m == Max(used)
    <3>5. d = m + 1 /\ m \in 0..(MaxDepth - 1)
      BY <1>3, <2>2, <3>4
    <3>6. ASSUME NEW i \in DepthRange, i >= d PROVE bit[i] = {}
      <4>1. i \in Nat /\ ~(i <= m)
        BY <1>2, <3>5, <3>6 DEF DepthRange
      <4> HIDE DEF m
      <4>2. i \notin used
        BY <3>4, <4>1 DEF m
      <4> QED BY <4>2
    <3> HIDE DEF m
    <3>7. d \in 0..MaxDepth
      BY <1>2, <3>5
    <3> QED BY <3>6, <3>7
  <2> QED BY <2>1, <2>2
<1> HIDE DEF d
<1>5. /\ bsig'.Min = bsig.Min /\ bsig'.Max = bsig.Max /\ bsig'.Base = bsig.Base /\ bsig'.BitDepth = d
      /\ bsig' \in [Min : Int, Max : Int, Base : Int, BitDepth : 0..MaxDepth]
      /\ d \in Nat /\ bsig.Base \in Int /\ bsig.Min \in Int /\ bsig.Max \in Int
  BY <1>1, <1>2, <1>4 DEF BsiType
<1>6. BsiType'
  BY <1>1, <1>2, <1>5 DEF BsiType
<1>7. EmptyInv'
  BY <1>1, <1>4, <1>5 DEF EmptyInv
<1>8. ASSUME NEW c \in Column, c \in exists PROVE Stored(c)'
  <2> DEFINE u == Unsigned(c)
  <2>1. Stored(c)
    BY <1>8 DEF BsiInv, StoredInv
  <2>2. Unsigned(c)' = u
    BY <1>1, <1>5 DEF Unsigned
  <2>3. written[c] \in Int
    BY <1>5, <2>1 DEF Stored
  <2>4. u \in Nat /\ u < pow2[bsig.BitDepth] /\ \A i \in DepthRange : c \in bit[i] <=> BitOf(u, i) = 1
    BY <1>5, <2>1, <2>3, AbsNat DEF Unsigned, Stored
  <2> HIDE DEF u
  <2>5. Shr(u, MaxDepth) = 0 /\ Shr(0, MaxDepth) = 0
    BY <1>2, <2>4, HighBitsZero, ZeroBits
  <2>6. ASSUME NEW j \in d..(MaxDepth - 1) PROVE BitOf(u, j) = BitOf(0, j)
    <3>1. j \in DepthRange /\ j >= d /\ j \in Nat
      BY <1>2, <1>5 DEF DepthRange
    <3>2. c \notin bit[j]
      BY <1>4, <3>1
    <3>3. BitOf(u, j) # 1 /\ BitOf(u, j) \in {0, 1} /\ BitOf(0, j) = 0
      BY <2>4, <3>1, <3>2, ShrStep, ZeroBits
    <3> QED BY <3>3
  <2>7. Shr(u, d) = Shr(0, d)
    BY <1>2, <1>4, <2>4, <2>5, <2>6, ShrSameFrom
  <2>8. u < pow2[d]
    BY <1>5, <2>4, <2>7, ZeroBits, Fits
  <2> QED BY <1>1, <1>5, <2>1, <2>2, <2>4, <2>8 DEF Stored
<1>9. StoredInv'
  BY <1>1, <1>8 DEF BsiInv, StoredInv
<1>10. CallInv'
  BY <1>1 DEF CallInv, CallOK
<1> QED BY <1>6, <1>7, <1>9, <1>10 DEF BsiInv

LEMMA NextInv ==
    ASSUME BsiInv, OneAtATime, [Next]_vars
    PROVE  BsiInv'
<1>1. ASSUME NEW p \in Proc, NEW c \in Column, NEW v \in bsig.Min..bsig.Max, SetValue(p, c, v)
      PROVE  BsiInv'
  BY <1>1, SetValueInv
<1>2. ASSUME NEW p \in Proc, NEW c \in Column, ClearValue(p, c) PROVE BsiInv'
  BY <1>2, ClearValueInv
<1>3. ASSUME NEW p \in Proc, Raise(p) PROVE BsiInv'
  BY <1>3, RaiseInv
<1>4. ASSUME NEW p \in Proc, ReadDepth(p) PROVE BsiInv'
  BY <1>4, ReadDepthInv
<1>5. ASSUME NEW p \in Proc, Write(p) PROVE BsiInv'
  BY <1>5, WriteInv
<1>6. ASSUME NEW p \in Proc, NEW s \in Batches, NEW clear \in BOOLEAN, importValue(p, s, clear)
      PROVE  BsiInv'
  BY <1>6, ImportValueInv
<1>7. ASSUME NEW p \in Proc, Import(p) PROVE BsiInv'
  BY <1>7, ImportInv
<1>8. CASE Restart
  BY <1>8, RestartInv
<1>9. CASE UNCHANGED vars
  BY <1>9 DEF vars, BsiInv, BsiType, StoredInv, Stored, Unsigned, EmptyInv, CallInv
<1> QED BY <1>1, <1>2, <1>3, <1>4, <1>5, <1>6, <1>7, <1>8, <1>9 DEF Next

\* What the invariant says of the value that view.value sums up.
LEMMA ValueIs ==
    ASSUME BsiInv, NEW c \in Column
    PROVE  /\ c \in exists => /\ value(c, bsig.BitDepth) = written[c] - bsig.Base
                              /\ written[c] \in Int /\ bsig.Base \in Int
           /\ c \notin exists => value(c, bsig.BitDepth) = None /\ written[c] = None
<1>1. CASE c \notin exists
  BY <1>1 DEF BsiInv, StoredInv, value
<1>2. CASE c \in exists
  <2> DEFINE d == bsig.BitDepth
             u == Unsigned(c)
  <2>1. Stored(c)
    BY <1>2 DEF BsiInv, StoredInv
  <2>2. /\ bsig.Base \in Int /\ bsig.Min \in Int /\ bsig.Max \in Int /\ d \in 0..MaxDepth
        /\ MaxDepth \in Nat
    BY BsiAssumption DEF BsiInv, BsiType
  <2>3. written[c] \in Int
    BY <2>1, <2>2 DEF Stored
  <2>4. u \in Nat /\ u < pow2[d] /\ \A i \in 0..(d - 1) : c \in bit[i] <=> BitOf(u, i) = 1
    <3>1. 0..(d - 1) \subseteq DepthRange
      BY <2>2 DEF DepthRange
    <3> QED BY <2>1, <2>2, <2>3, <3>1, AbsNat DEF Stored, Unsigned
  <2>5. d \in Nat /\ RowsHold(c, u, d)
    BY <2>2, <2>4 DEF RowsHold
  <2>6. u = Abs(written[c] - bsig.Base) /\ (c \in sign <=> written[c] < bsig.Base)
    BY <2>1 DEF Stored, Unsigned
  <2> HIDE DEF u, d
  <2>7. value(c, d) = IF c \in sign THEN -u ELSE u
    BY <1>2, <2>4, <2>5, ValueSum
  <2>8. (IF c \in sign THEN -u ELSE u) = written[c] - bsig.Base
    BY <2>2, <2>3, <2>6 DEF Abs
  <2> QED BY <1>2, <2>2, <2>3, <2>7, <2>8 DEF d
<1> QED BY <1>1, <1>2

\* While requests do not overlap, the rows of every column hold the bits of its
\* value, no bit is set above the rows in use, and a request that has compared its
\* value with BitDepth (SetValue, importValue) writes with a depth that holds it.
THEOREM SpecBsiInv ==
    ASSUME OneAtATime PROVE Spec => []BsiInv
<1>1. Init => BsiInv
  BY BsiInit
<1>2. BsiInv /\ [Next]_vars => BsiInv'
  BY NextInv
<1> QED BY <1>1, <1>2, PTL DEF Spec

LEMMA InvValuesKept == BsiInv => ValuesKept
<1> SUFFICES ASSUME BsiInv, NEW c \in Column
             PROVE  LET v == value(c, bsig.BitDepth)
                    IN  (IF v = None THEN None ELSE v + bsig.Base) = written[c]
  BY DEF ValuesKept
<1> DEFINE v == value(c, bsig.BitDepth)
<1>1. /\ c \in exists => v = written[c] - bsig.Base /\ written[c] \in Int /\ bsig.Base \in Int
      /\ c \notin exists => v = None /\ written[c] = None
  BY ValueIs
<1> HIDE DEF v
<1>2. CASE c \in exists
  <2>1. v \in Int /\ v + bsig.Base = written[c] /\ None \notin Int
    BY <1>1, <1>2, BsiAssumption
  <2>2. v # None
    BY <2>1
  <2> QED BY <2>1, <2>2 DEF v
<1>3. CASE c \notin exists
  BY <1>1, <1>3 DEF v
<1> QED BY <1>2, <1>3

\* While requests do not overlap, Field.Value returns for every column what the
\* last SetValue, ClearValue or import of it asked for: over growing depths, over
\* columns that were cleared and set again, and over restarts, which take the depth
\* from the rows (setFieldBitDepths).
THEOREM ValuesKeptHolds ==
    ASSUME OneAtATime PROVE Spec => []ValuesKept
<1>1. Spec => []BsiInv
  BY SpecBsiInv
<1> QED BY <1>1, InvValuesKept, PTL

-----------------------------------------------------------------------------
(* The loops over the rows *)

\* g records the columns that are left in each round of MatchRows.
IsMatchRun(g, u, columns, top, low) ==
    /\ g \in [0..(top - low) -> SUBSET columns] /\ g[0] = columns
    /\ \A k \in 1..(top - low) : g[k - 1] \in SUBSET columns /\ g[k] = IF BitOf(u, top - k) = 1 THEN g[k - 1] \cap bit[top - k] ELSE g[k - 1] \ bit[top - k]
    /\ MatchRows(u, columns, top, low) = g[top - low]

LEMMA MatchRun ==
    ASSUME NEW u \in Nat, NEW columns, NEW top \in Nat, NEW low \in 0..top
    PROVE  \E g : IsMatchRun(g, u, columns, top, low)
<1> DEFINE m == top - low
           S == SUBSET columns
           s0 == columns
           Round(x, k) == IF BitOf(u, top - k) = 1 THEN x \cap bit[top - k] ELSE x \ bit[top - k]
           F == CHOOSE f : f = [k \in 0..m |-> IF k = 0 THEN s0 ELSE Round(f[k - 1], k)]
           step == [k \in 1..m |-> [x \in S |-> Round(x, k)]]
<1>1. MatchRows(u, columns, top, low) = F[m]
  BY DEF MatchRows, ForRows
<1>2. m \in Nat
  OBVIOUS
<1>3. s0 \in S
  OBVIOUS
<1>4. ASSUME NEW x \in S, NEW k \in 1..m PROVE Round(x, k) \in S
  OBVIOUS
<1>5. m = top - low /\ S = SUBSET columns /\ s0 = columns /\ \A x, k : Round(x, k) = IF BitOf(u, top - k) = 1 THEN x \cap bit[top - k] ELSE x \ bit[top - k]
  OBVIOUS
<1> HIDE DEF m, S, s0, Round, F
<1>6. step \in [1..m -> [S -> S]]
  BY <1>4
<1>7. PICK g : IsRun(g, S, m, s0, step)
  <2> HIDE DEF step
  <2> QED BY <1>2, <1>3, <1>6, RunExists
<1>8. /\ g \in [0..m -> S] /\ g[0] = s0
      /\ \A k \in 1..m : g[k - 1] \in S /\ g[k] = Round(g[k - 1], k)
  <2>1. g \in [0..m -> S] /\ g[0] = s0 /\ \A k \in 1..m : g[k] = step[k][g[k - 1]]
    BY <1>7 DEF IsRun
  <2>2. \A k \in 1..m : g[k - 1] \in S
    BY <1>2, <2>1
  <2> QED BY <2>1, <2>2
<1>9. g = [k \in 0..m |-> IF k = 0 THEN s0 ELSE Round(g[k - 1], k)]
  BY <1>2, <1>8
<1>10. F = [k \in 0..m |-> IF k = 0 THEN s0 ELSE Round(F[k - 1], k)]
  BY <1>9 DEF F
<1>11. \A k \in 0..m : F[k] = g[k]
  <2>1. Obeys(F, S, m, s0, step)
    BY <1>2, <1>10 DEF Obeys
  <2> HIDE DEF step
  <2> QED BY <1>2, <1>7, <2>1, RunUnique
<1>12. MatchRows(u, columns, top, low) = g[m]
  BY <1>1, <1>2, <1>11
<1>13. IsMatchRun(g, u, columns, top, low)
  BY <1>5, <1>8, <1>12 DEF IsMatchRun
<1> QED BY <1>13

LTLoop(filter, top, u) == ForRows(LTNext, [matched |-> {}, remaining |-> filter, u |-> u], top, 0)

\* g records the rounds of rangeLTUnsigned.
IsLTRun(g, filter, top, u) ==
    /\ g \in [0..(top - 0) -> [matched : SUBSET filter, remaining : SUBSET filter, u : Int]] /\ g[0] = [matched |-> {}, remaining |-> filter, u |-> u]
    /\ \A k \in 1..(top - 0) : g[k - 1] \in [matched : SUBSET filter, remaining : SUBSET filter, u : Int] /\ g[k] = LTNext(g[k - 1], top - k)
    /\ LTLoop(filter, top, u) = g[top - 0]

LEMMA LTRun ==
    ASSUME NEW filter, NEW top \in Nat, NEW u \in Int
    PROVE  \E g : IsLTRun(g, filter, top, u)
<1> DEFINE m == top - 0
           S == [matched : SUBSET filter, remaining : SUBSET filter, u : Int]
           s0 == [matched |-> {}, remaining |-> filter, u |-> u]
           Round(x, k) == LTNext(x, top - k)
           F == CHOOSE f : f = [k \in 0..m |-> IF k = 0 THEN s0 ELSE Round(f[k - 1], k)]
           step == [k \in 1..m |-> [x \in S |-> Round(x, k)]]
<1>1. LTLoop(filter, top, u) = F[m]
  BY DEF LTLoop, ForRows
<1>2. m \in Nat
  OBVIOUS
<1>3. s0 \in S
  OBVIOUS
<1>4. ASSUME NEW x \in S, NEW k \in 1..m PROVE Round(x, k) \in S
  <2> DEFINE i == top - k
             zeroes == x.remaining \ bit[i]
  <2>1. pow2[i] \in Int /\ x.matched \in SUBSET filter /\ x.remaining \in SUBSET filter /\ x.u \in Int
    BY Pow2Def
  <2>2. LTNext(x, i) \in {x, [x EXCEPT !.matched = @ \cup zeroes, !.u = @ - pow2[i]], [x EXCEPT !.remaining = zeroes]}
    BY DEF LTNext
  <2>3. zeroes \in SUBSET filter /\ (x.matched \cup zeroes) \in SUBSET filter /\ x.u - pow2[i] \in Int
    BY <2>1
  <2> HIDE DEF i, zeroes
  <2>4. LTNext(x, i) \in S
    BY <2>2, <2>3
  <2> QED BY <2>4 DEF i
<1>5. m = top - 0 /\ S = [matched : SUBSET filter, remaining : SUBSET filter, u : Int] /\ s0 = [matched |-> {}, remaining |-> filter, u |-> u] /\ \A x, k : Round(x, k) = LTNext(x, top - k)
  OBVIOUS
<1> HIDE DEF m, S, s0, Round, F
<1>6. step \in [1..m -> [S -> S]]
  BY <1>4
<1>7. PICK g : IsRun(g, S, m, s0, step)
  <2> HIDE DEF step
  <2> QED BY <1>2, <1>3, <1>6, RunExists
<1>8. /\ g \in [0..m -> S] /\ g[0] = s0
      /\ \A k \in 1..m : g[k - 1] \in S /\ g[k] = Round(g[k - 1], k)
  <2>1. g \in [0..m -> S] /\ g[0] = s0 /\ \A k \in 1..m : g[k] = step[k][g[k - 1]]
    BY <1>7 DEF IsRun
  <2>2. \A k \in 1..m : g[k - 1] \in S
    BY <1>2, <2>1
  <2> QED BY <2>1, <2>2
<1>9. g = [k \in 0..m |-> IF k = 0 THEN s0 ELSE Round(g[k - 1], k)]
  BY <1>2, <1>8
<1>10. F = [k \in 0..m |-> IF k = 0 THEN s0 ELSE Round(F[k - 1], k)]
  BY <1>9 DEF F
<1>11. \A k \in 0..m : F[k] = g[k]
  <2>1. Obeys(F, S, m, s0, step)
    BY <1>2, <1>10 DEF Obeys
  <2> HIDE DEF step
  <2> QED BY <1>2, <1>7, <2>1, RunUnique
<1>12. LTLoop(filter, top, u) = g[m]
  BY <1>1, <1>2, <1>11
<1>13. IsLTRun(g, filter, top, u)
  BY <1>5, <1>8, <1>12 DEF IsLTRun
<1> QED BY <1>13

GTLoop(filter, top, u) == ForRows(GTNext, [matched |-> {}, remaining |-> filter, u |-> u, max |-> pow2[top] - 1], top, 0)

\* g records the rounds of rangeGTUnsigned.
IsGTRun(g, filter, top, u) ==
    /\ g \in [0..(top - 0) -> [matched : SUBSET filter, remaining : SUBSET filter, u : Int, max : {pow2[top] - 1}]] /\ g[0] = [matched |-> {}, remaining |-> filter, u |-> u, max |-> pow2[top] - 1]
    /\ \A k \in 1..(top - 0) : g[k - 1] \in [matched : SUBSET filter, remaining : SUBSET filter, u : Int, max : {pow2[top] - 1}] /\ g[k] = GTNext(g[k - 1], top - k)
    /\ GTLoop(filter, top, u) = g[top - 0]

LEMMA GTRun ==
    ASSUME NEW filter, NEW top \in Nat, NEW u \in Int
    PROVE  \E g : IsGTRun(g, filter, top, u)
<1> DEFINE m == top - 0
           S == [matched : SUBSET filter, remaining : SUBSET filter, u : Int, max : {pow2[top] - 1}]
           s0 == [matched |-> {}, remaining |-> filter, u |-> u, max |-> pow2[top] - 1]
           Round(x, k) == GTNext(x, top - k)
           F == CHOOSE f : f = [k \in 0..m |-> IF k = 0 THEN s0 ELSE Round(f[k - 1], k)]
           step == [k \in 1..m |-> [x \in S |-> Round(x, k)]]
<1>1. GTLoop(filter, top, u) = F[m]
  BY DEF GTLoop, ForRows
<1>2. m \in Nat
  OBVIOUS
<1>3. s0 \in S
  OBVIOUS
<1>4. ASSUME NEW x \in S, NEW k \in 1..m PROVE Round(x, k) \in S
  <2> DEFINE i == top - k
             ones == x.remaining \cap bit[i]
  <2>1. pow2[i] \in Int /\ x.matched \in SUBSET filter /\ x.remaining \in SUBSET filter /\ x.u \in Int
    BY Pow2Def
  <2>2. GTNext(x, i) \in {x, [x EXCEPT !.remaining = ones], [x EXCEPT !.matched = @ \cup ones, !.u = @ + pow2[i]]}
    BY DEF GTNext
  <2>3. ones \in SUBSET filter /\ (x.matched \cup ones) \in SUBSET filter /\ x.u + pow2[i] \in Int
    BY <2>1
  <2> HIDE DEF i, ones
  <2>4. GTNext(x, i) \in S
    BY <2>2, <2>3
  <2> QED BY <2>4 DEF i
<1>5. m = top - 0 /\ S = [matched : SUBSET filter, remaining : SUBSET filter, u : Int, max : {pow2[top] - 1}] /\ s0 = [matched |-> {}, remaining |-> filter, u |-> u, max |-> pow2[top] - 1] /\ \A x, k : Round(x, k) = GTNext(x, top - k)
  OBVIOUS
<1> HIDE DEF m, S, s0, Round, F
<1>6. step \in [1..m -> [S -> S]]
  BY <1>4
<1>7. PICK g : IsRun(g, S, m, s0, step)
  <2> HIDE DEF step
  <2> QED BY <1>2, <1>3, <1>6, RunExists
<1>8. /\ g \in [0..m -> S] /\ g[0] = s0
      /\ \A k \in 1..m : g[k - 1] \in S /\ g[k] = Round(g[k - 1], k)
  <2>1. g \in [0..m -> S] /\ g[0] = s0 /\ \A k \in 1..m : g[k] = step[k][g[k - 1]]
    BY <1>7 DEF IsRun
  <2>2. \A k \in 1..m : g[k - 1] \in S
    BY <1>2, <2>1
  <2> QED BY <2>1, <2>2
<1>9. g = [k \in 0..m |-> IF k = 0 THEN s0 ELSE Round(g[k - 1], k)]
  BY <1>2, <1>8
<1>10. F = [k \in 0..m |-> IF k = 0 THEN s0 ELSE Round(F[k - 1], k)]
  BY <1>9 DEF F
<1>11. \A k \in 0..m : F[k] = g[k]
  <2>1. Obeys(F, S, m, s0, step)
    BY <1>2, <1>10 DEF Obeys
  <2> HIDE DEF step
  <2> QED BY <1>2, <1>7, <2>1, RunUnique
<1>12. GTLoop(filter, top, u) = g[m]
  BY <1>1, <1>2, <1>11
<1>13. IsGTRun(g, filter, top, u)
  BY <1>5, <1>8, <1>12 DEF IsGTRun
<1> QED BY <1>13

MinLoop(filter, top) == ForRows(MinNext, [val |-> 0, filter |-> filter], top, 0)

\* g records the rounds of minUnsigned.
IsMinRun(g, filter, top) ==
    /\ g \in [0..(top - 0) -> [val : Int, filter : SUBSET filter]] /\ g[0] = [val |-> 0, filter |-> filter]
    /\ \A k \in 1..(top - 0) : g[k - 1] \in [val : Int, filter : SUBSET filter] /\ g[k] = MinNext(g[k - 1], top - k)
    /\ MinLoop(filter, top) = g[top - 0]

LEMMA MinRun ==
    ASSUME NEW filter, NEW top \in Nat
    PROVE  \E g : IsMinRun(g, filter, top)
<1> DEFINE m == top - 0
           S == [val : Int, filter : SUBSET filter]
           s0 == [val |-> 0, filter |-> filter]
           Round(x, k) == MinNext(x, top - k)
           F == CHOOSE f : f = [k \in 0..m |-> IF k = 0 THEN s0 ELSE Round(f[k - 1], k)]
           step == [k \in 1..m |-> [x \in S |-> Round(x, k)]]
<1>1. MinLoop(filter, top) = F[m]
  BY DEF MinLoop, ForRows
<1>2. m \in Nat
  OBVIOUS
<1>3. s0 \in S
  OBVIOUS
<1>4. ASSUME NEW x \in S, NEW k \in 1..m PROVE Round(x, k) \in S
  <2>1. top - k \in Nat /\ pow2[top - k] \in Int
    BY Pow2Def
  <2> DEFINE i == top - k
  <2> HIDE DEF i
  <2>2. MinNext(x, i) \in S
    BY <2>1 DEF MinNext, i
  <2> QED BY <2>2 DEF i
<1>5. m = top - 0 /\ S = [val : Int, filter : SUBSET filter] /\ s0 = [val |-> 0, filter |-> filter] /\ \A x, k : Round(x, k) = MinNext(x, top - k)
  OBVIOUS
<1> HIDE DEF m, S, s0, Round, F
<1>6. step \in [1..m -> [S -> S]]
  BY <1>4
<1>7. PICK g : IsRun(g, S, m, s0, step)
  <2> HIDE DEF step
  <2> QED BY <1>2, <1>3, <1>6, RunExists
<1>8. /\ g \in [0..m -> S] /\ g[0] = s0
      /\ \A k \in 1..m : g[k - 1] \in S /\ g[k] = Round(g[k - 1], k)
  <2>1. g \in [0..m -> S] /\ g[0] = s0 /\ \A k \in 1..m : g[k] = step[k][g[k - 1]]
    BY <1>7 DEF IsRun
  <2>2. \A k \in 1..m : g[k - 1] \in S
    BY <1>2, <2>1
  <2> QED BY <2>1, <2>2
<1>9. g = [k \in 0..m |-> IF k = 0 THEN s0 ELSE Round(g[k - 1], k)]
  BY <1>2, <1>8
<1>10. F = [k \in 0..m |-> IF k = 0 THEN s0 ELSE Round(F[k - 1], k)]
  BY <1>9 DEF F
<1>11. \A k \in 0..m : F[k] = g[k]
  <2>1. Obeys(F, S, m, s0, step)
    BY <1>2, <1>10 DEF Obeys
  <2> HIDE DEF step
  <2> QED BY <1>2, <1>7, <2>1, RunUnique
<1>12. MinLoop(filter, top) = g[m]
  BY <1>1, <1>2, <1>11
<1>13. IsMinRun(g, filter, top)
  BY <1>5, <1>8, <1>12 DEF IsMinRun
<1> QED BY <1>13

MaxLoop(filter, top) == ForRows(MaxNext, [val |-> 0, filter |-> filter], top, 0)

\* g records the rounds of maxUnsigned.
IsMaxRun(g, filter, top) ==
    /\ g \in [0..(top - 0) -> [val : Int, filter : SUBSET filter]] /\ g[0] = [val |-> 0, filter |-> filter]
    /\ \A k \in 1..(top - 0) : g[k - 1] \in [val : Int, filter : SUBSET filter] /\ g[k] = MaxNext(g[k - 1], top - k)
    /\ MaxLoop(filter, top) = g[top - 0]

LEMMA MaxRun ==
    ASSUME NEW filter, NEW top \in Nat
    PROVE  \E g : IsMaxRun(g, filter, top)
<1> DEFINE m == top - 0
           S == [val : Int, filter : SUBSET filter]
           s0 == [val |-> 0, filter |-> filter]
           Round(x, k) == MaxNext(x, top - k)
           F == CHOOSE f : f = [k \in 0..m |-> IF k = 0 THEN s0 ELSE Round(f[k - 1], k)]
           step == [k \in 1..m |-> [x \in S |-> Round(x, k)]]
<1>1. MaxLoop(filter, top) = F[m]
  BY DEF MaxLoop, ForRows
<1>2. m \in Nat
  OBVIOUS
<1>3. s0 \in S
  OBVIOUS
<1>4. ASSUME NEW x \in S, NEW k \in 1..m PROVE Round(x, k) \in S
  <2>1. top - k \in Nat /\ pow2[top - k] \in Int
    BY Pow2Def
  <2> DEFINE i == top - k
  <2> HIDE DEF i
  <2>2. MaxNext(x, i) \in S
    BY <2>1 DEF MaxNext, i
  <2> QED BY <2>2 DEF i
<1>5. m = top - 0 /\ S = [val : Int, filter : SUBSET filter] /\ s0 = [val |-> 0, filter |-> filter] /\ \A x, k : Round(x, k) = MaxNext(x, top - k)
  OBVIOUS
<1> HIDE DEF m, S, s0, Round, F
<1>6. step \in [1..m -> [S -> S]]
  BY <1>4
<1>7. PICK g : IsRun(g, S, m, s0, step)
  <2> HIDE DEF step
  <2> QED BY <1>2, <1>3, <1>6, RunExists
<1>8. /\ g \in [0..m -> S] /\ g[0] = s0
      /\ \A k \in 1..m : g[k - 1] \in S /\ g[k] = Round(g[k - 1], k)
  <2>1. g \in [0..m -> S] /\ g[0] = s0 /\ \A k \in 1..m : g[k] = step[k][g[k - 1]]
    BY <1>7 DEF IsRun
  <2>2. \A k \in 1..m : g[k - 1] \in S
    BY <1>2, <2>1
  <2> QED BY <2>1, <2>2
<1>9. g = [k \in 0..m |-> IF k = 0 THEN s0 ELSE Round(g[k - 1], k)]
  BY <1>2, <1>8
<1>10. F = [k \in 0..m |-> IF k = 0 THEN s0 ELSE Round(F[k - 1], k)]
  BY <1>9 DEF F
<1>11. \A k \in 0..m : F[k] = g[k]
  <2>1. Obeys(F, S, m, s0, step)
    BY <1>2, <1>10 DEF Obeys
  <2> HIDE DEF step
  <2> QED BY <1>2, <1>7, <2>1, RunUnique
<1>12. MaxLoop(filter, top) = g[m]
  BY <1>1, <1>2, <1>11
<1>13. IsMaxRun(g, filter, top)
  BY <1>5, <1>8, <1>12 DEF IsMaxRun
<1> QED BY <1>13

-----------------------------------------------------------------------------
(* What the loops compute *)

\* The rows hold the numbers val of the columns.
RowsVal(columns, val, depth) ==
    \A c \in columns : val[c] \in Nat /\ val[c] < pow2[depth] /\ RowsHold(c, val[c], depth)

\* One more row: the next bit of the number of each column.
LEMMA NextRow ==
    ASSUME NEW columns, NEW val, NEW top \in Nat, RowsVal(columns, val, top), NEW i \in 0..(top - 1),
           NEW c \in columns
    PROVE  /\ Shr(val[c], i) \in Nat /\ Shr(val[c], i + 1) \in Nat
           /\ Shr(val[c], i) = 2 * Shr(val[c], i + 1) + BitOf(val[c], i)
           /\ BitOf(val[c], i) \in {0, 1}
           /\ c \in bit[i] <=> BitOf(val[c], i) = 1
<1>1. val[c] \in Nat /\ RowsHold(c, val[c], top) /\ i \in Nat
  BY DEF RowsVal
<1>2. /\ Shr(val[c], i) \in Nat /\ Shr(val[c], i + 1) \in Nat
      /\ Shr(val[c], i) = 2 * Shr(val[c], i + 1) + BitOf(val[c], i)
      /\ BitOf(val[c], i) \in {0, 1}
  BY <1>1, ShrStep
<1>3. c \in bit[i] <=> BitOf(val[c], i) = 1
  BY <1>1 DEF RowsHold
<1> QED BY <1>2, <1>3

\* The same for the predicate.
LEMMA NextDigit ==
    ASSUME NEW u \in Nat, NEW i \in Nat
    PROVE  /\ Shr(u, i) \in Nat /\ Shr(u, i + 1) \in Nat
           /\ Shr(u, i) = 2 * Shr(u, i + 1) + BitOf(u, i)
           /\ BitOf(u, i) \in {0, 1}
BY ShrStep

\* The columns that have the bits of u from low up.
LEMMA MatchIs ==
    ASSUME NEW u \in Nat, NEW columns, NEW val, NEW top \in Nat, NEW low \in 0..top,
           RowsVal(columns, val, top), u < pow2[top]
    PROVE  MatchRows(u, columns, top, low) = {c \in columns : Shr(val[c], low) = Shr(u, low)}
<1>1. PICK g : IsMatchRun(g, u, columns, top, low)
  BY MatchRun
<1> DEFINE n == top - low
           Same(k, i) == \A c \in columns : c \in g[k] <=> Shr(val[c], i) = Shr(u, i)
           B == {k \in 0..n : Same(k, top - k)}
<1>2. /\ g[0] = columns /\ MatchRows(u, columns, top, low) = g[n]
      /\ \A k \in 1..n : g[k] = IF BitOf(u, top - k) = 1 THEN g[k - 1] \cap bit[top - k] ELSE g[k - 1] \ bit[top - k]
      /\ g \in [0..n -> SUBSET columns]
  BY <1>1 DEF IsMatchRun
<1>3. 0 \in B
  <2>1. 0 \in 0..n /\ top - 0 = top
    OBVIOUS
  <2>2. ASSUME NEW c \in columns PROVE Shr(val[c], top) = 0 /\ Shr(u, top) = 0
    BY Fits DEF RowsVal
  <2> QED BY <1>2, <2>1, <2>2
<1>4. ASSUME NEW k \in 1..n, k - 1 \in B PROVE k \in B
  <2> DEFINE i == top - k
  <2>1. k \in 0..n /\ i \in 0..(top - 1) /\ i \in Nat /\ top - (k - 1) = i + 1
    OBVIOUS
  <2>2. Same(k - 1, i + 1)
    <3>1. Same(k - 1, top - (k - 1))
      BY <1>4
    <3> HIDE DEF i, Same
    <3> QED BY <2>1, <3>1
  <2>3. g[k] = IF BitOf(u, i) = 1 THEN g[k - 1] \cap bit[i] ELSE g[k - 1] \ bit[i]
    BY <1>2
  <2> HIDE DEF i
  <2>4. ASSUME NEW c \in columns PROVE c \in g[k] <=> Shr(val[c], i) = Shr(u, i)
    <3>1. c \in g[k - 1] <=> Shr(val[c], i + 1) = Shr(u, i + 1)
      BY <2>2
    <3>2. /\ Shr(val[c], i) \in Nat /\ Shr(val[c], i + 1) \in Nat
          /\ Shr(val[c], i) = 2 * Shr(val[c], i + 1) + BitOf(val[c], i)
          /\ BitOf(val[c], i) \in {0, 1}
          /\ c \in bit[i] <=> BitOf(val[c], i) = 1
      BY <2>1, NextRow
    <3>3. /\ Shr(u, i) \in Nat /\ Shr(u, i + 1) \in Nat
          /\ Shr(u, i) = 2 * Shr(u, i + 1) + BitOf(u, i)
          /\ BitOf(u, i) \in {0, 1}
      BY <2>1, NextDigit
    <3>4. c \in g[k] <=> c \in g[k - 1] /\ BitOf(val[c], i) = BitOf(u, i)
      BY <2>3, <3>2, <3>3
    <3>5. Shr(val[c], i) = Shr(u, i) <=> Shr(val[c], i + 1) = Shr(u, i + 1) /\ BitOf(val[c], i) = BitOf(u, i)
      BY <3>2, <3>3
    <3> QED BY <3>1, <3>4, <3>5
  <2>5. Same(k, i)
    BY <2>4
  <2> HIDE DEF Same
  <2> QED BY <2>1, <2>5 DEF i
<1>5. n \in B
  <2>1. n \in Nat /\ n \in 0..n
    OBVIOUS
  <2> HIDE DEF B, n
  <2>2. \A k \in 0..n : k \in B
    BY <1>3, <1>4, <2>1, SetInduction
  <2> QED BY <2>1, <2>2
<1>6. top - n = low /\ g[n] \subseteq columns
  BY <1>2
<1> QED BY <1>2, <1>5, <1>6

\* What rangeLTUnsigned knows after the rows from i up.
LTKnows(s, filter, val, u, i) ==
    /\ \A c \in filter : c \in s.matched <=> Shr(val[c], i) < Shr(u, i)
    /\ \A c \in filter : Shr(val[c], i) = Shr(u, i) => c \in s.remaining
    /\ \/ s.remaining = {}
       \/ /\ s.u = LowBits(u, i)
          /\ s.u = 0 \/ \A c \in s.remaining : Shr(val[c], i) <= Shr(u, i)

\* A round keeps that.
LEMMA LTRound ==
    ASSUME NEW filter, NEW val, NEW top \in Nat, RowsVal(filter, val, top), NEW u \in Nat,
           NEW i \in 0..(top - 1),
           NEW s \in [matched : SUBSET filter, remaining : SUBSET filter, u : Int],
           LTKnows(s, filter, val, u, i + 1)
    PROVE  LTKnows(LTNext(s, i), filter, val, u, i)
<1> DEFINE zeroes == s.remaining \ bit[i]
           t == LTNext(s, i)
           a(c) == Shr(val[c], i + 1)
           A == Shr(u, i + 1)
           b == BitOf(u, i)
<1>1. i \in Nat /\ s.matched \subseteq filter /\ s.remaining \subseteq filter
  OBVIOUS
<1>2. A \in Nat /\ Shr(u, i) = 2 * A + b /\ b \in {0, 1}
  BY <1>1, NextDigit
<1>3. ASSUME NEW c \in filter
      PROVE  /\ a(c) \in Nat
             /\ \/ c \in bit[i] /\ Shr(val[c], i) = 2 * a(c) + 1
                \/ c \notin bit[i] /\ Shr(val[c], i) = 2 * a(c)
  <2>1. /\ Shr(val[c], i) \in Nat /\ Shr(val[c], i + 1) \in Nat
        /\ Shr(val[c], i) = 2 * Shr(val[c], i + 1) + BitOf(val[c], i)
        /\ BitOf(val[c], i) \in {0, 1}
        /\ c \in bit[i] <=> BitOf(val[c], i) = 1
    BY NextRow
  <2> QED BY <2>1
<1>4. /\ \A c \in filter : c \in s.matched <=> a(c) < A
      /\ \A c \in filter : a(c) = A => c \in s.remaining
      /\ s.remaining = {} \/ (s.u = LowBits(u, i + 1) /\ (s.u = 0 \/ \A c \in s.remaining : a(c) <= A))
  BY DEF LTKnows
<1>5. /\ LowBits(u, i + 1) = LowBits(u, i) + b * pow2[i] /\ LowBits(u, i) \in Nat
      /\ pow2[i] \in Nat /\ pow2[i] > 0
  BY <1>1, Digits, Pow2Def
<1>6. BitOf(LowBits(u, i + 1), i) = b
  <2> DEFINE j == i + 1
  <2>1. j \in Nat /\ i \in 0..(j - 1)
    BY <1>1
  <2> HIDE DEF j
  <2>2. BitOf(LowBits(u, j), i) = BitOf(u, i)
    BY <2>1, LowBitsBits
  <2> QED BY <2>2 DEF j
<1> HIDE DEF a, A, b
<1>7. CASE s.remaining = {}
  <2>1. t = s
    BY <1>7 DEF LTNext
  <2>2. ASSUME NEW c \in filter
        PROVE  (Shr(val[c], i) < Shr(u, i) <=> a(c) < A) /\ Shr(val[c], i) # Shr(u, i)
    <3>1. a(c) # A
      BY <1>4, <1>7
    <3> QED BY <1>2, <1>3, <3>1
  <2>3. LTKnows(s, filter, val, u, i)
    BY <1>4, <1>7, <2>2 DEF LTKnows
  <2> QED BY <2>1, <2>3
<1>8. CASE s.remaining # {} /\ s.u = 0
  <2>1. t = s
    BY <1>8 DEF LTNext
  <2>2. b = 0 /\ LowBits(u, i) = 0
    BY <1>2, <1>4, <1>5, <1>8
  <2>3. ASSUME NEW c \in filter
        PROVE  /\ Shr(val[c], i) < Shr(u, i) <=> a(c) < A
               /\ Shr(val[c], i) = Shr(u, i) => a(c) = A
    BY <1>2, <1>3, <2>2
  <2>4. LTKnows(s, filter, val, u, i)
    BY <1>4, <1>8, <2>2, <2>3 DEF LTKnows
  <2> QED BY <2>1, <2>4
<1>9. CASE s.remaining # {} /\ s.u # 0 /\ b = 1
  <2>1. /\ s.u = LowBits(u, i) + pow2[i]
        /\ \A c \in s.remaining : a(c) <= A
    BY <1>4, <1>5, <1>9
  <2>2. t = [s EXCEPT !.matched = @ \cup zeroes, !.u = @ - pow2[i]]
    BY <1>4, <1>6, <1>9 DEF LTNext
  <2>3. t.matched = s.matched \cup zeroes /\ t.remaining = s.remaining /\ t.u = s.u - pow2[i]
    BY <2>2
  <2>4. t.u = LowBits(u, i)
    BY <1>5, <2>1, <2>3
  <2> HIDE DEF t
  <2>5. ASSUME NEW c \in filter
        PROVE  /\ c \in t.matched <=> Shr(val[c], i) < Shr(u, i)
               /\ Shr(val[c], i) = Shr(u, i) => c \in t.remaining
               /\ c \in t.remaining => Shr(val[c], i) <= Shr(u, i)
    <3>1. CASE a(c) < A
      BY <1>2, <1>3, <1>4, <1>9, <2>3, <3>1
    <3>2. CASE a(c) = A
      BY <1>2, <1>3, <1>4, <1>9, <2>3, <3>2
    <3>3. CASE a(c) > A
      <4>1. c \notin s.remaining /\ c \notin s.matched
        BY <1>2, <1>3, <1>4, <2>1, <3>3
      <4> QED BY <1>2, <1>3, <1>9, <2>3, <3>3, <4>1
    <3> QED BY <1>2, <1>3, <3>1, <3>2, <3>3
  <2>6. t.remaining \subseteq filter
    BY <1>1, <2>3
  <2>7. LTKnows(t, filter, val, u, i)
    BY <2>4, <2>5, <2>6 DEF LTKnows
  <2> QED BY <2>7 DEF t
<1>10. CASE s.remaining # {} /\ s.u # 0 /\ b = 0
  <2>1. /\ s.u = LowBits(u, i)
        /\ \A c \in s.remaining : a(c) <= A
    BY <1>4, <1>5, <1>10
  <2>2. t = [s EXCEPT !.remaining = zeroes]
    BY <1>4, <1>6, <1>10 DEF LTNext
  <2>3. t.matched = s.matched /\ t.remaining = zeroes /\ t.u = s.u
    BY <2>2
  <2>4. t.u = LowBits(u, i)
    BY <2>1, <2>3
  <2> HIDE DEF t
  <2>5. ASSUME NEW c \in filter
        PROVE  /\ c \in t.matched <=> Shr(val[c], i) < Shr(u, i)
               /\ Shr(val[c], i) = Shr(u, i) => c \in t.remaining
               /\ c \in t.remaining => Shr(val[c], i) <= Shr(u, i)
    <3>1. c \in t.remaining <=> c \in s.remaining /\ c \notin bit[i]
      BY <2>3
    <3>2. c \in t.remaining => a(c) <= A
      BY <2>1, <3>1
    <3> QED BY <1>2, <1>3, <1>4, <1>10, <2>3, <3>1, <3>2
  <2>6. t.remaining \subseteq filter
    BY <1>1, <2>3
  <2>7. LTKnows(t, filter, val, u, i)
    BY <2>4, <2>5, <2>6 DEF LTKnows
  <2> QED BY <2>7 DEF t
<1> QED BY <1>2, <1>7, <1>8, <1>9, <1>10

\* The columns less than u.
LEMMA LTLoopIs ==
    ASSUME NEW u \in Nat, NEW filter, NEW val, NEW top \in Nat, RowsVal(filter, val, top), u < pow2[top]
    PROVE  LTLoop(filter, top, u).matched = {c \in filter : val[c] < u}
<1>1. PICK g : IsLTRun(g, filter, top, u)
  <2>1. u \in Int
    OBVIOUS
  <2> QED BY <2>1, LTRun
<1> DEFINE S == [matched : SUBSET filter, remaining : SUBSET filter, u : Int]
           B == {k \in 0..top : LTKnows(g[k], filter, val, u, top - k)}
<1>2. /\ g[0] = [matched |-> {}, remaining |-> filter, u |-> u]
      /\ \A k \in 1..top : g[k - 1] \in S /\ g[k] = LTNext(g[k - 1], top - k)
      /\ LTLoop(filter, top, u) = g[top] /\ g \in [0..top -> S]
  <2>1. top - 0 = top
    OBVIOUS
  <2> QED BY <1>1, <2>1 DEF IsLTRun
<1>3. \A c \in filter : val[c] \in Nat /\ Shr(val[c], top) = 0 /\ Shr(val[c], 0) = val[c]
  BY Fits, ShrStep DEF RowsVal
<1>4. Shr(u, top) = 0 /\ Shr(u, 0) = u /\ LowBits(u, top) = u
  BY Fits, ShrStep
<1>5. 0 \in B
  <2>1. g[0].matched = {} /\ g[0].remaining = filter /\ g[0].u = u
    BY <1>2
  <2>2. LTKnows(g[0], filter, val, u, top)
    BY <1>3, <1>4, <2>1 DEF LTKnows
  <2>3. top - 0 = top /\ 0 \in 0..top
    OBVIOUS
  <2> QED BY <2>2, <2>3
<1>6. ASSUME NEW k \in 1..top, k - 1 \in B PROVE k \in B
  <2> DEFINE i == top - k
             s == g[k - 1]
  <2>1. k \in 0..top /\ i \in 0..(top - 1) /\ top - (k - 1) = i + 1
    OBVIOUS
  <2>2. LTKnows(s, filter, val, u, top - (k - 1)) /\ s \in S /\ g[k] = LTNext(s, i)
    BY <1>2, <1>6
  <2> HIDE DEF i, s
  <2>3. LTKnows(s, filter, val, u, i + 1)
    BY <2>1, <2>2
  <2>4. LTKnows(LTNext(s, i), filter, val, u, i)
    BY <2>1, <2>2, <2>3, LTRound
  <2> QED BY <2>1, <2>2, <2>4 DEF i
<1>7. LTKnows(g[top], filter, val, u, 0)
  <2>1. top - top = 0 /\ top \in 0..top
    OBVIOUS
  <2>2. \A k \in 0..top : k \in B
    <3> HIDE DEF B
    <3> QED BY <1>5, <1>6, SetInduction
  <2>3. LTKnows(g[top], filter, val, u, top - top)
    BY <2>1, <2>2
  <2> QED BY <2>1, <2>3
<1>8. g[top].matched \subseteq filter
  <2>1. g[top] \in S
    BY <1>2
  <2> QED BY <2>1
<1>9. \A c \in filter : c \in g[top].matched <=> val[c] < u
  BY <1>3, <1>4, <1>7 DEF LTKnows
<1> QED BY <1>2, <1>8, <1>9

\* What rangeGTUnsigned knows after the rows from i up.
GTKnows(s, filter, val, u, i) ==
    /\ \A c \in filter : c \in s.matched <=> Shr(val[c], i) > Shr(u, i)
    /\ \A c \in filter : Shr(val[c], i) = Shr(u, i) => c \in s.remaining
    /\ \/ s.remaining = {}
       \/ /\ s.u \in Nat /\ \A j \in 0..(i - 1) : BitOf(s.u, j) = BitOf(u, j)
          /\ s.u = s.max \/ \A c \in s.remaining : Shr(val[c], i) >= Shr(u, i)

\* A round keeps that.
LEMMA GTRound ==
    ASSUME NEW filter, NEW val, NEW top \in Nat, RowsVal(filter, val, top), NEW u \in Nat,
           NEW i \in 0..(top - 1),
           NEW s \in [matched : SUBSET filter, remaining : SUBSET filter, u : Int, max : {pow2[top] - 1}],
           GTKnows(s, filter, val, u, i + 1)
    PROVE  GTKnows(GTNext(s, i), filter, val, u, i)
<1> DEFINE ones == s.remaining \cap bit[i]
           t == GTNext(s, i)
           a(c) == Shr(val[c], i + 1)
           A == Shr(u, i + 1)
           b == BitOf(u, i)
<1>1. i \in Nat /\ s.matched \subseteq filter /\ s.remaining \subseteq filter /\ s.max = pow2[top] - 1
  OBVIOUS
<1>2. A \in Nat /\ Shr(u, i) = 2 * A + b /\ b \in {0, 1}
  BY <1>1, NextDigit
<1>3. ASSUME NEW c \in filter
      PROVE  /\ a(c) \in Nat
             /\ \/ c \in bit[i] /\ Shr(val[c], i) = 2 * a(c) + 1
                \/ c \notin bit[i] /\ Shr(val[c], i) = 2 * a(c)
  <2>1. /\ Shr(val[c], i) \in Nat /\ Shr(val[c], i + 1) \in Nat
        /\ Shr(val[c], i) = 2 * Shr(val[c], i + 1) + BitOf(val[c], i)
        /\ BitOf(val[c], i) \in {0, 1}
        /\ c \in bit[i] <=> BitOf(val[c], i) = 1
    BY NextRow
  <2> QED BY <2>1
<1>4. /\ \A c \in filter : c \in s.matched <=> a(c) > A
      /\ \A c \in filter : a(c) = A => c \in s.remaining
      /\ s.remaining = {} \/ (s.u = s.max \/ \A c \in s.remaining : a(c) >= A)
  BY DEF GTKnows
<1>5. s.remaining = {} \/ (s.u \in Nat /\ BitOf(s.u, i) = b /\ \A j \in 0..(i - 1) : BitOf(s.u, j) = BitOf(u, j))
  <2>1. i \in 0..((i + 1) - 1) /\ 0..(i - 1) \subseteq 0..((i + 1) - 1)
    BY <1>1
  <2> QED BY <2>1 DEF GTKnows
<1> HIDE DEF a, A
<1>6. CASE s.remaining = {}
  <2>1. t = s
    BY <1>6 DEF GTNext
  <2>2. ASSUME NEW c \in filter
        PROVE  (Shr(val[c], i) > Shr(u, i) <=> a(c) > A) /\ Shr(val[c], i) # Shr(u, i)
    <3>1. a(c) # A
      BY <1>4, <1>6
    <3> QED BY <1>2, <1>3, <3>1
  <2>3. GTKnows(s, filter, val, u, i)
    BY <1>4, <1>6, <2>2 DEF GTKnows
  <2> QED BY <2>1, <2>3
<1>7. CASE s.remaining # {} /\ s.u = s.max
  <2>1. t = s
    BY <1>7 DEF GTNext
  <2>2. b = 1
    BY <1>1, <1>5, <1>7, OneBits
  <2>3. ASSUME NEW c \in filter
        PROVE  /\ Shr(val[c], i) > Shr(u, i) <=> a(c) > A
               /\ Shr(val[c], i) = Shr(u, i) => a(c) = A
    BY <1>2, <1>3, <2>2
  <2>4. GTKnows(s, filter, val, u, i)
    BY <1>4, <1>5, <1>7, <2>3 DEF GTKnows
  <2> QED BY <2>1, <2>4
<1>8. CASE s.remaining # {} /\ s.u # s.max /\ b = 1
  <2>1. t = [s EXCEPT !.remaining = ones]
    BY <1>5, <1>8 DEF GTNext
  <2>2. t.matched = s.matched /\ t.remaining = ones /\ t.u = s.u
    BY <2>1
  <2>3. \A c \in s.remaining : a(c) >= A
    BY <1>4, <1>8
  <2> HIDE DEF t
  <2>4. ASSUME NEW c \in filter
        PROVE  /\ c \in t.matched <=> Shr(val[c], i) > Shr(u, i)
               /\ Shr(val[c], i) = Shr(u, i) => c \in t.remaining
               /\ c \in t.remaining => Shr(val[c], i) >= Shr(u, i)
    <3>1. c \in t.remaining <=> c \in s.remaining /\ c \in bit[i]
      BY <2>2
    <3>2. c \in t.remaining => a(c) >= A
      BY <2>3, <3>1
    <3> QED BY <1>2, <1>3, <1>4, <1>8, <2>2, <3>1, <3>2
  <2>5. t.remaining \subseteq filter
    BY <1>1, <2>2
  <2>6. t.u \in Nat /\ \A j \in 0..(i - 1) : BitOf(t.u, j) = BitOf(u, j)
    BY <1>5, <1>8, <2>2
  <2>7. GTKnows(t, filter, val, u, i)
    BY <2>4, <2>5, <2>6 DEF GTKnows
  <2> QED BY <2>7 DEF t
<1>9. CASE s.remaining # {} /\ s.u # s.max /\ b = 0
  <2>1. t = [s EXCEPT !.matched = @ \cup ones, !.u = @ + pow2[i]]
    BY <1>5, <1>9 DEF GTNext
  <2>2. t.matched = s.matched \cup ones /\ t.remaining = s.remaining /\ t.u = s.u + pow2[i]
    BY <2>1
  <2>3. \A c \in s.remaining : a(c) >= A
    BY <1>4, <1>9
  <2> HIDE DEF t
  <2>4. ASSUME NEW c \in filter
        PROVE  /\ c \in t.matched <=> Shr(val[c], i) > Shr(u, i)
               /\ Shr(val[c], i) = Shr(u, i) => c \in t.remaining
               /\ c \in t.remaining => Shr(val[c], i) >= Shr(u, i)
    <3>1. CASE a(c) > A
      BY <1>2, <1>3, <1>4, <1>9, <2>2, <3>1
    <3>2. CASE a(c) = A
      BY <1>2, <1>3, <1>4, <1>9, <2>2, <3>2
    <3>3. CASE a(c) < A
      <4>1. c \notin s.remaining /\ c \notin s.matched
        BY <1>2, <1>3, <1>4, <2>3, <3>3
      <4> QED BY <1>2, <1>3, <1>9, <2>2, <3>3, <4>1
    <3> QED BY <1>2, <1>3, <3>1, <3>2, <3>3
  <2>5. t.remaining \subseteq filter
    BY <1>1, <2>2
  <2>6. t.u \in Nat /\ \A j \in 0..(i - 1) : BitOf(t.u, j) = BitOf(u, j)
    <3> DEFINE x == s.u
    <3>1. x \in Nat /\ BitOf(x, i) = 0 /\ \A j \in 0..(i - 1) : BitOf(x, j) = BitOf(u, j)
      BY <1>5, <1>9
    <3> HIDE DEF x
    <3>2. x + pow2[i] \in Nat /\ \A j \in Nat : BitOf(x + pow2[i], j) = IF j = i THEN 1 ELSE BitOf(x, j)
      BY <1>1, <3>1, SetBit
    <3>3. \A j \in 0..(i - 1) : j \in Nat /\ j # i
      BY <1>1
    <3>4. t.u = x + pow2[i]
      BY <2>2 DEF x
    <3> QED BY <3>1, <3>2, <3>3, <3>4
  <2>7. GTKnows(t, filter, val, u, i)
    BY <2>4, <2>5, <2>6 DEF GTKnows
  <2> QED BY <2>7 DEF t
<1> QED BY <1>2, <1>6, <1>7, <1>8, <1>9

\* The columns greater than u.
LEMMA GTLoopIs ==
    ASSUME NEW u \in Nat, NEW filter, NEW val, NEW top \in Nat, RowsVal(filter, val, top), u < pow2[top]
    PROVE  GTLoop(filter, top, u).matched = {c \in filter : val[c] > u}
<1>1. PICK g : IsGTRun(g, filter, top, u)
  <2>1. u \in Int
    OBVIOUS
  <2> QED BY <2>1, GTRun
<1> DEFINE S == [matched : SUBSET filter, remaining : SUBSET filter, u : Int, max : {pow2[top] - 1}]
           B == {k \in 0..top : GTKnows(g[k], filter, val, u, top - k)}
<1>2. /\ g[0] = [matched |-> {}, remaining |-> filter, u |-> u, max |-> pow2[top] - 1]
      /\ \A k \in 1..top : g[k - 1] \in S /\ g[k] = GTNext(g[k - 1], top - k)
      /\ GTLoop(filter, top, u) = g[top] /\ g \in [0..top -> S]
  <2>1. top - 0 = top
    OBVIOUS
  <2> QED BY <1>1, <2>1 DEF IsGTRun
<1>3. \A c \in filter : val[c] \in Nat /\ Shr(val[c], top) = 0 /\ Shr(val[c], 0) = val[c]
  BY Fits, ShrStep DEF RowsVal
<1>4. Shr(u, top) = 0 /\ Shr(u, 0) = u
  BY Fits, ShrStep
<1>5. 0 \in B
  <2>1. g[0].matched = {} /\ g[0].remaining = filter /\ g[0].u = u /\ u \in Nat
    BY <1>2
  <2>2. GTKnows(g[0], filter, val, u, top)
    BY <1>3, <1>4, <2>1 DEF GTKnows
  <2>3. top - 0 = top /\ 0 \in 0..top
    OBVIOUS
  <2> QED BY <2>2, <2>3
<1>6. ASSUME NEW k \in 1..top, k - 1 \in B PROVE k \in B
  <2> DEFINE i == top - k
             s == g[k - 1]
  <2>1. k \in 0..top /\ i \in 0..(top - 1) /\ top - (k - 1) = i + 1
    OBVIOUS
  <2>2. GTKnows(s, filter, val, u, top - (k - 1)) /\ s \in S /\ g[k] = GTNext(s, i)
    BY <1>2, <1>6
  <2> HIDE DEF i, s
  <2>3. GTKnows(s, filter, val, u, i + 1)
    BY <2>1, <2>2
  <2>4. GTKnows(GTNext(s, i), filter, val, u, i)
    BY <2>1, <2>2, <2>3, GTRound
  <2> QED BY <2>1, <2>2, <2>4 DEF i
<1>7. GTKnows(g[top], filter, val, u, 0)
  <2>1. top - top = 0 /\ top \in 0..top
    OBVIOUS
  <2>2. \A k \in 0..top : k \in B
    <3> HIDE DEF B
    <3> QED BY <1>5, <1>6, SetInduction
  <2>3. GTKnows(g[top], filter, val, u, top - top)
    BY <2>1, <2>2
  <2> QED BY <2>1, <2>3
<1>8. g[top].matched \subseteq filter
  <2>1. g[top] \in S
    BY <1>2
  <2> QED BY <2>1
<1>9. \A c \in filter : c \in g[top].matched <=> val[c] > u
  BY <1>3, <1>4, <1>7 DEF GTKnows
<1> QED BY <1>2, <1>8, <1>9

\* What minUnsigned knows after the rows from i up: m is the number above them.
MinKnows(s, filter, val, i) ==
    \E m \in Nat : /\ s.val = pow2[i] * m /\ s.filter # {}
                  /\ \A c \in filter : Shr(val[c], i) >= m /\ (c \in s.filter <=> Shr(val[c], i) = m)

LEMMA MinRound ==
    ASSUME NEW filter, NEW val, NEW top \in Nat, RowsVal(filter, val, top), NEW i \in 0..(top - 1),
           NEW s \in [val : Int, filter : SUBSET filter], MinKnows(s, filter, val, i + 1)
    PROVE  MinKnows(MinNext(s, i), filter, val, i)
<1> DEFINE row == s.filter \ bit[i]
           t == MinNext(s, i)
           a(c) == Shr(val[c], i + 1)
<1>1. i \in Nat /\ s.filter \subseteq filter /\ s.val \in Int
  OBVIOUS
<1>2. ASSUME NEW c \in filter
      PROVE  /\ a(c) \in Nat
             /\ \/ c \in bit[i] /\ Shr(val[c], i) = 2 * a(c) + 1
                \/ c \notin bit[i] /\ Shr(val[c], i) = 2 * a(c)
  <2>1. /\ Shr(val[c], i) \in Nat /\ Shr(val[c], i + 1) \in Nat
        /\ Shr(val[c], i) = 2 * Shr(val[c], i + 1) + BitOf(val[c], i)
        /\ BitOf(val[c], i) \in {0, 1}
        /\ c \in bit[i] <=> BitOf(val[c], i) = 1
    BY NextRow
  <2> QED BY <2>1
<1>3. PICK m \in Nat : /\ s.val = pow2[i + 1] * m /\ s.filter # {}
                      /\ \A c \in filter : a(c) >= m /\ (c \in s.filter <=> a(c) = m)
  BY DEF MinKnows
<1>4. pow2[i] \in Nat /\ pow2[i + 1] = 2 * pow2[i]
  BY <1>1, Pow2Def
<1>5. s.val = pow2[i] * (2 * m) /\ s.val + pow2[i] = pow2[i] * (2 * m + 1)
  BY <1>3, <1>4
<1> HIDE DEF a
<1>6. CASE row # {}
  <2>1. t.val = s.val /\ t.filter = row
    BY <1>6 DEF MinNext
  <2> HIDE DEF t
  <2> DEFINE n == 2 * m
  <2>2. n \in Nat /\ t.val = pow2[i] * n /\ t.filter # {}
    BY <1>5, <1>6, <2>1
  <2>3. ASSUME NEW c \in filter PROVE Shr(val[c], i) >= n /\ (c \in t.filter <=> Shr(val[c], i) = n)
    <3>1. c \in t.filter <=> a(c) = m /\ c \notin bit[i]
      BY <1>3, <2>1
    <3>2. a(c) \in Nat /\ a(c) >= m
      BY <1>2, <1>3
    <3> QED BY <1>2, <3>1, <3>2
  <2> HIDE DEF n
  <2>4. MinKnows(t, filter, val, i)
    BY <2>2, <2>3 DEF MinKnows
  <2> QED BY <2>4 DEF t
<1>7. CASE row = {}
  <2>1. t.val = s.val + pow2[i] /\ t.filter = s.filter
    BY <1>7 DEF MinNext
  <2> HIDE DEF t
  <2> DEFINE n == 2 * m + 1
  <2>2. n \in Nat /\ t.val = pow2[i] * n /\ t.filter # {}
    BY <1>3, <1>5, <2>1
  <2>3. ASSUME NEW c \in filter PROVE Shr(val[c], i) >= n /\ (c \in t.filter <=> Shr(val[c], i) = n)
    <3>1. c \in t.filter <=> a(c) = m
      BY <1>3, <2>1
    <3>2. a(c) = m => ~(c \notin bit[i])
      BY <1>3, <1>7
    <3>3. a(c) \in Nat /\ a(c) >= m
      BY <1>2, <1>3
    <3> QED BY <1>2, <3>1, <3>2, <3>3
  <2> HIDE DEF n
  <2>4. MinKnows(t, filter, val, i)
    BY <2>2, <2>3 DEF MinKnows
  <2> QED BY <2>4 DEF t
<1> QED BY <1>6, <1>7

LEMMA MinLoopIs ==
    ASSUME NEW filter, filter # {}, NEW val, NEW top \in Nat, RowsVal(filter, val, top)
    PROVE  /\ MinLoop(filter, top).val \in Nat
           /\ MinLoop(filter, top).filter # {}
           /\ \A c \in filter : val[c] >= MinLoop(filter, top).val
           /\ \A c : c \in MinLoop(filter, top).filter <=> c \in filter /\ val[c] = MinLoop(filter, top).val
<1>1. PICK g : IsMinRun(g, filter, top)
  BY MinRun
<1> DEFINE S == [val : Int, filter : SUBSET filter]
           B == {k \in 0..top : MinKnows(g[k], filter, val, top - k)}
<1>2. /\ g[0] = [val |-> 0, filter |-> filter]
      /\ \A k \in 1..top : g[k - 1] \in S /\ g[k] = MinNext(g[k - 1], top - k)
      /\ MinLoop(filter, top) = g[top] /\ g \in [0..top -> S]
  <2>1. top - 0 = top
    OBVIOUS
  <2> QED BY <1>1, <2>1 DEF IsMinRun
<1>3. \A c \in filter : val[c] \in Nat /\ Shr(val[c], top) = 0 /\ Shr(val[c], 0) = val[c]
  BY Fits, ShrStep DEF RowsVal
<1>4. 0 \in B
  <2>1. g[0].val = 0 /\ g[0].filter = filter
    BY <1>2
  <2>2. pow2[top] * 0 = 0
    BY Pow2Def
  <2>3. MinKnows(g[0], filter, val, top)
    <3> DEFINE n == 0
    <3>1. n \in Nat /\ g[0].val = pow2[top] * n /\ g[0].filter # {}
      BY <2>1, <2>2
    <3>2. \A c \in filter : Shr(val[c], top) >= n /\ (c \in g[0].filter <=> Shr(val[c], top) = n)
      BY <1>3, <2>1
    <3> HIDE DEF n
    <3> QED BY <3>1, <3>2 DEF MinKnows
  <2>4. top - 0 = top /\ 0 \in 0..top
    OBVIOUS
  <2> QED BY <2>3, <2>4
<1>5. ASSUME NEW k \in 1..top, k - 1 \in B PROVE k \in B
  <2> DEFINE i == top - k
             s == g[k - 1]
  <2>1. k \in 0..top /\ i \in 0..(top - 1) /\ top - (k - 1) = i + 1
    OBVIOUS
  <2>2. MinKnows(s, filter, val, top - (k - 1)) /\ s \in S /\ g[k] = MinNext(s, i)
    BY <1>2, <1>5
  <2> HIDE DEF i, s
  <2>3. MinKnows(s, filter, val, i + 1)
    BY <2>1, <2>2
  <2>4. MinKnows(MinNext(s, i), filter, val, i)
    BY <2>1, <2>2, <2>3, MinRound
  <2> QED BY <2>1, <2>2, <2>4 DEF i
<1>6. MinKnows(g[top], filter, val, 0)
  <2>1. top - top = 0 /\ top \in 0..top
    OBVIOUS
  <2>2. \A k \in 0..top : k \in B
    <3> HIDE DEF B
    <3> QED BY <1>4, <1>5, SetInduction
  <2>3. MinKnows(g[top], filter, val, top - top)
    BY <2>1, <2>2
  <2> QED BY <2>1, <2>3
<1>7. PICK m \in Nat : /\ g[top].val = pow2[0] * m /\ g[top].filter # {}
                      /\ \A c \in filter : Shr(val[c], 0) >= m /\ (c \in g[top].filter <=> Shr(val[c], 0) = m)
  BY <1>6 DEF MinKnows
<1>8. g[top].val = m
  BY <1>7, Pow2Def
<1>9. g[top].filter \subseteq filter
  <2>1. g[top] \in S
    BY <1>2
  <2> QED BY <2>1
<1>10. \A c : c \in g[top].filter <=> c \in filter /\ val[c] = g[top].val
  BY <1>3, <1>7, <1>8, <1>9
<1> QED BY <1>2, <1>3, <1>7, <1>8, <1>10

\* What maxUnsigned knows after the rows from i up: m is the number above them.
MaxKnows(s, filter, val, i) ==
    \E m \in Nat : /\ s.val = pow2[i] * m /\ s.filter # {}
                  /\ \A c \in filter : Shr(val[c], i) <= m /\ (c \in s.filter <=> Shr(val[c], i) = m)

LEMMA MaxRound ==
    ASSUME NEW filter, NEW val, NEW top \in Nat, RowsVal(filter, val, top), NEW i \in 0..(top - 1),
           NEW s \in [val : Int, filter : SUBSET filter], MaxKnows(s, filter, val, i + 1)
    PROVE  MaxKnows(MaxNext(s, i), filter, val, i)
<1> DEFINE row == s.filter \cap bit[i]
           t == MaxNext(s, i)
           a(c) == Shr(val[c], i + 1)
<1>1. i \in Nat /\ s.filter \subseteq filter /\ s.val \in Int
  OBVIOUS
<1>2. ASSUME NEW c \in filter
      PROVE  /\ a(c) \in Nat
             /\ \/ c \in bit[i] /\ Shr(val[c], i) = 2 * a(c) + 1
                \/ c \notin bit[i] /\ Shr(val[c], i) = 2 * a(c)
  <2>1. /\ Shr(val[c], i) \in Nat /\ Shr(val[c], i + 1) \in Nat
        /\ Shr(val[c], i) = 2 * Shr(val[c], i + 1) + BitOf(val[c], i)
        /\ BitOf(val[c], i) \in {0, 1}
        /\ c \in bit[i] <=> BitOf(val[c], i) = 1
    BY NextRow
  <2> QED BY <2>1
<1>3. PICK m \in Nat : /\ s.val = pow2[i + 1] * m /\ s.filter # {}
                      /\ \A c \in filter : a(c) <= m /\ (c \in s.filter <=> a(c) = m)
  BY DEF MaxKnows
<1>4. pow2[i] \in Nat /\ pow2[i + 1] = 2 * pow2[i]
  BY <1>1, Pow2Def
<1>5. s.val = pow2[i] * (2 * m) /\ s.val + pow2[i] = pow2[i] * (2 * m + 1)
  BY <1>3, <1>4
<1> HIDE DEF a
<1>6. CASE row # {}
  <2>1. t.val = s.val + pow2[i] /\ t.filter = row
    BY <1>6 DEF MaxNext
  <2> HIDE DEF t
  <2> DEFINE n == 2 * m + 1
  <2>2. n \in Nat /\ t.val = pow2[i] * n /\ t.filter # {}
    BY <1>5, <1>6, <2>1
  <2>3. ASSUME NEW c \in filter PROVE Shr(val[c], i) <= n /\ (c \in t.filter <=> Shr(val[c], i) = n)
    <3>1. c \in t.filter <=> a(c) = m /\ c \in bit[i]
      BY <1>3, <2>1
    <3>2. a(c) \in Nat /\ a(c) <= m
      BY <1>2, <1>3
    <3> QED BY <1>2, <3>1, <3>2
  <2> HIDE DEF n
  <2>4. MaxKnows(t, filter, val, i)
    BY <2>2, <2>3 DEF MaxKnows
  <2> QED BY <2>4 DEF t
<1>7. CASE row = {}
  <2>1. t.val = s.val /\ t.filter = s.filter
    BY <1>7 DEF MaxNext
  <2> HIDE DEF t
  <2> DEFINE n == 2 * m
  <2>2. n \in Nat /\ t.val = pow2[i] * n /\ t.filter # {}
    BY <1>3, <1>5, <2>1
  <2>3. ASSUME NEW c \in filter PROVE Shr(val[c], i) <= n /\ (c \in t.filter <=> Shr(val[c], i) = n)
    <3>1. c \in t.filter <=> a(c) = m
      BY <1>3, <2>1
    <3>2. a(c) = m => ~(c \in bit[i])
      BY <1>3, <1>7
    <3>3. a(c) \in Nat /\ a(c) <= m
      BY <1>2, <1>3
    <3> QED BY <1>2, <3>1, <3>2, <3>3
  <2> HIDE DEF n
  <2>4. MaxKnows(t, filter, val, i)
    BY <2>2, <2>3 DEF MaxKnows
  <2> QED BY <2>4 DEF t
<1> QED BY <1>6, <1>7

LEMMA MaxLoopIs ==
    ASSUME NEW filter, filter # {}, NEW val, NEW top \in Nat, RowsVal(filter, val, top)
    PROVE  /\ MaxLoop(filter, top).val \in Nat
           /\ MaxLoop(filter, top).filter # {}
           /\ \A c \in filter : val[c] <= MaxLoop(filter, top).val
           /\ \A c : c \in MaxLoop(filter, top).filter <=> c \in filter /\ val[c] = MaxLoop(filter, top).val
<1>1. PICK g : IsMaxRun(g, filter, top)
  BY MaxRun
<1> DEFINE S == [val : Int, filter : SUBSET filter]
           B == {k \in 0..top : MaxKnows(g[k], filter, val, top - k)}
<1>2. /\ g[0] = [val |-> 0, filter |-> filter]
      /\ \A k \in 1..top : g[k - 1] \in S /\ g[k] = MaxNext(g[k - 1], top - k)
      /\ MaxLoop(filter, top) = g[top] /\ g \in [0..top -> S]
  <2>1. top - 0 = top
    OBVIOUS
  <2> QED BY <1>1, <2>1 DEF IsMaxRun
<1>3. \A c \in filter : val[c] \in Nat /\ Shr(val[c], top) = 0 /\ Shr(val[c], 0) = val[c]
  BY Fits, ShrStep DEF RowsVal
<1>4. 0 \in B
  <2>1. g[0].val = 0 /\ g[0].filter = filter
    BY <1>2
  <2>2. pow2[top] * 0 = 0
    BY Pow2Def
  <2>3. MaxKnows(g[0], filter, val, top)
    <3> DEFINE n == 0
    <3>1. n \in Nat /\ g[0].val = pow2[top] * n /\ g[0].filter # {}
      BY <2>1, <2>2
    <3>2. \A c \in filter : Shr(val[c], top) <= n /\ (c \in g[0].filter <=> Shr(val[c], top) = n)
      BY <1>3, <2>1
    <3> HIDE DEF n
    <3> QED BY <3>1, <3>2 DEF MaxKnows
  <2>4. top - 0 = top /\ 0 \in 0..top
    OBVIOUS
  <2> QED BY <2>3, <2>4
<1>5. ASSUME NEW k \in 1..top, k - 1 \in B PROVE k \in B
  <2> DEFINE i == top - k
             s == g[k - 1]
  <2>1. k \in 0..top /\ i \in 0..(top - 1) /\ top - (k - 1) = i + 1
    OBVIOUS
  <2>2. MaxKnows(s, filter, val, top - (k - 1)) /\ s \in S /\ g[k] = MaxNext(s, i)
    BY <1>2, <1>5
  <2> HIDE DEF i, s
  <2>3. MaxKnows(s, filter, val, i + 1)
    BY <2>1, <2>2
  <2>4. MaxKnows(MaxNext(s, i), filter, val, i)
    BY <2>1, <2>2, <2>3, MaxRound
  <2> QED BY <2>1, <2>2, <2>4 DEF i
<1>6. MaxKnows(g[top], filter, val, 0)
  <2>1. top - top = 0 /\ top \in 0..top
    OBVIOUS
  <2>2. \A k \in 0..top : k \in B
    <3> HIDE DEF B
    <3> QED BY <1>4, <1>5, SetInduction
  <2>3. MaxKnows(g[top], filter, val, top - top)
    BY <2>1, <2>2
  <2> QED BY <2>1, <2>3
<1>7. PICK m \in Nat : /\ g[top].val = pow2[0] * m /\ g[top].filter # {}
                      /\ \A c \in filter : Shr(val[c], 0) <= m /\ (c \in g[top].filter <=> Shr(val[c], 0) = m)
  BY <1>6 DEF MaxKnows
<1>8. g[top].val = m
  BY <1>7, Pow2Def
<1>9. g[top].filter \subseteq filter
  <2>1. g[top] \in S
    BY <1>2
  <2> QED BY <2>1
<1>10. \A c : c \in g[top].filter <=> c \in filter /\ val[c] = g[top].val
  BY <1>3, <1>7, <1>8, <1>9
<1> QED BY <1>2, <1>3, <1>7, <1>8, <1>10

-----------------------------------------------------------------------------
(* Comparisons of unsigned numbers *)

\* A column with a zero among its bits is less than the number with all bits set.
LEMMA SomeZero ==
    ASSUME NEW x \in Nat, NEW d \in Nat, x < pow2[d]
    PROVE  /\ x < pow2[d] - 1 <=> \E i \in 0..(d - 1) : BitOf(x, i) # 1
           /\ x > 0 <=> \E i \in 0..(d - 1) : BitOf(x, i) = 1
<1> DEFINE y == pow2[d] - 1
<1>1. y \in Nat /\ (\A j \in 0..(d - 1) : BitOf(y, j) = 1) /\ y < pow2[d]
  BY OneBits, Pow2Def
<1>2. \A j \in 0..(d - 1) : j \in Nat /\ BitOf(0, j) = 0
  BY ZeroBits
<1>3. x <= y
  BY Pow2Def
<1> HIDE DEF y
<1>4. Shr(x, d) = 0 /\ Shr(y, d) = 0 /\ Shr(0, d) = 0
  BY <1>1, Fits, ZeroBits
<1>5. (\A i \in 0..(d - 1) : BitOf(x, i) = 1) => x = y
  <2> SUFFICES ASSUME \A i \in 0..(d - 1) : BitOf(x, i) = 1 PROVE x = y
    OBVIOUS
  <2>1. \A i \in 0..(d - 1) : BitOf(x, i) = BitOf(y, i)
    BY <1>1
  <2>2. Shr(x, d) = Shr(y, d)
    BY <1>4
  <2> QED BY <1>1, <2>1, <2>2, ShrSame
<1>6. (\A i \in 0..(d - 1) : BitOf(x, i) # 1) => x = 0
  <2> SUFFICES ASSUME \A i \in 0..(d - 1) : BitOf(x, i) # 1 PROVE x = 0
    OBVIOUS
  <2> DEFINE z == 0
  <2>1. \A i \in 0..(d - 1) : BitOf(x, i) \in {0, 1}
    BY <1>2, ShrStep
  <2>2. z \in Nat /\ Shr(x, d) = Shr(z, d) /\ \A i \in 0..(d - 1) : BitOf(x, i) = BitOf(z, i)
    BY <1>2, <1>4, <2>1
  <2> HIDE DEF z
  <2>3. x = z
    BY <2>2, ShrSame
  <2> QED BY <2>3 DEF z
<1>7. x < y <=> \E i \in 0..(d - 1) : BitOf(x, i) # 1
  <2>1. x < y <=> x # y
    BY <1>1, <1>3
  <2> QED BY <1>1, <1>5, <2>1
<1>8. x > 0 <=> \E i \in 0..(d - 1) : BitOf(x, i) = 1
  <2>1. x > 0 <=> x # 0
    OBVIOUS
  <2>2. ASSUME NEW i \in 0..(d - 1), BitOf(x, i) = 1 PROVE x # 0
    <3>1. BitOf(0, i) = 0
      BY <1>2
    <3> QED BY <2>2, <3>1
  <2> QED BY <1>6, <2>1, <2>2
<1> QED BY <1>7, <1>8 DEF y

\* fragment.rangeLTUnsigned selects the columns less than the predicate.
LEMMA LTUnsigned ==
    ASSUME NEW u \in Nat, NEW filter, NEW val, NEW d \in Nat, RowsVal(filter, val, d), NEW eq \in BOOLEAN
    PROVE  \A c : c \in rangeLTUnsigned(filter, d, u, eq) <=> c \in filter /\ (val[c] < u \/ (eq /\ val[c] = u))
<1> DEFINE R == rangeLTUnsigned(filter, d, u, eq)
           P == pow2[d]
           top == bitDepth(u) > d \/ (u = P - 1 /\ eq)
           v == IF eq THEN u + 1 ELSE u
<1>1. P \in Nat /\ P > 0 /\ \A c \in filter : val[c] \in Nat /\ val[c] < P /\ RowsHold(c, val[c], d)
  BY Pow2Def DEF RowsVal
<1>2. bitDepth(u) > d <=> u >= P
  BY BitDepthLeast
<1>3. CASE top
  <2>1. ~(u = P - 1 /\ ~eq)
    BY <1>1, <1>2, <1>3
  <2>2. R = filter
    BY <1>3, <2>1 DEF rangeLTUnsigned
  <2>3. ASSUME NEW c \in filter PROVE val[c] < u \/ (eq /\ val[c] = u)
    BY <1>1, <1>2, <1>3
  <2> QED BY <2>2, <2>3
<1>4. CASE ~top /\ u = P - 1
  <2>1. ~eq
    BY <1>4
  <2>2. R = UNION {filter \ bit[i] : i \in 0..(d - 1)}
    BY <1>4, <2>1 DEF rangeLTUnsigned
  <2>3. ASSUME NEW c \in filter PROVE val[c] < u <=> \E i \in 0..(d - 1) : c \notin bit[i]
    <3>1. val[c] < P - 1 <=> \E i \in 0..(d - 1) : BitOf(val[c], i) # 1
      BY <1>1, SomeZero
    <3> QED BY <1>1, <1>4, <3>1 DEF RowsHold
  <2> HIDE DEF R
  <2> QED BY <2>1, <2>2, <2>3 DEF R
<1>5. CASE ~top /\ u # P - 1
  <2>1. R = LTLoop(filter, d, v).matched
    BY <1>5 DEF rangeLTUnsigned, LTLoop
  <2>2. v \in Nat /\ v < P
    BY <1>1, <1>2, <1>5
  <2>3. \A c \in filter : val[c] < v <=> val[c] < u \/ (eq /\ val[c] = u)
    BY <1>1
  <2> HIDE DEF v
  <2>4. LTLoop(filter, d, v).matched = {c \in filter : val[c] < v}
    BY <2>2, LTLoopIs
  <2> QED BY <2>1, <2>3, <2>4
<1> QED BY <1>3, <1>4, <1>5

\* fragment.rangeGTUnsigned selects the columns greater than the predicate.
LEMMA GTUnsigned ==
    ASSUME NEW u \in Nat, NEW filter, NEW val, NEW d \in Nat, RowsVal(filter, val, d), NEW eq \in BOOLEAN
    PROVE  \A c : c \in rangeGTUnsigned(filter, d, u, eq) <=> c \in filter /\ (val[c] > u \/ (eq /\ val[c] = u))
<1> DEFINE R == rangeGTUnsigned(filter, d, u, eq)
           P == pow2[d]
           v == IF eq THEN u - 1 ELSE u
<1>1. P \in Nat /\ P > 0 /\ \A c \in filter : val[c] \in Nat /\ val[c] < P /\ RowsHold(c, val[c], d)
  BY Pow2Def DEF RowsVal
<1>2. CASE u = 0 /\ eq
  <2>1. R = filter
    BY <1>2 DEF rangeGTUnsigned
  <2>2. ASSUME NEW c \in filter PROVE val[c] > u \/ (eq /\ val[c] = u)
    BY <1>1, <1>2
  <2> QED BY <2>1, <2>2
<1>3. CASE ~(u = 0 /\ eq)
  <2>1. v \in Nat
    BY <1>3
  <2>2. \A c \in filter : val[c] > v <=> val[c] > u \/ (eq /\ val[c] = u)
    BY <1>1, <1>3
  <2>3. R = CASE v = 0 -> UNION {filter \cap bit[i] : i \in 0..(d - 1)}
              [] v # 0 /\ bitDepth(v) > d -> {}
              [] OTHER -> GTLoop(filter, d, v).matched
    BY <1>3 DEF rangeGTUnsigned, GTLoop
  <2> HIDE DEF v, R
  <2>4. bitDepth(v) > d <=> v >= P
    BY <2>1, BitDepthLeast
  <2>5. CASE v = 0
    <3>1. R = UNION {filter \cap bit[i] : i \in 0..(d - 1)}
      BY <2>3, <2>5
    <3>2. ASSUME NEW c \in filter PROVE val[c] > v <=> \E i \in 0..(d - 1) : c \in bit[i]
      <4>1. val[c] > 0 <=> \E i \in 0..(d - 1) : BitOf(val[c], i) = 1
        BY <1>1, SomeZero
      <4> QED BY <1>1, <2>5, <4>1 DEF RowsHold
    <3>3. R = {c \in filter : val[c] > v}
      BY <3>1, <3>2
    <3> QED BY <2>2, <3>3 DEF R
  <2>6. CASE v # 0 /\ bitDepth(v) > d
    <3>1. R = {}
      BY <2>3, <2>6
    <3>2. \A c \in filter : ~(val[c] > v)
      BY <1>1, <2>1, <2>4, <2>6
    <3> QED BY <2>2, <3>1, <3>2 DEF R
  <2>7. CASE v # 0 /\ ~(bitDepth(v) > d)
    <3>1. R = GTLoop(filter, d, v).matched
      BY <2>3, <2>7
    <3>2. v < P
      BY <1>1, <2>1, <2>4, <2>7
    <3>3. GTLoop(filter, d, v).matched = {c \in filter : val[c] > v}
      BY <2>1, <3>2, GTLoopIs
    <3> QED BY <2>2, <3>1, <3>3 DEF R
  <2> QED BY <2>5, <2>6, <2>7
<1> QED BY <1>2, <1>3

\* The bits from DiffLen up are the same in both numbers.
LEMMA DiffLenIs ==
    ASSUME NEW lo \in Nat, NEW hi \in Nat, lo <= hi
    PROVE  /\ DiffLen(lo, hi) \in 0..bitDepth(hi) /\ bitDepth(hi) \in Nat
           /\ Shr(lo, DiffLen(lo, hi)) = Shr(hi, DiffLen(lo, hi))
<1> DEFINE n == bitDepth(hi)
           differ == {i \in 0..n : BitOf(lo, i) # BitOf(hi, i)}
           d == DiffLen(lo, hi)
<1>1. n \in Nat /\ hi < pow2[n] /\ pow2[n] \in Nat
  BY BitDepthLeast, Pow2Def
<1>2. lo < pow2[n]
  BY <1>1
<1>3. Shr(lo, n) = 0 /\ BitOf(lo, n) = 0 /\ Shr(hi, n) = 0 /\ BitOf(hi, n) = 0
  <2>1. n <= n
    BY <1>1
  <2> HIDE DEF n
  <2> QED BY <1>1, <1>2, <2>1, HighBitsZero
<1>4. d = IF differ = {} THEN 0 ELSE Max(differ) + 1
  BY DEF DiffLen
<1> HIDE DEF d, n
<1>5. d \in 0..n /\ \A j \in d..(n - 1) : BitOf(lo, j) = BitOf(hi, j)
  <2>1. CASE differ = {}
    <3>1. d = 0
      BY <1>4, <2>1
    <3>2. ASSUME NEW j \in d..(n - 1) PROVE BitOf(lo, j) = BitOf(hi, j)
      <4>1. j \in 0..n
        BY <1>1, <3>1
      <4> QED BY <2>1, <4>1
    <3> QED BY <1>1, <3>1, <3>2
  <2>2. CASE differ # {}
    <3> DEFINE m == Max(differ)
    <3>1. m \in differ /\ \A i \in differ : i <= m
      <4> DEFINE S == differ
      <4>1. S \in SUBSET Int /\ S # {} /\ n \in Int /\ \A x \in S : x <= n
        BY <1>1, <2>2
      <4> HIDE DEF S
      <4>2. Max(S) \in S /\ \A x \in S : x <= Max(S)
        BY <4>1, MaxOfBounded
      <4> QED BY <4>2 DEF S
    <3> HIDE DEF m
    <3>2. m \in 0..n /\ m # n
      BY <1>3, <3>1
    <3>3. d = m + 1
      BY <1>4, <2>2 DEF m
    <3>4. ASSUME NEW j \in d..(n - 1) PROVE BitOf(lo, j) = BitOf(hi, j)
      <4>1. j \in 0..n /\ ~(j <= m)
        BY <1>1, <3>2, <3>3
      <4>2. j \notin differ
        BY <3>1, <4>1
      <4> QED BY <4>1, <4>2
    <3> QED BY <1>1, <3>2, <3>3, <3>4
  <2> QED BY <2>1, <2>2
<1>6. Shr(lo, d) = Shr(hi, d)
  BY <1>1, <1>3, <1>5, ShrSameFrom
<1> QED BY <1>1, <1>5, <1>6 DEF d, n

\* A smaller number is not greater after a shift.
LEMMA ShrMonotone ==
    ASSUME NEW x \in Nat, NEW y \in Nat, NEW i \in Nat, x <= y
    PROVE  Shr(x, i) <= Shr(y, i)
<1>1. Shr(x, i) \in Nat /\ Shr(y, i) \in Nat
  BY ShrStep
<1>2. ~(Shr(y, i) < Shr(x, i))
  <2> SUFFICES ASSUME Shr(y, i) < Shr(x, i) PROVE FALSE
    OBVIOUS
  <2>1. y < x
    BY ShrLess
  <2> QED BY <2>1
<1> QED BY <1>1, <1>2

\* With equality.
LEMMA AtMostUnsigned ==
    ASSUME NEW u \in Nat, NEW filter, NEW val, NEW d \in Nat, RowsVal(filter, val, d), NEW eq \in BOOLEAN, eq
    PROVE  \A c : c \in rangeLTUnsigned(filter, d, u, eq) <=> c \in filter /\ val[c] <= u
<1>1. \A c \in filter : val[c] <= u <=> val[c] < u \/ val[c] = u
  BY DEF RowsVal
<1>2. \A c : c \in rangeLTUnsigned(filter, d, u, eq) <=> c \in filter /\ (val[c] < u \/ (eq /\ val[c] = u))
  BY LTUnsigned
<1> QED BY <1>1, <1>2

LEMMA AtLeastUnsigned ==
    ASSUME NEW u \in Nat, NEW filter, NEW val, NEW d \in Nat, RowsVal(filter, val, d), NEW eq \in BOOLEAN, eq
    PROVE  \A c : c \in rangeGTUnsigned(filter, d, u, eq) <=> c \in filter /\ u <= val[c]
<1>1. \A c \in filter : u <= val[c] <=> val[c] > u \/ val[c] = u
  BY DEF RowsVal
<1>2. \A c : c \in rangeGTUnsigned(filter, d, u, eq) <=> c \in filter /\ (val[c] > u \/ (eq /\ val[c] = u))
  BY GTUnsigned
<1> QED BY <1>1, <1>2

\* fragment.rangeBetweenUnsigned selects the columns between the two predicates.
LEMMA BetweenUnsigned ==
    ASSUME NEW lo \in Nat, NEW hi \in Nat, lo <= hi, NEW filter, NEW val, NEW depth \in Nat,
           RowsVal(filter, val, depth)
    PROVE  rangeBetweenUnsigned(filter, depth, lo, hi) = {c \in filter : lo <= val[c] /\ val[c] <= hi}
<1> DEFINE R == rangeBetweenUnsigned(filter, depth, lo, hi)
           P == pow2[depth]
           d == DiffLen(lo, hi)
           upper == MatchRows(lo, filter, depth, d)
           low == [c \in filter |-> LowBits(val[c], d)]
           G == rangeGTUnsigned(upper, d, LowBits(lo, d), TRUE)
<1>1. P \in Nat /\ P > 0 /\ \A c \in filter : val[c] \in Nat /\ val[c] < P /\ RowsHold(c, val[c], depth)
  BY Pow2Def DEF RowsVal
<1>2. PICK eq \in BOOLEAN : eq /\ eq = TRUE
  OBVIOUS
<1>3. CASE hi > P - 1
  <2>4. hi > P - 1 /\ ~(hi <= P - 1)
    BY <1>1, <1>3
  <2>1. R = rangeGTUnsigned(filter, depth, lo, eq)
    BY <2>4, <1>2, Zenon DEF rangeBetweenUnsigned
  <2>2. \A c : c \in rangeGTUnsigned(filter, depth, lo, eq) <=> c \in filter /\ lo <= val[c]
    BY <1>2, AtLeastUnsigned
  <2>3. \A c \in filter : lo <= val[c] <=> lo <= val[c] /\ val[c] <= hi
    BY <1>1, <1>3
  <2> QED BY <2>1, <2>2, <2>3
<1>4. CASE hi <= P - 1 /\ lo = 0
  <2>1. R = rangeLTUnsigned(filter, depth, hi, eq)
    <3>1. ~(hi > P - 1) /\ hi <= P - 1 /\ lo = 0
      BY <1>1, <1>4
    <3> QED BY <3>1, <1>2, Zenon DEF rangeBetweenUnsigned
  <2>2. \A c : c \in rangeLTUnsigned(filter, depth, hi, eq) <=> c \in filter /\ val[c] <= hi
    BY <1>2, AtMostUnsigned
  <2>3. \A c \in filter : val[c] <= hi <=> lo <= val[c] /\ val[c] <= hi
    BY <1>1, <1>4
  <2> QED BY <2>1, <2>2, <2>3
<1>5. CASE hi <= P - 1 /\ lo # 0
  <2>1. R = rangeLTUnsigned(G, d, LowBits(hi, d), eq)
    <3>1. ~(hi > P - 1) /\ ~(hi <= P - 1 /\ lo = 0)
      BY <1>1, <1>5
    <3> QED BY <3>1, <1>2, Zenon DEF rangeBetweenUnsigned
  <2>2. d \in 0..bitDepth(hi) /\ bitDepth(hi) \in Nat /\ Shr(lo, d) = Shr(hi, d)
    BY DiffLenIs
  <2>3. bitDepth(hi) <= depth
    <3>1. bitDepth(hi) > depth <=> hi >= P
      BY BitDepthLeast
    <3> QED BY <1>1, <1>5, <2>2, <3>1
  <2> HIDE DEF d
  <2>4. d \in 0..depth /\ d \in Nat
    BY <2>2, <2>3
  <2>5. upper = {c \in filter : Shr(val[c], d) = Shr(lo, d)}
    <3>1. lo < P
      BY <1>1, <1>5
    <3> QED BY <2>4, <3>1, MatchIs
  <2>6. ASSUME NEW c \in filter
        PROVE  /\ low[c] = LowBits(val[c], d) /\ low[c] \in Nat /\ low[c] < pow2[d]
               /\ val[c] = low[c] + pow2[d] * Shr(val[c], d) /\ RowsHold(c, low[c], d)
    <3>1. val[c] \in Nat /\ RowsHold(c, val[c], depth) /\ low[c] = LowBits(val[c], d)
      BY <1>1
    <3>2. /\ LowBits(val[c], d) \in Nat /\ LowBits(val[c], d) < pow2[d]
          /\ val[c] = LowBits(val[c], d) + pow2[d] * Shr(val[c], d)
          /\ \A j \in 0..(d - 1) : BitOf(LowBits(val[c], d), j) = BitOf(val[c], j)
      BY <2>4, <3>1, LowBitsBits
    <3>3. 0..(d - 1) \subseteq 0..(depth - 1)
      BY <2>4
    <3> QED BY <3>1, <3>2, <3>3 DEF RowsHold
  <2> HIDE DEF low, upper
  <2>7. upper \subseteq filter /\ RowsVal(upper, low, d)
    BY <2>5, <2>6 DEF RowsVal
  <2> DEFINE l == LowBits(lo, d)
             h == LowBits(hi, d)
             T == pow2[d] * Shr(lo, d)
  <2>8. l \in Nat /\ h \in Nat /\ lo = l + T /\ hi = h + T /\ T \in Int
    <3>1. Shr(lo, d) \in Nat /\ pow2[d] \in Nat
      BY <2>4, ShrStep, Pow2Def
    <3>2. l \in Nat /\ lo = l + pow2[d] * Shr(lo, d) /\ h \in Nat /\ hi = h + pow2[d] * Shr(hi, d)
      BY <2>4, LowBitsBits
    <3>3. pow2[d] * Shr(lo, d) \in Int
      BY <3>1
    <3> QED BY <2>2, <3>2, <3>3
  <2>9. \A c \in upper : val[c] = low[c] + T
    BY <2>5, <2>6
  <2> HIDE DEF l, h, T
  <2>10. G = {c \in upper : l <= low[c]}
    <3>1. \A c : c \in rangeGTUnsigned(upper, d, l, eq) <=> c \in upper /\ l <= low[c]
      BY <2>4, <2>7, <2>8, <1>2, AtLeastUnsigned
    <3>2. G = rangeGTUnsigned(upper, d, l, eq)
      BY <1>2, Zenon DEF l, G
    <3> HIDE DEF G
    <3> QED BY <3>1, <3>2
  <2>11. G \subseteq upper /\ RowsVal(G, low, d)
    BY <2>7, <2>10 DEF RowsVal
  <2> HIDE DEF G, R
  <2>12. R = {c \in G : low[c] <= h}
    <3>1. \A c : c \in rangeLTUnsigned(G, d, h, eq) <=> c \in G /\ low[c] <= h
      BY <2>4, <2>8, <2>11, <1>2, AtMostUnsigned
    <3> QED BY <2>1, <3>1 DEF h
  <2>13. ASSUME NEW c \in upper
         PROVE  lo <= val[c] /\ val[c] <= hi <=> l <= low[c] /\ low[c] <= h
    <3>1. low[c] \in Nat /\ val[c] = low[c] + T
      BY <2>6, <2>7, <2>9
    <3> QED BY <2>8, <3>1
  <2>14. ASSUME NEW c \in filter, lo <= val[c], val[c] <= hi PROVE c \in upper
    <3>1. val[c] \in Nat
      BY <1>1
    <3>2. Shr(lo, d) <= Shr(val[c], d) /\ Shr(val[c], d) <= Shr(hi, d)
      BY <2>4, <2>14, <3>1, ShrMonotone
    <3>3. Shr(lo, d) \in Nat /\ Shr(val[c], d) \in Nat
      BY <2>4, <3>1, ShrStep
    <3>4. Shr(val[c], d) = Shr(lo, d)
      BY <2>2, <3>2, <3>3
    <3> QED BY <2>5, <3>4
  <2>15. \A c \in filter : c \in R <=> lo <= val[c] /\ val[c] <= hi
    BY <2>10, <2>12, <2>13, <2>14
  <2>16. R \subseteq filter
    BY <2>7, <2>11, <2>12
  <2> QED BY <2>15, <2>16 DEF R
<1> QED BY <1>1, <1>3, <1>4, <1>5

-----------------------------------------------------------------------------
(* Comparisons of signed numbers *)

\* The value of a column less Base, and what the rows hold of it.
Rel(c) == written[c] - bsig.Base
Vals == [c \in exists |-> Unsigned(c)]

LEMMA Slices ==
    ASSUME BsiInv
    PROVE  /\ bsig.BitDepth \in Nat /\ bsig.Base \in Int /\ bsig.Min \in Int /\ bsig.Max \in Int
           /\ exists \subseteq Column /\ HasValue = exists
           /\ \A S \in SUBSET exists : RowsVal(S, Vals, bsig.BitDepth)
           /\ \A c \in exists : /\ Rel(c) \in Int /\ Vals[c] = Abs(Rel(c)) /\ Vals[c] \in Nat
                                /\ c \in sign <=> Rel(c) < 0
                                /\ Vals[c] < pow2[bsig.BitDepth]
                                /\ written[c] \in Int /\ written[c] = Rel(c) + bsig.Base
                                /\ bsig.Min <= written[c] /\ written[c] <= bsig.Max
<1>1. /\ bsig.BitDepth \in Nat /\ bsig.Base \in Int /\ bsig.Min \in Int /\ bsig.Max \in Int
      /\ exists \subseteq Column /\ bsig.BitDepth <= MaxDepth /\ MaxDepth \in Nat
  BY BsiAssumption DEF BsiInv, BsiType
<1>2. ASSUME NEW c \in exists
      PROVE  /\ Rel(c) \in Int /\ Vals[c] = Abs(Rel(c)) /\ Vals[c] \in Nat
             /\ c \in sign <=> Rel(c) < 0
             /\ Vals[c] < pow2[bsig.BitDepth]
             /\ written[c] \in Int /\ written[c] = Rel(c) + bsig.Base
             /\ bsig.Min <= written[c] /\ written[c] <= bsig.Max
             /\ RowsHold(c, Vals[c], bsig.BitDepth)
  <2>1. Stored(c)
    BY <1>1 DEF BsiInv, StoredInv
  <2>2. written[c] \in Int /\ bsig.Min <= written[c] /\ written[c] <= bsig.Max
    BY <1>1, <2>1 DEF Stored
  <2>3. Rel(c) \in Int /\ written[c] = Rel(c) + bsig.Base /\ (c \in sign <=> Rel(c) < 0)
    BY <1>1, <2>1, <2>2 DEF Rel, Stored
  <2>4. Vals[c] = Unsigned(c) /\ Unsigned(c) = Abs(Rel(c))
    BY DEF Vals, Unsigned, Rel
  <2>5. Abs(Rel(c)) \in Nat
    BY <2>3, AbsNat
  <2>6. Unsigned(c) < pow2[bsig.BitDepth] /\ \A i \in DepthRange : c \in bit[i] <=> BitOf(Unsigned(c), i) = 1
    BY <2>1 DEF Stored
  <2>7. 0..(bsig.BitDepth - 1) \subseteq DepthRange
    BY <1>1 DEF DepthRange
  <2>8. RowsHold(c, Unsigned(c), bsig.BitDepth)
    BY <2>6, <2>7 DEF RowsHold
  <2> QED BY <2>2, <2>3, <2>4, <2>5, <2>6, <2>8
<1>3. \A S \in SUBSET exists : RowsVal(S, Vals, bsig.BitDepth)
  BY <1>2 DEF RowsVal
<1>4. HasValue = exists
  <2>1. ASSUME NEW c \in Column PROVE written[c] # None <=> c \in exists
    <3>1. CASE c \in exists
      BY <1>2, <3>1, BsiAssumption
    <3>2. CASE c \notin exists
      BY <3>2 DEF BsiInv, StoredInv
    <3> QED BY <3>1, <3>2
  <2> QED BY <1>1, <2>1 DEF HasValue
<1> QED BY <1>1, <1>2, <1>3, <1>4

\* fragment.rangeEQ.
LEMMA EQIs ==
    ASSUME BsiInv, NEW p \in Int
    PROVE  \A c : c \in rangeEQ(bsig.BitDepth, p) <=> c \in exists /\ Rel(c) = p
<1> DEFINE d == bsig.BitDepth
           S == IF p < 0 THEN exists \cap sign ELSE exists \ sign
           u == Abs(p)
           R == rangeEQ(d, p)
<1>1. /\ d \in Nat /\ RowsVal(S, Vals, d)
      /\ \A c \in exists : /\ Rel(c) \in Int /\ Vals[c] = Abs(Rel(c)) /\ Vals[c] \in Nat
                           /\ c \in sign <=> Rel(c) < 0
                           /\ Vals[c] < pow2[d]
  <2>1. S \in SUBSET exists
    OBVIOUS
  <2> HIDE DEF S
  <2> QED BY <2>1, Slices
<1>2. u \in Nat /\ pow2[d] \in Nat
  BY <1>1, AbsNat, Pow2Def
<1>3. R = IF bitDepth(u) > d THEN {} ELSE MatchRows(u, S, d, 0)
  BY DEF rangeEQ
<1>4. ASSUME NEW c \in exists PROVE Rel(c) = p <=> c \in S /\ Vals[c] = u
  BY <1>1 DEF Abs
<1>5. \A c \in S : c \in exists
  OBVIOUS
<1> HIDE DEF d, S, u, R
<1>6. bitDepth(u) > d <=> u >= pow2[d]
  BY <1>1, <1>2, BitDepthLeast
<1>7. CASE bitDepth(u) > d
  <2>1. \A c \in exists : Vals[c] # u
    BY <1>1, <1>2, <1>6, <1>7
  <2>2. R = {}
    BY <1>3, <1>7
  <2>3. \A c : c \in R <=> c \in exists /\ Rel(c) = p
    BY <1>4, <2>1, <2>2
  <2> QED BY <2>3 DEF R, d
<1>8. CASE ~(bitDepth(u) > d)
  <2>1. u < pow2[d] /\ 0 \in 0..d
    BY <1>1, <1>2, <1>6, <1>8
  <2>2. MatchRows(u, S, d, 0) = {c \in S : Shr(Vals[c], 0) = Shr(u, 0)}
    BY <1>1, <1>2, <2>1, MatchIs
  <2>3. Shr(u, 0) = u /\ \A c \in S : Shr(Vals[c], 0) = Vals[c]
    BY <1>1, <1>2, <1>5, ShrStep
  <2>4. \A c : c \in R <=> c \in S /\ Vals[c] = u
    BY <1>3, <1>8, <2>2, <2>3
  <2>5. \A c : c \in R <=> c \in exists /\ Rel(c) = p
    BY <1>4, <1>5, <2>4
  <2> QED BY <2>5 DEF R, d
<1> QED BY <1>7, <1>8

\* fragment.rangeLT.
LEMMA LTIs ==
    ASSUME BsiInv, NEW p \in Int, NEW eq \in BOOLEAN
    PROVE  \A c : c \in rangeLT(bsig.BitDepth, p, eq) <=> c \in exists /\ (Rel(c) < p \/ (eq /\ Rel(c) = p))
<1> DEFINE d == bsig.BitDepth
           one == p = 1 /\ ~eq
           q == IF one THEN 0 ELSE p
           E == eq \/ one
           neg == exists \cap sign
           pos == exists \ sign
           R == rangeLT(d, p, eq)
           W(c) == c \in exists /\ (Rel(c) < q \/ (E /\ Rel(c) = q))
<1>1. /\ d \in Nat /\ RowsVal(neg, Vals, d) /\ RowsVal(pos, Vals, d)
      /\ \A c \in exists : /\ Rel(c) \in Int /\ Vals[c] = Abs(Rel(c)) /\ Vals[c] \in Nat
                           /\ c \in sign <=> Rel(c) < 0
  <2>1. neg \in SUBSET exists /\ pos \in SUBSET exists
    OBVIOUS
  <2> HIDE DEF neg, pos
  <2> QED BY <2>1, Slices
<1>2. q \in Int /\ Abs(q) \in Nat
  BY AbsNat
<1>3. \A c : W(c) <=> c \in exists /\ (Rel(c) < p \/ (eq /\ Rel(c) = p))
  BY <1>1
<1>4. R = CASE q = 0 /\ ~E -> neg
            [] q = 0 /\ E -> neg \cup rangeEQ(d, 0)
            [] q < 0 -> rangeGTUnsigned(neg, d, Abs(q), E)
            [] OTHER -> neg \cup rangeLTUnsigned(pos, d, Abs(q), E)
  BY Zenon DEF rangeLT
<1>5. \A c \in exists : /\ c \in neg <=> Rel(c) < 0
                        /\ c \in pos <=> ~(Rel(c) < 0)
                        /\ Rel(c) < 0 => Vals[c] = -Rel(c)
                        /\ ~(Rel(c) < 0) => Vals[c] = Rel(c)
  BY <1>1 DEF Abs
<1>6. /\ neg \subseteq exists /\ pos \subseteq exists
      /\ q < 0 => Abs(q) = -q
      /\ ~(q < 0) => Abs(q) = q
  BY DEF Abs
<1>7. PICK e \in BOOLEAN : (e <=> E) /\ e = E
  OBVIOUS
<1> HIDE DEF neg, pos, q, E, R, d
<1>8. CASE q = 0 /\ ~E
  <2>1. R = neg
    <3>1. ~(q < 0)
      BY <1>8
    <3> QED BY <1>4, <1>8, <3>1, Zenon
  <2> QED BY <1>1, <1>3, <1>5, <1>6, <1>8, <2>1 DEF R, d
<1>9. CASE q = 0 /\ E
  <2>1. R = neg \cup rangeEQ(d, 0)
    <3>1. ~(q < 0)
      BY <1>9
    <3> QED BY <1>4, <1>9, <3>1, Zenon
  <2>2. \A c : c \in rangeEQ(d, 0) <=> c \in exists /\ Rel(c) = 0
    <3> DEFINE z == 0
    <3>1. z \in Int
      OBVIOUS
    <3> HIDE DEF z
    <3>2. \A c : c \in rangeEQ(d, z) <=> c \in exists /\ Rel(c) = z
      BY <3>1, EQIs DEF d
    <3> QED BY <3>2 DEF z
  <2> QED BY <1>1, <1>3, <1>5, <1>6, <1>9, <2>1, <2>2 DEF R, d
<1>10. CASE q < 0
  <2>1. R = rangeGTUnsigned(neg, d, Abs(q), e)
    <3>1. q # 0
      BY <1>2, <1>10
    <3> QED BY <1>4, <1>7, <1>10, <3>1, Zenon
  <2>2. \A c : c \in rangeGTUnsigned(neg, d, Abs(q), e) <=> c \in neg /\ (Vals[c] > Abs(q) \/ (e /\ Vals[c] = Abs(q)))
    BY <1>1, <1>2, GTUnsigned
  <2>3. \A c : c \in R <=> W(c)
    BY <1>1, <1>2, <1>5, <1>6, <1>7, <1>10, <2>1, <2>2
  <2> QED BY <1>3, <2>3 DEF R, d
<1>11. CASE q > 0
  <2>1. R = neg \cup rangeLTUnsigned(pos, d, Abs(q), e)
    <3>1. q # 0 /\ ~(q < 0)
      BY <1>2, <1>11
    <3> QED BY <1>4, <1>7, <3>1, Zenon
  <2>2. \A c : c \in rangeLTUnsigned(pos, d, Abs(q), e) <=> c \in pos /\ (Vals[c] < Abs(q) \/ (e /\ Vals[c] = Abs(q)))
    BY <1>1, <1>2, LTUnsigned
  <2>3. \A c : c \in R <=> W(c)
    BY <1>1, <1>2, <1>5, <1>6, <1>7, <1>11, <2>1, <2>2
  <2> QED BY <1>3, <2>3 DEF R, d
<1> QED BY <1>2, <1>8, <1>9, <1>10, <1>11

\* fragment.rangeNEQ.
LEMMA NEQIs ==
    ASSUME BsiInv, NEW p \in Int
    PROVE  \A c : c \in rangeNEQ(bsig.BitDepth, p) <=> c \in exists /\ Rel(c) # p
<1>1. \A c : c \in rangeEQ(bsig.BitDepth, p) <=> c \in exists /\ Rel(c) = p
  BY EQIs
<1> QED BY <1>1 DEF rangeNEQ

\* fragment.rangeGT.
LEMMA GTIs ==
    ASSUME BsiInv, NEW p \in Int, NEW eq \in BOOLEAN
    PROVE  \A c : c \in rangeGT(bsig.BitDepth, p, eq) <=> c \in exists /\ (Rel(c) > p \/ (eq /\ Rel(c) = p))
<1> DEFINE d == bsig.BitDepth
           one == p = -1 /\ ~eq
           q == IF one THEN 0 ELSE p
           E == eq \/ one
           neg == exists \cap sign
           pos == exists \ sign
           R == rangeGT(d, p, eq)
           W(c) == c \in exists /\ (Rel(c) > q \/ (E /\ Rel(c) = q))
<1>1. /\ d \in Nat /\ RowsVal(neg, Vals, d) /\ RowsVal(pos, Vals, d)
      /\ \A c \in exists : /\ Rel(c) \in Int /\ Vals[c] = Abs(Rel(c)) /\ Vals[c] \in Nat
                           /\ c \in sign <=> Rel(c) < 0
  <2>1. neg \in SUBSET exists /\ pos \in SUBSET exists
    OBVIOUS
  <2> HIDE DEF neg, pos
  <2> QED BY <2>1, Slices
<1>2. q \in Int /\ Abs(q) \in Nat
  BY AbsNat
<1>3. \A c : W(c) <=> c \in exists /\ (Rel(c) > p \/ (eq /\ Rel(c) = p))
  BY <1>1
<1>4. R = CASE q = 0 /\ ~E -> rangeNEQ(d, 0) \ sign
            [] q = 0 /\ E -> pos
            [] q > 0 -> rangeGTUnsigned(pos, d, Abs(q), E)
            [] OTHER -> pos \cup rangeLTUnsigned(neg, d, Abs(q), E)
  BY Zenon DEF rangeGT
<1>5. \A c \in exists : /\ c \in neg <=> Rel(c) < 0
                        /\ c \in pos <=> ~(Rel(c) < 0)
                        /\ Rel(c) < 0 => Vals[c] = -Rel(c)
                        /\ ~(Rel(c) < 0) => Vals[c] = Rel(c)
  BY <1>1 DEF Abs
<1>6. /\ neg \subseteq exists /\ pos \subseteq exists
      /\ q < 0 => Abs(q) = -q
      /\ ~(q < 0) => Abs(q) = q
  BY DEF Abs
<1>7. PICK e \in BOOLEAN : (e <=> E) /\ e = E
  OBVIOUS
<1> HIDE DEF neg, pos, q, E, R, d
<1>8. CASE q = 0 /\ ~E
  <2>1. R = rangeNEQ(d, 0) \ sign
    <3>1. ~(q > 0)
      BY <1>8
    <3> QED BY <1>4, <1>8, <3>1, Zenon
  <2>2. \A c : c \in rangeNEQ(d, 0) <=> c \in exists /\ Rel(c) # 0
    <3> DEFINE z == 0
    <3>1. z \in Int
      OBVIOUS
    <3> HIDE DEF z
    <3>2. \A c : c \in rangeNEQ(d, z) <=> c \in exists /\ Rel(c) # z
      BY <3>1, NEQIs DEF d
    <3> QED BY <3>2 DEF z
  <2>3. \A c : c \in R <=> W(c)
    BY <1>1, <1>8, <2>1, <2>2
  <2> QED BY <1>3, <2>3 DEF R, d
<1>9. CASE q = 0 /\ E
  <2>1. R = pos
    <3>1. ~(q > 0)
      BY <1>9
    <3> QED BY <1>4, <1>9, <3>1, Zenon
  <2>2. \A c : c \in R <=> W(c)
    BY <1>1, <1>5, <1>6, <1>9, <2>1
  <2> QED BY <1>3, <2>2 DEF R, d
<1>10. CASE q > 0
  <2>1. R = rangeGTUnsigned(pos, d, Abs(q), e)
    <3>1. q # 0
      BY <1>2, <1>10
    <3> QED BY <1>4, <1>7, <1>10, <3>1, Zenon
  <2>2. \A c : c \in rangeGTUnsigned(pos, d, Abs(q), e) <=> c \in pos /\ (Vals[c] > Abs(q) \/ (e /\ Vals[c] = Abs(q)))
    BY <1>1, <1>2, GTUnsigned
  <2>3. \A c : c \in R <=> W(c)
    BY <1>1, <1>2, <1>5, <1>6, <1>7, <1>10, <2>1, <2>2
  <2> QED BY <1>3, <2>3 DEF R, d
<1>11. CASE q < 0
  <2>1. R = pos \cup rangeLTUnsigned(neg, d, Abs(q), e)
    <3>1. q # 0 /\ ~(q > 0)
      BY <1>2, <1>11
    <3> QED BY <1>4, <1>7, <3>1, Zenon
  <2>2. \A c : c \in rangeLTUnsigned(neg, d, Abs(q), e) <=> c \in neg /\ (Vals[c] < Abs(q) \/ (e /\ Vals[c] = Abs(q)))
    BY <1>1, <1>2, LTUnsigned
  <2>3. \A c : c \in R <=> W(c)
    BY <1>1, <1>2, <1>5, <1>6, <1>7, <1>11, <2>1, <2>2
  <2> QED BY <1>3, <2>3 DEF R, d
<1> QED BY <1>2, <1>8, <1>9, <1>10, <1>11

\* fragment.rangeBetween.
LEMMA BetweenIs ==
    ASSUME BsiInv, NEW lo \in Int, NEW hi \in Int, lo <= hi
    PROVE  \A c : c \in rangeBetween(bsig.BitDepth, lo, hi) <=> c \in exists /\ lo <= Rel(c) /\ Rel(c) <= hi
<1> DEFINE d == bsig.BitDepth
           neg == exists \cap sign
           pos == exists \ sign
           R == rangeBetween(d, lo, hi)
           W(c) == c \in exists /\ lo <= Rel(c) /\ Rel(c) <= hi
<1>1. /\ d \in Nat /\ RowsVal(neg, Vals, d) /\ RowsVal(pos, Vals, d)
      /\ \A c \in exists : /\ Rel(c) \in Int /\ Vals[c] = Abs(Rel(c)) /\ Vals[c] \in Nat
                           /\ c \in sign <=> Rel(c) < 0
  <2>1. neg \in SUBSET exists /\ pos \in SUBSET exists
    OBVIOUS
  <2> HIDE DEF neg, pos
  <2> QED BY <2>1, Slices
<1>2. \A c \in exists : /\ c \in neg <=> Rel(c) < 0
                        /\ c \in pos <=> ~(Rel(c) < 0)
                        /\ Rel(c) < 0 => Vals[c] = -Rel(c)
                        /\ ~(Rel(c) < 0) => Vals[c] = Rel(c)
  BY <1>1 DEF Abs
<1>3. neg \subseteq exists /\ pos \subseteq exists
  OBVIOUS
<1>4. R = CASE lo = hi -> rangeEQ(d, lo)
            [] lo # hi /\ lo >= 0 -> rangeBetweenUnsigned(pos, d, lo, hi)
            [] lo # hi /\ hi < 0 -> rangeBetweenUnsigned(neg, d, Abs(hi), Abs(lo))
            [] OTHER -> rangeLTUnsigned(pos, d, hi, TRUE) \cup rangeLTUnsigned(neg, d, Abs(lo), TRUE)
  BY Zenon DEF rangeBetween
<1>5. PICK e \in BOOLEAN : e /\ e = TRUE
  OBVIOUS
<1> HIDE DEF neg, pos, R, d
<1>6. CASE lo = hi
  <2>1. R = rangeEQ(d, lo)
    BY <1>4, <1>6, Zenon
  <2>2. \A c : c \in rangeEQ(d, lo) <=> c \in exists /\ Rel(c) = lo
    BY EQIs DEF d
  <2>3. \A c : c \in R <=> W(c)
    BY <1>1, <1>6, <2>1, <2>2
  <2> QED BY <2>3 DEF R, d
<1>7. CASE lo # hi /\ lo >= 0
  <2>1. ~(hi < 0) /\ lo \in Nat /\ hi \in Nat
    BY <1>7
  <2>2. R = rangeBetweenUnsigned(pos, d, lo, hi)
    BY <1>4, <1>7, <2>1, Zenon
  <2>3. rangeBetweenUnsigned(pos, d, lo, hi) = {c \in pos : lo <= Vals[c] /\ Vals[c] <= hi}
    BY <1>1, <2>1, BetweenUnsigned
  <2>4. \A c : c \in R <=> W(c)
    BY <1>1, <1>2, <1>3, <2>1, <2>2, <2>3
  <2> QED BY <2>4 DEF R, d
<1>8. CASE lo # hi /\ hi < 0
  <2> DEFINE l == Abs(hi)
             h == Abs(lo)
  <2>1. ~(lo >= 0) /\ l = -hi /\ h = -lo
    BY <1>8 DEF Abs
  <2>2. l \in Nat /\ h \in Nat /\ l <= h
    BY <1>8, <2>1
  <2>3. R = rangeBetweenUnsigned(neg, d, l, h)
    BY <1>4, <1>8, <2>1, Zenon
  <2> HIDE DEF l, h
  <2>4. rangeBetweenUnsigned(neg, d, l, h) = {c \in neg : l <= Vals[c] /\ Vals[c] <= h}
    BY <1>1, <2>2, BetweenUnsigned
  <2>5. \A c : c \in R <=> W(c)
    BY <1>1, <1>2, <1>3, <1>8, <2>1, <2>3, <2>4
  <2> QED BY <2>5 DEF R, d
<1>9. CASE lo # hi /\ ~(lo >= 0) /\ ~(hi < 0)
  <2> DEFINE h == Abs(lo)
  <2>1. h = -lo
    BY <1>9 DEF Abs
  <2>2. h \in Nat /\ hi \in Nat
    BY <1>9, <2>1
  <2>3. R = rangeLTUnsigned(pos, d, hi, e) \cup rangeLTUnsigned(neg, d, h, e)
    BY <1>4, <1>5, <1>9, Zenon
  <2> HIDE DEF h
  <2>4. \A c : c \in rangeLTUnsigned(pos, d, hi, e) <=> c \in pos /\ Vals[c] <= hi
    BY <1>1, <1>5, <2>2, AtMostUnsigned
  <2>5. \A c : c \in rangeLTUnsigned(neg, d, h, e) <=> c \in neg /\ Vals[c] <= h
    BY <1>1, <1>5, <2>2, AtMostUnsigned
  <2>6. \A c : c \in R <=> W(c)
    BY <1>1, <1>2, <1>3, <1>9, <2>1, <2>3, <2>4, <2>5
  <2> QED BY <2>6 DEF R, d
<1> QED BY <1>6, <1>7, <1>8, <1>9

-----------------------------------------------------------------------------
(* Queries *)

Ops == {"EQ", "NEQ", "LT", "LTE", "GT", "GTE"}

LEMMA CompareIs ==
    \A x, y : /\ Compare("EQ", x, y) <=> x = y
              /\ Compare("NEQ", x, y) <=> x # y
              /\ Compare("LT", x, y) <=> x < y
              /\ Compare("LTE", x, y) <=> x <= y
              /\ Compare("GT", x, y) <=> x > y
              /\ Compare("GTE", x, y) <=> x >= y
BY DEF Compare

\* bsiGroup.baseValue: within the bits in use the comparison with the number it
\* returns is the one that was asked for; outOfRange means that nothing compares,
\* or everything for "not equal".
LEMMA BaseValueIs ==
    ASSUME BsiInv, NEW op \in Ops, NEW v \in Int
    PROVE  LET x == baseValue(op, v)
               r == v - bsig.Base
               In(y) == -pow2[bsig.BitDepth] < y /\ y < pow2[bsig.BitDepth]
           IN  \/ x = None /\ \A y \in Int : In(y) => (Compare(op, y, r) <=> op = "NEQ")
               \/ x \in Int /\ \A y \in Int : In(y) => (Compare(op, y, x) <=> Compare(op, y, r))
<1> DEFINE x == baseValue(op, v)
           r == v - bsig.Base
           P == pow2[bsig.BitDepth]
           b == bsig.Base
           In(y) == -P < y /\ y < P
           below == v < bitDepthMin
           above == v > bitDepthMax
           W == \/ x = None /\ \A y \in Int : In(y) => (Compare(op, y, r) <=> op = "NEQ")
                \/ x \in Int /\ \A y \in Int : In(y) => (Compare(op, y, x) <=> Compare(op, y, r))
<1>1. b \in Int /\ P \in Nat /\ P > 0
  BY Slices, Pow2Def
<1>2. x = CASE op \in {"GT", "GTE"} /\ above -> None
            [] op \in {"GT", "GTE"} /\ below -> bitDepthMin - b - (IF op = "GT" THEN 1 ELSE 0)
            [] op \in {"LT", "LTE"} /\ below -> None
            [] op \in {"LT", "LTE"} /\ above -> bitDepthMax - b + (IF op = "LT" THEN 1 ELSE 0)
            [] op \in {"EQ", "NEQ"} /\ (below \/ above) -> None
            [] OTHER -> v - b
  BY DEF baseValue
<1>3. bitDepthMin = b - P + 1 /\ bitDepthMax = b + P - 1
  BY DEF bitDepthMin, bitDepthMax
<1>4. (below <=> r <= -P) /\ (above <=> r >= P) /\ r \in Int
  BY <1>1, <1>3
<1>5. ~(below /\ above)
  BY <1>1, <1>4
<1> HIDE DEF x, P, b, below, above
<1>6. ASSUME op = "EQ" PROVE W
  <2>1. CASE below \/ above
    <3>1. x = None
      BY <1>2, <1>5, <1>6, <2>1
    <3>2. \A y \in Int : In(y) => (Compare(op, y, r) <=> op = "NEQ")
      BY <1>1, <1>4, <1>6, <2>1, CompareIs
    <3> QED BY <3>1, <3>2
  <2>2. CASE ~below /\ ~above
    <3>1. x = v - b
      BY <1>2, <1>6, <2>2
    <3>2. x \in Int /\ x = r
      BY <1>1, <3>1 DEF b
    <3> QED BY <3>2
  <2> QED BY <2>1, <2>2
<1>7. ASSUME op = "NEQ" PROVE W
  <2>1. CASE below \/ above
    <3>1. x = None
      BY <1>2, <1>5, <1>7, <2>1
    <3>2. \A y \in Int : In(y) => (Compare(op, y, r) <=> op = "NEQ")
      BY <1>1, <1>4, <1>7, <2>1, CompareIs
    <3> QED BY <3>1, <3>2
  <2>2. CASE ~below /\ ~above
    <3>1. x = v - b
      BY <1>2, <1>7, <2>2
    <3>2. x \in Int /\ x = r
      BY <1>1, <3>1 DEF b
    <3> QED BY <3>2
  <2> QED BY <2>1, <2>2
<1>8. ASSUME op = "LT" PROVE W
  <2>1. CASE below
    <3>1. x = None
      BY <1>2, <1>5, <1>8, <2>1
    <3>2. \A y \in Int : In(y) => (Compare(op, y, r) <=> op = "NEQ")
      BY <1>1, <1>4, <1>8, <2>1, CompareIs
    <3> QED BY <3>1, <3>2
  <2>2. CASE above
    <3>1. x = P
      BY <1>1, <1>2, <1>3, <1>5, <1>8, <2>2
    <3>2. x \in Int /\ \A y \in Int : In(y) => (Compare(op, y, x) <=> Compare(op, y, r))
      BY <1>1, <1>4, <1>8, <2>2, <3>1, CompareIs
    <3> QED BY <3>2
  <2>3. CASE ~below /\ ~above
    <3>1. x = v - b
      BY <1>2, <1>8, <2>3
    <3>2. x \in Int /\ x = r
      BY <1>1, <3>1 DEF b
    <3> QED BY <3>2
  <2> QED BY <2>1, <2>2, <2>3
<1>9. ASSUME op = "LTE" PROVE W
  <2>1. CASE below
    <3>1. x = None
      BY <1>2, <1>5, <1>9, <2>1
    <3>2. \A y \in Int : In(y) => (Compare(op, y, r) <=> op = "NEQ")
      BY <1>1, <1>4, <1>9, <2>1, CompareIs
    <3> QED BY <3>1, <3>2
  <2>2. CASE above
    <3>1. x = P - 1
      BY <1>1, <1>2, <1>3, <1>5, <1>9, <2>2
    <3>2. x \in Int /\ \A y \in Int : In(y) => (Compare(op, y, x) <=> Compare(op, y, r))
      BY <1>1, <1>4, <1>9, <2>2, <3>1, CompareIs
    <3> QED BY <3>2
  <2>3. CASE ~below /\ ~above
    <3>1. x = v - b
      BY <1>2, <1>9, <2>3
    <3>2. x \in Int /\ x = r
      BY <1>1, <3>1 DEF b
    <3> QED BY <3>2
  <2> QED BY <2>1, <2>2, <2>3
<1>10. ASSUME op = "GT" PROVE W
  <2>1. CASE above
    <3>1. x = None
      BY <1>2, <1>5, <1>10, <2>1
    <3>2. \A y \in Int : In(y) => (Compare(op, y, r) <=> op = "NEQ")
      BY <1>1, <1>4, <1>10, <2>1, CompareIs
    <3> QED BY <3>1, <3>2
  <2>2. CASE below
    <3>1. x = -P
      BY <1>1, <1>2, <1>3, <1>5, <1>10, <2>2
    <3>2. x \in Int /\ \A y \in Int : In(y) => (Compare(op, y, x) <=> Compare(op, y, r))
      BY <1>1, <1>4, <1>10, <2>2, <3>1, CompareIs
    <3> QED BY <3>2
  <2>3. CASE ~below /\ ~above
    <3>1. x = v - b
      BY <1>2, <1>10, <2>3
    <3>2. x \in Int /\ x = r
      BY <1>1, <3>1 DEF b
    <3> QED BY <3>2
  <2> QED BY <2>1, <2>2, <2>3
<1>11. ASSUME op = "GTE" PROVE W
  <2>1. CASE above
    <3>1. x = None
      BY <1>2, <1>5, <1>11, <2>1
    <3>2. \A y \in Int : In(y) => (Compare(op, y, r) <=> op = "NEQ")
      BY <1>1, <1>4, <1>11, <2>1, CompareIs
    <3> QED BY <3>1, <3>2
  <2>2. CASE below
    <3>1. x = -P + 1
      BY <1>1, <1>2, <1>3, <1>5, <1>11, <2>2
    <3>2. x \in Int /\ \A y \in Int : In(y) => (Compare(op, y, x) <=> Compare(op, y, r))
      BY <1>1, <1>4, <1>11, <2>2, <3>1, CompareIs
    <3> QED BY <3>2
  <2>3. CASE ~below /\ ~above
    <3>1. x = v - b
      BY <1>2, <1>11, <2>3
    <3>2. x \in Int /\ x = r
      BY <1>1, <3>1 DEF b
    <3> QED BY <3>2
  <2> QED BY <2>1, <2>2, <2>3
<1>12. W
  BY <1>6, <1>7, <1>8, <1>9, <1>10, <1>11 DEF Ops
<1> QED BY <1>12 DEF x, P

\* fragment.rangeOp.
LEMMA RangeOpIs ==
    ASSUME BsiInv, NEW op \in Ops, NEW p \in Int
    PROVE  \A c : c \in rangeOp(op, bsig.BitDepth, p) <=> c \in exists /\ Compare(op, Rel(c), p)
<1> DEFINE d == bsig.BitDepth
           E == op = "LTE"
           F == op = "GTE"
<1>1. rangeOp(op, d, p) = CASE op = "EQ" -> rangeEQ(d, p)
                            [] op = "NEQ" -> rangeNEQ(d, p)
                            [] op \in {"LT", "LTE"} -> rangeLT(d, p, E)
                            [] op \in {"GT", "GTE"} -> rangeGT(d, p, F)
  BY Zenon DEF rangeOp
<1>2. PICK e \in BOOLEAN : e = E /\ (e <=> op = "LTE")
  OBVIOUS
<1>3. PICK f \in BOOLEAN : f = F /\ (f <=> op = "GTE")
  OBVIOUS
<1>4. \A c \in exists : Rel(c) \in Int
  BY Slices
<1> HIDE DEF d, E, F
<1>5. CASE op = "EQ"
  <2>1. op # "NEQ" /\ op \notin {"LT", "LTE"} /\ op \notin {"GT", "GTE"}
    BY <1>5
  <2>2. rangeOp(op, d, p) = rangeEQ(d, p)
    BY <1>1, <1>5, <2>1, Zenon
  <2> QED BY <1>5, <2>2, EQIs, CompareIs DEF d
<1>6. CASE op = "NEQ"
  <2>1. op # "EQ" /\ op \notin {"LT", "LTE"} /\ op \notin {"GT", "GTE"}
    BY <1>6
  <2>2. rangeOp(op, d, p) = rangeNEQ(d, p)
    BY <1>1, <1>6, <2>1, Zenon
  <2> QED BY <1>6, <2>2, NEQIs, CompareIs DEF d
<1>7. CASE op \in {"LT", "LTE"}
  <2>1. op # "EQ" /\ op # "NEQ" /\ op \notin {"GT", "GTE"}
    BY <1>7
  <2>2. rangeOp(op, d, p) = rangeLT(d, p, e)
    BY <1>1, <1>2, <1>7, <2>1, Zenon
  <2>3. \A c : c \in rangeLT(d, p, e) <=> c \in exists /\ (Rel(c) < p \/ (e /\ Rel(c) = p))
    BY LTIs DEF d
  <2>4. \A c \in exists : Compare(op, Rel(c), p) <=> Rel(c) < p \/ (e /\ Rel(c) = p)
    BY <1>2, <1>4, <1>7, CompareIs
  <2> QED BY <2>2, <2>3, <2>4 DEF d
<1>8. CASE op \in {"GT", "GTE"}
  <2>1. op # "EQ" /\ op # "NEQ" /\ op \notin {"LT", "LTE"}
    BY <1>8
  <2>2. rangeOp(op, d, p) = rangeGT(d, p, f)
    BY <1>1, <1>3, <1>8, <2>1, Zenon
  <2>3. \A c : c \in rangeGT(d, p, f) <=> c \in exists /\ (Rel(c) > p \/ (f /\ Rel(c) = p))
    BY GTIs DEF d
  <2>4. \A c \in exists : Compare(op, Rel(c), p) <=> Rel(c) > p \/ (f /\ Rel(c) = p)
    BY <1>3, <1>4, <1>8, CompareIs
  <2> QED BY <2>2, <2>3, <2>4 DEF d
<1> QED BY <1>5, <1>6, <1>7, <1>8 DEF Ops

\* A comparison (executeRowBSIGroupShard) selects the columns that satisfy it.
LEMMA RowIs ==
    ASSUME BsiInv, NEW op \in Ops, NEW v \in Int
    PROVE  executeRow(op, v) = {c \in HasValue : Compare(op, written[c], v)}
<1> DEFINE x == baseValue(op, v)
           r == v - bsig.Base
           P == pow2[bsig.BitDepth]
           In(y) == -P < y /\ y < P
           all == \/ op = "LT" /\ v > bsig.Max
                  \/ op = "LTE" /\ v >= bsig.Max
                  \/ op = "GT" /\ v < bsig.Min
                  \/ op = "GTE" /\ v <= bsig.Min
           R == executeRow(op, v)
<1>1. /\ bsig.Base \in Int /\ bsig.Min \in Int /\ bsig.Max \in Int /\ HasValue = exists
      /\ \A c \in exists : /\ Rel(c) \in Int /\ Vals[c] = Abs(Rel(c)) /\ Vals[c] < P
                           /\ written[c] \in Int /\ written[c] = Rel(c) + bsig.Base
                           /\ bsig.Min <= written[c] /\ written[c] <= bsig.Max
  BY Slices
<1>2. P \in Nat
  BY Slices, Pow2Def
<1>3. \A c \in exists : In(Rel(c))
  BY <1>1, <1>2 DEF Abs
<1>4. ASSUME NEW c \in exists PROVE Compare(op, written[c], v) <=> Compare(op, Rel(c), r)
  BY <1>1, <1>4, CompareIs DEF Ops
<1>5. \/ x = None /\ \A y \in Int : In(y) => (Compare(op, y, r) <=> op = "NEQ")
      \/ x \in Int /\ \A y \in Int : In(y) => (Compare(op, y, x) <=> Compare(op, y, r))
  BY BaseValueIs
<1>6. R = IF x = None /\ op # "NEQ" THEN {}
          ELSE IF all \/ x = None THEN exists ELSE rangeOp(op, bsig.BitDepth, x)
  BY Zenon DEF executeRow
<1>7. all => \A c \in exists : Compare(op, written[c], v)
  BY <1>1, CompareIs
<1>8. None \notin Int
  BY BsiAssumption
<1> HIDE DEF x, r, In, all, R
<1>9. \A c : c \in R <=> c \in exists /\ Compare(op, written[c], v)
  <2>1. CASE x = None
    <3>1. \A c \in exists : Compare(op, written[c], v) <=> op = "NEQ"
      BY <1>1, <1>3, <1>4, <1>5, <1>8, <2>1
    <3> QED BY <1>6, <2>1, <3>1
  <2>2. CASE x # None /\ all
    BY <1>6, <1>7, <2>2
  <2>3. CASE x # None /\ ~all
    <3>1. x \in Int /\ \A y \in Int : In(y) => (Compare(op, y, x) <=> Compare(op, y, r))
      BY <1>5, <2>3
    <3>2. R = rangeOp(op, bsig.BitDepth, x)
      BY <1>6, <2>3
    <3>3. \A c : c \in rangeOp(op, bsig.BitDepth, x) <=> c \in exists /\ Compare(op, Rel(c), x)
      BY <3>1, RangeOpIs
    <3>4. \A c \in exists : Compare(op, Rel(c), x) <=> Compare(op, written[c], v)
      BY <1>1, <1>3, <1>4, <3>1
    <3> QED BY <3>2, <3>3, <3>4
  <2> QED BY <2>1, <2>2, <2>3
<1> QED BY <1>1, <1>9 DEF R

LEMMA GreaterOf ==
    ASSUME NEW x \in Int, NEW y \in Int
    PROVE  Max({x, y}) = IF x >= y THEN x ELSE y
<1> DEFINE S == {x, y}
           b == IF x >= y THEN x ELSE y
<1>1. S \in SUBSET Int /\ S # {} /\ b \in Int /\ (\A z \in S : z <= b) /\ b \in S
  OBVIOUS
<1>2. \A z \in S : z \in Int
  OBVIOUS
<1> HIDE DEF S, b
<1>3. Max(S) \in S /\ \A z \in S : z <= Max(S)
  BY <1>1, MaxOfBounded
<1>4. Max(S) = b
  <2> DEFINE m == Max(S)
  <2>1. m \in Int /\ m <= b /\ b <= m
    BY <1>1, <1>2, <1>3
  <2> HIDE DEF m
  <2>2. m = b
    BY <1>1, <2>1
  <2> QED BY <2>2 DEF m
<1> QED BY <1>4 DEF S, b

LEMMA LesserOf ==
    ASSUME NEW x \in Int, NEW y \in Int
    PROVE  Min({x, y}) = IF x <= y THEN x ELSE y
<1> DEFINE S == {x, y}
           b == IF x <= y THEN x ELSE y
<1>1. S \in SUBSET Int /\ S # {} /\ b \in Int /\ (\A z \in S : b <= z) /\ b \in S
  OBVIOUS
<1>2. \A z \in S : z \in Int
  OBVIOUS
<1> HIDE DEF S, b
<1>3. Min(S) \in S /\ \A z \in S : Min(S) <= z
  BY <1>1, MinOfBounded
<1>4. Min(S) = b
  <2> DEFINE m == Min(S)
  <2>1. m \in Int /\ m <= b /\ b <= m
    BY <1>1, <1>2, <1>3
  <2> HIDE DEF m
  <2>2. m = b
    BY <1>1, <2>1
  <2> QED BY <2>2 DEF m
<1> QED BY <1>4 DEF S, b

\* BETWEEN selects the columns within the bounds.
LEMMA BetweenRowIs ==
    ASSUME BsiInv, NEW lo \in Int, NEW hi \in Int
    PROVE  executeBetween(lo, hi) = {c \in HasValue : lo <= written[c] /\ written[c] <= hi}
<1> DEFINE P == pow2[bsig.BitDepth]
           b == bsig.Base
           l == Max({lo, bitDepthMin}) - b
           h == Min({hi, bitDepthMax}) - b
           R == executeBetween(lo, hi)
           none == hi < bitDepthMin \/ lo > bitDepthMax \/ hi < lo
           all == lo <= bsig.Min /\ hi >= bsig.Max
<1>1. /\ b \in Int /\ bsig.Min \in Int /\ bsig.Max \in Int /\ HasValue = exists
      /\ \A c \in exists : /\ Rel(c) \in Int /\ Vals[c] = Abs(Rel(c)) /\ Vals[c] < P
                           /\ written[c] \in Int /\ written[c] = Rel(c) + b
                           /\ bsig.Min <= written[c] /\ written[c] <= bsig.Max
  BY Slices
<1>2. P \in Nat /\ P > 0
  BY Slices, Pow2Def
<1>3. bitDepthMin = b - P + 1 /\ bitDepthMax = b + P - 1
  BY DEF bitDepthMin, bitDepthMax
<1>4. bitDepthMin \in Int /\ bitDepthMax \in Int
  BY <1>1, <1>2, <1>3
<1>5. \A c \in exists : -P < Rel(c) /\ Rel(c) < P
  BY <1>1, <1>2 DEF Abs
<1>6. /\ l = (IF lo >= bitDepthMin THEN lo ELSE bitDepthMin) - b
      /\ h = (IF hi <= bitDepthMax THEN hi ELSE bitDepthMax) - b
  BY <1>4, GreaterOf, LesserOf
<1>7. R = IF none THEN {} ELSE IF all THEN exists ELSE rangeBetween(bsig.BitDepth, l, h)
  BY Zenon DEF executeBetween
<1> HIDE DEF l, h, R, P, b
<1>8. \A c : c \in R <=> c \in exists /\ lo <= written[c] /\ written[c] <= hi
  <2>1. CASE none
    <3>1. \A c \in exists : ~(lo <= written[c] /\ written[c] <= hi)
      BY <1>1, <1>2, <1>3, <1>5, <2>1
    <3> QED BY <1>7, <2>1, <3>1
  <2>2. CASE ~none /\ all
    <3>1. \A c \in exists : lo <= written[c] /\ written[c] <= hi
      BY <1>1, <2>2
    <3> QED BY <1>7, <2>2, <3>1
  <2>3. CASE ~none /\ ~all
    <3>1. l \in Int /\ h \in Int /\ l <= h
      BY <1>1, <1>2, <1>3, <1>6, <2>3
    <3>2. R = rangeBetween(bsig.BitDepth, l, h)
      BY <1>7, <2>3
    <3>3. \A c : c \in rangeBetween(bsig.BitDepth, l, h) <=> c \in exists /\ l <= Rel(c) /\ Rel(c) <= h
      BY <3>1, BetweenIs
    <3>4. ASSUME NEW c \in exists PROVE l <= Rel(c) /\ Rel(c) <= h <=> lo <= written[c] /\ written[c] <= hi
      BY <1>1, <1>2, <1>3, <1>5, <1>6
    <3> QED BY <3>2, <3>3, <3>4
  <2> QED BY <2>1, <2>2, <2>3
<1> QED BY <1>1, <1>8 DEF R

LEMMA InvRowsMatch == BsiInv => RowsMatch
<1> SUFFICES ASSUME BsiInv PROVE RowsMatch
  OBVIOUS
<1>1. Predicates \subseteq Int
  BY Slices DEF Predicates
<1>2. ASSUME NEW op \in Ops, NEW v \in Predicates
      PROVE  executeRow(op, v) = {c \in HasValue : Compare(op, written[c], v)}
  BY <1>1, RowIs
<1>3. ASSUME NEW lo \in Predicates, NEW hi \in Predicates
      PROVE  executeBetween(lo, hi) = {c \in HasValue : lo <= written[c] /\ written[c] <= hi}
  BY <1>1, BetweenRowIs
<1> QED BY <1>2, <1>3 DEF RowsMatch, Ops

\* fragment.minUnsigned.
LEMMA MinUnsignedIs ==
    ASSUME NEW filter, filter # {}, NEW val, NEW d \in Nat, RowsVal(filter, val, d)
    PROVE  \E m \in Nat : /\ minUnsigned(filter, d) = [val |-> m, count |-> Cardinality({c \in filter : val[c] = m})]
                          /\ \E c \in filter : val[c] = m
                          /\ \A c \in filter : m <= val[c]
<1> DEFINE s == MinLoop(filter, d)
           m == s.val
<1>1. minUnsigned(filter, d) = [val |-> m, count |-> Cardinality(s.filter)]
  BY DEF minUnsigned, MinLoop
<1>2. /\ m \in Nat /\ s.filter # {}
      /\ \A c \in filter : val[c] >= m
      /\ \A c : c \in s.filter <=> c \in filter /\ val[c] = m
  <2>1. filter # {} /\ d \in Nat /\ RowsVal(filter, val, d)
    OBVIOUS
  <2>2. MinLoop(filter, d).val \in Nat
    BY MinLoopIs, <2>1
  <2>3. MinLoop(filter, d).filter # {}
    BY MinLoopIs, <2>1
  <2>4. \A c \in filter : val[c] >= MinLoop(filter, d).val
    BY MinLoopIs, <2>1
  <2>5. \A c : c \in MinLoop(filter, d).filter <=> c \in filter /\ val[c] = MinLoop(filter, d).val
    BY MinLoopIs, <2>1
  <2> QED BY <2>2, <2>3, <2>4, <2>5
<1>3. \A c \in filter : val[c] \in Nat
  BY DEF RowsVal
<1> HIDE DEF s
<1>4. minUnsigned(filter, d) = [val |-> m, count |-> Cardinality({c \in filter : val[c] = m})]
  BY <1>1, <1>2
<1> HIDE DEF m
<1>5. (\E c \in filter : val[c] = m) /\ \A c \in filter : m <= val[c]
  BY <1>2, <1>3
<1> QED BY <1>2, <1>4, <1>5

\* fragment.maxUnsigned.
LEMMA MaxUnsignedIs ==
    ASSUME NEW filter, filter # {}, NEW val, NEW d \in Nat, RowsVal(filter, val, d)
    PROVE  \E m \in Nat : /\ maxUnsigned(filter, d) = [val |-> m, count |-> Cardinality({c \in filter : val[c] = m})]
                          /\ \E c \in filter : val[c] = m
                          /\ \A c \in filter : m >= val[c]
<1> DEFINE s == MaxLoop(filter, d)
           m == s.val
<1>1. maxUnsigned(filter, d) = [val |-> m, count |-> Cardinality(s.filter)]
  BY DEF maxUnsigned, MaxLoop
<1>2. /\ m \in Nat /\ s.filter # {}
      /\ \A c \in filter : val[c] <= m
      /\ \A c : c \in s.filter <=> c \in filter /\ val[c] = m
  <2>1. filter # {} /\ d \in Nat /\ RowsVal(filter, val, d)
    OBVIOUS
  <2>2. MaxLoop(filter, d).val \in Nat
    BY MaxLoopIs, <2>1
  <2>3. MaxLoop(filter, d).filter # {}
    BY MaxLoopIs, <2>1
  <2>4. \A c \in filter : val[c] <= MaxLoop(filter, d).val
    BY MaxLoopIs, <2>1
  <2>5. \A c : c \in MaxLoop(filter, d).filter <=> c \in filter /\ val[c] = MaxLoop(filter, d).val
    BY MaxLoopIs, <2>1
  <2> QED BY <2>2, <2>3, <2>4, <2>5
<1>3. \A c \in filter : val[c] \in Nat
  BY DEF RowsVal
<1> HIDE DEF s
<1>4. maxUnsigned(filter, d) = [val |-> m, count |-> Cardinality({c \in filter : val[c] = m})]
  BY <1>1, <1>2
<1> HIDE DEF m
<1>5. (\E c \in filter : val[c] = m) /\ \A c \in filter : m >= val[c]
  BY <1>2, <1>3
<1> QED BY <1>2, <1>4, <1>5

\* Field.MinForShard: w is the answer.
LEMMA MinForShardIs ==
    ASSUME BsiInv, NEW filter \in SUBSET Column, filter \cap HasValue # {}
    PROVE  \E w \in Int :
              /\ MinForShard(filter) = [val |-> w, count |-> Cardinality({c \in filter \cap HasValue : written[c] = w})]
              /\ \E c \in filter \cap HasValue : written[c] = w
              /\ \A c \in filter \cap HasValue : w <= written[c]
<1> DEFINE d == bsig.BitDepth
           b == bsig.Base
           consider == exists \cap filter
           some == sign \cap consider
           f == fragmentMin(filter, d)
           Answer(w) == /\ MinForShard(filter) = [val |-> w, count |-> Cardinality({c \in consider : written[c] = w})]
                        /\ \E c \in consider : written[c] = w
                        /\ \A c \in consider : w <= written[c]
<1>1. /\ d \in Nat /\ b \in Int /\ HasValue = exists /\ RowsVal(consider, Vals, d) /\ RowsVal(some, Vals, d)
      /\ \A c \in consider : /\ Rel(c) \in Int /\ Vals[c] = Abs(Rel(c)) /\ Vals[c] \in Nat
                             /\ c \in sign <=> Rel(c) < 0
                             /\ written[c] \in Int /\ written[c] = Rel(c) + b
  <2>1. consider \in SUBSET exists /\ some \in SUBSET exists
    OBVIOUS
  <2> HIDE DEF consider, some
  <2> QED BY <2>1, Slices
<1>2. consider # {} /\ some \subseteq consider
  BY <1>1
<1>3. filter \cap HasValue = consider
  BY <1>1
<1>4. MinForShard(filter) = [f EXCEPT !.val = @ + b]
  BY DEF MinForShard, ForShard
<1>5. /\ \A c \in consider : Rel(c) < 0 => Vals[c] = -Rel(c)
      /\ \A c \in consider : ~(Rel(c) < 0) => Vals[c] = Rel(c)
      /\ \A c \in consider : c \in some <=> Rel(c) < 0
  BY <1>1 DEF Abs
<1>6. f = CASE consider = {} -> [val |-> 0, count |-> 0]
            [] consider # {} /\ some # {} -> Negate(maxUnsigned(some, d))
            [] OTHER -> minUnsigned(consider, d)
  BY DEF fragmentMin
<1> SUFFICES \E w \in Int : Answer(w)
  BY <1>3
<1> HIDE DEF consider, some, f, d, b
<1>7. CASE some # {}
  <2>1. f = Negate(maxUnsigned(some, d))
    BY <1>2, <1>6, <1>7
  <2>2. PICK m \in Nat : /\ maxUnsigned(some, d) = [val |-> m, count |-> Cardinality({c \in some : Vals[c] = m})]
                        /\ \E c \in some : Vals[c] = m
                        /\ \A x \in some : m >= Vals[x]
    BY <1>1, <1>2, <1>7, MaxUnsignedIs
  <2> DEFINE w == b - m
             K == Cardinality({c \in some : Vals[c] = m})
  <2>3. f = [val |-> -m, count |-> K]
    BY <2>1, <2>2 DEF Negate
  <2>4. MinForShard(filter) = [val |-> w, count |-> K]
    <3> HIDE DEF K
    <3>1. [f EXCEPT !.val = @ + b] = [val |-> -m + b, count |-> K]
      BY <2>3
    <3>2. -m + b = w
      BY <1>1
    <3> HIDE DEF w
    <3> QED BY <1>4, <3>1, <3>2
  <2>5. w \in Int
    BY <1>1
  <2>6. ASSUME NEW c \in consider PROVE (written[c] = w <=> c \in some /\ Vals[c] = m) /\ w <= written[c]
    <3>1. PICK z \in some : Vals[z] = m
      BY <2>2
    <3>2. z \in consider
      BY <1>2
    <3>3. c \in some => m >= Vals[c]
      BY <2>2
    <3> QED BY <1>1, <1>5, <1>7, <2>6, <3>1, <3>2, <3>3
  <2>7. {c \in consider : written[c] = w} = {c \in some : Vals[c] = m}
    BY <1>2, <2>6
  <2>8. \E c \in consider : written[c] = w
    BY <1>2, <2>2, <2>6
  <2> HIDE DEF w
  <2>9. Answer(w)
    BY <2>4, <2>6, <2>7, <2>8
  <2> QED BY <2>5, <2>9
<1>8. CASE some = {}
  <2>1. f = minUnsigned(consider, d)
    BY <1>2, <1>6, <1>8
  <2>2. PICK m \in Nat : /\ minUnsigned(consider, d) = [val |-> m, count |-> Cardinality({c \in consider : Vals[c] = m})]
                        /\ \E c \in consider : Vals[c] = m
                        /\ \A x \in consider : m <= Vals[x]
    BY <1>1, <1>2, <1>8, MinUnsignedIs, ZenonT(60)
  <2> DEFINE w == m + b
             K == Cardinality({c \in consider : Vals[c] = m})
  <2>3. f = [val |-> m, count |-> K]
    BY <2>1, <2>2 DEF Negate
  <2>4. MinForShard(filter) = [val |-> w, count |-> K]
    <3> HIDE DEF K
    <3>1. [f EXCEPT !.val = @ + b] = [val |-> m + b, count |-> K]
      BY <2>3
    <3>2. m + b = w
      BY <1>1
    <3> HIDE DEF w
    <3> QED BY <1>4, <3>1, <3>2
  <2>5. w \in Int
    BY <1>1
  <2>6. ASSUME NEW c \in consider PROVE (written[c] = w <=> c \in consider /\ Vals[c] = m) /\ w <= written[c]
    <3>1. m <= Vals[c]
      BY <2>2, <2>6
    <3>2. b \in Int /\ Rel(c) \in Int /\ written[c] = Rel(c) + b
      BY <1>1, <2>6
    <3>3. Vals[c] = Rel(c)
      BY <1>5, <1>8, <2>6
    <3> QED BY <2>6, <3>1, <3>2, <3>3
  <2>7. {c \in consider : written[c] = w} = {c \in consider : Vals[c] = m}
    BY <1>2, <2>6
  <2>8. \E c \in consider : written[c] = w
    BY <1>2, <2>2, <2>6
  <2> HIDE DEF w
  <2>9. Answer(w)
    BY <2>4, <2>6, <2>7, <2>8
  <2> QED BY <2>5, <2>9
<1> QED BY <1>7, <1>8

\* Field.MaxForShard: w is the answer.
LEMMA MaxForShardIs ==
    ASSUME BsiInv, NEW filter \in SUBSET Column, filter \cap HasValue # {}
    PROVE  \E w \in Int :
              /\ MaxForShard(filter) = [val |-> w, count |-> Cardinality({c \in filter \cap HasValue : written[c] = w})]
              /\ \E c \in filter \cap HasValue : written[c] = w
              /\ \A c \in filter \cap HasValue : w >= written[c]
<1> DEFINE d == bsig.BitDepth
           b == bsig.Base
           consider == exists \cap filter
           some == consider \ sign
           f == fragmentMax(filter, d)
           Answer(w) == /\ MaxForShard(filter) = [val |-> w, count |-> Cardinality({c \in consider : written[c] = w})]
                        /\ \E c \in consider : written[c] = w
                        /\ \A c \in consider : w >= written[c]
<1>1. /\ d \in Nat /\ b \in Int /\ HasValue = exists /\ RowsVal(consider, Vals, d) /\ RowsVal(some, Vals, d)
      /\ \A c \in consider : /\ Rel(c) \in Int /\ Vals[c] = Abs(Rel(c)) /\ Vals[c] \in Nat
                             /\ c \in sign <=> Rel(c) < 0
                             /\ written[c] \in Int /\ written[c] = Rel(c) + b
  <2>1. consider \in SUBSET exists /\ some \in SUBSET exists
    OBVIOUS
  <2> HIDE DEF consider, some
  <2> QED BY <2>1, Slices
<1>2. consider # {} /\ some \subseteq consider
  BY <1>1
<1>3. filter \cap HasValue = consider
  BY <1>1
<1>4. MaxForShard(filter) = [f EXCEPT !.val = @ + b]
  BY DEF MaxForShard, ForShard
<1>5. /\ \A c \in consider : Rel(c) < 0 => Vals[c] = -Rel(c)
      /\ \A c \in consider : ~(Rel(c) < 0) => Vals[c] = Rel(c)
      /\ \A c \in consider : c \in some <=> ~(Rel(c) < 0)
  BY <1>1 DEF Abs
<1>6. f = CASE consider = {} -> [val |-> 0, count |-> 0]
            [] consider # {} /\ some = {} -> Negate(minUnsigned(consider, d))
            [] OTHER -> maxUnsigned(some, d)
  BY DEF fragmentMax
<1> SUFFICES \E w \in Int : Answer(w)
  BY <1>3
<1> HIDE DEF consider, some, f, d, b
<1>7. CASE some = {}
  <2>1. f = Negate(minUnsigned(consider, d))
    BY <1>2, <1>6, <1>7
  <2>2. PICK m \in Nat : /\ minUnsigned(consider, d) = [val |-> m, count |-> Cardinality({c \in consider : Vals[c] = m})]
                        /\ \E c \in consider : Vals[c] = m
                        /\ \A x \in consider : m <= Vals[x]
    BY <1>1, <1>2, <1>7, MinUnsignedIs, ZenonT(60)
  <2> DEFINE w == b - m
             K == Cardinality({c \in consider : Vals[c] = m})
  <2>3. f = [val |-> -m, count |-> K]
    BY <2>1, <2>2 DEF Negate
  <2>4. MaxForShard(filter) = [val |-> w, count |-> K]
    <3> HIDE DEF K
    <3>1. [f EXCEPT !.val = @ + b] = [val |-> -m + b, count |-> K]
      BY <2>3
    <3>2. -m + b = w
      BY <1>1
    <3> HIDE DEF w
    <3> QED BY <1>4, <3>1, <3>2
  <2>5. w \in Int
    BY <1>1
  <2>6. ASSUME NEW c \in consider PROVE (written[c] = w <=> c \in consider /\ Vals[c] = m) /\ w >= written[c]
    <3>1. m <= Vals[c]
      BY <2>2, <2>6
    <3>2. b \in Int /\ Rel(c) \in Int /\ written[c] = Rel(c) + b
      BY <1>1, <2>6
    <3>3. Vals[c] = -Rel(c)
      BY <1>5, <1>7, <2>6
    <3> QED BY <2>6, <3>1, <3>2, <3>3
  <2>7. {c \in consider : written[c] = w} = {c \in consider : Vals[c] = m}
    BY <1>2, <2>6
  <2>8. \E c \in consider : written[c] = w
    BY <1>2, <2>2, <2>6
  <2> HIDE DEF w
  <2>9. Answer(w)
    BY <2>4, <2>6, <2>7, <2>8
  <2> QED BY <2>5, <2>9
<1>8. CASE some # {}
  <2>1. f = maxUnsigned(some, d)
    BY <1>2, <1>6, <1>8
  <2>2. PICK m \in Nat : /\ maxUnsigned(some, d) = [val |-> m, count |-> Cardinality({c \in some : Vals[c] = m})]
                        /\ \E c \in some : Vals[c] = m
                        /\ \A x \in some : m >= Vals[x]
    BY <1>1, <1>2, <1>8, MaxUnsignedIs
  <2> DEFINE w == m + b
             K == Cardinality({c \in some : Vals[c] = m})
  <2>3. f = [val |-> m, count |-> K]
    BY <2>1, <2>2 DEF Negate
  <2>4. MaxForShard(filter) = [val |-> w, count |-> K]
    <3> HIDE DEF K
    <3>1. [f EXCEPT !.val = @ + b] = [val |-> m + b, count |-> K]
      BY <2>3
    <3>2. m + b = w
      BY <1>1
    <3> HIDE DEF w
    <3> QED BY <1>4, <3>1, <3>2
  <2>5. w \in Int
    BY <1>1
  <2>6. ASSUME NEW c \in consider PROVE (written[c] = w <=> c \in some /\ Vals[c] = m) /\ w >= written[c]
    <3>1. PICK z \in some : Vals[z] = m
      BY <2>2
    <3>2. z \in consider
      BY <1>2
    <3>3. c \in some => m >= Vals[c]
      BY <2>2
    <3> QED BY <1>1, <1>5, <1>8, <2>6, <3>1, <3>2, <3>3
  <2>7. {c \in consider : written[c] = w} = {c \in some : Vals[c] = m}
    BY <1>2, <2>6
  <2>8. \E c \in consider : written[c] = w
    BY <1>2, <2>2, <2>6
  <2> HIDE DEF w
  <2>9. Answer(w)
    BY <2>4, <2>6, <2>7, <2>8
  <2> QED BY <2>5, <2>9
<1> QED BY <1>7, <1>8

LEMMA InvExtremesRight == BsiInv => ExtremesRight
<1> SUFFICES ASSUME BsiInv, NEW filter \in SUBSET Column, filter \cap HasValue # {}
             PROVE  LET cols == filter \cap HasValue
                        vals == {written[c] : c \in cols}
                        With(v) == [val |-> v, count |-> Cardinality({c \in cols : written[c] = v})]
                    IN  MinForShard(filter) = With(Min(vals)) /\ MaxForShard(filter) = With(Max(vals))
  BY DEF ExtremesRight
<1> DEFINE cols == filter \cap HasValue
           vals == {written[c] : c \in cols}
           With(v) == [val |-> v, count |-> Cardinality({c \in cols : written[c] = v})]
<1>1. bsig.Min \in Int /\ bsig.Max \in Int
      /\ \A c \in cols : written[c] \in Int /\ bsig.Min <= written[c] /\ written[c] <= bsig.Max
  BY Slices
<1>2. vals \in SUBSET Int /\ vals # {} /\ \A v \in vals : bsig.Min <= v /\ v <= bsig.Max
  BY <1>1
<1>3. MinForShard(filter) = With(Min(vals))
  <2>1. PICK w \in Int :
              /\ MinForShard(filter) = With(w)
              /\ \E c \in cols : written[c] = w
              /\ \A c \in cols : w <= written[c]
    BY MinForShardIs
  <2>2. w \in vals /\ \A v \in vals : w <= v
    BY <2>1
  <2> DEFINE S == vals
             m == Min(S)
             b == bsig.Min
  <2>3. S \in SUBSET Int /\ S # {} /\ b \in Int /\ \A v \in S : b <= v
    BY <1>1, <1>2
  <2> HIDE DEF S, b
  <2>4. m \in S /\ \A v \in S : m <= v
    BY <2>3, MinOfBounded
  <2> HIDE DEF m
  <2>5. m \in Int /\ w \in S /\ w <= m /\ m <= w
    BY <2>2, <2>3, <2>4 DEF S
  <2>6. w = m
    BY <2>5
  <2>7. m = Min(vals)
    BY DEF m, S
  <2> HIDE DEF vals, With
  <2> QED BY <2>1, <2>6, <2>7
<1>4. MaxForShard(filter) = With(Max(vals))
  <2>1. PICK w \in Int :
              /\ MaxForShard(filter) = With(w)
              /\ \E c \in cols : written[c] = w
              /\ \A c \in cols : w >= written[c]
    BY MaxForShardIs
  <2>2. w \in vals /\ \A v \in vals : w >= v
    BY <2>1
  <2> DEFINE S == vals
             m == Max(S)
             b == bsig.Max
  <2>3. S \in SUBSET Int /\ S # {} /\ b \in Int /\ \A v \in S : v <= b
    BY <1>1, <1>2
  <2> HIDE DEF S, b
  <2>4. m \in S /\ \A v \in S : v <= m
    BY <2>3, MaxOfBounded
  <2> HIDE DEF m
  <2>5. m \in Int /\ w \in S /\ w >= m /\ w <= m
    BY <2>2, <2>3, <2>4 DEF S
  <2>6. w = m
    BY <2>5
  <2>7. m = Max(vals)
    BY DEF m, S
  <2> HIDE DEF vals, With
  <2> QED BY <2>1, <2>6, <2>7
<1> QED BY <1>3, <1>4

\* While requests do not overlap, every comparison, BETWEEN, minimum and maximum on
\* the bit-sliced rows (rangeOp, rangeBetween, fragment.min, fragment.max) answers
\* what comparing the values would: for every range of the field, every number of
\* rows and columns, predicates of either sign within and outside the bits in use.
THEOREM QueriesRightHolds ==
    ASSUME OneAtATime PROVE Spec => []QueriesRight
<1>1. Spec => []BsiInv
  BY SpecBsiInv
<1>2. BsiInv => QueriesRight
  BY InvRowsMatch, InvExtremesRight DEF QueriesRight
<1> QED BY <1>1, <1>2, PTL
=============================================================================
