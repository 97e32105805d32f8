----------------------------- MODULE NumberLemmas -----------------------------
(***************************************************************************)
(* Lemmas on natural numbers that several proofs need: induction over a    *)
(* set of numbers, and what powers are.                                    *)
(*                                                                         *)
(* Power is defined by recursion, so first it is proved that the recursion *)
(* has a solution (PowerUnfolds): there is a table of the powers up to any *)
(* exponent, and two tables agree where both are defined.                  *)
(***************************************************************************)
EXTENDS Powers, TLAPS, WellFoundedInduction

-------------------------------------------------------------------------------
\* A set of numbers that is not empty has a least one.
LEMMA MinExists ==
  ASSUME NEW S \in SUBSET Nat, S # {}
  PROVE  \E m \in S : \A x \in S : m <= x
  <1>1. \E m \in S : \A x \in S : <<x, m>> \notin OpToRel(<, Nat)
    BY NatLessThanWellFounded, WFMin, Zenon
  <1>2. \E m \in S : \A x \in S : ~(x < m)
    BY <1>1, Zenon DEF OpToRel
  <1> QED BY <1>2

\* A set that holds 0 and the successors of its members holds every number.
LEMMA AllNat ==
  ASSUME NEW S, 0 \in S, \A n \in Nat : n \in S => n + 1 \in S
  PROVE  Nat \subseteq S
  <1> DEFINE T == Nat \ S
  <1> SUFFICES ASSUME T # {} PROVE FALSE
    OBVIOUS
  <1>1. PICK m \in T : \A x \in T : m <= x
    BY MinExists
  <1>2. m # 0 /\ m - 1 \in Nat /\ ~(m <= m - 1)
    OBVIOUS
  <1>3. m - 1 \in S
    BY <1>1, <1>2
  <1>4. (m - 1) + 1 \in S
    BY <1>2, <1>3
  <1>5. (m - 1) + 1 = m
    OBVIOUS
  <1> QED BY <1>4, <1>5

-------------------------------------------------------------------------------
\* g holds the powers of b up to the n-th.
Upto(b, n, g) == g[0] = 1 /\ \A k \in 1..n : g[k] = b * g[k - 1]

\* There are such tables.
LEMMA UptoExists ==
  ASSUME NEW b, NEW n \in Nat
  PROVE  \E g : Upto(b, n, g)
  <1> DEFINE S == {m \in Nat : \E g : Upto(b, m, g)}
  <1>1. 0 \in S
    <2>1. Upto(b, 0, [k \in {0} |-> 1])
      BY DEF Upto
    <2> QED BY <2>1
  <1>2. ASSUME NEW m \in Nat, m \in S PROVE m + 1 \in S
    <2>1. PICK g : Upto(b, m, g)
      BY <1>2
    <2> DEFINE h == [k \in 0..(m + 1) |-> IF k = m + 1 THEN b * g[m] ELSE g[k]]
    <2>2. h[0] = 1
      BY <2>1 DEF Upto
    <2>3. ASSUME NEW k \in 1..(m + 1) PROVE h[k] = b * h[k - 1]
      <3>1. CASE k = m + 1
        <4>1. h[k] = b * g[m] /\ h[k - 1] = g[m]
          BY <3>1
        <4> QED BY <4>1
      <3>2. CASE k # m + 1
        <4>1. k \in 1..m /\ h[k] = g[k] /\ h[k - 1] = g[k - 1]
          BY <3>2
        <4> QED BY <2>1, <4>1 DEF Upto
      <3> QED BY <3>1, <3>2
    <2>4. Upto(b, m + 1, h)
      <3> HIDE DEF h
      <3> QED BY <2>2, <2>3 DEF Upto
    <2> QED BY <2>4
  <1> HIDE DEF S
  <1>3. Nat \subseteq S
    BY <1>1, <1>2, AllNat
  <1> QED BY <1>3 DEF S

\* They agree.
LEMMA UptoUnique ==
  ASSUME NEW b, NEW m \in Nat, NEW n \in Nat, m <= n, NEW g, Upto(b, m, g),
         NEW h, Upto(b, n, h)
  PROVE  g[m] = h[m]
  <1> DEFINE S == {k \in Nat : k <= m => g[k] = h[k]}
  <1>1. 0 \in S
    BY DEF Upto
  <1>2. ASSUME NEW k \in Nat, k \in S PROVE k + 1 \in S
    <2> SUFFICES ASSUME k + 1 <= m PROVE g[k + 1] = h[k + 1]
      OBVIOUS
    <2>1. g[k] = h[k] /\ k + 1 \in 1..m /\ k + 1 \in 1..n /\ (k + 1) - 1 = k
      BY <1>2
    <2>2. g[k + 1] = b * g[(k + 1) - 1] /\ h[k + 1] = b * h[(k + 1) - 1]
      BY <2>1, Zenon DEF Upto
    <2> QED BY <2>1, <2>2
  <1> HIDE DEF S
  <1>3. Nat \subseteq S
    BY <1>1, <1>2, AllNat
  <1> QED BY <1>3 DEF S

\* The recursion has a solution, and Power is one.
LEMMA PowerUnfolds ==
  ASSUME NEW b \in Nat
  PROVE  Power(b) = [n \in Nat |-> IF n = 0 THEN 1 ELSE b * Power(b)[n - 1]]
  <1> DEFINE G(n) == CHOOSE g : Upto(b, n, g)
             P == [n \in Nat |-> G(n)[n]]
             F(p) == [n \in Nat |-> IF n = 0 THEN 1 ELSE b * p[n - 1]]
  <1>1. \A n \in Nat : Upto(b, n, G(n))
    BY UptoExists, Zenon
  <1> HIDE DEF G
  <1>2. ASSUME NEW n \in Nat PROVE P[n] = IF n = 0 THEN 1 ELSE b * P[n - 1]
    <2>1. CASE n = 0
      BY <1>1, <2>1 DEF Upto
    <2>2. CASE n # 0
      <3>1. n - 1 \in Nat /\ n - 1 <= n /\ n \in 1..n
        BY <2>2
      <3>2. Upto(b, n, G(n)) /\ Upto(b, n - 1, G(n - 1))
        BY <1>1, <3>1
      <3>3. G(n - 1)[n - 1] = G(n)[n - 1]
        BY <3>1, <3>2, UptoUnique
      <3>4. G(n)[n] = b * G(n)[n - 1]
        BY <3>1, <3>2 DEF Upto
      <3>5. P[n] = G(n)[n] /\ P[n - 1] = G(n - 1)[n - 1]
        BY <3>1
      <3> QED BY <2>2, <3>3, <3>4, <3>5
    <2> QED BY <2>1, <2>2
  <1>3. P = F(P)
    <2>1. F(P) = [n \in Nat |-> IF n = 0 THEN 1 ELSE b * P[n - 1]]
      OBVIOUS
    <2>2. \A n \in Nat : P[n] = F(P)[n]
      BY <1>2
    <2> QED BY <2>1, <2>2
  <1> HIDE DEF P
  <1>4. (CHOOSE p : p = F(p)) = F(CHOOSE p : p = F(p))
    BY <1>3, Zenon
  <1>5. Power(b) = CHOOSE p : p = F(p)
    BY Zenon DEF Power
  <1> QED BY <1>4, <1>5, Zenon

\* What is used of powers: their recursion and their type.
LEMMA PowerIs ==
  ASSUME NEW b \in Nat
  PROVE  /\ Power(b)[0] = 1
         /\ \A n \in Nat : Power(b)[n] \in Nat /\ Power(b)[n + 1] = b * Power(b)[n]
  <1> DEFINE p == Power(b)
             S == {n \in Nat : p[n] \in Nat}
  <1>1. \A n \in Nat : p[n] = IF n = 0 THEN 1 ELSE b * p[n - 1]
    <2>1. p = [n \in Nat |-> IF n = 0 THEN 1 ELSE b * p[n - 1]]
      BY PowerUnfolds
    <2> HIDE DEF p
    <2> QED BY <2>1
  <1> HIDE DEF p
  <1>2. p[0] = 1
    BY <1>1
  <1>3. ASSUME NEW n \in Nat PROVE p[n + 1] = b * p[n]
    <2>1. n + 1 \in Nat /\ n + 1 # 0 /\ (n + 1) - 1 = n
      OBVIOUS
    <2> QED BY <1>1, <2>1
  <1>4. ASSUME NEW n \in Nat, n \in S PROVE n + 1 \in S
    BY <1>3, <1>4
  <1> HIDE DEF S
  <1>5. Nat \subseteq S
    <2>1. 0 \in S
      BY <1>2 DEF S
    <2> QED BY <1>4, <2>1, AllNat
  <1> QED BY <1>2, <1>3, <1>5 DEF S, p

\* Powers of a base above 1 are larger than their exponent.
LEMMA PowerGrows ==
  ASSUME NEW b \in Nat, b > 1
  PROVE  \A n \in Nat : Power(b)[n] \in Nat /\ Power(b)[n] > n
  <1> DEFINE p == Power(b)
             S == {n \in Nat : p[n] > n}
  <1>1. p[0] = 1 /\ \A n \in Nat : p[n] \in Nat /\ p[n + 1] = b * p[n]
    BY PowerIs
  <1> HIDE DEF p
  <1>2. ASSUME NEW n \in Nat, n \in S PROVE n + 1 \in S
    <2> DEFINE x == p[n]
    <2>1. x \in Nat /\ x > n /\ p[n + 1] = b * x
      BY <1>1, <1>2
    <2> HIDE DEF x
    <2>2. b * x >= 2 * x
      BY <2>1
    <2>3. b * x > n + 1
      BY <2>1, <2>2
    <2> QED BY <2>1, <2>3
  <1>3. 0 \in S
    BY <1>1
  <1> HIDE DEF S
  <1>4. Nat \subseteq S
    BY <1>2, <1>3, AllNat
  <1> QED BY <1>1, <1>4 DEF S, p

\* Exponents add up.
LEMMA PowerSum ==
  ASSUME NEW b \in Nat, NEW m \in Nat
  PROVE  \A n \in Nat : Power(b)[m + n] = Power(b)[m] * Power(b)[n]
  <1> DEFINE p == Power(b)
             S == {n \in Nat : p[m + n] = p[m] * p[n]}
  <1>1. p[0] = 1 /\ \A n \in Nat : p[n] \in Nat /\ p[n + 1] = b * p[n]
    BY PowerIs
  <1> HIDE DEF p
  <1>2. ASSUME NEW n \in Nat, n \in S PROVE n + 1 \in S
    <2> DEFINE x == p[m]
               y == p[n]
               z == p[m + n]
    <2>1. x \in Nat /\ y \in Nat /\ z = x * y
      BY <1>1, <1>2
    <2>2. p[n + 1] = b * y /\ p[m + (n + 1)] = b * z
      <3>1. m + n \in Nat /\ (m + n) + 1 = m + (n + 1)
        OBVIOUS
      <3> QED BY <1>1, <3>1
    <2> HIDE DEF x, y, z
    <2>3. b * (x * y) = x * (b * y)
      BY <2>1
    <2>4. p[m + (n + 1)] = x * p[n + 1]
      BY <2>1, <2>2, <2>3
    <2> QED BY <2>4 DEF x
  <1>3. 0 \in S
    BY <1>1
  <1> HIDE DEF S
  <1>4. Nat \subseteq S
    BY <1>2, <1>3, AllNat
  <1> QED BY <1>4 DEF S, p

\* A power divides the later ones, and is no larger.
LEMMA PowerDivides ==
  ASSUME NEW b \in Nat, b > 1, NEW m \in Nat, NEW n \in Nat, m <= n
  PROVE  \E q \in Nat \ {0} : Power(b)[n] = Power(b)[m] * q
  <1> DEFINE d == n - m
             q == Power(b)[d]
  <1>1. d \in Nat /\ m + d = n
    OBVIOUS
  <1> HIDE DEF d
  <1>2. q \in Nat /\ q > d
    BY <1>1, PowerGrows
  <1>3. Power(b)[m + d] = Power(b)[m] * q
    BY <1>1, PowerSum
  <1> HIDE DEF q
  <1>4. q \in Nat \ {0} /\ Power(b)[n] = Power(b)[m] * q
    BY <1>1, <1>2, <1>3
  <1> QED BY <1>4

LEMMA PowerMonotonic ==
  ASSUME NEW b \in Nat, b > 1, NEW m \in Nat, NEW n \in Nat, m <= n
  PROVE  Power(b)[m] <= Power(b)[n]
  <1>1. PICK q \in Nat \ {0} : Power(b)[n] = Power(b)[m] * q
    BY PowerDivides
  <1> DEFINE x == Power(b)[m]
  <1>2. x \in Nat
    BY PowerGrows
  <1> HIDE DEF x
  <1>3. x <= x * q
    BY <1>2
  <1> QED BY <1>1, <1>3 DEF x

-------------------------------------------------------------------------------
\* Factors that are larger give products that are.
LEMMA TimesMonotonic ==
  ASSUME NEW d \in Nat, NEW x \in Nat, NEW y \in Nat, x <= y
  PROVE  d * x \in Nat /\ d * y \in Nat /\ d * x <= d * y
  <1>1. PICK z \in Nat : y = x + z
    <2>1. y - x \in Nat /\ y = x + (y - x)
      OBVIOUS
    <2> QED BY <2>1
  <1>2. d * y = d * x + d * z /\ d * z \in Nat /\ d * x \in Nat
    BY <1>1
  <1> QED BY <1>2

\* What division gives.
LEMMA DivIs ==
  ASSUME NEW x \in Nat, NEW d \in Nat \ {0}
  PROVE  /\ x \div d \in Nat /\ x % d \in 0..(d - 1)
         /\ d * (x \div d) \in Nat /\ x = d * (x \div d) + (x % d)
  OBVIOUS

\* There is only one quotient and one rest.
LEMMA DivUnique ==
  ASSUME NEW d \in Nat \ {0}, NEW q \in Nat, NEW r \in 0..(d - 1),
         NEW x \in Nat, x = d * q + r
  PROVE  x \div d = q /\ x % d = r
  <1> DEFINE p == x \div d
             s == x % d
  <1>1. p \in Nat /\ s \in 0..(d - 1) /\ d * p \in Nat /\ x = d * p + s
    BY DivIs
  <1> HIDE DEF p, s
  <1>2. ASSUME p < q PROVE FALSE
    <2>1. d * (p + 1) <= d * q /\ d * (p + 1) = d * p + d
      BY <1>1, <1>2, TimesMonotonic
    <2>2. d * p \in Nat /\ d * q \in Nat
      BY <1>1
    <2> QED BY <1>1, <2>1, <2>2
  <1>3. ASSUME q < p PROVE FALSE
    <2>1. d * (q + 1) <= d * p /\ d * (q + 1) = d * q + d
      BY <1>1, <1>3, TimesMonotonic
    <2>2. d * p \in Nat /\ d * q \in Nat
      BY <1>1
    <2> QED BY <1>1, <2>1, <2>2
  <1>4. p = q
    BY <1>1, <1>2, <1>3
  <1>5. s = r
    <2>1. d * q \in Nat
      OBVIOUS
    <2> QED BY <1>1, <1>4, <2>1
  <1> QED BY <1>4, <1>5 DEF p, s

\* A factor common to a number and its divisor is one of the rest.
LEMMA RestTimes ==
  ASSUME NEW c \in Nat \ {0}, NEW d \in Nat \ {0}, NEW n \in Nat
  PROVE  (c * n) % (c * d) = c * (n % d)
  <1> DEFINE q == n \div d
             r == n % d
             s == c * r
             x == c * n
             e == c * d
  <1>1. q \in Nat /\ r \in 0..(d - 1) /\ n = d * q + r
    BY DivIs
  <1> HIDE DEF q, r
  <1>2. x = e * q + s /\ x \in Nat
    BY <1>1
  <1>3. c * (r + 1) <= e /\ c * (r + 1) = s + c /\ s \in Nat /\ c * 1 <= e /\ e \in Nat
    BY <1>1, TimesMonotonic
  <1> HIDE DEF s, x, e
  <1>4. s \in 0..(e - 1) /\ e \in Nat \ {0}
    BY <1>3
  <1>5. x % e = s
    BY <1>1, <1>2, <1>4, DivUnique
  <1> QED BY <1>5 DEF s, r, x, e
===============================================================================
