-------------------------- MODULE StreamBackoff_proofs --------------------------
(***************************************************************************)
(* Proofs about StreamBackoff, for every word width and every choice of    *)
(* durations and attempts.                                                 *)
(*                                                                         *)
(* The product of a long row of failures wraps to anything in the word.    *)
(* The cap comes after that wrap, the floor after the wrap of the sum with *)
(* the jitter: a sum leaves the word only at its negative end, and comes   *)
(* back at the other.  While the product is below 2^(Width-1) neither the  *)
(* shift, nor the product, nor the sum wraps.                              *)
(***************************************************************************)
EXTENDS StreamBackoff, NumberLemmas

BackoffInv ==
    /\ TypeOK /\ DelayInRange /\ DelayMatchesIdeal /\ RetriesAreCapped
    /\ attempts = 0 => armings = 0

-------------------------------------------------------------------------------
\* The word is twice the half.
LEMMA WordFacts == Word \in Nat \ {0} /\ Half \in Nat \ {0} /\ Word = 2 * Half
  <1>1. Width - 1 \in Nat /\ (Width - 1) + 1 = Width
    BY WidthAssumption
  <1>2. Power(2)[(Width - 1) + 1] = 2 * Power(2)[Width - 1]
    BY <1>1, PowerIs
  <1>3. Half \in Nat /\ Half > Width - 1
    BY <1>1, PowerGrows DEF Half
  <1> QED BY <1>1, <1>2, <1>3 DEF Word, Half

\* The arithmetic of Go stays within the word.
LEMMA WrapInt == \A x \in Int : Wrap(x) \in Int /\ -Half <= Wrap(x) /\ Wrap(x) < Half
  <1> SUFFICES ASSUME NEW x \in Int
               PROVE  Wrap(x) \in Int /\ -Half <= Wrap(x) /\ Wrap(x) < Half
    OBVIOUS
  <1>1. (x + Half) % Word \in 0..(Word - 1)
    BY WordFacts
  <1> HIDE DEF Word, Half
  <1> QED BY <1>1, WordFacts DEF Wrap

\* What fits the word is not changed.
LEMMA WrapFits == ASSUME NEW x \in Int, -Half <= x, x < Half PROVE Wrap(x) = x
  <1>1. x + Half \in 0..(Word - 1)
    BY WordFacts
  <1>2. (x + Half) % Word = x + Half
    BY <1>1, WordFacts
  <1> QED BY <1>2, WordFacts DEF Wrap

\* What leaves the word at the negative end comes back at the other.
LEMMA WrapDown ==
  ASSUME NEW x \in Int, -Word <= x, x < -Half
  PROVE  Wrap(x) = x + Word
  <1> DEFINE y == x + Half + Word
  <1>1. y \in 0..(Word - 1)
    BY WordFacts
  <1>2. (x + Half) % Word = y
    BY <1>1, WordFacts
  <1> QED BY <1>2, WordFacts DEF Wrap

LEMMA ShiftInt == \A k \in Nat : Shift(k) \in Int
  BY WrapInt, PowerIs DEF Shift

\* Capped after the wrap.
LEMMA BackoffCapped ==
  \A n \in Nat \ {0} : Backoff(n) \in Int /\ -Half <= Backoff(n) /\ Backoff(n) <= MaxWait
  <1> SUFFICES ASSUME NEW n \in Nat \ {0}
               PROVE  Backoff(n) \in Int /\ -Half <= Backoff(n) /\ Backoff(n) <= MaxWait
    OBVIOUS
  <1> DEFINE w == Wrap(ReconnectWait * Shift(n - 1))
  <1>1. Shift(n - 1) \in Int
    BY ShiftInt
  <1>2. w \in Int /\ -Half <= w
    BY <1>1, WrapInt, WaitAssumption
  <1>3. Backoff(n) = IF w > MaxWait THEN MaxWait ELSE w
    BY DEF Backoff
  <1> HIDE DEF w
  <1> QED BY <1>2, <1>3, WaitAssumption, WordFacts

\* Up to the overflow the back-off is the doubled wait or the cap.
LEMMA BackoffIdeal ==
  ASSUME NEW n \in Nat \ {0}, ~Overflows(n)
  PROVE  /\ Ideal(n) \in Nat
         /\ Backoff(n) = IF Ideal(n) < MaxWait THEN Ideal(n) ELSE MaxWait
  <1> DEFINE k == n - 1
             x == Power(2)[k]
  <1>1. k \in Nat /\ x \in Nat /\ Ideal(n) = ReconnectWait * x
    BY PowerIs DEF Ideal
  <1> HIDE DEF k, x
  <1>2. Ideal(n) \in Nat /\ x <= Ideal(n)
    BY <1>1, WaitAssumption
  <1>3. Ideal(n) < Half /\ x < Half
    BY <1>1, <1>2, WordFacts DEF Overflows
  <1>4. k < Width
    <2> SUFFICES ASSUME Width - 1 <= k PROVE FALSE
      BY <1>1, WidthAssumption
    <2>1. Half <= x
      BY <1>1, PowerMonotonic, WidthAssumption DEF Half, x
    <2> QED BY <1>1, <1>3, <2>1, WordFacts
  <1>5. Shift(k) = x
    <2>1. Wrap(x) = x
      BY <1>1, <1>3, WrapFits, WordFacts
    <2> QED BY <1>4, <2>1 DEF Shift, x
  <1>6. Wrap(ReconnectWait * Shift(k)) = Ideal(n)
    BY <1>1, <1>2, <1>3, <1>5, WrapFits, WordFacts
  <1> QED BY <1>2, <1>6, WaitAssumption DEF Backoff, k

\* A fifth of it at most is added or taken; the floor is reached from within a fifth.
LEMMA DelayNear ==
  ASSUME NEW b \in Nat, b <= MaxWait, NEW j \in Jitter(b)
  PROVE  \/ 5 * Abs(Delay(b, j) - b) <= b
         \/ Delay(b, j) = MinWait /\ 4 * b < 5 * MinWait
  <1>1. j \in Int /\ 5 * Abs(j) <= b
    BY DEF Jitter, Abs
  <1>2. Wrap(b + j) = b + j
    <2>1. b + j \in Int /\ -Half <= b + j /\ b + j < Half
      BY <1>1, WaitAssumption, WordAssumption, WordFacts DEF Abs
    <2> QED BY <2>1, WrapFits
  <1> QED BY <1>1, <1>2, WaitAssumption DEF Delay, Floor, Abs

\* What may be armed for a back-off b: the floor, something up to the cap and a fifth,
\* or a sum that left the word at its negative end.
Armed(b, d) ==
  \/ d = MinWait
  \/ d > MinWait /\ 5 * d <= 6 * MaxWait
  \/ 6 * b < -5 * Half /\ 5 * d >= 4 * Half

LEMMA DelayBounds ==
  ASSUME NEW b \in Int, -Half <= b, b <= MaxWait, NEW j \in Jitter(b)
  PROVE  Delay(b, j) \in Nat /\ Armed(b, Delay(b, j))
  <1> DEFINE s == b + j
  <1>1. j \in Int /\ 5 * Abs(j) <= Abs(b)
    BY DEF Jitter, Abs
  <1>2. /\ s \in Int /\ s < Half /\ -Word <= s
        /\ s > MinWait => 5 * s <= 6 * MaxWait
        /\ s < -Half => 6 * b < -5 * Half /\ 5 * (s + Word) >= 4 * Half
    <2>1. CASE b >= 0
      BY <1>1, <2>1, WaitAssumption, WordAssumption, WordFacts DEF Abs
    <2>2. CASE b < 0
      BY <1>1, <2>2, WaitAssumption, WordAssumption, WordFacts DEF Abs
    <2> QED BY <2>1, <2>2
  <1>3. CASE s >= -Half
    <2>1. Delay(b, j) = Floor(s)
      BY <1>2, <1>3, WrapFits DEF Delay
    <2> HIDE DEF s
    <2> QED BY <1>2, <2>1, WaitAssumption DEF Floor, Armed
  <1>4. CASE s < -Half
    <2>1. Delay(b, j) = Floor(s + Word)
      BY <1>2, <1>4, WrapDown DEF Delay
    <2> HIDE DEF s
    <2> QED BY <1>2, <1>4, <2>1, WaitAssumption, WordFacts DEF Floor, Armed
  <1> QED BY <1>2, <1>3, <1>4, WordFacts

-------------------------------------------------------------------------------
LEMMA InitInv == Init => BackoffInv
  BY AttemptAssumption
     DEF Init, BackoffInv, TypeOK, DelayInRange, DelayMatchesIdeal, RetriesAreCapped

\* A failure counts, and arms a timer unless the client gives up; a success resets both.
LEMMA NextInv == BackoffInv /\ [Next]_vars => BackoffInv'
  <1> SUFFICES ASSUME BackoffInv, [Next]_vars PROVE BackoffInv'
    OBVIOUS
  <1> USE AttemptAssumption DEF BackoffInv, TypeOK, DelayInRange, RetriesAreCapped
  <1>1. CASE Succeed
    BY <1>1 DEF Succeed, DelayMatchesIdeal
  <1>2. CASE Schedule /\ GiveUp(attempts')
    BY <1>2, WaitAssumption DEF Schedule, GiveUp, DelayMatchesIdeal
  <1>3. CASE Schedule /\ ~GiveUp(attempts')
    <2>1. attempts' \in Nat \ {0}
      BY <1>3 DEF Schedule
    <2>2. PICK j \in Jitter(Backoff(attempts')) : delay' = Delay(Backoff(attempts'), j)
      BY <1>3 DEF Schedule
    <2>3. delay' \in Nat /\ Armed(Backoff(attempts'), delay')
      BY <2>1, <2>2, BackoffCapped, DelayBounds
    <2>4. DelayMatchesIdeal'
      <3> PICK n : n = attempts'
        OBVIOUS
      <3> DEFINE d == IF Ideal(n) < MaxWait THEN Ideal(n) ELSE MaxWait
      <3>1. ASSUME ~Overflows(n)
            PROVE  5 * Abs(delay' - d) <= d \/ (delay' = MinWait /\ 4 * d < 5 * MinWait)
        <4>1. Backoff(n) = d /\ d \in Nat /\ d <= MaxWait
          BY <2>1, <3>1, BackoffIdeal, WaitAssumption
        <4> HIDE DEF d
        <4> QED BY <2>2, <4>1, DelayNear
      <3> QED BY <3>1 DEF DelayMatchesIdeal
    <2>5. DelayInRange'
      BY <2>3 DEF Armed, SumMayWrap
    <2> QED BY <1>3, <2>3, <2>4, <2>5 DEF Schedule, GiveUp
  <1>4. CASE UNCHANGED vars
    BY <1>4 DEF vars, GiveUp, DelayMatchesIdeal
  <1> QED BY <1>1, <1>2, <1>3, <1>4 DEF Next, Schedule

LEMMA Invariance == Spec => []BackoffInv
  BY InitInv, NextInv, PTL DEF Spec

\* The counters keep their types and no delay is negative.
THEOREM BackoffTypeCorrect == Spec => []TypeOK
  <1>1. BackoffInv => TypeOK
    BY DEF BackoffInv
  <1> QED BY Invariance, <1>1, PTL

\* An armed timer of scheduleReconnect never fires at once and never sleeps longer than
\* the cap and its jitter, whatever the product has wrapped to; but where the sum of
\* back-off and jitter leaves the word, it sleeps for most of the longest Duration.
THEOREM DelaysInRange == Spec => []DelayInRange
  <1>1. BackoffInv => DelayInRange
    BY DEF BackoffInv
  <1> QED BY Invariance, <1>1, PTL

\* Up to the attempt whose product overflows, the delay is the doubled wait or the cap,
\* within a fifth, or the floor where that is within a fifth: neither the shift, nor the
\* product, nor the sum has wrapped.
THEOREM DelaysIdeal == Spec => []DelayMatchesIdeal
  <1>1. BackoffInv => DelayMatchesIdeal
    BY DEF BackoffInv
  <1> QED BY Invariance, <1>1, PTL

\* A client that gives up has armed exactly maxReconnectAttempts timers.
THEOREM RetriesCapped == Spec => []RetriesAreCapped
  <1>1. BackoffInv => RetriesAreCapped
    BY DEF BackoffInv
  <1> QED BY Invariance, <1>1, PTL
===============================================================================
