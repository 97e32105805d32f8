----------------------------- MODULE StreamBackoff -----------------------------
(***************************************************************************)
(* The delays that scheduleReconnect (src/stream/reconnect.go) chooses in  *)
(* a row of failed attempts, in the arithmetic of Go's time.Duration: a    *)
(* signed integer of Width bits that wraps, and a shift that yields 0 when *)
(* every bit has left the word.                                            *)
(*                                                                         *)
(* Width and the three durations are parameters: the program has 64 bits   *)
(* and nanoseconds, TLC checks a word of 16 bits and tenths of a second.   *)
(***************************************************************************)
EXTENDS Powers

CONSTANTS
    Width,          \* bits of time.Duration
    ReconnectWait,  \* c.reconnectWait
    MaxWait,        \* maxReconnectWait
    MinWait,        \* time.Second
    MaxAttempts,    \* maxReconnectAttempts; 0 means retry for ever
    AttemptCap      \* bound: failures in a row

ASSUME WidthAssumption == Width \in Nat \ {0}
ASSUME WaitAssumption  ==
    ReconnectWait \in Nat \ {0} /\ MaxWait \in Nat /\ MinWait \in Nat \ {0}
ASSUME AttemptAssumption == MaxAttempts \in Nat /\ AttemptCap \in Nat

VARIABLES
    attempts,   \* c.reconnectAttempts
    delay,      \* the delay of the armed timer, 0 when none is armed
    armings     \* timers armed since the last successful Connect

vars == <<attempts, delay, armings>>

Word == Power(2)[Width]
Half == Power(2)[Width - 1]

\* The longest delay, the cap with its jitter, fits the word.
ASSUME WordAssumption == 6 * MaxWait < 5 * Half

\* A Duration is in -Half..(Half - 1).
Wrap(x) == ((x + Half) % Word) - Half

\* Mutant: 1<<attempts instead of 1<<(attempts-1).
Shift_OffByOne(k) == IF k + 1 < Width THEN Wrap(Power(2)[k + 1]) ELSE 0

Shift(k) == IF k < Width THEN Wrap(Power(2)[k]) ELSE 0      \* 1<<k
Abs(x)   == IF x < 0 THEN -x ELSE x

\* Mutant: the product is not capped.
Backoff_Uncapped(n) == Wrap(ReconnectWait * Shift(n - 1))

\* reconnectWait * 1<<(attempts-1), capped at maxReconnectWait.
Backoff(n) ==
    LET b == Wrap(ReconnectWait * Shift(n - 1))
    IN  IF b > MaxWait THEN MaxWait ELSE b

\* backoff * 0.2 * r with r in [-1, 1), truncated.
Jitter(b) == {j \in -Abs(b) .. Abs(b) : 5 * Abs(j) <= Abs(b)}

Floor(d) == IF d < MinWait THEN MinWait ELSE d

\* Mutant: no floor under the delay.
Delay_NoFloor(b, j) == Wrap(b + j)

\* The sum wraps as the product does, before the floor is compared with it.
Delay(b, j) == Floor(Wrap(b + j))

Init == attempts = 0 /\ delay = 0 /\ armings = 0

\* Mutant: giving up one attempt too late.
GiveUp_Late(n) == MaxAttempts > 0 /\ n > MaxAttempts + 1

GiveUp(n) == MaxAttempts > 0 /\ n > MaxAttempts

\* The connection was lost or an attempt failed.
Schedule ==
    /\ attempts < AttemptCap
    /\ attempts' = attempts + 1
    /\ \/ /\ GiveUp(attempts')
          /\ delay' = 0 /\ UNCHANGED armings
       \/ /\ ~GiveUp(attempts')
          /\ \E j \in Jitter(Backoff(attempts')) :
                delay' = Delay(Backoff(attempts'), j)
          /\ armings' = armings + 1

\* Connect succeeded.
Succeed == attempts' = 0 /\ delay' = 0 /\ armings' = 0

Next == Schedule \/ Succeed
Spec == Init /\ [][Next]_vars

-------------------------------------------------------------------------------
TypeOK == attempts \in 0..AttemptCap /\ delay \in Nat /\ armings \in Nat

Ideal(n) == ReconnectWait * Power(2)[n - 1]       \* in unbounded arithmetic
Overflows(n) == Ideal(n) >= Half

\* The wrapped product lies so near the most negative Duration that a jitter, a fifth
\* of it, may push the sum over the edge.
SumMayWrap(n) == 6 * Backoff(n) < -5 * Half

\* An armed timer never fires at once and never sleeps longer than the cap and its
\* jitter, however far the product has overflowed; except where the sum of back-off
\* and jitter wraps as well (reconnect.go:56), and the timer sleeps for four fifths
\* of the longest Duration or more.
DelayInRange ==
    armings > 0 /\ ~GiveUp(attempts) =>
        \/ delay = MinWait
        \/ delay > MinWait /\ 5 * delay <= 6 * MaxWait
        \/ SumMayWrap(attempts) /\ 5 * delay >= 4 * Half

\* Up to the attempt whose product overflows, the delay is the doubled wait or the
\* cap, within a fifth; it is the floor only where a fifth less lies below the floor.
DelayMatchesIdeal ==
    LET d == IF Ideal(attempts) < MaxWait THEN Ideal(attempts) ELSE MaxWait IN
    attempts > 0 /\ ~GiveUp(attempts) /\ ~Overflows(attempts) =>
        \/ 5 * Abs(delay - d) <= d
        \/ delay = MinWait /\ 4 * d < 5 * MinWait

\* WithMaxReconnectAttempts caps total retries: a client that gives up has armed
\* exactly MaxAttempts timers, and every failure before that has armed one.
RetriesAreCapped == attempts > 0 => armings = IF GiveUp(attempts) THEN MaxAttempts
                                              ELSE attempts

===============================================================================
