------------------------------- MODULE Exposure -------------------------------
(***************************************************************************)
(* What the trading client promises about an account: on each side of a    *)
(* coin no more is traded than the application asked for with orders that  *)
(* are not reduce-only, each executed at most once; everything else, the   *)
(* closing orders and the legs of brackets, only moves a position towards  *)
(* zero and never through it.                                              *)
(***************************************************************************)
EXTENDS Integers

CONSTANTS
    Coins,
    Sizes       \* sizes of single fills

VARIABLES
    position,   \* position[c]: signed size
    asked,      \* asked[c][buy]: size the application asked to trade
    traded      \* traded[c][buy]: size traded for it

AllSides == [Coins -> [BOOLEAN -> Nat]]

Init ==
    /\ position \in [Coins -> Int]
    /\ asked = [c \in Coins |-> [b \in BOOLEAN |-> 0]]
    /\ traded = [c \in Coins |-> [b \in BOOLEAN |-> 0]]

Ask ==
    /\ asked' \in AllSides
    /\ \A c \in Coins, b \in BOOLEAN : asked'[c][b] >= asked[c][b]
    /\ UNCHANGED <<position, traded>>

Toward(buy, q) == IF buy THEN q ELSE -q

Trade(c, buy, q) ==
    /\ traded[c][buy] + q <= asked[c][buy]
    /\ traded' = [traded EXCEPT ![c][buy] = @ + q]
    /\ position' = [position EXCEPT ![c] = @ + Toward(buy, q)]
    /\ UNCHANGED asked

Reduce(c, q) ==
    /\ \/ q <= position[c] /\ position' = [position EXCEPT ![c] = @ - q]
       \/ q <= -position[c] /\ position' = [position EXCEPT ![c] = @ + q]
    /\ UNCHANGED <<asked, traded>>

Next ==
    \/ Ask
    \/ \E c \in Coins, q \in Sizes :
          Reduce(c, q) \/ \E buy \in BOOLEAN : Trade(c, buy, q)

Spec == Init /\ [][Next]_<<position, asked, traded>>
===============================================================================
