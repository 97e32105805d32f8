------------------------------ MODULE OrderSpecs ------------------------------
(***************************************************************************)
(* Order specifications (types.OrderSpec): how the constructors of         *)
(* src/trade/place.go fill them, what validate refuses, and the requests   *)
(* that specToRequests and bracketOrders make of them.                     *)
(*                                                                         *)
(* Sizes are natural numbers of lots and prices natural numbers of ticks,  *)
(* 0 where an option is not given: the checks on lot steps and significant *)
(* figures hold of them, and formatting keeps them.  Client order ids,     *)
(* builders and the grouping of a bracket are left out.                    *)
(***************************************************************************)
EXTENDS Integers, Sequences

CONSTANTS
    Coins,      \* names the asset tables know
    NoCoin      \* the empty name

ASSUME NoCoinAssumption == NoCoin \notin Coins

Methods == {"alo", "ioc", "gtc", "market", "trigger", "close"}

Specs ==
    [method : Methods, coin : Coins \cup {NoCoin}, buy : BOOLEAN, size : Nat,
     price : Nat, reduceOnly : BOOLEAN, slippage : Nat, triggerPx : Nat,
     takeProfit : Nat, stopLoss : Nat, tpSize : Nat, slSize : Nat,
     overrideSize : Nat, limitPrice : Nat, skip : BOOLEAN]

Kinds    == {"Alo", "Ioc", "Gtc", "tp", "sl"}
Requests == [coin : Coins, buy : BOOLEAN, size : Nat, price : Nat,
             reduceOnly : BOOLEAN, kind : Kinds]

-------------------------------------------------------------------------------
(***************************************************************************)
(* Constructors.  Options are record updates.                              *)
(***************************************************************************)
Order(method, coin, buy, size, px) ==
    [method |-> method, coin |-> coin, buy |-> buy, size |-> size, price |-> px,
     reduceOnly |-> FALSE, slippage |-> 0, triggerPx |-> 0, takeProfit |-> 0,
     stopLoss |-> 0, tpSize |-> 0, slSize |-> 0, overrideSize |-> 0,
     limitPrice |-> 0, skip |-> FALSE]

\* A trigger order's limit price is its trigger price unless AsLimit says otherwise.
Trigger(coin, buy, size, px) ==
    [Order("trigger", coin, buy, size, px) EXCEPT !.triggerPx = px]

-------------------------------------------------------------------------------
(***************************************************************************)
(* validate.                                                               *)
(***************************************************************************)
Unsupported(s) ==
    \/ s.slippage # 0 /\ s.method \notin {"market", "close"}
    \/ s.overrideSize # 0 /\ s.method # "close"
    \/ s.limitPrice # 0 /\ s.method # "close"

\* validateBracket: without a reference price nothing is compared.
BracketOk(s) ==
    \/ s.takeProfit = 0 /\ s.stopLoss = 0
    \/ s.price = 0
    \/ /\ s.takeProfit > 0 =>
              IF s.buy THEN s.takeProfit > s.price ELSE s.takeProfit < s.price
       /\ s.stopLoss > 0 =>
              IF s.buy THEN s.stopLoss < s.price ELSE s.stopLoss > s.price
       /\ s.size > 0 => s.tpSize <= s.size /\ s.slSize <= s.size

\* The rules that need no user state.
LocallyValid(s) ==
    /\ ~Unsupported(s)
    /\ s.coin \in Coins
    /\ s.size > 0 \/ s.method = "close"
    /\ s.method \in {"alo", "ioc", "gtc"} => s.price > 0
    /\ BracketOk(s)

Abs(x) == IF x < 0 THEN -x ELSE x

\* validatePositionState against a position of signed size szi, 0 when there is none.
PositionOk(s, szi) ==
    /\ s.reduceOnly => IF s.buy THEN szi <= 0 ELSE szi >= 0
    /\ s.method = "close" => szi # 0 /\ s.overrideSize <= Abs(szi)

-------------------------------------------------------------------------------
(***************************************************************************)
(* specToRequests.                                                         *)
(***************************************************************************)
Tif(s) ==
    CASE s.method = "alo"                 -> "Alo"
      [] s.method \in {"ioc", "market"}   -> "Ioc"
      [] OTHER                            -> "Gtc"

\* triggerTpsl: a buy is taken for a stop-loss, a sell for a take-profit.
Kind(s) == IF s.method = "trigger" THEN IF s.buy THEN "sl" ELSE "tp" ELSE Tif(s)

Parent(s) == [coin |-> s.coin, buy |-> s.buy, size |-> s.size, price |-> s.price,
              reduceOnly |-> s.reduceOnly, kind |-> Kind(s)]

\* A leg leaves the position its parent enters.
Leg(s, px, sz, kind) ==
    [coin |-> s.coin, buy |-> ~s.buy, size |-> IF sz > 0 THEN sz ELSE s.size,
     price |-> px, reduceOnly |-> TRUE, kind |-> kind]

Legs(s) ==
    (IF s.takeProfit > 0 THEN << Leg(s, s.takeProfit, s.tpSize, "tp") >> ELSE << >>)
    \o (IF s.stopLoss > 0 THEN << Leg(s, s.stopLoss, s.slSize, "sl") >> ELSE << >>)

ToRequests(s) == << Parent(s) >> \o Legs(s)
===============================================================================
