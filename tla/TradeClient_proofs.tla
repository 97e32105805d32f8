-------------------------- MODULE TradeClient_proofs --------------------------
(***************************************************************************)
(* Proofs about TradeClient, for any goroutines, specs, coins and bounds.  *)
(*                                                                         *)
(* A cancel keeps its word because order ids are given in order (BookInv): *)
(* no later order takes the id of one that is to be cancelled, and until   *)
(* the open orders are listed those that are doomed are of coins the call  *)
(* keeps (CancelInv).  CancelAll lists the orders of the account it cancels *)
(* for only where the client was given the address of that account.        *)
(*                                                                         *)
(* No more is traded than was asked because each order holds units that it *)
(* passes on, drops or trades, and never makes (LedgerInv).                *)
(***************************************************************************)
EXTENDS TradeClient, TLAPS, FiniteSetTheorems

\* What the variables of a call hold where the call needs them.
CallInv ==
    /\ \A u \in Users : pc[u] \in {"fetch", "store", "check"} =>
          local[u].todo # << >> /\ Head(local[u].todo).coin \in Coins
    /\ \A u \in Users : pc[u] \in {"closeFetch", "closeStore", "closeRead"} =>
          local[u].closing \in Closes

\* Who is about to store has a snapshot.
FetchInv ==
    \A u \in Users : pc[u] \in {"store", "closeStore", "keep"} =>
        local[u].reply \in Positions

\* Ids are given in order and name one order, and only given ids are cancelled.
BookInv ==
    /\ \A o \in book : o.oid <= lastOid
    /\ \A o1, o2 \in book : o1.oid = o2.oid => o1 = o2
    /\ \A u \in Users : \A i \in doomed[u] : i <= lastOid

\* Doomed orders that are still open will be listed, or have been.
CancelInv ==
    /\ \A u \in Users : pc[u] = "list" => \A o \in book : o.oid \in doomed[u] =>
          o.coin \notin DexCoins /\ Keep(o.coin, local[u].coins)
    /\ \A u \in Users : pc[u] = "cancel" \/ (pc[u] = "sweep" /\ Listed = Owner) =>
          \A o \in book : o.oid \in doomed[u] => o.oid \in local[u].targets

IInv ==
    /\ TypeOK /\ CallInv /\ FetchInv /\ BookInv /\ CancelInv
    /\ BatchIsAtomic /\ ChecksHaveState /\ CancelsWhatItReports

-------------------------------------------------------------------------------
(***************************************************************************)
(* What the operators return.                                              *)
(***************************************************************************)
\* A non-empty sequence is an element and a sequence.
LEMMA HeadAndTail ==
  ASSUME NEW S, NEW s \in Seq(S), s # << >>
  PROVE  Head(s) \in S /\ Tail(s) \in Seq(S)
  OBVIOUS

\* A sequence of one element or none.
LEMMA AtMostOne ==
  ASSUME NEW x, NEW wanted \in BOOLEAN, NEW s, s = IF wanted THEN << x >> ELSE << >>
  PROVE  /\ s \in Seq({x}) /\ Len(s) \in Nat /\ Len(s) <= 1
         /\ \A j \in 1..Len(s) : s[j] = x /\ wanted
<1>1. CASE wanted
  <2>1. s = << x >>
    BY <1>1
  <2>2. << x >> \in Seq({x}) /\ Len(<< x >>) = 1 /\ << x >>[1] = x
    OBVIOUS
  <2>3. \A j \in 1..1 : j = 1
    OBVIOUS
  <2> QED BY <1>1, <2>1, <2>2, <2>3
<1>2. CASE ~wanted
  <2>1. s = << >>
    BY <1>2
  <2>2. << >> \in Seq({x}) /\ Len(<< >>) = 0
    OBVIOUS
  <2> QED BY <2>1, <2>2
<1> QED BY <1>1, <1>2

\* Elements of a concatenation.
LEMMA Joined ==
  ASSUME NEW S, NEW q \in Seq(S), NEW t \in Seq(S), NEW i \in 1..Len(q \o t)
  PROVE  \/ i \in 1..Len(q) /\ (q \o t)[i] = q[i]
         \/ i - Len(q) \in 1..Len(t) /\ (q \o t)[i] = t[i - Len(q)]
  <1>1. Len(q \o t) = Len(q) + Len(t) /\ Len(q) \in Nat /\ Len(t) \in Nat
    OBVIOUS
  <1>2. (q \o t)[i] = IF i <= Len(q) THEN q[i] ELSE t[i - Len(q)]
    BY <1>1
  <1> QED BY <1>1, <1>2

\* Every leg of a spec is its take-profit or its stop-loss.
LEMMA LegsAre ==
  ASSUME NEW s \in Specs
  PROVE  LET tp == Leg(s, s.takeProfit, s.tpSize, "tp")
             sl == Leg(s, s.stopLoss, s.slSize, "sl")
         IN  /\ Legs(s) \in Seq({tp, sl})
             /\ \A i \in 1..Len(Legs(s)) : \/ Legs(s)[i] = tp /\ s.takeProfit > 0
                                           \/ Legs(s)[i] = sl /\ s.stopLoss > 0
<1> DEFINE tp == Leg(s, s.takeProfit, s.tpSize, "tp")
           sl == Leg(s, s.stopLoss, s.slSize, "sl")
           A == IF s.takeProfit > 0 THEN << tp >> ELSE << >>
           B == IF s.stopLoss > 0 THEN << sl >> ELSE << >>
<1>1. s.takeProfit \in Nat /\ s.stopLoss \in Nat
  BY DEF Specs
<1>2. A \in Seq({tp}) /\ \A j \in 1..Len(A) : A[j] = tp /\ s.takeProfit > 0
  <2> HIDE DEF tp, sl
  <2> QED BY <1>1, AtMostOne
<1>3. B \in Seq({sl}) /\ \A j \in 1..Len(B) : B[j] = sl /\ s.stopLoss > 0
  <2> HIDE DEF tp, sl
  <2> QED BY <1>1, AtMostOne
<1>4. Legs(s) = A \o B
  BY DEF Legs
<1> HIDE DEF A, B, tp, sl
<1>5. A \in Seq({tp, sl}) /\ B \in Seq({tp, sl})
  BY <1>2, <1>3
<1>6. ASSUME NEW i \in 1..Len(Legs(s))
      PROVE  \/ Legs(s)[i] = tp /\ s.takeProfit > 0
             \/ Legs(s)[i] = sl /\ s.stopLoss > 0
  BY <1>2, <1>3, <1>4, <1>5, Joined, SMTT(30)
<1>7. Legs(s) \in Seq({tp, sl})
  BY <1>4, <1>5
<1> QED BY <1>6, <1>7 DEF tp, sl

\* All requests of a spec but the first are legs, which are reduce-only.
LEMMA LegsReduce ==
  ASSUME NEW s \in Specs, NEW i \in 1..Len(ToRequests(s))
  PROVE  \/ i = 1 /\ ToRequests(s)[i] = Parent(s)
         \/ ToRequests(s)[i].reduceOnly
<1> DEFINE tp == Leg(s, s.takeProfit, s.tpSize, "tp")
           sl == Leg(s, s.stopLoss, s.slSize, "sl")
           p  == Parent(s)
           l  == Legs(s)
<1>1. tp.reduceOnly /\ sl.reduceOnly
  BY DEF Leg
<1>2. /\ l \in Seq({tp, sl})
      /\ \A j \in 1..Len(l) : l[j] = tp \/ l[j] = sl
  BY LegsAre
<1>3. ToRequests(s) = << p >> \o l
  BY DEF ToRequests
<1> HIDE DEF tp, sl, p, l
<1>4. << p >> \in Seq({p, tp, sl}) /\ l \in Seq({p, tp, sl}) /\ Len(<< p >>) = 1 /\ << p >>[1] = p
  BY <1>2
<1>5. \/ i \in 1..1 /\ (<< p >> \o l)[i] = << p >>[i]
      \/ i - 1 \in 1..Len(l) /\ (<< p >> \o l)[i] = l[i - 1]
  BY <1>3, <1>4, Joined
<1> QED BY <1>1, <1>2, <1>3, <1>4, <1>5, SMTT(30) DEF p

\* specToRequests turns a spec of a known coin into well-formed requests.
LEMMA RequestsTyped ==
  ASSUME NEW s \in Specs, s.coin \in Coins
  PROVE  ToRequests(s) \in Seq(Requests)
<1>1. Parent(s) \in Requests
  BY SMTT(30) DEF Parent, Kind, Tif, Kinds, Requests, Specs, Methods
<1>2. ASSUME NEW px \in Nat, NEW sz \in Nat, NEW k \in {"tp", "sl"}
      PROVE  Leg(s, px, sz, k) \in Requests
  BY <1>2 DEF Leg, Kinds, Requests, Specs
<1>3. /\ s.takeProfit \in Nat /\ s.stopLoss \in Nat
      /\ s.tpSize \in Nat /\ s.slSize \in Nat
  BY DEF Specs
<1>4. << Leg(s, s.takeProfit, s.tpSize, "tp") >> \in Seq(Requests)
  BY <1>2, <1>3
<1>5. << Leg(s, s.stopLoss, s.slSize, "sl") >> \in Seq(Requests)
  BY <1>2, <1>3
<1>6. << >> \in Seq(Requests)
  OBVIOUS
<1>7. Legs(s) \in Seq(Requests)
  BY <1>4, <1>5, <1>6 DEF Legs
<1>8. << Parent(s) >> \in Seq(Requests)
  BY <1>1
<1> QED BY <1>7, <1>8 DEF ToRequests

\* ClosePosition makes a spec of its coin, whatever the snapshot says.
LEMMA CloseSpecTyped ==
  ASSUME NEW s \in Closes, NEW szi \in Int, NEW px \in Nat
  PROVE  CloseSpec(s, szi, px) \in Specs
<1>1. s \in Specs
  BY ClosesAssumption
<1>2. CloseSize(s, szi) \in Nat
  BY <1>1 DEF CloseSize, Abs, Specs
<1>3. (szi < 0) \in BOOLEAN
  OBVIOUS
<1> QED BY <1>1, <1>2, <1>3 DEF CloseSpec, Specs

\* A snapshot, of whatever account, gives every coin a position.
LEMMA SnapshotTyped ==
  ASSUME TypeOK
  PROVE  Snapshots \subseteq Positions
<1> SUFFICES ASSUME NEW reply \in Snapshots PROVE reply \in Positions
  OBVIOUS
<1>1. PICK szi \in IF Effective = Owner THEN {position} ELSE Starts :
         reply = [c \in Coins |-> IF Visible(c) THEN szi[c] ELSE 0]
  BY DEF Snapshots
<1>2. szi \in Positions
  BY <1>1, StartsAssumption, LimitsAssumption DEF TypeOK, Positions
<1> QED BY <1>1, <1>2 DEF Positions

LEMMA BlankTyped == Blank \in Locals
<1>1. << >> \in Seq(Specs) /\ << >> \in Seq(Requests)
  OBVIOUS
<1> QED BY <1>1 DEF Blank, Locals

-------------------------------------------------------------------------------
(***************************************************************************)
(* Types.                                                                  *)
(***************************************************************************)
\* The variables of one goroutine.
CallType ==
    /\ pc \in [Users -> Labels] /\ local \in [Users -> Locals]
    /\ result \in [Users -> {"none"} \cup Promises]

LEMMA BeginTyped ==
  ASSUME TypeOK, NEW u \in Users, NEW label \in Labels, NEW args \in Locals,
         NEW orders \in SUBSET Oids, Begin(u, label, args, orders)
  PROVE  CallType' /\ calls' \in 0..MaxCalls /\ doomed' \in [Users -> SUBSET Oids]
BY LimitsAssumption DEF TypeOK, CallType, Begin, Goto

LEMMA ReturnTyped ==
  ASSUME TypeOK, NEW u \in Users, NEW how \in {"ok", "swept", "cancelled", "refused", "failed"},
         Return(u, how)
  PROVE  CallType'
BY BlankTyped DEF TypeOK, CallType, Return, Goto, Labels, Promises

LEMMA ExecuteTyped ==
  ASSUME TypeOK, NEW c \in Coins, NEW buy \in BOOLEAN, NEW q \in Nat,
         NEW reduceOnly \in BOOLEAN, Execute(c, buy, q, reduceOnly)
  PROVE  position' \in Positions /\ traded' \in Sides
<1>1. Toward(buy, q) \in Int
  BY DEF Toward
<1>2. position' \in Positions
  BY <1>1 DEF TypeOK, Execute, Positions
<1>3. traded' \in Sides
  BY DEF TypeOK, Execute, Sides
<1> QED BY <1>2, <1>3

\* More is asked or traded on one side.
LEMMA SidesTyped ==
  ASSUME NEW f \in Sides, NEW c \in Coins, NEW buy \in BOOLEAN, NEW n \in Nat
  PROVE  [f EXCEPT ![c][buy] = @ + n] \in Sides
BY DEF Sides

\* A spec that is queued leaves the specs and its requests join the orders.
LEMMA QueueTyped ==
  ASSUME TypeOK, NEW u \in Users, local[u].todo # << >>,
         Head(local[u].todo).coin \in Coins, Queue(u)
  PROVE  pc' \in [Users -> Labels] /\ local' \in [Users -> Locals] /\ asked' \in Sides
<1> DEFINE s == Head(local[u].todo)
<1>1. local[u] \in Locals /\ local[u].todo \in Seq(Specs) /\ local[u].orders \in Seq(Requests)
  BY DEF TypeOK, Locals
<1>2. s \in Specs /\ Tail(local[u].todo) \in Seq(Specs)
  BY <1>1, HeadAndTail
<1>3. ToRequests(s) \in Seq(Requests)
  BY <1>2, RequestsTyped
<1>4. local[u].orders \o ToRequests(s) \in Seq(Requests)
  BY <1>1, <1>3
<1>5. [local[u] EXCEPT !.todo = Tail(@), !.orders = @ \o ToRequests(s)] \in Locals
  BY <1>1, <1>2, <1>4 DEF Locals
<1>6. local' = [local EXCEPT ![u] =
                  [local[u] EXCEPT !.todo = Tail(@), !.orders = @ \o ToRequests(s)]]
  BY DEF Queue
<1>7. local' \in [Users -> Locals]
  BY <1>5, <1>6 DEF TypeOK
<1>8. pc' \in [Users -> Labels]
  BY DEF TypeOK, Queue, Goto, Labels
<1>9. s.coin \in Coins /\ s.buy \in BOOLEAN /\ Asks(s) \in Nat
  BY <1>2 DEF Asks, Specs
<1>10. asked' = [asked EXCEPT ![s.coin][s.buy] = @ + Asks(s)]
  BY DEF Queue
<1>11. asked' \in Sides
  BY <1>9, <1>10, SidesTyped DEF TypeOK
<1> QED BY <1>7, <1>8, <1>11

\* The initial state.
LEMMA InitInv == Init => IInv
<1> SUFFICES ASSUME Init PROVE IInv
  OBVIOUS
<1>1. NothingYet \in Sides
  BY DEF NothingYet, Sides
<1>2. TypeOK
  BY <1>1, BlankTyped, StartsAssumption, LimitsAssumption DEF Init, TypeOK, Labels, Positions
<1>3. CallInv /\ FetchInv /\ BatchIsAtomic /\ ChecksHaveState /\ CancelsWhatItReports
  BY DEF Init, CallInv, FetchInv, BatchIsAtomic, ChecksHaveState, CancelsWhatItReports
<1>4. BookInv /\ CancelInv
  BY DEF Init, BookInv, CancelInv
<1> QED BY <1>2, <1>3, <1>4 DEF IInv

LEMMA CallsTyped ==
  ASSUME TypeOK, NEW u \in Users, Call(u)
  PROVE  TypeOK'
<1>1. /\ Blank \in Locals
      /\ \A t \in Seq(Specs) : [Blank EXCEPT !.todo = t] \in Locals
      /\ \A s \in Closes : [Blank EXCEPT !.closing = s] \in Locals
      /\ \A cs \in SUBSET Coins : [Blank EXCEPT !.coins = cs] \in Locals
      /\ \A os \in SUBSET Oids : [Blank EXCEPT !.targets = os] \in Locals
  BY BlankTyped DEF Locals
<1>2. {"next", "closeFetch", "refresh", "list", "cancel"} \subseteq Labels
  BY DEF Labels
<1>3. ASSUME NEW label \in {"next", "closeFetch", "refresh", "list", "cancel"},
             NEW args \in Locals, NEW orders \in SUBSET Oids,
             Begin(u, label, args, orders), UNCHANGED <<exchangeVars, cache, asked>>
      PROVE  TypeOK'
  BY <1>2, <1>3, BeginTyped DEF TypeOK, CallType, exchangeVars
<1>4. CASE \E specs \in Batches : Place(u, specs)
  BY <1>1, <1>3, <1>4, BatchesAssumption DEF Place, TypeOK
<1>5. CASE \E s \in Markets : PlaceMarket(u, s)
  <2>1. PICK s \in Markets : PlaceMarket(u, s)
    BY <1>5
  <2>2. PICK px \in Quotes :
           Begin(u, "next", [Blank EXCEPT !.todo = << [s EXCEPT !.price = px] >>], {})
    BY <2>1 DEF PlaceMarket
  <2>3. s \in Specs /\ px \in Nat
    BY BatchesAssumption, QuotesAssumption
  <2>4. [s EXCEPT !.price = px] \in Specs
    BY <2>3 DEF Specs
  <2>5. << [s EXCEPT !.price = px] >> \in Seq(Specs)
    BY <2>4
  <2>6. [Blank EXCEPT !.todo = << [s EXCEPT !.price = px] >>] \in Locals
    BY <1>1, <2>5
  <2>7. UNCHANGED <<exchangeVars, cache, asked>>
    BY <2>1 DEF PlaceMarket
  <2> QED BY <1>3, <2>2, <2>6, <2>7
<1>6. CASE \E s \in Closes : ClosePosition(u, s)
  BY <1>1, <1>3, <1>6 DEF ClosePosition, TypeOK
<1>7. CASE RefreshState(u)
  BY <1>1, <1>3, <1>7 DEF RefreshState, TypeOK
<1>8. CASE \E coins \in Sweeps : CancelAll(u, coins)
  <2>1. PICK coins \in Sweeps : CancelAll(u, coins)
    BY <1>8
  <2>2. \A orders \in SUBSET Resting : Open(orders) \in SUBSET Oids
    BY DEF Open, Resting
  <2> DEFINE D == Open({o \in book : o.coin \notin DexCoins
                                     /\ (coins = {} \/ o.coin \in coins)})
  <2>3. D \in SUBSET Oids
    BY <2>2 DEF TypeOK
  <2>4. /\ Begin(u, "list", [Blank EXCEPT !.coins = coins], D)
        /\ UNCHANGED <<exchangeVars, cache, asked>>
    BY <2>1 DEF CancelAll
  <2>5. [Blank EXCEPT !.coins = coins] \in Locals
    BY <1>1, CoinsAssumption
  <2> HIDE DEF D
  <2> QED BY <1>3, <2>3, <2>4, <2>5
<1>9. CASE \E oid \in Oids : Cancel(u, oid)
  <2>1. PICK oid \in Oids : Cancel(u, oid)
    BY <1>9
  <2>2. /\ Begin(u, "cancel", [Blank EXCEPT !.targets = {oid}], {oid})
        /\ UNCHANGED <<exchangeVars, cache, asked>>
    BY <2>1 DEF Cancel
  <2>3. {oid} \in SUBSET Oids /\ [Blank EXCEPT !.targets = {oid}] \in Locals
    BY <1>1
  <2> QED BY <1>3, <2>2, <2>3
<1> QED BY <1>4, <1>5, <1>6, <1>7, <1>8, <1>9 DEF Call

LEMMA StepsTyped ==
  ASSUME TypeOK, CallInv, FetchInv, NEW u \in Users, Step(u)
  PROVE  TypeOK'
<1>1. /\ local[u] \in Locals
      /\ local[u].todo \in Seq(Specs) /\ local[u].orders \in Seq(Requests)
  BY DEF TypeOK, Locals
<1>2. CASE ValidateLocally(u)
  <2> DEFINE s == Head(local[u].todo)
  <2>1. s \in Specs
    BY <1>1, <1>2, HeadAndTail DEF ValidateLocally
  <2>2. CASE s.skip /\ s.coin # NoCoin /\ Queue(u) /\ UNCHANGED result
    <3>1. s.coin \in Coins
      BY <2>1, <2>2 DEF Specs
    <3> QED BY <1>2, <2>2, <3>1, QueueTyped DEF ValidateLocally, TypeOK, exchangeVars
  <2>3. CASE Goto(u, "fetch") /\ UNCHANGED <<local, result, asked>>
    BY <1>2, <2>3 DEF ValidateLocally, Goto, Labels, TypeOK, exchangeVars
  <2>4. CASE Return(u, "refused") /\ UNCHANGED asked
    BY <1>2, <2>4, ReturnTyped DEF ValidateLocally, CallType, TypeOK, exchangeVars
  <2> QED BY <1>2, <2>2, <2>3, <2>4 DEF ValidateLocally
<1>3. CASE ValidatePosition(u)
  <2>1. CASE Queue(u) /\ UNCHANGED result
    <3>1. local[u].todo # << >> /\ Head(local[u].todo).coin \in Coins
      BY <1>3 DEF ValidatePosition, CallInv
    <3> QED BY <1>3, <2>1, <3>1, QueueTyped DEF ValidatePosition, TypeOK, exchangeVars
  <2>2. CASE Return(u, "refused") /\ UNCHANGED asked
    BY <1>3, <2>2, ReturnTyped DEF ValidatePosition, CallType, TypeOK, exchangeVars
  <2> QED BY <1>3, <2>1, <2>2 DEF ValidatePosition
<1>4. CASE Fetch(u)
  <2>1. PICK reply \in Snapshots : local' = [local EXCEPT ![u].reply = reply]
    BY <1>4 DEF Fetch
  <2>4. [local[u] EXCEPT !.reply = reply] \in Locals
    BY <1>1, SnapshotTyped DEF Locals
  <2>2. local' \in [Users -> Locals]
    BY <2>1, <2>4 DEF TypeOK
  <2>3. pc' \in [Users -> Labels]
    BY <1>4 DEF Fetch, AfterFetch, Goto, Labels, TypeOK
  <2> QED BY <1>4, <2>2, <2>3 DEF Fetch, TypeOK, exchangeVars
<1>5. CASE FetchFail(u)
  BY <1>5, ReturnTyped DEF FetchFail, CallType, TypeOK, exchangeVars
<1>6. CASE Store(u)
  <2>1. pc[u] \in {"store", "closeStore", "keep"}
    BY <1>6 DEF Store, AfterStore
  <2>2. cache' \in Positions
    BY <1>6, <2>1 DEF Store, FetchInv
  <2>3. [local[u] EXCEPT !.reply = None] \in Locals
    BY <1>1 DEF Locals
  <2>4. local' \in [Users -> Locals]
    BY <1>6, <2>3 DEF Store, TypeOK
  <2>5. pc' \in [Users -> Labels]
    BY <1>6 DEF Store, AfterStore, Goto, Labels, TypeOK
  <2> QED BY <1>6, <2>2, <2>4, <2>5 DEF Store, TypeOK, exchangeVars
<1>7. CASE CloseRead(u)
  <2> DEFINE s   == local[u].closing
             szi == IF cache = None THEN 0 ELSE cache[s.coin]
  <2>1. s \in Closes /\ s.coin \in Coins /\ s.limitPrice \in Nat
    BY <1>7, ClosesAssumption DEF CloseRead, CallInv, Specs
  <2>2. szi \in Int
    BY <2>1 DEF TypeOK, Positions
  <2>3. PICK px \in IF s.limitPrice > 0 THEN {s.limitPrice} ELSE Quotes :
           local' = [local EXCEPT ![u].todo = << CloseSpec(s, szi, px) >>]
    BY <1>7 DEF CloseRead
  <2>4. px \in Nat
    BY <2>1, QuotesAssumption
  <2>5. CloseSpec(s, szi, px) \in Specs
    <3> HIDE DEF s, szi
    <3> QED BY <2>1, <2>2, <2>4, CloseSpecTyped
  <2>6. << CloseSpec(s, szi, px) >> \in Seq(Specs)
    <3> HIDE DEF s, szi
    <3> QED BY <2>5
  <2>7. local' \in [Users -> Locals]
    <3> DEFINE t == << CloseSpec(s, szi, px) >>
    <3> HIDE DEF t
    <3>1. [local[u] EXCEPT !.todo = t] \in Locals
      BY <1>1, <2>6 DEF Locals, t
    <3>2. local' = [local EXCEPT ![u] = [local[u] EXCEPT !.todo = t]]
      BY <2>3 DEF t
    <3> QED BY <3>1, <3>2 DEF TypeOK
  <2>8. pc' \in [Users -> Labels]
    BY <1>7 DEF CloseRead, Goto, Labels, TypeOK
  <2> QED BY <1>7, <2>7, <2>8 DEF CloseRead, TypeOK, exchangeVars
<1>8. CASE CloseReadFail(u)
  BY <1>8, ReturnTyped DEF CloseReadFail, CallType, TypeOK, exchangeVars
<1>9. CASE Send(u)
  <2>1. CASE Goto(u, "taking") /\ UNCHANGED <<local, result>>
    BY <1>9, <2>1 DEF Send, Goto, Labels, TypeOK, exchangeVars
  <2>2. CASE Return(u, "failed")
    BY <1>9, <2>2, ReturnTyped, SMTT(30) DEF Send, CallType, TypeOK, exchangeVars
  <2> QED BY <1>9, <2>1, <2>2 DEF Send
<1>10. CASE Take(u)
  <2> DEFINE r == Head(local[u].orders)
  <2>1. r \in Requests /\ Tail(local[u].orders) \in Seq(Requests)
    BY <1>1, <1>10, HeadAndTail DEF Take
  <2>2. [local[u] EXCEPT !.orders = Tail(@)] \in Locals
    BY <1>1, <2>1 DEF Locals
  <2>3. local' \in [Users -> Locals]
    BY <1>10, <2>2 DEF Take, TypeOK
  <2>4. CASE UNCHANGED exchangeVars
    BY <1>10, <2>3, <2>4, SMTT(30) DEF Take, TypeOK, exchangeVars
  <2>5. CASE /\ r.kind # "Ioc" /\ r.size > 0 /\ lastOid < MaxOrders
             /\ lastOid' = lastOid + 1
             /\ book' = book \cup {[oid |-> lastOid + 1, coin |-> r.coin,
                   buy |-> r.buy, size |-> r.size, reduceOnly |-> r.reduceOnly]}
             /\ UNCHANGED <<position, traded, given>>
    <3>1. lastOid' \in 0..MaxOrders /\ lastOid + 1 \in Oids
      BY <2>5, LimitsAssumption DEF TypeOK, Oids
    <3>2. [oid |-> lastOid + 1, coin |-> r.coin, buy |-> r.buy, size |-> r.size,
           reduceOnly |-> r.reduceOnly] \in Resting
      BY <2>1, <2>5, <3>1 DEF Resting, Requests
    <3> QED BY <1>10, <2>3, <2>5, <3>1, <3>2 DEF Take, TypeOK
  <2>6. CASE /\ \E q \in 1..r.size : Execute(r.coin, r.buy, q, r.reduceOnly)
             /\ UNCHANGED <<book, lastOid, given>>
    <3>1. r.coin \in Coins /\ r.buy \in BOOLEAN /\ r.size \in Nat /\ r.reduceOnly \in BOOLEAN
      BY <2>1 DEF Requests
    <3>2. position' \in Positions /\ traded' \in Sides
      BY <2>6, <3>1, ExecuteTyped
    <3> QED BY <1>10, <2>3, <2>6, <3>2 DEF Take, TypeOK
  <2> QED BY <1>10, <2>4, <2>5, <2>6 DEF Take
<1>11. CASE Answer(u)
  BY <1>11, ReturnTyped DEF Answer, CallType, TypeOK, exchangeVars
<1>12. CASE List(u)
  <2> DEFINE found == IF Listed = Owner
                      THEN Open({o \in book : o.coin \notin DexCoins
                                              /\ Keep(o.coin, local[u].coins)})
                      ELSE {}
  <2>1. CASE /\ local' = [local EXCEPT ![u].targets = found]
             /\ Goto(u, "sweep") /\ UNCHANGED result
    <3>1. found \in SUBSET Oids
      BY DEF Open, TypeOK, Resting
    <3> HIDE DEF found
    <3>2. [local[u] EXCEPT !.targets = found] \in Locals
      BY <1>1, <3>1 DEF Locals
    <3>3. local' \in [Users -> Locals]
      BY <2>1, <3>2 DEF TypeOK
    <3> QED BY <1>12, <2>1, <3>3 DEF List, Goto, Labels, TypeOK, exchangeVars
  <2>2. CASE Return(u, "swept") \/ Return(u, "failed")
    BY <1>12, <2>2, ReturnTyped DEF List, CallType, TypeOK, exchangeVars
  <2> QED BY <1>12, <2>1, <2>2 DEF List
<1>13. CASE CancelSend(u)
  <2>1. CallType'
    BY <1>13, ReturnTyped DEF CancelSend
  <2>2. book' \subseteq Resting
    BY <1>13 DEF CancelSend, TypeOK
  <2> QED BY <1>13, <2>1, <2>2 DEF CancelSend, CallType, TypeOK
<1> QED BY <1>2, <1>3, <1>4, <1>5, <1>6, <1>7, <1>8, <1>9, <1>10, <1>11, <1>12, <1>13
        DEF Step

LEMMA ExchangeTyped ==
  ASSUME TypeOK, NEW o \in book, Fill(o) \/ Expire(o)
  PROVE  TypeOK'
<1>1. o \in Resting
  BY DEF TypeOK
<1>2. CASE Fill(o)
  <2>1. position' \in Positions /\ traded' \in Sides
    BY <1>1, <1>2, ExecuteTyped DEF Fill, Resting
  <2>2. o.size # 1 => [o EXCEPT !.size = @ - 1] \in Resting
    BY <1>1 DEF Resting
  <2>3. book' \subseteq Resting
    BY <1>2, <2>2 DEF Fill, TypeOK
  <2> QED BY <1>2, <2>1, <2>3 DEF Fill, TypeOK
<1>3. CASE Expire(o)
  BY <1>3 DEF Expire, TypeOK
<1> QED BY <1>2, <1>3

-------------------------------------------------------------------------------
(***************************************************************************)
(* A goroutine's own variables.                                            *)
(***************************************************************************)
\* A step of one goroutine leaves the calls of the others alone, and the cache full.
LEMMA OthersUnchanged ==
  ASSUME TypeOK, FetchInv, NEW u \in Users, Call(u) \/ Step(u)
  PROVE  /\ \A v \in Users \ {u} :
               /\ pc'[v] = pc[v] /\ local'[v] = local[v]
               /\ result'[v] = result[v] /\ doomed'[v] = doomed[v]
         /\ cache # None => cache' # None
<1>1. CASE Call(u)
  BY <1>1, ZenonT(40) DEF Call, Place, PlaceMarket, ClosePosition, RefreshState, CancelAll, Cancel,
              Begin, Goto, TypeOK
<1>2. CASE Store(u)
  <2>1. local[u].reply \in Positions
    BY <1>2 DEF Store, AfterStore, FetchInv
  <2> QED BY <1>2, <2>1, NoneAssumption DEF Store, Goto, TypeOK
<1>3. CASE ValidateLocally(u) \/ ValidatePosition(u)
  BY <1>3 DEF ValidateLocally, ValidatePosition, Queue, Return, Goto, TypeOK
<1>4. CASE Fetch(u) \/ FetchFail(u) \/ CloseRead(u) \/ CloseReadFail(u) \/ Send(u)
  BY <1>4 DEF Fetch, FetchFail, CloseRead, CloseReadFail, Send, Return, Goto, TypeOK
<1>5. CASE Take(u) \/ Answer(u) \/ List(u) \/ CancelSend(u)
  BY <1>5 DEF Take, Answer, List, CancelSend, Return, Goto, TypeOK
<1> QED BY <1>1, <1>2, <1>3, <1>4, <1>5 DEF Step

\* What a goroutine that acts holds afterwards.
OwnCall(u) ==
    /\ pc[u] \in {"fetch", "store", "check"} =>
          local[u].todo # << >> /\ Head(local[u].todo).coin \in Coins
    /\ pc[u] \in {"closeFetch", "closeStore", "closeRead"} => local[u].closing \in Closes
    /\ pc[u] \in {"store", "closeStore", "keep"} => local[u].reply \in Positions
    /\ pc[u] = "taking" => local[u].todo = << >>
    /\ pc[u] \in {"check", "closeRead"} => cache # None

LEMMA OwnCallKept ==
  ASSUME IInv, NEW u \in Users, Call(u) \/ Step(u)
  PROVE  OwnCall(u)'
<1> USE DEF IInv
<1>1. pc \in [Users -> Labels] /\ local \in [Users -> Locals]
  BY DEF TypeOK
<1>2. CASE Call(u)
  BY <1>1, <1>2, ZenonT(60) DEF Call, Place, PlaceMarket, ClosePosition, RefreshState, CancelAll,
                    Cancel, Begin, Goto, Blank, OwnCall
<1>3. CASE ValidateLocally(u)
  <2>1. CASE Queue(u)
    BY <1>1, <2>1 DEF Queue, Goto, OwnCall
  <2>2. CASE LocallyValid(Head(local[u].todo)) /\ Goto(u, "fetch")
             /\ UNCHANGED <<local, result, asked>>
    BY <1>1, <1>3, <2>2 DEF ValidateLocally, LocallyValid, Goto, OwnCall
  <2>3. CASE Return(u, "refused")
    BY <1>1, <2>3 DEF Return, Goto, OwnCall
  <2> QED BY <1>3, <2>1, <2>2, <2>3 DEF ValidateLocally
<1>4. CASE ValidatePosition(u)
  BY <1>1, <1>4 DEF ValidatePosition, Queue, Return, Goto, OwnCall
<1>5. CASE Fetch(u)
  <2>1. PICK reply \in Snapshots : local' = [local EXCEPT ![u].reply = reply]
    BY <1>5 DEF Fetch
  <2>5. reply \in Positions
    BY SnapshotTyped
  <2>2. local'[u] = [local[u] EXCEPT !.reply = reply]
    BY <1>1, <2>1
  <2>3. /\ local'[u].reply = reply /\ local'[u].todo = local[u].todo
        /\ local'[u].closing = local[u].closing
    BY <1>1, <2>2 DEF Locals
  <2>4. \/ pc[u] = "fetch" /\ pc'[u] = "store"
        \/ pc[u] = "closeFetch" /\ pc'[u] = "closeStore"
        \/ pc[u] = "refresh" /\ pc'[u] = "keep"
    BY <1>1, <1>5 DEF Fetch, AfterFetch, Goto
  <2> QED BY <2>3, <2>4, <2>5 DEF CallInv, OwnCall
<1>6. CASE Store(u)
  <2>1. local'[u] = [local[u] EXCEPT !.reply = None]
    BY <1>1, <1>6 DEF Store
  <2>2. local'[u].todo = local[u].todo /\ local'[u].closing = local[u].closing
    BY <1>1, <2>1 DEF Locals
  <2>3. \/ pc[u] = "store" /\ pc'[u] = "check"
        \/ pc[u] = "closeStore" /\ pc'[u] = "closeRead"
        \/ pc[u] = "keep" /\ pc'[u] = "idle"
    BY <1>1, <1>6 DEF Store, AfterStore, Goto
  <2>4. cache' # None
    BY <1>6, <2>3, NoneAssumption DEF Store, FetchInv
  <2> QED BY <2>2, <2>3, <2>4 DEF CallInv, OwnCall
<1>7. CASE CloseRead(u)
  BY <1>1, <1>7 DEF CloseRead, Goto, OwnCall
<1>8. CASE FetchFail(u) \/ CloseReadFail(u) \/ Answer(u) \/ CancelSend(u)
  BY <1>1, <1>8 DEF FetchFail, CloseReadFail, Answer, CancelSend, Return, Goto, OwnCall
<1>9. CASE Send(u)
  BY <1>1, <1>9 DEF Send, Return, Goto, OwnCall
<1>10. CASE Take(u)
  <2>1. local'[u] = [local[u] EXCEPT !.orders = Tail(@)]
    BY <1>1, <1>10 DEF Take
  <2>2. local'[u].todo = local[u].todo
    BY <1>1, <2>1 DEF Locals
  <2>3. pc[u] = "taking" /\ pc'[u] = "taking"
    BY <1>10 DEF Take
  <2> QED BY <2>2, <2>3 DEF BatchIsAtomic, OwnCall
<1>11. CASE List(u)
  BY <1>1, <1>11 DEF List, Return, Goto, OwnCall
<1> QED BY <1>2, <1>3, <1>4, <1>5, <1>6, <1>7, <1>8, <1>9, <1>10, <1>11 DEF Step

-------------------------------------------------------------------------------
(***************************************************************************)
(* The order book, and what is to be cancelled of it.                      *)
(***************************************************************************)
\* An order of the next book was there, or takes the next id.
Evolves ==
    /\ given' = given /\ lastOid' \in Nat /\ lastOid' >= lastOid
    /\ \A o \in book' : o.oid <= lastOid'
    /\ \A o \in book' : \/ \E p \in book : p.oid = o.oid /\ p.coin = o.coin
                        \/ o.oid > lastOid
    /\ \A o1, o2 \in book' : o1.oid = o2.oid => o1 = o2

\* The options of a client do not change.
LEMMA GivenKept ==
  ASSUME Next
  PROVE  UNCHANGED given
<1>1. ASSUME NEW u \in Users, Call(u)
      PROVE  UNCHANGED given
  BY <1>1 DEF Call, Place, PlaceMarket, ClosePosition, RefreshState, CancelAll, Cancel,
              exchangeVars
<1>2. ASSUME NEW u \in Users, Step(u)
      PROVE  UNCHANGED given
  BY <1>2 DEF Step, ValidateLocally, ValidatePosition, Fetch, FetchFail, Store, CloseRead,
              CloseReadFail, Send, Take, Answer, List, CancelSend, exchangeVars
<1>3. ASSUME NEW o \in book, Fill(o) \/ Expire(o)
      PROVE  UNCHANGED given
  BY <1>3 DEF Fill, Expire
<1> QED BY <1>1, <1>2, <1>3 DEF Next

LEMMA BookEvolves ==
  ASSUME TypeOK, BookInv, Next
  PROVE  Evolves
<1>1. lastOid \in Nat /\ book \subseteq Resting
  BY DEF TypeOK
<1>2. \A o \in book : o.oid \in Nat
  BY <1>1 DEF Resting, Oids
<1>10. UNCHANGED given
  BY GivenKept
<1>3. CASE UNCHANGED <<book, lastOid>>
  BY <1>1, <1>2, <1>3, <1>10 DEF BookInv, Evolves
<1>4. CASE book' \subseteq book /\ UNCHANGED lastOid
  BY <1>1, <1>2, <1>4, <1>10 DEF BookInv, Evolves
<1>5. ASSUME NEW u \in Users, Take(u), ~UNCHANGED <<book, lastOid>>
      PROVE  Evolves
  <2>1. PICK n : /\ n.oid = lastOid + 1
                 /\ lastOid' = lastOid + 1 /\ book' = book \cup {n}
    BY <1>5 DEF Take, exchangeVars
  <2> QED BY <1>1, <1>2, <1>10, <2>1 DEF BookInv, Evolves
<1>6. ASSUME NEW o \in book, Fill(o)
      PROVE  Evolves
  <2> DEFINE n == [o EXCEPT !.size = @ - 1]
  <2>1. n.oid = o.oid /\ n.coin = o.coin
    BY <1>1 DEF Resting
  <2>2. UNCHANGED lastOid /\ (book' = book \ {o} \/ book' = (book \ {o}) \cup {n})
    BY <1>6 DEF Fill
  <2> HIDE DEF n
  <2> QED BY <1>1, <1>2, <1>10, <2>1, <2>2 DEF BookInv, Evolves
<1>7. ASSUME NEW o \in book, Expire(o)
      PROVE  Evolves
  BY <1>4, <1>7 DEF Expire
<1>8. ASSUME NEW u \in Users, CancelSend(u)
      PROVE  Evolves
  BY <1>4, <1>8 DEF CancelSend
<1>9. ASSUME NEW u \in Users, Call(u) \/ Step(u), ~Take(u), ~CancelSend(u)
      PROVE  UNCHANGED <<book, lastOid>>
  BY <1>9 DEF Call, Place, PlaceMarket, ClosePosition, RefreshState, CancelAll, Cancel,
              Step, ValidateLocally, ValidatePosition, Fetch, FetchFail, Store, CloseRead,
              CloseReadFail, Send, Answer, List, exchangeVars
<1> QED BY <1>3, <1>5, <1>6, <1>7, <1>8, <1>9 DEF Next

\* What CancelInv and CancelsWhatItReports say of one goroutine.
OwnCancel(u) ==
    /\ \A i \in doomed[u] : i <= lastOid
    /\ pc[u] = "list" => \A o \in book : o.oid \in doomed[u] =>
          o.coin \notin DexCoins /\ Keep(o.coin, local[u].coins)
    /\ pc[u] = "cancel" \/ (pc[u] = "sweep" /\ Listed = Owner) =>
          \A o \in book : o.oid \in doomed[u] => o.oid \in local[u].targets
    /\ result[u] = "cancelled" \/ (result[u] = "swept" /\ Listed = Owner) =>
          \A o \in book : o.oid \notin doomed[u]

\* Whatever happens to the book, a goroutine that does not act keeps its word.
LEMMA OwnCancelStable ==
  ASSUME TypeOK, Evolves, NEW u \in Users, OwnCancel(u),
         UNCHANGED doomed[u] \/ doomed'[u] = {},
         UNCHANGED pc[u] \/ pc'[u] \notin {"list", "sweep", "cancel"},
         UNCHANGED local[u] \/ pc'[u] \notin {"list", "sweep", "cancel"},
         UNCHANGED result[u] \/ result'[u] \notin Promises
  PROVE  OwnCancel(u)'
<1>1. \A o \in book' : o.oid \in doomed[u] =>
         \E p \in book : p.oid = o.oid /\ p.coin = o.coin
  BY DEF Evolves, OwnCancel, TypeOK, Oids
<1>2. \A i \in doomed'[u] : i <= lastOid'
  BY DEF Evolves, OwnCancel, TypeOK, Oids
<1>3. (Listed = Owner)' <=> Listed = Owner
  BY DEF Evolves, Listed, Effective, Owner
<1>4. CASE doomed'[u] = {}
  BY <1>4 DEF OwnCancel
<1>5. CASE UNCHANGED doomed[u]
  <2>1. \A o \in book' : o.oid \in doomed'[u] =>
           \E p \in book : p.oid = o.oid /\ p.coin = o.coin /\ p.oid \in doomed[u]
    BY <1>1, <1>5
  <2> QED BY <1>2, <1>3, <1>5, <2>1 DEF OwnCancel, Promises
<1> QED BY <1>4, <1>5

LEMMA OwnCancelKept ==
  ASSUME IInv, Evolves, NEW u \in Users, OwnCancel(u), Call(u) \/ Step(u)
  PROVE  OwnCancel(u)'
<1> USE DEF IInv
<1>1. /\ pc \in [Users -> Labels] /\ local \in [Users -> Locals]
      /\ result \in [Users -> {"none"} \cup Promises]
      /\ doomed \in [Users -> SUBSET Oids]
  BY DEF TypeOK
<1>2. CASE \/ \E specs \in Batches : Place(u, specs)
           \/ \E s \in Markets : PlaceMarket(u, s)
           \/ \E s \in Closes : ClosePosition(u, s)
           \/ RefreshState(u)
  <2>1. /\ pc'[u] \in {"next", "closeFetch", "refresh"} /\ result'[u] = "none"
        /\ doomed'[u] = {}
    BY <1>1, <1>2 DEF Place, PlaceMarket, ClosePosition, RefreshState, Begin, Goto
  <2> QED BY <2>1, OwnCancelStable DEF Promises
<1>3. ASSUME NEW coins \in Sweeps, CancelAll(u, coins)
      PROVE  OwnCancel(u)'
  <2> DEFINE D == Open({o \in book : o.coin \notin DexCoins
                                     /\ (coins = {} \/ o.coin \in coins)})
  <2>1. /\ pc'[u] = "list" /\ result'[u] = "none" /\ doomed'[u] = D
        /\ local'[u] = [Blank EXCEPT !.coins = coins]
        /\ book' = book /\ lastOid' = lastOid
    BY <1>1, <1>3 DEF CancelAll, Begin, Goto, exchangeVars
  <2>2. local'[u].coins = coins
    BY <2>1 DEF Blank
  <2>3. \A o \in book : o.oid \in D =>
           o.coin \notin DexCoins /\ (coins = {} \/ o.coin \in coins)
    BY DEF BookInv, Open
  <2>4. \A i \in D : i <= lastOid
    BY DEF BookInv, Open
  <2> QED BY <2>1, <2>2, <2>3, <2>4 DEF OwnCancel, Keep
<1>4. ASSUME NEW oid \in Oids, Cancel(u, oid)
      PROVE  OwnCancel(u)'
  <2>1. /\ pc'[u] = "cancel" /\ result'[u] = "none" /\ doomed'[u] = {oid}
        /\ local'[u] = [Blank EXCEPT !.targets = {oid}]
        /\ oid <= lastOid' /\ book' = book
    BY <1>1, <1>4 DEF Cancel, Begin, Goto, exchangeVars
  <2>2. local'[u].targets = {oid}
    BY <2>1 DEF Blank
  <2> QED BY <2>1, <2>2 DEF OwnCancel
<1>5. CASE List(u)
  <2> DEFINE found == IF Listed = Owner
                      THEN Open({o \in book : o.coin \notin DexCoins
                                              /\ Keep(o.coin, local[u].coins)})
                      ELSE {}
  <2>1. doomed' = doomed /\ book' = book /\ lastOid' = lastOid
    BY <1>5 DEF List, exchangeVars
  <2>2. Listed = Owner => \A o \in book : o.oid \in doomed[u] => o.oid \in found
    BY <1>5 DEF List, OwnCancel, Open
  <2>6. (Listed = Owner)' <=> Listed = Owner
    BY DEF Evolves, Listed, Effective, Owner
  <2>3. CASE /\ local' = [local EXCEPT ![u].targets = found]
             /\ Goto(u, "sweep") /\ UNCHANGED result
    <3>1. local'[u] = [local[u] EXCEPT !.targets = found]
      BY <1>1, <2>3
    <3>2. local'[u].targets = found
      <4> HIDE DEF found
      <4> QED BY <1>1, <3>1 DEF Locals
    <3>3. pc'[u] = "sweep" /\ result'[u] = result[u]
      BY <1>1, <2>3 DEF Goto
    <3> HIDE DEF found
    <3> QED BY <2>1, <2>2, <2>6, <3>2, <3>3 DEF OwnCancel
  <2>4. CASE found = {} /\ Return(u, "swept")
    <3>1. Listed = Owner => \A o \in book : o.oid \notin doomed[u]
      BY <2>2, <2>4
    <3>2. pc'[u] = "idle" /\ result'[u] = "swept"
      BY <1>1, <2>4 DEF Return, Goto, Promises
    <3> QED BY <2>1, <2>6, <3>1, <3>2 DEF OwnCancel
  <2>5. CASE Return(u, "failed")
    <3>1. pc'[u] = "idle" /\ result'[u] = "none"
      BY <1>1, <2>5 DEF Return, Goto, Promises
    <3> QED BY <2>1, <3>1, OwnCancelStable DEF Promises
  <2> QED BY <1>5, <2>3, <2>4, <2>5 DEF List
<1>6. CASE CancelSend(u)
  <2>1. pc'[u] = "idle" /\ doomed' = doomed
    BY <1>1, <1>6 DEF CancelSend, Return, Goto
  <2>2. CASE Return(u, "failed")
    <3>1. result'[u] = "none"
      BY <1>1, <2>2 DEF Return, Promises
    <3> QED BY <2>1, <3>1, OwnCancelStable DEF Promises
  <2>3. CASE /\ book' = {o \in book : o.oid \notin local[u].targets}
             /\ Return(u, IF pc[u] = "sweep" THEN "swept" ELSE "cancelled")
    <3>1. pc[u] = "cancel" \/ (pc[u] = "sweep" /\ Listed = Owner) =>
             \A o \in book' : o.oid \notin doomed[u]
      BY <1>6, <2>3 DEF CancelSend, OwnCancel
    <3>2. lastOid' = lastOid /\ ((Listed = Owner)' <=> Listed = Owner)
      BY <1>6 DEF CancelSend, Listed, Effective, Owner
    <3>3. result'[u] = IF pc[u] = "sweep" THEN "swept" ELSE "cancelled"
      BY <1>1, <2>3 DEF Return, Promises
    <3> QED BY <1>6, <2>1, <3>1, <3>2, <3>3 DEF CancelSend, OwnCancel
  <2> QED BY <1>6, <2>2, <2>3 DEF CancelSend
<1>7. CASE \/ ValidateLocally(u) \/ ValidatePosition(u)
           \/ Fetch(u) \/ FetchFail(u) \/ Store(u)
           \/ CloseRead(u) \/ CloseReadFail(u)
           \/ Send(u) \/ Take(u) \/ Answer(u)
  <2>1. doomed' = doomed
    BY <1>7 DEF ValidateLocally, ValidatePosition, Fetch, FetchFail, Store, CloseRead,
                CloseReadFail, Send, Take, Answer
  <2>2. pc'[u] \notin {"list", "sweep", "cancel"}
    <3>1. CASE ValidateLocally(u) \/ ValidatePosition(u)
      BY <1>1, <3>1 DEF ValidateLocally, ValidatePosition, Queue, Return, Goto
    <3>2. CASE Fetch(u)
      BY <1>1, <3>2 DEF Fetch, Goto, AfterFetch
    <3>3. CASE Store(u)
      BY <1>1, <3>3 DEF Store, Goto, AfterStore
    <3>4. CASE FetchFail(u) \/ CloseRead(u) \/ CloseReadFail(u) \/ Send(u)
      BY <1>1, <3>4 DEF FetchFail, CloseRead, CloseReadFail, Send, Return, Goto
    <3>5. CASE Take(u) \/ Answer(u)
      BY <1>1, <3>5, SMTT(30) DEF Take, Answer, Return, Goto
    <3> QED BY <1>7, <3>1, <3>2, <3>3, <3>4, <3>5, SMTT(30)
  <2>3. result'[u] = result[u] \/ result'[u] \notin Promises
    BY <1>1, <1>7 DEF ValidateLocally, ValidatePosition, Fetch, FetchFail, Store,
                CloseRead, CloseReadFail, Send, Take, Answer, Return, Promises
  <2> QED BY <2>1, <2>2, <2>3, OwnCancelStable, SMTT(30)
<1> QED BY <1>2, <1>3, <1>4, <1>5, <1>6, <1>7 DEF Call, Step

-------------------------------------------------------------------------------
\* The parts put together again after a step.
LEMMA IInvParts ==
  ASSUME TypeOK', Evolves, \A u \in Users : OwnCall(u)' /\ OwnCancel(u)'
  PROVE  IInv'
<1>1. CallInv' /\ FetchInv' /\ BatchIsAtomic' /\ ChecksHaveState'
  BY DEF OwnCall, CallInv, FetchInv, BatchIsAtomic, ChecksHaveState
<1>2. BookInv' /\ CancelInv'
  BY DEF Evolves, OwnCancel, BookInv, CancelInv
<1>3. CancelsWhatItReports'
  BY DEF OwnCancel, CancelsWhatItReports, Open
<1> QED BY <1>1, <1>2, <1>3 DEF IInv

LEMMA PartsOfIInv ==
  ASSUME IInv
  PROVE  \A u \in Users : OwnCall(u) /\ OwnCancel(u)
<1> USE DEF IInv
<1>1. ASSUME NEW u \in Users PROVE OwnCall(u)
  BY DEF OwnCall, CallInv, FetchInv, BatchIsAtomic, ChecksHaveState
<1>2. ASSUME NEW u \in Users PROVE OwnCancel(u)
  BY DEF OwnCancel, BookInv, CancelInv, CancelsWhatItReports, Open
<1> QED BY <1>1, <1>2

LEMMA NextInv ==
  ASSUME IInv, Next
  PROVE  IInv'
<1>1. Evolves
  BY BookEvolves DEF IInv
<1>2. \A u \in Users : OwnCall(u) /\ OwnCancel(u)
  BY PartsOfIInv
<1>3. ASSUME NEW u \in Users, Call(u) \/ Step(u)
      PROVE  IInv'
  <2>1. TypeOK'
    BY <1>3, CallsTyped, StepsTyped DEF IInv
  <2>2. OwnCall(u)' /\ OwnCancel(u)'
    BY <1>1, <1>2, <1>3, OwnCallKept, OwnCancelKept
  <2>3. ASSUME NEW v \in Users \ {u}
        PROVE  OwnCall(v)' /\ OwnCancel(v)'
    <3>1. /\ pc'[v] = pc[v] /\ local'[v] = local[v]
          /\ result'[v] = result[v] /\ doomed'[v] = doomed[v]
          /\ cache # None => cache' # None
      BY <1>3, OthersUnchanged DEF IInv
    <3>2. OwnCall(v)'
      BY <1>2, <3>1 DEF OwnCall
    <3>3. OwnCancel(v)'
      BY <1>1, <1>2, <3>1, OwnCancelStable DEF IInv
    <3> QED BY <3>2, <3>3
  <2>4. \A v \in Users : OwnCall(v)' /\ OwnCancel(v)'
    BY <2>2, <2>3
  <2> QED BY <1>1, <2>1, <2>4, IInvParts
<1>4. ASSUME NEW o \in book, Fill(o) \/ Expire(o)
      PROVE  IInv'
  <2>1. TypeOK'
    BY <1>4, ExchangeTyped DEF IInv
  <2>2. UNCHANGED <<pc, local, result, doomed, cache>>
    BY <1>4 DEF Fill, Expire
  <2>3. ASSUME NEW v \in Users
        PROVE  OwnCall(v)' /\ OwnCancel(v)'
    <3>1. OwnCall(v)'
      BY <1>2, <2>2 DEF OwnCall
    <3>2. OwnCancel(v)'
      BY <1>1, <1>2, <2>2, OwnCancelStable DEF IInv
    <3> QED BY <3>1, <3>2
  <2> QED BY <1>1, <2>1, <2>3, IInvParts
<1> QED BY <1>3, <1>4 DEF Next

LEMMA StutterInv ==
  ASSUME IInv, UNCHANGED vars
  PROVE  IInv'
BY DEF vars, exchangeVars, IInv, TypeOK, CallInv, FetchInv, BookInv, CancelInv,
       BatchIsAtomic, ChecksHaveState, CancelsWhatItReports, Open, Listed, Effective, Owner

-------------------------------------------------------------------------------
(***************************************************************************)
(* The results.                                                            *)
(***************************************************************************)
\* The inductive invariant holds of every execution.
THEOREM TradeInvariance == Spec => []IInv
<1>1. IInv /\ [Next]_vars => IInv'
  BY NextInv, StutterInv
<1> QED BY InitInv, <1>1, PTL DEF Spec

\* Every variable keeps its type: in particular every size that is sent is a natural
\* number, whatever snapshot a close was sized with (place.go:191).
THEOREM TradeTypeCorrect == Spec => []TypeOK
<1>1. IInv => TypeOK
  BY DEF IInv
<1> QED BY <1>1, TradeInvariance, PTL

\* placeMany (trade.go:41) sends nothing of a batch before all of it has passed.
THEOREM BatchAtomic == Spec => []BatchIsAtomic
<1>1. IInv => BatchIsAtomic
  BY DEF IInv
<1> QED BY <1>1, TradeInvariance, PTL

\* validate fails closed (validate.go:75): no position rule without a snapshot.
THEOREM FailsClosed == Spec => []ChecksHaveState
<1>1. IInv => ChecksHaveState
  BY DEF IInv
<1> QED BY <1>1, TradeInvariance, PTL

\* A Cancel that reports success leaves its order closed, and so does a CancelAll
\* (modify_cancel.go:116) of a client that was given the address it trades for, whatever
\* filled, expired or was placed between listing and cancelling.
THEOREM CancelKeepsItsWord == Spec => []CancelsWhatItReports
<1>1. IInv => CancelsWhatItReports
  BY DEF IInv
<1> QED BY <1>1, TradeInvariance, PTL

\* Whatever passes validate (validate.go:173) with a price and a size gets bracket legs
\* (bracket.go:8) that leave its own entry: reduce-only, on the other side, of no more
\* than its size, the take-profit at a better and the stop-loss at a worse price.
THEOREM LegsLeaveTheEntry ==
  ASSUME NEW s \in Specs, LocallyValid(s), s.price > 0, s.size > 0,
         NEW i \in 1..Len(Legs(s))
  PROVE  LET l == Legs(s)[i] IN
         /\ l.coin = s.coin /\ l.buy = ~s.buy /\ l.reduceOnly /\ l.size <= s.size
         /\ l.kind = "tp" => IF s.buy THEN l.price > s.price ELSE l.price < s.price
         /\ l.kind = "sl" => IF s.buy THEN l.price < s.price ELSE l.price > s.price
<1> DEFINE tp == Leg(s, s.takeProfit, s.tpSize, "tp")
           sl == Leg(s, s.stopLoss, s.slSize, "sl")
<1>1. /\ s.takeProfit \in Nat /\ s.stopLoss \in Nat /\ s.tpSize \in Nat
      /\ s.slSize \in Nat /\ s.size \in Nat /\ s.price \in Nat
  BY DEF Specs
<1>2. \/ Legs(s)[i] = tp /\ s.takeProfit > 0
      \/ Legs(s)[i] = sl /\ s.stopLoss > 0
  BY LegsAre
<1>3. /\ s.takeProfit > 0 =>
            IF s.buy THEN s.takeProfit > s.price ELSE s.takeProfit < s.price
      /\ s.stopLoss > 0 => IF s.buy THEN s.stopLoss < s.price ELSE s.stopLoss > s.price
      /\ s.takeProfit > 0 \/ s.stopLoss > 0 => s.tpSize <= s.size /\ s.slSize <= s.size
  BY <1>1 DEF LocallyValid, BracketOk
<1>4. CASE Legs(s)[i] = tp /\ s.takeProfit > 0
  BY <1>1, <1>3, <1>4 DEF Leg
<1>5. CASE Legs(s)[i] = sl /\ s.stopLoss > 0
  BY <1>1, <1>3, <1>5 DEF Leg
<1> QED BY <1>2, <1>4, <1>5

-------------------------------------------------------------------------------
(***************************************************************************)
(* The promise to the account's owner.  What is owed on one side of a coin *)
(* is counted in units: one for each lot of an open order and of a request *)
(* that waits to be taken, unless it is reduce-only.  What has traded and  *)
(* what is owed is never more than what was asked.                         *)
(***************************************************************************)
Opens(r, c, buy) == r.coin = c /\ r.buy = buy /\ ~r.reduceOnly

\* The units of the open orders of a book that may still open a position.
BookUnits(orders, c, buy) ==
    UNION {{<<o.oid, k>> : k \in 1..o.size} : o \in {p \in orders : Opens(p, c, buy)}}

\* The units of the requests that wait in queues.
Waiting(queue, u, c, buy) ==
    UNION {{<<u, i, k>> : k \in 1..queue[i].size} :
              i \in {j \in DOMAIN queue : Opens(queue[j], c, buy)}}
CallUnits(queues, c, buy) == UNION {Waiting(queues[u], u, c, buy) : u \in DOMAIN queues}

Size(r, c, buy) == IF Opens(r, c, buy) THEN r.size ELSE 0

\* What a spec asks to open, on one side of a coin.
AskedOn(s, c, buy) == IF s.coin = c /\ s.buy = buy /\ ~s.reduceOnly THEN s.size ELSE 0

Queued == [Users -> Seq(Requests)]
Queues == [u \in Users |-> local[u].orders]

Ledger(c, buy) ==
    /\ IsFiniteSet(BookUnits(book, c, buy)) /\ IsFiniteSet(CallUnits(Queues, c, buy))
    /\ traded[c][buy] + Cardinality(BookUnits(book, c, buy))
          + Cardinality(CallUnits(Queues, c, buy)) <= asked[c][buy]
LedgerInv == \A c \in Coins, buy \in BOOLEAN : Ledger(c, buy)

\* A close that waits for validation is reduce-only.
CloseInv ==
    \A u \in Users : \A i \in 1..Len(local[u].todo) :
        local[u].todo[i].method = "close" => local[u].todo[i].reduceOnly

PositionInv == \A c \in Coins : position[c] \in -MaxPosition..MaxPosition

ExposureInv == LedgerInv /\ CloseInv /\ PositionInv

\* What is the image of a part of a finite set is finite and no larger.
LEMMA ImageBound ==
  ASSUME NEW S, IsFiniteSet(S), NEW T, NEW f,
         \A y \in T : \E x \in S : f[x] = y
  PROVE  IsFiniteSet(T) /\ Cardinality(T) <= Cardinality(S)
<1> DEFINE P == {x \in S : f[x] \in T}
           g == [x \in P |-> f[x]]
<1>1. IsFiniteSet(P) /\ Cardinality(P) <= Cardinality(S) /\ Cardinality(P) \in Nat /\ Cardinality(S) \in Nat
  <2>1. P \in SUBSET S
    OBVIOUS
  <2> HIDE DEF P
  <2>2. IsFiniteSet(P) /\ Cardinality(P) <= Cardinality(S)
    BY <2>1, FS_Subset
  <2> QED BY <2>2, FS_CardinalityType
<1>2. g \in Surjection(P, T)
  <2>1. g \in [P -> T]
    OBVIOUS
  <2>2. \A y \in T : \E x \in P : g[x] = y
    OBVIOUS
  <2> QED BY <2>1, <2>2 DEF Surjection
<1>3. IsFiniteSet(T) /\ Cardinality(T) <= Cardinality(P)
  <2> HIDE DEF P, g
  <2> QED BY <1>1, <1>2, FS_Surjection
<1>4. Cardinality(T) \in Nat
  BY <1>3, FS_CardinalityType
<1> QED BY <1>1, <1>3, <1>4

\* n different things make a set of n.
LEMMA Column ==
  ASSUME NEW n \in Nat, NEW f, \A j, k \in 1..n : f[j] = f[k] => j = k,
         DOMAIN f = 1..n, NEW T, T = {f[k] : k \in 1..n}
  PROVE  IsFiniteSet(T) /\ Cardinality(T) = n
<1> DEFINE g == [k \in 1..n |-> f[k]]
<1>1. g \in Injection(1..n, T)
  <2>1. g \in [1..n -> T]
    OBVIOUS
  <2>2. IsInjective(g)
    BY DEF IsInjective
  <2> QED BY <2>1, <2>2 DEF Injection
<1>2. g \in Surjection(1..n, T)
  <2>1. g \in [1..n -> T]
    OBVIOUS
  <2>2. \A y \in T : \E x \in 1..n : g[x] = y
    OBVIOUS
  <2> QED BY <2>1, <2>2 DEF Surjection
<1>3. IsFiniteSet(1..n) /\ Cardinality(1..n) = n
  BY FS_Interval
<1> HIDE DEF g
<1>4. ExistsBijection(1..n, T)
  BY <1>1, <1>2 DEF ExistsBijection, Bijection
<1> QED BY <1>3, <1>4, FS_Bijection

\* A union of units bounds the cardinality of its parts.
LEMMA Grows ==
  ASSUME NEW S, IsFiniteSet(S), NEW N, IsFiniteSet(N), NEW T \in SUBSET (S \cup N)
  PROVE  IsFiniteSet(T) /\ Cardinality(T) <= Cardinality(S) + Cardinality(N)
<1>1. IsFiniteSet(S \cup N) /\ Cardinality(S \cup N) = Cardinality(S) + Cardinality(N) - Cardinality(S \cap N)
  BY FS_Union
<1>2. IsFiniteSet(S \cap N)
  BY FS_Intersection
<1>3. Cardinality(S \cap N) \in Nat /\ Cardinality(S) \in Nat /\ Cardinality(N) \in Nat
  BY <1>2, FS_CardinalityType
<1>4. IsFiniteSet(T) /\ Cardinality(T) <= Cardinality(S \cup N) /\ Cardinality(T) \in Nat
  BY <1>1, FS_Subset, FS_CardinalityType
<1> QED BY <1>1, <1>3, <1>4

LEMMA Shrinks ==
  ASSUME NEW S, IsFiniteSet(S), NEW H \in SUBSET S, NEW T, NEW f,
         \A y \in T : \E x \in S \ H : f[x] = y
  PROVE  IsFiniteSet(T) /\ Cardinality(T) + Cardinality(H) <= Cardinality(S)
<1>1. IsFiniteSet(S \ H) /\ Cardinality(S \ H) = Cardinality(S) - Cardinality(S \cap H)
  BY FS_Difference
<1>2. S \cap H = H /\ IsFiniteSet(H)
  BY FS_Subset
<1>3. IsFiniteSet(T) /\ Cardinality(T) <= Cardinality(S \ H)
  BY <1>1, ImageBound
<1>4. Cardinality(T) \in Nat /\ Cardinality(H) \in Nat /\ Cardinality(S) \in Nat
  BY <1>2, <1>3, FS_CardinalityType
<1>5. Cardinality(S \ H) = Cardinality(S) - Cardinality(H)
  BY <1>1, <1>2
<1> QED BY <1>3, <1>4, <1>5

LEMMA InBook ==
  ASSUME NEW orders, NEW c, NEW buy, NEW e
  PROVE e \in BookUnits(orders, c, buy) <=>
          \E o \in orders : Opens(o, c, buy) /\ \E k \in 1..o.size : e = <<o.oid, k>>
  BY DEF BookUnits

LEMMA InCalls ==
  ASSUME NEW queues, NEW c, NEW buy, NEW e
  PROVE e \in CallUnits(queues, c, buy) <=>
          \E u \in DOMAIN queues : \E i \in DOMAIN queues[u] :
            /\ Opens(queues[u][i], c, buy)
            /\ \E k \in 1..queues[u][i].size : e = <<u, i, k>>
  BY DEF CallUnits, Waiting

LEMMA BookAdds ==
  ASSUME NEW orders, NEW c, NEW buy, NEW n, n.size \in Nat,
         IsFiniteSet(BookUnits(orders, c, buy)), NEW more, more = orders \cup {n}
  PROVE  /\ IsFiniteSet(BookUnits(more, c, buy))
         /\ Cardinality(BookUnits(more, c, buy)) <=
               Cardinality(BookUnits(orders, c, buy)) + Size(n, c, buy)
<1> DEFINE new == {<<n.oid, k>> : k \in 1..Size(n, c, buy)}
           f == [k \in 1..Size(n, c, buy) |-> <<n.oid, k>>]
<1>1. Size(n, c, buy) \in Nat
  BY DEF Size
<1>2. IsFiniteSet(new) /\ Cardinality(new) = Size(n, c, buy)
  <2> DEFINE m == Size(n, c, buy)
  <2>1. m \in Nat
    BY <1>1
  <2> HIDE DEF m
  <2>2. DOMAIN f = 1..m /\ \A j, k \in 1..m : f[j] = f[k] => j = k
    BY DEF m
  <2>3. new = {f[k] : k \in 1..m}
    BY DEF m
  <2> HIDE DEF f, new
  <2>4. IsFiniteSet(new) /\ Cardinality(new) = m
    BY <2>1, <2>2, <2>3, Column
  <2> QED BY <2>4 DEF m
<1>3. BookUnits(more, c, buy) \subseteq BookUnits(orders, c, buy) \cup new
  <2> SUFFICES ASSUME NEW e \in BookUnits(more, c, buy), e \notin BookUnits(orders, c, buy)
               PROVE  e \in new
    OBVIOUS
  <2>1. PICK o \in more : Opens(o, c, buy) /\ \E k \in 1..o.size : e = <<o.oid, k>>
    BY InBook
  <2>2. o \notin orders
    BY <2>1, InBook
  <2>3. o = n
    BY <2>2
  <2> QED BY <2>1, <2>3 DEF Size
<1> HIDE DEF new
<1> QED BY <1>2, <1>3, Grows

LEMMA BookShrinks ==
  ASSUME NEW orders, NEW c, NEW buy, IsFiniteSet(BookUnits(orders, c, buy)),
         NEW fewer \in SUBSET orders
  PROVE  /\ IsFiniteSet(BookUnits(fewer, c, buy))
         /\ Cardinality(BookUnits(fewer, c, buy)) <= Cardinality(BookUnits(orders, c, buy))
<1>1. BookUnits(fewer, c, buy) \subseteq BookUnits(orders, c, buy)
  BY InBook
<1> QED BY <1>1, FS_Subset

\* An order of the book trades one lot.
LEMMA BookFills ==
  ASSUME NEW orders \in SUBSET Resting, \A o1, o2 \in orders : o1.oid = o2.oid => o1 = o2,
         NEW c, NEW buy, IsFiniteSet(BookUnits(orders, c, buy)), NEW o \in orders,
         NEW rest, rest = (orders \ {o}) \cup
               IF o.size = 1 THEN {} ELSE {[o EXCEPT !.size = @ - 1]}
  PROVE  /\ IsFiniteSet(BookUnits(rest, c, buy))
         /\ Cardinality(BookUnits(rest, c, buy)) + (IF Opens(o, c, buy) THEN 1 ELSE 0) <=
               Cardinality(BookUnits(orders, c, buy))
<1> DEFINE S == BookUnits(orders, c, buy)
           T == BookUnits(rest, c, buy)
           H == IF Opens(o, c, buy) THEN {<<o.oid, o.size>>} ELSE {}
           f == [x \in S |-> x]
           n == [o EXCEPT !.size = @ - 1]
<1>1. o.size \in Nat \ {0} /\ n.oid = o.oid /\ n.size = o.size - 1
      /\ (Opens(n, c, buy) <=> Opens(o, c, buy))
  BY DEF Resting, Opens
<1>2. H \in SUBSET S
  <2>1. CASE Opens(o, c, buy)
    <3>1. \E k \in 1..o.size : <<o.oid, o.size>> = <<o.oid, k>>
      BY <1>1
    <3> QED BY <2>1, <3>1, InBook
  <2> QED BY <2>1
<1>3. ASSUME NEW y \in T PROVE y \in S \ H
  <2>1. PICK p \in rest : Opens(p, c, buy) /\ \E k \in 1..p.size : y = <<p.oid, k>>
    BY InBook
  <2>2. PICK k \in 1..p.size : y = <<p.oid, k>>
    BY <2>1
  <2>3. CASE p \in orders /\ p # o
    <3>1. p.oid # o.oid
      BY <2>3
    <3>2. y \in S
      BY <2>1, <2>3, InBook
    <3> QED BY <2>2, <3>1, <3>2
  <2>4. CASE p = n /\ o.size # 1
    <3>1. k \in 1..o.size /\ k # o.size /\ y = <<o.oid, k>>
      BY <1>1, <2>2, <2>4
    <3>2. y \in S
      <4>1. Opens(o, c, buy)
        BY <1>1, <2>1, <2>4
      <4> QED BY <3>1, <4>1, InBook
    <3> QED BY <3>1, <3>2
  <2> QED BY <2>3, <2>4
<1>4. Cardinality(H) = IF Opens(o, c, buy) THEN 1 ELSE 0
  BY FS_EmptySet, FS_Singleton
<1>5. \A y \in T : \E x \in S \ H : f[x] = y
  BY <1>3
<1> HIDE DEF S, T, H, f
<1>6. IsFiniteSet(S)
  BY DEF S
<1>7. IsFiniteSet(T) /\ Cardinality(T) + Cardinality(H) <= Cardinality(S)
  BY <1>2, <1>5, <1>6, Shrinks
<1> QED BY <1>4, <1>7 DEF S, T

\* A queue that is emptied owes nothing.
LEMMA CallsShrink ==
  ASSUME NEW f \in Queued, NEW g \in Queued, \A v \in Users : g[v] = f[v] \/ g[v] = << >>,
         NEW c, NEW buy, IsFiniteSet(CallUnits(f, c, buy))
  PROVE  /\ IsFiniteSet(CallUnits(g, c, buy))
         /\ Cardinality(CallUnits(g, c, buy)) <= Cardinality(CallUnits(f, c, buy))
<1>1. CallUnits(g, c, buy) \subseteq CallUnits(f, c, buy)
  <2> SUFFICES ASSUME NEW e \in CallUnits(g, c, buy) PROVE e \in CallUnits(f, c, buy)
    OBVIOUS
  <2>1. PICK u \in DOMAIN g : \E i \in DOMAIN g[u] : Opens(g[u][i], c, buy) /\ \E k \in 1..g[u][i].size : e = <<u, i, k>>
    BY DEF CallUnits, Waiting
  <2>2. g[u] # << >>
    BY <2>1
  <2>3. g[u] = f[u]
    BY <2>2 DEF Queued
  <2>4. u \in DOMAIN f
    BY DEF Queued
  <2> QED BY <2>1, <2>3, <2>4, InCalls
<1> QED BY <1>1, FS_Subset

LEMMA CallsQueue ==
  ASSUME NEW f \in Queued, NEW u \in Users, NEW s \in Specs, ToRequests(s) \in Seq(Requests),
         NEW g, g = [f EXCEPT ![u] = @ \o ToRequests(s)],
         NEW c, NEW buy, IsFiniteSet(CallUnits(f, c, buy))
  PROVE  /\ IsFiniteSet(CallUnits(g, c, buy))
         /\ Cardinality(CallUnits(g, c, buy)) <=
               Cardinality(CallUnits(f, c, buy)) + AskedOn(s, c, buy)
<1> DEFINE m == AskedOn(s, c, buy)
           l == Len(f[u])
           h == [k \in 1..m |-> <<u, l + 1, k>>]
           N == {h[k] : k \in 1..m}
<1>1. m \in Nat /\ s.buy \in BOOLEAN /\ s.size \in Nat
  BY DEF AskedOn, Specs
<1>2. f[u] \in Seq(Requests) /\ l \in Nat /\ DOMAIN f[u] = 1..l /\ DOMAIN f = Users
  BY DEF Queued
<1>3. IsFiniteSet(N) /\ Cardinality(N) = m
  <2> HIDE DEF m, l
  <2>1. DOMAIN h = 1..m /\ \A j, k \in 1..m : h[j] = h[k] => j = k
    OBVIOUS
  <2> HIDE DEF h
  <2> QED BY <1>1, <2>1, Column
<1>4. g[u] = f[u] \o ToRequests(s) /\ (\A v \in Users \ {u} : g[v] = f[v]) /\ DOMAIN g = Users
  BY DEF Queued
<1>5. ASSUME NEW i \in DOMAIN g[u]
      PROVE  \/ i \in 1..l /\ g[u][i] = f[u][i]
             \/ i = l + 1 /\ g[u][i] = Parent(s)
             \/ g[u][i].reduceOnly
  <2> DEFINE t == ToRequests(s)
             q == f[u]
  <2>1. q \in Seq(Requests) /\ t \in Seq(Requests) /\ Len(q) = l /\ g[u] = q \o t
    BY <1>2, <1>4
  <2>2. \A j \in 1..Len(t) : (j = 1 /\ t[j] = Parent(s)) \/ t[j].reduceOnly
    BY LegsReduce
  <2> HIDE DEF t, q, l
  <2>3. i \in 1..Len(q \o t)
    BY <2>1
  <2>4. \/ i \in 1..l /\ g[u][i] = q[i]
        \/ i - l \in 1..Len(t) /\ g[u][i] = t[i - l]
    BY <2>1, <2>3, Joined, SMTT(30)
  <2> QED BY <1>2, <2>2, <2>3, <2>4 DEF q
<1>6. CallUnits(g, c, buy) \subseteq CallUnits(f, c, buy) \cup N
  <2> SUFFICES ASSUME NEW e \in CallUnits(g, c, buy), e \notin CallUnits(f, c, buy) PROVE e \in N
    OBVIOUS
  <2>1. PICK v \in DOMAIN g : \E i \in DOMAIN g[v] : Opens(g[v][i], c, buy) /\ \E k \in 1..g[v][i].size : e = <<v, i, k>>
    BY DEF CallUnits, Waiting
  <2>2. PICK i \in DOMAIN g[v] : Opens(g[v][i], c, buy) /\ \E k \in 1..g[v][i].size : e = <<v, i, k>>
    BY <2>1
  <2>3. ~(i \in DOMAIN f[v] /\ g[v][i] = f[v][i])
    BY <1>2, <2>2, InCalls
  <2>4. v = u
    BY <1>4, <2>3
  <2>5. i = l + 1 /\ g[v][i] = Parent(s)
    BY <1>2, <1>5, <2>2, <2>3, <2>4 DEF Opens
  <2>6. m = s.size /\ g[v][i].size = s.size
    BY <2>2, <2>5 DEF Opens, Parent, AskedOn
  <2> HIDE DEF m, l
  <2> QED BY <2>2, <2>4, <2>5, <2>6
<1> HIDE DEF N, m
<1>7. /\ IsFiniteSet(CallUnits(g, c, buy))
      /\ Cardinality(CallUnits(g, c, buy)) <= Cardinality(CallUnits(f, c, buy)) + Cardinality(N)
  BY <1>3, <1>6, Grows
<1> QED BY <1>3, <1>7 DEF m

\* The first request of a queue is taken.
LEMMA CallsTake ==
  ASSUME NEW f \in Queued, NEW u \in Users, f[u] # << >>,
         NEW g, g = [f EXCEPT ![u] = Tail(@)],
         NEW c, NEW buy, IsFiniteSet(CallUnits(f, c, buy))
  PROVE  /\ IsFiniteSet(CallUnits(g, c, buy))
         /\ Cardinality(CallUnits(g, c, buy)) + Size(Head(f[u]), c, buy) <=
               Cardinality(CallUnits(f, c, buy))
<1> DEFINE r == Head(f[u])
           m == Size(r, c, buy)
           h == [k \in 1..m |-> <<u, 1, k>>]
           H == {h[k] : k \in 1..m}
           S == CallUnits(f, c, buy)
           T == CallUnits(g, c, buy)
           back == [e \in S |-> IF e[1] = u THEN <<u, e[2] - 1, e[3]>> ELSE e]
<1>1. /\ f[u] \in Seq(Requests) /\ DOMAIN f = Users /\ r = f[u][1] /\ 1 \in DOMAIN f[u]
      /\ r \in Requests
  BY DEF Queued
<1>2. m \in Nat
  BY <1>1 DEF Size, Requests
<1>3. IsFiniteSet(H) /\ Cardinality(H) = m
  <2> HIDE DEF m
  <2>1. DOMAIN h = 1..m /\ \A j, k \in 1..m : h[j] = h[k] => j = k
    OBVIOUS
  <2> HIDE DEF h
  <2> QED BY <1>2, <2>1, Column
<1>4. H \in SUBSET S
  <2> SUFFICES ASSUME NEW k \in 1..m PROVE <<u, 1, k>> \in S
    OBVIOUS
  <2>1. Opens(r, c, buy) /\ k \in 1..r.size
    BY DEF Size
  <2> HIDE DEF r, m
  <2> QED BY <1>1, <2>1, InCalls
<1>5. g[u] = Tail(f[u]) /\ (\A v \in Users \ {u} : g[v] = f[v]) /\ DOMAIN g = Users
  BY DEF Queued
<1>6. \A i \in DOMAIN g[u] : /\ i \in Nat \ {0} /\ i + 1 \in DOMAIN f[u] /\ g[u][i] = f[u][i + 1]
  BY <1>1, <1>5
<1>7. ASSUME NEW y \in T PROVE \E x \in S \ H : back[x] = y
  <2>1. PICK v \in DOMAIN g : \E i \in DOMAIN g[v] : Opens(g[v][i], c, buy) /\ \E k \in 1..g[v][i].size : y = <<v, i, k>>
    BY DEF CallUnits, Waiting
  <2>2. PICK i \in DOMAIN g[v] : Opens(g[v][i], c, buy) /\ \E k \in 1..g[v][i].size : y = <<v, i, k>>
    BY <2>1
  <2>3. PICK k \in 1..g[v][i].size : y = <<v, i, k>>
    BY <2>2
  <2>4. CASE v = u
    <3> DEFINE x == <<u, i + 1, k>>
    <3>1. i \in Nat \ {0} /\ i + 1 \in DOMAIN f[u] /\ g[u][i] = f[u][i + 1]
      BY <1>6, <2>4
    <3>2. x \in S
      BY <1>1, <2>2, <2>3, <2>4, <3>1, InCalls
    <3>3. x \notin H
      BY <3>1
    <3>4. back[x] = y
      BY <2>3, <2>4, <3>1, <3>2
    <3> QED BY <3>2, <3>3, <3>4
  <2>5. CASE v # u
    <3>1. g[v] = f[v]
      BY <1>5, <2>5
    <3>2. y \in S
      BY <1>1, <2>2, <3>1, InCalls
    <3>3. y \notin H /\ back[y] = y
      BY <2>3, <2>5, <3>2
    <3> QED BY <3>2, <3>3
  <2> QED BY <2>4, <2>5
<1> HIDE DEF S, T, H, back, m, r
<1>8. IsFiniteSet(S)
  BY DEF S
<1>9. IsFiniteSet(T) /\ Cardinality(T) + Cardinality(H) <= Cardinality(S)
  BY <1>4, <1>7, <1>8, Shrinks
<1> QED BY <1>3, <1>9 DEF S, T, m, r

-------------------------------------------------------------------------------
LEMMA QueuesTyped == TypeOK => Queues \in Queued
  BY DEF TypeOK, Locals, Queues, Queued

\* What is added to one side of the ledger is added to the other.
LEMMA Raised ==
  \A t, b, k, k1, a, n \in Nat : k1 <= k + n => t + b + k1 + a <= t + b + k + (a + n)
OBVIOUS

\* What a step takes from the book or the queues it may add to what has traded.
LEMMA Balanced ==
  ASSUME TypeOK, TypeOK', NEW c \in Coins, NEW buy \in BOOLEAN, Ledger(c, buy),
         IsFiniteSet(BookUnits(book', c, buy)), IsFiniteSet(CallUnits(Queues', c, buy)),
         traded'[c][buy] + Cardinality(BookUnits(book', c, buy))
             + Cardinality(CallUnits(Queues', c, buy)) + asked[c][buy]
           <= traded[c][buy] + Cardinality(BookUnits(book, c, buy))
                + Cardinality(CallUnits(Queues, c, buy)) + asked'[c][buy]
  PROVE  Ledger(c, buy)'
<1>1. /\ traded[c][buy] \in Nat /\ traded'[c][buy] \in Nat
      /\ asked[c][buy] \in Nat /\ asked'[c][buy] \in Nat
  BY DEF TypeOK, Sides
<1>2. /\ Cardinality(BookUnits(book, c, buy)) \in Nat
      /\ Cardinality(BookUnits(book', c, buy)) \in Nat
      /\ Cardinality(CallUnits(Queues, c, buy)) \in Nat
      /\ Cardinality(CallUnits(Queues', c, buy)) \in Nat
  BY FS_CardinalityType DEF Ledger
<1> QED BY <1>1, <1>2 DEF Ledger

\* Orders that are dropped or forgotten owe nothing more.
LEMMA LedgerKept ==
  ASSUME TypeOK, TypeOK', LedgerInv, book' \subseteq book, UNCHANGED <<traded, asked>>,
         \A v \in Users : local'[v].orders = local[v].orders \/ local'[v].orders = << >>
  PROVE  LedgerInv'
<1> SUFFICES ASSUME NEW c \in Coins, NEW buy \in BOOLEAN PROVE Ledger(c, buy)'
  BY DEF LedgerInv
<1>1. Ledger(c, buy)
  BY DEF LedgerInv
<1>2. Queues \in Queued /\ Queues' \in Queued
  <2>1. Queues \in Queued
    BY QueuesTyped
  <2>2. Queues' \in Queued
    BY DEF TypeOK, Locals, Queues, Queued
  <2> QED BY <2>1, <2>2
<1>3. \A v \in Users : Queues'[v] = Queues[v] \/ Queues'[v] = << >>
  BY DEF Queues
<1>4. /\ IsFiniteSet(CallUnits(Queues', c, buy))
      /\ Cardinality(CallUnits(Queues', c, buy)) <= Cardinality(CallUnits(Queues, c, buy))
  BY <1>1, <1>2, <1>3, CallsShrink DEF Ledger
<1>5. /\ IsFiniteSet(BookUnits(book', c, buy))
      /\ Cardinality(BookUnits(book', c, buy)) <= Cardinality(BookUnits(book, c, buy))
  BY <1>1, BookShrinks DEF Ledger
<1>6. /\ traded[c][buy] \in Nat /\ asked[c][buy] \in Nat
      /\ traded'[c][buy] = traded[c][buy] /\ asked'[c][buy] = asked[c][buy]
  BY DEF TypeOK, Sides
<1>7. /\ Cardinality(BookUnits(book, c, buy)) \in Nat
      /\ Cardinality(BookUnits(book', c, buy)) \in Nat
      /\ Cardinality(CallUnits(Queues, c, buy)) \in Nat
      /\ Cardinality(CallUnits(Queues', c, buy)) \in Nat
  BY <1>1, <1>4, <1>5, FS_CardinalityType DEF Ledger
<1> QED BY <1>1, <1>4, <1>5, <1>6, <1>7, Balanced, SMTT(30)

\* A spec that passes validation is asked for, and its requests wait.
LEMMA QueueLedger ==
  ASSUME TypeOK, TypeOK', LedgerInv, CloseInv, NEW u \in Users, local[u].todo # << >>,
         Head(local[u].todo).coin \in Coins, Queue(u), UNCHANGED <<book, traded, position>>
  PROVE  LedgerInv' /\ Promise!Ask
<1> DEFINE s == Head(local[u].todo)
<1>1. local[u] \in Locals /\ local[u].todo \in Seq(Specs) /\ local[u].orders \in Seq(Requests)
  BY DEF TypeOK, Locals
<1>2. s \in Specs
  BY <1>1, HeadAndTail
<1>3. ToRequests(s) \in Seq(Requests)
  BY <1>2, RequestsTyped
<1>4. s.method = "close" => s.reduceOnly
  BY <1>1 DEF CloseInv
<1>5. s.coin \in Coins /\ s.buy \in BOOLEAN /\ Asks(s) \in Nat
      /\ Asks(s) = IF s.reduceOnly THEN 0 ELSE s.size
  BY <1>2, <1>4 DEF Asks, Specs
<1>6. asked' = [asked EXCEPT ![s.coin][s.buy] = @ + Asks(s)]
  BY DEF Queue
<1>7. Queues' = [Queues EXCEPT ![u] = @ \o ToRequests(s)]
  <2> DEFINE t == Tail(local[u].todo)
             q == local[u].orders \o ToRequests(s)
             l == [local[u] EXCEPT !.todo = t, !.orders = q]
  <2>1. local' = [local EXCEPT ![u] = l]
    BY DEF Queue
  <2> HIDE DEF t, q
  <2>2. l.orders = q
    BY <1>1 DEF Locals
  <2> HIDE DEF l
  <2> QED BY <2>1, <2>2 DEF Queues, TypeOK, q
<1> HIDE DEF s
<1>8. ASSUME NEW c \in Coins, NEW buy \in BOOLEAN
      PROVE  /\ asked[c][buy] \in Nat /\ traded[c][buy] \in Nat /\ AskedOn(s, c, buy) \in Nat
             /\ asked'[c][buy] = asked[c][buy] + AskedOn(s, c, buy)
  <2>1. asked[c][buy] \in Nat /\ traded[c][buy] \in Nat /\ s.size \in Nat
    BY <1>2 DEF TypeOK, Sides, Specs
  <2>2. AskedOn(s, c, buy) = IF s.coin = c /\ s.buy = buy THEN Asks(s) ELSE 0
    BY <1>5 DEF AskedOn
  <2>3. asked'[c][buy] = IF s.coin = c /\ s.buy = buy THEN asked[c][buy] + Asks(s)
                                                    ELSE asked[c][buy]
    BY <1>5, <1>6 DEF TypeOK, Sides
  <2> QED BY <1>5, <2>1, <2>2, <2>3
<1>9. ASSUME NEW c \in Coins, NEW buy \in BOOLEAN
      PROVE  Ledger(c, buy)'
  <2>1. Ledger(c, buy) /\ Queues \in Queued
    BY QueuesTyped DEF LedgerInv
  <2>2. /\ IsFiniteSet(CallUnits(Queues', c, buy))
        /\ Cardinality(CallUnits(Queues', c, buy)) <=
              Cardinality(CallUnits(Queues, c, buy)) + AskedOn(s, c, buy)
    <3> PICK f : f = Queues
      OBVIOUS
    <3> PICK g : g = Queues'
      OBVIOUS
    <3>1. f \in Queued /\ g = [f EXCEPT ![u] = @ \o ToRequests(s)]
      BY <1>7, <2>1
    <3>2. IsFiniteSet(CallUnits(f, c, buy))
      BY <2>1 DEF Ledger
    <3>3. /\ IsFiniteSet(CallUnits(g, c, buy))
          /\ Cardinality(CallUnits(g, c, buy)) <=
                Cardinality(CallUnits(f, c, buy)) + AskedOn(s, c, buy)
      BY <1>2, <1>3, <3>1, <3>2, CallsQueue
    <3> QED BY <3>3
  <2>3. /\ Cardinality(BookUnits(book, c, buy)) \in Nat
        /\ Cardinality(CallUnits(Queues, c, buy)) \in Nat
        /\ Cardinality(CallUnits(Queues', c, buy)) \in Nat
    BY <2>1, <2>2, FS_CardinalityType DEF Ledger
  <2>4. /\ IsFiniteSet(BookUnits(book', c, buy))
        /\ Cardinality(BookUnits(book', c, buy)) = Cardinality(BookUnits(book, c, buy))
    BY <2>1 DEF Ledger
  <2>5. /\ asked[c][buy] \in Nat /\ traded[c][buy] \in Nat /\ traded'[c][buy] = traded[c][buy]
        /\ AskedOn(s, c, buy) \in Nat /\ asked'[c][buy] = asked[c][buy] + AskedOn(s, c, buy)
    BY <1>8
  <2>6. traded'[c][buy] + Cardinality(BookUnits(book', c, buy))
           + Cardinality(CallUnits(Queues', c, buy)) + asked[c][buy]
         <= traded[c][buy] + Cardinality(BookUnits(book, c, buy))
              + Cardinality(CallUnits(Queues, c, buy)) + asked'[c][buy]
    <3> DEFINE b  == Cardinality(BookUnits(book, c, buy))
               k  == Cardinality(CallUnits(Queues, c, buy))
               k1 == Cardinality(CallUnits(Queues', c, buy))
    <3>1. traded[c][buy] + b + k1 + asked[c][buy]
             <= traded[c][buy] + b + k + (asked[c][buy] + AskedOn(s, c, buy))
      BY <2>2, <2>3, <2>5, Raised, Zenon
    <3> QED BY <2>4, <2>5, <3>1, Zenon
  <2> QED BY <2>1, <2>2, <2>4, <2>6, Balanced
<1>10. LedgerInv'
  BY <1>9 DEF LedgerInv
<1>11. asked' \in Sides /\ \A c \in Coins, buy \in BOOLEAN : asked'[c][buy] >= asked[c][buy]
  BY <1>8 DEF TypeOK
<1> QED BY <1>10, <1>11 DEF Promise!Ask, Promise!AllSides, Sides
\* A trade moves the position as the promise allows, within its bounds.
LEMMA ExecuteKeeps ==
  ASSUME TypeOK, PositionInv, NEW c \in Coins, NEW buy \in BOOLEAN, NEW q \in Nat \ {0},
         NEW reduceOnly \in BOOLEAN, Execute(c, buy, q, reduceOnly), UNCHANGED asked,
         ~reduceOnly => traded[c][buy] + q <= asked[c][buy]
  PROVE  /\ PositionInv' /\ Promise!Next
         /\ \A d \in Coins, b \in BOOLEAN :
               traded'[d][b] = traded[d][b]
                                 + IF d = c /\ b = buy /\ ~reduceOnly THEN q ELSE 0
<1>1. position \in [Coins -> Int] /\ position[c] \in -MaxPosition..MaxPosition
  BY DEF TypeOK, Positions, PositionInv
<1>2. /\ Toward(buy, q) = IF buy THEN q ELSE -q
      /\ Promise!Toward(buy, q) = IF buy THEN q ELSE -q
      /\ Toward(~buy, position[c]) = IF buy THEN -position[c] ELSE position[c]
  BY DEF Toward, Promise!Toward
<1>3. position' = [position EXCEPT ![c] = @ + Toward(buy, q)]
  BY DEF Execute
<1>4. position[c] + Toward(buy, q) \in -MaxPosition..MaxPosition
  BY <1>1, <1>2, LimitsAssumption DEF Execute, Abs
<1>5. PositionInv'
  BY <1>1, <1>3, <1>4 DEF PositionInv
<1>6. q \in 1..2 * MaxPosition
  BY <1>1, <1>2, <1>4, LimitsAssumption
<1>7. CASE reduceOnly
  <2>1. q <= Toward(~buy, position[c]) /\ traded' = traded
    BY <1>7 DEF Execute
  <2>2. Promise!Reduce(c, q)
    <3>1. CASE buy
      BY <1>1, <1>2, <1>3, <2>1, <3>1 DEF Promise!Reduce
    <3>2. CASE ~buy
      <4>1. position' = [position EXCEPT ![c] = @ - q]
        BY <1>1, <1>2, <1>3, <3>2
      <4> QED BY <1>2, <2>1, <3>2, <4>1 DEF Promise!Reduce
    <3> QED BY <3>1, <3>2
  <2>3. Promise!Next
    BY <1>6, <2>2 DEF Promise!Next
  <2>4. \A d \in Coins, b \in BOOLEAN : traded[d][b] \in Nat
    BY DEF TypeOK, Sides
  <2> QED BY <1>5, <1>7, <2>1, <2>3, <2>4
<1>8. CASE ~reduceOnly
  <2>1. traded' = [traded EXCEPT ![c][buy] = @ + q]
    BY <1>8 DEF Execute
  <2>2. position' = [position EXCEPT ![c] = @ + Promise!Toward(buy, q)]
    BY <1>2, <1>3
  <2>3. Promise!Trade(c, buy, q)
    BY <1>8, <2>1, <2>2 DEF Promise!Trade
  <2>4. Promise!Next
    BY <1>6, <2>3 DEF Promise!Next
  <2>5. ASSUME NEW d \in Coins, NEW b \in BOOLEAN
        PROVE  traded'[d][b] = traded[d][b] + IF d = c /\ b = buy THEN q ELSE 0
    BY <2>1, SMTT(30) DEF TypeOK, Sides
  <2> QED BY <1>5, <1>8, <2>4, <2>5
<1> QED BY <1>7, <1>8

\* The first request of a queue is refused, rests in the book or trades.
LEMMA TakeLedger ==
  ASSUME TypeOK, TypeOK', LedgerInv, PositionInv, NEW u \in Users, Take(u)
  PROVE  LedgerInv' /\ PositionInv' /\ [Promise!Next]_<<position, asked, traded>>
<1> DEFINE r == Head(local[u].orders)
<1>1. local[u] \in Locals /\ local[u].orders \in Seq(Requests) /\ local[u].orders # << >>
  BY DEF TypeOK, Locals, Take
<1>2. r \in Requests
  BY <1>1, HeadAndTail
<1>3. /\ Queues' = [Queues EXCEPT ![u] = Tail(@)]
      /\ Queues[u] = local[u].orders /\ Queues \in Queued
  <2>1. Queues' = [Queues EXCEPT ![u] = Tail(@)]
    <3> DEFINE l == [local[u] EXCEPT !.orders = Tail(@)]
    <3>1. local' = [local EXCEPT ![u] = l]
      BY DEF Take
    <3>2. l.orders = Tail(local[u].orders)
      BY <1>1 DEF Locals
    <3> HIDE DEF l
    <3> QED BY <3>1, <3>2 DEF Queues, TypeOK
  <2> QED BY <2>1, QueuesTyped DEF Queues
<1>4. asked' = asked
  BY DEF Take
<1>5. ASSUME NEW c \in Coins, NEW buy \in BOOLEAN
      PROVE  /\ IsFiniteSet(CallUnits(Queues', c, buy))
             /\ Cardinality(CallUnits(Queues', c, buy)) + Size(r, c, buy) <=
                   Cardinality(CallUnits(Queues, c, buy))
             /\ IsFiniteSet(BookUnits(book, c, buy))
             /\ Cardinality(BookUnits(book, c, buy)) \in Nat
             /\ Cardinality(CallUnits(Queues, c, buy)) \in Nat
             /\ Cardinality(CallUnits(Queues', c, buy)) \in Nat
             /\ Size(r, c, buy) \in Nat
             /\ asked[c][buy] \in Nat /\ traded[c][buy] \in Nat
             /\ traded[c][buy] + Cardinality(BookUnits(book, c, buy))
                   + Cardinality(CallUnits(Queues, c, buy)) <= asked[c][buy]
  <2>1. Ledger(c, buy)
    BY DEF LedgerInv
  <2>2. /\ IsFiniteSet(CallUnits(Queues', c, buy))
        /\ Cardinality(CallUnits(Queues', c, buy)) + Size(r, c, buy) <=
              Cardinality(CallUnits(Queues, c, buy))
    <3> PICK f : f = Queues
      OBVIOUS
    <3> PICK g : g = Queues'
      OBVIOUS
    <3>1. f \in Queued /\ g = [f EXCEPT ![u] = Tail(@)] /\ f[u] # << >> /\ Head(f[u]) = r
      BY <1>1, <1>3
    <3>2. IsFiniteSet(CallUnits(f, c, buy))
      BY <2>1 DEF Ledger
    <3> HIDE DEF r
    <3>3. /\ IsFiniteSet(CallUnits(g, c, buy))
          /\ Cardinality(CallUnits(g, c, buy)) + Size(Head(f[u]), c, buy) <=
                Cardinality(CallUnits(f, c, buy))
      BY <3>1, <3>2, CallsTake
    <3>4. Size(Head(f[u]), c, buy) = Size(r, c, buy)
      BY <3>1
    <3> QED BY <3>3, <3>4
  <2>3. /\ Cardinality(BookUnits(book, c, buy)) \in Nat
        /\ Cardinality(CallUnits(Queues, c, buy)) \in Nat
        /\ Cardinality(CallUnits(Queues', c, buy)) \in Nat
    BY <2>1, <2>2, FS_CardinalityType DEF Ledger
  <2>4. asked[c][buy] \in Nat /\ traded[c][buy] \in Nat /\ Size(r, c, buy) \in Nat
    BY <1>2 DEF TypeOK, Sides, Size, Requests
  <2>5. IsFiniteSet(BookUnits(book, c, buy))
        /\ traded[c][buy] + Cardinality(BookUnits(book, c, buy))
              + Cardinality(CallUnits(Queues, c, buy)) <= asked[c][buy]
    BY <2>1 DEF Ledger
  <2> QED BY <2>2, <2>3, <2>4, <2>5
<1>6. CASE UNCHANGED exchangeVars
  <2>1. ASSUME NEW c \in Coins, NEW buy \in BOOLEAN PROVE Ledger(c, buy)'
    <3>1. /\ IsFiniteSet(BookUnits(book', c, buy))
          /\ Cardinality(BookUnits(book', c, buy)) = Cardinality(BookUnits(book, c, buy))
          /\ traded'[c][buy] = traded[c][buy] /\ asked'[c][buy] = asked[c][buy]
      BY <1>4, <1>5, <1>6 DEF exchangeVars
    <3> HIDE DEF r
    <3>2. traded'[c][buy] + Cardinality(BookUnits(book', c, buy))
             + Cardinality(CallUnits(Queues', c, buy)) <= asked'[c][buy]
      BY <1>5, <3>1
    <3> QED BY <1>5, <3>1, <3>2 DEF Ledger
  <2> QED BY <1>4, <1>6, <2>1 DEF exchangeVars, LedgerInv, PositionInv
<1>7. CASE /\ lastOid' = lastOid + 1
           /\ book' = book \cup {[oid |-> lastOid + 1, coin |-> r.coin, buy |-> r.buy,
                                  size |-> r.size, reduceOnly |-> r.reduceOnly]}
           /\ UNCHANGED <<position, traded>>
  <2> DEFINE n == [oid |-> lastOid + 1, coin |-> r.coin, buy |-> r.buy,
                   size |-> r.size, reduceOnly |-> r.reduceOnly]
  <2>1. n.size \in Nat
    BY <1>2 DEF Requests
  <2>2. ASSUME NEW c, NEW buy PROVE Size(n, c, buy) = Size(r, c, buy)
    BY DEF Size, Opens
  <2>3. book' = book \cup {n}
    BY <1>7
  <2> HIDE DEF n, r
  <2>4. ASSUME NEW c \in Coins, NEW buy \in BOOLEAN PROVE Ledger(c, buy)'
    <3>1. /\ IsFiniteSet(BookUnits(book', c, buy))
          /\ Cardinality(BookUnits(book', c, buy)) <=
                Cardinality(BookUnits(book, c, buy)) + Size(n, c, buy)
      BY <1>5, <2>1, <2>3, BookAdds
    <3>2. Size(n, c, buy) = Size(r, c, buy)
      BY <2>2
    <3>3. Cardinality(BookUnits(book', c, buy)) \in Nat
      BY <3>1, FS_CardinalityType
    <3>4. traded'[c][buy] = traded[c][buy] /\ asked'[c][buy] = asked[c][buy]
      BY <1>4, <1>7
    <3>5. traded'[c][buy] + Cardinality(BookUnits(book', c, buy))
             + Cardinality(CallUnits(Queues', c, buy)) <= asked'[c][buy]
      BY <1>5, <3>1, <3>2, <3>3, <3>4
    <3> QED BY <1>5, <3>1, <3>5 DEF Ledger
  <2> QED BY <1>4, <1>7, <2>4 DEF LedgerInv, PositionInv
<1>8. CASE /\ \E q \in 1..r.size : Execute(r.coin, r.buy, q, r.reduceOnly)
           /\ UNCHANGED <<book, lastOid>>
  <2>1. PICK q \in 1..r.size : Execute(r.coin, r.buy, q, r.reduceOnly)
    BY <1>8
  <2>2. /\ r.coin \in Coins /\ r.buy \in BOOLEAN /\ r.reduceOnly \in BOOLEAN
        /\ q \in Nat \ {0} /\ r.size \in Nat /\ q <= r.size
    BY <1>2 DEF Requests
  <2>3. \A c, buy : Size(r, c, buy) = IF r.coin = c /\ r.buy = buy /\ ~r.reduceOnly
                                        THEN r.size ELSE 0
    BY DEF Size, Opens
  <2> HIDE DEF r
  <2>4. ~r.reduceOnly => traded[r.coin][r.buy] + q <= asked[r.coin][r.buy]
    BY <1>5, <2>2, <2>3
  <2>5. /\ PositionInv' /\ Promise!Next
        /\ \A d \in Coins, b \in BOOLEAN :
              traded'[d][b] = traded[d][b]
                  + IF d = r.coin /\ b = r.buy /\ ~r.reduceOnly THEN q ELSE 0
    BY <1>4, <2>1, <2>2, <2>4, ExecuteKeeps
  <2>6. ASSUME NEW c \in Coins, NEW buy \in BOOLEAN PROVE Ledger(c, buy)'
    <3>1. /\ IsFiniteSet(BookUnits(book', c, buy))
          /\ Cardinality(BookUnits(book', c, buy)) = Cardinality(BookUnits(book, c, buy))
          /\ asked'[c][buy] = asked[c][buy]
      BY <1>4, <1>5, <1>8
    <3>2. traded'[c][buy] <= traded[c][buy] + Size(r, c, buy) /\ traded'[c][buy] \in Nat
      BY <1>5, <2>2, <2>3, <2>5
    <3>3. traded'[c][buy] + Cardinality(BookUnits(book', c, buy))
             + Cardinality(CallUnits(Queues', c, buy)) <= asked'[c][buy]
      BY <1>5, <3>1, <3>2
    <3> QED BY <1>5, <3>1, <3>3 DEF Ledger
  <2> QED BY <2>5, <2>6 DEF LedgerInv
<1> QED BY <1>6, <1>7, <1>8 DEF Take
\* An open order trades one lot.
LEMMA FillLedger ==
  ASSUME TypeOK, TypeOK', BookInv, LedgerInv, PositionInv, NEW o \in book, Fill(o)
  PROVE  LedgerInv' /\ PositionInv' /\ Promise!Next
<1>1. /\ o.coin \in Coins /\ o.buy \in BOOLEAN /\ o.reduceOnly \in BOOLEAN
      /\ book \in SUBSET Resting /\ \A o1, o2 \in book : o1.oid = o2.oid => o1 = o2
  BY DEF TypeOK, Resting, BookInv
<1>2. /\ asked' = asked /\ Queues' = Queues /\ Execute(o.coin, o.buy, 1, o.reduceOnly)
      /\ book' = (book \ {o}) \cup IF o.size = 1 THEN {} ELSE {[o EXCEPT !.size = @ - 1]}
  BY DEF Fill, Queues
<1>3. ASSUME NEW c \in Coins, NEW buy \in BOOLEAN
      PROVE  /\ IsFiniteSet(CallUnits(Queues', c, buy))
             /\ Cardinality(CallUnits(Queues', c, buy)) = Cardinality(CallUnits(Queues, c, buy))
             /\ IsFiniteSet(BookUnits(book', c, buy))
             /\ Cardinality(BookUnits(book', c, buy)) + (IF Opens(o, c, buy) THEN 1 ELSE 0)
                   <= Cardinality(BookUnits(book, c, buy))
             /\ Cardinality(BookUnits(book, c, buy)) \in Nat
             /\ Cardinality(BookUnits(book', c, buy)) \in Nat
             /\ Cardinality(CallUnits(Queues, c, buy)) \in Nat
             /\ asked[c][buy] \in Nat /\ traded[c][buy] \in Nat
             /\ traded[c][buy] + Cardinality(BookUnits(book, c, buy))
                   + Cardinality(CallUnits(Queues, c, buy)) <= asked[c][buy]
  <2>1. Ledger(c, buy)
    BY DEF LedgerInv
  <2>2. /\ IsFiniteSet(BookUnits(book', c, buy))
        /\ Cardinality(BookUnits(book', c, buy)) + (IF Opens(o, c, buy) THEN 1 ELSE 0)
              <= Cardinality(BookUnits(book, c, buy))
    <3>1. IsFiniteSet(BookUnits(book, c, buy))
      BY <2>1 DEF Ledger
    <3> QED BY <1>1, <1>2, <3>1, BookFills
  <2>3. /\ IsFiniteSet(CallUnits(Queues', c, buy))
        /\ Cardinality(CallUnits(Queues', c, buy)) = Cardinality(CallUnits(Queues, c, buy))
    BY <1>2, <2>1 DEF Ledger
  <2>4. /\ Cardinality(BookUnits(book, c, buy)) \in Nat
        /\ Cardinality(BookUnits(book', c, buy)) \in Nat
        /\ Cardinality(CallUnits(Queues, c, buy)) \in Nat
    BY <2>1, <2>2, FS_CardinalityType DEF Ledger
  <2>5. asked[c][buy] \in Nat /\ traded[c][buy] \in Nat
    BY DEF TypeOK, Sides
  <2> QED BY <2>1, <2>2, <2>3, <2>4, <2>5 DEF Ledger
<1>4. \A c, buy : Opens(o, c, buy) <=> o.coin = c /\ o.buy = buy /\ ~o.reduceOnly
  BY DEF Opens
<1>5. ~o.reduceOnly => traded[o.coin][o.buy] + 1 <= asked[o.coin][o.buy]
  BY <1>1, <1>3, <1>4
<1>6. /\ PositionInv' /\ Promise!Next
      /\ \A d \in Coins, b \in BOOLEAN :
            traded'[d][b] = traded[d][b]
                + IF d = o.coin /\ b = o.buy /\ ~o.reduceOnly THEN 1 ELSE 0
  BY <1>1, <1>2, <1>5, ExecuteKeeps
<1>7. ASSUME NEW c \in Coins, NEW buy \in BOOLEAN PROVE Ledger(c, buy)'
  <2>1. traded'[c][buy] = traded[c][buy] + (IF Opens(o, c, buy) THEN 1 ELSE 0)
        /\ asked'[c][buy] = asked[c][buy]
    BY <1>2, <1>4, <1>6
  <2>2. traded'[c][buy] + Cardinality(BookUnits(book', c, buy))
           + Cardinality(CallUnits(Queues', c, buy)) <= asked'[c][buy]
    BY <1>3, <2>1
  <2> QED BY <1>3, <2>2 DEF Ledger
<1> QED BY <1>6, <1>7 DEF LedgerInv

\* A step that neither queues nor takes sends nothing, and trades nothing.
Quiet ==
    /\ UNCHANGED <<position, traded, asked>> /\ book' \subseteq book
    /\ \A v \in Users : local'[v].orders = local[v].orders \/ local'[v].orders = << >>

LEMMA QuietKeeps ==
  ASSUME TypeOK, TypeOK', LedgerInv, PositionInv, Quiet
  PROVE  /\ LedgerInv' /\ PositionInv'
         /\ UNCHANGED <<position, asked, traded>>
  BY LedgerKept DEF Quiet, PositionInv

\* A call starts with no orders, and only those that place start with specs.
LEMMA CallStarts ==
  ASSUME local \in [Users -> Locals], NEW u \in Users, Call(u)
  PROVE  /\ local'[u].orders = << >>
         /\ \/ \E specs \in Batches : Place(u, specs)
            \/ \E s \in Markets : PlaceMarket(u, s)
            \/ local'[u].todo = << >>
<1>1. ASSUME NEW l, NEW label, NEW os, Begin(u, label, l, os), l.orders = << >>
      PROVE  local'[u] = l /\ local'[u].orders = << >>
  BY <1>1 DEF Begin
<1>2. CASE \E specs \in Batches : Place(u, specs)
  BY <1>2 DEF Place, Begin, Blank
<1>3. CASE \E s \in Markets : PlaceMarket(u, s)
  BY <1>3 DEF PlaceMarket, Begin, Blank
<1>4. CASE \E s \in Closes : ClosePosition(u, s)
  BY <1>1, <1>4 DEF ClosePosition, Blank
<1>5. CASE RefreshState(u)
  BY <1>1, <1>5 DEF RefreshState, Blank
<1>6. CASE \E coins \in Sweeps : CancelAll(u, coins)
  <2>1. PICK coins \in Sweeps : CancelAll(u, coins)
    BY <1>6
  <2>2. local' = [local EXCEPT ![u] = [Blank EXCEPT !.coins = coins]]
    BY <2>1 DEF CancelAll, Begin
  <2> QED BY <2>2 DEF Blank
<1>7. CASE \E oid \in Oids : Cancel(u, oid)
  <2>1. PICK oid \in Oids : Cancel(u, oid)
    BY <1>7
  <2>2. local' = [local EXCEPT ![u] = [Blank EXCEPT !.targets = {oid}]]
    BY <2>1 DEF Cancel, Begin
  <2> QED BY <2>2 DEF Blank
<1> QED BY <1>2, <1>3, <1>4, <1>5, <1>6, <1>7 DEF Call

LEMMA QuietSteps ==
  ASSUME IInv, NEW u \in Users, Call(u) \/ Step(u)
  PROVE  \/ Quiet \/ Take(u)
         \/ /\ local[u].todo # << >> /\ Head(local[u].todo).coin \in Coins
            /\ Queue(u) /\ UNCHANGED <<book, traded, position>>
<1>1. pc \in [Users -> Labels] /\ local \in [Users -> Locals]
  BY DEF IInv, TypeOK
<1>2. \A v \in Users \ {u} : local'[v] = local[v]
  BY OthersUnchanged DEF IInv
<1>3. Blank.orders = << >>
  BY DEF Blank
<1>4. CASE Call(u)
  <2>1. UNCHANGED <<position, traded, asked, book>>
    BY <1>4 DEF Call, Place, PlaceMarket, ClosePosition, RefreshState, CancelAll, Cancel,
                exchangeVars
  <2>2. local'[u].orders = << >>
    BY <1>1, <1>4, CallStarts
  <2> QED BY <1>2, <2>1, <2>2 DEF Quiet
<1>5. CASE ValidateLocally(u)
  <2>1. CASE Queue(u)
    <3>1. Head(local[u].todo).coin \in Coins
      <4>1. local[u].todo # << >> /\ local[u].todo \in Seq(Specs)
        BY <1>1, <1>5 DEF ValidateLocally, Locals
      <4>2. Head(local[u].todo) \in Specs
        BY <4>1, HeadAndTail
      <4>3. \/ Head(local[u].todo).coin # NoCoin \/ LocallyValid(Head(local[u].todo))
            \/ Goto(u, "idle")
        BY <1>5 DEF ValidateLocally, Return
      <4>4. ~Goto(u, "idle")
        BY <1>1, <2>1 DEF Queue, Goto
      <4> QED BY <4>2, <4>3, <4>4 DEF LocallyValid, Specs
    <3> QED BY <1>5, <2>1, <3>1 DEF ValidateLocally, exchangeVars
  <2>2. CASE ~Queue(u)
    <3>1. UNCHANGED <<position, traded, asked, book>>
      BY <1>5, <2>2 DEF ValidateLocally, exchangeVars
    <3>2. local' = local \/ local' = [local EXCEPT ![u] = Blank]
      BY <1>5, <2>2 DEF ValidateLocally, Return
    <3> QED BY <1>1, <1>2, <1>3, <3>1, <3>2 DEF Quiet
  <2> QED BY <2>1, <2>2
<1>6. CASE ValidatePosition(u)
  <2>1. CASE Queue(u)
    BY <1>6, <2>1 DEF ValidatePosition, exchangeVars, IInv, CallInv
  <2>2. CASE ~Queue(u)
    <3>1. UNCHANGED <<position, traded, asked, book>>
      BY <1>6, <2>2 DEF ValidatePosition, exchangeVars
    <3>2. local' = [local EXCEPT ![u] = Blank]
      BY <1>6, <2>2 DEF ValidatePosition, Return
    <3> QED BY <1>1, <1>2, <1>3, <3>1, <3>2 DEF Quiet
  <2> QED BY <2>1, <2>2
<1>7. CASE FetchFail(u) \/ CloseReadFail(u) \/ Answer(u) \/ Send(u)
  <2>1. UNCHANGED <<position, traded, asked, book>>
    BY <1>7 DEF FetchFail, CloseReadFail, Answer, Send, exchangeVars
  <2>2. local' = local \/ local' = [local EXCEPT ![u] = Blank]
    BY <1>7 DEF FetchFail, CloseReadFail, Answer, Send, Return
  <2> QED BY <1>1, <1>2, <1>3, <2>1, <2>2 DEF Quiet
<1>8. CASE Fetch(u) \/ Store(u)
  <2>1. UNCHANGED <<position, traded, asked, book>>
    BY <1>8 DEF Fetch, Store, exchangeVars
  <2>2. local'[u].orders = local[u].orders
    BY <1>1, <1>8 DEF Fetch, Store, Locals
  <2> QED BY <1>2, <2>1, <2>2 DEF Quiet
<1>9. CASE CloseRead(u)
  <2>1. UNCHANGED <<position, traded, asked, book>>
    BY <1>9 DEF CloseRead, exchangeVars
  <2>2. \E t : local'[u] = [local[u] EXCEPT !.todo = t]
    BY <1>1, <1>9 DEF CloseRead
  <2>3. local'[u].orders = local[u].orders
    BY <1>1, <2>2 DEF Locals
  <2> QED BY <1>2, <2>1, <2>3 DEF Quiet
<1>10. CASE List(u)
  <2>1. UNCHANGED <<position, traded, asked, book>>
    BY <1>10 DEF List, exchangeVars
  <2>2. \/ local' = [local EXCEPT ![u] = Blank]
        \/ \E t : local'[u] = [local[u] EXCEPT !.targets = t]
    BY <1>1, <1>10 DEF List, Return
  <2>3. local'[u].orders = local[u].orders \/ local'[u].orders = << >>
    BY <1>1, <1>3, <2>2 DEF Locals
  <2> QED BY <1>2, <2>1, <2>3 DEF Quiet
<1>11. CASE CancelSend(u)
  <2>1. UNCHANGED <<position, traded, asked>> /\ book' \subseteq book
    BY <1>11 DEF CancelSend
  <2>2. local' = [local EXCEPT ![u] = Blank]
    BY <1>11 DEF CancelSend, Return
  <2> QED BY <1>1, <1>2, <1>3, <2>1, <2>2 DEF Quiet
<1> QED BY <1>4, <1>5, <1>6, <1>7, <1>8, <1>9, <1>10, <1>11 DEF Step

\* Only ClosePosition makes a close, and it makes it reduce-only.
OwnClose(u) ==
    \A i \in 1..Len(local[u].todo) :
        local[u].todo[i].method = "close" => local[u].todo[i].reduceOnly

LEMMA OwnCloseKept ==
  ASSUME IInv, CloseInv, NEW u \in Users, Call(u) \/ Step(u)
  PROVE  OwnClose(u)'
<1>0. ASSUME NEW x, local'[u].todo = << x >>, x.method # "close" \/ x.reduceOnly
      PROVE  OwnClose(u)'
  <2>1. \A i \in 1..Len(local'[u].todo) : local'[u].todo[i] = x
    BY <1>0
  <2>2. \A i \in 1..Len(local'[u].todo) :
           local'[u].todo[i].method = "close" => local'[u].todo[i].reduceOnly
    BY <1>0, <2>1
  <2> QED BY <2>2 DEF OwnClose
<1>1. local \in [Users -> Locals] /\ local[u].todo \in Seq(Specs)
  BY DEF IInv, TypeOK, Locals
<1>2. OwnClose(u)
  BY DEF CloseInv, OwnClose
<1>3. CASE local'[u].todo = local[u].todo
  BY <1>2, <1>3 DEF OwnClose
<1>4. CASE local'[u].todo = << >>
  BY <1>4 DEF OwnClose
<1>5. CASE local[u].todo # << >> /\ local'[u].todo = Tail(local[u].todo)
  <2>1. Len(local'[u].todo) = Len(local[u].todo) - 1
        /\ \A i \in 1..Len(local'[u].todo) : local'[u].todo[i] = local[u].todo[i + 1]
    BY <1>1, <1>5
  <2>2. Len(local[u].todo) \in Nat
    BY <1>1
  <2>3. \A i \in 1..Len(local'[u].todo) : i + 1 \in 1..Len(local[u].todo)
    BY <2>1, <2>2
  <2> QED BY <1>2, <2>1, <2>3 DEF OwnClose
<1>6. CASE \E specs \in Batches : Place(u, specs)
  <2>1. PICK specs \in Batches : Place(u, specs)
    BY <1>6
  <2>2. local'[u].todo = specs
    BY <1>1, <2>1 DEF Place, Begin, Blank
  <2> QED BY <2>2, OpeningAssumption DEF OwnClose
<1>7. CASE \E s \in Markets : PlaceMarket(u, s)
  <2>1. PICK s \in Markets : PlaceMarket(u, s)
    BY <1>7
  <2>2. PICK px \in Quotes : local'[u].todo = << [s EXCEPT !.price = px] >>
    BY <1>1, <2>1 DEF PlaceMarket, Begin, Blank
  <2>3. [s EXCEPT !.price = px].method # "close"
    BY BatchesAssumption, OpeningAssumption DEF Specs
  <2> QED BY <1>0, <2>2, <2>3
<1>8. CASE CloseRead(u)
  <2>1. PICK szi, px : local' = [local EXCEPT ![u].todo = << CloseSpec(local[u].closing, szi, px) >>]
    BY <1>8 DEF CloseRead
  <2>2. local[u].closing \in Specs
    BY <1>8, ClosesAssumption DEF CloseRead, IInv, CallInv
  <2>3. CloseSpec(local[u].closing, szi, px).reduceOnly
    BY <2>2 DEF CloseSpec, Specs
  <2> DEFINE x == CloseSpec(local[u].closing, szi, px)
  <2>4. local' = [local EXCEPT ![u].todo = << x >>]
    BY <2>1
  <2>5. x.reduceOnly
    BY <2>3
  <2> HIDE DEF x
  <2>6. local'[u].todo = << x >>
    BY <1>1, <2>4 DEF Locals
  <2> QED BY <1>0, <2>5, <2>6
<1>9. CASE Call(u)
  <2>1. \/ \E specs \in Batches : Place(u, specs)
        \/ \E s \in Markets : PlaceMarket(u, s)
        \/ local'[u].todo = << >>
    BY <1>1, <1>9, CallStarts
  <2> QED BY <1>4, <1>6, <1>7, <2>1
<1>10. CASE ValidateLocally(u) \/ ValidatePosition(u)
  <2>1. CASE Queue(u)
    <3>1. local'[u].todo = Tail(local[u].todo)
      BY <1>1, <2>1 DEF Queue, Locals
    <3>2. local[u].todo # << >>
      BY <1>10 DEF ValidateLocally, ValidatePosition, IInv, CallInv
    <3> QED BY <1>5, <3>1, <3>2
  <2>2. CASE ~Queue(u)
    <3>1. local' = local \/ local' = [local EXCEPT ![u] = Blank]
      BY <1>10, <2>2 DEF ValidateLocally, ValidatePosition, Return
    <3> QED BY <1>1, <1>3, <1>4, <3>1 DEF Blank
  <2> QED BY <2>1, <2>2
<1>11. CASE \/ FetchFail(u) \/ CloseReadFail(u) \/ Answer(u) \/ Send(u) \/ CancelSend(u)
            \/ Fetch(u) \/ Store(u) \/ Take(u) \/ List(u)
  <2>1. \/ local' = local \/ local' = [local EXCEPT ![u] = Blank]
        \/ \E t : local'[u] = [local[u] EXCEPT !.targets = t]
        \/ \E t : local'[u] = [local[u] EXCEPT !.reply = t]
        \/ \E t : local'[u] = [local[u] EXCEPT !.orders = t]
    BY <1>1, <1>11 DEF FetchFail, CloseReadFail, Answer, Send, CancelSend, Fetch, Store,
                       Take, List, Return
  <2>2. local[u] \in Locals /\ Blank.todo = << >>
    BY <1>1 DEF Blank
  <2>3. ASSUME NEW t PROVE /\ [local[u] EXCEPT !.targets = t].todo = local[u].todo
                           /\ [local[u] EXCEPT !.reply = t].todo = local[u].todo
                           /\ [local[u] EXCEPT !.orders = t].todo = local[u].todo
    BY <2>2 DEF Locals
  <2>4. local'[u].todo = local[u].todo \/ local'[u].todo = << >>
    BY <1>1, <2>1, <2>2, <2>3
  <2> QED BY <1>3, <1>4, <2>4
<1> QED BY <1>8, <1>9, <1>10, <1>11 DEF Step

-------------------------------------------------------------------------------
(***************************************************************************)
(* The promise is kept from the first state on.                            *)
(***************************************************************************)
LEMMA ExposureInit ==
  ASSUME Init
  PROVE  ExposureInv /\ Promise!Init
<1>1. CloseInv
  BY DEF Init, CloseInv, Blank
<1>2. PositionInv
  BY StartsAssumption DEF Init, PositionInv
<1>3. ASSUME NEW c \in Coins, NEW buy \in BOOLEAN PROVE Ledger(c, buy)
  <2>1. BookUnits(book, c, buy) = {}
    BY DEF Init, BookUnits
  <2>2. \A u \in Users : Queues[u] = << >>
    BY DEF Init, Queues, Blank
  <2>3. CallUnits(Queues, c, buy) = {}
    BY <2>2, InCalls DEF Queues
  <2>4. asked[c][buy] = 0 /\ traded[c][buy] = 0
    BY DEF Init, NothingYet
  <2>5. IsFiniteSet({}) /\ Cardinality({}) = 0
    BY FS_EmptySet
  <2> QED BY <2>1, <2>3, <2>4, <2>5 DEF Ledger
<1>4. position \in [Coins -> Int]
  BY StartsAssumption, LimitsAssumption DEF Init
<1>5. Promise!Init
  BY <1>4 DEF Init, Promise!Init, NothingYet
<1> QED BY <1>1, <1>2, <1>3, <1>5 DEF ExposureInv, LedgerInv

LEMMA ExposureNext ==
  ASSUME IInv, IInv', ExposureInv, Next
  PROVE  ExposureInv' /\ [Promise!Next]_<<position, asked, traded>>
<1>1. TypeOK /\ TypeOK' /\ BookInv /\ LedgerInv /\ CloseInv /\ PositionInv
  BY DEF IInv, ExposureInv
<1>2. ASSUME NEW u \in Users, Call(u) \/ Step(u)
      PROVE  ExposureInv' /\ [Promise!Next]_<<position, asked, traded>>
  <2>1. LedgerInv' /\ PositionInv' /\ [Promise!Next]_<<position, asked, traded>>
    <3>1. CASE Quiet
      BY <1>1, <3>1, QuietKeeps
    <3>2. CASE Take(u)
      BY <1>1, <3>2, TakeLedger
    <3>3. CASE /\ local[u].todo # << >> /\ Head(local[u].todo).coin \in Coins
               /\ Queue(u) /\ UNCHANGED <<book, traded, position>>
      <4>1. LedgerInv' /\ Promise!Ask
        BY <1>1, <3>3, QueueLedger
      <4>2. PositionInv'
        BY <1>1, <3>3 DEF PositionInv
      <4> QED BY <4>1, <4>2 DEF Promise!Next
    <3> QED BY <1>2, <3>1, <3>2, <3>3, QuietSteps
  <2>2. \A v \in Users \ {u} : local'[v] = local[v]
    BY <1>1, <1>2, OthersUnchanged DEF IInv
  <2>3. CloseInv'
    <3>1. OwnClose(u)'
      BY <1>1, <1>2, OwnCloseKept
    <3>2. \A v \in Users \ {u} : OwnClose(v)'
      BY <1>1, <2>2 DEF CloseInv, OwnClose
    <3> QED BY <3>1, <3>2 DEF CloseInv, OwnClose
  <2> QED BY <2>1, <2>3 DEF ExposureInv
<1>3. ASSUME NEW o \in book, Fill(o) \/ Expire(o)
      PROVE  ExposureInv' /\ [Promise!Next]_<<position, asked, traded>>
  <2>1. CloseInv'
    BY <1>1, <1>3 DEF Fill, Expire, CloseInv
  <2>2. CASE Fill(o)
    BY <1>1, <2>1, <2>2, FillLedger DEF ExposureInv
  <2>3. CASE Expire(o)
    <3>1. Quiet
      BY <2>3 DEF Expire, Quiet
    <3> QED BY <1>1, <2>1, <3>1, QuietKeeps DEF ExposureInv
  <2> QED BY <1>3, <2>2, <2>3
<1> QED BY <1>2, <1>3 DEF Next

LEMMA ExposureStutter ==
  ASSUME IInv, IInv', ExposureInv, UNCHANGED vars
  PROVE  ExposureInv' /\ UNCHANGED <<position, asked, traded>>
<1>1. TypeOK /\ TypeOK' /\ Quiet /\ local' = local
  BY DEF IInv, vars, exchangeVars, Quiet
<1>2. CloseInv'
  BY <1>1 DEF ExposureInv, CloseInv
<1> QED BY <1>1, <1>2, QuietKeeps DEF ExposureInv

\* On each side of each coin what has traded and what may still trade, in the book and
\* in the actions on their way, is never more than what was asked for; a close that
\* waits is reduce-only; and no position leaves its bounds.
THEOREM ExposureInvariance == Spec => []ExposureInv
<1>1. Init => ExposureInv
  BY ExposureInit
<1>2. IInv /\ IInv' /\ ExposureInv /\ [Next]_vars => ExposureInv'
  BY ExposureNext, ExposureStutter
<1> QED BY <1>1, <1>2, TradeInvariance, PTL DEF Spec

\* The client keeps what Exposure promises the account's owner (place.go, validate.go):
\* however calls interleave and whatever is stale or lost, no order is sent twice, and
\* closing orders and bracket legs only bring a position towards zero.
THEOREM TradeKeepsPromise == Spec => ImplementsExposure
<1>1. Init => Promise!Init
  BY ExposureInit
<1>2. IInv /\ IInv' /\ ExposureInv /\ [Next]_vars
        => [Promise!Next]_<<position, asked, traded>>
  BY ExposureNext, ExposureStutter
<1> QED BY <1>1, <1>2, TradeInvariance, ExposureInvariance, PTL
        DEF Spec, ImplementsExposure, Promise!Spec
===============================================================================
