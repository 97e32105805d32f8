------------------------------ MODULE TradeClient ------------------------------
(***************************************************************************)
(* The trading client (src/trade): goroutines that place single orders and *)
(* batches, close positions and cancel orders through one Client, which    *)
(* caches one snapshot of the user state for the checks of all of them,    *)
(* and the exchange they talk to by HTTP.                                  *)
(*                                                                         *)
(* A step runs from one access to shared state (the cache, the exchange)   *)
(* to the next.  Signing, nonces and formatting are left out: an action    *)
(* that is signed is sent once.  The exchange is external: it refuses,     *)
(* takes, fills and expires orders as it likes, within their size and      *)
(* their reduce-only flag.                                                 *)
(***************************************************************************)
EXTENDS OrderSpecs

CONSTANTS
    Users,        \* goroutines
    Batches,      \* sequences of specs that Place... and PlaceMany are called with
    Markets,      \* specs that PlaceMarket is called with
    Closes,       \* ClosePosition: specs with its coin and options, the rest blank
    Clients,      \* the options of {"account", "vault"} a client may be made with
    Starts,       \* positions an account may start with
    Sweeps,       \* sets of coins CancelAll is called with; {} is every coin
    Quotes,       \* prices SlippagePrice may compute
    DexCoins,     \* coins of the builder dex; the others are on the default dex
    Pinned,       \* the client was made for the builder dex
    MaxCalls,     \* bound: calls in all
    MaxOrders,    \* bound: orders that ever rest in the book
    MaxPosition,  \* bound: absolute position
    None          \* no snapshot, no call

ASSUME BatchesAssumption == Batches \subseteq Seq(Specs) /\ Markets \subseteq Specs
\* No constructor of specs makes a close: only ClosePosition does (place.go:194).
ASSUME OpeningAssumption ==
    /\ \A specs \in Batches : \A i \in 1..Len(specs) : specs[i].method # "close"
    /\ \A s \in Markets : s.method # "close"
ASSUME ClosesAssumption ==
    Closes \subseteq Specs /\ \A s \in Closes : s.method = "close" /\ s.coin \in Coins
ASSUME CoinsAssumption == Sweeps \subseteq SUBSET Coins /\ DexCoins \subseteq Coins
ASSUME ClientsAssumption == Clients \subseteq SUBSET {"account", "vault"}
ASSUME QuotesAssumption == Quotes \subseteq Nat /\ Pinned \in BOOLEAN
ASSUME LimitsAssumption ==
    MaxCalls \in Nat /\ MaxOrders \in Nat /\ MaxPosition \in Nat

Positions == [Coins -> Int]
ASSUME StartsAssumption == Starts \subseteq [Coins -> -MaxPosition..MaxPosition]
ASSUME NoneAssumption == None \notin Positions /\ None \notin Closes

Sides   == [Coins -> [BOOLEAN -> Nat]]
Oids    == 1..MaxOrders
Resting == [oid : Oids, coin : Coins, buy : BOOLEAN, size : Nat \ {0},
            reduceOnly : BOOLEAN]

VARIABLES
    given,      \* WithAccount and WithVault: the addresses the client was given
    position,   \* exchange: the account's position in each coin
    book,       \* exchange: the account's open orders
    lastOid,    \* exchange: orders that ever rested
    cache,      \* c.userState
    pc,         \* pc[u]: where goroutine u is
    local,      \* local[u]: variables of the call u is in
    result,     \* result[u]: whether u's last call was a cancel that succeeded
    calls,      \* calls made
    asked,      \* asked[c][buy]: size of opening orders the application asked for
    traded,     \* traded[c][buy]: size traded by orders that are not reduce-only
    doomed      \* doomed[u]: open orders that u asked to cancel

exchangeVars == <<position, book, lastOid, traded, given>>
vars == <<exchangeVars, cache, pc, local, result, calls, asked, doomed>>

Labels == {"idle", "next", "fetch", "store", "check", "taking",
           "closeFetch", "closeStore", "closeRead", "refresh", "keep", "list", "sweep",
           "cancel"}

Locals ==
    [todo    : Seq(Specs),              \* specs that are not validated yet
     orders  : Seq(Requests),           \* the action's requests, then those not taken
     reply   : Positions \cup {None},   \* the snapshot fetched and not stored yet
     closing : Closes \cup {None},      \* argument of ClosePosition
     coins   : SUBSET Coins,            \* argument of CancelAll
     targets : SUBSET Oids]             \* order ids to cancel

Promises == {"swept", "cancelled"}      \* success of a CancelAll, of a Cancel

TypeOK ==
    /\ given \in Clients
    /\ position \in Positions /\ book \subseteq Resting /\ lastOid \in 0..MaxOrders
    /\ cache \in Positions \cup {None}
    /\ pc \in [Users -> Labels] /\ local \in [Users -> Locals]
    /\ result \in [Users -> {"none"} \cup Promises]
    /\ calls \in 0..MaxCalls /\ asked \in Sides /\ traded \in Sides
    /\ doomed \in [Users -> SUBSET Oids]

Blank == [todo |-> << >>, orders |-> << >>, reply |-> None, closing |-> None,
          coins |-> {}, targets |-> {}]

NothingYet == [c \in Coins |-> [b \in BOOLEAN |-> 0]]

\* A new client, for an account with positions and no open orders.
Init ==
    /\ given \in Clients /\ position \in Starts /\ book = {} /\ lastOid = 0
    /\ cache = None
    /\ pc = [u \in Users |-> "idle"] /\ local = [u \in Users |-> Blank]
    /\ result = [u \in Users |-> "none"] /\ doomed = [u \in Users |-> {}]
    /\ calls = 0 /\ asked = NothingYet /\ traded = NothingYet

Goto(u, label) == pc' = [pc EXCEPT ![u] = label]

\* A call starts with its arguments and the orders it is to cancel, and ends.
Begin(u, label, args, orders) ==
    /\ pc[u] = "idle" /\ calls < MaxCalls
    /\ calls' = calls + 1
    /\ local' = [local EXCEPT ![u] = args]
    /\ result' = [result EXCEPT ![u] = "none"]
    /\ doomed' = [doomed EXCEPT ![u] = orders]
    /\ Goto(u, label)

Return(u, how) ==
    /\ Goto(u, "idle")
    /\ result' = [result EXCEPT ![u] = IF how \in Promises THEN how ELSE "none"]
    /\ local' = [local EXCEPT ![u] = Blank]

-------------------------------------------------------------------------------
(***************************************************************************)
(* place and placeMany.                                                    *)
(***************************************************************************)
Place(u, specs) ==
    /\ Begin(u, "next", [Blank EXCEPT !.todo = specs], {})
    /\ UNCHANGED <<exchangeVars, cache, asked>>

\* PlaceMarket asks for the mid price first, and ends there when it finds none.
PlaceMarket(u, s) ==
    /\ \E px \in Quotes :
          Begin(u, "next", [Blank EXCEPT !.todo = << [s EXCEPT !.price = px] >>], {})
    /\ UNCHANGED <<exchangeVars, cache, asked>>

\* The size a spec asks to open: closing orders ask for none.
Asks(s) == IF s.reduceOnly \/ s.method = "close" THEN 0 ELSE s.size

\* Mutant: a batch is sent as soon as one spec has passed.
Queue_Eager(u) ==
    LET s == Head(local[u].todo) IN
    /\ local' = [local EXCEPT ![u].todo = Tail(@), ![u].orders = @ \o ToRequests(s)]
    /\ asked' = [asked EXCEPT ![s.coin][s.buy] = @ + Asks(s)]
    /\ Goto(u, "taking")

\* The first spec has passed: its requests join the action.
Queue(u) ==
    LET s == Head(local[u].todo) IN
    /\ local' = [local EXCEPT ![u].todo = Tail(@), ![u].orders = @ \o ToRequests(s)]
    /\ asked' = [asked EXCEPT ![s.coin][s.buy] = @ + Asks(s)]
    /\ Goto(u, "next")

\* The rules of validate that need no user state; SkipValidation leaves only the
\* check for an empty coin.
ValidateLocally(u) ==
    LET s == Head(local[u].todo) IN
    /\ pc[u] = "next" /\ local[u].todo # << >>
    /\ \/ s.skip /\ s.coin # NoCoin /\ Queue(u) /\ UNCHANGED result
       \/ /\ ~s.skip /\ LocallyValid(s)
          /\ Goto(u, "fetch") /\ UNCHANGED <<local, result, asked>>
       \/ /\ IF s.skip THEN s.coin = NoCoin ELSE ~LocallyValid(s)
          /\ Return(u, "refused") /\ UNCHANGED asked
    /\ UNCHANGED <<exchangeVars, cache, calls, doomed>>

\* validatePositionState on the cached snapshot, whoever stored it.
ValidatePosition(u) ==
    LET s == Head(local[u].todo) IN
    /\ pc[u] = "check"
    /\ \/ /\ cache # None => PositionOk(s, cache[s.coin])
          /\ Queue(u) /\ UNCHANGED result
       \/ /\ cache # None /\ ~PositionOk(s, cache[s.coin])
          /\ Return(u, "refused") /\ UNCHANGED asked
    /\ UNCHANGED <<exchangeVars, cache, calls, doomed>>

-------------------------------------------------------------------------------
(***************************************************************************)
(* RefreshState.                                                           *)
(***************************************************************************)
\* The account that the client's actions trade for, a property of the exchange.
Owner == IF "vault" \in given THEN "vault" ELSE IF "account" \in given THEN "account" ELSE "key"

\* effectiveAddr: the account whose positions are read.
Effective ==
    IF "account" \in given THEN "account" ELSE IF "vault" \in given THEN "vault" ELSE "key"

\* The clearinghouse answers for one dex; coins of the other show no position.  Another
\* account than the one traded for may hold anything.
Visible(c) == (c \in DexCoins) = Pinned
Snapshots  == {[c \in Coins |-> IF Visible(c) THEN szi[c] ELSE 0] :
                   szi \in IF Effective = Owner THEN {position} ELSE Starts}

\* validate and ClosePosition refresh the cache, and the application may.
AfterFetch == [fetch |-> "store", closeFetch |-> "closeStore", refresh |-> "keep"]
AfterStore == [store |-> "check", closeStore |-> "closeRead", keep |-> "idle"]

RefreshState(u) ==
    /\ Begin(u, "refresh", Blank, {})
    /\ UNCHANGED <<exchangeVars, cache, asked>>

Fetch(u) ==
    /\ pc[u] \in DOMAIN AfterFetch
    /\ \E reply \in Snapshots : local' = [local EXCEPT ![u].reply = reply]
    /\ Goto(u, AfterFetch[pc[u]])
    /\ UNCHANGED <<exchangeVars, cache, result, calls, asked, doomed>>

\* Mutant: validation goes on with whatever is cached when the fetch failed.
FetchFail_Open(u) ==
    /\ pc[u] \in DOMAIN AfterFetch
    /\ Goto(u, AfterStore[AfterFetch[pc[u]]])
    /\ UNCHANGED <<exchangeVars, local, cache, result, calls, asked, doomed>>

FetchFail(u) ==
    /\ pc[u] \in DOMAIN AfterFetch
    /\ Return(u, "failed")
    /\ UNCHANGED <<exchangeVars, cache, calls, asked, doomed>>

\* The last writer wins, whichever snapshot is newer.
Store(u) ==
    /\ pc[u] \in DOMAIN AfterStore
    /\ cache' = local[u].reply
    /\ local' = [local EXCEPT ![u].reply = None]
    /\ Goto(u, AfterStore[pc[u]])
    /\ UNCHANGED <<exchangeVars, result, calls, asked, doomed>>

-------------------------------------------------------------------------------
(***************************************************************************)
(* ClosePosition.                                                          *)
(***************************************************************************)
ClosePosition(u, s) ==
    /\ Begin(u, "closeFetch", [Blank EXCEPT !.closing = s], {})
    /\ UNCHANGED <<exchangeVars, cache, asked>>

\* Mutant: the signed size of the position is taken as it is.
CloseSize_Signed(s, szi) == IF s.overrideSize > 0 THEN s.overrideSize ELSE szi

CloseSize(s, szi) == IF s.overrideSize > 0 THEN s.overrideSize ELSE Abs(szi)

\* Mutant: the close is not marked reduce-only.
CloseSpec_Opening(s, szi, px) ==
    [s EXCEPT !.buy = szi < 0, !.size = CloseSize(s, szi), !.price = px]

CloseSpec(s, szi, px) ==
    [s EXCEPT !.buy = szi < 0, !.size = CloseSize(s, szi), !.price = px,
              !.reduceOnly = TRUE]

\* Side and size come from the cached snapshot; place fetches another for its check.
CloseRead(u) ==
    LET s   == local[u].closing
        szi == IF cache = None THEN 0 ELSE cache[s.coin] IN
    /\ pc[u] = "closeRead"
    /\ \E px \in IF s.limitPrice > 0 THEN {s.limitPrice} ELSE Quotes :
          local' = [local EXCEPT ![u].todo = << CloseSpec(s, szi, px) >>]
    /\ Goto(u, "next")
    /\ UNCHANGED <<exchangeVars, cache, result, calls, asked, doomed>>

\* SlippagePrice found no mid price.
CloseReadFail(u) ==
    /\ pc[u] = "closeRead" /\ local[u].closing.limitPrice = 0
    /\ Return(u, "failed")
    /\ UNCHANGED <<exchangeVars, cache, calls, asked, doomed>>

-------------------------------------------------------------------------------
(***************************************************************************)
(* executeAction for orders, and the exchange's side of it.                *)
(***************************************************************************)
\* The action arrives, or it is lost or refused as a whole.
Send(u) ==
    /\ pc[u] = "next" /\ local[u].todo = << >>
    /\ \/ Goto(u, "taking") /\ UNCHANGED <<local, result>>
       \/ Return(u, "failed")
    /\ UNCHANGED <<exchangeVars, cache, calls, asked, doomed>>

Toward(buy, q) == IF buy THEN q ELSE -q

\* The account trades q; a reduce-only order only moves it towards zero.
Execute(c, buy, q, reduceOnly) ==
    /\ reduceOnly => q <= Toward(~buy, position[c])
    /\ Abs(position[c] + Toward(buy, q)) <= MaxPosition
    /\ position' = [position EXCEPT ![c] = @ + Toward(buy, q)]
    /\ traded' = IF reduceOnly THEN traded ELSE [traded EXCEPT ![c][buy] = @ + q]

\* The exchange takes the next request: it refuses it, lets it rest, or fills an
\* immediate-or-cancel order for some of its size.
Take(u) ==
    LET r == Head(local[u].orders) IN
    /\ pc[u] = "taking" /\ local[u].orders # << >>
    /\ local' = [local EXCEPT ![u].orders = Tail(@)]
    /\ \/ UNCHANGED exchangeVars
       \/ /\ r.kind # "Ioc" /\ r.size > 0 /\ lastOid < MaxOrders
          /\ lastOid' = lastOid + 1
          /\ book' = book \cup {[oid |-> lastOid + 1, coin |-> r.coin, buy |-> r.buy,
                                 size |-> r.size, reduceOnly |-> r.reduceOnly]}
          /\ UNCHANGED <<position, traded, given>>
       \/ /\ r.kind = "Ioc"
          /\ \E q \in 1..r.size : Execute(r.coin, r.buy, q, r.reduceOnly)
          /\ UNCHANGED <<book, lastOid, given>>
    /\ UNCHANGED <<cache, pc, result, calls, asked, doomed>>

\* The answer arrives, or it is lost: the call fails though its orders were taken.
Answer(u) ==
    /\ pc[u] = "taking" /\ local[u].orders = << >>
    /\ Return(u, "ok") \/ Return(u, "failed")
    /\ UNCHANGED <<exchangeVars, cache, calls, asked, doomed>>

\* A resting order trades against the market, or the exchange drops it.
Fill(o) ==
    /\ Execute(o.coin, o.buy, 1, o.reduceOnly)
    /\ book' = (book \ {o}) \cup
               IF o.size = 1 THEN {} ELSE {[o EXCEPT !.size = @ - 1]}
    /\ UNCHANGED <<lastOid, given, cache, pc, local, result, calls, asked, doomed>>

Expire(o) ==
    /\ book' = book \ {o}
    /\ UNCHANGED <<position, lastOid, traded, given, cache, pc, local, result, calls,
                   asked, doomed>>

-------------------------------------------------------------------------------
(***************************************************************************)
(* Cancel and CancelAll.                                                   *)
(***************************************************************************)
Open(orders) == {o.oid : o \in orders}

\* Mutant: the named coins are the ones to spare.
Keep_Inverted(c, coins) == coins = {} \/ c \notin coins

\* With no coins supplied every coin is meant.
Keep(c, coins) == coins = {} \/ c \in coins

CancelAll(u, coins) ==
    /\ Begin(u, "list", [Blank EXCEPT !.coins = coins],
             Open({o \in book : o.coin \notin DexCoins /\ (coins = {} \/ o.coin \in coins)}))
    /\ UNCHANGED <<exchangeVars, cache, asked>>

\* The address whose open orders CancelAll lists: unlike effectiveAddr it is never that
\* of the key, and empty when no option gave one.
Listed == IF given = {} THEN "nobody" ELSE Effective

\* OpenOrders, which is asked for the default dex: the orders of the account traded for,
\* none of an empty address, those of another account, which are not in the book.
\* Nothing to cancel is a success.
List(u) ==
    LET found == IF Listed = Owner
                 THEN Open({o \in book : o.coin \notin DexCoins
                                         /\ Keep(o.coin, local[u].coins)})
                 ELSE {} IN
    /\ pc[u] = "list"
    /\ \/ /\ found # {} \/ Listed \notin {"nobody", Owner}
          /\ local' = [local EXCEPT ![u].targets = found]
          /\ Goto(u, "sweep") /\ UNCHANGED result
       \/ found = {} /\ Return(u, "swept")
       \/ Return(u, "failed")
    /\ UNCHANGED <<exchangeVars, cache, calls, asked, doomed>>

\* Cancel of an order id the application was given.
Cancel(u, oid) ==
    /\ oid <= lastOid
    /\ Begin(u, "cancel", [Blank EXCEPT !.targets = {oid}], {oid})
    /\ UNCHANGED <<exchangeVars, cache, asked>>

\* The cancel action: lost or refused as a whole, carried out and answered, or
\* carried out with the answer lost.  Each target that is still open is cancelled.
CancelSend(u) ==
    /\ pc[u] \in {"sweep", "cancel"}
    /\ \/ UNCHANGED book /\ Return(u, "failed")
       \/ /\ book' = {o \in book : o.oid \notin local[u].targets}
          /\ \/ Return(u, IF pc[u] = "sweep" THEN "swept" ELSE "cancelled")
             \/ Return(u, "failed")
    /\ UNCHANGED <<position, lastOid, traded, given, cache, calls, asked, doomed>>

-------------------------------------------------------------------------------
Call(u) ==
    \/ \E specs \in Batches : Place(u, specs)
    \/ \E s \in Markets : PlaceMarket(u, s)
    \/ \E s \in Closes : ClosePosition(u, s)
    \/ RefreshState(u)
    \/ \E coins \in Sweeps : CancelAll(u, coins)
    \/ \E oid \in Oids : Cancel(u, oid)

Step(u) ==
    \/ ValidateLocally(u) \/ ValidatePosition(u)
    \/ Fetch(u) \/ FetchFail(u) \/ Store(u)
    \/ CloseRead(u) \/ CloseReadFail(u)
    \/ Send(u) \/ Take(u) \/ Answer(u)
    \/ List(u) \/ CancelSend(u)

Next ==
    \/ \E u \in Users : Call(u) \/ Step(u)
    \/ \E o \in book : Fill(o) \/ Expire(o)

Spec == Init /\ [][Next]_vars

-------------------------------------------------------------------------------
(***************************************************************************)
(* Properties.                                                             *)
(***************************************************************************)
Promise == INSTANCE Exposure WITH Sizes <- 1..2 * MaxPosition

\* The client implements the abstract promise: whatever goroutines interleave,
\* snapshots are stale and answers get lost, no order is sent twice, and what
\* ClosePosition and the bracket legs send can only bring a position towards zero.
ImplementsExposure == Promise!Spec

\* docs/trading.md of PlaceMany: every spec of a batch is validated before anything
\* is sent, so nothing of a batch is taken while one of its specs may be refused.
BatchIsAtomic == \A u \in Users : pc[u] = "taking" => local[u].todo = << >>

\* A Cancel that reports success leaves its order closed; so does a CancelAll for every
\* order on the default dex that it was asked to cancel and that was open when it was
\* called, whatever filled, expired or was cancelled meanwhile.  CancelAll keeps that
\* word only for a client that was given its address, and not one of an account beside
\* that of its vault (modify_cancel.go:117-120).
CancelsWhatItReports ==
    \A u \in Users :
        \/ result[u] = "cancelled"
        \/ result[u] = "swept" /\ Listed = Owner
        => doomed[u] \cap Open(book) = {}

\* validate fails closed: the position rules and the close's side and size are never
\* decided without a snapshot (validate.go:90-94).
ChecksHaveState == \A u \in Users : pc[u] \in {"check", "closeRead"} => cache # None
===============================================================================
