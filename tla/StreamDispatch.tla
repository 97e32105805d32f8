---------------------------- MODULE StreamDispatch ----------------------------
(***************************************************************************)
(* The read pump of stream.Client and the listeners it serves: readPump,   *)
(* dispatch and matchSubscription of src/stream/stream.go, composed with   *)
(* the registry of StreamSubs.  The pump reads a frame, copies the         *)
(* matching callbacks under subMu.RLock and runs them one after the other  *)
(* after it released the lock; a callback may itself subscribe or close a  *)
(* subscription, as the goroutine Pump of StreamSubs.                      *)
(*                                                                         *)
(* Keys are subscription filters here.  What the server puts into a frame  *)
(* is external, taken from docs/stream.md and the payloads of              *)
(* ws_types_test.go: only the fields matchSubscription looks at are kept.  *)
(* An address stands for all its spellings (strings.EqualFold).            *)
(***************************************************************************)
EXTENDS StreamSubs, Sequences

CONSTANTS
    Pump,       \* the goroutine of readPump, one of Users
    MaxWire     \* bound: frames in flight

ASSUME PumpAssumption == Pump \in Users
ASSUME MaxWireAssumption == MaxWire \in Nat

VARIABLES
    wire,       \* frames on their way, each the key of the feed it belongs to
    stage,      \* where the read pump is
    frame,      \* the feed of the frame in hand, None when reading
    copied,     \* ids whose callbacks were copied for the frame in hand
    todo,       \* those of them that have not been called yet
    owed,       \* ids registered for the frame's feed when they were copied
    gone        \* ids that were unsubscribed when the frame was read

dispatchVars == <<wire, stage, frame, copied, todo, owed, gone>>
dvars == <<vars, dispatchVars>>

Stages == {"reading", "matching", "copying", "calling", "callback", "acted"}

-------------------------------------------------------------------------------
(***************************************************************************)
(* Subscription filters, the constructors of subscriptions.go.             *)
(***************************************************************************)
Filter(t, c, u, i, d) == [typ |-> t, coin |-> c, user |-> u, interval |-> i, dex |-> d]

OfCoin(t, c) == Filter(t, c, "", "", "")
OfUser(t, u) == Filter(t, "", u, "", "")

Trades(c)             == OfCoin("trades", c)
Book(c)               == OfCoin("l2Book", c)
BBO(c)                == OfCoin("bbo", c)
ActiveAssetCtx(c)     == OfCoin("activeAssetCtx", c)
Candles(c, i)         == Filter("candle", c, "", i, "")
AllMids               == Filter("allMids", "", "", "", "")
AllMidsOn(d)          == Filter("allMids", "", "", "", d)
UserEvents(u)         == OfUser("userEvents", u)
UserFills(u)          == OfUser("userFills", u)
OrderUpdates(u)       == OfUser("orderUpdates", u)
UserFundings(u)       == OfUser("userFundings", u)
UserLedger(u)         == OfUser("userNonFundingLedgerUpdates", u)
WebData(u)            == OfUser("webData2", u)
Notifications(u)      == OfUser("notification", u)
ActiveAssetData(u, c) == Filter("activeAssetData", c, u, "", "")
UserTwapFills(u)      == OfUser("userTwapSliceFills", u)
UserTwapHistory(u)    == OfUser("userTwapHistory", u)

Types == {"trades", "l2Book", "bbo", "activeAssetCtx", "candle", "allMids",
          "userEvents", "userFills", "orderUpdates", "userFundings",
          "userNonFundingLedgerUpdates", "webData2", "notification",
          "activeAssetData", "userTwapSliceFills", "userTwapHistory"}

\* The constructors give a coin, or a user, to exactly these types.
CoinTypes == {"trades", "l2Book", "bbo", "activeAssetCtx", "candle", "activeAssetData"}
UserTypes == (Types \ (CoinTypes \cup {"allMids"})) \cup {"activeAssetData"}

\* Keys are made by the constructors.
ASSUME KeysAssumption ==
    \A k \in Keys :
        /\ k \in [typ : Types, coin : STRING, user : STRING, interval : STRING, dex : STRING]
        /\ (k.coin # "") <=> k.typ \in CoinTypes
        /\ (k.user # "") <=> k.typ \in UserTypes

-------------------------------------------------------------------------------
(***************************************************************************)
(* Matching.                                                               *)
(***************************************************************************)
\* The channel of a subscription type.
ChannelOf(t) == IF t = "userEvents" THEN "user" ELSE t

\* The types whose data is a JSON array, that name the coin "s", or that carry no
\* user.
ArrayTypes    == {"trades", "orderUpdates"}
UncoinedTypes == {"candle"}
UnuserTypes   == {"userEvents", "notification"}

\* What the server sends on feed f, as far as matchSubscription reads it.
MessageOf(f) ==
    [channel |-> ChannelOf(f.typ),
     array   |-> f.typ \in ArrayTypes,
     coin    |-> IF f.typ \in UncoinedTypes THEN "" ELSE f.coin,
     user    |-> IF f.typ \in UnuserTypes THEN "" ELSE f.user]

\* Mutant: the coin is not compared.
Match_NoCoin(k, msg) ==
    /\ k.typ \in Types /\ msg.channel = ChannelOf(k.typ)
    /\ \/ k.coin = "" /\ k.user = ""
       \/ k.typ = "orderUpdates"
       \/ ~msg.array /\ k.user \in {"", msg.user}

\* Mutant: a message without a user is nobody's.
Match_NeedsUser(k, msg) ==
    /\ k.typ \in Types /\ msg.channel = ChannelOf(k.typ)
    /\ \/ k.coin = "" /\ k.user = ""
       \/ k.typ = "orderUpdates"
       \/ ~msg.array /\ k.coin \in {"", msg.coin} /\ k.user = msg.user /\ msg.user # ""

\* matchSubscription.  An array does not decode into {coin, user}.
Match(k, msg) ==
    /\ k.typ \in Types /\ msg.channel = ChannelOf(k.typ)
    /\ \/ k.coin = "" /\ k.user = ""
       \/ k.typ = "orderUpdates"
       \/ ~msg.array /\ k.coin \in {"", msg.coin} /\ k.user \in {"", msg.user}

\* Ids of the listeners of the registry that match a frame of feed f.
MatchingIds(f) == UNION {subs[k] : k \in {x \in Keys : Match(x, MessageOf(f))}}

-------------------------------------------------------------------------------
DispatchTypeOK ==
    /\ wire \in Seq(Keys) /\ Len(wire) <= MaxWire
    /\ stage \in Stages /\ frame \in Keys \cup {None}
    /\ copied \subseteq 1..nextSubID /\ todo \subseteq copied
    /\ owed \subseteq 1..nextSubID /\ gone \subseteq 1..nextSubID
    /\ (frame = None) <=> (stage = "reading")

DispatchInit ==
    /\ Init
    /\ wire = <<>> /\ stage = "reading" /\ frame = None
    /\ copied = {} /\ todo = {} /\ owed = {} /\ gone = {}

\* Mutant: the lock is released only after the callbacks.
Unlocked_Late == stage \notin {"copying", "calling", "callback", "acted"}

\* subMu is read-locked while the pump copies: a writer of the registry waits.
Unlocked == stage # "copying"

\* Ids whose Subscription.Close has unsubscribed them.
Removed == {i \in 1..nextSubID :
              /\ handle[i] = "closed"
              /\ ~\E u \in Users : pc[u] = "unsub" /\ cur[u] = i}

-------------------------------------------------------------------------------
(***************************************************************************)
(* The server, and the read pump.                                          *)
(***************************************************************************)
\* The server sends a frame of a feed it streams.
ServerSend(k) ==
    /\ k \in server /\ Len(wire) < MaxWire
    /\ wire' = Append(wire, k)
    /\ UNCHANGED <<vars, stage, frame, copied, todo, owed, gone>>

\* ReadMessage returns the next frame.
Read ==
    /\ stage = "reading" /\ wire # <<>>
    /\ frame' = Head(wire) /\ wire' = Tail(wire)
    /\ gone' = Removed /\ stage' = "matching"
    /\ UNCHANGED <<vars, copied, todo, owed>>

\* dispatch under subMu.RLock: the matching callbacks are copied.
DispatchCopy ==
    /\ stage = "matching"
    /\ copied' = MatchingIds(frame) /\ todo' = MatchingIds(frame)
    /\ owed' = subs[frame] /\ stage' = "copying"
    /\ UNCHANGED <<vars, wire, frame, gone>>

DispatchUnlock ==
    /\ stage = "copying"
    /\ stage' = "calling"
    /\ UNCHANGED <<vars, wire, frame, copied, todo, owed, gone>>

\* The callbacks of the copy are called in no particular order.
CallbackStart(i) ==
    /\ stage = "calling" /\ i \in todo
    /\ todo' = todo \ {i} /\ stage' = "callback"
    /\ UNCHANGED <<vars, wire, frame, copied, owed, gone>>

CallbackReturn ==
    /\ stage \in {"callback", "acted"} /\ pc[Pump] = "idle"
    /\ stage' = "calling"
    /\ UNCHANGED <<vars, wire, frame, copied, todo, owed, gone>>

\* Mutant: the frame in hand is not dropped.
DispatchDone_KeepFrame ==
    /\ stage = "calling" /\ todo = {}
    /\ stage' = "reading" /\ copied' = {} /\ owed' = {} /\ gone' = {}
    /\ UNCHANGED <<vars, wire, frame, todo>>

\* dispatch returns to the read loop.
DispatchDone ==
    /\ stage = "calling" /\ todo = {}
    /\ stage' = "reading" /\ frame' = None
    /\ copied' = {} /\ owed' = {} /\ gone' = {}
    /\ UNCHANGED <<vars, wire, todo>>

PumpStep ==
    \/ Read \/ DispatchCopy \/ DispatchUnlock
    \/ \E i \in todo : CallbackStart(i)
    \/ CallbackReturn \/ DispatchDone

-------------------------------------------------------------------------------
(***************************************************************************)
(* The registry's steps.  A callback calls Subscribe or Close at most once *)
(* (bound); the pump does so in no other place.                            *)
(***************************************************************************)
Called(u) ==
    /\ \/ u # Pump /\ UNCHANGED stage
       \/ u = Pump /\ stage = "callback" /\ stage' = "acted"
    /\ UNCHANGED <<wire, frame, copied, todo, owed, gone>>

UserSubscribe(u, k) == Subscribe(u, k) /\ Unlocked /\ Called(u)
UserClose(u, i)     == CloseCall(u, i) /\ Called(u)

UserContinue(u) ==
    /\ \/ CloseSwap(u) \/ WriteLock(u) \/ WriteRLock(u) \/ WriteFail(u)
       \/ SubscribeSend(u) \/ UnsubscribeSend(u)
       \/ (SubscribeRollback(u) \/ Unsubscribe(u)) /\ Unlocked
    /\ UNCHANGED dispatchVars

-------------------------------------------------------------------------------
(***************************************************************************)
(* The end of the connection.                                              *)
(***************************************************************************)
\* The connection breaks or is closed.  Of the frames on it the pump still reads those
\* that have arrived.
Cut ==
    /\ LoseConn \/ DropConn \/ ConnectLock
    /\ \E n \in 0..Len(wire) : wire' = SubSeq(wire, 1, n)
    /\ UNCHANGED <<stage, frame, copied, todo, owed, gone>>

Lower == LowerFlag /\ UNCHANGED dispatchVars

\* wg.Wait ends when the pump has: it is in no dispatch, and there is nothing to read.
ConnectReturn ==
    /\ stage = "reading" /\ wire = <<>>
    /\ ConnectUnlock
    /\ UNCHANGED dispatchVars

DispatchNext ==
    \/ \E u \in Users, k \in Keys : UserSubscribe(u, k)
    \/ \E u \in Users, i \in Ids : UserClose(u, i)
    \/ \E u \in Users : UserContinue(u)
    \/ \E k \in Keys : ServerSend(k)
    \/ PumpStep
    \/ Cut \/ Lower \/ ConnectReturn

\* WriteMessage has no deadline: on a socket that still works it takes as long as the
\* peer does not read.
Stalls(u) == writer = u /\ hasConn /\ conn = "up"
Stalled   == writer # None /\ hasConn /\ conn = "up"

\* The pump and the goroutines inside Subscribe or Close run on, unless they write to a
\* peer that does not read.  Each subscription sends two frames at most, so whoever waits
\* for writeMu has it at last.  (Each of these steps changes what is in its subscript.)
DispatchFairness ==
    /\ WF_stage(PumpStep)
    /\ \A u \in Users : WF_<<work, writeMu>>(~Stalls(u) /\ UserContinue(u))

DispatchSpec == DispatchInit /\ [][DispatchNext]_dvars /\ DispatchFairness

-------------------------------------------------------------------------------
(***************************************************************************)
(* Properties.                                                             *)
(***************************************************************************)
\* Feeds whose payload matchSubscription can read.
Legible(f) ==
    f.typ = "orderUpdates" \/ f.typ \notin ArrayTypes \cup UncoinedTypes \cup UnuserTypes

\* docs/stream.md, the tables of constructors: a frame of a feed reaches every
\* callback registered for that feed when dispatch looks it up.
ListenersAreServed == owed \subseteq copied

\* The same, for the feeds whose payload names the coin and the user the way
\* matchSubscription expects.
LegibleFeedsAreServed == frame # None /\ Legible(frame) => owed \subseteq copied

\* A callback never hears a feed of another type or coin; it hears another user's
\* only on orderUpdates, and otherwise only feeds that differ from its own in dex
\* or interval, which the frame does not show.
CrosstalkIsKnown ==
    \A i \in todo :
        LET k == keyOf[i] IN
        /\ k.typ = frame.typ /\ k.coin = frame.coin
        /\ k.user = frame.user \/ k.typ = "orderUpdates"

\* stream.go:220: a listener that Close had unsubscribed before a frame was read never
\* hears that frame, though one unsubscribed later may.
RemovedHearsNothing == todo \cap gone = {}

\* A Connect with connMu waits for the pump, whose callback waits for connMu, itself or
\* for the goroutine that has writeMu and waits for connMu (stream.go:172, 517, 524).
Deadlocked ==
    /\ dial /\ pc[Pump] \in {"subSend", "unsubSend"}
    /\ writer # None /\ ~hasConn

\* stream.go:460: callbacks run without a lock, so one that subscribes or closes a
\* subscription does not hold up the pump: every dispatch ends.  Two things keep it for
\* ever: a Connect that Close has overtaken and that waits for this very pump, and a peer
\* that never reads what is written.
DispatchEnds == stage = "matching" ~> (stage = "reading" \/ []Deadlocked \/ []Stalled)
===============================================================================
