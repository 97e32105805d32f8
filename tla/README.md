# TLA+ models of hyperliquid-go

This directory holds TLA+ modules that model the Go SDK in `src/`, TLC
configurations that check them on small instances, and proofs that TLAPS checks.
Paths below are relative to `src/`; module names refer to files in this directory.

## 1. Inventory of the system

The SDK has one long-lived concurrent component, the stream client, and a set of
request builders around one HTTP POST.

| component | state | operations | interacts with |
|---|---|---|---|
| stream connection life cycle (`stream/stream.go`, `stream/reconnect.go`) | `conn`, `connected`, `closed`, `cancel`, wait group, `connMu`, `writeMu`, `reconnectTimer`, `reconnectAttempts`, `closeOnce` | `Connect`, `Close`, `readPump`, `pingPump`, `handleDisconnect`, `scheduleReconnect`, timer callback, `writeJSON` | every other stream component through `writeJSON` and `connected` |
| stream POST (`stream/post.go`, `dispatch`) | `nextPostID`, `pendingRequests`, one buffered channel per request | `Post`, post branch of `dispatch`, drain in `Close` | read pump (responses), `Close` |
| subscription registry (`stream.go`, `ws_types.go`, `subscriptions.go`) | `subscriptions`, `nextSubID`, `Subscription.closed` | `Subscribe`, `Subscription.Close`, `unsubscribe`, `resubscribeAll` | server, `Connect` |
| dispatch to callbacks (`stream.go`) | the frame in hand and its copied callbacks | `readPump`, `dispatch`, `matchSubscription` | read pump, registry, application callbacks |
| reconnect back-off (`reconnect.go`) | `reconnectAttempts` | delay of `scheduleReconnect` | life cycle |
| order validation and user-state cache (`trade/validate.go`, `trade/exchange.go`) | `userState` | `validate`, `RefreshState` | `info`, order placement |
| order placement (`trade/place.go`, `trade.go`, `bracket.go`, `opts.go`, `exchange_orders.go`) | none | `Place`, `placeMany`, brackets, `ClosePosition`, `SlippagePrice`, `Convert` | registry of assets, number formatting, envelopes |
| modify and cancel (`trade/modify_cancel.go`, `exchange_orders_cancel.go`) | none | `Modify`, `Cancel`, `CancelByCloid`, `CancelAll` | open orders from `info` |
| signed envelopes (`trade/exchange.go`, `transfer.go`, `outcome.go`, `account.go`, `deploy_*.go`, ...) | clock as nonce, `vault`, `expiresAfter` | `executeAction`, `executeUserSignedAction`, `postAction`, some fifty verbs | signing, transport, asset registry |
| asset registry (`info/info.go`, `info/account.go`, `internal/asset`) | `nameToCoin`, `coinToAsset`, `assetToDecimal` | `New`, look-ups | placement, cancel, modify |
| number formatting (`internal/wire`, `trade/wire.go`) | none | tick and lot rounding, trimming | placement, transfers |
| info queries, signing, transport, types, facade | base URL, key | one round-trip or one pure function each | all |

What is hard here:

* **Concurrency of the stream client.** Application goroutines, two pumps for each
  connection and timer callbacks share two mutexes, three atomic flags, a wait
  group and a `sync.Once`. `Connect` waits for the old pumps with `connMu` held;
  `writeJSON` and the pumps need the same lock; `Close` waits for pumps that a
  `Connect` may start behind it.
* **Check, then act.** `closed` and `connected` are read before the lock that
  protects what they describe; the response channel of a POST is looked up under
  `pendingMu` and used after it; frames of the registry are sent after `subMu`.
* **An unreliable peer.** Answers may be late, repeated or missing; a connection
  may break between any two steps.
* **Arithmetic.** The back-off is a shift and a product of a signed 64-bit integer.
* **Snapshots and clocks in `trade`.** A cached user state shared by concurrent
  orders; nonces taken from a millisecond clock; cancel-all over a snapshot.
* **Two descriptions of one action.** What is signed is put together in one place and
  what is posted in another, from state that may change in between.
* **Names.** Perps, spot pairs, outcomes and their buckets share one table, in which a
  missing name reads as the first perp.

What makes each component correct:

* life cycle: one generation of pumps; no leaked socket; one writer at a time; a
  connected client is watched; a lost connection is retried, given up or closed;
  `Connect` and `Close` return; a closed client holds nothing;
* POST: each call ends once, with its own answer or a failure; the table holds the
  requests in flight and nothing else; nobody waits after the drain (the last parts of
  these two are what findings 1 to 3 and 13 to 15 limit);
* registry: it mirrors the open handles; closing is idempotent; the server streams
  what somebody listens to and nothing else;
* dispatch: a frame reaches who registered for its feed and nobody else; who was removed
  before it was read does not hear it; a callback that calls back holds nobody up;
* back-off: a positive delay within the cap, the documented doubling, the
  documented number of retries;
* trade: orders are validated against the state they were sized with; legs of a
  bracket oppose their entry; nothing is traded that was not asked for;
* registry of assets: a name means what it was last registered for;
* actions: what is signed is what is sent; an action goes to the asset of its coin, with
  the numbers asked for; a call that says it succeeded did.

`PROJECT.json` lists the hazards line by line.

## 2. Modules

| module | models | abstract counterpart |
|---|---|---|
| `StreamConn` | connection life cycle, one program counter per goroutine | |
| `StreamPost` | `Post`, post branch of `dispatch`, drain of `Close` | `RequestReply` |
| `StreamSubs` | registry and frames of the subscriptions | |
| `StreamDispatch` | read pump, matching and callbacks, composed with the registry | `StreamSubs` |
| `StreamBackoff` | delays in wrapping integers | |
| `OrderSpecs` | order specs, `validate`'s rules, the requests and bracket legs made of a spec | |
| `TradeClient` | orders, closes and cancels of concurrent goroutines, the cached user state, the exchange | `Exposure` |
| `AssetRegistry` | the tables `info.New` fills, bucket labels, look-ups | |
| `WireNumbers` | rounding and trimming of prices, sizes and amounts | |
| `SignedActions` | the actions of all verbs: fields, schema, vault, nonce field, handling of a refusal | |
| `OrderActions` | orders, cancels and modifies made of names and numbers: `AssetRegistry` with `WireNumbers` and `SignedActions` | |
| `ActionPipeline` | nonce, signature, envelope, exchange and answer of concurrent calls, on top of `OrderActions` | |
| `Powers` | powers as a recursive function, for `StreamBackoff` and `WireNumbers`: the provers know nothing of `^` | |
| `..._proofs` | TLAPS proofs about the module of that name; those about `StreamSubs` are in `StreamDispatch_proofs` | |
| `NumberLemmas` | lemmas on numbers: least elements, induction over sets, powers, products, division | |
| `MC...` | call scripts, universes and symmetry for TLC | |

The order pipeline is modelled twice, from two sides. `TradeClient` follows orders of
known coins through concurrent goroutines to fills, and takes numbers as lots and ticks.
`ActionPipeline` follows one action of any verb from names and decimals to the signed
envelope and back, and leaves fills out.

### StreamConn

`pc[p]` is what goroutine `p` does next. Goroutines are pairs: `<<"call", c>>` an
application goroutine, `<<"timer", t>>` one in which an `AfterFunc` callback runs,
`<<"read", g>>` and `<<"ping", g>>` the pumps of connection `g`. One step runs from
one access to shared state to the next:

| labels | code |
|---|---|
| `cClosed` `cConnected` `cLock` `cWait` `cDial` `cSpawn` `cResub` `cFail` | `Connect` and `resubscribeAll` |
| `wLock` `wCheck` `wRLock` `wSend` `uRollback` | `writeJSON` and its callers' error paths |
| `xOnce` `xTimer` `xConn` `xWait` | `Close` |
| `rConn` `rRead` `hClosed` `hFlag` `hLock` `sClosed` `sArm` | `readPump`, `handleDisconnect`, `scheduleReconnect` |
| `pTick` | `pingPump` |
| `tCheck` | timer callback |

`connMu.Lock` and `writeMu` have an owner, because they are held over several steps.
Critical sections under `connMu.RLock` or `reconnectMu` contain no blocking call and
are one step each, guarded by `connMu = Free` where they take the read lock. The
wait group is the set of pumps whose `pc` is not `"idle"`.
`c.conn` is the number of a connection; `open` is the set of connections whose socket
still works, so that `Drop` (the network) and `DropConn` (the program) both remove
from it, and a read on any other connection fails. The drain of pending requests in
`Close` is in `StreamPost`.

`PromptTimer` is the one timing assumption. A reconnect timer waits at least one
second; with `PromptTimer = TRUE` it does not fire while a goroutine is between a
check and the locked access right after it. Only `conn_resub` uses it, so that its
counterexample does not depend on a goroutine that sleeps a second between two
statements. The safety and the liveness runs let the timer fire at any time.

Liveness has to live with the two Connects that lock themselves out (findings 1 and 2).
`Blocked` are the goroutines that wait for `connMu`, directly or behind the holder of
`writeMu`; `Deadlocked` is a Connect that holds `connMu` and is itself blocked, or waits for
a pump that is. `LossIsResolved` and `CloseReturnsUnlessBlocked` except a behaviour that
is deadlocked for ever, and nothing weaker: a loss or a `Close` that hangs for any other
reason violates them. `Close` has a second exception, a Connect that overtakes it
(finding 3).

### StreamPost and RequestReply

A request is the pair of a goroutine and a number, and its channel has its name:
`chan[r]` is the buffered response, `shut` the closed channels. `dispatch` is two
steps, the look-up under `pendingMu` and the send after it. The server may answer
every request it received, again and in any order; a frame may be lost with its
connection.

`Post` waits in `writeJSON` as the code does, without its timer: `PostCheck` for
`writeMu` (held by whoever is at `rlock` or `send`), `PostRLock` for `connMu`, `PostSend`
in `WriteMessage`, on the connection that it copied (`held`). So the module keeps what
others do with these mutexes: `passed` counts Connects, of callers and of timer callbacks,
that are past their checks, which may lie before a `Close`; `dial` is what the Connect that
holds `connMu` does, `pump` where the read pump is that it waits for. `overtaken` records a
Connect that raised `connected` behind `Close`; a `Post` then gets past its check and
waits, after the drain, on a channel that nobody closes (`NoWaiterAfterDrain`), for its
timer alone.

`PostReturns` names what keeps a `Post` for ever. `Deadlocked` are the Connects of findings
1 and 2, seen from here; `Stalled` is a `WriteMessage` to a peer that does not read, which
has no deadline. Without either exception TLC finds a violation. Pings, which take the
same mutexes, are in `StreamConn`; a Connect that waits for a pump inside a callback is in
`StreamDispatch`.

`RequestReply` is the promise: asked once, ended once, answered only
with the answer the server gave. `ImplementsRequestReply` maps a request answered
with anything else to a value the promise does not know.

### StreamSubs

One connection and what ends it. The registry changes under `subMu`; `sendSubscribe` and
`sendUnsubscribe` come after `subMu` has been released, in the steps of `writeJSON`:
`WriteLock` takes `writeMu` and looks at `connected`, `WriteRLock` waits for `connMu` and
takes the connection, and then the frame is sent (`SubscribeSend`, `UnsubscribeSend`) or
fails (`WriteFail`). So the server sees frames in the order in which goroutines win
`writeMu`, which need not be that of the registry's changes.

The connection breaks (`LoseConn`), or `Close` or `handleDisconnect` lowers the flag and
closes it (`LowerFlag`, `DropConn`), or a Connect, perhaps one whose check of `closed` lies
before the `Close`, closes it and holds `connMu` until the pumps have ended (`ConnectLock`,
`ConnectUnlock`). What it dials then is another connection. An unsubscribe that finds
neither its key nor its id reports an error, recorded in `failed`.

### StreamDispatch

It extends `StreamSubs`: the goroutines that subscribe and close are its users, the read
pump is one of them, and subscription filters are its keys. `stage` is where the pump is:

| stage | code |
|---|---|
| `reading` | `ReadMessage` in `readPump` |
| `matching` | `dispatch` has the frame and has not locked `subMu` |
| `copying` | under `subMu.RLock`: the matching callbacks are copied; writers of the registry wait (`Unlocked`) |
| `calling` | between two callbacks, no lock held |
| `callback`, `acted` | in a callback, before and after it called `Subscribe` or `Close` |

`Match` is `matchSubscription`. What the server puts into a frame is external, taken from
`docs/stream.md` and the payloads of the tests, and kept as far as the matching reads it:
the channel, whether the data is an array, the coin and the user. `copied`, `owed` and
`gone` record, for the properties, who was copied for a frame, who had registered for
its feed then, and who had been removed before the frame was read.

A broken or closed connection still delivers the frames that have arrived, so `Cut` keeps
a prefix of `wire`. `ConnectReturn` is the end of `wg.Wait`: the pump is in no dispatch and
has nothing left to read.

A callback calls back at most once (bound) and calls `Subscribe` or `Close` of a
subscription. It runs in the pump, without a lock, but `writeJSON` takes `writeMu` and
`connMu`, and a Connect may hold `connMu` and wait for this very pump: `Deadlocked`, the
first exception of `DispatchEnds` (finding 15). The second, `Stalled`, is a peer that does
not read, so that a `WriteMessage`, of the callback or of the goroutine before it, never
returns. Without either exception TLC finds a violation. One that calls `Client.Close` waits in `wg.Wait` for its own goroutine, and
one that calls `Post` waits for an answer that only it could read; both are left out.

### StreamBackoff

`Wrap` and `Shift` are Go's conversion and shift on a signed word; the width and the
durations are parameters. The jitter is the set of truncated values of
`backoff * 0.2 * r`. The sum of back-off and jitter wraps like the product, before it is
compared with the floor: `SumMayWrap` names the attempts at which it may, those whose
product lies within a fifth of the most negative value. With 64 bits and the default of one
second they are the 50th and the 55th in a row.

### OrderSpecs, TradeClient and Exposure

`OrderSpecs` has no state: a spec is a record, an option a record update, sizes are
lots and prices ticks, with 0 for an option that is not given, as in the code.
`TradeClient` runs the verbs of `trade` on it. One step runs from one access to
shared state, the cache or the exchange, to the next:

| labels | code |
|---|---|
| `next` | the loop of `placeMany` (one spec for `place`), rules that need no state |
| `fetch` `store`, `closeFetch` `closeStore`, `refresh` `keep` | `RefreshState` from `validate`, `ClosePosition`, the application: the round-trip, then the store under `userStateMu` |
| `check` | `validatePositionState` on whatever is cached then |
| `closeRead` | `ClosePosition` reads side and size from the cache |
| `taking` | the order action; the exchange takes its requests one by one |
| `list` `sweep`, `cancel` | `CancelAll`: the open orders, then the cancel action of them; `Cancel`: its cancel action |

The exchange is external. It may refuse, keep, fill or drop any order, an action or
its answer may be lost, and it honours two things: an order trades at most its size,
a reduce-only order only towards zero. `asked` and `traded` are history variables:
what opening orders passed validation, and what such orders traded.

`Exposure` is the promise to an account's owner: on each side of a coin no more is
traded than was asked for, and everything else only brings a position nearer to zero.
It fails if an order is sent twice, if a close or a bracket leg lacks its
reduce-only flag, or if a refused spec is sent all the same.

`asked` counts a spec once it has passed validation, also one of a batch that a later spec
makes `placeMany` refuse; what is promised is a bound on what is traded, not that a
refused batch trades nothing, which is `BatchIsAtomic`.

A client is `given` an account, a vault, both or no address. `Owner` is the account its
actions trade for, `Effective` the one `RefreshState` reads (`effectiveAddr`), and `Listed` the
one whose open orders `CancelAll` lists, which for a client with its key alone is nobody's.
Where it reads another account than it trades for, the snapshot is any that account may
have, and the listing holds no order of the book.

`CancelsWhatItReports` therefore promises nothing of a `CancelAll` unless `Listed = Owner`
(finding 17), and speaks of the default dex, which is all that `OpenOrders` is asked for.

### AssetRegistry and WireNumbers

A name is the tuple of the parts that `Sprintf` joins, so that two names are equal in the
model when their parts are; `registered` counts the turns of the loops of `New`, which
register perps, then spot pairs, then the sides of outcomes. `universe` is what `/info`
listed, constant once read. A Go map that misses a key reads as zero, which is `Asset`.

`WireNumbers` counts in units of `10^-Places` and has no state. Go computes in binary
floats; where a decimal number lies half way between two neighbours, its float lies on
either side and `Nearest` allows both. `Trim` is the pair of `TrimRight` calls: without
a point in the string they cut the number's own zeros, those of a size of an asset without
size decimals and those of a price of an asset without price decimals (`Whole`).

### SignedActions, OrderActions and ActionPipeline

An action is a record (see the head of `SignedActions`), a hash the tuple of what goes
into it, so that two hashes are equal when their inputs are. Each verb has an operator
that says which fields it sends, which of them its schema signs, whether it hashes the
client's vault or the empty one, and what it makes of a refusal: shows it in the result
(`shown`), turns it into an error (`raised`), either, depending on where the refusal is
(`either`), or drops it (`lost`).

A call goes through the stages `idle`, `stamp`, `sign`, `post`, `answer`, `done`:

| action | code |
|---|---|
| `Begin` | the verb's checks, look-ups and roundings, up to the action |
| `Stamp` | `time.Now().UnixMilli()` |
| `Sign`, `SignFails` | `SignL1Action` or `SignUserSignedAction` with `c.expiresAfter` of that moment, and the envelope of `postAction` |
| `Receive` | the exchange, external: recovers the signer from what the envelope says, takes a nonce once, takes or declines the action |
| `Lose` | request or answer lost with the connection |
| `Reply` | what the verb returns |
| `Tick`, `SetExpiresAfter`, `Make` | the clock, the application's setting, a turn of `info.New` |

A call that its own checks refuse sends nothing and is not a step. The exchange honours
two things: it verifies what it can recompute from the envelope, and it accepts a nonce
once. The HTTP client sets no deadline on a response (`internal/transport`), so
a call whose answer is lost may also wait for ever, and nothing is claimed of liveness.

## 3. Runs

| run | instance | shows |
|---|---|---|
| `conn_safety` | 2 callers, 2 timer goroutines, 2 connections, any method in the scripts, give-up after 1 | the safety invariants of the life cycle |
| `conn_live` | 2 callers, both may connect, one may subscribe or post, the other close; give-up after 2; a timer that fires at any time | losses are resolved and `Close` returns, but for Connects that lock themselves out or overtake (findings 1 to 3) |
| `conn_resub`, `conn_connect` | the smallest scripts that reach the case | findings 1 and 2 |
| `post_safety` | 2 goroutines, 2 requests, 2 connections, 1 Connect waiting, a `Close` | the promise `RequestReply`; when `Post` returns and who waits after the drain (findings 13 and 14) |
| `post_crash` | 1 goroutine, 1 request | finding 4 |
| `subs_safety` | 1 goroutine and the pump, 6 keys, 2 subscriptions, 1 frame in flight, the end of the connection | the registry's invariants, who hears a frame, when a dispatch ends (finding 15) |
| `subs_deaf` | 2 goroutines, 1 key, no dispatch | finding 5 |
| `subs_trades` | 1 goroutine and the pump, the key of a trades feed | finding 7 |
| `backoff_delays` | 16 bits, tenths of a second, 20 failures, give-up after 18 | delays (findings 6 and 16) and number of timers armed |
| `trade_safety` | 2 goroutines, 3 calls, 2 coins on 2 dexes, 3 resting orders, positions within 2; no address, an account, or an account and a vault | the promise `Exposure`; batches, cancels (finding 17) and checks |
| `action_safety` | a default universe and one of a builder dex; every verb on its own, and a cancel beside a delegation; a vault or none; a deadline or none; 2 ticks of half a millisecond; 4 decimals | names, assets, numbers, signatures, nonces and reports (findings 8 to 12) |

Why these bounds are enough to be of interest: two connections are a loss and a
reconnect, the only relation between generations being that of a connection to
its successor; two callers and two timer goroutines let every pair of methods, and
a callback that overlaps its successor, interleave; two requests of either goroutine
let a late answer of the first meet the next request of the same goroutine or one of
the other, and of two connections the second is dialled by a Connect of a caller or a
callback, in time or behind a `Close`. Two subscriptions over six
keys let two listeners share a key, differ in what the matching cannot see, or be
removed by one another's callbacks; the goroutine and the callback are the two writers that
`writeMu` needs; of the frames in flight the pump sees one at a time,
and what is queued behind it changes only when it is read;
a 16-bit word overflows at the thirteenth failure, well within the
twenty modelled, as the program's 64-bit word does at the thirty-fifth, and at the
fifteenth the sum with the jitter wraps too. Three calls of
two goroutines let an order rest, then be cancelled or its position closed while the
other goroutine refreshes the shared cache or places; a bracket of three requests
fills the book; a position of two lots can be closed in part and can be passed through.

Three constraints keep TLC from looking at the same thing twice. `FirstPostsFirst` has the
first of two interchangeable goroutines call first, and `FirstKeysFirst` has the first of two
interchangeable keys of a type subscribed first; `NotCrashed` stops at a crash, after which
nothing happens. `FirstKeysFirst` is a bound too: of two subscriptions of different types the
second is of a book. `ConnectPass` has one more in its guard: behind a `Close` a Connect
comes only while there is a connection left to dial.

In `action_safety` the universes hold one of each kind of name and each way they
collide: a spot pair whose base token is not listed, outcomes of one question that share
a name, a perp with the friendly name of an outcome. The orders have sizes with and
without decimals and with trailing tens, prices between two ticks and half way between
two figures, and mid prices on both sides of the coarse tick; one perp has so many size
decimals that its prices are whole, and is bought at a price with trailing tens and at one
that rounds to nothing. Two calls and two ticks
let nonces be equal with equal and with different times, and taken in one order and sent in
the other; that all verbs go through the same steps is what makes every verb on its own,
and one pair of the two schemes, enough. Every safety property and every promise of a
passing run is also proved for every value of the constants (section 5), so that the
bounds matter for liveness, and for the properties that are violated.

Deadlock checking is off where the program may stop for good: after `Close`, after
it gave up, when the bounded scripts or calls end, or in the deadlocks that the findings
describe. `StreamBackoff` never stops and is checked for deadlock.

Fairness: every goroutine that runs makes progress, and an armed timer fires (weak
fairness of each goroutine's steps). The Go scheduler runs every runnable goroutine,
and its mutexes do not starve a waiter. Nothing is assumed of the application, the
server or the network. In `StreamPost` goroutines inside `Post`, whose timer runs once
their frame is written, the Connect that holds `connMu` and the read pump are fair; the two
steps of `Post` that take a mutex are strongly fair, because Connects that fail and retry
free `connMu` again and again. In `StreamDispatch` the read pump and the goroutines inside
`Subscribe` or `Subscription.Close` are weakly fair, which is enough there since each
subscription writes two frames at most. In both, a `WriteMessage` on a socket that still
works is not fair at all: it has no deadline, and takes as long as the peer does not read.
Nor does a Connect have to come, or `Close`.
`StreamConn` lets every write return: its liveness properties wait only for writes on
connections that are lost or closed, and those fail.

## 4. Findings

Where the code does something else than a comment or a document says. A finding has a
violated property whose counterexample is the schedule, or a property that holds and
names the exception, so that the run shows both that it happens and that nothing else does.

1. `ReconnectResubscribes` (violated): a reconnect with one live subscription locks
   itself out.
2. `ConnectReturns` (violated): `Connect` waits for a read pump that waits for `connMu`.
3. `CloseReturnsUnlessBlocked`: a `Connect` past its check of `closed` revives a closed
   client, or, when its pumps start before `Close` has waited, keeps `Close` waiting.
4. `NoSendOnClosed` (violated): a response racing with `Close` is sent on a closed channel.
5. `NoDeafListener` (violated): an unsubscribe frame overtakes a new listener's subscribe
   frame.
6. `DelayMatchesIdeal`: the delay doubles only until the product overflows. Then it drops
   to its floor, and goes up and down between floor and cap until the product is 0.
7. `ListenersAreServed` (violated): callbacks of `Trades(coin)` never run, because an
   array does not decode into a coin and a user.
8. `NumbersArrive`: a size of 100 of an asset without size decimals is sent as 1.
9. `NumbersArrive`: so does a whole price: a limit of 10 of an asset of six size decimals or
   more is sent as 1, and one that rounds to 0 as an empty string.
10. `VerifiesExactly`: an L1 action signed with a deadline is posted without it.
11. `ActionsHitTheirCoin`: `Modify` sends a blank coin, which is asset 0.
12. `NumbersArrive`: market prices are rounded to a tick chosen by the number of the asset,
    so that a cheap perp's price becomes 0.
13. `PostReturns`: a `Post` has no timer until its frame is written, and may wait for ever
    behind a Connect that locked itself out, or for a peer that does not read.
14. `NoWaiterAfterDrain`: on a client that a Connect has revived (3), a `Post` waits for its
    timer on a channel that the drain has missed.
15. `DispatchEnds`: a Connect past its check of `closed` and a callback that subscribes or
    closes a subscription wait for one another, after `Close` has lowered the flag.
16. `DelayInRange`: the sum of back-off and jitter wraps at two attempts past the overflow,
    and a timer may then sleep for centuries.
17. `CancelsWhatItReports`: `CancelAll` of a client that was given no address lists the
    orders of an empty one, cancels nothing and reports success.

`PROJECT.json` quotes the lines. Met on the way, with no run of their own:

* Some verbs hash the empty vault on a client whose envelopes name one: `DepositToVault`,
  `WithdrawFromVault`, `SetReferrer`, `UseBigBlocks`, sub-account creation and USD
  transfers, `SpotDeployRegisterToken`. `VerifiesExactly` names them by `action.vault`.
* Candle frames carry their coin as `s`, and `userEvents` and `notification` frames no user,
  so filters with a key never match them; `Legible` names the types.
* A second closer of a `Subscription` returns while the listener is still registered.
* A price of 0 goes out for a `Market` spec of a batch (`NumbersArrive`, kind `batch`).
* `Convert` sizes at one mid price and limits at a later one, five per cent off.
* `SetLeverage` returns no error when the exchange refuses (`ReportIsReal`).
* `ApproveAgent("")` still sends `agentName` (`trade/account.go:225`).
* `docs/errors.md` promises `unknown_coin` where cancel and modify take asset 0.
* `docs/trading.md` calls `ClosePosition` immediate-or-cancel; it sends good-til-cancel.
* `PlaceMarket` of a friendly outcome name asks for the mid price of that name, which is
  not a coin the exchange quotes (`Quoted`).

## 5. Proofs

`StreamConn_proofs` proves for every set of callers and timer goroutines, every
script and every bound, from the four assumptions of `StreamConn` on its constants
(`CallersAssumption`, `TimersAssumption`, `ScriptsAssumption`, `BoundsAssumption`: the
constants have the types their comments say), that `TypeOK`, `OneWriter`,
`OnePumpGeneration`, `NoSocketLeak`, `ConnectedIsWatched` and `ReconnectNotLost` are
invariants of `Spec`.

None of them is inductive. `IInv` adds what each argument needs:

* `LockInv` - who is inside a critical section owns its mutex; gives `OneWriter`;
* `KindInv` - a goroutine stays in its own kind's code, so that a pump never dials;
* `PumpInv` - only the last connection's pumps run, and none runs between the wait of
  `Connect` and its spawn: a generation starts after the previous one has ended;
* `SocketInv` - `c.conn` is nil from the wait to the dial, and is otherwise the last
  connection; gives `NoSocketLeak` and, with `PumpInv`, `OnePumpGeneration`;
* `WatchInv` - a raised flag has a read pump that has yet to lower it, or a `Connect`
  between its dial and its spawn; gives `ConnectedIsWatched`;
* `ResubInv` - while `resubscribeAll` runs, the read pump of the new connection
  cannot pass `connMu`: a failed `Connect` finds it still there, which is why a
  caller's failed reconnect does not lose the retry (`ReconnectNotLost`).

Each part has one lemma with a step per action. TLC checks `IInv` on the instance of
`conn_safety` too, which is how the strengthening was found.

The first part of `StreamDispatch_proofs` is about the registry, `StreamSubs`: `TypeOK`,
`RegistryIsExact`, `CloseIsIdempotent` and `NoOrphanedStream`, for every set of goroutines
and keys and every bound. What it adds:

* `IdInv` - ids are given in order, and an id not given yet names no listener;
* `OwnerInv` - at most one goroutine removes a listener, which is still registered
  until it does: of several closers only the first gets to the registry;
* `ServerInv` - without a working connection the server streams nothing; a frame that is
  sent while it works changes the server as it changes who owes one.

`StreamPost_proofs` proves `TypeOK`, `TableIsExact`, `OwnAnswer` and `NoWaiterAfterDrain`
and that `StreamPost` implements `RequestReply`, for every number of goroutines, calls and
connections. A channel gets its own answer because an id has one request for ever:

* `IdInv` - ids are given in order, and no two calls at work share one;
* `FrameInv` - a frame, however old, carries the request of the call that has its id, if
  that call still runs, and the server has seen it;
* `ChannelInv` - what a channel holds, or the pump is about to send, was served;
* `CallInv` - a call is open until it ends, which makes each of its steps a step of the
  promise;
* `ClosedInv` - once `Close` has begun, the flag is down or a Connect has overtaken it; so a
  `Post` that passes its check after the drain does so behind such a Connect, and every
  other one was in the table and has its channel closed, which gives `NoWaiterAfterDrain`.

That the program may crash (`NoSendOnClosed`) does not weaken them: they speak of every
state up to the crash.

`StreamBackoff_proofs` proves `TypeOK`, `DelayInRange`, `RetriesAreCapped` and
`DelayMatchesIdeal` for every word width and every durations of which the cap with its jitter
fits the word (`WordAssumption`). In a long row of failures the product wraps to any
integer of the word. The cap comes after that wrap, so that the sum with the jitter cannot
leave the word at its upper end; at its lower end it can, where the product is within a
fifth of the least value (`SumMayWrap`), and then it lands in the upper fifth. Any other sum
meets the floor as it is. While the ideal product fits the word, neither the shift nor the product wraps,
which needs what `NumberLemmas` shows of `Power`: it unfolds, it grows, and powers of sums
are products. Nothing is assumed of powers.

The second part of `StreamDispatch_proofs` proves that `StreamDispatch` implements
`StreamSubs` (each step of the pump is a step of the registry or leaves it alone), that
the registry's invariants therefore hold with dispatch and callbacks running, and that
`DispatchTypeOK`, `CrosstalkIsKnown`, `LegibleFeedsAreServed` and `RemovedHearsNothing`
are invariants, for every set of filters the constructors make. What it adds:

* nothing is copied while nothing is in hand, and the pump has a call in the registry
  only within a callback;
* a copied id matched the frame when it was copied, and an id's key never changes;
* a removed id stays removed, which is why the copy made after `Read` cannot hold one.

`TradeClient_proofs` proves `TypeOK`, `BatchIsAtomic`, `ChecksHaveState` and
`CancelsWhatItReports`, and that `TradeClient` implements `Exposure`, for every set of
goroutines, specs, coins and bounds. It rests on the assumptions of `OrderSpecs` and
`TradeClient` on the types of their constants, on `OpeningAssumption` (a spec of the
application is not a close, for which there is no constructor) and on `StartsAssumption`
(the account starts within the bound on positions). For the four invariants it adds:

* `CallInv` - a spec that waits for its snapshot is still there and names a known coin;
* `BookInv` - order ids are given in order, so that no new order takes the id of one
  that somebody asked to cancel;
* `FetchInv` - who is about to store has a snapshot, and a stored one is never dropped;
* `CancelInv` - from `CancelAll`'s call to its listing every order it is to cancel is on
  the default dex and of a coin it keeps, and after a listing of the account it trades
  for each one is a target or is gone.

That no more is traded than was asked (`TradeKeepsPromise`) is an argument of accounting.
An order of size n that may open a position stands for n units, `<<id, 1>>` to `<<id, n>>`
while it is in the book and `<<goroutine, i, 1>>` to `<<goroutine, i, n>>` while it is the
i-th request of an action on its way. Sets of units need no sums over the book:

* `LedgerInv` - on each side of a coin, what was traded, the units in the book and the units
  on their way are together at most what was asked; each step moves units, or drops them;
* `CloseInv` - what `ClosePosition` hands to `place` is reduce-only, and
  `PositionInv` - positions stay within their bound, so that a fill that reduces
  brings the position nearer to zero.

Then every fill is either one that the ledger has room for or one that reduces, which are
the two steps of `Exposure`, and every other step leaves positions alone.

`LegsLeaveTheEntry` is about `OrderSpecs` alone: what passes `validate` with a price
gets legs that leave its own entry. Without a price (a `Market` spec in a batch)
`validateBracket` compares nothing, and the theorem says nothing.

`AssetRegistry_proofs` proves, for whatever `/info` lists (`UniversesAssumption`: a pinned
dex is listed, and the two sides of an outcome have names of their own), that
`RegistryTypeOK`, `NamesResolve` and `BucketsStayApart` are invariants of `RegistrySpec`,
in the middle of `New` as after it. What it adds:

* `TableInv` - what the tables hold of a name is of its last registration; `FilledInv` -
  every registered name is there;
* the look-up then ends where it should because the coin of a perp or spot pair is its
  only name, and the coin of an outcome side, its canonical name, belongs to one asset and
  is registered after all perps and spot pairs;
* labels made of distinct thresholds differ, so that a bucket name has one owner.

`ActionPipeline_proofs` proves `PipelineTypeOK`, `VerifiesExactly`, `NonceRefusal`,
`ActionsHitTheirCoin`, `NumbersArrive` and `ReportIsReal`, and the registry's two
properties, for every number of calls, whatever is listed and whatever is ordered. The
argument:

* `Formed` and `Intended` (`Targeted`, the asset, and `Priced`, the numbers) are all that
  is asked of a verb, and each of the verbs is shown to have them: an action of the user
  signs the fields it sends, its stamp and the chain; an L1 action has no type of the
  user's; the asset comes from the tables, or is 0 for a blank or unknown coin
  (`BlankAssumption`: nothing is listed without a name);
* `Sent` - what was posted is made of the action, its nonce, the client's vault and some
  deadline; against what the exchange recomputes this gives `VerifiesExactly`;
* `Untouched` - a call keeps its invariant while others move, since the tables stand once
  the client is made;
* `NonceInv` - a nonce that the exchange has used belongs to a call that it accepted; with
  the division of the clock this gives `NonceRefusal`.

`NumbersArrive` (`NumbersSent`) is about the roundings in a row that make a number ready
for the wire. Each ends on a multiple of its step at most half a step away (`NearestIs`)
and leaves a multiple of its step alone (`NearestExact`). All steps are powers of ten, and
of two powers of ten one divides the other (`StepDivides`). A size that `validate` took is
a multiple of its lot, and a price that it took has five figures or fewer: of these the
only rounding that bites is the one to the decimals that are printed, at most half a
decimal away. A market price is rounded to five figures, to its decimals and to the tick
of its asset before it gets there, which adds up to its larger error, and is then a
multiple of both its last steps. A number printed with decimals loses nothing to `Trim`,
and a whole one becomes nothing or loses a factor of ten at least (`TrimWhole`).

No theorem states the liveness properties, which are beyond the prover: `LossIsResolved`,
`CloseReturnsUnlessBlocked`, `PostReturns` and `DispatchEnds` are TLC's alone. What
recursive functions compute (`Power`, and least elements found by `CHOOSE`) is proved from
their unfolding and by induction over the set of numbers for which a fact holds, which
needs no theorem with an operator for a parameter.

## 6. Not modelled

* Contents of frames beyond what the matching reads, JSON decoding, web data, loggers,
  dialling options; a missed read deadline is a failed read.
* `Client.Close` and `Post` from within a callback.
* Pings and `Post` beside the frames of subscriptions, in `StreamSubs`, and pings beside
  `Post`, in `StreamPost`: all of them take `writeMu` and `connMu` alike, and `StreamConn` has
  them side by side. What they add is one more writer for a Connect to wait for or behind.
* The HTTP client: one POST, no retry, no timeout of its own; its loss of a request or an
  answer is `Lose`.
* Hashing and curves: `ActionHash` and `HashStructLenient` are the tuples of their inputs.
* Info queries: one round-trip each, with no state but what `AssetRegistry` keeps.
* Of orders: builders and groupings, which no step of the client reads back; client order
  ids are opaque; several orders of one `order` action are in `TradeClient` only.
* `CancelAll` against orders of a builder dex: `CancelsWhatItReports` speaks of the default
  dex, the only one it lists, where the comment promises "everything across every asset".
* The misuse panic of `sync.WaitGroup` when `Add` of a `Connect` meets the `Wait` of a `Close`.

## 7. Plan

In this order:

1. Client order ids, groupings and builders in `OrderActions`, with the exchange's answer
   per order, so that the statuses of a batch can be related to its orders.
2. `CancelAll` on builder dexes, and a listing that is stale by more than one step.
3. A callback that calls `Client.Close` or `Post`, in a composition of `StreamDispatch`
   with `StreamConn`.
4. Web data and the snapshots that the info queries decode, as far as a property can be
   stated of them.
