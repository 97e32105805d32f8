------------------------------ MODULE StreamConn ------------------------------
(***************************************************************************)
(* Connection life cycle of stream.Client (src/stream/stream.go and        *)
(* reconnect.go): Connect, Close, the read and ping pumps of each          *)
(* connection, the reconnect timer, and every goroutine that writes a      *)
(* frame with writeJSON.                                                   *)
(*                                                                         *)
(* Each goroutine has a program counter.  A step runs from one access to   *)
(* shared state (a lock, an atomic flag, the wait group, the socket) to    *)
(* the next.  Critical sections of reconnectMu and of connMu.RLock contain *)
(* no blocking call, so each of them is a single step; connMu.Lock and     *)
(* writeMu are held over several steps and have an owner.  What the frames *)
(* carry and what the server answers is left to StreamSubs and StreamPost. *)
(***************************************************************************)
EXTENDS Naturals, Sequences

CONSTANTS
    Callers,      \* application goroutines, numbered
    Scripts,      \* Scripts[c]: for each call of c, the set of methods it may choose
    Timers,       \* goroutines in which AfterFunc callbacks may run, numbered
    MaxAttempts,  \* maxReconnectAttempts; 0 means retry for ever
    PromptTimer,  \* TRUE: the delay of at least 1s outlasts the few statements
                  \* between a check and the locked access that follows it
    MaxConns,     \* bound: connections that are ever established
    MaxPings,     \* bound: pings sent on each connection
    AttemptCap    \* bound: reconnectAttempts saturates here

Methods == {"connect", "subscribe", "unsubscribe", "post", "close"}

ASSUME CallersAssumption == Callers \subseteq Nat
ASSUME TimersAssumption  == Timers \subseteq Nat
ASSUME ScriptsAssumption == Scripts \in [Callers -> Seq(SUBSET Methods)]
ASSUME BoundsAssumption  ==
    /\ MaxConns \in Nat /\ MaxPings \in Nat
    /\ MaxAttempts \in Nat /\ AttemptCap \in Nat /\ AttemptCap > MaxAttempts
ASSUME PromptAssumption == PromptTimer \in BOOLEAN

Gens     == 1..MaxConns
CallerP  == {"call"} \X Callers
TimerP   == {"timer"} \X Timers
ReaderP  == {"read"} \X Gens
PingerP  == {"ping"} \X Gens
PumpP    == ReaderP \cup PingerP
Procs    == CallerP \cup TimerP \cup PumpP
Free     == <<"free", 0>>            \* the owner of a mutex nobody holds

Reader(g) == <<"read", g>>
Pinger(g) == <<"ping", g>>

VARIABLES
    conn,       \* c.conn: the number of the connection, 0 when nil
    connected,  \* c.connected
    closed,     \* c.closed
    gen,        \* connections established so far; c.cancel belongs to the last
    open,       \* connections whose socket still works
    cancelled,  \* connections whose context was cancelled
    connMu,     \* holder of connMu.Lock
    writeMu,    \* holder of writeMu
    timer,      \* reconnectTimer is armed
    attempts,   \* reconnectAttempts
    once,       \* closeOnce: "new", "running", "done"
    listeners,  \* callers with a registered subscription, each under its own key
    todo,       \* keys resubscribeAll has still to send
    pc,         \* pc[p]: what goroutine p does next; "idle" when it does not run
    op,         \* op[p]: the operation that called writeJSON or Connect
    held,       \* held[p]: the connection p copied from c.conn
    calls,      \* calls[c]: calls caller c has made
    pings       \* pings[g]: pings sent on connection g

connVars  == <<conn, gen, open, cancelled>>
lockVars  == <<connMu, writeMu>>
retryVars == <<timer, attempts>>
lifeVars  == <<closed, once>>
subVars   == <<listeners, todo>>
budget    == <<calls, pings>>
vars == <<connVars, connected, lockVars, retryVars, lifeVars, subVars, budget,
          pc, op, held>>

Ops     == Methods \cup {"none", "ping"}
Labels  == {"idle",
            "cClosed", "cConnected", "cLock", "cWait", "cDial", "cSpawn",
            "cResub", "cFail",
            "wLock", "wCheck", "wRLock", "wSend", "uRollback",
            "xOnce", "xTimer", "xConn", "xWait",
            "rConn", "rRead", "hClosed", "hFlag", "hLock",
            "sClosed", "sArm", "tCheck", "pTick"}

TypeOK ==
    /\ conn \in 0..MaxConns /\ gen \in 0..MaxConns
    /\ open \subseteq Gens /\ cancelled \subseteq Gens
    /\ connected \in BOOLEAN /\ closed \in BOOLEAN /\ timer \in BOOLEAN
    /\ connMu \in Procs \cup {Free} /\ writeMu \in Procs \cup {Free}
    /\ attempts \in 0..AttemptCap
    /\ once \in {"new", "running", "done"}
    /\ listeners \subseteq Callers /\ todo \subseteq Callers
    /\ pc \in [Procs -> Labels] /\ op \in [Procs -> Ops]
    /\ held \in [Procs -> 0..MaxConns]
    /\ calls \in [Callers -> Nat] /\ pings \in [Gens -> Nat]

(***************************************************************************)
(* New: no connection, nothing running.                                    *)
(***************************************************************************)
Init ==
    /\ conn = 0 /\ gen = 0 /\ open = {} /\ cancelled = {}
    /\ connected = FALSE /\ closed = FALSE /\ once = "new"
    /\ connMu = Free /\ writeMu = Free
    /\ timer = FALSE /\ attempts = 0
    /\ listeners = {} /\ todo = {}
    /\ pc = [p \in Procs |-> "idle"] /\ op = [p \in Procs |-> "none"]
    /\ held = [p \in Procs |-> 0]
    /\ calls = [c \in Callers |-> 0] /\ pings = [g \in Gens |-> 0]

At(p, label)   == pc[p] = label
Goto(p, label) == pc' = [pc EXCEPT ![p] = label]

\* c.wg counts the pumps that have not returned.
PumpsDone == \A q \in PumpP : pc[q] = "idle"

\* c.conn.Close(); c.conn = nil, a no-op when c.conn is nil.
DropConn == open' = open \ {conn} /\ conn' = 0

\* Mutant: the nil check before c.cancel() is dropped.
CancelPumps_NilCall == cancelled' = cancelled \cup {gen}

\* c.cancel(), a no-op before the first connection.
CancelPumps == cancelled' = cancelled \cup (Gens \cap {gen})

(***************************************************************************)
(* Application goroutines.  A caller starts a method of the client; a      *)
(* Subscribe registers its listener before it sends, an unsubscribe drops  *)
(* it before it sends.                                                     *)
(***************************************************************************)
CallMethod(c, m) ==
    LET p == <<"call", c>> IN
    /\ At(p, "idle")
    /\ calls[c] < Len(Scripts[c]) /\ m \in Scripts[c][calls[c] + 1]
    /\ calls' = [calls EXCEPT ![c] = @ + 1]
    /\ op' = [op EXCEPT ![p] = m]
    /\ \/ /\ m = "connect"
          /\ Goto(p, "cClosed") /\ UNCHANGED listeners
       \/ /\ m = "close"
          /\ Goto(p, "xOnce") /\ UNCHANGED listeners
       \/ /\ m = "post" /\ connected       \* Post refuses to start otherwise
          /\ Goto(p, "wLock") /\ UNCHANGED listeners
       \/ /\ m = "subscribe" /\ c \notin listeners
          /\ listeners' = listeners \cup {c} /\ Goto(p, "wLock")
       \/ /\ m = "unsubscribe" /\ c \in listeners
          /\ listeners' = listeners \ {c} /\ Goto(p, "wLock")
    /\ UNCHANGED <<connVars, connected, lockVars, retryVars, lifeVars, todo,
                   pings, held>>

\* A Subscribe whose frame could not be sent removes its listener again.
SubscribeRollback(p) ==
    /\ At(p, "uRollback")
    /\ listeners' = listeners \ {p[2]}
    /\ Goto(p, "idle")
    /\ UNCHANGED <<connVars, connected, lockVars, retryVars, lifeVars, todo,
                   budget, op, held>>

-------------------------------------------------------------------------------
(***************************************************************************)
(* Connect.  It runs in a caller or in a timer callback; a failed Connect  *)
(* of a timer callback goes on to scheduleReconnect.                       *)
(***************************************************************************)
\* Mutant: a timer callback whose Connect failed does not schedule another.
AfterFailure_NoRetry(p) == "idle"

AfterFailure(p) == IF p \in TimerP THEN "sClosed" ELSE "idle"

ConnectClosedCheck(p) ==
    /\ At(p, "cClosed")
    /\ Goto(p, IF closed THEN AfterFailure(p) ELSE "cConnected")
    /\ UNCHANGED <<connVars, connected, lockVars, retryVars, lifeVars, subVars,
                   budget, op, held>>

ConnectFlagCheck(p) ==
    /\ At(p, "cConnected")
    /\ Goto(p, IF connected THEN "idle" ELSE "cLock")
    /\ UNCHANGED <<connVars, connected, lockVars, retryVars, lifeVars, subVars,
                   budget, op, held>>

\* connMu.Lock, the second check, and the clean-up of the old connection.
ConnectLock(p) ==
    /\ At(p, "cLock") /\ connMu = Free
    /\ \/ /\ conn # 0 /\ connected
          /\ Goto(p, "idle") /\ UNCHANGED <<connVars, connMu>>
       \/ /\ conn = 0 \/ ~connected
          /\ connMu' = p /\ DropConn /\ CancelPumps /\ UNCHANGED gen
          /\ Goto(p, IF gen = 0 THEN "cDial" ELSE "cWait")
    /\ UNCHANGED <<connected, writeMu, retryVars, lifeVars, subVars, budget, op,
                   held>>

\* Mutant: Connect dials without waiting for the pumps it cancelled.
ConnectWait_NoWait(p) ==
    /\ At(p, "cWait")
    /\ Goto(p, "cDial")
    /\ UNCHANGED <<connVars, connected, lockVars, retryVars, lifeVars, subVars,
                   budget, op, held>>

\* wg.Wait, with connMu held.
ConnectWait(p) ==
    /\ At(p, "cWait") /\ PumpsDone
    /\ Goto(p, "cDial")
    /\ UNCHANGED <<connVars, connected, lockVars, retryVars, lifeVars, subVars,
                   budget, op, held>>

ConnectDialOk(p) ==
    /\ At(p, "cDial") /\ gen < MaxConns
    /\ gen' = gen + 1 /\ conn' = gen + 1 /\ open' = open \cup {gen + 1}
    /\ connected' = TRUE
    /\ Goto(p, "cSpawn")
    /\ UNCHANGED <<cancelled, lockVars, retryVars, lifeVars, subVars, budget, op,
                   held>>

ConnectDialFail(p) ==
    /\ At(p, "cDial")
    /\ connMu' = Free
    /\ Goto(p, AfterFailure(p))
    /\ UNCHANGED <<connVars, connected, writeMu, retryVars, lifeVars, subVars,
                   budget, op, held>>

\* The attempts are reset, both pumps start, resubscribeAll copies the keys.
ConnectSpawn(p) ==
    /\ At(p, "cSpawn")
    /\ attempts' = 0
    /\ pc' = [pc EXCEPT ![p] = "cResub", ![Reader(gen)] = "rConn",
                        ![Pinger(gen)] = "pTick"]
    /\ todo' = listeners
    /\ UNCHANGED <<connVars, connected, lockVars, timer, lifeVars, listeners,
                   budget, op, held>>

ConnectResub(p) ==
    /\ At(p, "cResub")
    /\ \/ /\ todo = {}
          /\ connMu' = Free /\ Goto(p, "idle") /\ UNCHANGED todo
       \/ \E c \in todo : /\ todo' = todo \ {c} /\ Goto(p, "wLock")
                          /\ UNCHANGED connMu
    /\ UNCHANGED <<connVars, connected, writeMu, retryVars, lifeVars, listeners,
                   budget, op, held>>

\* resubscribeAll failed: Connect undoes the connection and returns an error.
ConnectTeardown(p) ==
    /\ At(p, "cFail")
    /\ connected' = FALSE /\ CancelPumps /\ DropConn /\ connMu' = Free
    /\ Goto(p, AfterFailure(p))
    /\ UNCHANGED <<gen, writeMu, retryVars, lifeVars, subVars, budget, op, held>>

-------------------------------------------------------------------------------
(***************************************************************************)
(* writeJSON, on behalf of op[p].                                          *)
(***************************************************************************)
\* Where the caller of writeJSON goes on after an error, and after success.
WriteFailed(o) ==
    CASE o = "ping"      -> "pTick"
      [] o = "connect"   -> "cFail"
      [] o = "subscribe" -> "uRollback"
      [] OTHER           -> "idle"

WriteDone(o) ==
    CASE o = "ping"    -> "pTick"
      [] o = "connect" -> "cResub"
      [] OTHER         -> "idle"

WriteReturn(p, label) == writeMu' = Free /\ Goto(p, label)

\* Mutant: writeJSON writes without taking writeMu.
WriteLock_NoMutex(p) ==
    /\ At(p, "wLock")
    /\ writeMu' = p
    /\ Goto(p, "wCheck")
    /\ UNCHANGED <<connVars, connected, connMu, retryVars, lifeVars, subVars,
                   budget, op, held>>

WriteLock(p) ==
    /\ At(p, "wLock") /\ writeMu = Free
    /\ writeMu' = p
    /\ Goto(p, "wCheck")
    /\ UNCHANGED <<connVars, connected, connMu, retryVars, lifeVars, subVars,
                   budget, op, held>>

WriteCheck(p) ==
    /\ At(p, "wCheck")
    /\ \/ connected /\ Goto(p, "wRLock") /\ UNCHANGED writeMu
       \/ ~connected /\ WriteReturn(p, WriteFailed(op[p]))
    /\ UNCHANGED <<connVars, connected, connMu, retryVars, lifeVars, subVars,
                   budget, op, held>>

\* connMu.RLock: it waits for the holder of connMu, even when that is p.
WriteRLock(p) ==
    /\ At(p, "wRLock") /\ connMu = Free
    /\ \/ /\ conn = 0
          /\ WriteReturn(p, WriteFailed(op[p])) /\ UNCHANGED held
       \/ /\ conn # 0
          /\ held' = [held EXCEPT ![p] = conn]
          /\ Goto(p, "wSend") /\ UNCHANGED writeMu
    /\ UNCHANGED <<connVars, connected, connMu, retryVars, lifeVars, subVars,
                   budget, op>>

WriteSend(p) ==
    /\ At(p, "wSend")
    /\ WriteReturn(p, IF held[p] \in open THEN WriteDone(op[p]) ELSE WriteFailed(op[p]))
    /\ held' = [held EXCEPT ![p] = 0]
    /\ UNCHANGED <<connVars, connected, connMu, retryVars, lifeVars, subVars,
                   budget, op>>

-------------------------------------------------------------------------------
(***************************************************************************)
(* Close.                                                                  *)
(***************************************************************************)
CloseOnce(p) ==
    /\ At(p, "xOnce")
    /\ \/ /\ once = "new"
          /\ once' = "running" /\ closed' = TRUE /\ connected' = FALSE
          /\ Goto(p, "xTimer")
       \/ /\ once = "done"
          /\ Goto(p, "idle") /\ UNCHANGED <<lifeVars, connected>>
    /\ UNCHANGED <<connVars, lockVars, retryVars, subVars, budget, op, held>>

CloseTimer(p) ==
    /\ At(p, "xTimer")
    /\ timer' = FALSE
    /\ Goto(p, "xConn")
    /\ UNCHANGED <<connVars, connected, lockVars, attempts, lifeVars, subVars,
                   budget, op, held>>

\* Mutant: Close closes the socket but does not cancel the pumps' context.
CloseConn_NoCancel(p) ==
    /\ At(p, "xConn") /\ connMu = Free
    /\ DropConn
    /\ Goto(p, "xWait")
    /\ UNCHANGED <<gen, cancelled, connected, lockVars, retryVars, lifeVars,
                   subVars, budget, op, held>>

\* Mutant: Close forgets the connection without closing it.
CloseConn_NilOnly(p) ==
    /\ At(p, "xConn") /\ connMu = Free
    /\ CancelPumps /\ conn' = 0
    /\ Goto(p, "xWait")
    /\ UNCHANGED <<gen, open, connected, lockVars, retryVars, lifeVars, subVars,
                   budget, op, held>>

CloseConn(p) ==
    /\ At(p, "xConn") /\ connMu = Free
    /\ CancelPumps /\ DropConn
    /\ Goto(p, "xWait")
    /\ UNCHANGED <<gen, connected, lockVars, retryVars, lifeVars, subVars,
                   budget, op, held>>

CloseWait(p) ==
    /\ At(p, "xWait") /\ PumpsDone
    /\ once' = "done"
    /\ Goto(p, "idle")
    /\ UNCHANGED <<connVars, connected, lockVars, retryVars, closed, subVars,
                   budget, op, held>>

-------------------------------------------------------------------------------
(***************************************************************************)
(* The pumps of a connection, handleDisconnect and scheduleReconnect.      *)
(***************************************************************************)
ReadStart(g) ==
    LET p == Reader(g) IN
    /\ At(p, "rConn") /\ connMu = Free
    /\ held' = [held EXCEPT ![p] = conn]
    /\ Goto(p, IF conn = 0 THEN "hClosed" ELSE "rRead")
    /\ UNCHANGED <<connVars, connected, lockVars, retryVars, lifeVars, subVars,
                   budget, op>>

\* ReadMessage fails: the peer or the network dropped the socket, the read
\* deadline passed, or somebody closed the connection.
ReadFail(g) ==
    LET p == Reader(g) IN
    /\ At(p, "rRead") /\ held[p] \notin open
    /\ held' = [held EXCEPT ![p] = 0]
    /\ Goto(p, "hClosed")
    /\ UNCHANGED <<connVars, connected, lockVars, retryVars, lifeVars, subVars,
                   budget, op>>

DisconnectClosedCheck(g) ==
    /\ At(Reader(g), "hClosed")
    /\ Goto(Reader(g), IF closed THEN "idle" ELSE "hFlag")
    /\ UNCHANGED <<connVars, connected, lockVars, retryVars, lifeVars, subVars,
                   budget, op, held>>

\* Mutant: handleDisconnect leaves the connected flag up.
DisconnectFlag_Kept(g) ==
    /\ At(Reader(g), "hFlag")
    /\ Goto(Reader(g), "hLock")
    /\ UNCHANGED <<connVars, connected, lockVars, retryVars, lifeVars, subVars,
                   budget, op, held>>

\* connected.Store(false), before and outside connMu.
DisconnectFlag(g) ==
    /\ At(Reader(g), "hFlag")
    /\ connected' = FALSE
    /\ Goto(Reader(g), "hLock")
    /\ UNCHANGED <<connVars, lockVars, retryVars, lifeVars, subVars, budget, op,
                   held>>

DisconnectLock(g) ==
    /\ At(Reader(g), "hLock") /\ connMu = Free
    /\ DropConn
    /\ Goto(Reader(g), "sClosed")
    /\ UNCHANGED <<gen, cancelled, connected, lockVars, retryVars, lifeVars,
                   subVars, budget, op, held>>

ScheduleClosedCheck(p) ==
    /\ At(p, "sClosed")
    /\ Goto(p, IF closed THEN "idle" ELSE "sArm")
    /\ UNCHANGED <<connVars, connected, lockVars, retryVars, lifeVars, subVars,
                   budget, op, held>>

\* Mutant: only the first failure arms the timer.
ScheduleArm_Once(p) ==
    /\ At(p, "sArm")
    /\ attempts' = IF attempts < AttemptCap THEN attempts + 1 ELSE attempts
    /\ timer' = (attempts = 0)
    /\ Goto(p, "idle")
    /\ UNCHANGED <<connVars, connected, lockVars, lifeVars, subVars, budget, op,
                   held>>

\* Under reconnectMu: stop the old timer, count, then arm a new one or give up.
\* For a reader this is the last step before wg.Done.
ScheduleArm(p) ==
    /\ At(p, "sArm")
    /\ attempts' = IF attempts < AttemptCap THEN attempts + 1 ELSE attempts
    /\ timer' = ~(MaxAttempts > 0 /\ attempts' > MaxAttempts)
    /\ Goto(p, "idle")
    /\ UNCHANGED <<connVars, connected, lockVars, lifeVars, subVars, budget, op,
                   held>>

\* The ticker of pingPump.
PingTick(g) ==
    LET p == Pinger(g) IN
    /\ At(p, "pTick") /\ pings[g] < MaxPings
    /\ pings' = [pings EXCEPT ![g] = @ + 1]
    /\ op' = [op EXCEPT ![p] = "ping"]
    /\ Goto(p, "wLock")
    /\ UNCHANGED <<connVars, connected, lockVars, retryVars, lifeVars, subVars,
                   calls, held>>

\* ctx.Done: only a cancelled context ends pingPump.
PingExit(g) ==
    /\ At(Pinger(g), "pTick") /\ g \in cancelled
    /\ Goto(Pinger(g), "idle")
    /\ UNCHANGED <<connVars, connected, lockVars, retryVars, lifeVars, subVars,
                   budget, op, held>>

-------------------------------------------------------------------------------
(***************************************************************************)
(* The reconnect timer and the network.                                    *)
(***************************************************************************)
Settled == \A q \in Procs : pc[q] \notin {"wCheck", "wRLock", "hFlag", "hLock"}

TimerFire(p) ==
    /\ At(p, "idle") /\ timer
    /\ PromptTimer => Settled
    /\ timer' = FALSE
    /\ op' = [op EXCEPT ![p] = "connect"]
    /\ Goto(p, "tCheck")
    /\ UNCHANGED <<connVars, connected, lockVars, attempts, lifeVars, subVars,
                   budget, held>>

TimerCheck(p) ==
    /\ At(p, "tCheck")
    /\ Goto(p, IF closed \/ connected THEN "idle" ELSE "cClosed")
    /\ UNCHANGED <<connVars, connected, lockVars, retryVars, lifeVars, subVars,
                   budget, op, held>>

\* The network or the server drops a connection.
Drop(g) ==
    /\ g \in open
    /\ open' = open \ {g}
    /\ UNCHANGED <<conn, gen, cancelled, connected, lockVars, retryVars, lifeVars,
                   subVars, budget, pc, op, held>>

-------------------------------------------------------------------------------
ConnectStep(p) ==
    \/ ConnectClosedCheck(p) \/ ConnectFlagCheck(p) \/ ConnectLock(p)
    \/ ConnectWait(p) \/ ConnectDialOk(p) \/ ConnectDialFail(p)
    \/ ConnectSpawn(p) \/ ConnectResub(p) \/ ConnectTeardown(p)

WriteStep(p) == WriteLock(p) \/ WriteCheck(p) \/ WriteRLock(p) \/ WriteSend(p)

CloseStep(p) == CloseOnce(p) \/ CloseTimer(p) \/ CloseConn(p) \/ CloseWait(p)

ScheduleStep(p) == ScheduleClosedCheck(p) \/ ScheduleArm(p)

ReaderStep(g) ==
    \/ ReadStart(g) \/ ReadFail(g) \/ DisconnectClosedCheck(g)
    \/ DisconnectFlag(g) \/ DisconnectLock(g) \/ ScheduleStep(Reader(g))

\* The steps a goroutine takes once it runs.
CallerStep(p) == ConnectStep(p) \/ WriteStep(p) \/ SubscribeRollback(p) \/ CloseStep(p)
TimerStep(p)  == TimerFire(p) \/ TimerCheck(p) \/ ConnectStep(p) \/ WriteStep(p)
                 \/ ScheduleStep(p)
PingerStep(g) == PingTick(g) \/ WriteStep(Pinger(g)) \/ PingExit(g)

Next ==
    \/ \E c \in Callers, m \in Methods : CallMethod(c, m)
    \/ \E p \in CallerP : CallerStep(p)
    \/ \E p \in TimerP : TimerStep(p)
    \/ \E g \in Gens : ReaderStep(g) \/ PingerStep(g)
    \/ \E g \in Gens : Drop(g)

Spec == Init /\ [][Next]_vars

(***************************************************************************)
(* Every goroutine that can run does run, and an armed timer fires.  The   *)
(* application need not call anything and the network need not drop.  A    *)
(* pump sends finitely many pings, callers make finitely many calls: weak  *)
(* fairness is enough to rule out starvation on a mutex, which Go's        *)
(* mutexes rule out too.                                                   *)
(***************************************************************************)
Fairness ==
    /\ \A p \in CallerP : WF_vars(CallerStep(p))
    /\ \A p \in TimerP : WF_vars(TimerStep(p))
    /\ \A g \in Gens : WF_vars(ReaderStep(g)) /\ WF_vars(PingerStep(g))

FairSpec == Spec /\ Fairness

-------------------------------------------------------------------------------
(***************************************************************************)
(* Properties.                                                             *)
(***************************************************************************)
Running(g) == pc[Reader(g)] # "idle" \/ pc[Pinger(g)] # "idle"

\* Pumps of two connections never run together, and what a pump holds is its
\* own connection: a late handleDisconnect can neither close a newer connection
\* nor lower its connected flag (readPump grabs the connection after its start,
\* handleDisconnect acts on whatever c.conn is).
OnePumpGeneration ==
    \A g \in Gens :
        Running(g) => g = gen /\ conn \in {0, g} /\ held[Reader(g)] \in {0, g}

\* A connection that c.conn no longer points to has been closed: reconnecting,
\* failing half-way and closing leak no socket.
NoSocketLeak == open \subseteq {conn}

\* gorilla/websocket allows one concurrent writer: no two goroutines are inside
\* conn.WriteMessage together.
OneWriter == \A p, q \in Procs : At(p, "wSend") /\ At(q, "wSend") => p = q

\* While the client claims to be connected and nobody is inside Connect, the
\* current connection has a read pump that has yet to lower the flag: a drop of
\* the connection cannot go unnoticed.
ConnectedIsWatched ==
    connected /\ ~closed /\ connMu = Free =>
        /\ conn # 0 /\ conn = gen
        /\ pc[Reader(gen)] \in {"rConn", "rRead", "hClosed", "hFlag"}

\* A client that lost its connection always has somebody who will try again: an
\* armed timer, a timer callback under way, a pump that will call
\* scheduleReconnect, a Connect that has dialled; or it has given up.
ReconnectNotLost ==
    gen > 0 /\ ~connected /\ ~closed =>
        \/ timer
        \/ MaxAttempts > 0 /\ attempts > MaxAttempts
        \/ \E p \in TimerP : ~At(p, "idle")
        \/ \E g \in Gens : ~At(Reader(g), "idle")

\* Goroutines that wait for connMu, directly or behind the holder of writeMu.
Blocked(q) ==
    \/ pc[q] \in {"rConn", "hLock", "wRLock"}
    \/ At(q, "wLock") /\ writeMu # Free /\ At(writeMu, "wRLock")

\* A Connect that will never release connMu: it asks for that lock again while it
\* resubscribes (stream.go:209), or waits for a pump that waits for it
\* (stream.go:172).
Deadlocked ==
    connMu # Free /\ \/ Blocked(connMu)
                     \/ At(connMu, "cWait") /\ \E q \in PumpP : Blocked(q)

\* Every loss of the connection ends: in a new connection, in Close or in giving
\* up after MaxAttempts (scheduleReconnect).  The one exception is a Connect that
\* has locked itself out for good, whoever called it.
LossIsResolved ==
    (gen > 0 /\ ~connected) ~>
        (connected \/ closed \/ (MaxAttempts > 0 /\ attempts > MaxAttempts)
         \/ []Deadlocked)

\* Close came to wait for the pumps, and a Connect that had passed its closed check
\* earlier has established a connection behind it.
Overtaken == conn # 0 /\ \E p \in CallerP : At(p, "xWait")

\* Close returns: the pumps it cancels and the mutexes it takes block it only when
\* it was overtaken by a Connect, or behind a Connect that never releases connMu.
CloseReturnsUnlessBlocked ==
    (once = "running") ~> (once = "done" \/ Overtaken \/ []Deadlocked)

Connecting(p) ==
    \/ pc[p] \in {"cClosed", "cConnected", "cLock", "cWait", "cDial", "cSpawn",
                  "cResub", "cFail"}
    \/ op[p] = "connect" /\ pc[p] \in {"wLock", "wCheck", "wRLock", "wSend"}

\* stream.go:145: Connect is safe to call several times; every call returns.
ConnectReturns == \A p \in CallerP : Connecting(p) ~> ~Connecting(p)

\* docs/stream.md:196: on a successful reconnect every callback is re-issued
\* before the call returns; a reconnecting Connect that has dialled returns.
ReconnectResubscribes == \A p \in TimerP : At(p, "cSpawn") ~> At(p, "idle")
===============================================================================
