------------------------------ MODULE StreamPost ------------------------------
(***************************************************************************)
(* POST requests over the stream (src/stream/post.go and the post branch   *)
(* of dispatch in stream.go): goroutines that call Post, the read pump     *)
(* that hands them their responses through buffered channels, Close, which *)
(* drains the requests in flight, and a server that may answer late, twice *)
(* or out of order, over connections that may break.                       *)
(*                                                                         *)
(* A request is <<poster, number>>; its channel is named by the request.   *)
(* Of the connection's life (StreamConn) this module keeps what a request  *)
(* can feel: the mutexes that writeJSON takes, the Connects that hold them *)
(* and may raise the flag behind Close, and the read pump they wait for.   *)
(* writeMu needs no variable: who holds it shows in its program counter.   *)
(* The ping pump, which writes the same way, is in StreamConn only.        *)
(***************************************************************************)
EXTENDS Naturals

CONSTANTS
    Posters,    \* goroutines that call Post
    MaxDials,   \* bound: Connects that wait for connMu together
    MaxPosts,   \* bound: calls of Post in all
    MaxConns,   \* bound: connections that are ever established
    None        \* no request, no message

ASSUME PostAssumption == MaxPosts \in Nat /\ MaxDials \in Nat /\ MaxConns \in Nat \ {0}
ASSUME NoneAssumption == None \notin Posters \X (1..MaxPosts)

Requests == Posters \X (1..MaxPosts)
Ids      == Nat \ {0}
Messages == [id : Ids, req : Requests]     \* a response frame: the id is echoed

VARIABLES
    connected,  \* c.connected
    conn,       \* c.conn: the number of the connection, 0 when nil
    gen,        \* connections established so far
    link,       \* the connection whose socket carries frames, 0 when none does
    passed,     \* Connects, of callers and timer callbacks, past their checks
    dial,       \* the Connect that holds connMu: "none", "wait" (for the pumps),
                \* "write" (resubscribes), "stuck" (in writeJSON, holding writeMu)
    pump,       \* the read pump of the last connection: "start", "reads", "lost"
                \* (handleDisconnect has lowered the flag), "gone"
    closing,    \* Close: "new", "drain", "conn", "done"
    overtaken,  \* history: a Connect raised the flag after Close had lowered it
    nextID,     \* c.nextPostID
    pending,    \* c.pendingRequests: id -> request whose channel is registered
    chan,       \* chan[r]: the response buffered in r's channel
    shut,       \* requests whose channel was closed
    pc,         \* pc[p]: where goroutine p is inside Post
    count,      \* count[p]: calls p has made
    id,         \* id[p]: the id of p's current request
    held,       \* held[p]: the connection p copied from c.conn, to write on
    outcome,    \* outcome[r]: "new", "open", then what Post returned: "answered"
                \* or "failed"
    answer,     \* answer[r]: the response Post returned for r
    asked,      \* server: requests received on this connection
    served,     \* server: requests received on any connection
    replies,    \* response frames in transit to the client
    reading,    \* read pump between lookup and send: the channel and the response
    panicked    \* the program crashed: send on a closed channel

dialVars  == <<passed, dial>>
connVars  == <<connected, conn, gen, link, dialVars, pump, overtaken>>
peerVars  == <<asked, served, replies>>
tableVars == <<nextID, pending>>
chanVars  == <<chan, shut>>
callVars  == <<count, id>>
endVars   == <<outcome, answer>>
vars == <<connVars, peerVars, closing, tableVars, chanVars, pc, callVars, held, endVars,
          reading, panicked>>

Request(p) == <<p, count[p]>>

PostLabels == {"idle", "register", "check", "rlock", "send", "wait", "cleanup"}

TypeOK ==
    /\ connected \in BOOLEAN /\ overtaken \in BOOLEAN /\ panicked \in BOOLEAN
    /\ conn \in 0..MaxConns /\ gen \in 0..MaxConns /\ link \in 0..MaxConns
    /\ passed \in 0..MaxDials /\ dial \in {"none", "wait", "write", "stuck"}
    /\ pump \in {"start", "reads", "lost", "gone"}
    /\ closing \in {"new", "drain", "conn", "done"}
    /\ nextID \in 0..MaxPosts
    /\ DOMAIN pending \subseteq Ids
    /\ \A i \in DOMAIN pending : pending[i] \in Requests
    /\ chan \in [Requests -> Requests \cup {None}]
    /\ shut \subseteq Requests
    /\ pc \in [Posters -> PostLabels]
    /\ count \in [Posters -> 0..MaxPosts]
    /\ id \in [Posters -> Nat] /\ held \in [Posters -> 0..MaxConns]
    /\ outcome \in [Requests -> {"new", "open", "answered", "failed"}]
    /\ answer \in [Requests -> Requests \cup {None}]
    /\ asked \subseteq Messages /\ served \subseteq Requests
    /\ replies \subseteq Messages
    /\ reading \in [to : Requests, msg : Requests] \cup {None}

\* The client after a successful Connect.
Init ==
    /\ connected = TRUE /\ conn = 1 /\ gen = 1 /\ link = 1
    /\ passed = 0 /\ dial = "none" /\ pump = "reads"
    /\ closing = "new" /\ overtaken = FALSE /\ panicked = FALSE
    /\ nextID = 0 /\ pending = [i \in {} |-> None]
    /\ chan = [r \in Requests |-> None] /\ shut = {}
    /\ pc = [p \in Posters |-> "idle"] /\ count = [p \in Posters |-> 0]
    /\ id = [p \in Posters |-> 0] /\ held = [p \in Posters |-> 0]
    /\ outcome = [r \in Requests |-> "new"] /\ answer = [r \in Requests |-> None]
    /\ asked = {} /\ served = {} /\ replies = {} /\ reading = None

Goto(p, label) == pc' = [pc EXCEPT ![p] = label]

\* The mutexes: a Post holds writeMu inside writeJSON, a Connect holds connMu.
Writing(p) == pc[p] \in {"rlock", "send"}
WriteFree  == dial # "stuck" /\ \A p \in Posters : ~Writing(p)
ConnFree   == dial = "none"

-------------------------------------------------------------------------------
(***************************************************************************)
(* Post.                                                                   *)
(***************************************************************************)
\* Mutant: ids of finished requests are used again.
FreshID_Reused == CHOOSE i \in Ids \cap (1..(nextID + 1)) :
    i \notin DOMAIN pending /\ \A j \in 1..(i - 1) : j \in DOMAIN pending

\* c.nextPostID.Add(1)
FreshID == nextID + 1

\* The connected check, then a fresh id and channel.
PostStart(p) ==
    /\ ~panicked /\ pc[p] = "idle" /\ nextID < MaxPosts /\ connected
    /\ nextID' = nextID + 1
    /\ id' = [id EXCEPT ![p] = FreshID]
    /\ count' = [count EXCEPT ![p] = @ + 1]
    /\ outcome' = [outcome EXCEPT ![<<p, count[p] + 1>>] = "open"]
    /\ Goto(p, "register")
    /\ UNCHANGED <<connVars, peerVars, closing, pending, chanVars, held, answer, reading,
                   panicked>>

PostRegister(p) ==
    /\ ~panicked /\ pc[p] = "register"
    /\ pending' = [i \in DOMAIN pending \cup {id[p]} |->
                      IF i = id[p] THEN Request(p) ELSE pending[i]]
    /\ Goto(p, "check")
    /\ UNCHANGED <<connVars, peerVars, closing, nextID, chanVars, callVars, held,
                   endVars, reading, panicked>>

\* Post is about to return; the deferred delete comes next.
Fail(p) ==
    /\ outcome' = [outcome EXCEPT ![Request(p)] = "failed"]
    /\ Goto(p, "cleanup") /\ UNCHANGED answer

\* writeJSON takes writeMu and refuses when the client is not connected.  The timer
\* of the call does not run yet.
PostCheck(p) ==
    /\ ~panicked /\ pc[p] = "check" /\ WriteFree
    /\ \/ connected /\ Goto(p, "rlock") /\ UNCHANGED endVars
       \/ ~connected /\ Fail(p)
    /\ UNCHANGED <<connVars, peerVars, closing, tableVars, chanVars, callVars, held,
                   reading, panicked>>

\* connMu.RLock: it waits, with writeMu, for the Connect that holds connMu.
PostRLock(p) ==
    /\ ~panicked /\ pc[p] = "rlock" /\ ConnFree
    /\ \/ conn # 0 /\ held' = [held EXCEPT ![p] = conn]
          /\ Goto(p, "send") /\ UNCHANGED endVars
       \/ conn = 0 /\ Fail(p) /\ UNCHANGED held
    /\ UNCHANGED <<connVars, peerVars, closing, tableVars, chanVars, callVars, reading,
                   panicked>>

\* WriteMessage: the frame arrives, or it is lost with the connection later, or
\* the socket is known to be broken.
PostSend(p) ==
    /\ ~panicked /\ pc[p] = "send"
    /\ held' = [held EXCEPT ![p] = 0]
    /\ \/ /\ held[p] = link
          /\ asked' = asked \cup {[id |-> id[p], req |-> Request(p)]}
          /\ served' = served \cup {Request(p)}
          /\ Goto(p, "wait") /\ UNCHANGED endVars
       \/ /\ Goto(p, "wait") /\ UNCHANGED <<endVars, asked, served>>
       \/ /\ held[p] # link
          /\ Fail(p) /\ UNCHANGED <<asked, served>>
    /\ UNCHANGED <<connVars, replies, closing, tableVars, chanVars, callVars, reading,
                   panicked>>

\* The select of Post: a response, a closed channel, the timer.
PostReceive(p) ==
    /\ ~panicked /\ pc[p] = "wait" /\ chan[Request(p)] # None
    /\ chan' = [chan EXCEPT ![Request(p)] = None]
    /\ outcome' = [outcome EXCEPT ![Request(p)] = "answered"]
    /\ answer' = [answer EXCEPT ![Request(p)] = chan[Request(p)]]
    /\ Goto(p, "cleanup")
    /\ UNCHANGED <<connVars, peerVars, closing, tableVars, shut, callVars, held, reading,
                   panicked>>

\* Mutant: the zero value read from a closed channel passes for a response.
PostCancelled_NoOk(p) ==
    /\ ~panicked /\ pc[p] = "wait" /\ chan[Request(p)] = None /\ Request(p) \in shut
    /\ outcome' = [outcome EXCEPT ![Request(p)] = "answered"]
    /\ Goto(p, "cleanup")
    /\ UNCHANGED <<connVars, peerVars, closing, tableVars, chanVars, callVars, held,
                   answer, reading, panicked>>

PostCancelled(p) ==
    /\ ~panicked /\ pc[p] = "wait" /\ chan[Request(p)] = None /\ Request(p) \in shut
    /\ Fail(p)
    /\ UNCHANGED <<connVars, peerVars, closing, tableVars, chanVars, callVars, held,
                   reading, panicked>>

\* Mutant: Post waits without a timer.
PostTimeout_Never(p) == pc[p] = "never" /\ UNCHANGED vars

PostTimeout(p) ==
    /\ ~panicked /\ pc[p] = "wait"
    /\ Fail(p)
    /\ UNCHANGED <<connVars, peerVars, closing, tableVars, chanVars, callVars, held,
                   reading, panicked>>

\* Mutant: the deferred delete is forgotten.
PostCleanup_NoDelete(p) ==
    /\ ~panicked /\ pc[p] = "cleanup"
    /\ Goto(p, "idle")
    /\ UNCHANGED <<connVars, peerVars, closing, tableVars, chanVars, callVars, held,
                   endVars, reading, panicked>>

\* The deferred delete, then Post returns.
PostCleanup(p) ==
    /\ ~panicked /\ pc[p] = "cleanup"
    /\ pending' = [i \in DOMAIN pending \ {id[p]} |-> pending[i]]
    /\ Goto(p, "idle")
    /\ UNCHANGED <<connVars, peerVars, closing, nextID, chanVars, callVars, held,
                   endVars, reading, panicked>>

-------------------------------------------------------------------------------
(***************************************************************************)
(* The post branch of dispatch, in the read pump.                          *)
(***************************************************************************)
\* Mutant: the ok of the map lookup is ignored.
DispatchLookup_NoOk(m) ==
    /\ ~panicked /\ pump = "reads" /\ reading = None /\ m \in replies
    /\ replies' = replies \ {m}
    /\ reading' = [to  |-> IF m.id \in DOMAIN pending THEN pending[m.id] ELSE None,
                   msg |-> m.req]
    /\ UNCHANGED <<connVars, asked, served, closing, tableVars, chanVars, pc,
                   callVars, held, endVars, panicked>>

\* A frame is read and its id looked up under pendingMu; an unknown id is dropped.
DispatchLookup(m) ==
    /\ ~panicked /\ pump = "reads" /\ reading = None /\ m \in replies
    /\ replies' = replies \ {m}
    /\ reading' = IF m.id \in DOMAIN pending
                  THEN [to |-> pending[m.id], msg |-> m.req] ELSE None
    /\ UNCHANGED <<connVars, asked, served, closing, tableVars, chanVars, pc,
                   callVars, held, endVars, panicked>>

\* select { case ch <- resp: default: }, outside the lock.  The default branch
\* covers a full channel only: a send on a closed channel panics.
DispatchSend ==
    /\ ~panicked /\ reading # None
    /\ reading' = None
    /\ \/ reading.to \in shut /\ panicked' = TRUE /\ UNCHANGED chan
       \/ /\ reading.to \notin shut /\ chan[reading.to] = None
          /\ chan' = [chan EXCEPT ![reading.to] = reading.msg]
          /\ UNCHANGED panicked
       \/ /\ reading.to \notin shut /\ chan[reading.to] # None
          /\ UNCHANGED <<chan, panicked>>
    /\ UNCHANGED <<connVars, peerVars, closing, tableVars, shut, pc, callVars, held,
                   endVars>>

-------------------------------------------------------------------------------
(***************************************************************************)
(* Close, as far as it concerns requests.                                  *)
(***************************************************************************)
\* Mutant: the flag is lowered after the drain.
CloseFlag_Late ==
    /\ ~panicked /\ closing = "new"
    /\ closing' = "drain"
    /\ UNCHANGED <<connVars, peerVars, tableVars, chanVars, pc, callVars, held, endVars,
                   reading, panicked>>

CloseFlag ==
    /\ ~panicked /\ closing = "new"
    /\ closing' = "drain" /\ connected' = FALSE
    /\ UNCHANGED <<conn, gen, link, dialVars, pump, overtaken, peerVars, tableVars, chanVars,
                   pc, callVars, held, endVars, reading, panicked>>

\* Under pendingMu: every registered channel is closed and forgotten.
CloseDrain ==
    /\ ~panicked /\ closing = "drain"
    /\ closing' = "conn"
    /\ shut' = shut \cup {pending[i] : i \in DOMAIN pending}
    /\ pending' = [i \in {} |-> None]
    /\ UNCHANGED <<connVars, peerVars, nextID, chan, pc, callVars, held, endVars, reading,
                   panicked>>

\* conn.Close and c.conn = nil: what was on its way is lost.
DropConn == conn' = 0 /\ link' = 0 /\ asked' = {} /\ replies' = {}

\* Under connMu.  The wait for the pumps that follows touches no request.
CloseConn ==
    /\ ~panicked /\ closing = "conn" /\ ConnFree
    /\ closing' = "done" /\ DropConn
    /\ UNCHANGED <<connected, gen, dialVars, pump, overtaken, served, tableVars, chanVars, pc,
                   callVars, held, endVars, reading, panicked>>

-------------------------------------------------------------------------------
(***************************************************************************)
(* Connect, called by the application or by a timer callback.              *)
(***************************************************************************)
\* Its check of closed may lie any time back, before the Close that has begun since, and
\* is not repeated; then it checks the flag.  (Bound: behind a Close a Connect comes only
\* while there is a connection left to dial.)
ConnectPass ==
    /\ ~panicked /\ passed < MaxDials /\ ~connected
    /\ closing = "new" \/ gen < MaxConns
    /\ passed' = passed + 1
    /\ UNCHANGED <<connected, conn, gen, link, dial, pump, overtaken, peerVars, closing,
                   tableVars, chanVars, pc, callVars, held, endVars, reading, panicked>>

\* connMu.Lock, the second check, and the clean-up of the old connection.
ConnectLock ==
    /\ ~panicked /\ passed > 0 /\ ConnFree
    /\ passed' = passed - 1
    /\ \/ conn # 0 /\ connected /\ UNCHANGED <<dial, conn, link, asked, replies>>
       \/ (conn = 0 \/ ~connected) /\ dial' = "wait" /\ DropConn
    /\ UNCHANGED <<connected, gen, pump, overtaken, served, closing, tableVars, chanVars,
                   pc, callVars, held, endVars, reading, panicked>>

\* wg.Wait with connMu held, then the dial, which raises the flag and starts the pump.
\* Connect returns, or resubscribeAll goes to writeJSON for a subscription.
ConnectDial ==
    /\ ~panicked /\ dial = "wait" /\ pump = "gone"
    /\ \/ /\ gen < MaxConns
          /\ gen' = gen + 1 /\ conn' = gen + 1 /\ link' = gen + 1
          /\ connected' = TRUE /\ overtaken' = (overtaken \/ closing # "new")
          /\ pump' = "start" /\ dial' \in {"none", "write"}
       \/ /\ dial' = "none"
          /\ UNCHANGED <<connected, conn, gen, link, pump, overtaken>>
    /\ UNCHANGED <<passed, peerVars, closing, tableVars, chanVars, pc, callVars, held,
                   endVars, reading, panicked>>

\* writeJSON under connMu.Lock: refused when Close has lowered the flag, which undoes
\* the connection; else it asks for connMu.RLock, which its own caller holds.
ConnectWrite ==
    /\ ~panicked /\ dial = "write" /\ WriteFree
    /\ \/ connected /\ dial' = "stuck" /\ UNCHANGED <<conn, link, asked, replies>>
       \/ ~connected /\ dial' = "none" /\ DropConn
    /\ UNCHANGED <<connected, passed, gen, pump, overtaken, served, closing, tableVars,
                   chanVars, pc, callVars, held, endVars, reading, panicked>>

-------------------------------------------------------------------------------
(***************************************************************************)
(* The read pump around its frames: its start, and handleDisconnect.       *)
(***************************************************************************)
PumpStart ==
    /\ ~panicked /\ pump = "start" /\ ConnFree
    /\ pump' = "reads"
    /\ UNCHANGED <<connected, conn, gen, link, dialVars, overtaken, peerVars, closing,
                   tableVars, chanVars, pc, callVars, held, endVars, reading, panicked>>

\* ReadMessage fails; handleDisconnect lowers the flag, or does nothing after Close.
Disconnect ==
    /\ ~panicked /\ pump = "reads" /\ reading = None /\ link = 0
    /\ \/ closing = "new" /\ connected' = FALSE /\ pump' = "lost"
       \/ closing # "new" /\ pump' = "gone" /\ UNCHANGED connected
    /\ UNCHANGED <<conn, gen, link, dialVars, overtaken, peerVars, closing, tableVars,
                   chanVars, pc, callVars, held, endVars, reading, panicked>>

\* Under connMu.  The requests in flight stay registered.
DisconnectLock ==
    /\ ~panicked /\ pump = "lost" /\ ConnFree
    /\ pump' = "gone" /\ DropConn
    /\ UNCHANGED <<connected, gen, dialVars, overtaken, served, closing, tableVars, chanVars,
                   pc, callVars, held, endVars, reading, panicked>>

-------------------------------------------------------------------------------
(***************************************************************************)
(* The environment: the server and the network.                            *)
(***************************************************************************)
\* The server answers a request it received, perhaps again.
ServerReply(m) ==
    /\ link # 0 /\ m \in asked
    /\ replies' = replies \cup {m}
    /\ UNCHANGED <<connVars, asked, served, closing, tableVars, chanVars, pc, callVars,
                   held, endVars, reading, panicked>>

LoseLink ==
    /\ link # 0
    /\ link' = 0 /\ asked' = {} /\ replies' = {}
    /\ UNCHANGED <<connected, conn, gen, dialVars, pump, overtaken, served, closing, tableVars,
                   chanVars, pc, callVars, held, endVars, reading, panicked>>

-------------------------------------------------------------------------------
PostStep(p) ==
    \/ PostRegister(p) \/ PostCheck(p) \/ PostRLock(p) \/ PostSend(p)
    \/ PostReceive(p) \/ PostCancelled(p) \/ PostTimeout(p) \/ PostCleanup(p)

ConnectStep == ConnectLock \/ ConnectDial \/ ConnectWrite

Dispatch    == DispatchSend \/ \E m \in replies : DispatchLookup(m)
PumpStep    == Dispatch \/ PumpStart \/ Disconnect \/ DisconnectLock
CloseStep   == CloseFlag \/ CloseDrain \/ CloseConn
Environment == LoseLink \/ \E m \in asked : ServerReply(m)

Next ==
    \/ \E p \in Posters : PostStart(p) \/ PostStep(p)
    \/ ConnectPass \/ ConnectStep \/ PumpStep \/ CloseStep \/ Environment

Spec == Init /\ [][Next]_vars

\* WriteMessage has no deadline: on a socket that still works it takes as long as the
\* peer does not read.
Stalls(p) == pc[p] = "send" /\ held[p] = link
Stalled   == \E p \in Posters : Stalls(p)

\* A goroutine inside Post runs on, unless it writes to a peer that does not read; its
\* timer fires.  Go's mutexes starve nobody, so a lock that is free again and again is
\* had at last, however often Connects fail and retry.  A Connect and the pump run on.
\* (Each of these steps changes the variables in its subscript.)
Fairness ==
    /\ \A p \in Posters : WF_pc(~Stalls(p) /\ PostStep(p))
    /\ \A p \in Posters : SF_pc(PostCheck(p) \/ PostRLock(p))
    /\ WF_dialVars(ConnectStep) /\ WF_<<pump, reading, replies>>(PumpStep)

FairSpec == Spec /\ Fairness

-------------------------------------------------------------------------------
(***************************************************************************)
(* Properties.                                                             *)
(***************************************************************************)
\* A request registers an id nobody else uses, from the registration to the
\* deferred delete or to the drain of Close, which closes its channel (post.go:35-43,
\* stream.go:324-329); nothing else stays in the table.
InFlight(p) == pc[p] \in {"check", "rlock", "send", "wait", "cleanup"}

TableIsExact ==
    /\ \A i \in DOMAIN pending :
          \E p \in Posters : InFlight(p) /\ id[p] = i /\ pending[i] = Request(p)
    /\ \A p \in Posters : InFlight(p) /\ Request(p) \notin shut =>
          id[p] \in DOMAIN pending /\ pending[id[p]] = Request(p)

\* Whatever the delays, losses and duplicates, a channel holds at most the answer
\* to its own request: a late answer never reaches the caller's next Post, nor
\* another caller (post.go keys channels by a never reused id).
OwnAnswer ==
    /\ \A r \in Requests : chan[r] \in {None, r}
    /\ \A r \in Requests : answer[r] \in {None, r}

\* docs/stream.md:33: Close drains the pending requests.  After the drain no
\* Post writes or waits on a channel that nobody will close: a Post that registers
\* after the drain fails its connected check, unless a Connect past its own closed
\* check has raised the flag behind Close (stream.go:147, 190).
NoWaiterAfterDrain ==
    closing \in {"conn", "done"} =>
        \A p \in Posters : pc[p] \in {"rlock", "send", "wait"} =>
            Request(p) \in shut \/ overtaken

\* stream.go:442: the default branch of dispatch covers a closed channel; a
\* response that races with Close does not crash the program.
NoSendOnClosed == ~panicked

\* A Connect that never releases connMu: it asks for it again while it resubscribes
\* (stream.go:209, 524), alone or behind the Post that holds writeMu, or it waits for a
\* pump that waits for connMu (stream.go:172).
Deadlocked ==
    \/ dial = "stuck"
    \/ dial = "write" /\ \E p \in Posters : pc[p] = "rlock"
    \/ dial = "wait" /\ pump \in {"start", "lost"}

\* Every Post returns, within its timeout once its frame is written (post.go:54-69).
\* writeJSON is not under the timer, so two things keep a Post for ever: a Connect that
\* has locked itself out with connMu, and a peer that never reads what is written.
PostReturns ==
    \A p \in Posters :
        pc[p] # "idle" ~> (pc[p] = "idle" \/ panicked \/ []Deadlocked \/ []Stalled)

\* Post implements the promise: a request is answered at most once and only with
\* its own answer.
outcomeBar == [r \in Requests |->
    IF outcome[r] = "answered" /\ answer[r] # r THEN "crossed" ELSE outcome[r]]

Promise == INSTANCE RequestReply WITH outcome <- outcomeBar, served <- served

ImplementsRequestReply == Promise!Spec
===============================================================================
