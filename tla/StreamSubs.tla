------------------------------ MODULE StreamSubs ------------------------------
(***************************************************************************)
(* The subscription registry of stream.Client (Subscribe,                  *)
(* Subscription.Close and unsubscribe in src/stream/stream.go) and the     *)
(* subscriptions the server keeps for the connection.  The registry        *)
(* changes under subMu; the frames are sent after subMu is released, one   *)
(* at a time under writeMu, so that the server applies them in the order   *)
(* in which goroutines win writeMu.  The one that has writeMu asks for     *)
(* connMu, which a Connect may hold while it waits for the pumps.  (Post   *)
(* and the ping pump, which write the same way, are not here.)             *)
(*                                                                         *)
(* The module covers one connection.  When it is gone every later frame    *)
(* fails and the server forgets its subscriptions; what a reconnect does   *)
(* with the registry is in StreamConn (ReconnectResubscribes).             *)
(***************************************************************************)
EXTENDS Naturals

CONSTANTS
    Users,      \* goroutines that subscribe and close subscriptions
    Keys,       \* subscription keys: type, coin, user, interval and dex
    MaxSubs,    \* bound: calls of Subscribe
    None

ASSUME MaxSubsAssumption == MaxSubs \in Nat
ASSUME NoneAssumption    == None \notin Keys \cup Users

Ids == 1..MaxSubs

VARIABLES
    subs,       \* subs[k]: ids of the listeners in c.subscriptions[k]
    entries,    \* keys present in c.subscriptions, perhaps with no listener
    nextSubID,  \* c.nextSubID
    keyOf,      \* keyOf[i]: the key that id i was registered under
    handle,     \* handle[i]: "none", "open" or "closed" Subscription of id i
    pc,         \* pc[u]: where goroutine u is
    cur,        \* cur[u]: the id u works on, 0 when idle
    failed,     \* ids whose Subscription.Close returned "not found"
    writer,     \* the goroutine that holds writeMu, None when it is free
    hasConn,     \* the writer has read c.conn and released connMu
    connected,  \* c.connected
    conn,       \* c.conn: "up", "lost" (its socket is broken) or "nil"
    dial,       \* a Connect holds connMu and waits for the pumps
    server      \* keys the server streams on this connection

registry == <<subs, entries, nextSubID, keyOf>>
work     == <<pc, cur>>
writeMu  == <<writer, hasConn>>
network  == <<connected, conn, dial, server>>
vars == <<registry, handle, work, failed, writeMu, network>>

Labels == {"idle", "subSend", "subRollback", "closing", "unsub", "unsubSend"}

TypeOK ==
    /\ subs \in [Keys -> SUBSET Ids] /\ entries \subseteq Keys
    /\ nextSubID \in 0..MaxSubs /\ keyOf \in [Ids -> Keys \cup {None}]
    /\ handle \in [Ids -> {"none", "open", "closed"}]
    /\ pc \in [Users -> Labels] /\ cur \in [Users -> 0..MaxSubs]
    /\ failed \subseteq Ids
    /\ writer \in Users \cup {None} /\ hasConn \in BOOLEAN
    /\ connected \in BOOLEAN /\ conn \in {"up", "lost", "nil"} /\ dial \in BOOLEAN
    /\ server \subseteq Keys

\* A connected client without subscriptions.
Init ==
    /\ subs = [k \in Keys |-> {}] /\ entries = {} /\ nextSubID = 0
    /\ keyOf = [i \in Ids |-> None] /\ handle = [i \in Ids |-> "none"]
    /\ pc = [u \in Users |-> "idle"] /\ cur = [u \in Users |-> 0]
    /\ failed = {} /\ writer = None /\ hasConn = FALSE
    /\ connected = TRUE /\ conn = "up" /\ dial = FALSE /\ server = {}

Goto(u, label) == pc' = [pc EXCEPT ![u] = label]
Done(u) == Goto(u, "idle") /\ cur' = [cur EXCEPT ![u] = 0]

-------------------------------------------------------------------------------
(***************************************************************************)
(* Subscribe.                                                              *)
(***************************************************************************)
\* Mutant: the id is the counter before it was incremented.
Subscribe_OldId(u, k) ==
    /\ pc[u] = "idle" /\ nextSubID < MaxSubs
    /\ nextSubID' = nextSubID + 1
    /\ keyOf' = [i \in Ids |-> IF i = nextSubID THEN k ELSE keyOf[i]]
    /\ subs' = [subs EXCEPT ![k] = @ \cup {nextSubID}]
    /\ cur' = [cur EXCEPT ![u] = nextSubID]
    /\ entries' = entries \cup {k}
    /\ Goto(u, "subSend")
    /\ UNCHANGED <<handle, failed, writeMu, network>>

\* Under subMu: a fresh id is registered.
Subscribe(u, k) ==
    /\ pc[u] = "idle" /\ nextSubID < MaxSubs
    /\ LET i == nextSubID + 1 IN
       /\ nextSubID' = i
       /\ keyOf' = [keyOf EXCEPT ![i] = k]
       /\ subs' = [subs EXCEPT ![k] = @ \cup {i}]
       /\ cur' = [cur EXCEPT ![u] = i]
    /\ entries' = entries \cup {k}
    /\ Goto(u, "subSend")
    /\ UNCHANGED <<handle, failed, writeMu, network>>

\* Mutant: a Subscribe that could not send keeps its listener.
SubscribeRollback_Keep(u) ==
    /\ pc[u] = "subRollback"
    /\ Done(u)
    /\ UNCHANGED <<registry, handle, failed, writeMu, network>>

\* The listener is removed again; the key keeps its, perhaps empty, entry.
SubscribeRollback(u) ==
    /\ pc[u] = "subRollback"
    /\ subs' = [subs EXCEPT ![keyOf[cur[u]]] = @ \ {cur[u]}]
    /\ Done(u)
    /\ UNCHANGED <<entries, nextSubID, keyOf, handle, failed, writeMu, network>>

-------------------------------------------------------------------------------
(***************************************************************************)
(* Subscription.Close and unsubscribe.  Any goroutine may close any handle *)
(* it was given, several of them the same one.                             *)
(***************************************************************************)
CloseCall(u, i) ==
    /\ pc[u] = "idle" /\ handle[i] # "none"
    /\ cur' = [cur EXCEPT ![u] = i]
    /\ Goto(u, "closing")
    /\ UNCHANGED <<registry, handle, failed, writeMu, network>>

\* Mutant: the closed flag is stored without comparing it first.
CloseSwap_NoCompare(u) ==
    /\ pc[u] = "closing"
    /\ handle' = [handle EXCEPT ![cur[u]] = "closed"]
    /\ Goto(u, "unsub") /\ UNCHANGED cur
    /\ UNCHANGED <<registry, failed, writeMu, network>>

\* closed.CompareAndSwap(false, true)
CloseSwap(u) ==
    /\ pc[u] = "closing"
    /\ \/ /\ handle[cur[u]] = "open"
          /\ handle' = [handle EXCEPT ![cur[u]] = "closed"]
          /\ Goto(u, "unsub") /\ UNCHANGED cur
       \/ /\ handle[cur[u]] = "closed"
          /\ Done(u) /\ UNCHANGED handle
    /\ UNCHANGED <<registry, failed, writeMu, network>>

\* Mutant: the listeners are counted before the own one is deleted.
Unsubscribe_CountFirst(u) ==
    LET i == cur[u]
        k == keyOf[i] IN
    /\ pc[u] = "unsub"
    /\ \/ /\ k \notin entries \/ i \notin subs[k]
          /\ failed' = failed \cup {i}
          /\ Done(u) /\ UNCHANGED <<subs, entries>>
       \/ /\ k \in entries /\ i \in subs[k]
          /\ subs' = [subs EXCEPT ![k] = @ \ {i}]
          /\ \/ /\ subs[k] = {}
                /\ entries' = entries \ {k} /\ Goto(u, "unsubSend") /\ UNCHANGED cur
             \/ subs[k] # {} /\ Done(u) /\ UNCHANGED entries
          /\ UNCHANGED failed
    /\ UNCHANGED <<nextSubID, keyOf, handle, writeMu, network>>

\* Mutant: a listener that is not the last one stays registered.
Unsubscribe_KeepOthers(u) ==
    LET i == cur[u]
        k == keyOf[i] IN
    /\ pc[u] = "unsub"
    /\ \/ /\ k \notin entries \/ i \notin subs[k]
          /\ failed' = failed \cup {i}
          /\ Done(u) /\ UNCHANGED <<subs, entries>>
       \/ /\ k \in entries /\ i \in subs[k]
          /\ \/ /\ subs[k] = {i} /\ subs' = [subs EXCEPT ![k] = {}]
                /\ entries' = entries \ {k} /\ Goto(u, "unsubSend") /\ UNCHANGED cur
             \/ subs[k] # {i} /\ Done(u) /\ UNCHANGED <<subs, entries>>
          /\ UNCHANGED failed
    /\ UNCHANGED <<nextSubID, keyOf, handle, writeMu, network>>

\* Under subMu: the listener is deleted; the last one takes the entry with it and
\* owes the server an unsubscribe frame.
Unsubscribe(u) ==
    LET i == cur[u]
        k == keyOf[i] IN
    /\ pc[u] = "unsub"
    /\ \/ /\ k \notin entries \/ i \notin subs[k]
          /\ failed' = failed \cup {i}
          /\ Done(u) /\ UNCHANGED <<subs, entries>>
       \/ /\ k \in entries /\ i \in subs[k]
          /\ subs' = [subs EXCEPT ![k] = @ \ {i}]
          /\ \/ /\ subs[k] = {i}
                /\ entries' = entries \ {k} /\ Goto(u, "unsubSend") /\ UNCHANGED cur
             \/ subs[k] # {i} /\ Done(u) /\ UNCHANGED entries
          /\ UNCHANGED failed
    /\ UNCHANGED <<nextSubID, keyOf, handle, writeMu, network>>

-------------------------------------------------------------------------------
(***************************************************************************)
(* sendSubscribe and sendUnsubscribe, outside subMu: writeJSON.            *)
(***************************************************************************)
\* The frame is not sent: Subscribe takes its listener back, Close gives up.
Fail(u) ==
    \/ pc[u] = "subSend" /\ Goto(u, "subRollback") /\ UNCHANGED cur
    \/ pc[u] = "unsubSend" /\ Done(u)

\* writeMu.Lock, then the connected check.
WriteLock(u) ==
    /\ pc[u] \in {"subSend", "unsubSend"} /\ writer = None
    /\ \/ connected /\ writer' = u /\ UNCHANGED work
       \/ ~connected /\ Fail(u) /\ UNCHANGED writer
    /\ UNCHANGED <<registry, handle, failed, hasConn, network>>

\* connMu.RLock: it waits, with writeMu, for the Connect that holds connMu.
WriteRLock(u) ==
    /\ writer = u /\ ~hasConn /\ ~dial
    /\ \/ conn # "nil" /\ hasConn' = TRUE /\ UNCHANGED <<writer, work>>
       \/ conn = "nil" /\ Fail(u) /\ writer' = None /\ UNCHANGED hasConn
    /\ UNCHANGED <<registry, handle, failed, network>>

\* WriteMessage fails on a broken or closed socket.
WriteFail(u) ==
    /\ writer = u /\ hasConn /\ conn # "up"
    /\ Fail(u)
    /\ writer' = None /\ hasConn' = FALSE
    /\ UNCHANGED <<registry, handle, failed, network>>

\* WriteMessage returns: the frame arrives, or it is lost with the connection.  The
\* handle is returned.
SubscribeSend(u) ==
    /\ writer = u /\ hasConn /\ pc[u] = "subSend" /\ conn # "nil"
    /\ server' = IF conn = "up" THEN server \cup {keyOf[cur[u]]} ELSE server
    /\ handle' = [handle EXCEPT ![cur[u]] = "open"]
    /\ Done(u)
    /\ writer' = None /\ hasConn' = FALSE
    /\ UNCHANGED <<registry, failed, connected, conn, dial>>

UnsubscribeSend(u) ==
    /\ writer = u /\ hasConn /\ pc[u] = "unsubSend" /\ conn # "nil"
    /\ server' = IF conn = "up" THEN server \ {keyOf[cur[u]]} ELSE server
    /\ Done(u)
    /\ writer' = None /\ hasConn' = FALSE
    /\ UNCHANGED <<registry, handle, failed, connected, conn, dial>>

-------------------------------------------------------------------------------
(***************************************************************************)
(* The end of the connection.                                              *)
(***************************************************************************)
\* The network breaks it, and the server forgets its subscriptions.
LoseConn ==
    /\ conn = "up"
    /\ conn' = "lost" /\ server' = {}
    /\ UNCHANGED <<registry, handle, work, failed, writeMu, connected, dial>>

\* Client.Close, at any time, or handleDisconnect lowers the flag.
LowerFlag ==
    /\ connected
    /\ connected' = FALSE
    /\ UNCHANGED <<registry, handle, work, failed, writeMu, conn, dial, server>>

\* Then it closes the connection under connMu.
DropConn ==
    /\ ~connected /\ ~dial /\ conn # "nil"
    /\ conn' = "nil" /\ server' = {}
    /\ UNCHANGED <<registry, handle, work, failed, writeMu, connected, dial>>

\* A Connect whose check of closed lies before the Close: it finds the flag lowered,
\* takes connMu, closes the connection and waits for the pumps with the mutex held.
ConnectLock ==
    /\ ~connected /\ ~dial
    /\ dial' = TRUE /\ conn' = "nil" /\ server' = {}
    /\ UNCHANGED <<registry, handle, work, failed, writeMu, connected>>

\* The pumps have ended.  What it dials is another connection.
ConnectUnlock ==
    /\ dial
    /\ dial' = FALSE
    /\ UNCHANGED <<registry, handle, work, failed, writeMu, connected, conn, server>>

-------------------------------------------------------------------------------
UserStep(u) ==
    \/ SubscribeRollback(u) \/ CloseSwap(u) \/ Unsubscribe(u)
    \/ WriteLock(u) \/ WriteRLock(u) \/ WriteFail(u)
    \/ SubscribeSend(u) \/ UnsubscribeSend(u)

ConnStep == LoseConn \/ LowerFlag \/ DropConn \/ ConnectLock \/ ConnectUnlock

Next ==
    \/ \E u \in Users, k \in Keys : Subscribe(u, k)
    \/ \E u \in Users, i \in Ids : CloseCall(u, i)
    \/ \E u \in Users : UserStep(u)
    \/ ConnStep

Spec == Init /\ [][Next]_vars

-------------------------------------------------------------------------------
(***************************************************************************)
(* Properties.                                                             *)
(***************************************************************************)
Quiet   == \A u \in Users : pc[u] = "idle"
Live(k) == subs[k] # {}

\* The registry holds exactly the listeners that are entitled to it: every open
\* handle is registered, and every registration has an open handle or a Subscribe
\* or unsubscribe that is still deciding about it.
RegistryIsExact ==
    /\ \A i \in Ids : handle[i] = "open" => i \in subs[keyOf[i]]
    /\ \A k \in Keys : \A i \in subs[k] :
          /\ keyOf[i] = k /\ k \in entries
          /\ \/ handle[i] = "open"
             \/ \E u \in Users :
                   cur[u] = i /\ pc[u] \in {"subSend", "subRollback", "unsub"}

\* stream.go:230: closing a Subscription several times, from several goroutines,
\* never reports an error for a listener somebody else removed.
CloseIsIdempotent == failed = {}

\* As long as the client is connected the server never goes on streaming a key nobody
\* listens to: whoever removed the last listener still owes the unsubscribe frame.
\* (Once the flag is lowered frames fail, and the connection is about to be closed.)
NoOrphanedStream ==
    connected => \A k \in server :
        Live(k) \/ \E u \in Users : pc[u] = "unsubSend" /\ keyOf[cur[u]] = k

\* stream.go:221: the unsubscribe frame is emitted when no listener remains.  When
\* everything has settled, a listener's key is streamed.
NoDeafListener ==
    Quiet /\ connected /\ conn = "up" =>
        \A k \in Keys : Live(k) => k \in server
===============================================================================
