--------------------------- MODULE StreamPost_proofs ---------------------------
(***************************************************************************)
(* Proofs about StreamPost, for any number of goroutines that post and     *)
(* that connect, of calls and of connections.                              *)
(*                                                                         *)
(* A channel gets no answer but its own because an id has one request for  *)
(* ever: no two calls share one, and every frame on its way, however old,  *)
(* carries the request that its id stood for.  A frame whose call is over  *)
(* finds no channel.                                                       *)
(***************************************************************************)
EXTENDS StreamPost, TLAPS

\* Ids are given in order, to one call each.
IdInv ==
    /\ \A p \in Posters : count[p] <= nextID
    /\ \A p \in Posters : pc[p] # "idle" => id[p] \in 1..nextID /\ count[p] >= 1
    /\ \A p, q \in Posters : pc[p] # "idle" /\ pc[q] # "idle" /\ id[p] = id[q] => p = q

\* A frame carries the request of the call that has its id, if it still runs.
FrameInv ==
    \A m \in asked \cup replies :
        /\ m.id <= nextID /\ m.req \in served
        /\ \A p \in Posters : pc[p] # "idle" /\ id[p] = m.id => m.req = Request(p)

\* What a channel holds, or is about to, was served, and belongs to it.
ChannelInv ==
    /\ reading # None => reading.msg = reading.to /\ reading.to \in served
    /\ \A r \in Requests : chan[r] # None => r \in served

\* A call that has not ended is open, and later ones of its goroutine are new.
CallInv ==
    /\ \A p \in Posters : pc[p] \in {"register", "check", "rlock", "send", "wait"} =>
          outcome[Request(p)] = "open"
    /\ \A p \in Posters, n \in 1..MaxPosts : n > count[p] => outcome[<<p, n>>] = "new"
    /\ \A r \in Requests : outcome[r] = "answered" => answer[r] = r

\* Close has lowered the flag; only a Connect that overtakes it raises the flag again.
ClosedInv == closing # "new" => ~connected \/ overtaken

PostInv ==
    /\ TypeOK /\ IdInv /\ FrameInv /\ ChannelInv /\ CallInv /\ ClosedInv
    /\ TableIsExact /\ OwnAnswer /\ NoWaiterAfterDrain

-------------------------------------------------------------------------------
\* The initial state satisfies the inductive invariant.
LEMMA InitInv == Init => PostInv
  <1> SUFFICES ASSUME Init PROVE PostInv
    OBVIOUS
  <1> USE PostAssumption DEF Init
  <1>1. TypeOK
    <2>1. DOMAIN pending = {}
      OBVIOUS
    <2>2. /\ chan \in [Requests -> Requests \cup {None}]
          /\ answer \in [Requests -> Requests \cup {None}]
          /\ outcome \in [Requests -> {"new", "open", "answered", "failed"}]
      OBVIOUS
    <2>3. nextID \in 0..MaxPosts /\ count \in [Posters -> 0..MaxPosts]
      OBVIOUS
    <2>4. id \in [Posters -> Nat] /\ held \in [Posters -> 0..MaxConns]
      OBVIOUS
    <2>5. pc \in [Posters -> PostLabels]
      BY DEF PostLabels
    <2>6. passed \in 0..MaxDials /\ dial \in {"none", "wait", "write", "stuck"}
      OBVIOUS
    <2>7. conn \in 0..MaxConns /\ gen \in 0..MaxConns /\ link \in 0..MaxConns
      OBVIOUS
    <2> HIDE PostAssumption
    <2> QED BY <2>1, <2>2, <2>3, <2>4, <2>5, <2>6, <2>7 DEF TypeOK
  <1>2. IdInv /\ FrameInv /\ ChannelInv /\ ClosedInv /\ TableIsExact
    BY DEF IdInv, FrameInv, ChannelInv, ClosedInv, TableIsExact, InFlight
  <1>3. CallInv /\ OwnAnswer /\ NoWaiterAfterDrain
    BY DEF CallInv, OwnAnswer, NoWaiterAfterDrain, Request, Requests
  <1> QED BY <1>1, <1>2, <1>3 DEF PostInv

\* A call at work has a request of its own.
LEMMA Working ==
  ASSUME TypeOK, IdInv, NEW p \in Posters, pc[p] # "idle"
  PROVE  /\ Request(p) \in Requests /\ Request(p) # None
         /\ id[p] \in Ids /\ id[p] <= nextID
  <1>1. count[p] \in 1..MaxPosts
    BY PostAssumption DEF TypeOK, IdInv
  <1>2. id[p] \in Ids /\ id[p] <= nextID
    BY PostAssumption DEF TypeOK, IdInv, Ids
  <1> QED BY <1>1, <1>2, NoneAssumption DEF Request, Requests

\* A call that starts has a request of its own too.
LEMMA Starting ==
  ASSUME TypeOK, IdInv, NEW p \in Posters, nextID < MaxPosts
  PROVE  /\ count[p] + 1 \in 1..MaxPosts /\ <<p, count[p] + 1>> \in Requests
         /\ count[p] \in Nat /\ nextID \in Nat
  <1>1. count[p] \in Nat /\ count[p] <= nextID /\ nextID \in Nat
    BY PostAssumption DEF TypeOK, IdInv
  <1>2. count[p] + 1 \in 1..MaxPosts
    BY <1>1, PostAssumption
  <1> QED BY <1>1, <1>2 DEF Requests

LEMMA ReadingFacts ==
  ASSUME TypeOK, reading # None
  PROVE  reading.to \in Requests /\ reading.msg \in Requests
  BY DEF TypeOK

-------------------------------------------------------------------------------
\* The steps of the connection: Connect, the pump between its frames, a loss.
Connection ==
    \/ ConnectPass \/ ConnectStep \/ PumpStart \/ Disconnect \/ DisconnectLock \/ LoseLink

\* They touch no request, and raise the flag after Close only by overtaking it.
LEMMA ConnectionFrame ==
  ASSUME Connection
  PROVE  /\ UNCHANGED <<served, closing, tableVars, chanVars, pc, callVars, held, endVars, reading>>
         /\ asked' \cup replies' \subseteq asked \cup replies
         /\ overtaken => overtaken'
         /\ connected' => connected \/ overtaken' \/ closing = "new"
  <1> USE DEF connVars, dialVars, peerVars, tableVars, chanVars, callVars, endVars, DropConn
  <1>1. ASSUME ConnectPass \/ ConnectLock \/ ConnectWrite
        PROVE  /\ UNCHANGED <<served, closing, tableVars, chanVars, pc, callVars, held, endVars,
                              reading, connected, overtaken>>
               /\ asked' \cup replies' \subseteq asked \cup replies
    BY <1>1 DEF ConnectPass, ConnectLock, ConnectWrite
  <1>2. ASSUME ConnectDial
        PROVE  /\ UNCHANGED <<served, closing, tableVars, chanVars, pc, callVars, held, endVars,
                              reading, asked, replies>>
               /\ overtaken => overtaken'
               /\ connected' => connected \/ overtaken' \/ closing = "new"
    <2>1. /\ UNCHANGED <<served, closing, tableVars, chanVars, pc, callVars, held, endVars,
                        reading, asked, replies>>
      BY <1>2 DEF ConnectDial
    <2>2. overtaken' = overtaken \/ overtaken' = (overtaken \/ closing # "new")
      BY <1>2 DEF ConnectDial
    <2>3. closing # "new" => connected' = connected \/ overtaken'
      <3>1. (overtaken \/ TRUE) = TRUE
        OBVIOUS
      <3> QED BY <1>2, <3>1 DEF ConnectDial
    <2>4. overtaken => overtaken'
      <3>1. CASE overtaken' = overtaken
        BY <3>1, Zenon
      <3>2. CASE overtaken' = (overtaken \/ closing # "new")
        BY <3>2, Zenon
      <3> QED BY <2>2, <3>1, <3>2
    <2>5. connected' => connected \/ overtaken' \/ closing = "new"
      <3>1. CASE connected' = connected
        BY <3>1, Zenon
      <3> QED BY <2>3, <3>1
    <2> QED BY <2>1, <2>4, <2>5
  <1>3. CASE PumpStart \/ Disconnect \/ DisconnectLock \/ LoseLink
    BY <1>3 DEF PumpStart, Disconnect, DisconnectLock, LoseLink
  <1> QED BY <1>1, <1>2, <1>3 DEF Connection, ConnectStep

\* The types of the connection, which those steps keep.
ConnTypes ==
    /\ connected \in BOOLEAN /\ overtaken \in BOOLEAN /\ panicked \in BOOLEAN
    /\ conn \in 0..MaxConns /\ gen \in 0..MaxConns /\ link \in 0..MaxConns
    /\ passed \in 0..MaxDials /\ dial \in {"none", "wait", "write", "stuck"}
    /\ pump \in {"start", "reads", "lost", "gone"}
    /\ asked \subseteq Messages /\ replies \subseteq Messages

LEMMA ConnectionTypes == ConnTypes /\ Connection => ConnTypes'
  <1> SUFFICES ASSUME ConnTypes, Connection PROVE ConnTypes'
    OBVIOUS
  <1> USE PostAssumption DEF ConnTypes, DropConn, dialVars, peerVars
  <1>1. CASE ConnectPass
    BY <1>1 DEF ConnectPass
  <1>2. CASE ConnectLock
    BY <1>2 DEF ConnectLock
  <1>3. CASE ConnectDial
    <2>1. gen < MaxConns => gen + 1 \in 0..MaxConns
      OBVIOUS
    <2> QED BY <1>3, <2>1 DEF ConnectDial
  <1>4. CASE ConnectWrite
    BY <1>4 DEF ConnectWrite
  <1>5. CASE PumpStart
    BY <1>5 DEF PumpStart
  <1>6. CASE Disconnect
    BY <1>6 DEF Disconnect
  <1>7. CASE DisconnectLock
    BY <1>7 DEF DisconnectLock
  <1>8. CASE LoseLink
    BY <1>8 DEF LoseLink
  <1> QED BY <1>1, <1>2, <1>3, <1>4, <1>5, <1>6, <1>7, <1>8 DEF Connection, ConnectStep

LEMMA NextSteps ==
  ASSUME [Next]_vars
  PROVE  \/ \E p \in Posters : PostStart(p) \/ PostStep(p)
         \/ \E m \in replies : DispatchLookup(m)
         \/ DispatchSend \/ CloseStep \/ Connection
         \/ \E m \in asked : ServerReply(m)
         \/ UNCHANGED vars
  BY DEF Next, PumpStep, Dispatch, Environment, Connection

-------------------------------------------------------------------------------
\* Every step keeps the types.
LEMMA TypeStep == TypeOK /\ IdInv /\ [Next]_vars => TypeOK'
  <1> SUFFICES ASSUME TypeOK, IdInv, [Next]_vars PROVE TypeOK'
    OBVIOUS
  <1> USE PostAssumption
      DEF TypeOK, PostLabels, Goto, connVars, dialVars, peerVars, tableVars, chanVars, callVars, endVars
  <1>1. ASSUME NEW p \in Posters, PostStart(p) PROVE TypeOK'
    BY <1>1, Starting DEF PostStart, FreshID
  <1>2. ASSUME NEW p \in Posters, PostRegister(p) PROVE TypeOK'
    BY <1>2, Working DEF PostRegister
  <1>3. ASSUME NEW p \in Posters, PostCheck(p) PROVE TypeOK'
    BY <1>3, Working DEF PostCheck, Fail
  <1>4. ASSUME NEW p \in Posters, PostRLock(p) \/ PostSend(p) PROVE TypeOK'
    <2>1. CASE PostRLock(p)
      BY <2>1, Working DEF PostRLock, Fail
    <2>2. CASE PostSend(p)
      BY <2>2, Working DEF PostSend, Fail, Messages
    <2> QED BY <1>4, <2>1, <2>2
  <1>5. ASSUME NEW p \in Posters, PostReceive(p) PROVE TypeOK'
    BY <1>5, Working DEF PostReceive
  <1>6. ASSUME NEW p \in Posters, PostCancelled(p) PROVE TypeOK'
    BY <1>6, Working DEF PostCancelled, Fail
  <1>7. ASSUME NEW p \in Posters, PostTimeout(p) PROVE TypeOK'
    BY <1>7, Working DEF PostTimeout, Fail
  <1>8. ASSUME NEW p \in Posters, PostCleanup(p) PROVE TypeOK'
    BY <1>8 DEF PostCleanup
  <1>9. ASSUME NEW m \in replies, DispatchLookup(m) PROVE TypeOK'
    BY <1>9 DEF DispatchLookup, Messages
  <1>10. CASE DispatchSend
    BY <1>10, ReadingFacts DEF DispatchSend
  <1>11. CASE CloseStep
    <2>1. CASE CloseFlag
      BY <2>1 DEF CloseFlag
    <2>2. CASE CloseDrain
      BY <2>2, ZenonT(40) DEF CloseDrain
    <2>3. CASE CloseConn
      BY <2>3 DEF CloseConn, DropConn
    <2> QED BY <1>11, <2>1, <2>2, <2>3 DEF CloseStep
  <1>12. ASSUME NEW m \in asked, ServerReply(m) PROVE TypeOK'
    BY <1>12 DEF ServerReply
  <1>13. CASE Connection
    <2>1. ConnTypes'
      BY <1>13, ConnectionTypes DEF ConnTypes
    <2> QED BY <1>13, <2>1, ConnectionFrame DEF ConnTypes
  <1>14. CASE UNCHANGED vars
    BY <1>14 DEF vars
  <1> HIDE DEF TypeOK
  <1> QED
    BY <1>1, <1>2, <1>3, <1>4, <1>5, <1>6, <1>7, <1>8, <1>9, <1>10, <1>11, <1>12, <1>13, <1>14,
       NextSteps
    DEF PostStep

\* Only PostStart gives an id, and it gives the next one.
LEMMA IdStep == TypeOK /\ IdInv /\ [Next]_vars => IdInv'
  <1> SUFFICES ASSUME TypeOK, IdInv, [Next]_vars PROVE IdInv'
    OBVIOUS
  <1> USE PostAssumption DEF IdInv, Goto, connVars, dialVars, peerVars, tableVars, chanVars, callVars, endVars
  <1>1. ASSUME NEW p \in Posters, PostStart(p) PROVE IdInv'
    <2>1. /\ nextID' = nextID + 1 /\ nextID \in Nat /\ count[p] \in Nat
          /\ id' = [id EXCEPT ![p] = nextID + 1] /\ count' = [count EXCEPT ![p] = @ + 1]
          /\ pc' = [pc EXCEPT ![p] = "register"]
      BY <1>1, Starting DEF PostStart, FreshID
    <2> QED BY <2>1 DEF TypeOK
  <1>2. ASSUME NEW p \in Posters, PostStep(p) PROVE IdInv'
    <2>1. UNCHANGED <<nextID, count, id>> /\ pc[p] # "idle" /\ \E l : Goto(p, l)
      BY <1>2 DEF PostStep, PostRegister, PostCheck, PostRLock, PostSend, PostReceive,
                  PostCancelled, PostTimeout, PostCleanup, Fail
    <2> QED BY <2>1 DEF TypeOK
  <1>3. CASE UNCHANGED <<nextID, count, id, pc>>
    BY <1>3
  <1> QED
    BY <1>1, <1>2, <1>3, NextSteps, ConnectionFrame
    DEF DispatchSend, DispatchLookup, CloseStep, CloseFlag, CloseDrain, CloseConn, ServerReply, vars

\* A frame is made by PostSend, for the id and request of its own call.
LEMMA FrameStep == TypeOK /\ IdInv /\ FrameInv /\ [Next]_vars => FrameInv'
  <1> SUFFICES ASSUME TypeOK, IdInv, FrameInv, [Next]_vars PROVE FrameInv'
    OBVIOUS
  <1> USE PostAssumption DEF FrameInv, Goto, connVars, dialVars, peerVars, tableVars, chanVars, callVars, endVars, Request
  <1>1. ASSUME NEW p \in Posters, PostStart(p) PROVE FrameInv'
    <2>1. /\ nextID' = nextID + 1 /\ nextID \in Nat
          /\ id' = [id EXCEPT ![p] = nextID + 1] /\ count' = [count EXCEPT ![p] = @ + 1]
          /\ pc' = [pc EXCEPT ![p] = "register"] /\ UNCHANGED peerVars
      BY <1>1, Starting DEF PostStart, FreshID
    <2>2. \A m \in asked \cup replies : m.id \in Nat /\ m.id <= nextID
      BY DEF TypeOK, Messages, Ids
    <2> QED BY <2>1, <2>2 DEF TypeOK
  <1>2. ASSUME NEW p \in Posters, PostSend(p) PROVE FrameInv'
    <2> DEFINE frame == [id |-> id[p], req |-> Request(p)]
    <2>1. /\ replies' = replies /\ served \subseteq served'
          /\ \A m \in asked' : m \in asked \/ (m = frame /\ frame.req \in served')
      BY <1>2 DEF PostSend
    <2>2. /\ UNCHANGED <<nextID, id, count>> /\ pc[p] # "idle"
          /\ \A q \in Posters : pc'[q] # "idle" => pc[q] # "idle"
      BY <1>2 DEF PostSend, Fail, TypeOK
    <2>3. frame.id <= nextID /\ \A q \in Posters : pc[q] # "idle" /\ id[q] = frame.id => q = p
      BY <2>2, Working DEF IdInv
    <2> QED BY <2>1, <2>2, <2>3
  <1>3. ASSUME NEW p \in Posters,
               \/ PostRegister(p) \/ PostCheck(p) \/ PostRLock(p) \/ PostReceive(p)
               \/ PostCancelled(p) \/ PostTimeout(p) \/ PostCleanup(p)
        PROVE  FrameInv'
    <2>1. /\ UNCHANGED <<nextID, id, count, peerVars>> /\ pc[p] # "idle"
          /\ \E l : pc' = [pc EXCEPT ![p] = l]
      BY <1>3 DEF PostRegister, PostCheck, PostRLock, PostReceive, PostCancelled, PostTimeout,
                  PostCleanup, Fail
    <2>2. \A q \in Posters : pc'[q] # "idle" => pc[q] # "idle"
      BY <2>1 DEF TypeOK
    <2> QED BY <2>1, <2>2
  <1>4. CASE /\ UNCHANGED <<nextID, id, count, pc, served>>
             /\ asked' \cup replies' \subseteq asked \cup replies
    BY <1>4
  <1>5. CASE \/ DispatchSend \/ CloseStep \/ Connection \/ UNCHANGED vars
             \/ \E m \in replies : DispatchLookup(m)
             \/ \E m \in asked : ServerReply(m)
    <2>1. /\ UNCHANGED <<nextID, id, count, pc, served>>
          /\ asked' \cup replies' \subseteq asked \cup replies
      BY <1>5, ConnectionFrame
      DEF DispatchSend, DispatchLookup, CloseStep, CloseFlag, CloseDrain, CloseConn, DropConn,
          ServerReply, vars
    <2> QED BY <2>1, <1>4
  <1> HIDE DEF FrameInv
  <1> QED BY <1>1, <1>2, <1>3, <1>5, NextSteps DEF PostStep

\* The table holds the calls between their registration and their delete, until the drain.
LEMMA TableStep == TypeOK /\ IdInv /\ TableIsExact /\ [Next]_vars => TableIsExact'
  <1> SUFFICES ASSUME TypeOK, IdInv, TableIsExact, [Next]_vars PROVE TableIsExact'
    OBVIOUS
  <1> USE PostAssumption
      DEF TableIsExact, InFlight, Goto, connVars, dialVars, peerVars, tableVars, chanVars, callVars, endVars, Request
  <1>1. ASSUME NEW p \in Posters, PostStart(p) PROVE TableIsExact'
    <2>1. /\ \A q \in Posters \ {p} : id'[q] = id[q] /\ count'[q] = count[q] /\ pc'[q] = pc[q]
          /\ pc[p] = "idle" /\ pc'[p] = "register" /\ UNCHANGED <<pending, shut>>
      BY <1>1 DEF PostStart, TypeOK
    <2> QED BY <2>1
  <1>2. ASSUME NEW p \in Posters, PostRegister(p) PROVE TableIsExact'
    <2>1. /\ UNCHANGED <<id, count, shut>> /\ pc[p] = "register" /\ pc'[p] = "check"
          /\ \A q \in Posters \ {p} : pc'[q] = pc[q]
          /\ DOMAIN pending' = DOMAIN pending \cup {id[p]} /\ pending'[id[p]] = Request(p)
          /\ \A i \in DOMAIN pending \ {id[p]} : pending'[i] = pending[i]
      BY <1>2 DEF PostRegister, TypeOK
    <2>2. \A q \in Posters \ {p} : pc[q] # "idle" => id[q] # id[p]
      BY <2>1 DEF IdInv
    <2> QED BY <2>1, <2>2
  <1>3. ASSUME NEW p \in Posters,
               \/ PostCheck(p) \/ PostRLock(p) \/ PostSend(p) \/ PostReceive(p)
               \/ PostCancelled(p) \/ PostTimeout(p)
        PROVE  TableIsExact'
    <2>1. /\ UNCHANGED <<id, count, shut, pending>>
          /\ \A q \in Posters \ {p} : pc'[q] = pc[q]
          /\ pc[p] \in {"check", "rlock", "send", "wait"}
          /\ pc'[p] \in {"rlock", "send", "wait", "cleanup"}
      BY <1>3 DEF PostCheck, PostRLock, PostSend, PostReceive, PostCancelled, PostTimeout, Fail,
                  TypeOK
    <2> QED BY <2>1
  <1>4. ASSUME NEW p \in Posters, PostCleanup(p) PROVE TableIsExact'
    <2>1. /\ UNCHANGED <<id, count, shut>> /\ pc[p] = "cleanup" /\ pc'[p] = "idle"
          /\ \A q \in Posters \ {p} : pc'[q] = pc[q]
          /\ DOMAIN pending' = DOMAIN pending \ {id[p]}
          /\ \A i \in DOMAIN pending \ {id[p]} : pending'[i] = pending[i]
      BY <1>4 DEF PostCleanup, TypeOK
    <2>2. \A q \in Posters \ {p} : pc[q] # "idle" => id[q] # id[p]
      BY <2>1 DEF IdInv
    <2> QED BY <2>1, <2>2
  <1>5. CASE CloseDrain
    <2>1. /\ UNCHANGED <<id, count, pc>> /\ DOMAIN pending' = {}
          /\ shut' = shut \cup {pending[i] : i \in DOMAIN pending}
      BY <1>5 DEF CloseDrain
    <2> QED BY <2>1
  <1>6. CASE UNCHANGED <<id, count, pc, pending, shut>>
    BY <1>6
  <1>7. CASE \/ DispatchSend \/ CloseFlag \/ CloseConn \/ Connection \/ UNCHANGED vars
             \/ \E m \in replies : DispatchLookup(m)
             \/ \E m \in asked : ServerReply(m)
    <2>1. UNCHANGED <<id, count, pc, pending, shut>>
      BY <1>7, ConnectionFrame
      DEF DispatchSend, DispatchLookup, CloseFlag, CloseConn, ServerReply, vars
    <2> QED BY <2>1, <1>6
  <1> HIDE DEF TableIsExact
  <1> QED BY <1>1, <1>2, <1>3, <1>4, <1>5, <1>7, NextSteps DEF PostStep, CloseStep

\* A response goes from the frame through the pump to its own channel.
LEMMA ChannelStep ==
    TypeOK /\ IdInv /\ FrameInv /\ TableIsExact /\ OwnAnswer /\ ChannelInv /\ [Next]_vars
        => (OwnAnswer /\ ChannelInv)'
  <1> SUFFICES ASSUME TypeOK, IdInv, FrameInv, TableIsExact, OwnAnswer, ChannelInv, [Next]_vars
               PROVE  (OwnAnswer /\ ChannelInv)'
    OBVIOUS
  <1> USE DEF OwnAnswer, ChannelInv, connVars, dialVars, peerVars, tableVars, chanVars, callVars, endVars
  <1>1. ASSUME NEW p \in Posters, PostReceive(p) PROVE (OwnAnswer /\ ChannelInv)'
    <2>1. Request(p) \in Requests
      BY <1>1, Working DEF PostReceive
    <2> QED BY <1>1, <2>1 DEF PostReceive, TypeOK
  <1>2. ASSUME NEW m \in replies, DispatchLookup(m) PROVE (OwnAnswer /\ ChannelInv)'
    <2>1. ASSUME m.id \in DOMAIN pending PROVE m.req = pending[m.id]
      <3>1. PICK p \in Posters : InFlight(p) /\ id[p] = m.id /\ pending[m.id] = Request(p)
        BY <2>1 DEF TableIsExact
      <3> QED BY <3>1 DEF FrameInv, InFlight
    <2>2. m.req \in served
      BY DEF FrameInv
    <2> QED BY <1>2, <2>1, <2>2 DEF DispatchLookup
  <1>3. CASE DispatchSend
    BY <1>3, ReadingFacts DEF DispatchSend, TypeOK
  <1>4. CASE UNCHANGED <<chan, answer, reading>> /\ served \subseteq served'
    BY <1>4
  <1>5. ASSUME NEW p \in Posters,
               \/ PostStart(p) \/ PostRegister(p) \/ PostCheck(p) \/ PostRLock(p) \/ PostSend(p)
               \/ PostCancelled(p) \/ PostTimeout(p) \/ PostCleanup(p)
        PROVE  (OwnAnswer /\ ChannelInv)'
    <2>1. UNCHANGED <<chan, answer, reading>> /\ served \subseteq served'
      BY <1>5 DEF PostStart, PostRegister, PostCheck, PostRLock, PostSend, PostCancelled,
                  PostTimeout, PostCleanup, Fail
    <2> QED BY <2>1, <1>4
  <1>6. CASE CloseStep \/ Connection \/ UNCHANGED vars \/ \E m \in asked : ServerReply(m)
    <2>1. UNCHANGED <<chan, answer, reading>> /\ served \subseteq served'
      BY <1>6, ConnectionFrame
      DEF CloseStep, CloseFlag, CloseDrain, CloseConn, ServerReply, vars
    <2> QED BY <2>1, <1>4
  <1> HIDE DEF OwnAnswer, ChannelInv
  <1> QED BY <1>1, <1>2, <1>3, <1>5, <1>6, NextSteps DEF PostStep

\* What a call has returned, and that its request is open until then.
LEMMA CallStep ==
    TypeOK /\ IdInv /\ OwnAnswer /\ CallInv /\ [Next]_vars => CallInv'
  <1> SUFFICES ASSUME TypeOK, IdInv, OwnAnswer, CallInv, [Next]_vars PROVE CallInv'
    OBVIOUS
  <1> USE PostAssumption DEF CallInv, Goto, connVars, dialVars, peerVars, tableVars, chanVars, callVars, endVars
  <1>1. ASSUME NEW p \in Posters, PostStart(p) PROVE CallInv'
    <2> DEFINE r == <<p, count[p] + 1>>
    <2>1. r \in Requests /\ count[p] \in Nat
      BY <1>1, Starting DEF PostStart
    <2>2. /\ outcome'[r] = "open" /\ \A x \in Requests \ {r} : outcome'[x] = outcome[x]
          /\ count'[p] = count[p] + 1 /\ pc'[p] = "register" /\ answer' = answer
          /\ \A q \in Posters \ {p} : count'[q] = count[q] /\ pc'[q] = pc[q]
      BY <1>1, <2>1 DEF PostStart, TypeOK
    <2>3. \A q \in Posters : pc'[q] \in {"register", "check", "rlock", "send", "wait"} =>
              outcome'[<<q, count'[q]>>] = "open"
      <3>1. ASSUME NEW q \in Posters \ {p}, pc[q] \in {"register", "check", "rlock", "send", "wait"}
            PROVE  outcome'[<<q, count[q]>>] = "open"
        <4>1. Request(q) \in Requests /\ Request(q) # r
          BY <3>1, Working DEF Request
        <4> QED BY <3>1, <4>1, <2>2 DEF Request
      <3> QED BY <3>1, <2>2
    <2>4. ASSUME NEW q \in Posters, NEW n \in 1..MaxPosts, n > count'[q]
          PROVE  outcome'[<<q, n>>] = "new"
      <3>1. <<q, n>> \in Requests /\ count[q] \in Nat
        BY DEF Requests, TypeOK
      <3>2. <<q, n>> # r /\ n > count[q]
        BY <2>1, <2>2, <2>4, <3>1
      <3> QED BY <3>1, <3>2, <2>2
    <2> QED BY <2>2, <2>3, <2>4 DEF Request
  <1>2. ASSUME NEW p \in Posters, PostStep(p) PROVE CallInv'
    <2> DEFINE r == Request(p)
    <2>1. /\ r \in Requests /\ count' = count /\ pc[p] # "idle"
          /\ \A q \in Posters \ {p} : pc'[q] = pc[q] /\ Request(q) # r
      BY <1>2, Working
      DEF PostStep, PostRegister, PostCheck, PostRLock, PostSend, PostReceive, PostCancelled,
          PostTimeout, PostCleanup, Fail, TypeOK, Request
    <2>2. \/ /\ UNCHANGED <<outcome, answer>>
             /\ pc'[p] \in {"register", "check", "rlock", "send", "wait"} =>
                   pc[p] \in {"register", "check", "rlock", "send", "wait"}
          \/ /\ pc'[p] = "cleanup" /\ \A x \in Requests \ {r} : outcome'[x] = outcome[x]
             /\ \/ outcome'[r] = "failed" /\ answer' = answer
                \/ /\ outcome'[r] = "answered" /\ answer'[r] = r
                   /\ \A x \in Requests \ {r} : answer'[x] = answer[x]
      <3>1. CASE PostRegister(p) \/ PostCleanup(p)
        BY <3>1 DEF PostRegister, PostCleanup, TypeOK
      <3>2. CASE PostCheck(p)
        BY <3>2, <2>1 DEF PostCheck, Fail, TypeOK
      <3>3. CASE PostRLock(p) \/ PostSend(p)
        BY <3>3, <2>1 DEF PostRLock, PostSend, Fail, TypeOK
      <3>4. CASE PostReceive(p)
        BY <3>4, <2>1 DEF PostReceive, OwnAnswer, TypeOK
      <3>5. CASE PostCancelled(p) \/ PostTimeout(p)
        BY <3>5, <2>1 DEF PostCancelled, PostTimeout, Fail, TypeOK
      <3> QED BY <1>2, <3>1, <3>2, <3>3, <3>4, <3>5 DEF PostStep
    <2>3. \A q \in Posters : Request(q)' = Request(q)
      BY <2>1 DEF Request
    <2>4. \A q \in Posters : pc[q] # "idle" => Request(q) \in Requests
      BY Working
    <2>5. \A q \in Posters, n \in 1..MaxPosts : n > count[q] => <<q, n>> \in Requests \ {r}
      <3>1. \A q \in Posters, n \in 1..MaxPosts : <<q, n>> \in Requests
        BY DEF Requests
      <3>2. \A q \in Posters, n \in 1..MaxPosts : n > count[q] => <<q, n>> # r
        BY DEF Request, TypeOK
      <3> QED BY <3>1, <3>2
    <2>6. \A q \in Posters : pc'[q] \in {"register", "check", "rlock", "send", "wait"} =>
              outcome'[Request(q)] = "open"
      BY <2>1, <2>2, <2>4
    <2>7. \A q \in Posters, n \in 1..MaxPosts : n > count[q] => outcome'[<<q, n>>] = "new"
      BY <2>2, <2>5
    <2>8. \A x \in Requests : outcome'[x] = "answered" => answer'[x] = x
      BY <2>2
    <2> QED BY <2>1, <2>3, <2>6, <2>7, <2>8
  <1>3. CASE UNCHANGED <<pc, count, outcome, answer>>
    BY <1>3 DEF Request
  <1>4. CASE \/ DispatchSend \/ CloseStep \/ Connection \/ UNCHANGED vars
             \/ \E m \in replies : DispatchLookup(m)
             \/ \E m \in asked : ServerReply(m)
    <2>1. UNCHANGED <<pc, count, outcome, answer>>
      BY <1>4, ConnectionFrame
      DEF DispatchSend, DispatchLookup, CloseStep, CloseFlag, CloseDrain, CloseConn, ServerReply,
          vars
    <2> QED BY <2>1, <1>3
  <1> HIDE DEF CallInv
  <1> QED BY <1>1, <1>2, <1>4, NextSteps

\* A Post gets past its check after Close only behind a Connect that overtook it, and
\* who got there before has a closed channel.
LEMMA ClosedStep ==
    TypeOK /\ TableIsExact /\ ClosedInv /\ NoWaiterAfterDrain /\ [Next]_vars
        => (ClosedInv /\ NoWaiterAfterDrain)'
  <1> SUFFICES ASSUME TypeOK, TableIsExact, ClosedInv, NoWaiterAfterDrain, [Next]_vars
               PROVE  (ClosedInv /\ NoWaiterAfterDrain)'
    OBVIOUS
  <1> USE DEF ClosedInv, NoWaiterAfterDrain, Goto, connVars, dialVars, peerVars, tableVars, chanVars,
              callVars, endVars, Request
  <1>1. ASSUME NEW p \in Posters, PostStart(p) PROVE (ClosedInv /\ NoWaiterAfterDrain)'
    <2>1. /\ UNCHANGED <<connected, overtaken, closing, shut>> /\ pc'[p] = "register"
          /\ \A q \in Posters \ {p} : pc'[q] = pc[q] /\ count'[q] = count[q]
      BY <1>1 DEF PostStart, TypeOK
    <2> QED BY <2>1
  <1>2. ASSUME NEW p \in Posters, PostStep(p) PROVE (ClosedInv /\ NoWaiterAfterDrain)'
    <2>1. /\ UNCHANGED <<connected, overtaken, closing, shut, count>>
          /\ \A q \in Posters \ {p} : pc'[q] = pc[q]
          /\ pc'[p] \in {"rlock", "send", "wait"} => pc[p] \in {"rlock", "send"} \/ connected
      BY <1>2 DEF PostStep, PostRegister, PostCheck, PostRLock, PostSend, PostReceive,
                  PostCancelled, PostTimeout, PostCleanup, Fail, TypeOK
    <2> QED BY <2>1
  <1>3. CASE CloseDrain
    <2>1. ASSUME NEW p \in Posters, pc[p] \in {"rlock", "send", "wait"} PROVE Request(p) \in shut'
      <3>1. \/ Request(p) \in shut
            \/ id[p] \in DOMAIN pending /\ pending[id[p]] = Request(p)
        BY <2>1 DEF TableIsExact, InFlight
      <3> QED BY <1>3, <3>1 DEF CloseDrain
    <2> QED BY <1>3, <2>1 DEF CloseDrain
  <1>4. CASE Connection
    <2>1. /\ UNCHANGED <<closing, shut, pc, count>>
          /\ overtaken => overtaken'
          /\ connected' => (connected \/ overtaken' \/ closing = "new")
      BY <1>4, ConnectionFrame
    <2> QED BY <2>1
  <1>5. CASE \/ DispatchSend \/ CloseFlag \/ CloseConn \/ UNCHANGED vars
             \/ \E m \in replies : DispatchLookup(m)
             \/ \E m \in asked : ServerReply(m)
    BY <1>5 DEF DispatchSend, DispatchLookup, CloseFlag, CloseConn, ServerReply, vars
  <1> HIDE DEF ClosedInv, NoWaiterAfterDrain
  <1> QED BY <1>1, <1>2, <1>3, <1>4, <1>5, NextSteps DEF CloseStep

-------------------------------------------------------------------------------
\* Every reachable state of the requests satisfies the invariant.
THEOREM PostInvariance == Spec => []PostInv
  <1>1. PostInv /\ [Next]_vars => PostInv'
    BY TypeStep, IdStep, FrameStep, TableStep, ChannelStep, CallStep, ClosedStep DEF PostInv
  <1> QED BY InitInv, <1>1, PTL DEF Spec

\* Every variable of the requests keeps its type.
THEOREM TypeCorrect == Spec => []TypeOK
  <1>1. PostInv => TypeOK
    BY DEF PostInv
  <1> QED BY PostInvariance, <1>1, PTL

\* The table of requests in flight (c.pendingRequests) holds the calls between their
\* registration and their deferred delete, each under its own id, and nothing else.
THEOREM TableExact == Spec => []TableIsExact
  <1>1. PostInv => TableIsExact
    BY DEF PostInv
  <1> QED BY PostInvariance, <1>1, PTL

\* However late, often or out of order the server answers and however many connections
\* break, no Post gets the answer to another request.
THEOREM AnswersAreOwn == Spec => []OwnAnswer
  <1>1. PostInv => OwnAnswer
    BY DEF PostInv
  <1> QED BY PostInvariance, <1>1, PTL

\* After the drain of Close no Post writes or waits on a channel that is not closed,
\* unless a Connect past its closed check raised the flag behind Close.
THEOREM NoWaiterLeft == Spec => []NoWaiterAfterDrain
  <1>1. PostInv => NoWaiterAfterDrain
    BY DEF PostInv
  <1> QED BY PostInvariance, <1>1, PTL

-------------------------------------------------------------------------------
\* A state without a crossed answer is its own image.
LEMMA BarIsOutcome == PostInv => outcomeBar = outcome
  BY DEF PostInv, TypeOK, CallInv, outcomeBar

LEMMA PromiseInit == Init => Promise!Init
  BY DEF Init, Promise!Init, outcomeBar

\* A step of Post, of the pump, of Close or of the network is a step of the promise, or
\* none.
LEMMA PromiseStep ==
    PostInv /\ PostInv' /\ [Next]_vars => [Promise!Next]_<<outcomeBar, served>>
  <1> SUFFICES ASSUME PostInv, PostInv', [Next]_vars
               PROVE  [Promise!Next]_<<outcomeBar, served>>
    OBVIOUS
  <1>1. outcomeBar = outcome /\ outcomeBar' = outcome'
    <2>1. outcomeBar' = outcome'
      BY DEF PostInv, TypeOK, CallInv, outcomeBar
    <2> QED BY <2>1, BarIsOutcome
  <1> USE DEF Goto, connVars, dialVars, peerVars, tableVars, chanVars, callVars, endVars
  <1>2. ASSUME NEW p \in Posters, PostStart(p) PROVE \E r \in Requests : Promise!Ask(r)
    <2>1. <<p, count[p] + 1>> \in Requests /\ count[p] + 1 \in 1..MaxPosts /\ count[p] \in Nat
      BY <1>2, Starting DEF PostStart, PostInv
    <2>2. outcome[<<p, count[p] + 1>>] = "new"
      BY <2>1 DEF PostInv, CallInv
    <2>3. UNCHANGED served /\ outcome' = [outcome EXCEPT ![<<p, count[p] + 1>>] = "open"]
      BY <1>2 DEF PostStart
    <2> QED BY <1>1, <2>1, <2>2, <2>3 DEF Promise!Ask
  <1>3. ASSUME NEW p \in Posters, PostStep(p)
        PROVE  \/ UNCHANGED <<outcome, served>>
               \/ Promise!Serve(Request(p)) \/ Promise!Answer(Request(p)) \/ Promise!Fail(Request(p))
    <2>1. pc[p] \in {"check", "rlock", "send", "wait"} => outcome[Request(p)] = "open"
      BY DEF PostInv, CallInv
    <2>2. CASE PostRegister(p) \/ PostCleanup(p)
      BY <2>2 DEF PostRegister, PostCleanup
    <2>3. CASE PostCheck(p) \/ PostCancelled(p) \/ PostTimeout(p)
      BY <1>1, <2>1, <2>3 DEF PostCheck, PostCancelled, PostTimeout, Fail, Promise!Fail
    <2>4. CASE PostRLock(p) \/ PostSend(p)
      BY <1>1, <2>1, <2>4 DEF PostRLock, PostSend, Fail, Promise!Fail, Promise!Serve
    <2>5. CASE PostReceive(p)
      <3>1. Request(p) \in Requests
        BY <2>5, Working DEF PostReceive, PostInv
      <3>2. Request(p) \in served
        BY <2>5, <3>1 DEF PostReceive, PostInv, ChannelInv
      <3> QED BY <1>1, <2>1, <2>5, <3>2 DEF PostReceive, Promise!Answer
    <2> QED BY <1>3, <2>2, <2>3, <2>4, <2>5 DEF PostStep
  <1>4. ASSUME NEW p \in Posters, PostStep(p) PROVE Request(p) \in Requests
    <2>1. pc[p] # "idle"
      BY <1>4 DEF PostStep, PostRegister, PostCheck, PostRLock, PostSend, PostReceive,
                  PostCancelled, PostTimeout, PostCleanup
    <2> QED BY <2>1, Working DEF PostInv
  <1>5. CASE \/ DispatchSend \/ CloseStep \/ Connection \/ UNCHANGED vars
             \/ \E m \in replies : DispatchLookup(m)
             \/ \E m \in asked : ServerReply(m)
    <2>1. UNCHANGED <<outcome, served>>
      BY <1>5, ConnectionFrame
      DEF DispatchSend, DispatchLookup, CloseStep, CloseFlag, CloseDrain, CloseConn, ServerReply,
          vars
    <2> QED BY <1>1, <2>1
  <1> QED BY <1>1, <1>2, <1>3, <1>4, <1>5, NextSteps DEF Promise!Next

\* Post over the stream keeps what RequestReply promises: each request is asked once,
\* ends once, and ends answered only with the answer that the server gave to it.
THEOREM PostKeepsPromise == Spec => ImplementsRequestReply
  <1> QED BY PromiseInit, PromiseStep, PostInvariance, PTL
          DEF Spec, ImplementsRequestReply, Promise!Spec
===============================================================================
