------------------------- MODULE StreamDispatch_proofs -------------------------
(***************************************************************************)
(* Proofs about StreamSubs, and about StreamDispatch that extends it, for  *)
(* any goroutines, keys, number of subscriptions and bounds.               *)
(*                                                                         *)
(* Each id has at most one goroutine that decides about it: the Subscribe  *)
(* that made it, until its frame is sent, or the Close that won the swap,  *)
(* until it has left the registry.  OwnerInv says who that is and that the *)
(* id is still registered; RegistryIsExact, CloseIsIdempotent and          *)
(* NoOrphanedStream follow from it.                                        *)
(*                                                                         *)
(* Every step of the composition is a step of StreamSubs or leaves it      *)
(* alone, so what is proved of the registry holds with the pump running.   *)
(* The listeners the pump has copied are related to the registry of then   *)
(* by two facts that survive every later change of it: an id keeps its     *)
(* key, and an id that was unsubscribed stays so.                          *)
(***************************************************************************)
EXTENDS StreamDispatch, TLAPS

(***************************************************************************)
(* The registry: StreamSubs.                                               *)
(***************************************************************************)
Owns(u) == pc[u] \in {"subSend", "subRollback", "unsub"}

\* Ids are given out in order, and a goroutine has one exactly while it works.
IdInv ==
    /\ \A i \in Ids : i > nextSubID =>
          /\ handle[i] = "none" /\ keyOf[i] = None
          /\ \A k \in Keys : i \notin subs[k]
    /\ \A i \in Ids : i <= nextSubID => keyOf[i] \in Keys
    /\ \A u \in Users : pc[u] # "idle" => cur[u] \in 1..nextSubID

\* The owner of an id is alone, finds it registered, and knows its handle.
OwnerInv ==
    /\ \A u, v \in Users : Owns(u) /\ Owns(v) /\ cur[u] = cur[v] => u = v
    /\ \A u \in Users : Owns(u) => cur[u] \in subs[keyOf[cur[u]]]
    /\ \A u \in Users : pc[u] \in {"subSend", "subRollback"} => handle[cur[u]] = "none"
    /\ \A u \in Users : pc[u] = "unsub" => handle[cur[u]] = "closed"
    /\ \A u \in Users : pc[u] = "closing" => handle[cur[u]] # "none"
    /\ \A u \in Users : pc[u] = "subRollback" => ~connected \/ conn # "up"

\* Without a connection the server streams nothing to this client.
ServerInv == conn # "up" => server = {}

IInv ==
    /\ TypeOK /\ IdInv /\ OwnerInv /\ ServerInv
    /\ RegistryIsExact /\ CloseIsIdempotent /\ NoOrphanedStream

-------------------------------------------------------------------------------
\* The initial state satisfies the inductive invariant.
LEMMA InitInv == Init => IInv
  <1> SUFFICES ASSUME Init PROVE IInv
    OBVIOUS
  <1> USE DEF Init
  <1>0. hasConn \in BOOLEAN /\ connected \in BOOLEAN /\ dial \in BOOLEAN
    BY Zenon
  <1>1. TypeOK
    BY <1>0, MaxSubsAssumption DEF TypeOK, Ids, Labels
  <1>2. IdInv /\ OwnerInv /\ ServerInv
    BY MaxSubsAssumption DEF IdInv, OwnerInv, ServerInv, Ids, Owns
  <1>3. RegistryIsExact /\ CloseIsIdempotent /\ NoOrphanedStream
    BY DEF RegistryIsExact, CloseIsIdempotent, NoOrphanedStream, Ids
  <1> QED BY <1>1, <1>2, <1>3 DEF IInv

\* A goroutine that works has an id, and the id a key.
LEMMA Working ==
  ASSUME TypeOK, IdInv, NEW u \in Users, pc[u] # "idle"
  PROVE  /\ cur[u] \in Ids /\ cur[u] <= nextSubID /\ cur[u] # 0
         /\ keyOf[cur[u]] \in Keys
  <1>1. cur[u] \in 1..nextSubID /\ nextSubID \in 0..MaxSubs
    BY DEF IdInv, TypeOK
  <1>2. cur[u] \in Ids /\ cur[u] <= nextSubID /\ cur[u] # 0
    BY <1>1, MaxSubsAssumption DEF Ids
  <1> QED BY <1>2 DEF IdInv

\* The next id is new to everybody.
LEMMA Fresh ==
  ASSUME TypeOK, IdInv, nextSubID < MaxSubs
  PROVE  /\ nextSubID + 1 \in Ids /\ handle[nextSubID + 1] = "none"
         /\ \A k \in Keys : nextSubID + 1 \notin subs[k]
         /\ \A v \in Users : pc[v] # "idle" => cur[v] # nextSubID + 1
  <1>1. nextSubID + 1 \in Ids /\ nextSubID + 1 > nextSubID
    BY MaxSubsAssumption DEF TypeOK, Ids
  <1>2. \A v \in Users : pc[v] # "idle" => cur[v] # nextSubID + 1
    BY Working, <1>1 DEF TypeOK, Ids
  <1> QED BY <1>1, <1>2 DEF IdInv

\* A goroutine that unsubscribes finds its key and its id in the registry.
LEMMA Found ==
  ASSUME TypeOK, IdInv, OwnerInv, RegistryIsExact, NEW u \in Users, pc[u] = "unsub"
  PROVE  cur[u] \in subs[keyOf[cur[u]]] /\ keyOf[cur[u]] \in entries
  <1>1. cur[u] \in subs[keyOf[cur[u]]]
    BY DEF OwnerInv, Owns
  <1>2. keyOf[cur[u]] \in Keys
    BY Working
  <1> QED BY <1>1, <1>2 DEF RegistryIsExact

\* A write that takes a mutex leaves all else alone; one that fails finds no connection.
Unsent(u) ==
    /\ UNCHANGED <<registry, handle, failed, network>>
    /\ writer' \in Users \cup {None} /\ hasConn' \in BOOLEAN
    /\ UNCHANGED work \/ (Fail(u) /\ (~connected \/ conn # "up"))

LEMMA UserWrites ==
  ASSUME TypeOK, NEW u \in Users, WriteLock(u) \/ WriteRLock(u) \/ WriteFail(u)
  PROVE  Unsent(u)
  BY DEF TypeOK, Unsent, WriteLock, WriteRLock, WriteFail

\* The connection only gets worse, and the server forgets with it.
Network ==
    /\ UNCHANGED <<registry, handle, work, failed, writeMu>>
    /\ connected' \in BOOLEAN /\ conn' \in {"up", "lost", "nil"} /\ dial' \in BOOLEAN
    /\ connected' => connected
    /\ conn' = "up" => conn = "up"
    /\ \/ conn' # "up" /\ server' = {}
       \/ conn' = conn /\ server' = server

LEMMA Networks == TypeOK /\ ConnStep => Network
  <1> USE DEF TypeOK, Network
  <1>1. TypeOK /\ LoseConn => Network
    BY DEF LoseConn
  <1>2. TypeOK /\ LowerFlag => Network
    BY DEF LowerFlag
  <1>3. TypeOK /\ DropConn => Network
    BY DEF DropConn
  <1>4. TypeOK /\ ConnectLock => Network
    BY DEF ConnectLock
  <1>5. TypeOK /\ ConnectUnlock => Network
    <2> SUFFICES ASSUME TypeOK, ConnectUnlock PROVE Network
      OBVIOUS
    <2>1. /\ dial' \in BOOLEAN /\ connected' = connected /\ conn' = conn /\ server' = server
          /\ UNCHANGED <<registry, handle, work, failed, writeMu>>
      BY Zenon DEF ConnectUnlock
    <2> QED BY <2>1
  <1> QED BY <1>1, <1>2, <1>3, <1>4, <1>5 DEF ConnStep

\* Every step keeps the types.
LEMMA TypeStep == TypeOK /\ IdInv /\ [Next]_vars => TypeOK'
  <1> SUFFICES ASSUME TypeOK, IdInv, [Next]_vars PROVE TypeOK'
    OBVIOUS
  <1> USE MaxSubsAssumption DEF TypeOK, Labels, Goto, Done, registry, work, writeMu, network
  <1>1. ASSUME NEW u \in Users, NEW k \in Keys, Subscribe(u, k) PROVE TypeOK'
    <2>1. nextSubID + 1 \in Ids
      BY <1>1 DEF Subscribe, Ids
    <2> QED BY <1>1, <2>1 DEF Subscribe, Ids
  <1>2. ASSUME NEW u \in Users, NEW i \in Ids, CloseCall(u, i) PROVE TypeOK'
    BY <1>2 DEF CloseCall, Ids
  <1>3. ASSUME NEW u \in Users, SubscribeSend(u) PROVE TypeOK'
    <2>1. server' \subseteq Keys
      BY <1>3, Working DEF SubscribeSend
    <2>2. hasConn' \in BOOLEAN
      BY <1>3, Zenon DEF SubscribeSend
    <2> QED BY <1>3, <2>1, <2>2, Working DEF SubscribeSend
  <1>4. ASSUME NEW u \in Users, SubscribeRollback(u) PROVE TypeOK'
    BY <1>4, Working DEF SubscribeRollback
  <1>5. ASSUME NEW u \in Users, CloseSwap(u) PROVE TypeOK'
    BY <1>5, Working DEF CloseSwap
  <1>6. ASSUME NEW u \in Users, Unsubscribe(u) PROVE TypeOK'
    BY <1>6, Working DEF Unsubscribe
  <1>7. ASSUME NEW u \in Users, UnsubscribeSend(u) PROVE TypeOK'
    <2>1. server' \subseteq Keys
      BY <1>7, Working DEF UnsubscribeSend
    <2>2. hasConn' \in BOOLEAN
      BY <1>7, Zenon DEF UnsubscribeSend
    <2> QED BY <1>7, <2>1, <2>2, Working DEF UnsubscribeSend
  <1>8. ASSUME NEW u \in Users, Unsent(u) PROVE TypeOK'
    BY <1>8, Working DEF Unsent, Fail
  <1>9. CASE Network
    BY <1>9 DEF Network
  <1>10. CASE UNCHANGED vars
    BY <1>10 DEF vars, work, writeMu, network
  <1> QED
    BY <1>1, <1>2, <1>3, <1>4, <1>5, <1>6, <1>7, <1>8, <1>9, <1>10, UserWrites, Networks
    DEF Next, UserStep

\* Ids are given out in order: only Subscribe makes one, and it takes the next.
LEMMA IdStep == TypeOK /\ IdInv /\ TypeOK' /\ [Next]_vars => IdInv'
  <1> SUFFICES ASSUME TypeOK, IdInv, TypeOK', [Next]_vars
               PROVE  IdInv'
    OBVIOUS
  <1> USE MaxSubsAssumption, NoneAssumption DEF TypeOK, IdInv, Goto, Done, registry, work, Ids
  <1>1. ASSUME NEW u \in Users, NEW k \in Keys, Subscribe(u, k) PROVE IdInv'
    BY <1>1, Working DEF Subscribe
  <1>2. ASSUME NEW u \in Users, NEW i \in Ids, CloseCall(u, i) PROVE IdInv'
    BY <1>2, Working DEF CloseCall
  <1>3. ASSUME NEW u \in Users, SubscribeSend(u) PROVE IdInv'
    BY <1>3, Working DEF SubscribeSend
  <1>4. ASSUME NEW u \in Users, SubscribeRollback(u) PROVE IdInv'
    BY <1>4, Working DEF SubscribeRollback
  <1>5. ASSUME NEW u \in Users, CloseSwap(u) PROVE IdInv'
    <2>1. cur[u] \in Ids /\ cur[u] <= nextSubID
      BY <1>5, Working DEF CloseSwap
    <2>2. /\ UNCHANGED <<nextSubID, keyOf, subs>>
          /\ \A i \in Ids : i # cur[u] => handle'[i] = handle[i]
          /\ \A v \in Users : pc'[v] # "idle" => pc[v] # "idle" /\ cur'[v] = cur[v]
      BY <1>5 DEF CloseSwap
    <2> QED BY <2>1, <2>2
  <1>6. ASSUME NEW u \in Users, Unsubscribe(u) PROVE IdInv'
    <2>1. /\ UNCHANGED <<nextSubID, keyOf, handle>>
          /\ \A k \in Keys : subs'[k] \subseteq subs[k]
          /\ \A v \in Users : pc'[v] # "idle" => pc[v] # "idle" /\ cur'[v] = cur[v]
      BY <1>6, Working DEF Unsubscribe
    <2> QED BY <2>1
  <1>7. ASSUME NEW u \in Users, UnsubscribeSend(u) PROVE IdInv'
    BY <1>7, Working DEF UnsubscribeSend
  <1>8. ASSUME NEW u \in Users, Unsent(u) PROVE IdInv'
    BY <1>8, Working DEF Unsent, Fail
  <1>9. CASE Network
    BY <1>9 DEF Network
  <1>10. CASE UNCHANGED vars
    BY <1>10 DEF vars, work, writeMu, network
  <1> QED
    BY <1>1, <1>2, <1>3, <1>4, <1>5, <1>6, <1>7, <1>8, <1>9, <1>10, UserWrites, Networks
    DEF Next, UserStep

\* An id keeps at most one owner: a fresh id has none before its Subscribe, and
\* only one Close wins the swap of an open handle.
LEMMA OwnerStep ==
    TypeOK /\ IdInv /\ OwnerInv /\ RegistryIsExact
        /\ TypeOK' /\ [Next]_vars => OwnerInv'
  <1> SUFFICES ASSUME TypeOK, IdInv, OwnerInv, RegistryIsExact, TypeOK', [Next]_vars
               PROVE  OwnerInv'
    OBVIOUS
  <1> USE DEF TypeOK, OwnerInv, Owns, Goto, Done, registry, work, writeMu, network
  <1>1. ASSUME NEW u \in Users, NEW k \in Keys, Subscribe(u, k) PROVE OwnerInv'
    <2> DEFINE i == nextSubID + 1
    <2>1. /\ i \in Ids /\ handle[i] = "none"
          /\ \A v \in Users : pc[v] # "idle" => cur[v] # i /\ cur[v] \in Ids
      BY <1>1, Fresh, Working DEF Subscribe
    <2>2. /\ pc' = [pc EXCEPT ![u] = "subSend"] /\ cur' = [cur EXCEPT ![u] = i]
          /\ keyOf' = [keyOf EXCEPT ![i] = k] /\ subs' = [subs EXCEPT ![k] = @ \cup {i}]
          /\ UNCHANGED <<handle, connected, conn>> /\ pc[u] = "idle"
      BY <1>1 DEF Subscribe
    <2>3. \A v \in Users : v # u /\ pc'[v] # "idle" =>
              /\ pc'[v] = pc[v] /\ cur'[v] = cur[v] /\ cur[v] # i
              /\ keyOf'[cur[v]] = keyOf[cur[v]]
      BY <2>1, <2>2
    <2>4. i \in subs'[keyOf'[i]]
      BY <2>1, <2>2
    <2>5. pc'[u] = "subSend" /\ cur'[u] = i
      BY <2>2
    <2>6. \A kk \in Keys : subs[kk] \subseteq subs'[kk]
      BY <2>2
    <2>7. \A v \in Users : v # u /\ pc'[v] # "idle" => keyOf[cur[v]] \in Keys
      BY <2>3, Working
    <2>8. (\A v \in Users : Owns(v) => cur[v] \in subs[keyOf[cur[v]]])'
      BY <2>3, <2>4, <2>5, <2>6, <2>7
    <2> HIDE DEF i
    <2> QED BY <2>1, <2>2, <2>3, <2>5, <2>8
  <1>2. ASSUME NEW u \in Users, NEW i \in Ids, CloseCall(u, i) PROVE OwnerInv'
    BY <1>2, Working DEF CloseCall
  <1>3. ASSUME NEW u \in Users, SubscribeSend(u) PROVE OwnerInv'
    BY <1>3, Working DEF SubscribeSend
  <1>4. ASSUME NEW u \in Users, SubscribeRollback(u) PROVE OwnerInv'
    BY <1>4, Working DEF SubscribeRollback
  <1>5. ASSUME NEW u \in Users, CloseSwap(u) PROVE OwnerInv'
    <2>1. CASE handle[cur[u]] = "open"
      <3>1. cur[u] \in Ids /\ keyOf[cur[u]] \in Keys
        BY <1>5, Working DEF CloseSwap
      <3>2. cur[u] \in subs[keyOf[cur[u]]]
        BY <2>1, <3>1 DEF RegistryIsExact
      <3>3. \A v \in Users : Owns(v) => cur[v] # cur[u]
        BY <2>1
      <3>4. /\ pc' = [pc EXCEPT ![u] = "unsub"]
            /\ handle' = [handle EXCEPT ![cur[u]] = "closed"]
            /\ UNCHANGED <<cur, subs, keyOf, connected, conn>>
        BY <1>5, <2>1 DEF CloseSwap
      <3> QED BY <3>1, <3>2, <3>3, <3>4
    <2>2. CASE handle[cur[u]] = "closed"
      BY <1>5, <2>2, Working DEF CloseSwap
    <2> QED BY <1>5, <2>1, <2>2 DEF CloseSwap
  <1>6. ASSUME NEW u \in Users, Unsubscribe(u) PROVE OwnerInv'
    BY <1>6, Working DEF Unsubscribe
  <1>7. ASSUME NEW u \in Users, UnsubscribeSend(u) PROVE OwnerInv'
    BY <1>7, Working DEF UnsubscribeSend
  <1>8. ASSUME NEW u \in Users, Unsent(u) PROVE OwnerInv'
    BY <1>8, Working DEF Unsent, Fail
  <1>9. CASE Network
    BY <1>9 DEF Network
  <1>10. CASE UNCHANGED vars
    BY <1>10 DEF vars, work, writeMu, network
  <1> QED
    BY <1>1, <1>2, <1>3, <1>4, <1>5, <1>6, <1>7, <1>8, <1>9, <1>10, UserWrites, Networks
    DEF Next, UserStep

\* A lost connection stays lost, and nothing is streamed on it.
LEMMA ServerStep == TypeOK /\ IdInv /\ ServerInv /\ TypeOK' /\ [Next]_vars => ServerInv'
  <1> SUFFICES ASSUME TypeOK, IdInv, ServerInv, TypeOK', [Next]_vars
               PROVE  ServerInv'
    OBVIOUS
  <1> USE DEF TypeOK, ServerInv, Goto, Done, registry, work, writeMu, network
  <1>1. ASSUME NEW u \in Users, NEW k \in Keys, Subscribe(u, k) PROVE ServerInv'
    BY <1>1, Working DEF Subscribe
  <1>2. ASSUME NEW u \in Users, NEW i \in Ids, CloseCall(u, i) PROVE ServerInv'
    BY <1>2, Working DEF CloseCall
  <1>3. ASSUME NEW u \in Users, SubscribeSend(u) PROVE ServerInv'
    BY <1>3, Working DEF SubscribeSend
  <1>4. ASSUME NEW u \in Users, SubscribeRollback(u) PROVE ServerInv'
    BY <1>4, Working DEF SubscribeRollback
  <1>5. ASSUME NEW u \in Users, CloseSwap(u) PROVE ServerInv'
    BY <1>5, Working DEF CloseSwap
  <1>6. ASSUME NEW u \in Users, Unsubscribe(u) PROVE ServerInv'
    BY <1>6, Working DEF Unsubscribe
  <1>7. ASSUME NEW u \in Users, UnsubscribeSend(u) PROVE ServerInv'
    BY <1>7, Working DEF UnsubscribeSend
  <1>8. ASSUME NEW u \in Users, Unsent(u) PROVE ServerInv'
    BY <1>8, Working DEF Unsent, Fail
  <1>9. CASE Network
    BY <1>9 DEF Network
  <1>10. CASE UNCHANGED vars
    BY <1>10 DEF vars, work, writeMu, network
  <1> QED
    BY <1>1, <1>2, <1>3, <1>4, <1>5, <1>6, <1>7, <1>8, <1>9, <1>10, UserWrites, Networks
    DEF Next, UserStep

\* The registry stays exact: the one that removes a listener is its owner.
LEMMA RegistryStep ==
    TypeOK /\ IdInv /\ OwnerInv /\ RegistryIsExact
        /\ TypeOK' /\ [Next]_vars => RegistryIsExact'
  <1> SUFFICES ASSUME TypeOK, IdInv, OwnerInv, RegistryIsExact, TypeOK', [Next]_vars
               PROVE  RegistryIsExact'
    OBVIOUS
  <1> USE DEF TypeOK, RegistryIsExact, Goto, Done, registry, work, writeMu, network
  <1>1. ASSUME NEW u \in Users, NEW k \in Keys, Subscribe(u, k) PROVE RegistryIsExact'
    <2> DEFINE i == nextSubID + 1
    <2>1. /\ i \in Ids /\ handle[i] = "none"
          /\ \A kk \in Keys : i \notin subs[kk]
          /\ \A v \in Users : pc[v] # "idle" => cur[v] # i
      BY <1>1, Fresh DEF Subscribe
    <2>2. /\ pc' = [pc EXCEPT ![u] = "subSend"] /\ cur' = [cur EXCEPT ![u] = i]
          /\ keyOf' = [keyOf EXCEPT ![i] = k] /\ subs' = [subs EXCEPT ![k] = @ \cup {i}]
          /\ entries' = entries \cup {k} /\ UNCHANGED handle /\ pc[u] = "idle"
      BY <1>1 DEF Subscribe
    <2> HIDE DEF i
    <2>3. ASSUME NEW j \in Ids, handle'[j] = "open" PROVE j \in subs'[keyOf'[j]]
      <3>1. j # i /\ j \in subs[keyOf[j]] /\ keyOf'[j] = keyOf[j]
        BY <2>1, <2>2, <2>3
      <3>2. keyOf[j] = k \/ subs'[keyOf[j]] = subs[keyOf[j]]
        BY <2>2
      <3> QED BY <2>2, <3>1, <3>2
    <2>4. ASSUME NEW kk \in Keys, NEW j \in subs'[kk]
          PROVE  /\ keyOf'[j] = kk /\ kk \in entries'
                 /\ \/ handle'[j] = "open"
                    \/ \E v \in Users :
                          cur'[v] = j /\ pc'[v] \in {"subSend", "subRollback", "unsub"}
      <3>1. CASE j = i
        BY <2>1, <2>2, <3>1
      <3>2. CASE j # i
        <4>1. j \in subs[kk] /\ j \in Ids
          BY <2>2, <3>2
        <4>2. \A v \in Users : pc[v] # "idle" => pc'[v] = pc[v] /\ cur'[v] = cur[v]
          BY <2>2
        <4> QED BY <2>2, <3>2, <4>1, <4>2
      <3> QED BY <3>1, <3>2
    <2> QED BY <2>3, <2>4
  <1>2. ASSUME NEW u \in Users, NEW i \in Ids, CloseCall(u, i) PROVE RegistryIsExact'
    BY <1>2, Working DEF CloseCall
  <1>3. ASSUME NEW u \in Users, SubscribeSend(u) PROVE RegistryIsExact'
    BY <1>3, Working DEF OwnerInv, Owns, SubscribeSend
  <1>4. ASSUME NEW u \in Users, SubscribeRollback(u) PROVE RegistryIsExact'
    BY <1>4, Working DEF OwnerInv, Owns, SubscribeRollback
  <1>5. ASSUME NEW u \in Users, CloseSwap(u) PROVE RegistryIsExact'
    BY <1>5, Working DEF CloseSwap
  <1>6. ASSUME NEW u \in Users, Unsubscribe(u) PROVE RegistryIsExact'
    <2> DEFINE i == cur[u]
    <2>1. /\ pc[u] = "unsub" /\ i \in Ids /\ keyOf[i] \in Keys
          /\ i \in subs[keyOf[i]] /\ keyOf[i] \in entries /\ handle[i] = "closed"
          /\ \A v \in Users : v # u /\ Owns(v) => cur[v] # i
      BY <1>6, Working, Found DEF Unsubscribe, OwnerInv, Owns
    <2>2. /\ subs' = [subs EXCEPT ![keyOf[i]] = @ \ {i}]
          /\ UNCHANGED <<keyOf, handle>>
          /\ \A v \in Users : v # u => pc'[v] = pc[v] /\ cur'[v] = cur[v]
          /\ \/ entries' = entries
             \/ entries' = entries \ {keyOf[i]} /\ subs[keyOf[i]] = {i}
      BY <1>6, <2>1 DEF Unsubscribe
    <2> HIDE DEF i
    <2>3. ASSUME NEW j \in Ids, handle'[j] = "open" PROVE j \in subs'[keyOf'[j]]
      <3>1. j # i /\ j \in subs[keyOf[j]]
        BY <2>1, <2>2, <2>3
      <3>2. keyOf[j] = keyOf[i] \/ subs'[keyOf[j]] = subs[keyOf[j]]
        BY <2>2
      <3> QED BY <2>1, <2>2, <3>1, <3>2
    <2>4. ASSUME NEW kk \in Keys, NEW j \in subs'[kk]
          PROVE  /\ keyOf'[j] = kk /\ kk \in entries'
                 /\ \/ handle'[j] = "open"
                    \/ \E v \in Users :
                          cur'[v] = j /\ pc'[v] \in {"subSend", "subRollback", "unsub"}
      <3>1. j \in subs[kk] /\ j # i
        BY <2>1, <2>2
      <3>2. keyOf[j] = kk /\ kk \in entries'
        BY <2>2, <3>1
      <3>3. \/ handle[j] = "open"
            \/ \E v \in Users : v # u /\ Owns(v) /\ cur[v] = j
        BY <2>1, <3>1 DEF i, Owns
      <3> QED BY <2>2, <3>2, <3>3 DEF Owns
    <2> QED BY <2>3, <2>4
  <1>7. ASSUME NEW u \in Users, UnsubscribeSend(u) PROVE RegistryIsExact'
    BY <1>7, Working DEF UnsubscribeSend
  <1>8. ASSUME NEW u \in Users, Unsent(u) PROVE RegistryIsExact'
    BY <1>8, Working DEF Unsent, Fail
  <1>9. CASE Network
    BY <1>9 DEF Network
  <1>10. CASE UNCHANGED vars
    BY <1>10 DEF vars, work, writeMu, network
  <1> QED
    BY <1>1, <1>2, <1>3, <1>4, <1>5, <1>6, <1>7, <1>8, <1>9, <1>10, UserWrites, Networks
    DEF Next, UserStep

\* An unsubscribe finds its listener: it owns the id.
LEMMA CloseStep ==
    TypeOK /\ IdInv /\ OwnerInv /\ RegistryIsExact /\ CloseIsIdempotent
        /\ TypeOK' /\ [Next]_vars => CloseIsIdempotent'
  <1> SUFFICES ASSUME TypeOK, IdInv, OwnerInv, RegistryIsExact, CloseIsIdempotent,
                      TypeOK', [Next]_vars
               PROVE  CloseIsIdempotent'
    OBVIOUS
  <1> USE DEF TypeOK, CloseIsIdempotent, Goto, Done, registry, work, writeMu, network
  <1>1. ASSUME NEW u \in Users, NEW k \in Keys, Subscribe(u, k) PROVE CloseIsIdempotent'
    BY <1>1, Working DEF Subscribe
  <1>2. ASSUME NEW u \in Users, NEW i \in Ids, CloseCall(u, i) PROVE CloseIsIdempotent'
    BY <1>2, Working DEF CloseCall
  <1>3. ASSUME NEW u \in Users, SubscribeSend(u) PROVE CloseIsIdempotent'
    BY <1>3, Working DEF SubscribeSend
  <1>4. ASSUME NEW u \in Users, SubscribeRollback(u) PROVE CloseIsIdempotent'
    BY <1>4, Working DEF SubscribeRollback
  <1>5. ASSUME NEW u \in Users, CloseSwap(u) PROVE CloseIsIdempotent'
    BY <1>5, Working DEF CloseSwap
  <1>6. ASSUME NEW u \in Users, Unsubscribe(u) PROVE CloseIsIdempotent'
    BY <1>6, Working, Found DEF Unsubscribe
  <1>7. ASSUME NEW u \in Users, UnsubscribeSend(u) PROVE CloseIsIdempotent'
    BY <1>7, Working DEF UnsubscribeSend
  <1>8. ASSUME NEW u \in Users, Unsent(u) PROVE CloseIsIdempotent'
    BY <1>8, Working DEF Unsent, Fail
  <1>9. CASE Network
    BY <1>9 DEF Network
  <1>10. CASE UNCHANGED vars
    BY <1>10 DEF vars, work, writeMu, network
  <1> QED
    BY <1>1, <1>2, <1>3, <1>4, <1>5, <1>6, <1>7, <1>8, <1>9, <1>10, UserWrites, Networks
    DEF Next, UserStep

\* A key that loses its last listener is owed an unsubscribe frame.
LEMMA StreamStep ==
    TypeOK /\ IdInv /\ OwnerInv /\ ServerInv /\ RegistryIsExact /\ NoOrphanedStream
        /\ TypeOK' /\ [Next]_vars => NoOrphanedStream'
  <1> SUFFICES ASSUME TypeOK, IdInv, OwnerInv, ServerInv, RegistryIsExact, NoOrphanedStream,
                      TypeOK', [Next]_vars
               PROVE  NoOrphanedStream'
    OBVIOUS
  <1> USE DEF TypeOK, NoOrphanedStream, Live, Goto, Done, registry, work, writeMu, network
  <1>1. ASSUME NEW u \in Users, NEW k \in Keys, Subscribe(u, k) PROVE NoOrphanedStream'
    BY <1>1, Working DEF Subscribe
  <1>2. ASSUME NEW u \in Users, NEW i \in Ids, CloseCall(u, i) PROVE NoOrphanedStream'
    BY <1>2, Working DEF CloseCall
  <1>3. ASSUME NEW u \in Users, SubscribeSend(u) PROVE NoOrphanedStream'
    BY <1>3, Working DEF SubscribeSend, OwnerInv, Owns
  <1>4. ASSUME NEW u \in Users, SubscribeRollback(u) PROVE NoOrphanedStream'
    BY <1>4, Working DEF SubscribeRollback, OwnerInv, ServerInv
  <1>5. ASSUME NEW u \in Users, CloseSwap(u) PROVE NoOrphanedStream'
    BY <1>5, Working DEF CloseSwap
  <1>6. ASSUME NEW u \in Users, Unsubscribe(u) PROVE NoOrphanedStream'
    BY <1>6, Working DEF Unsubscribe
  <1>7. ASSUME NEW u \in Users, UnsubscribeSend(u) PROVE NoOrphanedStream'
    BY <1>7, Working DEF UnsubscribeSend, ServerInv
  <1>8. ASSUME NEW u \in Users, Unsent(u) PROVE NoOrphanedStream'
    BY <1>8, Working DEF Unsent, Fail, ServerInv
  <1>9. CASE Network
    BY <1>9 DEF Network
  <1>10. CASE UNCHANGED vars
    BY <1>10 DEF vars, work, writeMu, network
  <1> QED
    BY <1>1, <1>2, <1>3, <1>4, <1>5, <1>6, <1>7, <1>8, <1>9, <1>10, UserWrites, Networks
    DEF Next, UserStep

-------------------------------------------------------------------------------
\* The inductive invariant holds of every execution.
THEOREM SubsInvariance == Spec => []IInv
  <1>1. IInv /\ [Next]_vars => IInv'
    BY TypeStep, IdStep, OwnerStep, ServerStep, RegistryStep, CloseStep, StreamStep
    DEF IInv
  <1> QED BY InitInv, <1>1, PTL DEF Spec

\* Every variable of StreamSubs keeps its type.
THEOREM SubsTypeCorrect == Spec => []TypeOK
  <1>1. IInv => TypeOK
    BY DEF IInv
  <1> QED BY SubsInvariance, <1>1, PTL

\* stream.go:245-306: the registry holds the listeners that are entitled to it and no
\* other, whatever Subscribe and Close calls interleave and frames fail.
THEOREM RegistryExact == Spec => []RegistryIsExact
  <1>1. IInv => RegistryIsExact
    BY DEF IInv
  <1> QED BY SubsInvariance, <1>1, PTL

\* stream.go:230: no Close of a Subscription, however many there are, reports a missing
\* listener.
THEOREM CloseIdempotent == Spec => []CloseIsIdempotent
  <1>1. IInv => CloseIsIdempotent
    BY DEF IInv
  <1> QED BY SubsInvariance, <1>1, PTL

\* stream.go:299: whoever removes the last listener of a streamed key will send the
\* unsubscribe frame.
THEOREM StreamsOwned == Spec => []NoOrphanedStream
  <1>1. IInv => NoOrphanedStream
    BY DEF IInv
  <1> QED BY SubsInvariance, <1>1, PTL

-------------------------------------------------------------------------------
(***************************************************************************)
(* The dispatch: StreamDispatch.                                           *)
(***************************************************************************)
\* Before the copy there is nobody to call.
EarlyInv == stage \in {"reading", "matching"} => copied = {} /\ todo = {} /\ owed = {}

\* An unsubscribed id stays unsubscribed.
GoneInv == \A i \in gone : /\ handle[i] = "closed"
                           /\ ~\E u \in Users : pc[u] = "unsub" /\ cur[u] = i

DispatchInv ==
    /\ DispatchTypeOK /\ EarlyInv /\ GoneInv
    /\ LegibleFeedsAreServed /\ CrosstalkIsKnown /\ RemovedHearsNothing

-------------------------------------------------------------------------------
\* A step of the composition is a step of the registry or none.
LEMMA StepIsSubsStep == [DispatchNext]_dvars => [Next]_vars
  <1> SUFFICES ASSUME [DispatchNext]_dvars PROVE [Next]_vars
    OBVIOUS
  <1>1. CASE \E u \in Users, k \in Keys : UserSubscribe(u, k)
    BY <1>1 DEF UserSubscribe, Next
  <1>2. CASE \E u \in Users, i \in Ids : UserClose(u, i)
    BY <1>2 DEF UserClose, Next
  <1>3. CASE \E u \in Users : UserContinue(u)
    BY <1>3 DEF UserContinue, Next, UserStep
  <1>4. CASE \E k \in Keys : ServerSend(k)
    BY <1>4 DEF ServerSend
  <1>5. CASE PumpStep
    BY <1>5 DEF PumpStep, Read, DispatchCopy, DispatchUnlock, CallbackStart,
                CallbackReturn, DispatchDone
  <1>6. CASE Cut \/ Lower \/ ConnectReturn
    BY <1>6 DEF Cut, Lower, ConnectReturn, ConnStep, Next
  <1>7. CASE UNCHANGED dvars
    BY <1>7 DEF dvars
  <1> QED BY <1>1, <1>2, <1>3, <1>4, <1>5, <1>6, <1>7 DEF DispatchNext

\* stream.go:413: the registry with the read pump and its callbacks is the registry
\* of StreamSubs: what is proved of Spec is true of DispatchSpec.
THEOREM DispatchImplementsSubs == DispatchSpec => Spec
  <1>1. DispatchInit => Init
    BY DEF DispatchInit
  <1> QED BY <1>1, StepIsSubsStep, PTL DEF DispatchSpec, Spec

-------------------------------------------------------------------------------
\* A listener that matches a frame has a key like the frame's feed.
LEMMA MatchingKeys ==
  ASSUME NEW k \in Keys, NEW f \in Keys, Match(k, MessageOf(f))
  PROVE  /\ k.typ = f.typ /\ k.coin = f.coin
         /\ k.user = f.user \/ k.typ = "orderUpdates"
  <1> DEFINE m == MessageOf(f)
  <1>1. k.typ \in Types /\ f.typ \in Types
    BY KeysAssumption
  <1>2. k.typ = f.typ
    <2>1. ChannelOf(k.typ) = ChannelOf(f.typ)
      BY DEF Match, MessageOf
    <2>2. k.typ # "user" /\ f.typ # "user"
      BY <1>1 DEF Types
    <2> QED BY <2>1, <2>2 DEF ChannelOf
  <1>3. /\ (k.coin # "") <=> k.typ \in CoinTypes
        /\ (k.user # "") <=> k.typ \in UserTypes
        /\ (f.coin # "") <=> k.typ \in CoinTypes
        /\ (f.user # "") <=> k.typ \in UserTypes
    BY <1>2, KeysAssumption
  <1>4. CASE k.coin = "" /\ k.user = ""
    BY <1>2, <1>3, <1>4
  <1>5. CASE k.typ = "orderUpdates"
    <2>1. k.typ \notin CoinTypes
      BY <1>5 DEF CoinTypes
    <2> QED BY <1>2, <1>3, <1>5, <2>1
  <1>6. CASE k.coin \in {"", m.coin} /\ k.user \in {"", m.user}
    <2>1. m.coin \in {"", f.coin} /\ m.user \in {"", f.user}
      BY DEF MessageOf
    <2> QED BY <1>2, <1>3, <1>6, <2>1
  <1> QED BY <1>4, <1>5, <1>6 DEF Match

\* A frame of a legible feed matches its own key.
LEMMA LegibleMatches ==
  ASSUME NEW f \in Keys, Legible(f)
  PROVE  Match(f, MessageOf(f))
  <1>1. f.typ \in Types
    BY KeysAssumption
  <1>2. CASE f.typ = "orderUpdates"
    BY <1>1, <1>2 DEF Match, MessageOf
  <1>3. CASE f.typ \notin ArrayTypes \cup UncoinedTypes \cup UnuserTypes
    BY <1>1, <1>3 DEF Match, MessageOf
  <1> QED BY <1>2, <1>3 DEF Legible

\* A registered id has the key it is registered under, and is not unsubscribed.
LEMMA Registered ==
  ASSUME IInv, NEW k \in Keys, NEW i \in subs[k]
  PROVE  /\ i \in 1..nextSubID /\ keyOf[i] = k
         /\ \/ handle[i] # "closed"
            \/ \E u \in Users : pc[u] = "unsub" /\ cur[u] = i
  <1>1. i \in Ids /\ keyOf[i] = k
    BY DEF IInv, RegistryIsExact, TypeOK
  <1>2. i \in 1..nextSubID
    BY <1>1, MaxSubsAssumption DEF IInv, IdInv, TypeOK, Ids
  <1>3. \/ handle[i] = "open"
        \/ \E u \in Users :
              cur[u] = i /\ pc[u] \in {"subSend", "subRollback", "unsub"}
    BY DEF IInv, RegistryIsExact
  <1> QED BY <1>1, <1>2, <1>3 DEF IInv, OwnerInv

-------------------------------------------------------------------------------
LEMMA DispatchInitInv == DispatchInit => DispatchInv
  <1> SUFFICES ASSUME DispatchInit PROVE DispatchInv
    OBVIOUS
  <1>1. <<>> \in Seq(Keys) /\ Len(<<>>) = 0
    OBVIOUS
  <1> QED
    BY <1>1, MaxWireAssumption
    DEF DispatchInit, DispatchInv, DispatchTypeOK, EarlyInv, GoneInv, CrosstalkIsKnown,
        LegibleFeedsAreServed, RemovedHearsNothing, Stages

\* A registry step keeps the ids, their keys, and who is unsubscribed.
LEMMA SubsStepKeeps ==
  ASSUME IInv, IInv', [Next]_vars,
         NEW i \in 1..nextSubID
  PROVE  /\ nextSubID' \in Nat /\ i \in 1..nextSubID' /\ keyOf'[i] = keyOf[i]
         /\ handle[i] = "closed" /\ (~\E u \in Users : pc[u] = "unsub" /\ cur[u] = i)
            => handle'[i] = "closed" /\ ~\E u \in Users : pc'[u] = "unsub" /\ cur'[u] = i
  <1> USE DEF IInv, TypeOK
  <1>0. i \in Ids /\ nextSubID \in Nat /\ i # 0 /\ i <= nextSubID
    BY MaxSubsAssumption DEF Ids
  <1>1. CASE \E u \in Users, k \in Keys : Subscribe(u, k)
    <2>1. PICK u \in Users, k \in Keys : Subscribe(u, k)
      BY <1>1
    <2>2. /\ nextSubID' = nextSubID + 1 /\ keyOf' = [keyOf EXCEPT ![nextSubID + 1] = k]
          /\ pc' = [pc EXCEPT ![u] = "subSend"] /\ cur' = [cur EXCEPT ![u] = nextSubID + 1]
          /\ handle' = handle
      BY <2>1 DEF Subscribe, Goto
    <2> QED BY <1>0, <2>2
  <1>2. CASE \E u \in Users, j \in Ids : CloseCall(u, j)
    BY <1>0, <1>2 DEF CloseCall, Goto, registry
  <1>3. CASE \E u \in Users : SubscribeSend(u)
    <2>1. PICK u \in Users : SubscribeSend(u)
      BY <1>3
    <2>2. handle[cur[u]] = "none" /\ pc[u] # "idle"
      BY <2>1 DEF SubscribeSend, OwnerInv
    <2>3. cur[u] \in Ids
      BY <2>2, Working
    <2> QED BY <1>0, <2>1, <2>2, <2>3 DEF SubscribeSend, Done, Goto, registry
  <1>4. CASE \E u \in Users : SubscribeRollback(u)
    BY <1>0, <1>4 DEF SubscribeRollback, Done, Goto
  <1>5. CASE \E u \in Users : CloseSwap(u)
    <2>1. PICK u \in Users : CloseSwap(u)
      BY <1>5
    <2>2. cur[u] \in Ids
      BY <2>1, Working DEF CloseSwap
    <2> QED BY <1>0, <2>1, <2>2 DEF CloseSwap, Done, Goto, registry
  <1>6. CASE \E u \in Users : Unsubscribe(u)
    BY <1>0, <1>6 DEF Unsubscribe, Done, Goto
  <1>7. CASE \E u \in Users : UnsubscribeSend(u)
    BY <1>0, <1>7 DEF UnsubscribeSend, Done, Goto, registry
  <1>8. CASE \E u \in Users : Unsent(u)
    BY <1>0, <1>8 DEF Unsent, Fail, Done, Goto, registry, work
  <1>9. CASE Network
    BY <1>0, <1>9 DEF Network, registry, work
  <1>10. CASE UNCHANGED vars
    BY <1>0, <1>10 DEF vars, registry, work
  <1> QED
    BY <1>1, <1>2, <1>3, <1>4, <1>5, <1>6, <1>7, <1>8, <1>9, <1>10, UserWrites, Networks
    DEF Next, UserStep

\* The steps of callers and callbacks, and the loss of the connection.
LEMMA CallerStep ==
  ASSUME IInv, IInv', [Next]_vars, DispatchInv,
         UNCHANGED <<frame, copied, todo, owed, gone>>,
         wire' \in Seq(Keys), Len(wire') <= MaxWire,
         stage' = stage \/ (stage = "callback" /\ stage' = "acted")
  PROVE  DispatchInv'
  <1> USE DEF DispatchInv
  <1>1. \A i \in 1..nextSubID : i \in 1..nextSubID'
    BY SubsStepKeeps
  <1>3. DispatchTypeOK'
    BY <1>1 DEF DispatchTypeOK, Stages
  <1>4. EarlyInv'
    BY DEF EarlyInv
  <1>5. GoneInv'
    <2> SUFFICES ASSUME NEW i \in gone
                 PROVE  /\ handle'[i] = "closed"
                        /\ ~\E u \in Users : pc'[u] = "unsub" /\ cur'[u] = i
      BY DEF GoneInv
    <2>1. i \in 1..nextSubID
      BY DEF DispatchTypeOK
    <2> QED BY <2>1, SubsStepKeeps DEF GoneInv
  <1>6. CrosstalkIsKnown'
    <2> SUFFICES ASSUME NEW i \in todo
                 PROVE  keyOf'[i] = keyOf[i]
      BY DEF CrosstalkIsKnown
    <2> QED BY SubsStepKeeps DEF DispatchTypeOK
  <1>7. RemovedHearsNothing' /\ LegibleFeedsAreServed'
    BY DEF RemovedHearsNothing, LegibleFeedsAreServed
  <1> QED BY <1>3, <1>4, <1>5, <1>6, <1>7

\* Read: the frame of the head of the wire, and who was unsubscribed by then.
LEMMA ReadStep == ASSUME IInv, DispatchInv, Read PROVE DispatchInv'
  <1> USE DEF DispatchInv, Read
  <1>1. UNCHANGED <<subs, nextSubID, keyOf, handle, pc, cur>>
    BY DEF vars, registry, work
  <1>2. frame' \in Keys /\ wire' \in Seq(Keys) /\ Len(wire') = Len(wire) - 1
    <2>1. wire \in Seq(Keys) /\ wire # <<>>
      BY DEF DispatchTypeOK
    <2> QED BY <2>1
  <1>3. Len(wire') <= MaxWire
    BY <1>2, MaxWireAssumption DEF DispatchTypeOK
  <1>4. /\ copied' = {} /\ todo' = {} /\ owed' = {}
        /\ copied = {} /\ todo = {} /\ owed = {}
    BY DEF EarlyInv
  <1>5. DispatchTypeOK'
    BY <1>1, <1>2, <1>3, <1>4, NoneAssumption DEF DispatchTypeOK, Stages, Removed
  <1>6. GoneInv'
    BY <1>1 DEF GoneInv, Removed
  <1> QED
    BY <1>4, <1>5, <1>6
    DEF EarlyInv, CrosstalkIsKnown, LegibleFeedsAreServed, RemovedHearsNothing

\* DispatchCopy: the listeners that match, none of them unsubscribed.
LEMMA CopyStep == ASSUME IInv, DispatchInv, DispatchCopy PROVE DispatchInv'
  <1> USE DEF DispatchInv, DispatchCopy
  <1>1. UNCHANGED <<subs, nextSubID, keyOf, handle, pc, cur>>
    BY DEF vars, registry, work
  <1>2. frame \in Keys
    BY DEF DispatchTypeOK
  <1>3. \A i \in MatchingIds(frame) :
           \E k \in Keys : i \in subs[k] /\ Match(k, MessageOf(frame))
    BY DEF MatchingIds
  <1>4. MatchingIds(frame) \subseteq 1..nextSubID /\ subs[frame] \subseteq 1..nextSubID
    BY <1>2, <1>3, Registered
  <1>5. DispatchTypeOK'
    BY <1>1, <1>4 DEF DispatchTypeOK, Stages
  <1>6. EarlyInv' /\ GoneInv'
    BY <1>1 DEF EarlyInv, GoneInv
  <1>7. CrosstalkIsKnown'
    <2> SUFFICES ASSUME NEW i \in MatchingIds(frame)
                 PROVE  /\ keyOf[i].typ = frame.typ /\ keyOf[i].coin = frame.coin
                        /\ keyOf[i].user = frame.user \/ keyOf[i].typ = "orderUpdates"
      BY <1>1 DEF CrosstalkIsKnown
    <2>1. PICK k \in Keys : i \in subs[k] /\ Match(k, MessageOf(frame))
      BY <1>3
    <2>2. keyOf[i] = k
      BY <2>1, Registered
    <2> QED BY <1>2, <2>1, <2>2, MatchingKeys
  <1>8. RemovedHearsNothing'
    <2>1. \A i \in MatchingIds(frame) : i \notin gone
      BY <1>3, Registered DEF GoneInv
    <2> QED BY <2>1 DEF RemovedHearsNothing
  <1>9. LegibleFeedsAreServed'
    <2> SUFFICES ASSUME Legible(frame)
                 PROVE  subs[frame] \subseteq MatchingIds(frame)
      BY DEF LegibleFeedsAreServed
    <2> QED BY <1>2, LegibleMatches DEF MatchingIds
  <1> QED BY <1>5, <1>6, <1>7, <1>8, <1>9

\* The rest of the pump's steps only shrink the set of listeners to call.
LEMMA PumpRest ==
  ASSUME IInv, DispatchInv,
         DispatchUnlock \/ (\E i \in todo : CallbackStart(i)) \/ CallbackReturn \/ DispatchDone
  PROVE  DispatchInv'
  <1>1. UNCHANGED <<subs, nextSubID, keyOf, handle, pc, cur, wire>>
    BY DEF vars, registry, work, DispatchUnlock, CallbackStart, CallbackReturn, DispatchDone
  <1>2. CASE DispatchDone
    BY <1>1, <1>2 DEF DispatchInv, DispatchDone, DispatchTypeOK, EarlyInv, GoneInv,
                      CrosstalkIsKnown, LegibleFeedsAreServed, RemovedHearsNothing,
                      Stages
  <1>3. CASE DispatchUnlock \/ (\E i \in todo : CallbackStart(i)) \/ CallbackReturn
    <2>1. /\ UNCHANGED <<frame, copied, owed, gone>> /\ todo' \subseteq todo
          /\ stage \in {"copying", "calling", "callback", "acted"}
          /\ stage' \in {"calling", "callback"}
      BY <1>3 DEF DispatchUnlock, CallbackStart, CallbackReturn
    <2> QED BY <1>1, <2>1 DEF DispatchInv, DispatchTypeOK, EarlyInv, GoneInv,
                              CrosstalkIsKnown, LegibleFeedsAreServed, RemovedHearsNothing,
                      Stages
  <1> QED BY <1>2, <1>3

\* ServerSend: one more frame of a feed.
LEMMA SendStep == ASSUME IInv, DispatchInv, NEW k \in Keys, ServerSend(k) PROVE DispatchInv'
  <1> USE DEF DispatchInv, ServerSend
  <1>1. UNCHANGED <<subs, nextSubID, keyOf, handle, pc, cur>>
    BY DEF vars, registry, work
  <1>2. wire' \in Seq(Keys) /\ Len(wire') = Len(wire) + 1 /\ Len(wire) \in Nat
    BY DEF DispatchTypeOK
  <1>3. Len(wire') <= MaxWire
    BY <1>2, MaxWireAssumption
  <1> QED
    BY <1>1, <1>2, <1>3
    DEF DispatchTypeOK, EarlyInv, GoneInv, CrosstalkIsKnown, LegibleFeedsAreServed,
        RemovedHearsNothing

\* Every step of the composition.
LEMMA DispatchStep == IInv /\ IInv' /\ DispatchInv /\ [DispatchNext]_dvars => DispatchInv'
  <1> SUFFICES ASSUME IInv, IInv', DispatchInv, [DispatchNext]_dvars
               PROVE  DispatchInv'
    OBVIOUS
  <1>0. [Next]_vars
    BY StepIsSubsStep
  <1> USE DEF DispatchInv, DispatchTypeOK
  <1>1. CASE \E u \in Users, k \in Keys : UserSubscribe(u, k)
    BY <1>0, <1>1, CallerStep DEF UserSubscribe, Called
  <1>2. CASE \E u \in Users, i \in Ids : UserClose(u, i)
    BY <1>0, <1>2, CallerStep DEF UserClose, Called
  <1>3. CASE \E u \in Users : UserContinue(u)
    BY <1>0, <1>3, CallerStep DEF UserContinue, dispatchVars
  <1>4. CASE \E k \in Keys : ServerSend(k)
    BY <1>4, SendStep
  <1>5. CASE PumpStep
    BY <1>5, ReadStep, CopyStep, PumpRest DEF PumpStep
  <1>6. CASE Cut \/ Lower \/ ConnectReturn
    <2>1. wire' \in Seq(Keys) /\ Len(wire') <= MaxWire
      <3>1. \A n \in 0..Len(wire) :
               SubSeq(wire, 1, n) \in Seq(Keys) /\ Len(SubSeq(wire, 1, n)) <= Len(wire)
        OBVIOUS
      <3> QED BY <1>6, <3>1, MaxWireAssumption DEF Cut, Lower, ConnectReturn, dispatchVars
    <2>2. UNCHANGED <<stage, frame, copied, todo, owed, gone>>
      BY <1>6 DEF Cut, Lower, ConnectReturn, dispatchVars
    <2> QED BY <1>0, <2>1, <2>2, CallerStep
  <1>7. CASE UNCHANGED dvars
    BY <1>0, <1>7, CallerStep DEF dvars, dispatchVars
  <1> QED BY <1>1, <1>2, <1>3, <1>4, <1>5, <1>6, <1>7 DEF DispatchNext

-------------------------------------------------------------------------------
\* The invariants of the registry and of the pump hold together.
THEOREM DispatchInvariance == DispatchSpec => [](IInv /\ DispatchInv)
  <1>1. DispatchInit => IInv
    BY InitInv DEF DispatchInit
  <1>2. DispatchSpec => []IInv
    BY DispatchImplementsSubs, SubsInvariance, PTL
  <1>3. DispatchSpec => []DispatchInv
    BY DispatchInitInv, DispatchStep, <1>2, PTL DEF DispatchSpec
  <1> QED BY <1>2, <1>3, PTL

\* Every variable of the pump keeps its type.
THEOREM DispatchTypeCorrect == DispatchSpec => []DispatchTypeOK
  <1>1. DispatchInv => DispatchTypeOK
    BY DEF DispatchInv
  <1> QED BY <1>1, DispatchInvariance, PTL

\* stream.go:537: a callback hears its own feed, one that differs in dex or interval,
\* or another user's order updates, for any set of keys the constructors make.
THEOREM CrosstalkKnown == DispatchSpec => []CrosstalkIsKnown
  <1>1. DispatchInv => CrosstalkIsKnown
    BY DEF DispatchInv
  <1> QED BY <1>1, DispatchInvariance, PTL

\* docs/stream.md: a frame of a feed whose payload names the coin and the user the way
\* matchSubscription expects reaches every listener registered for that feed.
THEOREM LegibleFeedsServed == DispatchSpec => []LegibleFeedsAreServed
  <1>1. DispatchInv => LegibleFeedsAreServed
    BY DEF DispatchInv
  <1> QED BY <1>1, DispatchInvariance, PTL

\* stream.go:220: a listener unsubscribed before a frame was read does not hear it.
THEOREM RemovedHearNothing == DispatchSpec => []RemovedHearsNothing
  <1>1. DispatchInv => RemovedHearsNothing
    BY DEF DispatchInv
  <1> QED BY <1>1, DispatchInvariance, PTL
===============================================================================
