--------------------------- MODULE StreamConn_proofs ---------------------------
(***************************************************************************)
(* Proofs about StreamConn, for any callers, timers, scripts and bounds.   *)
(*                                                                         *)
(* The inductive invariant says who holds which mutex as a function of the *)
(* program counters (LockInv), that each kind of goroutine stays in its    *)
(* own code (KindInv), that no pump runs while Connect is between its wait *)
(* and its spawn (PumpInv), what c.conn and the sockets are meanwhile      *)
(* (SocketInv), who watches a connection whose flag is up (WatchInv), and  *)
(* that the read pump waits while Connect resubscribes (ResubInv), which   *)
(* ReconnectNotLost needs.                                                 *)
(***************************************************************************)
EXTENDS StreamConn, TLAPS

WriteLabels  == {"wCheck", "wRLock", "wSend"}

ConnectLabels == {"tCheck", "cClosed", "cConnected", "cLock", "cWait", "cDial", "cSpawn",
                  "cResub", "cFail"}

\* p holds connMu: it is in the locked part of Connect, or in a writeJSON that
\* resubscribeAll called.
HoldsConnMu(p) ==
    \/ pc[p] \in {"cWait", "cDial", "cSpawn", "cResub", "cFail"}
    \/ op[p] = "connect" /\ pc[p] \in {"wLock"} \cup WriteLabels

LockInv ==
    /\ \A p \in Procs : HoldsConnMu(p) => connMu = p
    /\ \A p \in Procs : pc[p] \in WriteLabels => writeMu = p

KindInv ==
    /\ \A p \in PingerP :
          /\ pc[p] \in {"idle", "pTick", "wLock"} \cup WriteLabels
          /\ pc[p] \in {"wLock"} \cup WriteLabels => op[p] = "ping"
    /\ \A p \in ReaderP :
          pc[p] \in {"idle", "rConn", "rRead", "hClosed", "hFlag", "hLock",
                     "sClosed", "sArm"}
    /\ \A p \in CallerP \cup TimerP :
          /\ op[p] # "ping"
          /\ pc[p] \notin {"rConn", "rRead", "hClosed", "hFlag", "hLock", "pTick"}
    /\ \A p \in Procs : pc[p] \in ConnectLabels => op[p] = "connect"
    /\ \A p \in TimerP : pc[p] # "idle" => op[p] = "connect"

PumpInv ==
    /\ \A g \in Gens : Running(g) => g = gen
    /\ \A p \in Procs : pc[p] \in {"cDial", "cSpawn"} => PumpsDone

SocketInv ==
    /\ open \subseteq {conn} /\ conn \in {0, gen}
    /\ \A p \in Procs : pc[p] \in {"cWait", "cDial"} => conn = 0
    /\ \A p \in Procs : pc[p] = "cSpawn" => gen # 0
    /\ \A g \in Gens : held[Reader(g)] # 0 =>
          pc[Reader(g)] = "rRead" /\ held[Reader(g)] = g

CloseLabels == {"xTimer", "xConn", "xWait"}

WatchInv ==
    /\ \A p \in Procs : pc[p] \in CloseLabels => closed
    /\ connected /\ ~closed =>
          /\ conn # 0
          /\ \/ \E p \in Procs : pc[p] = "cSpawn"
             \/ pc[Reader(gen)] \in {"rConn", "rRead", "hClosed", "hFlag"}

\* p is in resubscribeAll, or in the clean-up after it failed.
Resubscribing(p) ==
    \/ pc[p] \in {"cResub", "cFail"}
    \/ op[p] = "connect" /\ pc[p] \in {"wLock"} \cup WriteLabels

ResubInv ==
    \A p \in Procs : Resubscribing(p) => gen # 0 /\ pc[Reader(gen)] = "rConn"

IInv ==
    /\ TypeOK /\ LockInv /\ KindInv /\ PumpInv /\ SocketInv /\ WatchInv /\ ResubInv
    /\ ReconnectNotLost

-------------------------------------------------------------------------------
(***************************************************************************)
(* Goroutines.  From here on the identity of a goroutine matters only      *)
(* through these facts.                                                    *)
(***************************************************************************)
LEMMA ProcFacts ==
    /\ Procs = CallerP \cup TimerP \cup ReaderP \cup PingerP
    /\ Free \notin Procs
    /\ \A g \in Gens : Reader(g) \in ReaderP /\ Pinger(g) \in PingerP
    /\ \A g, h \in Gens : /\ Reader(g) = Reader(h) => g = h
                          /\ Pinger(g) = Pinger(h) => g = h
    /\ \A p \in ReaderP : \E g \in Gens : p = Reader(g)
    /\ \A p \in PingerP : \E g \in Gens : p = Pinger(g)
    /\ (CallerP \cup TimerP) \cap (ReaderP \cup PingerP) = {}
    /\ ReaderP \cap PingerP = {} /\ CallerP \cap TimerP = {}
    /\ \A c \in Callers : <<"call", c>> \in CallerP
    /\ PumpP = ReaderP \cup PingerP
    /\ \A g : /\ Reader(g) \notin CallerP \cup TimerP \cup PingerP
             /\ Pinger(g) \notin CallerP \cup TimerP \cup ReaderP
BY DEF Procs, CallerP, TimerP, ReaderP, PingerP, PumpP, Free, Reader, Pinger

LEMMA GenFacts == Gens \subseteq Nat /\ MaxConns \in Nat /\ \A g \in Gens : g # 0
BY BoundsAssumption DEF Gens

LEMMA Labelled ==
    /\ \A p : AfterFailure(p) \in {"idle", "sClosed"}
    /\ \A o : WriteFailed(o) \in {"pTick", "cFail", "uRollback", "idle"}
    /\ \A o : WriteDone(o) \in {"pTick", "cResub", "idle"}
BY DEF AfterFailure, WriteFailed, WriteDone

-------------------------------------------------------------------------------
(***************************************************************************)
(* Type correctness.                                                       *)
(***************************************************************************)
LEMMA DropType == TypeOK /\ DropConn => open' \subseteq Gens /\ conn' \in 0..MaxConns
BY GenFacts DEF TypeOK, DropConn

\* The next connection is one of those there may be.
LEMMA NextGen ==
  \A g \in 0..MaxConns : g < MaxConns => g + 1 \in Gens /\ g + 1 \in 0..MaxConns
  BY BoundsAssumption DEF Gens

LEMMA CancelType == TypeOK /\ CancelPumps => cancelled' \subseteq Gens
BY DEF TypeOK, CancelPumps

LEMMA TypeStep == TypeOK /\ [Next]_vars => TypeOK'
<1> SUFFICES ASSUME TypeOK, [Next]_vars PROVE TypeOK'
  OBVIOUS
<1> USE DEF TypeOK, Goto, At
<1> USE ProcFacts, GenFacts, Labelled
<1>1. ASSUME NEW c \in Callers, NEW m \in Methods, CallMethod(c, m) PROVE TypeOK'
  <2> DEFINE p == <<"call", c>>
  <2>1. p \in Procs
    OBVIOUS
  <2>2. PICK l \in Labels : pc' = [pc EXCEPT ![p] = l]
    BY <1>1 DEF CallMethod, Labels
  <2>5. listeners' \subseteq Callers
    BY <1>1 DEF CallMethod
  <2>3. op' \in [Procs -> Ops] /\ calls' \in [Callers -> Nat]
    BY <1>1, <2>1 DEF CallMethod, Ops
  <2>4. QED
    <3>1. UNCHANGED <<connVars, connected, lockVars, retryVars, lifeVars, todo, pings,
                      held>>
      BY <1>1 DEF CallMethod
    <3>2. pc' \in [Procs -> Labels]
      BY <2>1, <2>2
    <3>3. QED
      BY <2>3, <2>5, <3>1, <3>2 DEF connVars, lockVars, retryVars, lifeVars
<1>2. ASSUME NEW p \in CallerP \cup TimerP, ConnectStep(p) PROVE TypeOK'
  <2>0. p \in Procs
    OBVIOUS
  <2>1. CASE ConnectClosedCheck(p)
    BY <2>1 DEF ConnectClosedCheck, connVars, lockVars, retryVars, lifeVars, subVars,
       budget, Labels
  <2>2. CASE ConnectFlagCheck(p)
    BY <2>2 DEF ConnectFlagCheck, connVars, lockVars, retryVars, lifeVars, subVars,
       budget, Labels
  <2>3. CASE ConnectLock(p)
    <3>1. open' \subseteq Gens /\ conn' \in 0..MaxConns /\ cancelled' \subseteq Gens
         /\ gen' = gen
      BY <2>3, DropType, CancelType DEF ConnectLock, connVars
    <3>2. pc' \in [Procs -> Labels] /\ connMu' \in Procs \cup {Free}
      BY <2>3, <2>0 DEF ConnectLock, Labels
    <3>3. QED
      BY <2>3, <3>1, <3>2 DEF ConnectLock, retryVars, lifeVars, subVars, budget
  <2>4. CASE ConnectWait(p)
    BY <2>4 DEF ConnectWait, connVars, lockVars, retryVars, lifeVars, subVars, budget,
       Labels
  <2>5. CASE ConnectDialOk(p)
    <3>0. gen \in 0..MaxConns /\ gen < MaxConns
      BY <2>5, Zenon DEF ConnectDialOk
    <3>1. gen + 1 \in Gens /\ gen + 1 \in 0..MaxConns
      BY <3>0, NextGen, Zenon
    <3>2. QED
      BY <2>5, <3>1 DEF ConnectDialOk, lockVars, retryVars, lifeVars, subVars, budget,
         Labels
  <2>6. CASE ConnectDialFail(p)
    BY <2>6 DEF ConnectDialFail, connVars, retryVars, lifeVars, subVars, budget, Labels
  <2>7. CASE ConnectSpawn(p)
    <3>1. pc' \in [Procs -> Labels]
      BY <2>7 DEF ConnectSpawn, Labels
    <3>2. attempts' \in 0..AttemptCap
      BY <2>7, BoundsAssumption DEF ConnectSpawn
    <3>3. QED
      BY <2>7, <3>1, <3>2 DEF ConnectSpawn, connVars, lockVars, lifeVars, budget
  <2>8. CASE ConnectResub(p)
    BY <2>8 DEF ConnectResub, connVars, retryVars, lifeVars, budget, Labels
  <2>9. CASE ConnectTeardown(p)
    <3>1. open' \subseteq Gens /\ conn' \in 0..MaxConns /\ cancelled' \subseteq Gens
      BY <2>9, DropType, CancelType DEF ConnectTeardown
    <3>2. QED
      BY <2>9, <3>1 DEF ConnectTeardown, retryVars, lifeVars, subVars, budget, Labels
  <2>10. QED
    BY <1>2, <2>1, <2>2, <2>3, <2>4, <2>5, <2>6, <2>7, <2>8, <2>9 DEF ConnectStep
<1>3. ASSUME NEW p \in Procs, WriteStep(p) PROVE TypeOK'
  <2>1. CASE WriteLock(p)
    BY <2>1 DEF WriteLock, connVars, retryVars, lifeVars, subVars, budget, Labels
  <2>2. CASE WriteCheck(p)
    <3>1. pc' \in [Procs -> Labels] /\ writeMu' \in Procs \cup {Free}
      <4>1. CASE connected
        BY <2>2, <4>1 DEF WriteCheck, Labels
      <4>2. CASE WriteReturn(p, WriteFailed(op[p]))
        BY <4>2 DEF WriteReturn, Labels
      <4>3. QED
        BY <2>2, <4>1, <4>2 DEF WriteCheck
    <3>2. QED
      BY <2>2, <3>1 DEF WriteCheck, connVars, retryVars, lifeVars, subVars, budget
  <2>3. CASE WriteRLock(p)
    <3>1. CASE WriteReturn(p, WriteFailed(op[p])) /\ UNCHANGED held
      <4>1. pc' \in [Procs -> Labels] /\ writeMu' \in Procs \cup {Free}
        BY <3>1 DEF WriteReturn, Labels
      <4>2. QED
        BY <2>3, <3>1, <4>1 DEF WriteRLock, connVars, retryVars, lifeVars, subVars, budget
    <3>2. CASE held' = [held EXCEPT ![p] = conn] /\ Goto(p, "wSend") /\ UNCHANGED writeMu
      BY <2>3, <3>2 DEF WriteRLock, connVars, retryVars, lifeVars, subVars, budget, Labels
    <3>3. QED
      BY <2>3, <3>1, <3>2 DEF WriteRLock
  <2>4. CASE WriteSend(p)
    BY <2>4 DEF WriteSend, WriteReturn, connVars, retryVars, lifeVars, subVars, budget,
       Labels
  <2>5. QED
    BY <1>3, <2>1, <2>2, <2>3, <2>4 DEF WriteStep
<1>4. ASSUME NEW p \in CallerP, SubscribeRollback(p) PROVE TypeOK'
  BY <1>4 DEF SubscribeRollback, connVars, lockVars, retryVars, lifeVars, budget, Labels
<1>5. ASSUME NEW p \in CallerP, CloseStep(p) PROVE TypeOK'
  <2>1. CASE CloseOnce(p)
    <3>1. pc' \in [Procs -> Labels] /\ once' \in {"new", "running", "done"}
      BY <2>1 DEF CloseOnce, Labels, lifeVars
    <3>2. closed' \in BOOLEAN /\ connected' \in BOOLEAN
      BY <2>1 DEF CloseOnce, lifeVars
    <3>3. QED
      BY <2>1, <3>1, <3>2 DEF CloseOnce, connVars, lockVars, retryVars, subVars, budget
  <2>2. CASE CloseTimer(p)
    BY <2>2 DEF CloseTimer, connVars, lockVars, lifeVars, subVars, budget, Labels
  <2>3. CASE CloseConn(p)
    <3>1. open' \subseteq Gens /\ conn' \in 0..MaxConns /\ cancelled' \subseteq Gens
      BY <2>3, DropType, CancelType DEF CloseConn
    <3>2. QED
      BY <2>3, <3>1 DEF CloseConn, lockVars, retryVars, lifeVars, subVars, budget, Labels
  <2>4. CASE CloseWait(p)
    BY <2>4 DEF CloseWait, connVars, lockVars, retryVars, subVars, budget, Labels
  <2>5. QED
    BY <1>5, <2>1, <2>2, <2>3, <2>4 DEF CloseStep
<1>6. ASSUME NEW p \in Procs, ScheduleStep(p) PROVE TypeOK'
  <2>1. CASE ScheduleClosedCheck(p)
    BY <2>1 DEF ScheduleClosedCheck, connVars, lockVars, retryVars, lifeVars, subVars,
       budget, Labels
  <2>2. CASE ScheduleArm(p)
    <3>1. attempts' \in 0..AttemptCap
      BY <2>2, BoundsAssumption DEF ScheduleArm
    <3>2. timer' \in BOOLEAN
      BY <2>2, BoundsAssumption DEF ScheduleArm
    <3>3. QED
      BY <2>2, <3>1, <3>2 DEF ScheduleArm, connVars, lockVars, lifeVars, subVars,
         budget, Labels
  <2>3. QED
    BY <1>6, <2>1, <2>2 DEF ScheduleStep
<1>7. ASSUME NEW g \in Gens, ReaderStep(g) PROVE TypeOK'
  <2>0. Reader(g) \in Procs
    OBVIOUS
  <2>1. CASE ReadStart(g)
    BY <2>0, <2>1 DEF ReadStart, connVars, lockVars, retryVars, lifeVars, subVars,
       budget, Labels
  <2>2. CASE ReadFail(g)
    BY <2>0, <2>2 DEF ReadFail, connVars, lockVars, retryVars, lifeVars, subVars,
       budget, Labels
  <2>3. CASE DisconnectClosedCheck(g)
    BY <2>0, <2>3 DEF DisconnectClosedCheck, connVars, lockVars, retryVars, lifeVars,
       subVars, budget, Labels
  <2>4. CASE DisconnectFlag(g)
    BY <2>0, <2>4 DEF DisconnectFlag, connVars, lockVars, retryVars, lifeVars, subVars,
       budget, Labels
  <2>5. CASE DisconnectLock(g)
    BY <2>0, <2>5, DropType DEF DisconnectLock, lockVars, retryVars, lifeVars, subVars,
       budget, Labels
  <2>6. QED
    BY <1>6, <1>7, <2>0, <2>1, <2>2, <2>3, <2>4, <2>5 DEF ReaderStep
<1>8. ASSUME NEW g \in Gens, PingerStep(g) PROVE TypeOK'
  <2>0. Pinger(g) \in Procs
    OBVIOUS
  <2>1. CASE PingTick(g)
    <3>1. pc' \in [Procs -> Labels] /\ op' \in [Procs -> Ops] /\ pings' \in [Gens -> Nat]
      BY <2>0, <2>1 DEF PingTick, Labels, Ops
    <3>2. QED
      BY <2>1, <3>1 DEF PingTick, connVars, lockVars, retryVars, lifeVars, subVars
  <2>2. CASE PingExit(g)
    BY <2>0, <2>2 DEF PingExit, connVars, lockVars, retryVars, lifeVars, subVars,
       budget, Labels
  <2>3. QED
    BY <1>3, <1>8, <2>0, <2>1, <2>2 DEF PingerStep
<1>9. ASSUME NEW p \in TimerP, TimerFire(p) \/ TimerCheck(p) PROVE TypeOK'
  <2>1. CASE TimerFire(p)
    BY <2>1 DEF TimerFire, connVars, lockVars, lifeVars, subVars, budget, Labels, Ops,
       Methods
  <2>2. CASE TimerCheck(p)
    BY <2>2 DEF TimerCheck, connVars, lockVars, retryVars, lifeVars, subVars, budget, Labels
  <2>3. QED
    BY <1>9, <2>1, <2>2
<1>10. ASSUME NEW g \in Gens, Drop(g) PROVE TypeOK'
  BY <1>10 DEF Drop, lockVars, retryVars, lifeVars, subVars, budget
<1>11. CASE UNCHANGED vars
  BY <1>11 DEF vars, connVars, lockVars, retryVars, lifeVars, subVars, budget
<1>12. QED
  BY <1>1, <1>2, <1>3, <1>4, <1>5, <1>6, <1>7, <1>8, <1>9, <1>10, <1>11
     DEF Next, CallerStep, TimerStep

LEMMA KindStep == TypeOK /\ KindInv /\ [Next]_vars => KindInv'
<1> SUFFICES ASSUME TypeOK, KindInv, [Next]_vars PROVE KindInv'
  OBVIOUS
<1> USE ProcFacts, Labelled DEF KindInv, Goto, At, WriteLabels, ConnectLabels
<1>0. pc \in [Procs -> Labels] /\ op \in [Procs -> Ops]
  BY DEF TypeOK
<1>1. ASSUME NEW c \in Callers, NEW m \in Methods, CallMethod(c, m) PROVE KindInv'
  BY <1>1, <1>0 DEF CallMethod, Methods
<1>2. ASSUME NEW p \in CallerP \cup TimerP, ConnectStep(p) PROVE KindInv'
  <2>1. CASE ConnectClosedCheck(p)
    BY <2>1, <1>0 DEF ConnectClosedCheck
  <2>2. CASE ConnectFlagCheck(p)
    BY <2>2, <1>0 DEF ConnectFlagCheck
  <2>3. CASE ConnectLock(p)
    <3>1. PICK l \in {"idle", "cDial", "cWait"} : pc' = [pc EXCEPT ![p] = l]
      BY <2>3 DEF ConnectLock
    <3>2. op' = op /\ op[p] # "ping"
      BY <2>3 DEF ConnectLock
    <3>3. pc[p] = "cLock"
      BY <2>3 DEF ConnectLock
    <3>4. \A q \in ReaderP \cup PingerP : pc'[q] = pc[q]
      BY <1>0, <3>1
    <3>5. p \in Procs /\ \A q \in Procs \ {p} : pc'[q] = pc[q]
      BY <1>0, <3>1
    <3>6. pc'[p] \in {"idle", "cDial", "cWait"} /\ op[p] = "connect"
      BY <1>0, <3>1, <3>3, <3>5 DEF Labels
    <3>7. QED
      BY <3>2, <3>4, <3>5, <3>6
  <2>4. CASE ConnectWait(p)
    BY <2>4, <1>0 DEF ConnectWait
  <2>5. CASE ConnectDialOk(p)
    BY <2>5, <1>0 DEF ConnectDialOk
  <2>6. CASE ConnectDialFail(p)
    BY <2>6, <1>0 DEF ConnectDialFail
  <2>7. CASE ConnectSpawn(p)
    <3>1. \A q \in Procs : pc'[q] = IF q = Pinger(gen) THEN "pTick" ELSE
                               IF q = Reader(gen) THEN "rConn" ELSE
                               IF q = p THEN "cResub" ELSE pc[q]
      BY <2>7, <1>0 DEF ConnectSpawn
    <3>2. op' = op /\ pc[p] = "cSpawn"
      BY <2>7 DEF ConnectSpawn
    <3>3. \A q \in PingerP :
            /\ pc'[q] \in {"idle", "pTick", "wLock"} \cup WriteLabels
            /\ pc'[q] \in {"wLock"} \cup WriteLabels => op'[q] = "ping"
      BY <3>1, <3>2
    <3>4. \A q \in ReaderP : pc'[q] \in {"idle", "rConn", "rRead", "hClosed", "hFlag",
                                      "hLock", "sClosed", "sArm"}
      BY <3>1, <3>2
    <3>5. \A q \in CallerP \cup TimerP :
            /\ op'[q] # "ping"
            /\ pc'[q] \notin {"rConn", "rRead", "hClosed", "hFlag", "hLock", "pTick"}
      BY <3>1, <3>2
    <3>6. \A q \in Procs : pc'[q] \in ConnectLabels => op'[q] = "connect"
      BY <3>1, <3>2
    <3>7. \A q \in TimerP : pc'[q] # "idle" => op'[q] = "connect"
      BY <3>1, <3>2
    <3>8. QED
      BY ONLY <3>2, <3>3, <3>4, <3>5, <3>6, <3>7
  <2>8. CASE ConnectResub(p)
    BY <2>8, <1>0 DEF ConnectResub
  <2>9. CASE ConnectTeardown(p)
    BY <2>9, <1>0 DEF ConnectTeardown
  <2>10. QED
    BY <1>2, <2>1, <2>2, <2>3, <2>4, <2>5, <2>6, <2>7, <2>8, <2>9 DEF ConnectStep
<1>3. ASSUME NEW p \in CallerP \cup TimerP \cup PingerP, WriteStep(p) PROVE KindInv'
  <2>1. op' = op /\ pc[p] \in {"wLock"} \cup WriteLabels
    BY <1>3 DEF WriteStep, WriteLock, WriteCheck, WriteRLock, WriteSend
  <2>2. \/ \E l \in WriteLabels : pc' = [pc EXCEPT ![p] = l]
        \/ pc' = [pc EXCEPT ![p] = WriteFailed(op[p])]
        \/ pc' = [pc EXCEPT ![p] = WriteDone(op[p])]
    BY <1>3 DEF WriteStep, WriteLock, WriteCheck, WriteRLock, WriteSend, WriteReturn
  <2>3. CASE \E l \in WriteLabels : pc' = [pc EXCEPT ![p] = l]
    BY <1>0, <2>1, <2>3
  <2>4. CASE pc' = [pc EXCEPT ![p] = WriteFailed(op[p])]
    BY <1>0, <2>1, <2>4 DEF WriteFailed
  <2>5. CASE pc' = [pc EXCEPT ![p] = WriteDone(op[p])]
    BY <1>0, <2>1, <2>5 DEF WriteDone
  <2>6. QED
    BY <2>2, <2>3, <2>4, <2>5
<1>4. ASSUME NEW p \in CallerP, SubscribeRollback(p) PROVE KindInv'
  BY <1>4, <1>0 DEF SubscribeRollback
<1>5. ASSUME NEW p \in CallerP, CloseStep(p) PROVE KindInv'
  <2>1. CASE CloseOnce(p)
    BY <2>1, <1>0 DEF CloseOnce
  <2>2. CASE CloseTimer(p)
    BY <2>2, <1>0 DEF CloseTimer
  <2>3. CASE CloseConn(p)
    BY <2>3, <1>0 DEF CloseConn
  <2>4. CASE CloseWait(p)
    BY <2>4, <1>0 DEF CloseWait
  <2>5. QED
    BY <1>5, <2>1, <2>2, <2>3, <2>4 DEF CloseStep
<1>6. ASSUME NEW p \in TimerP \cup ReaderP, ScheduleStep(p) PROVE KindInv'
  <2>1. CASE ScheduleClosedCheck(p)
    BY <2>1, <1>0 DEF ScheduleClosedCheck
  <2>2. CASE ScheduleArm(p)
    BY <2>2, <1>0 DEF ScheduleArm
  <2>3. QED
    BY <1>6, <2>1, <2>2 DEF ScheduleStep
<1>7. ASSUME NEW g \in Gens, ReaderStep(g) PROVE KindInv'
  <2>1. CASE ReadStart(g)
    BY <2>1, <1>0 DEF ReadStart
  <2>2. CASE ReadFail(g)
    BY <2>2, <1>0 DEF ReadFail
  <2>3. CASE DisconnectClosedCheck(g)
    BY <2>3, <1>0 DEF DisconnectClosedCheck
  <2>4. CASE DisconnectFlag(g)
    BY <2>4, <1>0 DEF DisconnectFlag
  <2>5. CASE DisconnectLock(g)
    BY <2>5, <1>0 DEF DisconnectLock
  <2>6. QED
    BY <1>7, <2>1, <2>2, <2>3, <2>4, <2>5, <1>6 DEF ReaderStep
<1>8. ASSUME NEW g \in Gens, PingerStep(g) PROVE KindInv'
  <2>1. CASE PingTick(g)
    BY <2>1, <1>0 DEF PingTick
  <2>2. CASE PingExit(g)
    BY <2>2, <1>0 DEF PingExit
  <2>3. QED
    BY <1>8, <2>1, <2>2, <1>3 DEF PingerStep
<1>9. ASSUME NEW p \in TimerP, TimerFire(p) PROVE KindInv'
  BY <1>9, <1>0 DEF TimerFire
<1>10. ASSUME NEW p \in TimerP, TimerCheck(p) PROVE KindInv'
  BY <1>10, <1>0 DEF TimerCheck
<1>11. ASSUME NEW g \in Gens, Drop(g) PROVE KindInv'
  BY <1>11, <1>0 DEF Drop
<1>12. CASE UNCHANGED vars
  BY <1>12, <1>0 DEF vars
<1>13. QED
  BY <1>1, <1>2, <1>3, <1>4, <1>5, <1>6, <1>7, <1>8, <1>9, <1>10, <1>11, <1>12 DEF Next,
     CallerStep, TimerStep

LEMMA LockStep == TypeOK /\ KindInv /\ LockInv /\ [Next]_vars => LockInv'
<1> SUFFICES ASSUME TypeOK, KindInv, LockInv, [Next]_vars PROVE LockInv'
  OBVIOUS
<1> USE ProcFacts DEF LockInv, HoldsConnMu, Goto, At, WriteLabels, lockVars
<1>0. pc \in [Procs -> Labels] /\ op \in [Procs -> Ops]
  BY DEF TypeOK
<1>k. \A q \in Procs : pc[q] \in ConnectLabels => op[q] = "connect"
  BY DEF KindInv
<1>1. ASSUME NEW c \in Callers, NEW m \in Methods, CallMethod(c, m) PROVE LockInv'
  BY <1>1, <1>0 DEF CallMethod, Methods
<1>2. ASSUME NEW p \in CallerP \cup TimerP, ConnectStep(p) PROVE LockInv'
  <2>1. CASE ConnectClosedCheck(p)
    BY <2>1, <1>0 DEF ConnectClosedCheck, AfterFailure
  <2>2. CASE ConnectFlagCheck(p)
    BY <2>2, <1>0 DEF ConnectFlagCheck
  <2>3. CASE ConnectLock(p)
    BY <2>3, <1>0 DEF ConnectLock
  <2>4. CASE ConnectWait(p)
    BY <2>4, <1>0 DEF ConnectWait
  <2>5. CASE ConnectDialOk(p)
    BY <2>5, <1>0 DEF ConnectDialOk
  <2>6. CASE ConnectDialFail(p)
    BY <2>6, <1>0 DEF ConnectDialFail, AfterFailure
  <2>7. CASE ConnectSpawn(p)
    <3>1. \A q \in Procs : pc'[q] = IF q = Pinger(gen) THEN "pTick" ELSE
                               IF q = Reader(gen) THEN "rConn" ELSE
                               IF q = p THEN "cResub" ELSE pc[q]
      BY <2>7, <1>0 DEF ConnectSpawn
    <3>2. UNCHANGED <<op, connMu, writeMu>> /\ pc[p] = "cSpawn"
      BY <2>7 DEF ConnectSpawn, lockVars
    <3>3. QED
      BY <3>1, <3>2
  <2>8. CASE ConnectResub(p)
    BY <2>8, <1>0, <1>k DEF ConnectResub, ConnectLabels
  <2>9. CASE ConnectTeardown(p)
    BY <2>9, <1>0 DEF ConnectTeardown, AfterFailure
  <2>10. QED
    BY <1>2, <2>1, <2>2, <2>3, <2>4, <2>5, <2>6, <2>7, <2>8, <2>9 DEF ConnectStep
<1>3. ASSUME NEW p \in CallerP \cup TimerP \cup PingerP, WriteStep(p) PROVE LockInv'
  <2>1. CASE WriteLock(p)
    BY <2>1, <1>0 DEF WriteLock
  <2>2. CASE WriteCheck(p)
    BY <2>2, <1>0 DEF WriteCheck, WriteReturn, WriteFailed
  <2>3. CASE WriteRLock(p)
    BY <2>3, <1>0 DEF WriteRLock, WriteReturn, WriteFailed
  <2>4. CASE WriteSend(p)
    BY <2>4, <1>0 DEF WriteSend, WriteReturn, WriteFailed, WriteDone
  <2>5. QED
    BY <1>3, <2>1, <2>2, <2>3, <2>4 DEF WriteStep
<1>4. ASSUME NEW p \in CallerP, SubscribeRollback(p) PROVE LockInv'
  BY <1>4, <1>0 DEF SubscribeRollback
<1>5. ASSUME NEW p \in CallerP, CloseStep(p) PROVE LockInv'
  <2>1. CASE CloseOnce(p)
    BY <2>1, <1>0 DEF CloseOnce
  <2>2. CASE CloseTimer(p)
    BY <2>2, <1>0 DEF CloseTimer
  <2>3. CASE CloseConn(p)
    BY <2>3, <1>0 DEF CloseConn
  <2>4. CASE CloseWait(p)
    BY <2>4, <1>0 DEF CloseWait
  <2>5. QED
    BY <1>5, <2>1, <2>2, <2>3, <2>4 DEF CloseStep
<1>6. ASSUME NEW p \in TimerP \cup ReaderP, ScheduleStep(p) PROVE LockInv'
  <2>1. CASE ScheduleClosedCheck(p)
    BY <2>1, <1>0 DEF ScheduleClosedCheck
  <2>2. CASE ScheduleArm(p)
    BY <2>2, <1>0 DEF ScheduleArm
  <2>3. QED
    BY <1>6, <2>1, <2>2 DEF ScheduleStep
<1>7. ASSUME NEW g \in Gens, ReaderStep(g) PROVE LockInv'
  <2>1. CASE ReadStart(g)
    BY <2>1, <1>0 DEF ReadStart
  <2>2. CASE ReadFail(g)
    BY <2>2, <1>0 DEF ReadFail
  <2>3. CASE DisconnectClosedCheck(g)
    BY <2>3, <1>0 DEF DisconnectClosedCheck
  <2>4. CASE DisconnectFlag(g)
    BY <2>4, <1>0 DEF DisconnectFlag
  <2>5. CASE DisconnectLock(g)
    BY <2>5, <1>0 DEF DisconnectLock
  <2>6. QED
    BY <1>7, <2>1, <2>2, <2>3, <2>4, <2>5, <1>6 DEF ReaderStep
<1>8. ASSUME NEW g \in Gens, PingerStep(g) PROVE LockInv'
  <2>1. CASE PingTick(g)
    BY <2>1, <1>0 DEF PingTick
  <2>2. CASE PingExit(g)
    BY <2>2, <1>0 DEF PingExit
  <2>3. QED
    BY <1>8, <2>1, <2>2, <1>3 DEF PingerStep
<1>9. ASSUME NEW p \in TimerP, TimerFire(p) PROVE LockInv'
  BY <1>9, <1>0 DEF TimerFire
<1>10. ASSUME NEW p \in TimerP, TimerCheck(p) PROVE LockInv'
  BY <1>10, <1>0 DEF TimerCheck
<1>11. ASSUME NEW g \in Gens, Drop(g) PROVE LockInv'
  BY <1>11, <1>0 DEF Drop
<1>12. CASE UNCHANGED vars
  BY <1>12, <1>0 DEF vars
<1>13. QED
  BY <1>1, <1>2, <1>3, <1>4, <1>5, <1>6, <1>7, <1>8, <1>9, <1>10, <1>11, <1>12 DEF Next,
     CallerStep, TimerStep

LEMMA PumpStep == TypeOK /\ KindInv /\ LockInv /\ PumpInv /\ [Next]_vars => PumpInv'
<1> SUFFICES ASSUME TypeOK, KindInv, LockInv, PumpInv, [Next]_vars PROVE PumpInv'
  OBVIOUS
<1> USE ProcFacts, GenFacts DEF PumpInv, Running, PumpsDone, Goto, At, connVars
<1>0. pc \in [Procs -> Labels] /\ op \in [Procs -> Ops]
  BY DEF TypeOK
<1>l. \A q, r \in Procs : HoldsConnMu(q) /\ HoldsConnMu(r) => q = r
  BY DEF LockInv
<1>p. \A q \in PingerP : op[q] = "ping" \/ pc[q] \in {"idle", "pTick"}
  BY DEF KindInv, WriteLabels
<1>1. ASSUME NEW c \in Callers, NEW m \in Methods, CallMethod(c, m) PROVE PumpInv'
  BY <1>1, <1>0 DEF CallMethod, Methods
<1>2. ASSUME NEW p \in CallerP \cup TimerP, ConnectStep(p) PROVE PumpInv'
  <2>1. CASE ConnectClosedCheck(p)
    BY <2>1, <1>0 DEF ConnectClosedCheck, AfterFailure
  <2>2. CASE ConnectFlagCheck(p)
    BY <2>2, <1>0 DEF ConnectFlagCheck
  <2>3. CASE ConnectLock(p)
    BY <2>3, <1>0 DEF ConnectLock
  <2>4. CASE ConnectWait(p)
    BY <2>4, <1>0 DEF ConnectWait
  <2>5. CASE ConnectDialOk(p)
    BY <2>5, <1>0 DEF ConnectDialOk
  <2>6. CASE ConnectDialFail(p)
    BY <2>6, <1>0 DEF ConnectDialFail, AfterFailure
  <2>7. CASE ConnectSpawn(p)
    <3>1. \A q \in Procs : pc'[q] = IF q = Pinger(gen) THEN "pTick" ELSE
                               IF q = Reader(gen) THEN "rConn" ELSE
                               IF q = p THEN "cResub" ELSE pc[q]
      BY <2>7, <1>0, <1>l DEF ConnectSpawn
    <3>2. UNCHANGED gen /\ pc[p] = "cSpawn" /\ p \in Procs
      BY <2>7 DEF ConnectSpawn
    <3>3. \A q \in PumpP : pc[q] = "idle"
      BY <3>2
    <3>4. \A g \in Gens : Running(g)' => g = gen'
      <4> SUFFICES ASSUME NEW g \in Gens, g # gen
                    PROVE  pc'[Reader(g)] = "idle" /\ pc'[Pinger(g)] = "idle"
        BY <3>2
      <4>1. p \in CallerP \cup TimerP
        OBVIOUS
      <4>2. Reader(g) \in PumpP /\ Pinger(g) \in PumpP
        OBVIOUS
      <4>3. /\ Reader(g) # Pinger(gen) /\ Pinger(g) # Reader(gen)
            /\ Reader(g) # Reader(gen) /\ Pinger(g) # Pinger(gen)
            /\ Reader(g) # p /\ Pinger(g) # p
        BY <4>1, ZenonT(40) DEF Reader, Pinger
      <4>4. QED
        BY <3>1, <3>3, <4>2, <4>3
    <3>5. \A q \in Procs : pc'[q] \notin {"cDial", "cSpawn"}
      BY <3>1, <3>2, <1>l DEF HoldsConnMu
    <3>6. QED
      BY ONLY <3>4, <3>5 DEF PumpInv
  <2>8. CASE ConnectResub(p)
    BY <2>8, <1>0 DEF ConnectResub
  <2>9. CASE ConnectTeardown(p)
    BY <2>9, <1>0 DEF ConnectTeardown, AfterFailure
  <2>10. QED
    BY <1>2, <2>1, <2>2, <2>3, <2>4, <2>5, <2>6, <2>7, <2>8, <2>9 DEF ConnectStep
<1>3. ASSUME NEW p \in CallerP \cup TimerP \cup PingerP, WriteStep(p) PROVE PumpInv'
  <2>1. CASE WriteLock(p)
    BY <2>1, <1>0 DEF WriteLock
  <2>2. CASE WriteCheck(p)
    BY <2>2, <1>0, <1>p DEF WriteCheck, WriteReturn, WriteFailed
  <2>3. CASE WriteRLock(p)
    BY <2>3, <1>0, <1>p DEF WriteRLock, WriteReturn, WriteFailed
  <2>4. CASE WriteSend(p)
    BY <2>4, <1>0, <1>p DEF WriteSend, WriteReturn, WriteFailed, WriteDone
  <2>5. QED
    BY <1>3, <2>1, <2>2, <2>3, <2>4 DEF WriteStep
<1>4. ASSUME NEW p \in CallerP, SubscribeRollback(p) PROVE PumpInv'
  BY <1>4, <1>0 DEF SubscribeRollback
<1>5. ASSUME NEW p \in CallerP, CloseStep(p) PROVE PumpInv'
  <2>1. CASE CloseOnce(p)
    BY <2>1, <1>0 DEF CloseOnce
  <2>2. CASE CloseTimer(p)
    BY <2>2, <1>0 DEF CloseTimer
  <2>3. CASE CloseConn(p)
    BY <2>3, <1>0 DEF CloseConn
  <2>4. CASE CloseWait(p)
    BY <2>4, <1>0 DEF CloseWait
  <2>5. QED
    BY <1>5, <2>1, <2>2, <2>3, <2>4 DEF CloseStep
<1>6. ASSUME NEW p \in TimerP \cup ReaderP, ScheduleStep(p) PROVE PumpInv'
  <2>1. CASE ScheduleClosedCheck(p)
    BY <2>1, <1>0 DEF ScheduleClosedCheck
  <2>2. CASE ScheduleArm(p)
    BY <2>2, <1>0 DEF ScheduleArm
  <2>3. QED
    BY <1>6, <2>1, <2>2 DEF ScheduleStep
<1>7. ASSUME NEW g \in Gens, ReaderStep(g) PROVE PumpInv'
  <2>1. CASE ReadStart(g)
    BY <2>1, <1>0 DEF ReadStart
  <2>2. CASE ReadFail(g)
    BY <2>2, <1>0 DEF ReadFail
  <2>3. CASE DisconnectClosedCheck(g)
    BY <2>3, <1>0 DEF DisconnectClosedCheck
  <2>4. CASE DisconnectFlag(g)
    BY <2>4, <1>0 DEF DisconnectFlag
  <2>5. CASE DisconnectLock(g)
    BY <2>5, <1>0 DEF DisconnectLock
  <2>6. QED
    BY <1>7, <2>1, <2>2, <2>3, <2>4, <2>5, <1>6 DEF ReaderStep
<1>8. ASSUME NEW g \in Gens, PingerStep(g) PROVE PumpInv'
  <2>1. CASE PingTick(g)
    BY <2>1, <1>0 DEF PingTick
  <2>2. CASE PingExit(g)
    BY <2>2, <1>0 DEF PingExit
  <2>3. QED
    BY <1>8, <2>1, <2>2, <1>3 DEF PingerStep
<1>9. ASSUME NEW p \in TimerP, TimerFire(p) PROVE PumpInv'
  BY <1>9, <1>0 DEF TimerFire
<1>10. ASSUME NEW p \in TimerP, TimerCheck(p) PROVE PumpInv'
  BY <1>10, <1>0 DEF TimerCheck
<1>11. ASSUME NEW g \in Gens, Drop(g) PROVE PumpInv'
  BY <1>11, <1>0 DEF Drop
<1>12. CASE UNCHANGED vars
  BY <1>12, <1>0 DEF vars
<1>13. QED
  BY <1>1, <1>2, <1>3, <1>4, <1>5, <1>6, <1>7, <1>8, <1>9, <1>10, <1>11, <1>12 DEF Next,
     CallerStep, TimerStep

LEMMA SocketStep ==
  TypeOK /\ KindInv /\ LockInv /\ PumpInv /\ SocketInv
  /\ [Next]_vars => SocketInv'
<1> SUFFICES ASSUME TypeOK, KindInv, LockInv, PumpInv, SocketInv,
                    [Next]_vars
             PROVE SocketInv'
  OBVIOUS
<1> USE ProcFacts, GenFacts DEF SocketInv, Goto, At, connVars, DropConn
<1>0. /\ pc \in [Procs -> Labels] /\ op \in [Procs -> Ops] /\ held \in [Procs -> 0..MaxConns]
      /\ open \subseteq Gens /\ gen \in Nat
  BY DEF TypeOK
<1>l. \A q, r \in Procs : HoldsConnMu(q) /\ HoldsConnMu(r) => q = r
  BY DEF LockInv
<1>f. connMu = Free => \A q \in Procs : pc[q] \notin {"cWait", "cDial", "cSpawn"}
  BY DEF LockInv, HoldsConnMu
<1>r. \A q \in ReaderP : pc[q] \notin {"wLock", "wCheck", "wRLock", "wSend"}
  BY DEF KindInv, WriteLabels
<1>u. /\ \A g \in Gens : Running(g) => g = gen
      /\ \A q \in Procs : pc[q] = "cSpawn" => \A g \in Gens : ~Running(g)
  BY DEF PumpInv, PumpsDone, Running
<1>1. ASSUME NEW c \in Callers, NEW m \in Methods, CallMethod(c, m) PROVE SocketInv'
  <2>1. PICK l \in {"cClosed", "xOnce", "wLock"} : pc' = [pc EXCEPT ![<<"call", c>>] = l]
    BY <1>1 DEF CallMethod, Methods
  <2>2. UNCHANGED <<conn, gen, open, held>>
    BY <1>1 DEF CallMethod
  <2>3. \A q \in Procs : pc'[q] # pc[q] => pc'[q] \in {"cClosed", "xOnce", "wLock"}
    BY <2>1, <1>0
  <2>4. \A g \in Gens : pc'[Reader(g)] = pc[Reader(g)]
    BY <2>1, <1>0
  <2>5. QED
    BY <2>2, <2>3, <2>4
<1>2. ASSUME NEW p \in CallerP \cup TimerP, ConnectStep(p) PROVE SocketInv'
  <2>1. CASE ConnectClosedCheck(p)
    BY <2>1, <1>0, <1>f DEF ConnectClosedCheck, AfterFailure
  <2>2. CASE ConnectFlagCheck(p)
    BY <2>2, <1>0, <1>f DEF ConnectFlagCheck
  <2>3. CASE ConnectLock(p)
    <3>1. CASE Goto(p, "idle") /\ UNCHANGED <<connVars, connMu>>
      BY <2>3, <1>0, <3>1 DEF ConnectLock
    <3>2. CASE DropConn /\ UNCHANGED gen
      <4>1. open' = {} /\ conn' = 0 /\ held' = held
        BY <2>3, <3>2 DEF ConnectLock
      <4>2. PICK l \in {"idle", "cDial", "cWait"} : pc' = [pc EXCEPT ![p] = l]
        BY <2>3 DEF ConnectLock
      <4>3. \A g \in Gens : pc'[Reader(g)] = pc[Reader(g)]
        BY <4>2, <1>0
      <4>4. \A q \in Procs : pc'[q] = "cSpawn" => pc[q] = "cSpawn"
        BY <4>2, <1>0
      <4>5. QED
        BY <3>2, <4>1, <4>3, <4>4, <1>0
    <3>3. QED
      BY <2>3, <3>1, <3>2 DEF ConnectLock
  <2>4. CASE ConnectWait(p)
    BY <2>4, <1>0, <1>f DEF ConnectWait
  <2>5. CASE ConnectDialOk(p)
    BY <2>5, <1>0, <1>f, <1>l DEF ConnectDialOk, HoldsConnMu
  <2>6. CASE ConnectDialFail(p)
    BY <2>6, <1>0, <1>f DEF ConnectDialFail, AfterFailure
  <2>7. CASE ConnectSpawn(p)
    <3>1. \A q \in Procs : pc'[q] = IF q = Pinger(gen) THEN "pTick" ELSE
                               IF q = Reader(gen) THEN "rConn" ELSE
                               IF q = p THEN "cResub" ELSE pc[q]
      BY <2>7, <1>0 DEF ConnectSpawn
    <3>2. UNCHANGED <<conn, gen, open, held>> /\ pc[p] = "cSpawn" /\ p \in Procs
      BY <2>7 DEF ConnectSpawn
    <3>3. \A g \in Gens : held[Reader(g)] = 0
      BY <3>2, <1>u DEF Running
    <3>4. QED
      BY <3>1, <3>2, <3>3
  <2>8. CASE ConnectResub(p)
    BY <2>8, <1>0, <1>f DEF ConnectResub
  <2>9. CASE ConnectTeardown(p)
    BY <2>9, <1>0, <1>f, <1>l DEF ConnectTeardown, AfterFailure, HoldsConnMu
  <2>10. QED
    BY <1>2, <2>1, <2>2, <2>3, <2>4, <2>5, <2>6, <2>7, <2>8, <2>9 DEF ConnectStep
<1>3. ASSUME NEW p \in CallerP \cup TimerP \cup PingerP, WriteStep(p) PROVE SocketInv'
  <2>1. CASE WriteLock(p)
    BY <2>1, <1>0, <1>f DEF WriteLock
  <2>2. CASE WriteCheck(p)
    BY <2>2, <1>0, <1>f DEF WriteCheck, WriteReturn, WriteFailed
  <2>3. CASE WriteRLock(p)
    BY <2>3, <1>0, <1>f DEF WriteRLock, WriteReturn, WriteFailed
  <2>4. CASE WriteSend(p)
    BY <2>4, <1>0, <1>f DEF WriteSend, WriteReturn, WriteFailed, WriteDone
  <2>5. QED
    BY <1>3, <2>1, <2>2, <2>3, <2>4 DEF WriteStep
<1>4. ASSUME NEW p \in CallerP, SubscribeRollback(p) PROVE SocketInv'
  BY <1>4, <1>0, <1>f DEF SubscribeRollback
<1>5. ASSUME NEW p \in CallerP, CloseStep(p) PROVE SocketInv'
  <2>1. CASE CloseOnce(p)
    BY <2>1, <1>0, <1>f DEF CloseOnce
  <2>2. CASE CloseTimer(p)
    BY <2>2, <1>0, <1>f DEF CloseTimer
  <2>3. CASE CloseConn(p)
    BY <2>3, <1>0, <1>f DEF CloseConn
  <2>4. CASE CloseWait(p)
    BY <2>4, <1>0, <1>f DEF CloseWait
  <2>5. QED
    BY <1>5, <2>1, <2>2, <2>3, <2>4 DEF CloseStep
<1>6. ASSUME NEW p \in TimerP \cup ReaderP, ScheduleStep(p) PROVE SocketInv'
  <2>1. CASE ScheduleClosedCheck(p)
    BY <2>1, <1>0, <1>f DEF ScheduleClosedCheck
  <2>2. CASE ScheduleArm(p)
    BY <2>2, <1>0, <1>f DEF ScheduleArm
  <2>3. QED
    BY <1>6, <2>1, <2>2 DEF ScheduleStep
<1>7. ASSUME NEW g \in Gens, ReaderStep(g) PROVE SocketInv'
  <2>1. CASE ReadStart(g)
    BY <2>1, <1>0, <1>f, <1>u DEF ReadStart, Running
  <2>2. CASE ReadFail(g)
    BY <2>2, <1>0, <1>f DEF ReadFail
  <2>3. CASE DisconnectClosedCheck(g)
    BY <2>3, <1>0, <1>f DEF DisconnectClosedCheck
  <2>4. CASE DisconnectFlag(g)
    BY <2>4, <1>0, <1>f DEF DisconnectFlag
  <2>5. CASE DisconnectLock(g)
    BY <2>5, <1>0, <1>f DEF DisconnectLock
  <2>6. QED
    BY <1>7, <2>1, <2>2, <2>3, <2>4, <2>5, <1>6 DEF ReaderStep
<1>8. ASSUME NEW g \in Gens, PingerStep(g) PROVE SocketInv'
  <2>1. CASE PingTick(g)
    BY <2>1, <1>0, <1>f DEF PingTick
  <2>2. CASE PingExit(g)
    BY <2>2, <1>0, <1>f DEF PingExit
  <2>3. QED
    BY <1>8, <2>1, <2>2, <1>3 DEF PingerStep
<1>9. ASSUME NEW p \in TimerP, TimerFire(p) PROVE SocketInv'
  BY <1>9, <1>0, <1>f DEF TimerFire
<1>10. ASSUME NEW p \in TimerP, TimerCheck(p) PROVE SocketInv'
  BY <1>10, <1>0, <1>f DEF TimerCheck
<1>11. ASSUME NEW g \in Gens, Drop(g) PROVE SocketInv'
  BY <1>11, <1>0, <1>f DEF Drop
<1>12. CASE UNCHANGED vars
  BY <1>12, <1>0, <1>f DEF vars
<1>13. QED
  BY <1>1, <1>2, <1>3, <1>4, <1>5, <1>6, <1>7, <1>8, <1>9, <1>10, <1>11, <1>12 DEF Next,
     CallerStep, TimerStep

LEMMA WatchStep ==
  TypeOK /\ KindInv /\ LockInv /\ PumpInv /\ SocketInv /\ WatchInv
  /\ [Next]_vars => WatchInv'
<1> SUFFICES ASSUME TypeOK, KindInv, LockInv, PumpInv, SocketInv, WatchInv,
                    [Next]_vars
             PROVE WatchInv'
  OBVIOUS
<1> USE ProcFacts, GenFacts DEF WatchInv, CloseLabels, Goto, At, connVars, DropConn, lifeVars
<1>0. /\ pc \in [Procs -> Labels] /\ gen \in 0..MaxConns
      /\ connected \in BOOLEAN /\ closed \in BOOLEAN
  BY DEF TypeOK
<1>k. \A q \in ReaderP : pc[q] \notin {"wLock", "wCheck", "wRLock", "wSend"}
  BY DEF KindInv, WriteLabels
<1>s. /\ \A q \in Procs : pc[q] = "cSpawn" => gen # 0
      /\ conn \in {0, gen}
  BY DEF SocketInv
<1>u. /\ \A g \in Gens : Running(g) => g = gen
      /\ \A q \in Procs : pc[q] = "cSpawn" => \A g \in Gens : ~Running(g)
  BY DEF PumpInv, PumpsDone, Running
<1>w. ASSUME NEW q \in CallerP \cup TimerP \cup PingerP, NEW l \in Labels \ CloseLabels,
             pc[q] # "cSpawn", pc' = [pc EXCEPT ![q] = l],
             UNCHANGED <<conn, gen, connected, closed>>
      PROVE  WatchInv'
  <2>1. \A r \in Procs : pc'[r] \in CloseLabels => pc[r] \in CloseLabels
    BY <1>w, <1>0
  <2>2. \A r \in Procs : pc[r] = "cSpawn" => pc'[r] = "cSpawn"
    BY <1>w, <1>0
  <2>3. pc'[Reader(gen')] = pc[Reader(gen)]
    BY <1>w, <1>0
  <2>4. QED
    BY <1>w, <2>1, <2>2, <2>3
<1>1. ASSUME NEW c \in Callers, NEW m \in Methods, CallMethod(c, m) PROVE WatchInv'
  <2>1. PICK l \in {"cClosed", "xOnce", "wLock"} : pc' = [pc EXCEPT ![<<"call", c>>] = l]
    BY <1>1 DEF CallMethod, Methods
  <2>2. UNCHANGED <<conn, gen, connected, closed>> /\ pc[<<"call", c>>] # "cSpawn"
    BY <1>1 DEF CallMethod
  <2>3. QED
    BY <2>1, <2>2, <1>w DEF Labels
<1>2. ASSUME NEW p \in CallerP \cup TimerP, ConnectStep(p) PROVE WatchInv'
  <2>1. CASE ConnectClosedCheck(p)
    BY <2>1, <1>0 DEF ConnectClosedCheck, AfterFailure
  <2>2. CASE ConnectFlagCheck(p)
    BY <2>2, <1>0 DEF ConnectFlagCheck
  <2>3. CASE ConnectLock(p)
    <3>1. CASE Goto(p, "idle") /\ UNCHANGED <<connVars, connMu>>
      <4>1. PICK l \in {"idle"} : pc' = [pc EXCEPT ![p] = l]
        BY <2>3, <3>1 DEF ConnectLock
      <4>2. UNCHANGED <<conn, gen, connected, closed>> /\ pc[p] # "cSpawn"
        BY <2>3, <3>1 DEF ConnectLock
      <4>3. QED
        BY <4>1, <4>2, <1>w DEF Labels
    <3>2. CASE conn = 0 \/ ~connected
      <4>1. ~(connected' /\ ~closed')
        BY <2>3, <3>2 DEF ConnectLock
      <4>2. PICK l \in {"idle", "cDial", "cWait"} : pc' = [pc EXCEPT ![p] = l]
        BY <2>3 DEF ConnectLock
      <4>3. \A q \in Procs : pc'[q] \in CloseLabels => closed'
        BY <2>3, <4>2, <1>0 DEF ConnectLock
      <4>4. QED
        BY <4>1, <4>3
    <3>3. QED
      BY <2>3, <3>1, <3>2 DEF ConnectLock
  <2>4. CASE ConnectWait(p)
    BY <2>4, <1>0 DEF ConnectWait
  <2>5. CASE ConnectDialOk(p)
    BY <2>5, <1>0 DEF ConnectDialOk
  <2>6. CASE ConnectDialFail(p)
    BY <2>6, <1>0 DEF ConnectDialFail, AfterFailure
  <2>7. CASE ConnectSpawn(p)
    <3>1. \A q \in Procs : pc'[q] = IF q = Pinger(gen) THEN "pTick" ELSE
                               IF q = Reader(gen) THEN "rConn" ELSE
                               IF q = p THEN "cResub" ELSE pc[q]
      BY <2>7, <1>0 DEF ConnectSpawn
    <3>2. /\ UNCHANGED <<conn, gen, connected, closed>>
          /\ pc[p] = "cSpawn" /\ p \in Procs
      BY <2>7 DEF ConnectSpawn, lifeVars
    <3>3. gen \in Gens
      BY <3>2, <1>0, <1>s DEF Gens
    <3>4. pc'[Reader(gen')] = "rConn"
      BY <3>1, <3>2, <3>3
    <3>5. \A q \in Procs : pc'[q] \in CloseLabels => pc[q] \in CloseLabels
      BY <3>1
    <3>6. QED
      BY <3>2, <3>4, <3>5
  <2>8. CASE ConnectResub(p)
    <3>1. PICK l \in {"idle", "wLock"} : pc' = [pc EXCEPT ![p] = l]
      BY <2>8 DEF ConnectResub
    <3>2. UNCHANGED <<conn, gen, connected, closed>> /\ pc[p] # "cSpawn"
      BY <2>8 DEF ConnectResub
    <3>3. QED
      BY <3>1, <3>2, <1>w DEF Labels
  <2>9. CASE ConnectTeardown(p)
    BY <2>9, <1>0 DEF ConnectTeardown, AfterFailure
  <2>10. QED
    BY <1>2, <2>1, <2>2, <2>3, <2>4, <2>5, <2>6, <2>7, <2>8, <2>9 DEF ConnectStep
<1>3. ASSUME NEW p \in CallerP \cup TimerP \cup PingerP, WriteStep(p) PROVE WatchInv'
  <2>1. CASE WriteLock(p)
    BY <2>1, <1>0, <1>k DEF WriteLock
  <2>2. CASE WriteCheck(p)
    <3>1. PICK l \in {"wRLock", "pTick", "cFail", "uRollback", "idle"} :
              pc' = [pc EXCEPT ![p] = l]
      BY <2>2 DEF WriteCheck, WriteReturn, WriteFailed, WriteDone
    <3>2. UNCHANGED <<conn, gen, connected, closed>> /\ pc[p] # "cSpawn"
      BY <2>2 DEF WriteCheck
    <3>3. QED
      BY <3>1, <3>2, <1>w DEF Labels
  <2>3. CASE WriteRLock(p)
    <3>1. PICK l \in {"wSend", "pTick", "cFail", "uRollback", "idle"} :
              pc' = [pc EXCEPT ![p] = l]
      BY <2>3 DEF WriteRLock, WriteReturn, WriteFailed, WriteDone
    <3>2. UNCHANGED <<conn, gen, connected, closed>> /\ pc[p] # "cSpawn"
      BY <2>3 DEF WriteRLock
    <3>3. QED
      BY <3>1, <3>2, <1>w DEF Labels
  <2>4. CASE WriteSend(p)
    <3>1. PICK l \in {"cResub", "pTick", "cFail", "uRollback", "idle"} :
              pc' = [pc EXCEPT ![p] = l]
      BY <2>4 DEF WriteSend, WriteReturn, WriteFailed, WriteDone
    <3>2. UNCHANGED <<conn, gen, connected, closed>> /\ pc[p] # "cSpawn"
      BY <2>4 DEF WriteSend
    <3>3. QED
      BY <3>1, <3>2, <1>w DEF Labels
  <2>5. QED
    BY <1>3, <2>1, <2>2, <2>3, <2>4 DEF WriteStep
<1>4. ASSUME NEW p \in CallerP, SubscribeRollback(p) PROVE WatchInv'
  BY <1>4, <1>0 DEF SubscribeRollback
<1>5. ASSUME NEW p \in CallerP, CloseStep(p) PROVE WatchInv'
  <2>1. CASE CloseOnce(p)
    <3>1. CASE once = "new"
      BY <2>1, <3>1, <1>0 DEF CloseOnce
    <3>2. CASE once = "done"
      <4>1. PICK l \in {"idle"} : pc' = [pc EXCEPT ![p] = l]
        BY <2>1, <3>2 DEF CloseOnce
      <4>2. UNCHANGED <<conn, gen, connected, closed>> /\ pc[p] # "cSpawn"
        BY <2>1, <3>2 DEF CloseOnce
      <4>3. QED
        BY <4>1, <4>2, <1>w DEF Labels
    <3>3. QED
      BY <2>1, <3>1, <3>2 DEF CloseOnce
  <2>2. CASE CloseTimer(p)
    BY <2>2, <1>0 DEF CloseTimer
  <2>3. CASE CloseConn(p)
    BY <2>3, <1>0, <1>u DEF CloseConn, Running
  <2>4. CASE CloseWait(p)
    BY <2>4, <1>0 DEF CloseWait
  <2>5. QED
    BY <1>5, <2>1, <2>2, <2>3, <2>4 DEF CloseStep
<1>6. ASSUME NEW p \in TimerP \cup ReaderP, ScheduleStep(p) PROVE WatchInv'
  <2>1. CASE ScheduleClosedCheck(p)
    BY <2>1, <1>0 DEF ScheduleClosedCheck
  <2>2. CASE ScheduleArm(p)
    BY <2>2, <1>0 DEF ScheduleArm
  <2>3. QED
    BY <1>6, <2>1, <2>2 DEF ScheduleStep
<1>7. ASSUME NEW g \in Gens, ReaderStep(g) PROVE WatchInv'
  <2>1. CASE ReadStart(g)
    BY <2>1, <1>0, <1>u DEF ReadStart, Running
  <2>2. CASE ReadFail(g)
    BY <2>2, <1>0 DEF ReadFail
  <2>3. CASE DisconnectClosedCheck(g)
    BY <2>3, <1>0 DEF DisconnectClosedCheck
  <2>4. CASE DisconnectFlag(g)
    BY <2>4, <1>0, <1>u DEF DisconnectFlag, Running
  <2>5. CASE DisconnectLock(g)
    BY <2>5, <1>0, <1>u DEF DisconnectLock, Running
  <2>6. QED
    BY <1>7, <2>1, <2>2, <2>3, <2>4, <2>5, <1>6 DEF ReaderStep
<1>8. ASSUME NEW g \in Gens, PingerStep(g) PROVE WatchInv'
  <2>1. CASE PingTick(g)
    BY <2>1, <1>0 DEF PingTick
  <2>2. CASE PingExit(g)
    BY <2>2, <1>0 DEF PingExit
  <2>3. QED
    BY <1>8, <2>1, <2>2, <1>3 DEF PingerStep
<1>9. ASSUME NEW p \in TimerP, TimerFire(p) PROVE WatchInv'
  BY <1>9, <1>0 DEF TimerFire
<1>10. ASSUME NEW p \in TimerP, TimerCheck(p) PROVE WatchInv'
  BY <1>10, <1>0 DEF TimerCheck
<1>11. ASSUME NEW g \in Gens, Drop(g) PROVE WatchInv'
  BY <1>11, <1>0 DEF Drop
<1>12. CASE UNCHANGED vars
  BY <1>12, <1>0 DEF vars
<1>13. QED
  BY <1>1, <1>2, <1>3, <1>4, <1>5, <1>6, <1>7, <1>8, <1>9, <1>10, <1>11, <1>12 DEF Next,
     CallerStep, TimerStep

LEMMA ResubStep ==
  TypeOK /\ KindInv /\ LockInv /\ SocketInv /\ ResubInv
  /\ [Next]_vars => ResubInv'
<1> SUFFICES ASSUME TypeOK, KindInv, LockInv, SocketInv, ResubInv,
                    [Next]_vars
             PROVE ResubInv'
  OBVIOUS
<1> USE ProcFacts, GenFacts DEF ResubInv, Goto, At, connVars
<1>0. /\ pc \in [Procs -> Labels] /\ op \in [Procs -> Ops] /\ gen \in 0..MaxConns
  BY DEF TypeOK
<1>l. \A q, r \in Procs : HoldsConnMu(q) /\ HoldsConnMu(r) => q = r
  BY DEF LockInv
<1>f. connMu = Free => \A q \in Procs : ~Resubscribing(q)
  BY DEF LockInv, HoldsConnMu, Resubscribing
<1>s. \A q \in Procs : pc[q] = "cSpawn" => gen # 0
  BY DEF SocketInv
<1>k. \A q \in Procs : pc[q] \in ConnectLabels => op[q] = "connect"
  BY DEF KindInv
<1>w. ASSUME NEW q \in Procs, NEW l \in Labels, pc' = [pc EXCEPT ![q] = l], gen' = gen,
             q \in ReaderP /\ pc[q] = "rConn" => connMu = Free,
             \A r \in Procs : r # q => op'[r] = op[r],
             Resubscribing(q)' => Resubscribing(q)
      PROVE  ResubInv'
  <2> SUFFICES ASSUME NEW r \in Procs, Resubscribing(r)'
               PROVE  gen' # 0 /\ pc'[Reader(gen')] = "rConn"
    OBVIOUS
  <2>1. Resubscribing(r)
    BY <1>0, <1>w DEF Resubscribing
  <2>2. gen # 0 /\ pc[Reader(gen)] = "rConn" /\ connMu # Free
    BY <2>1, <1>f
  <2>3. Reader(gen) \in ReaderP /\ Reader(gen) # q
    <3>1. gen \in Gens
      BY <2>2, <1>0 DEF Gens
    <3>2. QED
      BY <2>2, <3>1, <1>w
  <2>4. QED
    BY <1>0, <1>w, <2>2, <2>3
<1>v. ASSUME NEW q \in Procs,
             NEW l \in Labels \ ({"cResub", "cFail", "wLock"} \cup WriteLabels),
             pc' = [pc EXCEPT ![q] = l], gen' = gen,
             q \in ReaderP /\ pc[q] = "rConn" => connMu = Free,
             \A r \in Procs : r # q => op'[r] = op[r]
      PROVE  ResubInv'
  <2>1. ~Resubscribing(q)'
    BY <1>0, <1>v DEF Resubscribing
  <2>2. QED
    BY <1>v, <1>w, <2>1
<1>1. ASSUME NEW c \in Callers, NEW m \in Methods, CallMethod(c, m) PROVE ResubInv'
  <2> DEFINE p == <<"call", c>>
  <2>1. PICK l \in {"cClosed", "xOnce", "wLock"} : pc' = [pc EXCEPT ![p] = l]
    BY <1>1 DEF CallMethod, Methods
  <2>2. UNCHANGED gen /\ \A r \in Procs : r # p => op'[r] = op[r]
    BY <1>1, <1>0 DEF CallMethod
  <2>3. pc'[p] = "wLock" => op'[p] # "connect"
    BY <1>1, <1>0 DEF CallMethod, Methods
  <2>4. p \in CallerP
    OBVIOUS
  <2> HIDE DEF p
  <2>5. ~Resubscribing(p)'
    BY <2>1, <2>3, <2>4, <1>0 DEF Resubscribing, WriteLabels
  <2>6. QED
    BY <2>1, <2>2, <2>4, <2>5, <1>w DEF Labels
<1>2. ASSUME NEW p \in CallerP \cup TimerP, ConnectStep(p) PROVE ResubInv'
  <2>1. CASE ConnectClosedCheck(p)
    <3>1. PICK l \in {"idle", "sClosed", "cConnected"} : pc' = [pc EXCEPT ![p] = l]
      BY <2>1 DEF ConnectClosedCheck, AfterFailure
    <3>2. UNCHANGED gen /\ \A r \in Procs : r # p => op'[r] = op[r]
      BY <2>1, <1>0 DEF ConnectClosedCheck
    <3>3. QED
      BY <2>1, <3>1, <3>2, <1>v DEF Labels, WriteLabels
  <2>2. CASE ConnectFlagCheck(p)
    <3>1. PICK l \in {"idle", "cLock"} : pc' = [pc EXCEPT ![p] = l]
      BY <2>2 DEF ConnectFlagCheck
    <3>2. UNCHANGED gen /\ \A r \in Procs : r # p => op'[r] = op[r]
      BY <2>2, <1>0 DEF ConnectFlagCheck
    <3>3. QED
      BY <2>2, <3>1, <3>2, <1>v DEF Labels, WriteLabels
  <2>3. CASE ConnectLock(p)
    <3>1. PICK l \in {"idle", "cDial", "cWait"} : pc' = [pc EXCEPT ![p] = l]
      BY <2>3 DEF ConnectLock
    <3>2. UNCHANGED gen /\ \A r \in Procs : r # p => op'[r] = op[r]
      BY <2>3, <1>0 DEF ConnectLock
    <3>3. QED
      BY <2>3, <3>1, <3>2, <1>v DEF Labels, WriteLabels
  <2>4. CASE ConnectWait(p)
    <3>1. PICK l \in {"cDial"} : pc' = [pc EXCEPT ![p] = l]
      BY <2>4 DEF ConnectWait
    <3>2. UNCHANGED gen /\ \A r \in Procs : r # p => op'[r] = op[r]
      BY <2>4, <1>0 DEF ConnectWait
    <3>3. QED
      BY <2>4, <3>1, <3>2, <1>v DEF Labels, WriteLabels
  <2>5. CASE ConnectDialOk(p)
    <3>1. HoldsConnMu(p) /\ ~Resubscribing(p)
      BY <2>5, <1>k DEF ConnectDialOk, HoldsConnMu, Resubscribing, WriteLabels,
         ConnectLabels
    <3>2. \A q \in Procs : ~Resubscribing(q)
      BY <3>1, <1>l DEF HoldsConnMu, Resubscribing
    <3>3. op' = op /\ pc' = [pc EXCEPT ![p] = "cSpawn"]
      BY <2>5 DEF ConnectDialOk
    <3>4. \A q \in Procs : ~Resubscribing(q)'
      BY <3>2, <3>3, <1>0 DEF Resubscribing, WriteLabels
    <3>5. QED
      BY <3>4
  <2>6. CASE ConnectDialFail(p)
    <3>1. PICK l \in {"idle", "sClosed"} : pc' = [pc EXCEPT ![p] = l]
      BY <2>6 DEF ConnectDialFail, AfterFailure
    <3>2. UNCHANGED gen /\ \A r \in Procs : r # p => op'[r] = op[r]
      BY <2>6, <1>0 DEF ConnectDialFail
    <3>3. QED
      BY <2>6, <3>1, <3>2, <1>v DEF Labels, WriteLabels
  <2>7. CASE ConnectSpawn(p)
    <3>1. \A q \in Procs : pc'[q] = IF q = Pinger(gen) THEN "pTick" ELSE
                               IF q = Reader(gen) THEN "rConn" ELSE
                               IF q = p THEN "cResub" ELSE pc[q]
      BY <2>7, <1>0 DEF ConnectSpawn
    <3>2. UNCHANGED <<gen, op>> /\ pc[p] = "cSpawn" /\ p \in Procs
      BY <2>7 DEF ConnectSpawn
    <3>3. gen \in Gens
      BY <3>2, <1>0, <1>s DEF Gens
    <3>4. pc'[Reader(gen')] = "rConn" /\ gen' # 0
      BY <3>1, <3>2, <3>3
    <3>5. QED
      BY <3>4
  <2>8. CASE ConnectResub(p)
    BY <2>8, <1>0, <1>w, <1>k DEF ConnectResub, Resubscribing, Labels, ConnectLabels
  <2>9. CASE ConnectTeardown(p)
    <3>1. PICK l \in {"idle", "sClosed"} : pc' = [pc EXCEPT ![p] = l]
      BY <2>9 DEF ConnectTeardown, AfterFailure
    <3>2. UNCHANGED gen /\ \A r \in Procs : r # p => op'[r] = op[r]
      BY <2>9, <1>0 DEF ConnectTeardown
    <3>3. QED
      BY <2>9, <3>1, <3>2, <1>v DEF Labels, WriteLabels
  <2>10. QED
    BY <1>2, <2>1, <2>2, <2>3, <2>4, <2>5, <2>6, <2>7, <2>8, <2>9 DEF ConnectStep
<1>3. ASSUME NEW p \in CallerP \cup TimerP \cup PingerP, WriteStep(p) PROVE ResubInv'
  <2>1. CASE WriteLock(p)
    BY <2>1, <1>0, <1>w, <1>k DEF WriteLock, WriteLabels, Resubscribing, Labels,
       ConnectLabels
  <2>2. CASE WriteCheck(p)
    BY <2>2, <1>0, <1>w, <1>k, ZenonT(60) DEF WriteCheck, WriteLabels, WriteReturn, WriteFailed,
       Resubscribing, Labels, ConnectLabels
  <2>3. CASE WriteRLock(p)
    BY <2>3, <1>0, <1>w, <1>k, ZenonT(60) DEF WriteRLock, WriteLabels, WriteReturn, WriteFailed,
       Resubscribing, Labels, ConnectLabels
  <2>4. CASE WriteSend(p)
    BY <2>4, <1>0, <1>w, <1>k, ZenonT(60) DEF WriteSend, WriteLabels, WriteReturn, WriteFailed,
       WriteDone, Resubscribing, Labels, ConnectLabels
  <2>5. QED
    BY <1>3, <2>1, <2>2, <2>3, <2>4, SMTT(30) DEF WriteStep
<1>4. ASSUME NEW p \in CallerP, SubscribeRollback(p) PROVE ResubInv'
  <2>1. PICK l \in {"idle"} : pc' = [pc EXCEPT ![p] = l]
    BY <1>4 DEF SubscribeRollback
  <2>2. UNCHANGED gen /\ \A r \in Procs : r # p => op'[r] = op[r]
    BY <1>4, <1>0 DEF SubscribeRollback
  <2>3. QED
    BY <1>4, <2>1, <2>2, <1>v DEF Labels, WriteLabels
<1>5. ASSUME NEW p \in CallerP, CloseStep(p) PROVE ResubInv'
  <2>1. CASE CloseOnce(p)
    <3>1. PICK l \in {"xTimer", "idle"} : pc' = [pc EXCEPT ![p] = l]
      BY <2>1 DEF CloseOnce
    <3>2. UNCHANGED gen /\ \A r \in Procs : r # p => op'[r] = op[r]
      BY <2>1, <1>0 DEF CloseOnce
    <3>3. QED
      BY <2>1, <3>1, <3>2, <1>v DEF Labels, WriteLabels
  <2>2. CASE CloseTimer(p)
    <3>1. PICK l \in {"xConn"} : pc' = [pc EXCEPT ![p] = l]
      BY <2>2 DEF CloseTimer
    <3>2. UNCHANGED gen /\ \A r \in Procs : r # p => op'[r] = op[r]
      BY <2>2, <1>0 DEF CloseTimer
    <3>3. QED
      BY <2>2, <3>1, <3>2, <1>v DEF Labels, WriteLabels
  <2>3. CASE CloseConn(p)
    <3>1. PICK l \in {"xWait"} : pc' = [pc EXCEPT ![p] = l]
      BY <2>3 DEF CloseConn
    <3>2. UNCHANGED gen /\ \A r \in Procs : r # p => op'[r] = op[r]
      BY <2>3, <1>0 DEF CloseConn
    <3>3. QED
      BY <2>3, <3>1, <3>2, <1>v DEF Labels, WriteLabels
  <2>4. CASE CloseWait(p)
    <3>1. PICK l \in {"idle"} : pc' = [pc EXCEPT ![p] = l]
      BY <2>4 DEF CloseWait
    <3>2. UNCHANGED gen /\ \A r \in Procs : r # p => op'[r] = op[r]
      BY <2>4, <1>0 DEF CloseWait
    <3>3. QED
      BY <2>4, <3>1, <3>2, <1>v DEF Labels, WriteLabels
  <2>5. QED
    BY <1>5, <2>1, <2>2, <2>3, <2>4 DEF CloseStep
<1>6. ASSUME NEW p \in TimerP \cup ReaderP, ScheduleStep(p) PROVE ResubInv'
  <2>1. CASE ScheduleClosedCheck(p)
    <3>1. PICK l \in {"idle", "sArm"} : pc' = [pc EXCEPT ![p] = l]
      BY <2>1 DEF ScheduleClosedCheck
    <3>2. UNCHANGED gen /\ \A r \in Procs : r # p => op'[r] = op[r]
      BY <2>1, <1>0 DEF ScheduleClosedCheck
    <3>3. p \in ReaderP => pc[p] # "rConn"
      BY <2>1, <1>0 DEF ScheduleClosedCheck
    <3>4. QED
      BY <3>1, <3>2, <3>3, <1>v DEF Labels, WriteLabels
  <2>2. CASE ScheduleArm(p)
    <3>1. PICK l \in {"idle"} : pc' = [pc EXCEPT ![p] = l]
      BY <2>2 DEF ScheduleArm
    <3>2. UNCHANGED gen /\ \A r \in Procs : r # p => op'[r] = op[r]
      BY <2>2, <1>0 DEF ScheduleArm
    <3>3. p \in ReaderP => pc[p] # "rConn"
      BY <2>2, <1>0 DEF ScheduleArm
    <3>4. QED
      BY <3>1, <3>2, <3>3, <1>v DEF Labels, WriteLabels
  <2>3. QED
    BY <1>6, <2>1, <2>2 DEF ScheduleStep
<1>7. ASSUME NEW g \in Gens, ReaderStep(g) PROVE ResubInv'
  <2>1. CASE ReadStart(g)
    <3>1. PICK l \in {"hClosed", "rRead"} : pc' = [pc EXCEPT ![Reader(g)] = l]
      BY <2>1 DEF ReadStart
    <3>2. UNCHANGED gen /\ \A r \in Procs : r # Reader(g) => op'[r] = op[r]
      BY <2>1, <1>0 DEF ReadStart
    <3>3. pc[Reader(g)] = "rConn" => connMu = Free
      BY <2>1, <1>0 DEF ReadStart
    <3>4. QED
      BY <3>1, <3>2, <3>3, <1>v DEF Labels, WriteLabels
  <2>2. CASE ReadFail(g)
    <3>1. PICK l \in {"hClosed"} : pc' = [pc EXCEPT ![Reader(g)] = l]
      BY <2>2 DEF ReadFail
    <3>2. UNCHANGED gen /\ \A r \in Procs : r # Reader(g) => op'[r] = op[r]
      BY <2>2, <1>0 DEF ReadFail
    <3>3. pc[Reader(g)] = "rConn" => connMu = Free
      BY <2>2, <1>0 DEF ReadFail
    <3>4. QED
      BY <3>1, <3>2, <3>3, <1>v DEF Labels, WriteLabels
  <2>3. CASE DisconnectClosedCheck(g)
    <3>1. PICK l \in {"idle", "hFlag"} : pc' = [pc EXCEPT ![Reader(g)] = l]
      BY <2>3 DEF DisconnectClosedCheck
    <3>2. UNCHANGED gen /\ \A r \in Procs : r # Reader(g) => op'[r] = op[r]
      BY <2>3, <1>0 DEF DisconnectClosedCheck
    <3>3. pc[Reader(g)] = "rConn" => connMu = Free
      BY <2>3, <1>0 DEF DisconnectClosedCheck
    <3>4. QED
      BY <3>1, <3>2, <3>3, <1>v DEF Labels, WriteLabels
  <2>4. CASE DisconnectFlag(g)
    <3>1. PICK l \in {"hLock"} : pc' = [pc EXCEPT ![Reader(g)] = l]
      BY <2>4 DEF DisconnectFlag
    <3>2. UNCHANGED gen /\ \A r \in Procs : r # Reader(g) => op'[r] = op[r]
      BY <2>4, <1>0 DEF DisconnectFlag
    <3>3. pc[Reader(g)] = "rConn" => connMu = Free
      BY <2>4, <1>0 DEF DisconnectFlag
    <3>4. QED
      BY <3>1, <3>2, <3>3, <1>v DEF Labels, WriteLabels
  <2>5. CASE DisconnectLock(g)
    <3>1. PICK l \in {"sClosed"} : pc' = [pc EXCEPT ![Reader(g)] = l]
      BY <2>5 DEF DisconnectLock
    <3>2. UNCHANGED gen /\ \A r \in Procs : r # Reader(g) => op'[r] = op[r]
      BY <2>5, <1>0 DEF DisconnectLock
    <3>3. pc[Reader(g)] = "rConn" => connMu = Free
      BY <2>5, <1>0 DEF DisconnectLock
    <3>4. QED
      BY <3>1, <3>2, <3>3, <1>v DEF Labels, WriteLabels
  <2>6. QED
    BY <1>7, <2>1, <2>2, <2>3, <2>4, <2>5, <1>6 DEF ReaderStep
<1>8. ASSUME NEW g \in Gens, PingerStep(g) PROVE ResubInv'
  <2>1. CASE PingTick(g)
    BY <2>1, <1>0, <1>w, <1>k DEF PingTick, Resubscribing, Labels, ConnectLabels
  <2>2. CASE PingExit(g)
    <3>1. PICK l \in {"idle"} : pc' = [pc EXCEPT ![Pinger(g)] = l]
      BY <2>2 DEF PingExit
    <3>2. UNCHANGED gen /\ \A r \in Procs : r # Pinger(g) => op'[r] = op[r]
      BY <2>2, <1>0 DEF PingExit
    <3>3. QED
      BY <2>2, <3>1, <3>2, <1>v DEF Labels, WriteLabels
  <2>3. QED
    BY <1>8, <2>1, <2>2, <1>3, SMTT(30) DEF PingerStep
<1>9. ASSUME NEW p \in TimerP, TimerFire(p) PROVE ResubInv'
  <2>1. PICK l \in {"tCheck"} : pc' = [pc EXCEPT ![p] = l]
    BY <1>9 DEF TimerFire
  <2>2. UNCHANGED gen /\ \A r \in Procs : r # p => op'[r] = op[r]
    BY <1>9, <1>0 DEF TimerFire
  <2>3. QED
    BY <1>9, <2>1, <2>2, <1>v DEF Labels, WriteLabels
<1>10. ASSUME NEW p \in TimerP, TimerCheck(p) PROVE ResubInv'
  <2>1. PICK l \in {"idle", "cClosed"} : pc' = [pc EXCEPT ![p] = l]
    BY <1>10 DEF TimerCheck
  <2>2. UNCHANGED gen /\ \A r \in Procs : r # p => op'[r] = op[r]
    BY <1>10, <1>0 DEF TimerCheck
  <2>3. QED
    BY <1>10, <2>1, <2>2, <1>v DEF Labels, WriteLabels
<1>11. ASSUME NEW g \in Gens, Drop(g) PROVE ResubInv'
  BY <1>11, <1>0, <1>w, <1>k DEF Drop, Resubscribing, Labels, ConnectLabels
<1>12. CASE UNCHANGED vars
  BY <1>12, <1>0, <1>w, <1>k DEF vars, Resubscribing, Labels, ConnectLabels
<1>13. QED
  BY <1>1, <1>2, <1>3, <1>4, <1>5, <1>6, <1>7, <1>8, <1>9, <1>10, <1>11, <1>12 DEF Next,
     CallerStep, TimerStep

LEMMA RetryStep ==
  TypeOK /\ KindInv /\ SocketInv /\ WatchInv /\ ResubInv /\ ReconnectNotLost
  /\ [Next]_vars => ReconnectNotLost'
<1> SUFFICES ASSUME TypeOK, KindInv, SocketInv, WatchInv, ResubInv, ReconnectNotLost,
                    [Next]_vars
             PROVE ReconnectNotLost'
  OBVIOUS
<1> USE ProcFacts, GenFacts DEF ReconnectNotLost, Goto, At, connVars, retryVars, lifeVars
<1>0. /\ pc \in [Procs -> Labels] /\ op \in [Procs -> Ops] /\ gen \in 0..MaxConns
      /\ connected \in BOOLEAN /\ closed \in BOOLEAN /\ timer \in BOOLEAN
  BY DEF TypeOK
<1>t. \A q \in TimerP : pc[q] # "idle" => op[q] = "connect"
  BY DEF KindInv
<1>s. \A q \in Procs : pc[q] = "cSpawn" => gen # 0
  BY DEF SocketInv
<1>c. \A q \in Procs : pc[q] \in CloseLabels => closed
  BY DEF WatchInv
<1>b. \A q \in Procs : Resubscribing(q) => gen \in Gens /\ pc[Reader(gen)] = "rConn"
  BY <1>0 DEF ResubInv, Gens
<1>w. ASSUME NEW q \in Procs, NEW l \in Labels, pc' = [pc EXCEPT ![q] = l],
             UNCHANGED <<gen, connected, closed, timer, attempts>>,
             q \in TimerP \cup ReaderP /\ l = "idle" => closed \/ connected
      PROVE  ReconnectNotLost'
  <2>1. ASSUME ~closed, ~connected, NEW r \in TimerP \cup ReaderP, pc[r] # "idle"
        PROVE  pc'[r] # "idle"
    BY <1>0, <1>w, <2>1
  <2>2. QED
    BY <1>w, <2>1
<1>1. ASSUME NEW c \in Callers, NEW m \in Methods, CallMethod(c, m) PROVE ReconnectNotLost'
  <2>1. PICK l \in {"cClosed", "xOnce", "wLock"} : pc' = [pc EXCEPT ![<<"call", c>>] = l]
    BY <1>1 DEF CallMethod, Methods
  <2>2. UNCHANGED <<gen, connected, closed, timer, attempts>>
    BY <1>1 DEF CallMethod
  <2>3. QED
    BY <2>1, <2>2, <1>w DEF Labels
<1>2. ASSUME NEW p \in CallerP \cup TimerP, ConnectStep(p) PROVE ReconnectNotLost'
  <2>1. CASE ConnectClosedCheck(p)
    <3>1. PICK l \in {"idle", "sClosed", "cConnected"} : pc' = [pc EXCEPT ![p] = l]
              /\ (l = "idle" => p \notin TimerP)
      BY <2>1 DEF ConnectClosedCheck, AfterFailure
    <3>2. UNCHANGED <<gen, connected, closed, timer, attempts>>
      BY <2>1 DEF ConnectClosedCheck
    <3>3. QED
      BY <3>1, <3>2, <1>w DEF Labels
  <2>2. CASE ConnectFlagCheck(p)
    <3>1. PICK l \in {"idle", "cLock"} : pc' = [pc EXCEPT ![p] = l]
              /\ (l = "idle" => closed \/ connected)
      BY <2>2 DEF ConnectFlagCheck
    <3>2. UNCHANGED <<gen, connected, closed, timer, attempts>>
      BY <2>2 DEF ConnectFlagCheck
    <3>3. QED
      BY <3>1, <3>2, <1>w DEF Labels
  <2>3. CASE ConnectLock(p)
    <3>1. PICK l \in {"idle", "cDial", "cWait"} : pc' = [pc EXCEPT ![p] = l]
              /\ (l = "idle" => closed \/ connected)
      BY <2>3 DEF ConnectLock
    <3>2. UNCHANGED <<gen, connected, closed, timer, attempts>>
      BY <2>3 DEF ConnectLock
    <3>3. QED
      BY <3>1, <3>2, <1>w DEF Labels
  <2>4. CASE ConnectWait(p)
    <3>1. PICK l \in {"cDial"} : pc' = [pc EXCEPT ![p] = l]
      BY <2>4 DEF ConnectWait
    <3>2. UNCHANGED <<gen, connected, closed, timer, attempts>>
      BY <2>4 DEF ConnectWait
    <3>3. QED
      BY <3>1, <3>2, <1>w DEF Labels
  <2>5. CASE ConnectDialOk(p)
    BY <2>5 DEF ConnectDialOk
  <2>6. CASE ConnectDialFail(p)
    <3>1. PICK l \in {"idle", "sClosed"} : pc' = [pc EXCEPT ![p] = l]
              /\ (l = "idle" => p \notin TimerP)
      BY <2>6 DEF ConnectDialFail, AfterFailure
    <3>2. UNCHANGED <<gen, connected, closed, timer, attempts>>
      BY <2>6 DEF ConnectDialFail
    <3>3. QED
      BY <3>1, <3>2, <1>w DEF Labels
  <2>7. CASE ConnectSpawn(p)
    <3>1. pc'[Reader(gen)] = "rConn" /\ gen' = gen /\ gen \in Gens
      <4>1. p \in Procs /\ pc[p] = "cSpawn" /\ gen' = gen
        BY <2>7 DEF ConnectSpawn
      <4>2. gen \in Gens
        BY <4>1, <1>0, <1>s DEF Gens
      <4>3. Reader(gen) # Pinger(gen)
        BY <4>2, ZenonT(40)
      <4>4. QED
        BY <2>7, <4>1, <4>2, <4>3, <1>0 DEF ConnectSpawn
    <3>2. QED
      BY <3>1
  <2>8. CASE ConnectResub(p)
    <3>1. UNCHANGED gen /\ Resubscribing(p)
      BY <2>8 DEF ConnectResub, Resubscribing
    <3>2. PICK l \in {"idle", "wLock"} : pc' = [pc EXCEPT ![p] = l]
      BY <2>8 DEF ConnectResub
    <3>3. gen \in Gens /\ pc[Reader(gen)] = "rConn"
      BY <3>1, <1>b
    <3>4. pc'[Reader(gen)] # "idle"
      BY <3>2, <3>3, <1>0
    <3>5. QED
      BY <3>1, <3>3, <3>4
  <2>9. CASE ConnectTeardown(p)
    <3>1. UNCHANGED gen /\ Resubscribing(p)
      BY <2>9 DEF ConnectTeardown, Resubscribing
    <3>2. PICK l \in {"idle", "sClosed"} : pc' = [pc EXCEPT ![p] = l]
      BY <2>9 DEF ConnectTeardown, AfterFailure
    <3>3. gen \in Gens /\ pc[Reader(gen)] = "rConn"
      BY <3>1, <1>b
    <3>4. pc'[Reader(gen)] # "idle"
      BY <3>2, <3>3, <1>0
    <3>5. QED
      BY <3>1, <3>3, <3>4
  <2>10. QED
    BY <1>2, <2>1, <2>2, <2>3, <2>4, <2>5, <2>6, <2>7, <2>8, <2>9 DEF ConnectStep
<1>3. ASSUME NEW p \in CallerP \cup TimerP \cup PingerP, WriteStep(p)
      PROVE  ReconnectNotLost'
  <2>1. /\ UNCHANGED <<gen, connected, closed, timer, attempts>>
        /\ pc[p] # "idle"
    BY <1>3 DEF WriteStep, WriteLock, WriteCheck, WriteRLock, WriteSend
  <2>2. \/ \E l \in WriteLabels : pc' = [pc EXCEPT ![p] = l]
        \/ pc' = [pc EXCEPT ![p] = WriteFailed(op[p])]
        \/ pc' = [pc EXCEPT ![p] = WriteDone(op[p])]
    BY <1>3 DEF WriteStep, WriteLock, WriteCheck, WriteRLock, WriteSend, WriteReturn,
                WriteLabels
  <2>3. CASE \E l \in WriteLabels : pc' = [pc EXCEPT ![p] = l]
    BY <1>w, <2>1, <2>3 DEF WriteLabels, Labels
  <2>4. CASE pc' = [pc EXCEPT ![p] = WriteFailed(op[p])]
    BY <1>w, <1>t, <2>1, <2>4 DEF WriteFailed, Labels
  <2>5. CASE pc' = [pc EXCEPT ![p] = WriteDone(op[p])]
    BY <1>w, <1>t, <2>1, <2>5 DEF WriteDone, Labels
  <2>6. QED
    BY <2>2, <2>3, <2>4, <2>5
<1>4. ASSUME NEW p \in CallerP, SubscribeRollback(p) PROVE ReconnectNotLost'
  <2>1. PICK l \in {"idle"} : pc' = [pc EXCEPT ![p] = l] /\ (l = "idle" => p \notin TimerP)
    BY <1>4 DEF SubscribeRollback
  <2>2. UNCHANGED <<gen, connected, closed, timer, attempts>>
    BY <1>4 DEF SubscribeRollback
  <2>3. QED
    BY <2>1, <2>2, <1>w DEF Labels
<1>5. ASSUME NEW p \in CallerP, CloseStep(p) PROVE ReconnectNotLost'
  <2>1. CASE CloseOnce(p)
    <3>1. CASE once = "new"
      BY <2>1, <3>1 DEF CloseOnce
    <3>2. CASE once = "done"
      <4>1. pc' = [pc EXCEPT ![p] = "idle"]
                /\ UNCHANGED <<gen, connected, closed, timer, attempts>>
        BY <2>1, <3>2 DEF CloseOnce
      <4>2. QED
        BY <4>1, <1>w DEF Labels
    <3>3. QED
      BY <2>1, <3>1, <3>2 DEF CloseOnce
  <2>2. CASE CloseTimer(p)
    BY <2>2, <1>c DEF CloseTimer, CloseLabels
  <2>3. CASE CloseConn(p)
    <3>1. PICK l \in {"xWait"} : pc' = [pc EXCEPT ![p] = l]
      BY <2>3 DEF CloseConn
    <3>2. UNCHANGED <<gen, connected, closed, timer, attempts>>
      BY <2>3 DEF CloseConn
    <3>3. QED
      BY <3>1, <3>2, <1>w DEF Labels
  <2>4. CASE CloseWait(p)
    <3>1. PICK l \in {"idle"} : pc' = [pc EXCEPT ![p] = l]
              /\ (l = "idle" => p \notin TimerP)
      BY <2>4 DEF CloseWait
    <3>2. UNCHANGED <<gen, connected, closed, timer, attempts>>
      BY <2>4 DEF CloseWait
    <3>3. QED
      BY <3>1, <3>2, <1>w DEF Labels
  <2>5. QED
    BY <1>5, <2>1, <2>2, <2>3, <2>4 DEF CloseStep
<1>6. ASSUME NEW p \in TimerP \cup ReaderP, ScheduleStep(p) PROVE ReconnectNotLost'
  <2>1. CASE ScheduleClosedCheck(p)
    <3>1. PICK l \in {"idle", "sArm"} : pc' = [pc EXCEPT ![p] = l]
              /\ (l = "idle" => closed \/ connected)
      BY <2>1 DEF ScheduleClosedCheck
    <3>2. UNCHANGED <<gen, connected, closed, timer, attempts>>
      BY <2>1 DEF ScheduleClosedCheck
    <3>3. QED
      BY <3>1, <3>2, <1>w DEF Labels
  <2>2. CASE ScheduleArm(p)
    BY <2>2 DEF ScheduleArm
  <2>3. QED
    BY <1>6, <2>1, <2>2 DEF ScheduleStep
<1>7. ASSUME NEW g \in Gens, ReaderStep(g) PROVE ReconnectNotLost'
  <2>1. CASE ReadStart(g)
    <3>1. PICK l \in {"hClosed", "rRead"} : pc' = [pc EXCEPT ![Reader(g)] = l]
      BY <2>1 DEF ReadStart
    <3>2. UNCHANGED <<gen, connected, closed, timer, attempts>>
      BY <2>1 DEF ReadStart
    <3>3. QED
      BY <3>1, <3>2, <1>w DEF Labels
  <2>2. CASE ReadFail(g)
    <3>1. PICK l \in {"hClosed"} : pc' = [pc EXCEPT ![Reader(g)] = l]
      BY <2>2 DEF ReadFail
    <3>2. UNCHANGED <<gen, connected, closed, timer, attempts>>
      BY <2>2 DEF ReadFail
    <3>3. QED
      BY <3>1, <3>2, <1>w DEF Labels
  <2>3. CASE DisconnectClosedCheck(g)
    <3>1. PICK l \in {"idle", "hFlag"} : pc' = [pc EXCEPT ![Reader(g)] = l]
              /\ (l = "idle" => closed \/ connected)
      BY <2>3 DEF DisconnectClosedCheck
    <3>2. UNCHANGED <<gen, connected, closed, timer, attempts>>
      BY <2>3 DEF DisconnectClosedCheck
    <3>3. QED
      BY <3>1, <3>2, <1>w DEF Labels
  <2>4. CASE DisconnectFlag(g)
    BY <2>4, <1>0 DEF DisconnectFlag
  <2>5. CASE DisconnectLock(g)
    <3>1. PICK l \in {"sClosed"} : pc' = [pc EXCEPT ![Reader(g)] = l]
      BY <2>5 DEF DisconnectLock
    <3>2. UNCHANGED <<gen, connected, closed, timer, attempts>>
      BY <2>5 DEF DisconnectLock
    <3>3. QED
      BY <3>1, <3>2, <1>w DEF Labels
  <2>6. QED
    BY <1>7, <2>1, <2>2, <2>3, <2>4, <2>5, <1>6 DEF ReaderStep
<1>8. ASSUME NEW g \in Gens, PingerStep(g) PROVE ReconnectNotLost'
  <2>1. CASE PingTick(g)
    <3>1. PICK l \in {"wLock"} : pc' = [pc EXCEPT ![Pinger(g)] = l]
      BY <2>1 DEF PingTick
    <3>2. UNCHANGED <<gen, connected, closed, timer, attempts>>
      BY <2>1 DEF PingTick
    <3>3. QED
      BY <3>1, <3>2, <1>w DEF Labels
  <2>2. CASE PingExit(g)
    <3>1. PICK l \in {"idle"} : pc' = [pc EXCEPT ![Pinger(g)] = l]
      BY <2>2 DEF PingExit
    <3>2. UNCHANGED <<gen, connected, closed, timer, attempts>>
      BY <2>2 DEF PingExit
    <3>3. QED
      BY <3>1, <3>2, <1>w DEF Labels
  <2>3. QED
    BY <1>8, <2>1, <2>2, <1>3 DEF PingerStep
<1>9. ASSUME NEW p \in TimerP, TimerFire(p) PROVE ReconnectNotLost'
  BY <1>9, <1>0 DEF TimerFire
<1>10. ASSUME NEW p \in TimerP, TimerCheck(p) PROVE ReconnectNotLost'
  <2>1. PICK l \in {"idle", "cClosed"} : pc' = [pc EXCEPT ![p] = l]
            /\ (l = "idle" => closed \/ connected)
    BY <1>10 DEF TimerCheck
  <2>2. UNCHANGED <<gen, connected, closed, timer, attempts>>
    BY <1>10 DEF TimerCheck
  <2>3. QED
    BY <2>1, <2>2, <1>w DEF Labels
<1>11. ASSUME NEW g \in Gens, Drop(g) PROVE ReconnectNotLost'
  BY <1>11 DEF Drop
<1>12. CASE UNCHANGED vars
  BY <1>12 DEF vars, budget, subVars, lockVars
<1>13. QED
  BY <1>1, <1>2, <1>3, <1>4, <1>5, <1>6, <1>7, <1>8, <1>9, <1>10, <1>11, <1>12 DEF Next,
     CallerStep, TimerStep

-------------------------------------------------------------------------------
(***************************************************************************)
(* The invariant holds, and the properties that follow from it.            *)
(***************************************************************************)
LEMMA InitInv == Init => IInv
<1> SUFFICES ASSUME Init PROVE IInv
  OBVIOUS
<1> USE ProcFacts, GenFacts DEF Init
<1>1. TypeOK
  <2>1. /\ conn \in 0..MaxConns /\ gen \in 0..MaxConns
        /\ attempts \in 0..AttemptCap /\ held \in [Procs -> 0..MaxConns]
    BY BoundsAssumption
  <2>2. pc \in [Procs -> Labels] /\ op \in [Procs -> Ops]
    BY DEF Labels, Ops
  <2>3. calls \in [Callers -> Nat] /\ pings \in [Gens -> Nat]
    OBVIOUS
  <2>4. QED
    BY <2>1, <2>2, <2>3 DEF TypeOK
<1>2. \A p \in Procs : pc[p] = "idle"
  OBVIOUS
<1>3. LockInv
  BY <1>2 DEF LockInv, HoldsConnMu, WriteLabels
<1>4. KindInv
  BY <1>2 DEF KindInv, WriteLabels, ConnectLabels
<1>5. PumpInv
  BY <1>2 DEF PumpInv, Running, PumpsDone
<1>6. SocketInv
  BY <1>2 DEF SocketInv
<1>7. WatchInv
  BY <1>2 DEF WatchInv, CloseLabels
<1>8. ResubInv
  BY <1>2 DEF ResubInv, Resubscribing, WriteLabels
<1>9. ReconnectNotLost
  BY DEF ReconnectNotLost
<1>10. QED
  BY <1>1, <1>3, <1>4, <1>5, <1>6, <1>7, <1>8, <1>9 DEF IInv

\* The inductive invariant holds of every execution of the stream client.
THEOREM Invariance == Spec => []IInv
<1>1. IInv /\ [Next]_vars => IInv'
  BY TypeStep, KindStep, LockStep, PumpStep, SocketStep, WatchStep, ResubStep,
     RetryStep DEF IInv
<1>2. QED
  BY InitInv, <1>1, PTL DEF Spec

\* Every variable of the client keeps its type, whatever goroutines call.
THEOREM TypeCorrect == Spec => []TypeOK
<1>1. IInv => TypeOK
  BY DEF IInv
<1>2. QED
  BY Invariance, <1>1, PTL

\* writeJSON lets one goroutine at a time into conn.WriteMessage, whatever
\* reconnects, pings and calls interleave.
THEOREM SingleWriter == Spec => []OneWriter
<1>1. IInv => OneWriter
  BY DEF IInv, LockInv, OneWriter, At, WriteLabels
<1>2. QED
  BY Invariance, <1>1, PTL

\* The pumps of an earlier connection have returned before those of the next one
\* start, and a read pump holds only its own connection.
THEOREM OneGeneration == Spec => []OnePumpGeneration
<1>1. IInv => OnePumpGeneration
  <2> SUFFICES ASSUME IInv, NEW g \in Gens, Running(g)
               PROVE  g = gen /\ conn \in {0, g} /\ held[Reader(g)] \in {0, g}
    BY DEF OnePumpGeneration
  <2>1. g = gen
    BY DEF IInv, PumpInv
  <2>2. QED
    BY <2>1 DEF IInv, SocketInv
<1>2. QED
  BY Invariance, <1>1, PTL

\* Only the connection in c.conn is ever open: no path of Connect, Close or
\* handleDisconnect leaves a socket behind.
THEOREM SocketsClosed == Spec => []NoSocketLeak
<1>1. IInv => NoSocketLeak
  BY DEF IInv, SocketInv, NoSocketLeak
<1>2. QED
  BY Invariance, <1>1, PTL

\* A client that claims to be connected has a read pump that will notice the loss
\* of the connection.
THEOREM FlagIsWatched == Spec => []ConnectedIsWatched
<1>1. IInv => ConnectedIsWatched
  <2> SUFFICES ASSUME IInv, connected, ~closed, connMu = Free
               PROVE  /\ conn # 0 /\ conn = gen
                      /\ pc[Reader(gen)] \in {"rConn", "rRead", "hClosed", "hFlag"}
    BY DEF ConnectedIsWatched
  <2>1. \A p \in Procs : pc[p] # "cSpawn"
    BY ProcFacts DEF IInv, LockInv, HoldsConnMu
  <2>2. QED
    BY <2>1 DEF IInv, SocketInv, WatchInv
<1>2. QED
  BY Invariance, <1>1, PTL

\* A lost connection is never forgotten: a timer, a callback or a pump will try
\* again, unless the client is closed or has given up.
THEOREM SomebodyRetries == Spec => []ReconnectNotLost
<1>1. IInv => ReconnectNotLost
  BY DEF IInv
<1>2. QED
  BY Invariance, <1>1, PTL
===============================================================================
