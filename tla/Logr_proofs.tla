----------------------------- MODULE Logr_proofs -----------------------------
(***************************************************************************)
(* Proofs about the engine of module Logr and the hosts it feeds, for any  *)
(* number of goroutines, hosts, records and calls, any capacities and any  *)
(* faults.                                                                 *)
(***************************************************************************)
EXTENDS Logr, TargetHost_proofs

(***************************************************************************)
(* The invariant of the engine, in parts.                                  *)
(***************************************************************************)

\* What is on its way to the hosts can be passed to TargetHost.Log.
RecordsKnown ==
    /\ \A i \in DOMAIN in : in[i].flush = 0 => in[i].seq \in Stamps /\ in[i].level \in Levels
    /\ lpc \in {"rlock", "fanout"} => lrec.seq \in Stamps /\ lrec.level \in Levels
    /\ \A t \in Threads : tpc[t] \in {"enqueue", "blocked"} /\ trec[t].flush = 0
                            => trec[t].level \in Levels

\* Which call is where, and what it has in hand.
Adding(t)  == tpc[t] \in {"lock", "lockWait"} /\ top[t] = "add"
Closing(t) == tpc[t] \in {"closing", "closeWait"}
CallKnown(t) ==
    /\ tpc[t] \in {"hasTargets", "await"} => top[t] \in {"flush", "shutdown"}
    /\ tpc[t] \in {"enqueue", "blocked"} => top[t] \in {"log", "flush", "shutdown"}
    /\ tpc[t] \in {"swap", "wait", "rlock"} => top[t] = "shutdown"
    /\ tpc[t] \in {"lock", "lockWait"} => top[t] \in {"add", "remove"}
    /\ Closing(t) => top[t] \in {"shutdown", "remove"}
    /\ tpc[t] = "closeWait" => thosts[t] # <<>>
    /\ Adding(t) => \E h \in Hosts : tset[t] = {h}

CallsKnown == \A t \in Threads : CallKnown(t)

\* Who holds tmux or waits for it.
LockOK ==
    /\ \A t \in Threads :
        /\ tmux.writer = t <=> Closing(t) /\ top[t] = "remove"
        /\ tmux.waiting = t <=> tpc[t] = "lockWait"
        /\ t \in tmux.readers <=> Closing(t) /\ top[t] = "shutdown"
    /\ readLoop \in tmux.readers <=> lpc \in {"fanout", "flush", "signal"}
    /\ tmux.writer # nil => tmux.readers = {} /\ tmux.waiting = nil

\* The read loop feeds a host only from fanout and flush; it is gone when `done'
\* is closed, and Shutdown gets to the hosts only then or when it has given up.
LoopKnown ==
    /\ fpc[readLoop] # "idle" => lpc \in {"fanout", "flush"}
    /\ done <=> lpc = "exited"
    /\ lidx >= 1
    /\ \A t \in Threads : tpc[t] = "rlock" \/ (Closing(t) /\ top[t] = "shutdown") => done \/ giveUp

\* The hosts of the list have been created, a host that is to be added is not
\* in it, and nobody but its AddTarget knows it.
ListedCreated == \A h \in Hosts : Listed(h) \/ hshutdown[h] => Created(h)
AddedFresh    == \A t \in Threads : Adding(t) => \A h \in tset[t] : Created(h) /\ ~Listed(h) /\ ~hshutdown[h]
AddedApart    == \A t, u \in Threads : t # u /\ Adding(t) /\ Adding(u) => tset[t] \cap tset[u] = {}
HostsKnown    == ListedCreated /\ AddedFresh /\ AddedApart

\* Who closes hosts goes through hosts of the list; RemoveTargets keeps those
\* that it was not told to remove.
WalkKnown ==
    \A t \in Threads :
        /\ Closing(t) => \A i \in DOMAIN thosts[t] : Listed(thosts[t][i])
        /\ Closing(t) /\ top[t] = "remove"
             => \A i \in DOMAIN tkeep[t] : Listed(tkeep[t][i]) /\ tkeep[t][i] \notin tset[t]
        /\ ~Closing(t) => tkeep[t] = <<>>

\* A host of the list that is shut down is being removed, or Shutdown did it.
DeadListed ==
    \A h \in Hosts : Listed(h) /\ hshutdown[h]
        => done \/ giveUp \/ \E t \in Threads : tmux.writer = t /\ h \in tset[t]

EngineInv ==
    /\ EngineOK /\ LoopOK /\ ThreadOK /\ PastOK
    /\ RecordsKnown /\ CallsKnown /\ LockOK /\ LoopKnown /\ HostsKnown /\ WalkKnown /\ DeadListed
    /\ FedHostAlive

-----------------------------------------------------------------------------
(***************************************************************************)
(* The engine uses the hosts as module TargetHost says they may be used.   *)
(***************************************************************************)

\* What fanout and flush pass to host.Log.
LEMMA LoopRecords ==
    ASSUME LoopOK, RecordsKnown
    PROVE  /\ lpc = "fanout" => [seq |-> lrec.seq, level |-> lrec.level, flush |-> nil] \in RecordsOf(readLoop)
           /\ FlushLogRec(readLoop) \in RecordsOf(readLoop)
BY DEF RecordsKnown, RecordsOf

LEMMA HeadIsHost ==
    ASSUME NEW s \in Seq(Hosts), s # <<>>
    PROVE  Head(s) \in Hosts /\ Tail(s) \in Seq(Hosts)
OBVIOUS

\* Every step of the engine is a step of the hosts or leaves them alone.
LEMMA HostsRefined == EngineInv /\ [LogrNext]_vars => [HostNext]_hostVars
<1> SUFFICES ASSUME EngineInv, [LogrNext]_vars PROVE [HostNext]_hostVars
    OBVIOUS
<1> USE LogrAssumption DEF EngineInv
<1>1. ASSUME NEW t \in Threads, CloseHost(t) PROVE [HostNext]_hostVars
    <2>1. thosts[t] \in Seq(Hosts) /\ thosts[t] # <<>>
        BY <1>1 DEF CloseHost, ThreadOK
    <2>2. Head(thosts[t]) \in Hosts
        BY <2>1, HeadIsHost
    <2>3. ShutdownBegin(Head(thosts[t])) \/ UNCHANGED hostVars
        BY <1>1 DEF CloseHost
    <2> QED BY <2>2, <2>3 DEF HostNext, HostStep
<1>2. ASSUME NEW t \in Threads, CloseHostEnd(t) PROVE [HostNext]_hostVars
    <2>1. thosts[t] \in Seq(Hosts) /\ thosts[t] # <<>>
        BY <1>2 DEF CloseHostEnd, ThreadOK, CallsKnown, CallKnown
    <2>2. Head(thosts[t]) \in Hosts
        BY <2>1, HeadIsHost
    <2> QED BY <1>2, <2>2 DEF CloseHostEnd, HostNext, HostStep
<1>3. ASSUME NEW t \in Threads, NEW h \in Hosts, AddTarget(t, h) PROVE [HostNext]_hostVars
    BY <1>3 DEF AddTarget, HostNext, HostStep
<1>4. ASSUME lpc \in {"fanout", "flush"}, lidx <= Len(targetHosts) PROVE targetHosts[lidx] \in Hosts
    BY <1>4 DEF EngineOK, LoopOK, LoopKnown
<1>5. ASSUME FanoutHost PROVE [HostNext]_hostVars
    <2>1. targetHosts[lidx] \in Hosts
        BY <1>4, <1>5 DEF FanoutHost
    <2>2. [seq |-> lrec.seq, level |-> lrec.level, flush |-> nil] \in RecordsOf(readLoop)
        BY <1>5, LoopRecords DEF FanoutHost
    <2> QED BY <1>5, <2>1, <2>2 DEF FanoutHost, HostNext, LogCall
<1>6. ASSUME FlushHost PROVE [HostNext]_hostVars
    <2>1. targetHosts[lidx] \in Hosts
        BY <1>4, <1>6 DEF FlushHost
    <2> QED BY <1>6, <2>1, LoopRecords DEF FlushHost, HostNext, LogCall
<1>7. ASSUME LoopLogStep \/ LoopPanic PROVE [HostNext]_hostVars
    <2>1. LogStep(readLoop) \/ UNCHANGED hostVars
        BY <1>7 DEF LoopLogStep, LoopPanic, LogStep
    <2> QED BY <2>1 DEF HostNext, HostStep
<1>8. ASSUME NEW h \in Hosts, HostGoroutine(h) PROVE [HostNext]_hostVars
    BY <1>8 DEF HostGoroutine, HostNext, HostStep
<1>9. ASSUME NEW t \in Threads, ThreadStep(t), ~CloseHost(t), ~CloseHostEnd(t) PROVE UNCHANGED hostVars
    BY <1>9 DEF ThreadStep, EnqueueSend, EnqueueDrop, EnqueueBlock, EnqueueTimeout, FlushCheck,
        FlushTimeout, ShutdownSwap, ShutdownWait, ShutdownRLock, ShutdownReturn, LockAnnounce,
        AddTargetAppend, RemoveLocked, RemoveReturn
<1>10. ASSUME LoopStep, ~FanoutHost, ~FlushHost, ~LoopLogStep, ~LoopPanic PROVE UNCHANGED hostVars
    BY <1>10 DEF LoopStep, StartRecvRec, StartRecvQuit, FanoutRLock, FanoutReturn, DrainRec, DrainEnd,
        FlushRLock, FlushHostsEnd, SignalFlush
<1>11. ASSUME LogrCall PROVE [HostNext]_hostVars
    BY <1>3, <1>11 DEF LogrCall, LoggerLog, Flush, Shutdown, FlushBegin, RemoveTargets
<1>12. CASE UNCHANGED vars
    BY <1>12 DEF vars
<1> HIDE DEF EngineInv
<1> QED BY <1>1, <1>2, <1>5, <1>6, <1>7, <1>8, <1>9, <1>10, <1>11, <1>12 DEF LogrNext, LogrStep

-----------------------------------------------------------------------------
(***************************************************************************)
(* The sequences and records of the engine.                                *)
(***************************************************************************)
LEMMA EmptyRecord ==
    /\ NoQRec \in QueueRec /\ NoQRec.seq = 0 /\ NoQRec.level = nil /\ NoQRec.flush = 0
    /\ \A l \in Levels : /\ [NoQRec EXCEPT !.level = l] \in QueueRec
                         /\ [NoQRec EXCEPT !.level = l].level = l
    /\ \A n \in Nat : [NoQRec EXCEPT !.flush = n] \in QueueRec /\ [NoQRec EXCEPT !.flush = n].flush = n
BY DEF NoQRec, QueueRec

LEMMA BoundIsNumber == InBound \in Nat
BY LogrAssumption DEF InBound

\* A channel that has room has room for a record more.
LEMMA RoomInQueue ==
    ASSUME EngineOK, NEW t \in Threads, CanEnqueue(t)
    PROVE  Len(in) < InBound /\ InBound \in Nat
<1>1. in \in Seq(QueueRec) /\ Len(in) \in Nat /\ (in = <<>> => Len(in) = 0)
    BY DEF EngineOK
<1>2. MaxQueueSize \in Nat
    BY LogrAssumption
<1>3. Len(in) < MaxQueueSize \/ (MaxQueueSize = 0 /\ in = <<>>)
    BY DEF CanEnqueue
<1> QED BY <1>1, <1>2, <1>3 DEF InBound

LEMMA TakeRecord ==
    ASSUME NEW s \in Seq(QueueRec), s # <<>>
    PROVE  /\ Head(s) \in QueueRec /\ Tail(s) \in Seq(QueueRec) /\ Len(Tail(s)) <= Len(s)
           /\ 1 \in DOMAIN s /\ Head(s) = s[1]
           /\ \A i \in DOMAIN Tail(s) : i + 1 \in DOMAIN s /\ Tail(s)[i] = s[i + 1]
OBVIOUS

LEMMA PutRecord ==
    ASSUME NEW s \in Seq(QueueRec), NEW r \in QueueRec, NEW q, q = Append(s, r)
    PROVE  /\ q \in Seq(QueueRec) /\ Len(q) = Len(s) + 1
           /\ \A i \in DOMAIN q : (i \in DOMAIN s /\ q[i] = s[i]) \/ (i = Len(s) + 1 /\ q[i] = r)
OBVIOUS

LEMMA TakeHost ==
    ASSUME NEW s \in Seq(Hosts), s # <<>>
    PROVE  /\ Head(s) \in Hosts /\ Tail(s) \in Seq(Hosts) /\ 1 \in DOMAIN s /\ Head(s) = s[1]
           /\ \A i \in DOMAIN Tail(s) : i + 1 \in DOMAIN s /\ Tail(s)[i] = s[i + 1]
OBVIOUS

LEMMA PutHost ==
    ASSUME NEW s \in Seq(Hosts), NEW h \in Hosts
    PROVE  /\ Append(s, h) \in Seq(Hosts)
           /\ \A i \in DOMAIN Append(s, h) :
                 \/ i \in DOMAIN s /\ Append(s, h)[i] = s[i]
                 \/ i = Len(s) + 1 /\ Append(s, h)[i] = h
           /\ \A i \in DOMAIN s : i \in DOMAIN Append(s, h) /\ Append(s, h)[i] = s[i]
           /\ Len(s) + 1 \in DOMAIN Append(s, h) /\ Append(s, h)[Len(s) + 1] = h
OBVIOUS

\* A step that does what the engine expects of the hosts it does not touch.
HostFrame ==
    /\ \A g \in Hosts : Created(g) => Created(g)'
    /\ hshutdown' = hshutdown
    /\ fpc'[readLoop] # "idle" => fpc[readLoop] # "idle" /\ fhost'[readLoop] = fhost[readLoop]

LEMMA HostsAlone == UNCHANGED hostVars => HostFrame
BY DEF HostFrame, Created, hostVars, chanVars, startVars, feedVars

\* A call of the API that is not at the lock of the list of hosts, nor waits for
\* the read loop to end.
Away == {"idle", "hasTargets", "enqueue", "blocked", "await", "swap", "wait"}

Others(t) ==
    \A u \in Threads \ {t} :
        /\ tpc'[u] = tpc[u] /\ top'[u] = top[u] /\ trec'[u] = trec[u]
        /\ tset'[u] = tset[u] /\ thosts'[u] = thosts[u] /\ tkeep'[u] = tkeep[u]

Keeps(t) == Others(t) /\ tkeep'[t] \in {tkeep[t], <<>>}

LoopAt ==
    /\ readLoop \in tmux.readers <=> lpc \in {"fanout", "flush", "signal"}
    /\ fpc[readLoop] # "idle" => lpc \in {"fanout", "flush"}
    /\ done <=> lpc = "exited"
    /\ lidx >= 1

LEMMA ReturnsEffect ==
    ASSUME ThreadOK, NEW t \in Threads, Returns(t)
    PROVE  /\ ThreadOK' /\ Keeps(t)
           /\ tpc'[t] = "idle" /\ top'[t] = "none" /\ trec'[t] = NoQRec
<1>1. ThreadOK'
    BY EmptyRecord DEF Returns, ThreadOK, ThreadPcs, Ops
<1> QED BY <1>1 DEF Returns, ThreadOK, Others, Keeps

LEMMA EnqueueEffect ==
    ASSUME ThreadOK, NEW t \in Threads, EnqueueReturns(t), UNCHANGED <<tset, thosts, tkeep>>
    PROVE  /\ ThreadOK' /\ Keeps(t)
           /\ \/ tpc'[t] = "idle"
              \/ tpc'[t] = "await" /\ top[t] # "log" /\ top'[t] = top[t]
<1>1. CASE top[t] = "log"
    <2>1. ThreadOK'
        BY <1>1, EmptyRecord DEF EnqueueReturns, ThreadOK, ThreadPcs, Ops
    <2>2. tpc'[t] = "idle" /\ tkeep'[t] = tkeep[t]
        BY <1>1 DEF EnqueueReturns, ThreadOK
    <2>3. Others(t)
        BY <1>1 DEF EnqueueReturns, ThreadOK, Others
    <2> QED BY <2>1, <2>2, <2>3 DEF Keeps
<1>2. CASE top[t] # "log"
    BY <1>2 DEF EnqueueReturns, ThreadOK, ThreadPcs, Others, Keeps
<1> QED BY <1>1, <1>2

LEMMA FlushEffect ==
    ASSUME ThreadOK, NEW t \in Threads, FlushReturns(t)
    PROVE  /\ ThreadOK' /\ Keeps(t)
           /\ tpc'[t] = "idle" \/ (tpc'[t] = "swap" /\ top[t] # "flush" /\ top'[t] = top[t])
<1>1. CASE top[t] = "flush"
    BY <1>1, ReturnsEffect DEF FlushReturns
<1>2. CASE top[t] # "flush"
    BY <1>2, EmptyRecord DEF FlushReturns, ThreadOK, ThreadPcs, Others, Keeps
<1> QED BY <1>1, <1>2

\* The parts of the invariant that a call elsewhere does not disturb.
LEMMA Elsewhere ==
    ASSUME EngineInv, HostFrame, LoopAt', NEW t \in Threads, Keeps(t),
           targetHosts' = targetHosts, done' = done, giveUp' = giveUp,
           tmux'.writer = tmux.writer, tmux'.waiting = tmux.waiting,
           tmux'.readers \in {tmux.readers, tmux.readers \ {readLoop}},
           tpc[t] \in Away, tpc'[t] \in Away, CallKnown(t)'
    PROVE  CallsKnown' /\ LockOK' /\ LoopKnown' /\ HostsKnown' /\ WalkKnown' /\ DeadListed' /\ FedHostAlive'
<1> USE LogrAssumption DEF EngineInv, Away, Keeps
<1>1. \A u \in Threads : /\ (Closing(u)' <=> Closing(u)) /\ (Adding(u)' <=> Adding(u))
                         /\ (Closing(u) \/ Adding(u) => u # t)
    BY DEF Closing, Adding, Others
<1>2. CallsKnown'
    BY <1>1 DEF CallsKnown, CallKnown, Others, Closing, Adding
<1>3. LockOK'
    BY <1>1 DEF LockOK, LoopAt, Others
<1>4. LoopKnown'
    BY <1>1 DEF LoopKnown, LoopAt, Others
<1>5. HostsKnown'
    BY <1>1 DEF HostsKnown, ListedCreated, AddedFresh, AddedApart, HostFrame, Others, Listed, ThreadOK
<1>6. WalkKnown'
    BY <1>1 DEF WalkKnown, Others, Listed
<1>7. DeadListed'
    <2> SUFFICES ASSUME NEW h \in Hosts, Listed(h)', hshutdown'[h], ~done', ~giveUp'
                 PROVE  \E u \in Threads : tmux'.writer = u /\ h \in tset'[u]
        BY DEF DeadListed
    <2>1. PICK u \in Threads : tmux.writer = u /\ h \in tset[u]
        BY DEF DeadListed, HostFrame, Listed
    <2> QED BY <1>1, <2>1 DEF LockOK, Others
<1>8. FedHostAlive'
    BY DEF FedHostAlive, HostFrame, Listed
<1> QED BY <1>2, <1>3, <1>4, <1>5, <1>6, <1>7, <1>8

\* DeadListed looks at the hosts of the list and at who removes them.
LEMMA DeadFrame ==
    ASSUME DeadListed, targetHosts' = targetHosts, hshutdown' = hshutdown, done' = done, giveUp' = giveUp,
           tmux' = tmux, \A u \in Threads : tmux.writer = u => tset'[u] = tset[u]
    PROVE  DeadListed'
BY DEF DeadListed, Listed

LEMMA CallEnds ==
    ASSUME CallsKnown, NEW t \in Threads, Others(t), tpc'[t] = "idle"
    PROVE  CallsKnown'
<1>1. \A u \in Threads \ {t} : CallKnown(u)'
    BY DEF CallsKnown, CallKnown, Closing, Adding, Others
<1>2. CallKnown(t)'
    BY DEF CallKnown, Closing, Adding
<1> QED BY <1>1, <1>2 DEF CallsKnown

LEMMA LoopStands ==
    ASSUME LoopKnown, LockOK, HostFrame, UNCHANGED <<tmux, lpc, lidx, done>>
    PROVE  LoopAt'
BY DEF LoopKnown, LockOK, HostFrame, LoopAt

LEMMA EngineInvStep == TypeInv /\ EngineInv /\ [LogrNext]_vars => EngineInv'
<1> SUFFICES ASSUME TypeInv, EngineInv, [LogrNext]_vars PROVE EngineInv'
    OBVIOUS
<1> USE HostAssumption, LogrAssumption DEF EngineInv, engineVars, loopVars, threadVars, pastVars
<1>1. ASSUME NEW t \in Threads, NEW l \in Levels, LoggerLog(t, l) PROVE EngineInv'
    <2> USE DEF LoggerLog
    <2>1. HostFrame /\ UNCHANGED <<tmux, lpc, lidx, done, giveUp, targetHosts>>
        BY <1>1, HostsAlone
    <2>2. ThreadOK' /\ Keeps(t)
        BY <1>1, EmptyRecord DEF ThreadOK, ThreadPcs, Ops, Others, Keeps
    <2>3. tpc[t] \in Away /\ tpc'[t] \in Away /\ CallKnown(t)'
        BY <1>1, <2>2 DEF CallKnown, Closing, Adding, Away, ThreadOK
    <2>4. CallsKnown' /\ LockOK' /\ LoopKnown' /\ HostsKnown' /\ WalkKnown' /\ DeadListed' /\ FedHostAlive'
        BY <2>1, <2>2, <2>3, Elsewhere, LoopStands
    <2>5. EngineOK'
        BY <1>1 DEF EngineOK
    <2>6. LoopOK' /\ PastOK'
        BY <1>1 DEF LoopOK, PastOK
    <2>7. RecordsKnown'
        BY <1>1, EmptyRecord DEF RecordsKnown, ThreadOK
    <2> QED BY <2>2, <2>4, <2>5, <2>6, <2>7 DEF EngineInv
<1>2. ASSUME NEW t \in Threads, EnqueueSend(t) PROVE EngineInv'
    <2> USE DEF EnqueueSend
    <2>1. HostFrame /\ UNCHANGED <<tmux, lpc, lrec, lidx, done, giveUp, targetHosts>>
        BY <1>2, HostsAlone
    <2>2. /\ ThreadOK' /\ Keeps(t)
          /\ tpc'[t] = "idle" \/ (tpc'[t] = "await" /\ top[t] # "log" /\ top'[t] = top[t])
        BY <1>2, EnqueueEffect
    <2>3. tpc[t] \in Away /\ tpc'[t] \in Away /\ CallKnown(t)'
        BY <1>2, <2>2 DEF CallsKnown, CallKnown, Closing, Adding, Away
    <2>4. CallsKnown' /\ LockOK' /\ LoopKnown' /\ HostsKnown' /\ WalkKnown' /\ DeadListed' /\ FedHostAlive'
        BY <2>1, <2>2, <2>3, Elsewhere, LoopStands
    <2>5. PICK r \in QueueRec : /\ in' = Append(in, r) /\ r.flush = trec[t].flush /\ r.level = trec[t].level
                                /\ r.flush = 0 => r.seq \in Stamps
        <3> DEFINE n == IF trec[t].flush = 0 THEN Len(accepted) + 1 ELSE Len(accepted)
                   r == [trec[t] EXCEPT !.seq = n]
        <3>1. n \in Nat /\ n \in Stamps
            BY <1>2 DEF PastOK
        <3>2. trec[t] \in QueueRec
            BY DEF ThreadOK
        <3>3. r \in QueueRec /\ r.flush = trec[t].flush /\ r.level = trec[t].level /\ r.seq = n
            BY <3>1, <3>2 DEF QueueRec
        <3>4. in' = Append(in, r)
            BY <1>2
        <3> HIDE DEF n, r
        <3> QED BY <3>1, <3>3, <3>4
    <2>6. /\ in' \in Seq(QueueRec) /\ Len(in') = Len(in) + 1
          /\ \A i \in DOMAIN in' : (i \in DOMAIN in /\ in'[i] = in[i]) \/ in'[i] = r
        <3>1. in \in Seq(QueueRec)
            BY DEF EngineOK
        <3> QED BY <2>5, <3>1, PutRecord
    <2>7. EngineOK'
        <3>1. Len(in) < InBound /\ InBound \in Nat /\ Len(in) \in Nat
            BY <1>2, RoomInQueue DEF EngineOK
        <3> QED BY <1>2, <2>6, <3>1 DEF EngineOK
    <2>8. LoopOK'
        BY <1>2 DEF LoopOK
    <2>9. PastOK'
        <3>1. trec[t].flush = 0 => trec[t].level \in Levels
            BY <1>2 DEF RecordsKnown
        <3> QED BY <1>2, <3>1 DEF PastOK
    <2>10. RecordsKnown'
        <3>0. tpc[t] \in {"enqueue", "blocked"}
            BY <1>2
        <3>1. r.flush = 0 => r.seq \in Stamps /\ r.level \in Levels
            BY <2>5, <3>0 DEF RecordsKnown
        <3>2. \A u \in Threads : tpc'[u] \in {"enqueue", "blocked"} => u # t
            BY <2>2
        <3>3. \A i \in DOMAIN in' : in'[i].flush = 0 => in'[i].seq \in Stamps /\ in'[i].level \in Levels
            BY <2>6, <3>1 DEF RecordsKnown
        <3> QED BY <2>1, <2>2, <3>2, <3>3 DEF RecordsKnown, Others, Keeps
    <2> QED BY <2>2, <2>4, <2>7, <2>8, <2>9, <2>10 DEF EngineInv
<1>3. ASSUME NEW t \in Threads, EnqueueDrop(t) PROVE EngineInv'
    <2> USE DEF EnqueueDrop
    <2>1. HostFrame /\ UNCHANGED <<tmux, lpc, lidx, done, giveUp, targetHosts>>
        BY <1>3, HostsAlone
    <2>2. /\ ThreadOK' /\ Keeps(t)
          /\ tpc'[t] = "idle" \/ (tpc'[t] = "await" /\ top[t] # "log" /\ top'[t] = top[t])
        BY <1>3, EnqueueEffect
    <2>3. tpc[t] \in Away /\ tpc'[t] \in Away /\ CallKnown(t)'
        BY <1>3, <2>2 DEF CallsKnown, CallKnown, Closing, Adding, Away
    <2>4. CallsKnown' /\ LockOK' /\ LoopKnown' /\ HostsKnown' /\ WalkKnown' /\ DeadListed' /\ FedHostAlive'
        BY <2>1, <2>2, <2>3, Elsewhere, LoopStands
    <2>5. EngineOK'
        BY <1>3 DEF EngineOK
    <2>6. LoopOK' /\ PastOK'
        BY <1>3 DEF LoopOK, PastOK
    <2>7. RecordsKnown'
        BY <1>3, <2>2 DEF RecordsKnown, Others, Keeps
    <2> QED BY <2>2, <2>4, <2>5, <2>6, <2>7 DEF EngineInv
<1>4. ASSUME NEW t \in Threads, EnqueueBlock(t) PROVE EngineInv'
    <2> USE DEF EnqueueBlock
    <2>1. HostFrame /\ UNCHANGED <<tmux, lpc, lidx, done, giveUp, targetHosts>>
        BY <1>4, HostsAlone
    <2>2. ThreadOK' /\ Keeps(t)
        BY <1>4 DEF ThreadOK, ThreadPcs, Others, Keeps
    <2>3. tpc[t] \in Away /\ tpc'[t] \in Away /\ CallKnown(t)'
        BY <1>4, <2>2 DEF CallKnown, Closing, Adding, Away, ThreadOK, CallsKnown, CallKnown
    <2>4. CallsKnown' /\ LockOK' /\ LoopKnown' /\ HostsKnown' /\ WalkKnown' /\ DeadListed' /\ FedHostAlive'
        BY <2>1, <2>2, <2>3, Elsewhere, LoopStands
    <2>5. EngineOK'
        BY <1>4 DEF EngineOK
    <2>6. LoopOK' /\ PastOK'
        BY <1>4 DEF LoopOK, PastOK
    <2>7. RecordsKnown'
        BY <1>4 DEF RecordsKnown, ThreadOK
    <2> QED BY <2>2, <2>4, <2>5, <2>6, <2>7 DEF EngineInv
<1>5. ASSUME NEW t \in Threads, EnqueueTimeout(t) PROVE EngineInv'
    <2> USE DEF EnqueueTimeout
    <2>1. HostFrame /\ UNCHANGED <<tmux, lpc, lidx, done, giveUp, targetHosts>>
        BY <1>5, HostsAlone
    <2>2. /\ ThreadOK' /\ Keeps(t)
          /\ tpc'[t] = "idle" \/ (tpc'[t] = "await" /\ top[t] # "log" /\ top'[t] = top[t])
        BY <1>5, EnqueueEffect
    <2>3. tpc[t] \in Away /\ tpc'[t] \in Away /\ CallKnown(t)'
        BY <1>5, <2>2 DEF CallsKnown, CallKnown, Closing, Adding, Away
    <2>4. CallsKnown' /\ LockOK' /\ LoopKnown' /\ HostsKnown' /\ WalkKnown' /\ DeadListed' /\ FedHostAlive'
        BY <2>1, <2>2, <2>3, Elsewhere, LoopStands
    <2>5. EngineOK'
        BY <1>5 DEF EngineOK
    <2>6. LoopOK' /\ PastOK'
        BY <1>5 DEF LoopOK, PastOK
    <2>7. RecordsKnown'
        BY <1>5, <2>2 DEF RecordsKnown, Others, Keeps
    <2> QED BY <2>2, <2>4, <2>5, <2>6, <2>7 DEF EngineInv
<1>6. ASSUME NEW t \in Threads, NEW op \in {"flush", "shutdown"}, FlushBegin(t, op) PROVE EngineInv'
    <2> USE DEF FlushBegin
    <2>1. HostFrame /\ UNCHANGED <<tmux, lpc, lidx, done, giveUp, targetHosts>>
        BY <1>6, HostsAlone
    <2>2. ThreadOK' /\ Keeps(t)
        BY <1>6 DEF ThreadOK, ThreadPcs, Ops, Others, Keeps
    <2>3. tpc[t] \in Away /\ tpc'[t] \in Away /\ CallKnown(t)'
        BY <1>6, <2>2 DEF CallKnown, Closing, Adding, Away, ThreadOK
    <2>4. CallsKnown' /\ LockOK' /\ LoopKnown' /\ HostsKnown' /\ WalkKnown' /\ DeadListed' /\ FedHostAlive'
        BY <2>1, <2>2, <2>3, Elsewhere, LoopStands
    <2>5. EngineOK'
        BY <1>6 DEF EngineOK
    <2>6. LoopOK' /\ PastOK'
        BY <1>6 DEF LoopOK, PastOK
    <2>7. RecordsKnown'
        BY <1>6 DEF RecordsKnown, ThreadOK
    <2> QED BY <2>2, <2>4, <2>5, <2>6, <2>7 DEF EngineInv
<1>7. ASSUME NEW t \in Threads, FlushCheck(t) PROVE EngineInv'
    <2> USE DEF FlushCheck, CanRLock
    <2>1. HostFrame /\ UNCHANGED <<tmux, lpc, lrec, lidx, in, done, giveUp, targetHosts>>
        BY <1>7, HostsAlone
    <2>2. /\ ThreadOK' /\ Keeps(t) /\ flushCalls' \in Nat
          /\ \/ tpc'[t] = "idle"
             \/ tpc'[t] = "swap" /\ top'[t] = top[t] /\ top[t] = "shutdown"
             \/ tpc'[t] = "enqueue" /\ top'[t] = top[t] /\ trec'[t].flush # 0
        <3>0. top[t] \in {"flush", "shutdown"}
            BY <1>7 DEF CallsKnown, CallKnown
        <3>1. CASE targetHosts = <<>> /\ top[t] = "shutdown"
            <4>1. tpc' = [tpc EXCEPT ![t] = "swap"] /\ UNCHANGED <<top, trec, tset, thosts, tkeep, flushCalls>>
                BY <1>7, <3>1
            <4> QED BY <3>1, <4>1 DEF ThreadOK, ThreadPcs, Others, Keeps, PastOK
        <3>2. CASE (targetHosts = <<>> /\ top[t] = "flush") \/ (targetHosts # <<>> /\ shutdown)
            <4>1. Returns(t) /\ UNCHANGED flushCalls
                BY <1>7, <3>2
            <4> QED BY <4>1, ReturnsEffect DEF PastOK
        <3>3. CASE targetHosts # <<>> /\ ~shutdown
            <4>0. /\ flushCalls' = flushCalls + 1
                  /\ trec' = [trec EXCEPT ![t] = [NoQRec EXCEPT !.flush = flushCalls']]
                  /\ tpc' = [tpc EXCEPT ![t] = "enqueue"]
                  /\ UNCHANGED <<top, tset, thosts, tkeep>>
                BY <1>7, <3>3
            <4>1. flushCalls' \in Nat /\ flushCalls' # 0
                BY <4>0 DEF PastOK
            <4>2. PICK r \in QueueRec : trec' = [trec EXCEPT ![t] = r] /\ r.flush = flushCalls'
                BY <4>0, <4>1, EmptyRecord
            <4>3. ThreadOK'
                <5>1. trec' \in [Threads -> QueueRec]
                    BY <4>2 DEF ThreadOK
                <5>2. tpc' \in [Threads -> ThreadPcs]
                    BY <4>0 DEF ThreadOK, ThreadPcs
                <5> QED BY <4>0, <5>1, <5>2 DEF ThreadOK
            <4>4. tpc'[t] = "enqueue" /\ top'[t] = top[t] /\ trec'[t] = r /\ tkeep'[t] = tkeep[t]
                BY <4>0, <4>2 DEF ThreadOK
            <4>5. Others(t)
                BY <4>0 DEF ThreadOK, Others
            <4> QED BY <4>1, <4>2, <4>3, <4>4, <4>5 DEF Keeps
        <3> QED BY <3>0, <3>1, <3>2, <3>3
    <2>3. tpc[t] \in Away /\ tpc'[t] \in Away /\ CallKnown(t)'
        BY <1>7, <2>2 DEF CallsKnown, CallKnown, Closing, Adding, Away
    <2>4. CallsKnown' /\ LockOK' /\ LoopKnown' /\ HostsKnown' /\ WalkKnown' /\ DeadListed' /\ FedHostAlive'
        BY <2>1, <2>2, <2>3, Elsewhere, LoopStands
    <2>5. EngineOK' /\ LoopOK' /\ PastOK'
        BY <1>7, <2>2 DEF EngineOK, LoopOK, PastOK
    <2>6. RecordsKnown'
        BY <2>1, <2>2 DEF RecordsKnown, Others, Keeps
    <2> QED BY <2>2, <2>4, <2>5, <2>6 DEF EngineInv
<1>8. ASSUME NEW t \in Threads, FlushTimeout(t) PROVE EngineInv'
    <2> USE DEF FlushTimeout
    <2>1. HostFrame /\ UNCHANGED <<tmux, lpc, lidx, done, giveUp, targetHosts>>
        BY <1>8, HostsAlone
    <2>2. ThreadOK' /\ Keeps(t) /\ tpc'[t] = "idle"
        BY <1>8, ReturnsEffect
    <2>3. tpc[t] \in Away /\ tpc'[t] \in Away /\ CallKnown(t)'
        BY <1>8, <2>2 DEF CallKnown, Closing, Adding, Away
    <2>4. CallsKnown' /\ LockOK' /\ LoopKnown' /\ HostsKnown' /\ WalkKnown' /\ DeadListed' /\ FedHostAlive'
        BY <2>1, <2>2, <2>3, Elsewhere, LoopStands
    <2>5. EngineOK'
        BY <1>8 DEF EngineOK
    <2>6. LoopOK' /\ PastOK'
        BY <1>8 DEF LoopOK, PastOK
    <2>7. RecordsKnown'
        BY <1>8, <2>2 DEF RecordsKnown, Others, Keeps
    <2> QED BY <2>2, <2>4, <2>5, <2>6, <2>7 DEF EngineInv
<1>9. ASSUME NEW t \in Threads, ShutdownSwap(t) PROVE EngineInv'
    <2> USE DEF ShutdownSwap
    <2>1. HostFrame /\ UNCHANGED <<tmux, lpc, lrec, lidx, in, done, giveUp, targetHosts>>
        BY <1>9, HostsAlone
    <2>2. /\ ThreadOK' /\ Keeps(t) /\ quit' \in BOOLEAN
          /\ tpc'[t] = "idle" \/ (tpc'[t] = "wait" /\ top'[t] = top[t])
        <3>1. CASE shutdown
            BY <1>9, <3>1, ReturnsEffect DEF EngineOK
        <3>2. CASE ~shutdown
            BY <1>9, <3>2 DEF ThreadOK, ThreadPcs, Others, Keeps
        <3> QED BY <3>1, <3>2
    <2>3. tpc[t] \in Away /\ tpc'[t] \in Away /\ CallKnown(t)'
        BY <1>9, <2>2 DEF CallsKnown, CallKnown, Closing, Adding, Away
    <2>4. CallsKnown' /\ LockOK' /\ LoopKnown' /\ HostsKnown' /\ WalkKnown' /\ DeadListed' /\ FedHostAlive'
        BY <2>1, <2>2, <2>3, Elsewhere, LoopStands
    <2>5. EngineOK' /\ LoopOK' /\ PastOK'
        BY <1>9, <2>2 DEF EngineOK, LoopOK, PastOK
    <2>6. RecordsKnown'
        BY <2>1, <2>2 DEF RecordsKnown, Others, Keeps
    <2> QED BY <2>2, <2>4, <2>5, <2>6 DEF EngineInv
<1>10. ASSUME NEW t \in Threads, ShutdownWait(t) PROVE EngineInv'
    <2> USE DEF ShutdownWait
    <2>1. HostFrame
        BY <1>10, HostsAlone
    <2>2. EngineOK'
        BY <1>10 DEF EngineOK, Procs
    <2>3. LoopOK'
        BY <1>10 DEF LoopOK, LoopPcs
    <2>4. ThreadOK'
        BY <1>10 DEF ThreadOK, ThreadPcs, Ops
    <2>5. PastOK'
        BY <1>10 DEF PastOK
    <2>6. RecordsKnown'
        BY <1>10 DEF RecordsKnown, EngineOK, LoopOK, ThreadOK
    <2>7. CallsKnown'
        BY <1>10 DEF CallsKnown, CallKnown, ThreadOK, Closing, Adding
    <2>8. LockOK'
        BY <1>10 DEF LockOK, EngineOK, ThreadOK, CallsKnown, CallKnown, Closing
    <2>9. LoopKnown'
        BY <1>10, <2>1 DEF HostFrame, LoopKnown, ThreadOK, Closing, CallsKnown, CallKnown
    <2>10. HostsKnown'
        BY <1>10, <2>1 DEF HostFrame, HostsKnown, ListedCreated, AddedFresh, AddedApart, ThreadOK, Adding, Listed
    <2>11. WalkKnown'
        BY <1>10 DEF WalkKnown, ThreadOK, Closing, Listed
    <2>12. DeadListed'
        BY <1>10, <2>1 DEF HostFrame, DeadListed, ThreadOK, EngineOK, Listed, LockOK, Closing, CallsKnown, CallKnown
    <2>13. FedHostAlive'
        BY <1>10, <2>1 DEF HostFrame, FedHostAlive, Listed, LockOK, LoopKnown
    <2> QED BY <2>2, <2>3, <2>4, <2>5, <2>6, <2>7, <2>8, <2>9, <2>10, <2>11, <2>12, <2>13 DEF EngineInv
<1>11. ASSUME NEW t \in Threads, ShutdownRLock(t) PROVE EngineInv'
    <2> USE DEF ShutdownRLock, RLock, CanRLock
    <2>1. HostFrame
        BY <1>11, HostsAlone
    <2>2. Others(t) /\ thosts'[t] = targetHosts /\ UNCHANGED <<targetHosts, tkeep, top>> /\ ~Closing(t)
        BY <1>11 DEF ThreadOK, Others, Closing
    <2>3. EngineOK'
        BY <1>11 DEF EngineOK, Procs
    <2>4. LoopOK'
        BY <1>11 DEF LoopOK, LoopPcs
    <2>5. ThreadOK'
        BY <1>11 DEF ThreadOK, ThreadPcs, EngineOK
    <2>6. PastOK'
        BY <1>11 DEF PastOK
    <2>7. RecordsKnown'
        BY <1>11 DEF RecordsKnown, EngineOK, LoopOK, ThreadOK
    <2>8. CallsKnown'
        BY <1>11 DEF CallsKnown, CallKnown, ThreadOK, Closing, Adding
    <2>9. LockOK'
        BY <1>11 DEF LockOK, EngineOK, ThreadOK, CallsKnown, CallKnown, Closing
    <2>10. LoopKnown'
        BY <1>11, <2>1 DEF HostFrame, LoopKnown, ThreadOK, Closing, CallsKnown, CallKnown
    <2>11. HostsKnown'
        BY <1>11, <2>1 DEF HostFrame, HostsKnown, ListedCreated, AddedFresh, AddedApart, ThreadOK, Adding, Listed
    <2>12. WalkKnown'
        BY <2>2 DEF WalkKnown, Others, Closing, Listed
    <2>13. DeadListed'
        BY <1>11, <2>1 DEF HostFrame, DeadListed, ThreadOK, EngineOK, Listed, LockOK, Closing, CallsKnown, CallKnown
    <2>14. FedHostAlive'
        BY <1>11, <2>1 DEF HostFrame, FedHostAlive, Listed, LockOK, LoopKnown
    <2> QED BY <2>3, <2>4, <2>5, <2>6, <2>7, <2>8, <2>9, <2>10, <2>11, <2>12, <2>13, <2>14 DEF EngineInv
<1>12. ASSUME NEW t \in Threads, ShutdownReturn(t) PROVE EngineInv'
    <2> USE DEF ShutdownReturn, RUnlock, Returns
    <2>1. HostFrame
        BY <1>12, HostsAlone
    <2>2. EngineOK'
        BY <1>12 DEF EngineOK, Procs
    <2>3. LoopOK'
        BY <1>12 DEF LoopOK, LoopPcs
    <2>4. ThreadOK'
        BY <1>12, ReturnsEffect
    <2>5. PastOK'
        BY <1>12 DEF PastOK
    <2>6. RecordsKnown'
        BY <1>12 DEF RecordsKnown, EngineOK, LoopOK, ThreadOK
    <2>7. CallsKnown'
        BY <1>12 DEF CallsKnown, CallKnown, ThreadOK, Closing, Adding
    <2>8. LockOK'
        BY <1>12 DEF LockOK, EngineOK, ThreadOK, CallsKnown, CallKnown, Closing
    <2>9. LoopKnown'
        BY <1>12, <2>1 DEF HostFrame, LoopKnown, ThreadOK, Closing, CallsKnown, CallKnown
    <2>10. HostsKnown'
        BY <1>12, <2>1 DEF HostFrame, HostsKnown, ListedCreated, AddedFresh, AddedApart, ThreadOK, Adding, Listed
    <2>11. WalkKnown'
        BY <1>12 DEF WalkKnown, ThreadOK, Closing, Listed
    <2>12. DeadListed'
        BY <1>12, <2>1 DEF HostFrame, DeadListed, ThreadOK, EngineOK, Listed, LockOK, Closing, CallsKnown, CallKnown
    <2>13. FedHostAlive'
        BY <1>12, <2>1 DEF HostFrame, FedHostAlive, Listed, LockOK, LoopKnown
    <2> QED BY <2>2, <2>3, <2>4, <2>5, <2>6, <2>7, <2>8, <2>9, <2>10, <2>11, <2>12, <2>13 DEF EngineInv
<1>13. ASSUME NEW t \in Threads, CloseHost(t) PROVE EngineInv'
    <2> USE DEF CloseHost
    <2>1. thosts[t] \in Seq(Hosts) /\ thosts[t] # <<>>
        BY <1>13 DEF ThreadOK
    <2>2. /\ Head(thosts[t]) \in Hosts /\ Tail(thosts[t]) \in Seq(Hosts)
          /\ 1 \in DOMAIN thosts[t] /\ Head(thosts[t]) = thosts[t][1]
          /\ \A i \in DOMAIN Tail(thosts[t]) : i + 1 \in DOMAIN thosts[t] /\ Tail(thosts[t])[i] = thosts[t][i + 1]
        BY <2>1, TakeHost
    <2>3. Listed(Head(thosts[t]))
        BY <1>13, <2>2 DEF WalkKnown, Closing
    <2>4. fpc' = fpc /\ fhost' = fhost /\ hpc' = hpc
        BY <1>13 DEF ShutdownBegin, hostVars, startVars, feedVars
    <2>5. /\ hshutdown' \in [Hosts -> BOOLEAN]
          /\ \A g \in Hosts : hshutdown[g] => hshutdown'[g]
          /\ \A g \in Hosts : hshutdown'[g] /\ ~hshutdown[g]
                => g = Head(thosts[t]) /\ ~(top[t] = "remove" /\ g \notin tset[t])
        <3>1. CASE (top[t] = "remove" /\ Head(thosts[t]) \notin tset[t]) \/ hshutdown[Head(thosts[t])]
            BY <1>13, <3>1 DEF hostVars, chanVars, TypeInv, HostTypeOK, ChanOK
        <3>2. CASE ~(top[t] = "remove" /\ Head(thosts[t]) \notin tset[t]) /\ ~hshutdown[Head(thosts[t])]
            <4>1. ShutdownBegin(Head(thosts[t]))
                BY <1>13, <3>2
            <4>2. hshutdown' = [hshutdown EXCEPT ![Head(thosts[t])] = TRUE] /\ hshutdown \in [Hosts -> BOOLEAN]
                BY <4>1 DEF ShutdownBegin, TypeInv, HostTypeOK, ChanOK
            <4> QED BY <2>2, <3>2, <4>2
        <3> QED BY <3>1, <3>2
    <2>6. UNCHANGED <<in, quit, done, shutdown, targetHosts, tmux, lgrLogged, lgrErrors, lpc, lrec, lflush, lidx,
                    accepted, flushCalls, since, taken, giveUp, top, trec, tset>>
        BY <1>13
    <2>7. /\ tpc' \in [Threads -> ThreadPcs] /\ thosts' \in [Threads -> Seq(Hosts)]
          /\ Closing(t) /\ Closing(t)' /\ (tpc'[t] = "closeWait" => thosts'[t] # <<>>)
          /\ \A i \in DOMAIN thosts'[t] : Listed(thosts'[t][i])
          /\ \A u \in Threads \ {t} : tpc'[u] = tpc[u] /\ thosts'[u] = thosts[u]
        <3>1. CASE (top[t] = "remove" /\ Head(thosts[t]) \notin tset[t]) \/ hshutdown[Head(thosts[t])]
            <4>1. thosts' = [thosts EXCEPT ![t] = Tail(thosts[t])] /\ tpc' = tpc /\ tpc[t] = "closing"
                BY <1>13, <3>1
            <4> QED BY <2>2, <4>1 DEF ThreadOK, ThreadPcs, Closing, WalkKnown
        <3>2. CASE ~(top[t] = "remove" /\ Head(thosts[t]) \notin tset[t]) /\ ~hshutdown[Head(thosts[t])]
            <4>1. thosts' = thosts /\ tpc' = [tpc EXCEPT ![t] = "closeWait"] /\ tpc[t] = "closing"
                BY <1>13, <3>2
            <4> QED BY <2>1, <4>1 DEF ThreadOK, ThreadPcs, Closing, WalkKnown
        <3> QED BY <3>1, <3>2
    <2>8. /\ tkeep' \in [Threads -> Seq(Hosts)] /\ (\A u \in Threads \ {t} : tkeep'[u] = tkeep[u])
          /\ top[t] = "remove" => \A i \in DOMAIN tkeep'[t] : Listed(tkeep'[t][i]) /\ tkeep'[t][i] \notin tset[t]
        <3>0. tkeep \in [Threads -> Seq(Hosts)] /\ tkeep[t] \in Seq(Hosts)
            BY DEF ThreadOK
        <3>1. CASE top[t] = "remove" /\ Head(thosts[t]) \notin tset[t]
            <4>1. tkeep' = [tkeep EXCEPT ![t] = Append(tkeep[t], Head(thosts[t]))]
                BY <1>13, <3>1
            <4>2. /\ Append(tkeep[t], Head(thosts[t])) \in Seq(Hosts)
                  /\ \A i \in DOMAIN Append(tkeep[t], Head(thosts[t])) :
                        \/ i \in DOMAIN tkeep[t] /\ Append(tkeep[t], Head(thosts[t]))[i] = tkeep[t][i]
                        \/ Append(tkeep[t], Head(thosts[t]))[i] = Head(thosts[t])
                BY <3>0, <2>2, PutHost
            <4> QED BY <3>0, <3>1, <2>3, <2>7, <4>1, <4>2 DEF WalkKnown
        <3>2. CASE ~(top[t] = "remove" /\ Head(thosts[t]) \notin tset[t])
            BY <1>13, <3>0, <3>2, <2>7 DEF WalkKnown
        <3> QED BY <3>1, <3>2
    <2>9. \A u \in Threads : /\ (Closing(u)' <=> Closing(u)) /\ (Adding(u)' <=> Adding(u))
                                /\ (tpc'[u] = "lockWait" <=> tpc[u] = "lockWait")
        BY <2>6, <2>7 DEF Closing, Adding
    <2>10. tmux' = tmux /\ targetHosts' = targetHosts /\ top' = top /\ tset' = tset /\ lpc' = lpc
        BY <2>6
    <2>11. \A g : Listed(g)' <=> Listed(g)
        BY <2>10 DEF Listed
    <2>12. EngineOK'
        BY <2>6 DEF EngineOK
    <2>13. LoopOK'
        BY <2>6 DEF LoopOK
    <2>14. ThreadOK'
        BY <2>6, <2>7, <2>8 DEF ThreadOK
    <2>15. PastOK'
        BY <2>6 DEF PastOK
    <2>16. RecordsKnown'
        BY <1>13 DEF RecordsKnown, EngineOK, LoopOK, ThreadOK
    <2>17. CallsKnown'
        BY <2>6, <2>7, <2>9 DEF CallsKnown, CallKnown, Closing, Adding
    <2>18. LockOK'
        BY <2>9, <2>10 DEF LockOK
    <2>19. LoopKnown'
        BY <2>4, <2>6, <2>7, <2>9 DEF LoopKnown, Closing
    <2>20. HostsKnown'
        <3>1. ListedCreated'
            BY <2>2, <2>3, <2>4, <2>5, <2>6, <2>9, <2>10 DEF HostsKnown, ListedCreated, Created, Listed
        <3>2. AddedFresh'
            BY <2>2, <2>3, <2>4, <2>5, <2>6, <2>9, <2>10 DEF HostsKnown, AddedFresh, Created, Listed, ThreadOK
        <3>3. AddedApart'
            BY <2>2, <2>3, <2>4, <2>5, <2>6, <2>9, <2>10 DEF HostsKnown, AddedApart, Created, Listed
        <3> QED BY <3>1, <3>2, <3>3 DEF HostsKnown
    <2>21. WalkKnown'
        <3>1. \A u \in Threads : Closing(u) => \A i \in DOMAIN thosts'[u] : Listed(thosts'[u][i])
            BY <2>7 DEF WalkKnown
        <3>2. \A u \in Threads : Closing(u) /\ top[u] = "remove"
                => \A i \in DOMAIN tkeep'[u] : Listed(tkeep'[u][i]) /\ tkeep'[u][i] \notin tset[u]
            BY <2>8 DEF WalkKnown
        <3>3. \A u \in Threads : ~Closing(u) => tkeep'[u] = <<>>
            BY <2>7, <2>8 DEF WalkKnown
        <3> QED BY <2>9, <2>10, <2>11, <3>1, <3>2, <3>3 DEF WalkKnown
    <2>22. DeadListed'
        <3> SUFFICES ASSUME NEW h \in Hosts, Listed(h)', hshutdown'[h], ~done', ~giveUp'
                     PROVE  \E u \in Threads : tmux'.writer = u /\ h \in tset'[u]
            BY DEF DeadListed
        <3>1. CASE hshutdown[h]
            BY <2>6, <3>1 DEF DeadListed, Listed
        <3>2. CASE ~hshutdown[h]
            <4>1. top[t] = "remove" /\ h \in tset[t]
                BY <2>5, <2>6, <2>7, <3>2 DEF LoopKnown, CallsKnown, CallKnown
            <4> QED BY <2>6, <2>7, <4>1 DEF LockOK
        <3> QED BY <3>1, <3>2
    <2>23. FedHostAlive'
        <3> SUFFICES ASSUME fpc[readLoop] # "idle", hshutdown'[fhost[readLoop]] PROVE giveUp
            BY <2>4, <2>6 DEF FedHostAlive, Listed
        <3>1. lpc \in {"fanout", "flush"} /\ ~done /\ readLoop \in tmux.readers
            BY DEF LoopKnown, LockOK
        <3>2. hshutdown[fhost[readLoop]] => giveUp
            BY DEF FedHostAlive
        <3>3. fhost[readLoop] \in Hosts
            BY DEF TypeInv, Calling
        <3>4. ~hshutdown[fhost[readLoop]] => giveUp
            BY <2>7, <3>1 DEF CallsKnown, CallKnown, LockOK, LoopKnown
        <3> QED BY <3>2, <3>4
    <2> QED BY <2>12, <2>13, <2>14, <2>15, <2>16, <2>17, <2>18, <2>19, <2>20, <2>21, <2>22, <2>23 DEF EngineInv
<1>14. ASSUME NEW t \in Threads, CloseHostEnd(t) PROVE EngineInv'
    <2> USE DEF CloseHostEnd
    <2>1. HostFrame
        BY <1>14 DEF ShutdownEnd, HostFrame, Created, startVars, feedVars
    <2>2. thosts[t] \in Seq(Hosts) /\ thosts[t] # <<>>
        BY <1>14 DEF ThreadOK, CallsKnown, CallKnown
    <2>3. /\ Tail(thosts[t]) \in Seq(Hosts)
          /\ \A i \in DOMAIN Tail(thosts[t]) : i + 1 \in DOMAIN thosts[t] /\ Tail(thosts[t])[i] = thosts[t][i + 1]
        BY <2>2, TakeHost
    <2>4. EngineOK'
        BY <1>14 DEF EngineOK, Procs
    <2>5. LoopOK'
        BY <1>14 DEF LoopOK, LoopPcs
    <2>6. ThreadOK'
        BY <1>14, <2>2, <2>3 DEF ThreadOK, ThreadPcs, Ops
    <2>7. PastOK'
        BY <1>14 DEF PastOK
    <2>8. RecordsKnown'
        BY <1>14 DEF RecordsKnown, EngineOK, LoopOK, ThreadOK
    <2>9. CallsKnown'
        BY <1>14, <2>2, <2>3 DEF CallsKnown, CallKnown, ThreadOK, Closing, Adding
    <2>10. LockOK'
        BY <1>14 DEF LockOK, EngineOK, ThreadOK, CallsKnown, CallKnown, Closing
    <2>11. LoopKnown'
        BY <1>14, <2>1 DEF HostFrame, LoopKnown, ThreadOK, Closing, CallsKnown, CallKnown
    <2>12. HostsKnown'
        BY <1>14, <2>1 DEF HostFrame, HostsKnown, ListedCreated, AddedFresh, AddedApart, ThreadOK, Adding, Listed
    <2>13. WalkKnown'
        BY <1>14, <2>2, <2>3 DEF WalkKnown, ThreadOK, Closing, Listed
    <2>14. DeadListed'
        BY <1>14, <2>1 DEF HostFrame, DeadListed, ThreadOK, EngineOK, Listed, LockOK, Closing, CallsKnown, CallKnown
    <2>15. FedHostAlive'
        BY <1>14, <2>1 DEF HostFrame, FedHostAlive, Listed, LockOK, LoopKnown
    <2> QED BY <2>4, <2>5, <2>6, <2>7, <2>8, <2>9, <2>10, <2>11, <2>12, <2>13, <2>14, <2>15 DEF EngineInv
<1>15. ASSUME NEW t \in Threads, NEW h \in Hosts, AddTarget(t, h) PROVE EngineInv'
    <2> USE DEF AddTarget
    <2>1. HostFrame
        BY <1>15 DEF NewTargetHost, HostFrame, Created, chanVars, feedVars, TypeInv, HostTypeOK, StartOK
    <2>2. ~Created(h) /\ (Created(h)' => tpc' = [tpc EXCEPT ![t] = "lock"])
        BY <1>15 DEF NewTargetHost, Created
    <2>3. /\ Others(t) /\ UNCHANGED <<engineVars, loopVars, pastVars, trec, thosts, tkeep>>
          /\ \/ /\ tpc' = [tpc EXCEPT ![t] = "lock"] /\ top' = [top EXCEPT ![t] = "add"]
                /\ tset' = [tset EXCEPT ![t] = {h}] /\ Created(h)'
             \/ UNCHANGED <<tpc, top, tset>>
        <3>1. CASE Created(h)'
            BY <1>15, <3>1 DEF ThreadOK, Others
        <3>2. CASE ~Created(h)'
            BY <1>15, <3>2 DEF Others
        <3> QED BY <3>1, <3>2
    <2>4. ThreadOK'
        <3>1. CASE UNCHANGED <<tpc, top, tset>>
            BY <2>3, <3>1 DEF ThreadOK
        <3>2. CASE /\ tpc' = [tpc EXCEPT ![t] = "lock"] /\ top' = [top EXCEPT ![t] = "add"]
                   /\ tset' = [tset EXCEPT ![t] = {h}]
            BY <2>3, <3>2 DEF ThreadOK, ThreadPcs, Ops
        <3> QED BY <2>3, <3>1, <3>2
    <2>5. /\ \/ tpc'[t] = "lock" /\ top'[t] = "add" /\ tset'[t] = {h} /\ Created(h)'
             \/ tpc'[t] = tpc[t] /\ top'[t] = top[t] /\ tset'[t] = tset[t]
          /\ thosts'[t] = thosts[t] /\ tkeep'[t] = tkeep[t] /\ tpc[t] = "idle"
          /\ UNCHANGED <<tmux, targetHosts, giveUp, done, lpc, lidx>>
        BY <1>15, <2>3 DEF ThreadOK
    <2>6. \A u \in Threads : Closing(u)' <=> Closing(u)
        BY <2>3, <2>5 DEF Closing, Others
    <2>7. \A g : Listed(g)' <=> Listed(g)
        BY <2>5 DEF Listed
    <2>8. EngineOK'
        BY <1>15 DEF EngineOK, Procs
    <2>9. LoopOK'
        BY <1>15 DEF LoopOK, LoopPcs
    <2>10. ThreadOK'
        BY <2>4
    <2>11. PastOK'
        BY <1>15 DEF PastOK
    <2>12. RecordsKnown'
        BY <1>15 DEF RecordsKnown, EngineOK, LoopOK, ThreadOK
    <2>13. CallsKnown'
        <3>1. ASSUME NEW u \in Threads \ {t} PROVE CallKnown(u)'
            <4>1. /\ tpc'[u] = tpc[u] /\ top'[u] = top[u] /\ tset'[u] = tset[u] /\ thosts'[u] = thosts[u]
                  /\ CallKnown(u)
                BY <2>3, <3>1 DEF CallsKnown, Others
            <4> QED BY <4>1 DEF CallKnown, Closing, Adding
        <3>2. CallKnown(t)'
            <4>1. CASE tpc'[t] = "lock" /\ top'[t] = "add" /\ tset'[t] = {h}
                BY <2>5, <4>1 DEF CallKnown, Closing, Adding
            <4>2. CASE tpc'[t] = tpc[t] /\ top'[t] = top[t] /\ tset'[t] = tset[t]
                BY <2>5, <4>2 DEF CallsKnown, CallKnown, Closing, Adding
            <4> QED BY <2>5, <4>1, <4>2
        <3> QED BY <3>1, <3>2 DEF CallsKnown
    <2>14. LockOK'
        BY <2>3, <2>5, <2>6 DEF LockOK, Others, Closing
    <2>15. LoopKnown'
        BY <1>15, <2>1, <2>2 DEF HostFrame, LoopKnown, ThreadOK, Closing, CallsKnown, CallKnown
    <2>16. HostsKnown'
        <3>1. ~Listed(h) /\ ~hshutdown[h] /\ (\A u \in Threads : Adding(u) => h \notin tset[u])
            BY <2>2 DEF HostsKnown, ListedCreated, AddedFresh
        <3>2. \A u \in Threads : Adding(u)' =>
                  \/ Adding(u) /\ tset'[u] = tset[u] /\ u # t
                  \/ u = t /\ tset'[u] = {h} /\ Created(h)'
            BY <2>3, <2>5 DEF Adding, Others
        <3>3. ListedCreated'
            BY <2>1, <2>5 DEF HostsKnown, ListedCreated, HostFrame, Listed
        <3>4. AddedFresh'
            BY <2>1, <2>7, <3>1, <3>2 DEF HostsKnown, AddedFresh, HostFrame, ThreadOK
        <3>5. AddedApart'
            BY <3>1, <3>2 DEF HostsKnown, AddedApart
        <3> QED BY <3>3, <3>4, <3>5 DEF HostsKnown
    <2>17. WalkKnown'
        BY <2>3, <2>5, <2>6 DEF WalkKnown, Listed, Others, Closing
    <2>18. DeadListed'
        <3>1. \A u \in Threads : tmux.writer = u => tset'[u] = tset[u]
            BY <2>3, <2>5 DEF LockOK, Closing, Others
        <3> QED BY <2>1, <2>5, <3>1, DeadFrame DEF HostFrame
    <2>19. FedHostAlive'
        BY <1>15, <2>1, <2>2 DEF HostFrame, FedHostAlive, Listed, LockOK, LoopKnown
    <2> QED BY <2>8, <2>9, <2>10, <2>11, <2>12, <2>13, <2>14, <2>15, <2>16, <2>17, <2>18, <2>19 DEF EngineInv
<1>16. ASSUME NEW t \in Threads, NEW S \in SUBSET Hosts, RemoveTargets(t, S) PROVE EngineInv'
    <2> USE DEF RemoveTargets
    <2>1. HostFrame
        BY <1>16, HostsAlone
    <2>2. Others(t) /\ tpc[t] = "idle"
        BY <1>16 DEF Others, ThreadOK
    <2>3. EngineOK'
        BY <1>16 DEF EngineOK, Procs
    <2>4. LoopOK'
        BY <1>16 DEF LoopOK, LoopPcs
    <2>5. ThreadOK'
        BY <1>16 DEF ThreadOK, ThreadPcs, Ops
    <2>6. PastOK'
        BY <1>16 DEF PastOK
    <2>7. RecordsKnown'
        BY <1>16 DEF RecordsKnown, EngineOK, LoopOK, ThreadOK
    <2>8. CallsKnown'
        BY <1>16 DEF CallsKnown, CallKnown, ThreadOK, Closing, Adding
    <2>9. LockOK'
        BY <1>16 DEF LockOK, EngineOK, ThreadOK, CallsKnown, CallKnown, Closing
    <2>10. LoopKnown'
        BY <1>16, <2>1 DEF HostFrame, LoopKnown, ThreadOK, Closing, CallsKnown, CallKnown
    <2>11. HostsKnown'
        BY <1>16, <2>1 DEF HostFrame, HostsKnown, ListedCreated, AddedFresh, AddedApart, ThreadOK, Adding, Listed
    <2>12. WalkKnown'
        BY <1>16 DEF WalkKnown, ThreadOK, Closing, Listed
    <2>13. DeadListed'
        BY <1>16, <2>1, <2>2, DeadFrame DEF HostFrame, LockOK, Closing, Others
    <2>14. FedHostAlive'
        BY <1>16, <2>1 DEF HostFrame, FedHostAlive, Listed, LockOK, LoopKnown
    <2> QED BY <2>3, <2>4, <2>5, <2>6, <2>7, <2>8, <2>9, <2>10, <2>11, <2>12, <2>13, <2>14 DEF EngineInv
<1>17. ASSUME NEW t \in Threads, LockAnnounce(t) PROVE EngineInv'
    <2> USE DEF LockAnnounce, LockBegin, CanRLock
    <2>1. HostFrame
        BY <1>17, HostsAlone
    <2>2. EngineOK'
        BY <1>17 DEF EngineOK, Procs
    <2>3. LoopOK'
        BY <1>17 DEF LoopOK, LoopPcs
    <2>4. ThreadOK'
        BY <1>17 DEF ThreadOK, ThreadPcs, Ops
    <2>5. PastOK'
        BY <1>17 DEF PastOK
    <2>6. RecordsKnown'
        BY <1>17 DEF RecordsKnown, EngineOK, LoopOK, ThreadOK
    <2>7. CallsKnown'
        BY <1>17 DEF CallsKnown, CallKnown, ThreadOK, Closing, Adding
    <2>8. LockOK'
        BY <1>17 DEF LockOK, EngineOK, ThreadOK, CallsKnown, CallKnown, Closing
    <2>9. LoopKnown'
        BY <1>17, <2>1 DEF HostFrame, LoopKnown, ThreadOK, Closing, CallsKnown, CallKnown
    <2>10. HostsKnown'
        BY <1>17, <2>1 DEF HostFrame, HostsKnown, ListedCreated, AddedFresh, AddedApart, ThreadOK, Adding, Listed
    <2>11. WalkKnown'
        BY <1>17 DEF WalkKnown, ThreadOK, Closing, Listed
    <2>12. DeadListed'
        BY <1>17, <2>1 DEF HostFrame, DeadListed, ThreadOK, EngineOK, Listed, LockOK, Closing, CallsKnown, CallKnown
    <2>13. FedHostAlive'
        BY <1>17, <2>1 DEF HostFrame, FedHostAlive, Listed, LockOK, LoopKnown
    <2> QED BY <2>2, <2>3, <2>4, <2>5, <2>6, <2>7, <2>8, <2>9, <2>10, <2>11, <2>12, <2>13 DEF EngineInv
<1>18. ASSUME NEW t \in Threads, AddTargetAppend(t) PROVE EngineInv'
    <2> USE DEF AddTargetAppend, LockGranted
    <2>1. HostFrame
        BY <1>18, HostsAlone
    <2>2. PICK h \in Hosts : tset[t] = {h}
        BY <1>18 DEF CallsKnown, CallKnown, Adding
    <2>3. (CHOOSE x \in tset[t] : TRUE) = h
        BY <2>2
    <2>4. /\ targetHosts' \in Seq(Hosts)
          /\ \A g \in Hosts : Listed(g)' <=> Listed(g) \/ g = h
        <3>1. targetHosts \in Seq(Hosts) /\ targetHosts' = Append(targetHosts, h)
            BY <1>18, <2>3 DEF EngineOK
        <3>2. targetHosts' \in Seq(Hosts)
            BY <3>1
        <3>3. \A g \in Hosts : Listed(g)' => Listed(g) \/ g = h
            BY <3>1, PutHost DEF Listed
        <3>4. \A g \in Hosts : Listed(g) => Listed(g)'
            BY <3>1, PutHost DEF Listed
        <3>5. Listed(h)'
            BY <3>1, PutHost DEF Listed
        <3> QED BY <3>2, <3>3, <3>4, <3>5
    <2>5. lpc \notin {"fanout", "flush", "signal"} /\ (\A u \in Threads : ~(Closing(u) /\ top[u] = "shutdown"))
        BY <1>18 DEF LockOK
    <2>6. Others(t) /\ ThreadOK' /\ tpc'[t] = "idle" /\ tkeep'[t] = <<>>
        BY <1>18, ReturnsEffect DEF Keeps, ThreadOK, Returns
    <2>7. ~hshutdown[h] /\ Created(h) /\ (\A u \in Threads \ {t} : Adding(u) => h \notin tset[u])
        BY <1>18, <2>2 DEF HostsKnown, ListedCreated, AddedFresh, AddedApart, Adding
    <2>8. /\ tmux'.waiting = nil /\ tmux'.readers = tmux.readers /\ tmux'.writer = tmux.writer
          /\ tmux.waiting = t /\ lpc' = lpc
        BY <1>18 DEF EngineOK
    <2>9. EngineOK'
        BY <1>18, <2>4 DEF EngineOK
    <2>10. LoopOK'
        BY <1>18 DEF LoopOK, LoopPcs
    <2>11. ThreadOK'
        BY <2>6
    <2>12. PastOK'
        BY <1>18 DEF PastOK
    <2>13. RecordsKnown'
        BY <1>18, <2>6 DEF RecordsKnown, Others
    <2>14. CallsKnown'
        BY <2>6, CallEnds
    <2>15. LockOK'
        <3>1. \A u \in Threads : Closing(u)' <=> Closing(u)
            BY <1>18, <2>6 DEF Closing, Others
        <3>2. \A u \in Threads : tpc'[u] # "lockWait"
            <4>1. \A u \in Threads \ {t} : tpc[u] # "lockWait"
                BY <2>8 DEF LockOK
            <4> QED BY <2>6, <4>1 DEF Others
        <3>3. \A u \in Threads : Closing(u) => top'[u] = top[u]
            BY <1>18, <2>6 DEF Closing, Others
        <3> QED BY <2>8, <3>1, <3>2, <3>3 DEF LockOK
    <2>16. LoopKnown'
        BY <1>18, <2>1, <2>6 DEF LoopKnown, HostFrame, Others, Closing
    <2>17. HostsKnown'
        <3>0. \A u \in Threads : Adding(u)' => Adding(u) /\ u # t /\ tset'[u] = tset[u]
            BY <2>6 DEF Adding, Others
        <3>1. ListedCreated'
            BY <2>1, <2>4, <2>7 DEF HostsKnown, ListedCreated, HostFrame
        <3>2. AddedFresh'
            <4> SUFFICES ASSUME NEW u \in Threads, Adding(u)', NEW g \in tset'[u]
                         PROVE  Created(g)' /\ ~Listed(g)' /\ ~hshutdown'[g]
                BY DEF AddedFresh
            <4>1. g \in tset[u] /\ Adding(u) /\ u # t /\ g \in Hosts
                BY <3>0 DEF ThreadOK
            <4>2. Created(g) /\ ~Listed(g) /\ ~hshutdown[g]
                BY <4>1 DEF HostsKnown, AddedFresh
            <4>3. g # h
                BY <2>7, <4>1
            <4> QED BY <2>1, <2>4, <4>1, <4>2, <4>3 DEF HostFrame
        <3>3. AddedApart'
            BY <3>0 DEF HostsKnown, AddedApart
        <3> QED BY <3>1, <3>2, <3>3 DEF HostsKnown
    <2>18. WalkKnown'
        <3>1. \A u \in Threads : ~Closing(u)
            BY <1>18, <2>5 DEF LockOK, CallsKnown, CallKnown
        <3> QED BY <2>6, <3>1 DEF WalkKnown, Others, Closing
    <2>19. DeadListed'
        BY <1>18, <2>1, <2>4, <2>6, <2>7 DEF DeadListed, HostFrame, Others, LockOK, EngineOK, Closing
    <2>20. FedHostAlive'
        BY <1>18, <2>1, <2>5 DEF FedHostAlive, HostFrame, LoopKnown
    <2> QED BY <2>9, <2>10, <2>11, <2>12, <2>13, <2>14, <2>15, <2>16, <2>17, <2>18, <2>19, <2>20 DEF EngineInv
<1>19. ASSUME NEW t \in Threads, RemoveLocked(t) PROVE EngineInv'
    <2> USE DEF RemoveLocked, LockGranted
    <2>1. HostFrame
        BY <1>19, HostsAlone
    <2>2. Others(t) /\ thosts'[t] = targetHosts /\ UNCHANGED <<targetHosts, tkeep, top>> /\ ~Closing(t)
        BY <1>19 DEF ThreadOK, Others, Closing
    <2>3. EngineOK'
        BY <1>19 DEF EngineOK, Procs
    <2>4. LoopOK'
        BY <1>19 DEF LoopOK, LoopPcs
    <2>5. ThreadOK'
        BY <1>19 DEF ThreadOK, ThreadPcs, EngineOK
    <2>6. PastOK'
        BY <1>19 DEF PastOK
    <2>7. RecordsKnown'
        BY <1>19 DEF RecordsKnown, EngineOK, LoopOK, ThreadOK
    <2>8. CallsKnown'
        BY <1>19 DEF CallsKnown, CallKnown, ThreadOK, Closing, Adding
    <2>9. LockOK'
        BY <1>19 DEF LockOK, EngineOK, ThreadOK, CallsKnown, CallKnown, Closing
    <2>10. LoopKnown'
        BY <1>19, <2>1 DEF HostFrame, LoopKnown, ThreadOK, Closing, CallsKnown, CallKnown
    <2>11. HostsKnown'
        BY <1>19, <2>1 DEF HostFrame, HostsKnown, ListedCreated, AddedFresh, AddedApart, ThreadOK, Adding, Listed
    <2>12. WalkKnown'
        BY <2>2 DEF WalkKnown, Others, Closing, Listed
    <2>13. DeadListed'
        BY <1>19, <2>1 DEF HostFrame, DeadListed, ThreadOK, EngineOK, Listed, LockOK, Closing, CallsKnown, CallKnown
    <2>14. FedHostAlive'
        BY <1>19, <2>1 DEF HostFrame, FedHostAlive, Listed, LockOK, LoopKnown
    <2> QED BY <2>3, <2>4, <2>5, <2>6, <2>7, <2>8, <2>9, <2>10, <2>11, <2>12, <2>13, <2>14 DEF EngineInv
<1>20. ASSUME NEW t \in Threads, RemoveReturn(t) PROVE EngineInv'
    <2> USE DEF RemoveReturn
    <2>1. HostFrame
        BY <1>20, HostsAlone
    <2>2. Others(t) /\ ThreadOK' /\ tpc'[t] = "idle" /\ tkeep'[t] = <<>>
        BY <1>20, ReturnsEffect DEF Keeps, ThreadOK, Returns
    <2>3. tmux.writer = t /\ tmux.readers = {} /\ tmux.waiting = nil
        BY <1>20 DEF LockOK, Closing
    <2>4. tmux'.writer = nil /\ tmux'.readers = {} /\ tmux'.waiting = nil /\ EngineOK'
        BY <1>20, <2>3 DEF EngineOK, ThreadOK
    <2>5. \A u \in Threads : Closing(u) => u = t
        BY <2>3 DEF LockOK, CallsKnown, CallKnown
    <2>6. \A g \in Hosts : Listed(g)' => Listed(g) /\ g \notin tset[t]
        BY <1>20 DEF WalkKnown, Listed, Closing
    <2>7. EngineOK'
        BY <2>4
    <2>8. LoopOK'
        BY <1>20 DEF LoopOK, LoopPcs
    <2>9. ThreadOK'
        BY <2>2
    <2>10. PastOK'
        BY <1>20 DEF PastOK
    <2>11. RecordsKnown'
        BY <1>20, <2>2 DEF RecordsKnown, Others
    <2>12. CallsKnown'
        BY <2>2, CallEnds
    <2>13. LockOK'
        BY <1>20, <2>2, <2>3, <2>4, <2>5 DEF LockOK, Closing, Others
    <2>14. LoopKnown'
        BY <1>20, <2>1, <2>2 DEF LoopKnown, HostFrame, Others, Closing
    <2>15. HostsKnown'
        <3>1. ListedCreated'
            BY <2>1, <2>2, <2>6 DEF HostsKnown, ListedCreated, HostFrame, Others
        <3>2. AddedFresh'
            BY <2>1, <2>2, <2>6 DEF HostsKnown, AddedFresh, HostFrame, Others, Adding, ThreadOK
        <3>3. AddedApart'
            BY <2>1, <2>2, <2>6 DEF HostsKnown, AddedApart, HostFrame, Others, Adding
        <3> QED BY <3>1, <3>2, <3>3 DEF HostsKnown
    <2>16. WalkKnown'
        BY <2>2, <2>5 DEF WalkKnown, Others, Closing
    <2>17. DeadListed'
        BY <1>20, <2>1, <2>3, <2>6 DEF DeadListed, HostFrame
    <2>18. FedHostAlive'
        BY <1>20, <2>1, <2>3 DEF FedHostAlive, HostFrame, LoopKnown, LockOK
    <2> QED BY <2>7, <2>8, <2>9, <2>10, <2>11, <2>12, <2>13, <2>14, <2>15, <2>16, <2>17, <2>18 DEF EngineInv
<1>21. ASSUME StartRecvRec PROVE EngineInv'
    <2> USE DEF StartRecvRec
    <2>1. HostFrame
        BY <1>21, HostsAlone
    <2>2. /\ Head(in) \in QueueRec /\ Tail(in) \in Seq(QueueRec) /\ Len(Tail(in)) <= InBound
          /\ 1 \in DOMAIN in /\ Head(in) = in[1]
          /\ \A i \in DOMAIN Tail(in) : i + 1 \in DOMAIN in /\ Tail(in)[i] = in[i + 1]
        BY <1>21, TakeRecord, BoundIsNumber DEF EngineOK
    <2>3. EngineOK'
        BY <1>21, <2>2 DEF EngineOK, Procs
    <2>4. LoopOK'
        BY <1>21, <2>2 DEF LoopOK, LoopPcs
    <2>5. ThreadOK'
        BY <1>21 DEF ThreadOK, ThreadPcs, Ops
    <2>6. PastOK'
        BY <1>21, <2>2 DEF PastOK, QueueRec
    <2>7. RecordsKnown'
        BY <1>21, <2>2 DEF RecordsKnown, EngineOK, LoopOK, ThreadOK
    <2>8. CallsKnown'
        BY <1>21 DEF CallsKnown, CallKnown, ThreadOK, Closing, Adding
    <2>9. LockOK'
        BY <1>21 DEF LockOK, EngineOK, ThreadOK, CallsKnown, CallKnown, Closing
    <2>10. LoopKnown'
        BY <1>21, <2>1 DEF HostFrame, LoopKnown, ThreadOK, Closing, CallsKnown, CallKnown
    <2>11. HostsKnown'
        BY <1>21, <2>1 DEF HostFrame, HostsKnown, ListedCreated, AddedFresh, AddedApart, ThreadOK, Adding, Listed
    <2>12. WalkKnown'
        BY <1>21 DEF WalkKnown, ThreadOK, Closing, Listed
    <2>13. DeadListed'
        BY <1>21, <2>1 DEF HostFrame, DeadListed, ThreadOK, EngineOK, Listed, LockOK, Closing, CallsKnown, CallKnown
    <2>14. FedHostAlive'
        BY <1>21, <2>1 DEF HostFrame, FedHostAlive, Listed, LockOK, LoopKnown
    <2> QED BY <2>3, <2>4, <2>5, <2>6, <2>7, <2>8, <2>9, <2>10, <2>11, <2>12, <2>13, <2>14 DEF EngineInv
<1>22. ASSUME StartRecvQuit PROVE EngineInv'
    <2> USE DEF StartRecvQuit
    <2>1. HostFrame
        BY <1>22, HostsAlone
    <2>2. EngineOK'
        BY <1>22 DEF EngineOK, Procs
    <2>3. LoopOK'
        BY <1>22 DEF LoopOK, LoopPcs
    <2>4. ThreadOK'
        BY <1>22 DEF ThreadOK, ThreadPcs, Ops
    <2>5. PastOK'
        BY <1>22 DEF PastOK
    <2>6. RecordsKnown'
        BY <1>22 DEF RecordsKnown, EngineOK, LoopOK, ThreadOK
    <2>7. CallsKnown'
        BY <1>22 DEF CallsKnown, CallKnown, ThreadOK, Closing, Adding
    <2>8. LockOK'
        BY <1>22 DEF LockOK, EngineOK, ThreadOK, CallsKnown, CallKnown, Closing
    <2>9. LoopKnown'
        BY <1>22, <2>1 DEF HostFrame, LoopKnown, ThreadOK, Closing, CallsKnown, CallKnown
    <2>10. HostsKnown'
        BY <1>22, <2>1 DEF HostFrame, HostsKnown, ListedCreated, AddedFresh, AddedApart, ThreadOK, Adding, Listed
    <2>11. WalkKnown'
        BY <1>22 DEF WalkKnown, ThreadOK, Closing, Listed
    <2>12. DeadListed'
        BY <1>22, <2>1 DEF HostFrame, DeadListed, ThreadOK, EngineOK, Listed, LockOK, Closing, CallsKnown, CallKnown
    <2>13. FedHostAlive'
        BY <1>22, <2>1 DEF HostFrame, FedHostAlive, Listed, LockOK, LoopKnown
    <2> QED BY <2>2, <2>3, <2>4, <2>5, <2>6, <2>7, <2>8, <2>9, <2>10, <2>11, <2>12, <2>13 DEF EngineInv
<1>23. ASSUME FanoutRLock PROVE EngineInv'
    <2> USE DEF FanoutRLock, RLock, CanRLock
    <2>1. HostFrame
        BY <1>23, HostsAlone
    <2>2. EngineOK'
        BY <1>23 DEF EngineOK, Procs
    <2>3. LoopOK'
        BY <1>23 DEF LoopOK, LoopPcs
    <2>4. ThreadOK'
        BY <1>23 DEF ThreadOK, ThreadPcs, Ops
    <2>5. PastOK'
        BY <1>23 DEF PastOK
    <2>6. RecordsKnown'
        BY <1>23 DEF RecordsKnown, EngineOK, LoopOK, ThreadOK
    <2>7. CallsKnown'
        BY <1>23 DEF CallsKnown, CallKnown, ThreadOK, Closing, Adding
    <2>8. LockOK'
        BY <1>23 DEF LockOK, EngineOK, ThreadOK, CallsKnown, CallKnown, Closing
    <2>9. LoopKnown'
        BY <1>23, <2>1 DEF HostFrame, LoopKnown, ThreadOK, Closing, CallsKnown, CallKnown
    <2>10. HostsKnown'
        BY <1>23, <2>1 DEF HostFrame, HostsKnown, ListedCreated, AddedFresh, AddedApart, ThreadOK, Adding, Listed
    <2>11. WalkKnown'
        BY <1>23 DEF WalkKnown, ThreadOK, Closing, Listed
    <2>12. DeadListed'
        BY <1>23, <2>1 DEF HostFrame, DeadListed, ThreadOK, EngineOK, Listed, LockOK, Closing, CallsKnown, CallKnown
    <2>13. FedHostAlive'
        BY <1>23, <2>1 DEF HostFrame, FedHostAlive, Listed, LockOK, LoopKnown
    <2> QED BY <2>2, <2>3, <2>4, <2>5, <2>6, <2>7, <2>8, <2>9, <2>10, <2>11, <2>12, <2>13 DEF EngineInv
<1>24. ASSUME FanoutHost PROVE EngineInv'
    <2> USE DEF FanoutHost
    <2>1. /\ \A g \in Hosts : Created(g) => Created(g)'
          /\ hshutdown' = hshutdown
        BY <1>24 DEF LogRefused, LogEnter, Created, hostVars, chanVars, startVars
    <2>2. targetHosts[lidx] \in Hosts /\ Listed(targetHosts[lidx])
        BY <1>24 DEF EngineOK, LoopOK, LoopKnown, Listed
    <2>3. fpc'[readLoop] # "idle" => fhost'[readLoop] = targetHosts[lidx] /\ ~hshutdown[targetHosts[lidx]]
        BY <1>24, <2>2 DEF LogRefused, LogEnter, LogReturns, hostVars, feedVars, TypeInv, HostTypeOK, FeedOK
    <2>4. EngineOK'
        BY <1>24 DEF EngineOK, Procs
    <2>5. LoopOK'
        BY <1>24 DEF LoopOK, LoopPcs
    <2>6. ThreadOK'
        BY <1>24 DEF ThreadOK, ThreadPcs, Ops
    <2>7. PastOK'
        BY <1>24 DEF PastOK
    <2>8. RecordsKnown'
        BY <1>24 DEF RecordsKnown, EngineOK, LoopOK, ThreadOK
    <2>9. CallsKnown'
        BY <1>24 DEF CallsKnown, CallKnown, ThreadOK, Closing, Adding
    <2>10. LockOK'
        BY <1>24 DEF LockOK, EngineOK, ThreadOK, CallsKnown, CallKnown, Closing
    <2>11. LoopKnown'
        BY <1>24, <2>1, <2>2, <2>3 DEF LoopOK, LoopKnown, Closing
    <2>12. HostsKnown'
        BY <1>24, <2>1, <2>2, <2>3 DEF HostsKnown, ListedCreated, AddedFresh, AddedApart, ThreadOK, Adding, Listed, DeadListed
    <2>13. WalkKnown'
        BY <1>24 DEF WalkKnown, ThreadOK, Closing, Listed
    <2>14. DeadListed'
        BY <1>24, <2>1, <2>2, <2>3 DEF DeadListed, ThreadOK, EngineOK, Listed, LockOK, Closing, CallsKnown, CallKnown, DeadListed
    <2>15. FedHostAlive'
        BY <1>24, <2>1, <2>2, <2>3 DEF FedHostAlive, Listed, LockOK, LoopKnown, DeadListed
    <2> QED BY <2>4, <2>5, <2>6, <2>7, <2>8, <2>9, <2>10, <2>11, <2>12, <2>13, <2>14, <2>15 DEF EngineInv
<1>25. ASSUME FanoutReturn PROVE EngineInv'
    <2> USE DEF FanoutReturn, RUnlock, AfterFanout
    <2>1. HostFrame
        BY <1>25, HostsAlone
    <2>2. EngineOK'
        <3>1. tmux' \in [readers : SUBSET Procs, waiting : Threads \cup {nil}, writer : Threads \cup {nil}]
            BY <1>25 DEF EngineOK, Procs
        <3>2. lgrLogged' \in Nat /\ lgrErrors' \in Nat
            BY <1>25 DEF EngineOK
        <3> QED BY <1>25, <3>1, <3>2 DEF EngineOK
    <2>3. LoopOK'
        BY <1>25, EmptyRecord DEF LoopOK, LoopPcs
    <2>4. ThreadOK'
        BY <1>25 DEF ThreadOK, ThreadPcs, Ops
    <2>5. PastOK'
        BY <1>25 DEF PastOK
    <2>6. RecordsKnown'
        BY <1>25 DEF RecordsKnown, EngineOK, LoopOK, ThreadOK
    <2>7. CallsKnown'
        BY <1>25 DEF CallsKnown, CallKnown, ThreadOK, Closing, Adding
    <2>8. LockOK'
        BY <1>25 DEF LockOK, EngineOK, ThreadOK, CallsKnown, CallKnown, Closing
    <2>9. LoopKnown'
        BY <1>25, <2>1 DEF HostFrame, LoopKnown, ThreadOK, Closing, CallsKnown, CallKnown
    <2>10. HostsKnown'
        BY <1>25, <2>1 DEF HostFrame, HostsKnown, ListedCreated, AddedFresh, AddedApart, ThreadOK, Adding, Listed
    <2>11. WalkKnown'
        BY <1>25 DEF WalkKnown, ThreadOK, Closing, Listed
    <2>12. DeadListed'
        BY <1>25, <2>1 DEF HostFrame, DeadListed, ThreadOK, EngineOK, Listed, LockOK, Closing, CallsKnown, CallKnown
    <2>13. FedHostAlive'
        BY <1>25, <2>1 DEF HostFrame, FedHostAlive, Listed, LockOK, LoopKnown
    <2> QED BY <2>2, <2>3, <2>4, <2>5, <2>6, <2>7, <2>8, <2>9, <2>10, <2>11, <2>12, <2>13 DEF EngineInv
<1>26. ASSUME LoopLogStep PROVE EngineInv'
    <2> USE DEF LoopLogStep
    <2>1. HostFrame
        BY <1>26 DEF LogSend, LogDrop, LogBlock, LogTimeout, LogReturns, HostFrame, Created, chanVars, startVars,
            TypeInv, HostTypeOK, FeedOK
    <2>2. EngineOK'
        BY <1>26 DEF EngineOK, Procs
    <2>3. LoopOK'
        BY <1>26 DEF LoopOK, LoopPcs
    <2>4. ThreadOK'
        BY <1>26 DEF ThreadOK, ThreadPcs, Ops
    <2>5. PastOK'
        BY <1>26 DEF PastOK
    <2>6. RecordsKnown'
        BY <1>26 DEF RecordsKnown, EngineOK, LoopOK, ThreadOK
    <2>7. CallsKnown'
        BY <1>26 DEF CallsKnown, CallKnown, ThreadOK, Closing, Adding
    <2>8. LockOK'
        BY <1>26 DEF LockOK, EngineOK, ThreadOK, CallsKnown, CallKnown, Closing
    <2>9. LoopKnown'
        BY <1>26, <2>1 DEF HostFrame, LoopKnown, ThreadOK, Closing, CallsKnown, CallKnown
    <2>10. HostsKnown'
        BY <1>26, <2>1 DEF HostFrame, HostsKnown, ListedCreated, AddedFresh, AddedApart, ThreadOK, Adding, Listed
    <2>11. WalkKnown'
        BY <1>26 DEF WalkKnown, ThreadOK, Closing, Listed
    <2>12. DeadListed'
        BY <1>26, <2>1 DEF HostFrame, DeadListed, ThreadOK, EngineOK, Listed, LockOK, Closing, CallsKnown, CallKnown
    <2>13. FedHostAlive'
        BY <1>26, <2>1 DEF HostFrame, FedHostAlive, Listed, LockOK, LoopKnown
    <2> QED BY <2>2, <2>3, <2>4, <2>5, <2>6, <2>7, <2>8, <2>9, <2>10, <2>11, <2>12, <2>13 DEF EngineInv
<1>27. ASSUME LoopPanic PROVE EngineInv'
    <2> USE DEF LoopPanic, RUnlock, AfterFanout
    <2>1. HostFrame
        BY <1>27, HostsAlone DEF LogPanic, HostFrame, Created, chanVars, startVars, TypeInv, HostTypeOK, FeedOK
    <2>2. fpc'[readLoop] = "idle"
        BY <1>27 DEF LogPanic, hostVars, feedVars, TypeInv, HostTypeOK, FeedOK
    <2>3. lpc \in {"fanout", "flush"}
        BY <1>27 DEF LogPanic, LoopKnown
    <2>4. EngineOK'
        <3>1. tmux' \in [readers : SUBSET Procs, waiting : Threads \cup {nil}, writer : Threads \cup {nil}]
            BY <1>27 DEF EngineOK, Procs
        <3>2. lgrLogged' \in Nat /\ lgrErrors' \in Nat
            BY <1>27 DEF EngineOK
        <3> QED BY <1>27, <3>1, <3>2 DEF EngineOK
    <2>5. LoopOK'
        BY <1>27, EmptyRecord DEF LoopOK, LoopPcs
    <2>6. ThreadOK'
        BY <1>27 DEF ThreadOK, ThreadPcs, Ops
    <2>7. PastOK'
        BY <1>27 DEF PastOK
    <2>8. RecordsKnown'
        BY <1>27 DEF RecordsKnown, EngineOK, LoopOK, ThreadOK
    <2>9. CallsKnown'
        BY <1>27 DEF CallsKnown, CallKnown, ThreadOK, Closing, Adding
    <2>10. LockOK'
        BY <1>27 DEF LockOK, EngineOK, ThreadOK, CallsKnown, CallKnown, Closing
    <2>11. LoopKnown'
        BY <1>27, <2>2, <2>3 DEF LoopOK, LoopKnown, Closing
    <2>12. HostsKnown'
        BY <1>27, <2>1, <2>2 DEF HostFrame, HostsKnown, ListedCreated, AddedFresh, AddedApart, ThreadOK, Adding, Listed
    <2>13. WalkKnown'
        BY <1>27 DEF WalkKnown, ThreadOK, Closing, Listed
    <2>14. DeadListed'
        BY <1>27, <2>1, <2>2 DEF HostFrame, DeadListed, ThreadOK, EngineOK, Listed, LockOK, Closing, CallsKnown, CallKnown
    <2>15. FedHostAlive'
        BY <1>27, <2>1, <2>2 DEF HostFrame, FedHostAlive, Listed, LockOK, LoopKnown
    <2> QED BY <2>4, <2>5, <2>6, <2>7, <2>8, <2>9, <2>10, <2>11, <2>12, <2>13, <2>14, <2>15 DEF EngineInv
<1>28. ASSUME DrainRec PROVE EngineInv'
    <2> USE DEF DrainRec
    <2>1. HostFrame
        BY <1>28, HostsAlone
    <2>2. /\ Head(in) \in QueueRec /\ Tail(in) \in Seq(QueueRec) /\ Len(Tail(in)) <= InBound
          /\ 1 \in DOMAIN in /\ Head(in) = in[1]
          /\ \A i \in DOMAIN Tail(in) : i + 1 \in DOMAIN in /\ Tail(in)[i] = in[i + 1]
        BY <1>28, TakeRecord, BoundIsNumber DEF EngineOK
    <2>3. EngineOK'
        BY <1>28, <2>2 DEF EngineOK, Procs
    <2>4. LoopOK'
        BY <1>28, <2>2 DEF LoopOK, LoopPcs
    <2>5. ThreadOK'
        BY <1>28 DEF ThreadOK, ThreadPcs, Ops
    <2>6. PastOK'
        BY <1>28, <2>2 DEF PastOK, QueueRec
    <2>7. RecordsKnown'
        BY <1>28, <2>2 DEF RecordsKnown, EngineOK, LoopOK, ThreadOK
    <2>8. CallsKnown'
        BY <1>28 DEF CallsKnown, CallKnown, ThreadOK, Closing, Adding
    <2>9. LockOK'
        BY <1>28 DEF LockOK, EngineOK, ThreadOK, CallsKnown, CallKnown, Closing
    <2>10. LoopKnown'
        BY <1>28, <2>1 DEF HostFrame, LoopKnown, ThreadOK, Closing, CallsKnown, CallKnown
    <2>11. HostsKnown'
        BY <1>28, <2>1 DEF HostFrame, HostsKnown, ListedCreated, AddedFresh, AddedApart, ThreadOK, Adding, Listed
    <2>12. WalkKnown'
        BY <1>28 DEF WalkKnown, ThreadOK, Closing, Listed
    <2>13. DeadListed'
        BY <1>28, <2>1 DEF HostFrame, DeadListed, ThreadOK, EngineOK, Listed, LockOK, Closing, CallsKnown, CallKnown
    <2>14. FedHostAlive'
        BY <1>28, <2>1 DEF HostFrame, FedHostAlive, Listed, LockOK, LoopKnown
    <2> QED BY <2>3, <2>4, <2>5, <2>6, <2>7, <2>8, <2>9, <2>10, <2>11, <2>12, <2>13, <2>14 DEF EngineInv
<1>29. ASSUME DrainEnd PROVE EngineInv'
    <2> USE DEF DrainEnd
    <2>1. HostFrame
        BY <1>29, HostsAlone
    <2>2. EngineOK'
        BY <1>29 DEF EngineOK, Procs
    <2>3. LoopOK'
        BY <1>29 DEF LoopOK, LoopPcs
    <2>4. ThreadOK'
        BY <1>29 DEF ThreadOK, ThreadPcs, Ops
    <2>5. PastOK'
        BY <1>29 DEF PastOK
    <2>6. RecordsKnown'
        BY <1>29 DEF RecordsKnown, EngineOK, LoopOK, ThreadOK
    <2>7. CallsKnown'
        BY <1>29 DEF CallsKnown, CallKnown, ThreadOK, Closing, Adding
    <2>8. LockOK'
        BY <1>29 DEF LockOK, EngineOK, ThreadOK, CallsKnown, CallKnown, Closing
    <2>9. LoopKnown'
        BY <1>29, <2>1 DEF HostFrame, LoopKnown, ThreadOK, Closing, CallsKnown, CallKnown
    <2>10. HostsKnown'
        BY <1>29, <2>1 DEF HostFrame, HostsKnown, ListedCreated, AddedFresh, AddedApart, ThreadOK, Adding, Listed
    <2>11. WalkKnown'
        BY <1>29 DEF WalkKnown, ThreadOK, Closing, Listed
    <2>12. DeadListed'
        BY <1>29, <2>1 DEF HostFrame, DeadListed, ThreadOK, EngineOK, Listed, LockOK, Closing, CallsKnown, CallKnown
    <2>13. FedHostAlive'
        BY <1>29, <2>1 DEF HostFrame, FedHostAlive, Listed, LockOK, LoopKnown
    <2> QED BY <2>2, <2>3, <2>4, <2>5, <2>6, <2>7, <2>8, <2>9, <2>10, <2>11, <2>12, <2>13 DEF EngineInv
<1>30. ASSUME FlushRLock PROVE EngineInv'
    <2> USE DEF FlushRLock, RLock, CanRLock
    <2>1. HostFrame
        BY <1>30, HostsAlone
    <2>2. EngineOK'
        BY <1>30 DEF EngineOK, Procs
    <2>3. LoopOK'
        BY <1>30 DEF LoopOK, LoopPcs
    <2>4. ThreadOK'
        BY <1>30 DEF ThreadOK, ThreadPcs, Ops
    <2>5. PastOK'
        BY <1>30 DEF PastOK
    <2>6. RecordsKnown'
        BY <1>30 DEF RecordsKnown, EngineOK, LoopOK, ThreadOK
    <2>7. CallsKnown'
        BY <1>30 DEF CallsKnown, CallKnown, ThreadOK, Closing, Adding
    <2>8. LockOK'
        BY <1>30 DEF LockOK, EngineOK, ThreadOK, CallsKnown, CallKnown, Closing
    <2>9. LoopKnown'
        BY <1>30, <2>1 DEF HostFrame, LoopKnown, ThreadOK, Closing, CallsKnown, CallKnown
    <2>10. HostsKnown'
        BY <1>30, <2>1 DEF HostFrame, HostsKnown, ListedCreated, AddedFresh, AddedApart, ThreadOK, Adding, Listed
    <2>11. WalkKnown'
        BY <1>30 DEF WalkKnown, ThreadOK, Closing, Listed
    <2>12. DeadListed'
        BY <1>30, <2>1 DEF HostFrame, DeadListed, ThreadOK, EngineOK, Listed, LockOK, Closing, CallsKnown, CallKnown
    <2>13. FedHostAlive'
        BY <1>30, <2>1 DEF HostFrame, FedHostAlive, Listed, LockOK, LoopKnown
    <2> QED BY <2>2, <2>3, <2>4, <2>5, <2>6, <2>7, <2>8, <2>9, <2>10, <2>11, <2>12, <2>13 DEF EngineInv
<1>31. ASSUME FlushHost PROVE EngineInv'
    <2> USE DEF FlushHost
    <2>1. /\ \A g \in Hosts : Created(g) => Created(g)'
          /\ hshutdown' = hshutdown
        BY <1>31 DEF LogRefused, LogEnter, Created, hostVars, chanVars, startVars
    <2>2. targetHosts[lidx] \in Hosts /\ Listed(targetHosts[lidx])
        BY <1>31 DEF EngineOK, LoopOK, LoopKnown, Listed
    <2>3. fpc'[readLoop] # "idle" => fhost'[readLoop] = targetHosts[lidx]
        BY <1>31, <2>2 DEF LogRefused, LogEnter, LogReturns, hostVars, feedVars, TypeInv, HostTypeOK, FeedOK
    <2>4. EngineOK'
        BY <1>31 DEF EngineOK, Procs
    <2>5. LoopOK'
        BY <1>31 DEF LoopOK, LoopPcs
    <2>6. ThreadOK'
        BY <1>31 DEF ThreadOK, ThreadPcs, Ops
    <2>7. PastOK'
        BY <1>31 DEF PastOK
    <2>8. RecordsKnown'
        BY <1>31 DEF RecordsKnown, EngineOK, LoopOK, ThreadOK
    <2>9. CallsKnown'
        BY <1>31 DEF CallsKnown, CallKnown, ThreadOK, Closing, Adding
    <2>10. LockOK'
        BY <1>31 DEF LockOK, EngineOK, ThreadOK, CallsKnown, CallKnown, Closing
    <2>11. LoopKnown'
        BY <1>31, <2>1, <2>2, <2>3 DEF LoopOK, LoopKnown, Closing
    <2>12. HostsKnown'
        BY <1>31, <2>1, <2>2, <2>3 DEF HostsKnown, ListedCreated, AddedFresh, AddedApart, ThreadOK, Adding, Listed, DeadListed
    <2>13. WalkKnown'
        BY <1>31 DEF WalkKnown, ThreadOK, Closing, Listed
    <2>14. DeadListed'
        BY <1>31, <2>1, <2>2, <2>3 DEF DeadListed, ThreadOK, EngineOK, Listed, LockOK, Closing, CallsKnown, CallKnown, DeadListed
    <2>15. FedHostAlive'
        BY <1>31, <2>1, <2>2, <2>3 DEF FedHostAlive, Listed, LockOK, LoopKnown, DeadListed
    <2> QED BY <2>4, <2>5, <2>6, <2>7, <2>8, <2>9, <2>10, <2>11, <2>12, <2>13, <2>14, <2>15 DEF EngineInv
<1>32. ASSUME FlushHostsEnd PROVE EngineInv'
    <2> USE DEF FlushHostsEnd
    <2>1. HostFrame
        BY <1>32, HostsAlone
    <2>2. EngineOK'
        BY <1>32 DEF EngineOK, Procs
    <2>3. LoopOK'
        BY <1>32 DEF LoopOK, LoopPcs
    <2>4. ThreadOK'
        BY <1>32 DEF ThreadOK, ThreadPcs, Ops
    <2>5. PastOK'
        BY <1>32 DEF PastOK
    <2>6. RecordsKnown'
        BY <1>32 DEF RecordsKnown, EngineOK, LoopOK, ThreadOK
    <2>7. CallsKnown'
        BY <1>32 DEF CallsKnown, CallKnown, ThreadOK, Closing, Adding
    <2>8. LockOK'
        BY <1>32 DEF LockOK, EngineOK, ThreadOK, CallsKnown, CallKnown, Closing
    <2>9. LoopKnown'
        BY <1>32, <2>1 DEF HostFrame, LoopKnown, ThreadOK, Closing, CallsKnown, CallKnown
    <2>10. HostsKnown'
        BY <1>32, <2>1 DEF HostFrame, HostsKnown, ListedCreated, AddedFresh, AddedApart, ThreadOK, Adding, Listed
    <2>11. WalkKnown'
        BY <1>32 DEF WalkKnown, ThreadOK, Closing, Listed
    <2>12. DeadListed'
        BY <1>32, <2>1 DEF HostFrame, DeadListed, ThreadOK, EngineOK, Listed, LockOK, Closing, CallsKnown, CallKnown
    <2>13. FedHostAlive'
        BY <1>32, <2>1 DEF HostFrame, FedHostAlive, Listed, LockOK, LoopKnown
    <2> QED BY <2>2, <2>3, <2>4, <2>5, <2>6, <2>7, <2>8, <2>9, <2>10, <2>11, <2>12, <2>13 DEF EngineInv
<1>33. ASSUME NEW t \in Threads, SignalFlush(t) PROVE EngineInv'
    <2> USE DEF SignalFlush, RUnlock
    <2>1. HostFrame /\ UNCHANGED <<lrec, lidx, in, done, giveUp, targetHosts>>
        BY <1>33, HostsAlone
    <2>2. ThreadOK' /\ Keeps(t) /\ (tpc'[t] = "idle" \/ (tpc'[t] = "swap" /\ top[t] # "flush" /\ top'[t] = top[t]))
        BY <1>33, FlushEffect
    <2>3. EngineOK' /\ tmux'.readers = tmux.readers \ {readLoop} /\ tmux'.writer = tmux.writer /\ tmux'.waiting = tmux.waiting
        BY <1>33 DEF EngineOK
    <2>4. tpc[t] \in Away /\ tpc'[t] \in Away /\ CallKnown(t)'
        BY <1>33, <2>2 DEF CallsKnown, CallKnown, Closing, Adding, Away
    <2>5. LoopAt'
        BY <1>33, <2>1, <2>3 DEF LoopKnown, LoopAt, HostFrame
    <2>6. CallsKnown' /\ LockOK' /\ LoopKnown' /\ HostsKnown' /\ WalkKnown' /\ DeadListed' /\ FedHostAlive'
        BY <2>1, <2>2, <2>3, <2>4, <2>5, Elsewhere
    <2>7. LoopOK' /\ PastOK'
        BY <1>33, EmptyRecord DEF LoopOK, LoopPcs, PastOK
    <2>8. RecordsKnown'
        BY <1>33, <2>1, <2>2 DEF RecordsKnown, Others, Keeps
    <2> QED BY <2>2, <2>3, <2>6, <2>7, <2>8 DEF EngineInv
<1>34. ASSUME NEW h \in Hosts, HostGoroutine(h) PROVE EngineInv'
    <2> USE DEF HostGoroutine
    <2>1. hshutdown' = hshutdown
        BY <1>34 DEF HostLoop, StartRecv, StartQuit, StartWrite, StartPanic, FlushRecv, FlushWrite, FlushDrained, FlushSignal, chanVars
    <2>2. \A g \in Hosts : Created(g) => Created(g)'
        BY <1>34 DEF HostLoop, StartRecv, StartQuit, StartWrite, StartPanic, FlushRecv, FlushWrite, FlushDrained, FlushSignal,
            WriteRecOK, WriteRecErr, startVars, Created, TypeInv, HostTypeOK, StartOK
    <2>3. fpc'[readLoop] # "idle" => fpc[readLoop] # "idle" /\ fhost'[readLoop] = fhost[readLoop]
        BY <1>34 DEF HostLoop, StartRecv, StartQuit, StartWrite, StartPanic, FlushRecv, FlushWrite, FlushDrained, FlushSignal,
            feedVars, TypeInv, HostTypeOK, FeedOK
    <2>4. HostFrame
        BY <2>1, <2>2, <2>3 DEF HostFrame
    <2>5. EngineOK'
        BY <1>34 DEF EngineOK, Procs
    <2>6. LoopOK'
        BY <1>34 DEF LoopOK, LoopPcs
    <2>7. ThreadOK'
        BY <1>34 DEF ThreadOK, ThreadPcs, Ops
    <2>8. PastOK'
        BY <1>34 DEF PastOK
    <2>9. RecordsKnown'
        BY <1>34 DEF RecordsKnown, EngineOK, LoopOK, ThreadOK
    <2>10. CallsKnown'
        BY <1>34 DEF CallsKnown, CallKnown, ThreadOK, Closing, Adding
    <2>11. LockOK'
        BY <1>34 DEF LockOK, EngineOK, ThreadOK, CallsKnown, CallKnown, Closing
    <2>12. LoopKnown'
        BY <1>34, <2>4 DEF HostFrame, LoopKnown, ThreadOK, Closing, CallsKnown, CallKnown
    <2>13. HostsKnown'
        BY <1>34, <2>4 DEF HostFrame, HostsKnown, ListedCreated, AddedFresh, AddedApart, ThreadOK, Adding, Listed
    <2>14. WalkKnown'
        BY <1>34 DEF WalkKnown, ThreadOK, Closing, Listed
    <2>15. DeadListed'
        BY <1>34, <2>4 DEF HostFrame, DeadListed, ThreadOK, EngineOK, Listed, LockOK, Closing, CallsKnown, CallKnown
    <2>16. FedHostAlive'
        BY <1>34, <2>4 DEF HostFrame, FedHostAlive, Listed, LockOK, LoopKnown
    <2> QED BY <2>5, <2>6, <2>7, <2>8, <2>9, <2>10, <2>11, <2>12, <2>13, <2>14, <2>15, <2>16 DEF EngineInv
<1>35. CASE UNCHANGED vars
    <2>1. HostFrame
        BY <1>35, HostsAlone DEF vars
    <2>2. EngineOK' /\ LoopOK' /\ ThreadOK' /\ PastOK'
        BY <1>35 DEF vars, EngineOK, LoopOK, ThreadOK, PastOK
    <2>3. RecordsKnown' /\ CallsKnown' /\ LockOK'
        BY <1>35 DEF vars, RecordsKnown, CallsKnown, CallKnown, LockOK, Closing, Adding
    <2>4. LoopKnown' /\ WalkKnown' /\ DeadListed' /\ FedHostAlive'
        BY <1>35, <2>1 DEF vars, HostFrame, LoopKnown, WalkKnown, DeadListed, FedHostAlive, Closing, Listed
    <2>5. UNCHANGED <<tpc, top, tset, targetHosts>>
        BY <1>35 DEF vars
    <2>6. HostsKnown'
        BY <2>1, <2>5 DEF HostFrame, HostsKnown, ListedCreated, AddedFresh, AddedApart, Adding, Listed, ThreadOK
    <2> QED BY <2>2, <2>3, <2>4, <2>6
<1> HIDE DEF EngineInv
<1>36. ASSUME NEW t \in Threads, ThreadStep(t) PROVE EngineInv'
    BY <1>36, <1>2, <1>3, <1>4, <1>5, <1>7, <1>8, <1>9, <1>10, <1>11, <1>12, <1>13, <1>14, <1>17, <1>18, <1>19, <1>20 DEF ThreadStep
<1>37. ASSUME LoopStep PROVE EngineInv'
    BY <1>37, <1>21, <1>22, <1>23, <1>24, <1>25, <1>26, <1>27, <1>28, <1>29, <1>30, <1>31, <1>32, <1>33 DEF LoopStep
<1>38. ASSUME LogrCall PROVE EngineInv'
    BY <1>38, <1>1, <1>6, <1>15, <1>16 DEF LogrCall, Flush, Shutdown
<1> QED BY <1>34, <1>35, <1>36, <1>37, <1>38 DEF LogrNext, LogrStep

LEMMA EngineInvInit == LogrInit => EngineInv
<1> SUFFICES ASSUME LogrInit PROVE EngineInv
    OBVIOUS
<1> USE HostAssumption, LogrAssumption, EmptyRecord DEF LogrInit
<1>1. EngineOK /\ LoopOK /\ PastOK
    <2>1. in \in Seq(QueueRec) /\ Len(in) = 0
        OBVIOUS
    <2>2. tmux \in [readers : SUBSET Procs, waiting : Threads \cup {nil}, writer : Threads \cup {nil}]
        OBVIOUS
    <2>3. accepted \in Seq(Levels) /\ since \in [Hosts -> Nat]
        OBVIOUS
    <2>4. EngineOK
        <3>1. quit \in BOOLEAN /\ done \in BOOLEAN /\ shutdown \in BOOLEAN /\ targetHosts \in Seq(Hosts)
            OBVIOUS
        <3>2. Len(in) <= InBound /\ lgrLogged \in Nat /\ lgrErrors \in Nat
            BY <2>1 DEF InBound
        <3> QED BY <2>1, <2>2, <3>1, <3>2 DEF EngineOK
    <2>5. LoopOK
        BY DEF LoopOK, LoopPcs
    <2>6. PastOK
        BY <2>3 DEF PastOK
    <2> QED BY <2>4, <2>5, <2>6
<1>2. ThreadOK
    BY DEF ThreadOK, ThreadPcs, Ops
<1>3. fpc[readLoop] = "idle" /\ (\A h \in Hosts : ~hshutdown[h])
    BY DEF HostInit
<1>4. \A h \in Hosts : Listed(h) => Created(h)
    BY DEF Listed, Created
<1>5. \A t \in Threads : tpc[t] = "idle" /\ tkeep[t] = <<>>
    OBVIOUS
<1>6. RecordsKnown /\ CallsKnown /\ LockOK
    BY <1>5 DEF RecordsKnown, CallsKnown, CallKnown, LockOK, Closing, Adding
<1>7. LoopKnown /\ WalkKnown /\ FedHostAlive
    BY <1>3, <1>5 DEF LoopKnown, WalkKnown, FedHostAlive, Closing
<1>8. HostsKnown /\ DeadListed
    BY <1>3, <1>4, <1>5 DEF HostsKnown, ListedCreated, AddedFresh, AddedApart, DeadListed, Adding
<1> QED BY <1>1, <1>2, <1>6, <1>7, <1>8 DEF EngineInv

LEMMA LogrStarts == LogrInit => HostInit
BY DEF LogrInit

LEMMA EngineAlways == LogrSpec => [](TypeInv /\ EngineInv)
<1>1. LogrInit => TypeInv /\ EngineInv
    BY LogrStarts, TypeInit, EngineInvInit
<1>2. TypeInv /\ EngineInv /\ [LogrNext]_vars => (TypeInv /\ EngineInv)'
    BY HostsRefined, TypeStep, EngineInvStep
<1> QED BY <1>1, <1>2, PTL DEF LogrSpec

\* The engine implements the hosts' specification: whatever the read loop, Flush,
\* Shutdown, AddTarget and RemoveTargets do to a TargetHost, under any
\* interleaving, is what module TargetHost allows its users to do, so every
\* theorem about the hosts holds of the hosts of the engine (logr.go, target.go).
THEOREM EngineImplementsHosts == LogrSpec => HostSpec
<1>1. LogrInit => HostInit
    BY LogrStarts
<1>2. EngineInv /\ [LogrNext]_vars => [HostNext]_hostVars
    BY HostsRefined
<1> QED BY <1>1, <1>2, EngineAlways, PTL DEF LogrSpec, HostSpec

\* Every variable of the engine and of its hosts keeps its type, and lgr.in
\* never holds more than MaxQueueSize records (logr.go:62).
THEOREM LogrTypeCorrect == LogrSpec => []LogrTypeOK
<1>1. TypeInv /\ EngineInv => LogrTypeOK
    BY DEF TypeInv, EngineInv, LogrTypeOK
<1> QED BY <1>1, EngineAlways, PTL

\* While the read loop is inside host.Log or waits for a host to flush, the host
\* is listed and alive, or Shutdown gave up waiting: tmux keeps RemoveTargets
\* out, and `done' keeps Shutdown out (logr.go:208, 368, 453, 487).
THEOREM FedHostsAreAlive == LogrSpec => []FedHostAlive
<1>1. EngineInv => FedHostAlive
    BY DEF EngineInv
<1> QED BY <1>1, EngineAlways, PTL

-----------------------------------------------------------------------------
(***************************************************************************)
(* The counter of records written.  TargetHost.flush does not count what   *)
(* it writes; with the read loop of the engine as its only feeder it never *)
(* finds a record to write.  The handshake of module TargetHost says that  *)
(* the feeder waits while its flush record is in the channel, so that the  *)
(* record is the last one there.                                           *)
(***************************************************************************)
CountInv(h) ==
    /\ \A i \in DOMAIN hin[h] : hin[h][i].flush # nil => i = Len(hin[h])
    /\ hpc[h] = "flush" => hflush[h] # nil /\ hin[h] = <<>>
    /\ hpc[h] # "fwrite"
    /\ logged[h] = Len(out[h])

LEMMA CountFrame ==
    ASSUME NEW h, CountInv(h), hin'[h] = hin[h], hflush'[h] = hflush[h], logged'[h] = logged[h],
           out'[h] = out[h], hpc'[h] = hpc[h] \/ hpc'[h] \notin {"flush", "fwrite"}
    PROVE  CountInv(h)'
BY DEF CountInv

LEMMA CountInit == HostInit => \A h \in Hosts : CountInv(h)
<1> SUFFICES ASSUME HostInit, NEW h \in Hosts PROVE CountInv(h)
    OBVIOUS
<1>1. hin[h] = <<>> /\ out[h] = <<>> /\ logged[h] = 0 /\ hpc[h] \in {"none", "select"}
    BY DEF HostInit
<1> QED BY <1>1 DEF CountInv

LEMMA CountStep ==
    ASSUME TypeInv, FlushHandshake, \A h \in Hosts : CountInv(h), [HostNext]_hostVars
    PROVE  \A h \in Hosts : CountInv(h)'
<1> SUFFICES ASSUME NEW h \in Hosts PROVE CountInv(h)'
    OBVIOUS
<1>i. \A x \in Hosts : CountInv(x)
    OBVIOUS
<1>t. /\ hin \in [Hosts -> Seq(LogRec)] /\ hpc \in [Hosts -> StartPcs]
      /\ hflush \in [Hosts -> Feeders \cup {nil}] /\ fpc \in [Feeders -> FeedPcs]
      /\ logged \in [Hosts -> Nat] /\ out \in [Hosts -> Seq(LogRec)] /\ hrec \in [Hosts -> LogRec]
    BY DEF TypeInv, HostTypeOK, ChanOK, StartOK, FeedOK, MetricOK, TargetOK
<1>1. ASSUME NEW g \in Hosts, NewTargetHost(g) PROVE CountInv(h)'
    BY <1>1, <1>t, <1>i, CountFrame DEF NewTargetHost, chanVars, metricVars, targetVars
<1>2. ASSUME NEW g \in Hosts, StartRecv(g) PROVE CountInv(h)'
    <2>1. UNCHANGED <<logged, out>>
        BY <1>2 DEF StartRecv, metricVars, targetVars
    <2>2. CASE h # g
        BY <1>2, <1>t, <1>i, <2>1, <2>2, CountFrame DEF StartRecv
    <2>3. CASE h = g
        <3>1. /\ hin[h] \in Seq(LogRec) /\ hin[h] # <<>> /\ hin'[h] = Tail(hin[h])
              /\ Len(Tail(hin[h])) = Len(hin[h]) - 1 /\ Len(hin[h]) \in Nat
            BY <1>2, <1>t, <2>3, TailType DEF StartRecv
        <3>2. /\ 1 \in DOMAIN hin[h] /\ Head(hin[h]) = hin[h][1]
              /\ \A i \in DOMAIN Tail(hin[h]) : i + 1 \in DOMAIN hin[h] /\ Tail(hin[h])[i] = hin[h][i + 1]
            BY <3>1, TakeHead
        <3>3. \A i \in DOMAIN hin'[h] : hin'[h][i].flush # nil => i = Len(hin'[h])
            BY <1>i, <3>1, <3>2 DEF CountInv
        <3>4. Head(hin[h]).flush # nil => hin'[h] = <<>>
            BY <1>i, <3>1, <3>2 DEF CountInv
        <3>5. IF Head(hin[h]).flush # nil
                THEN hpc'[h] = "flush" /\ hflush'[h] = Head(hin[h]).flush
                ELSE hpc'[h] = "write"
            BY <1>2, <1>t, <2>3 DEF StartRecv
        <3> QED BY <1>i, <2>1, <3>3, <3>4, <3>5 DEF CountInv
    <2> QED BY <2>2, <2>3
<1>3. ASSUME NEW g \in Hosts, StartWrite(g) PROVE CountInv(h)'
    <2>1. UNCHANGED <<hin, hflush>>
        BY <1>3 DEF StartWrite, chanVars
    <2>2. /\ hpc' = [hpc EXCEPT ![g] = "select"]
          /\ \/ logged' = Inc(logged, g) /\ out' = [out EXCEPT ![g] = Append(@, hrec[g])]
             \/ UNCHANGED <<logged, out>>
        BY <1>3 DEF StartWrite, WriteRecOK, WriteRecErr
    <2>3. logged'[h] = Len(out'[h])
        BY <1>t, <1>i, <2>2, AppendType DEF Inc, CountInv
    <2> QED BY <1>t, <1>i, <2>1, <2>2, <2>3 DEF CountInv
<1>4. ASSUME NEW g \in Hosts, StartQuit(g) \/ StartPanic(g) \/ FlushDrained(g) \/ FlushSignal(g)
      PROVE CountInv(h)'
    <2>1. UNCHANGED <<hin, logged, out>>
        BY <1>4 DEF StartQuit, StartPanic, FlushDrained, FlushSignal, chanVars, metricVars, targetVars
    <2>2. /\ hpc'[g] \notin {"flush", "fwrite"}
          /\ h # g => hpc'[h] = hpc[h] /\ hflush'[h] = hflush[h]
        BY <1>4, <1>t DEF StartQuit, StartPanic, FlushDrained, FlushSignal
    <2> QED BY <1>i, <2>1, <2>2 DEF CountInv
<1>5. ASSUME NEW g \in Hosts PROVE ~FlushRecv(g) /\ ~FlushWrite(g)
    BY <1>i DEF FlushRecv, FlushWrite, CountInv
<1>6. ASSUME NEW g \in Hosts, ShutdownBegin(g) \/ ShutdownEnd(g) PROVE CountInv(h)'
    BY <1>6, <1>i, CountFrame DEF ShutdownBegin, ShutdownEnd, startVars, metricVars, targetVars
<1>7. ASSUME NEW f \in Feeders,
             \/ LogCall(f) \/ LogDrop(f) \/ LogBlock(f) \/ LogPanic(f) \/ LogTimeout(f)
      PROVE  CountInv(h)'
    BY <1>7, <1>i, CountFrame DEF LogCall, LogRefused, LogEnter, LogDrop, LogBlock, LogPanic, LogTimeout,
        chanVars, startVars, metricVars, targetVars
<1>8. ASSUME NEW f \in Feeders, LogSend(f) PROVE CountInv(h)'
    <2>1. /\ fhost[f] \in Hosts /\ frec[f] \in LogRec /\ fpc[f] \in {"send", "blocked"}
        BY <1>8, RecordsAreLogRecs DEF LogSend, TypeInv, Calling
    <2>2. /\ UNCHANGED <<hpc, hflush, logged, out>>
          /\ hin' = [hin EXCEPT ![fhost[f]] = Append(@, frec[f])]
        BY <1>8 DEF LogSend, startVars, metricVars, targetVars
    <2>3. CASE h # fhost[f]
        BY <1>t, <1>i, <2>2, <2>3, CountFrame
    <2>4. CASE h = fhost[f]
        <3>1. \A e \in Feeders : e = f
            BY LogrAssumption
        <3>2. Handshake(h, f)
            BY HandshakeDef
        <3>3. hpc[h] # "flush"
            BY <1>t, <1>i, <2>1, <3>1, <3>2 DEF Handshake, Flushing, Waits, CountInv
        <3>4. \A i \in DOMAIN hin[h] : hin[h][i].flush = nil
            <4>1. \A i \in DOMAIN hin[h] : hin[h][i].flush \in Feeders \cup {nil}
                <5>1. \A i \in DOMAIN hin[h] : hin[h][i] \in LogRec
                    BY <1>t
                <5> QED BY <5>1 DEF LogRec
            <4>2. \A i \in DOMAIN hin[h] : hin[h][i].flush # f
                BY <2>1, <3>2 DEF Handshake, Queued, Waits
            <4> QED BY <3>1, <4>1, <4>2
        <3>5. hin[h] \in Seq(LogRec) /\ hin'[h] = Append(hin[h], frec[f])
            BY <1>t, <2>2, <2>4
        <3>6. Len(hin'[h]) = Len(hin[h]) + 1
            BY <2>1, <3>5
        <3>7. \A i \in DOMAIN hin'[h] : hin'[h][i].flush # nil => i = Len(hin'[h])
            BY <2>1, <3>4, <3>5, <3>6, PutLast
        <3> QED BY <1>i, <2>2, <3>3, <3>7 DEF CountInv
    <2> QED BY <2>3, <2>4
<1>9. CASE UNCHANGED hostVars
    BY <1>9, <1>i, CountFrame DEF hostVars, chanVars, startVars, metricVars, targetVars
<1> QED BY <1>1, <1>2, <1>3, <1>4, <1>5, <1>6, <1>7, <1>8, <1>9 DEF HostNext, HostStep, HostLoop, LogStep

\* The loggedCounter of a host counts every record written to its target,
\* although TargetHost.flush does not count (target.go:243, 285-304, logr.go:492).
THEOREM EveryWriteIsCounted == LogrSpec => []LoggedCounted
<1> DEFINE Counts == \A h \in Hosts : CountInv(h)
<1>1. HostInit => Counts
    BY CountInit
<1>2. TypeInv /\ FlushHandshake /\ Counts /\ [HostNext]_hostVars => Counts'
    BY CountStep
<1>3. Counts => LoggedCounted
    BY DEF CountInv, LoggedCounted
<1> HIDE DEF Counts
<1>4. HostSpec => []TypeInv
    BY TypeInit, TypeStep, PTL DEF HostSpec
<1>5. HostSpec => []Counts
    BY <1>1, <1>2, <1>4, HandshakeHolds, PTL DEF HostSpec
<1> QED BY <1>3, <1>5, EngineImplementsHosts, PTL

-----------------------------------------------------------------------------
(***************************************************************************)
(* What Shutdown has closed when it returns.                               *)
(***************************************************************************)

\* Shutdown after the swap, which one call wins.
Ending(t) == tpc[t] \in {"wait", "rlock"} \/ (Closing(t) /\ top[t] = "shutdown")
OneEnds ==
    /\ \A t, u \in Threads : Ending(t) /\ Ending(u) => t = u
    /\ \A t \in Threads : Ending(t) => shutdown

\* A host that is shut down has been closed, or the call that closes it waits
\* for its read loop.
BeingClosed ==
    \A h \in Hosts : hshutdown[h]
        => closes[h] = 1 \/ \E t \in Threads : tpc[t] = "closeWait" /\ Head(thosts[t]) = h

\* Whoever goes through the list has closed or kept what it has passed.
Walked ==
    \A t \in Threads : Closing(t) => \A h \in Hosts : Listed(h) =>
        \/ closes[h] = 1
        \/ \E i \in DOMAIN thosts[t] : thosts[t][i] = h
        \/ top[t] = "remove" /\ \E i \in DOMAIN tkeep[t] : tkeep[t][i] = h

\* A host that was made is closed, listed or about to be.
Held ==
    \A h \in Hosts : Created(h)
        => closes[h] = 1 \/ Listed(h) \/ \E t \in Threads : Adding(t) /\ tset[t] = {h}

CloseInv == OneEnds /\ BeingClosed /\ Walked /\ Held

\* A step of others, as the list and those who go through it see it.
Still(t) ==
    /\ Closing(t)' => Closing(t) /\ thosts'[t] = thosts[t] /\ tkeep'[t] = tkeep[t] /\ top'[t] = top[t]
    /\ tpc[t] = "closeWait" => tpc'[t] = "closeWait" /\ thosts'[t] = thosts[t]
    /\ Adding(t) => Adding(t)' /\ tset'[t] = tset[t]
    /\ Ending(t)' => Ending(t)

LEMMA OthersStill ==
    ASSUME NEW t \in Threads, Others(t)
    PROVE  \A u \in Threads \ {t} : Still(u)
BY DEF Others, Still, Closing, Adding, Ending

\* A call that is neither at the list nor after the swap of Shutdown.
LEMMA AwayStill ==
    ASSUME NEW t \in Threads, Others(t), tpc[t] \in Away, tpc'[t] \in Away \ {"wait"}
    PROVE  \A u \in Threads : Still(u)
<1>1. Still(t)
    BY DEF Still, Closing, Adding, Ending, Away
<1> QED BY <1>1, OthersStill

\* Such a step leaves the invariant alone.
LEMMA CloseFrame ==
    ASSUME CloseInv, UNCHANGED <<closes, hshutdown, targetHosts, shutdown>>,
           \A h \in Hosts : Created(h)' => Created(h),
           \A t \in Threads : Still(t)
    PROVE  CloseInv'
<1> USE DEF CloseInv, Still
<1>1. OneEnds'
    BY DEF OneEnds
<1>2. BeingClosed'
    BY DEF BeingClosed
<1>3. Walked'
    BY DEF Walked, Listed
<1>4. Held'
    <2> SUFFICES ASSUME NEW h \in Hosts, Created(h)', closes'[h] # 1, ~Listed(h)'
                 PROVE  \E t \in Threads : Adding(t)' /\ tset'[t] = {h}
        BY DEF Held
    <2>1. PICK t \in Threads : Adding(t) /\ tset[t] = {h}
        BY DEF Held, Listed
    <2> QED BY <2>1
<1> QED BY <1>1, <1>2, <1>3, <1>4

\* Nobody goes through the list while a writer waits without readers, and
\* nobody else while a writer holds the lock.
LEMMA NobodyWalks ==
    ASSUME LockOK, CallsKnown, NEW t \in Threads
    PROVE  /\ LockGranted(t) => \A u \in Threads : ~Closing(u)
           /\ tmux.writer = t => \A u \in Threads : Closing(u) => u = t
BY LogrAssumption DEF LockOK, LockGranted, CallsKnown, CallKnown

\* At most one call goes through the list at a time.
LEMMA OneWalks ==
    ASSUME LockOK, CallsKnown, OneEnds, NEW t \in Threads, NEW u \in Threads, Closing(t), Closing(u)
    PROVE  t = u
<1> USE DEF CallsKnown, CallKnown
<1>1. CASE top[t] = "shutdown" /\ top[u] = "shutdown"
    BY <1>1 DEF OneEnds, Ending
<1>2. CASE top[t] = "remove" \/ top[u] = "remove"
    BY <1>2, LogrAssumption DEF LockOK
<1> QED BY <1>1, <1>2

LEMMA DropHost ==
    ASSUME NEW s \in Seq(Hosts), s # <<>>, NEW g, g # Head(s), \E i \in DOMAIN s : s[i] = g
    PROVE  \E i \in DOMAIN Tail(s) : Tail(s)[i] = g
<1>1. PICK i \in DOMAIN s : s[i] = g
    OBVIOUS
<1>2. i - 1 \in DOMAIN Tail(s) /\ Tail(s)[i - 1] = g
    BY <1>1
<1> QED BY <1>2


\* What the read loops do to the hosts changes none that concerns who closes them.
LEMMA HostsServe ==
    ASSUME TypeInv, \/ \E h \in Hosts : HostLoop(h)
                    \/ \E h \in Hosts, rec \in RecordsOf(readLoop) : LogRefused(readLoop, h, rec) \/ LogEnter(readLoop, h, rec)
                    \/ LogStep(readLoop)
                    \/ UNCHANGED hostVars
    PROVE  UNCHANGED <<closes, hshutdown>> /\ \A g \in Hosts : Created(g)' => Created(g)
<1> USE DEF chanVars, startVars, feedVars, metricVars, targetVars, historyVars, hostVars
<1>0. hpc \in [Hosts -> StartPcs]
    BY DEF TypeInv, HostTypeOK, StartOK
<1>1. ASSUME NEW h \in Hosts, HostLoop(h)
      PROVE  UNCHANGED <<closes, hshutdown>> /\ \A g \in Hosts : Created(g)' => Created(g)
    <2>1. UNCHANGED <<closes, hshutdown>>
        <3>1. CASE StartRecv(h) \/ StartQuit(h) \/ FlushRecv(h) \/ FlushDrained(h)
            BY <3>1 DEF StartRecv, StartQuit, FlushRecv, FlushDrained
        <3>2. CASE StartWrite(h) \/ FlushWrite(h)
            BY <3>2 DEF StartWrite, FlushWrite, WriteRecOK, WriteRecErr
        <3>3. CASE StartPanic(h) \/ FlushSignal(h)
            BY <3>3 DEF StartPanic, FlushSignal
        <3> QED BY <1>1, <3>1, <3>2, <3>3 DEF HostLoop
    <2>2. Created(h) /\ \A g \in Hosts \ {h} : hpc'[g] = hpc[g]
        <3>1. CASE StartRecv(h) \/ StartQuit(h)
            BY <1>0, <3>1 DEF StartRecv, StartQuit, Created, StartPcs
        <3>2. CASE StartWrite(h) \/ StartPanic(h)
            BY <1>0, <3>2 DEF StartWrite, WriteRecOK, WriteRecErr, StartPanic, Created, StartPcs
        <3>3. CASE FlushRecv(h) \/ FlushWrite(h)
            BY <1>0, <3>3 DEF FlushRecv, FlushWrite, WriteRecOK, WriteRecErr, Created, StartPcs
        <3>4. CASE FlushDrained(h) \/ FlushSignal(h)
            BY <1>0, <3>4 DEF FlushDrained, FlushSignal, Created, StartPcs
        <3> QED BY <1>1, <3>1, <3>2, <3>3, <3>4 DEF HostLoop
    <2> QED BY <2>1, <2>2 DEF Created
<1>2. ASSUME NEW h \in Hosts, NEW rec \in RecordsOf(readLoop), LogRefused(readLoop, h, rec) \/ LogEnter(readLoop, h, rec)
      PROVE  UNCHANGED <<closes, hshutdown>> /\ \A g \in Hosts : Created(g)' => Created(g)
    BY <1>2 DEF LogRefused, LogEnter, Created
<1>3. ASSUME LogStep(readLoop)
      PROVE  UNCHANGED <<closes, hshutdown>> /\ \A g \in Hosts : Created(g)' => Created(g)
    BY <1>3 DEF LogStep, LogSend, LogDrop, LogBlock, LogPanic, LogTimeout, Created
<1>4. ASSUME UNCHANGED hostVars
      PROVE  UNCHANGED <<closes, hshutdown>> /\ \A g \in Hosts : Created(g)' => Created(g)
    BY <1>4 DEF Created
<1> QED BY <1>1, <1>2, <1>3, <1>4

LEMMA CloseStep ==
    ASSUME TypeInv, EngineInv, StopInv, CloseInv, [LogrNext]_vars
    PROVE  CloseInv'
<1> USE LogrAssumption DEF EngineInv, engineVars, loopVars, threadVars, pastVars
<1>0. ThreadOK /\ LockOK /\ CallsKnown /\ LoopOK /\ RecordsKnown
    OBVIOUS
<1>h. ASSUME UNCHANGED hostVars
      PROVE  UNCHANGED <<closes, hshutdown>> /\ \A g \in Hosts : Created(g)' <=> Created(g)
    BY <1>h DEF hostVars, chanVars, startVars, targetVars, Created
\* Steps of the read loop and of the hosts.
<1>1. ASSUME LoopStep \/ (\E h \in Hosts : HostGoroutine(h)) \/ UNCHANGED vars,
             \A t \in Threads : ~SignalFlush(t)
      PROVE  CloseInv'
    <2>1. UNCHANGED <<threadVars, targetHosts, shutdown>>
        BY <1>1 DEF LoopStep, HostGoroutine, vars, StartRecvRec, StartRecvQuit, FanoutRLock, FanoutHost, FanoutReturn,
            LoopLogStep, LoopPanic, DrainRec, DrainEnd, FlushRLock, FlushHost, FlushHostsEnd
    <2>2. \A t \in Threads : Still(t)
        BY <2>1 DEF Still, Closing, Adding, Ending
    <2>3. UNCHANGED <<closes, hshutdown>> /\ \A g \in Hosts : Created(g)' => Created(g)
        <3>1. ASSUME lpc \in {"fanout", "flush"}, lidx <= Len(targetHosts) PROVE targetHosts[lidx] \in Hosts
            BY <3>1 DEF EngineOK, LoopOK, LoopKnown
        <3>2. CASE FanoutHost
            <4>1. targetHosts[lidx] \in Hosts
                BY <3>1, <3>2 DEF FanoutHost
            <4>2. [seq |-> lrec.seq, level |-> lrec.level, flush |-> nil] \in RecordsOf(readLoop)
                BY <3>2, LoopRecords DEF FanoutHost
            <4> QED BY <3>2, <4>1, <4>2, HostsServe DEF FanoutHost
        <3>3. CASE FlushHost
            <4>1. targetHosts[lidx] \in Hosts
                BY <3>1, <3>3 DEF FlushHost
            <4> QED BY <3>3, <4>1, LoopRecords, HostsServe DEF FlushHost
        <3>4. CASE LoopLogStep \/ LoopPanic
            <4>1. LogStep(readLoop) \/ UNCHANGED hostVars
                BY <3>4 DEF LoopLogStep, LoopPanic, LogStep
            <4> QED BY <4>1, HostsServe
        <3>5. CASE \E h \in Hosts : HostGoroutine(h)
            BY <3>5, HostsServe DEF HostGoroutine
        <3>6. CASE LoopStep /\ ~FanoutHost /\ ~FlushHost /\ ~LoopLogStep /\ ~LoopPanic
            <4>1. UNCHANGED hostVars
                BY <1>1, <3>6 DEF LoopStep, StartRecvRec, StartRecvQuit, FanoutRLock, FanoutReturn, DrainRec, DrainEnd,
                    FlushRLock, FlushHostsEnd
            <4> QED BY <4>1, HostsServe
        <3>7. CASE UNCHANGED vars
            BY <3>7, HostsServe DEF vars
        <3> QED BY <1>1, <3>2, <3>3, <3>4, <3>5, <3>6, <3>7
    <2> QED BY <2>1, <2>2, <2>3, CloseFrame
<1>2. ASSUME NEW t \in Threads, SignalFlush(t) PROVE CloseInv'
    <2>1. FlushReturns(t) /\ tpc[t] = "await" /\ UNCHANGED <<hostVars, targetHosts, shutdown>>
        BY <1>2 DEF SignalFlush
    <2>2. Others(t) /\ tpc'[t] \in {"idle", "swap"}
        BY <2>1, <1>0, FlushEffect DEF Keeps
    <2>3. \A u \in Threads : Still(u)
        BY <2>1, <2>2, AwayStill DEF Away
    <2> QED BY <2>1, <2>3, <1>h, CloseFrame
\* Steps of calls that are neither at the list nor after the swap.
<1>3. ASSUME NEW t \in Threads,
             \/ \E l \in Levels : LoggerLog(t, l)
             \/ Flush(t) \/ Shutdown(t) \/ FlushCheck(t) \/ FlushTimeout(t)
             \/ EnqueueSend(t) \/ EnqueueDrop(t) \/ EnqueueBlock(t) \/ EnqueueTimeout(t)
      PROVE  CloseInv'
    <2>1. UNCHANGED <<hostVars, targetHosts, shutdown>>
        BY <1>3 DEF LoggerLog, Flush, Shutdown, FlushBegin, FlushCheck, FlushTimeout, EnqueueSend, EnqueueDrop,
            EnqueueBlock, EnqueueTimeout
    <2>2. tpc[t] \in {"idle", "hasTargets", "await", "enqueue", "blocked"}
        BY <1>3 DEF LoggerLog, Flush, Shutdown, FlushBegin, FlushCheck, FlushTimeout, EnqueueSend, EnqueueDrop,
            EnqueueBlock, EnqueueTimeout
    <2>3. Others(t) /\ tpc'[t] \in Away \ {"wait"}
        <3>1. CASE EnqueueSend(t) \/ EnqueueDrop(t) \/ EnqueueTimeout(t)
            <4>1. EnqueueReturns(t) /\ UNCHANGED <<tset, thosts, tkeep>>
                BY <3>1 DEF EnqueueSend, EnqueueDrop, EnqueueTimeout
            <4> QED BY <4>1, <1>0, EnqueueEffect DEF Keeps, Away
        <3>2. CASE (FlushCheck(t) /\ Returns(t)) \/ FlushTimeout(t)
            BY <3>2, <1>0, ReturnsEffect DEF FlushTimeout, Keeps, Away
        <3>3. CASE FlushCheck(t) /\ ~Returns(t)
            BY <3>3, <1>0 DEF FlushCheck, ThreadOK, Others, Away
        <3>4. CASE (\E l \in Levels : LoggerLog(t, l)) \/ Flush(t) \/ Shutdown(t) \/ EnqueueBlock(t)
            BY <3>4, <1>0 DEF LoggerLog, Flush, Shutdown, FlushBegin, EnqueueBlock, ThreadOK, Others, Away
        <3> QED BY <1>3, <3>1, <3>2, <3>3, <3>4
    <2>4. \A u \in Threads : Still(u)
        BY <2>2, <2>3, AwayStill DEF Away
    <2> QED BY <2>1, <2>4, <1>h, CloseFrame
<1>4. ASSUME NEW t \in Threads, ShutdownSwap(t) PROVE CloseInv'
    <2>1. tpc[t] = "swap" /\ shutdown' = TRUE /\ UNCHANGED <<hostVars, targetHosts>>
        BY <1>4 DEF ShutdownSwap
    <2>2. CASE shutdown
        <3>1. Others(t) /\ tpc'[t] = "idle"
            BY <1>4, <2>2, <1>0, ReturnsEffect DEF ShutdownSwap, Keeps
        <3>2. \A u \in Threads : Still(u)
            BY <2>1, <3>1, AwayStill DEF Away
        <3>3. shutdown' = shutdown
            BY <2>1, <2>2 DEF EngineOK
        <3> QED BY <2>1, <3>2, <3>3, <1>h, CloseFrame
    <2>3. CASE ~shutdown
        <3>1. Others(t) /\ tpc'[t] = "wait"
            BY <1>4, <2>3, <1>0 DEF ShutdownSwap, ThreadOK, Others
        <3>2. \A u \in Threads : ~Ending(u)
            BY <2>3 DEF CloseInv, OneEnds
        <3>3. OneEnds'
            BY <2>1, <3>1, <3>2 DEF OneEnds, Ending, Closing, Others
        <3>4. \A u \in Threads : /\ (Closing(u)' <=> Closing(u)) /\ (Adding(u)' <=> Adding(u))
                                 /\ Closing(u) \/ Adding(u) => u # t
            BY <2>1, <3>1 DEF Closing, Adding, Others
        <3>5. BeingClosed'
            BY <2>1, <3>1, <1>h DEF CloseInv, BeingClosed, Others
        <3>6. Walked'
            BY <2>1, <3>1, <3>4, <1>h DEF CloseInv, Walked, Listed, Others
        <3>7. Held'
            BY <2>1, <3>1, <3>4, <1>h DEF CloseInv, Held, Listed, Others
        <3> QED BY <3>3, <3>5, <3>6, <3>7 DEF CloseInv
    <2> QED BY <2>2, <2>3
<1>5. ASSUME NEW t \in Threads, ShutdownWait(t) \/ LockAnnounce(t) \/ \E S \in SUBSET Hosts : RemoveTargets(t, S)
      PROVE  CloseInv'
    <2>1. UNCHANGED <<hostVars, targetHosts, shutdown>>
        BY <1>5 DEF ShutdownWait, LockAnnounce, RemoveTargets
    <2>2. \A u \in Threads \ {t} : Still(u)
        BY <1>5, <1>0 DEF ShutdownWait, LockAnnounce, RemoveTargets, ThreadOK, Still, Closing, Adding, Ending
    <2>3. Still(t)
        BY <1>5, <1>0 DEF ShutdownWait, LockAnnounce, RemoveTargets, ThreadOK, Still, Closing, Adding, Ending
    <2> QED BY <2>1, <2>2, <2>3, <1>h, CloseFrame
\* Shutdown takes the list, which nobody changes while it goes through it.
<1>6. ASSUME NEW t \in Threads, ShutdownRLock(t) PROVE CloseInv'
    <2>1. /\ tpc[t] = "rlock" /\ tpc'[t] = "closing" /\ thosts'[t] = targetHosts /\ top[t] = "shutdown"
          /\ Others(t) /\ top' = top /\ tset' = tset /\ tkeep' = tkeep
          /\ UNCHANGED <<hostVars, targetHosts, shutdown>>
        BY <1>6, <1>0 DEF ShutdownRLock, ThreadOK, Others, CallsKnown, CallKnown
    <2>2. \A u \in Threads \ {t} : Still(u)
        BY <2>1, OthersStill
    <2>3. OneEnds'
        BY <2>1, <2>2 DEF CloseInv, OneEnds, Still, Ending
    <2>4. BeingClosed'
        BY <2>1, <2>2, <1>h DEF CloseInv, BeingClosed, Still
    <2>5. Walked'
        BY <2>1, <2>2, <1>h DEF CloseInv, Walked, Still, Listed
    <2>6. Held'
        BY <2>1, <2>2, <1>h DEF CloseInv, Held, Still, Listed, Adding
    <2> QED BY <2>3, <2>4, <2>5, <2>6 DEF CloseInv
<1>7. ASSUME NEW t \in Threads, ShutdownReturn(t) PROVE CloseInv'
    <2>1. /\ tpc[t] = "closing" /\ tpc'[t] = "idle" /\ Others(t)
          /\ UNCHANGED <<hostVars, targetHosts, shutdown>>
        BY <1>7, <1>0, ReturnsEffect DEF ShutdownReturn, Keeps
    <2>2. Still(t)
        BY <2>1 DEF Still, Closing, Adding, Ending
    <2> QED BY <2>1, <2>2, <1>h, OthersStill, CloseFrame
\* AddTarget makes a host, which is its own until it is listed.
<1>8. ASSUME NEW t \in Threads, NEW h \in Hosts, AddTarget(t, h) PROVE CloseInv'
    <2>1. /\ tpc[t] = "idle" /\ thosts' = thosts /\ tkeep' = tkeep /\ Others(t)
          /\ UNCHANGED <<closes, hshutdown, targetHosts, shutdown>>
        BY <1>8, <1>0 DEF AddTarget, NewTargetHost, targetVars, chanVars, ThreadOK, Others
    <2>2. \A g \in Hosts \ {h} : Created(g)' <=> Created(g)
        BY <1>8 DEF AddTarget, NewTargetHost, Created, TypeInv, HostTypeOK, StartOK
    <2>3. CASE ~Created(h)'
        <3>1. Still(t)
            BY <1>8, <2>1, <2>3 DEF AddTarget, Still, Closing, Adding, Ending
        <3> QED BY <2>1, <2>2, <2>3, <3>1, OthersStill, CloseFrame
    <2>4. CASE Created(h)'
        <3>1. tpc'[t] = "lock" /\ top'[t] = "add" /\ tset'[t] = {h}
            BY <1>8, <1>0, <2>4 DEF AddTarget, ThreadOK
        <3>2. \A u \in Threads \ {t} : Still(u)
            BY <2>1, OthersStill
        <3>3. OneEnds'
            BY <2>1, <3>1, <3>2 DEF CloseInv, OneEnds, Still, Ending, Closing
        <3>4. BeingClosed'
            BY <2>1, <3>2 DEF CloseInv, BeingClosed, Still
        <3>5. Walked'
            BY <2>1, <3>1, <3>2 DEF CloseInv, Walked, Still, Listed, Closing
        <3>6. Held'
            <4> SUFFICES ASSUME NEW g \in Hosts, Created(g)', closes'[g] # 1, ~Listed(g)'
                         PROVE  \E u \in Threads : Adding(u)' /\ tset'[u] = {g}
                BY DEF Held
            <4>1. CASE g = h
                BY <3>1, <4>1 DEF Adding
            <4>2. CASE g # h
                <5>1. PICK u \in Threads : Adding(u) /\ tset[u] = {g}
                    BY <2>1, <2>2, <4>2 DEF CloseInv, Held, Listed
                <5> QED BY <2>1, <3>2, <5>1 DEF Still, Adding
            <4> QED BY <4>1, <4>2
        <3> QED BY <3>3, <3>4, <3>5, <3>6 DEF CloseInv
    <2> QED BY <2>3, <2>4
<1>9. ASSUME NEW t \in Threads, AddTargetAppend(t) PROVE CloseInv'
    <2>1. PICK h \in Hosts : tset[t] = {h}
        BY <1>9, <1>0 DEF AddTargetAppend, CallsKnown, CallKnown, Adding
    <2>2. /\ tpc[t] = "lockWait" /\ top[t] = "add" /\ LockGranted(t) /\ tpc'[t] = "idle" /\ Others(t)
          /\ targetHosts' = Append(targetHosts, h) /\ UNCHANGED <<hostVars, shutdown>>
        BY <1>9, <1>0, <2>1, ReturnsEffect DEF AddTargetAppend, Keeps
    <2>3. \A u \in Threads : ~Closing(u) /\ ~Closing(u)'
        BY <1>0, <2>2, NobodyWalks DEF Closing, Others
    <2>4. \A u \in Threads \ {t} : Still(u)
        BY <2>2, OthersStill
    <2>5. \A g \in Hosts : Listed(g)' <=> Listed(g) \/ g = h
        BY <1>0, <2>2, PutHost DEF EngineOK, Listed
    <2>6. OneEnds'
        BY <2>2, <2>4 DEF CloseInv, OneEnds, Still, Ending, Closing
    <2>7. BeingClosed'
        BY <2>3, <2>2, <1>h DEF CloseInv, BeingClosed, Closing
    <2>8. Walked'
        BY <2>3 DEF Walked
    <2>9. Held'
        <3> SUFFICES ASSUME NEW g \in Hosts, Created(g)', closes'[g] # 1, ~Listed(g)'
                     PROVE  \E u \in Threads : Adding(u)' /\ tset'[u] = {g}
            BY DEF Held
        <3>1. PICK u \in Threads : Adding(u) /\ tset[u] = {g}
            BY <2>2, <2>5, <1>h DEF CloseInv, Held
        <3>2. u # t
            BY <2>1, <2>5, <3>1
        <3> QED BY <2>4, <3>1, <3>2 DEF Still
    <2> QED BY <2>6, <2>7, <2>8, <2>9 DEF CloseInv
\* RemoveTargets takes the list and puts back what it keeps.
<1>10. ASSUME NEW t \in Threads, RemoveLocked(t) PROVE CloseInv'
    <2>1. /\ tpc[t] = "lockWait" /\ tpc'[t] = "closing" /\ thosts'[t] = targetHosts /\ top[t] = "remove"
          /\ Others(t) /\ top' = top /\ tset' = tset /\ tkeep' = tkeep
          /\ UNCHANGED <<hostVars, targetHosts, shutdown>>
        BY <1>10, <1>0 DEF RemoveLocked, ThreadOK, Others
    <2>2. \A u \in Threads \ {t} : Still(u)
        BY <2>1, OthersStill
    <2>3. OneEnds'
        BY <2>1, <2>2 DEF CloseInv, OneEnds, Still, Ending, Closing
    <2>4. BeingClosed'
        BY <2>1, <2>2, <1>h DEF CloseInv, BeingClosed, Still
    <2>5. Walked'
        BY <2>1, <2>2, <1>h DEF CloseInv, Walked, Still, Listed
    <2>6. Held'
        BY <2>1, <2>2, <1>h DEF CloseInv, Held, Still, Listed, Adding
    <2> QED BY <2>3, <2>4, <2>5, <2>6 DEF CloseInv
<1>11. ASSUME NEW t \in Threads, RemoveReturn(t) PROVE CloseInv'
    <2>1. /\ tpc[t] = "closing" /\ top[t] = "remove" /\ thosts[t] = <<>> /\ tpc'[t] = "idle" /\ Others(t)
          /\ targetHosts' = tkeep[t] /\ UNCHANGED <<hostVars, shutdown>>
        BY <1>11, <1>0, ReturnsEffect DEF RemoveReturn, Keeps
    <2>2. \A u \in Threads : (Closing(u) => u = t) /\ ~Closing(u)'
        BY <1>0, <2>1, NobodyWalks DEF Closing, Others, LockOK
    <2>3. \A u \in Threads \ {t} : Still(u)
        BY <2>1, OthersStill
    <2>4. \A g \in Hosts : Listed(g) => closes[g] = 1 \/ Listed(g)'
        BY <2>1 DEF CloseInv, Walked, Closing, Listed
    <2>5. OneEnds'
        BY <2>1, <2>3 DEF CloseInv, OneEnds, Still, Ending, Closing
    <2>6. BeingClosed'
        BY <2>1, <2>3, <1>h DEF CloseInv, BeingClosed, Still
    <2>7. Walked'
        BY <2>2 DEF Walked
    <2>8. Held'
        BY <2>1, <2>3, <2>4, <1>h DEF CloseInv, Held, Still, Adding
    <2> QED BY <2>5, <2>6, <2>7, <2>8 DEF CloseInv
\* The next host of the list is kept, closed already, or now being closed.
<1>12. ASSUME NEW t \in Threads, CloseHost(t) PROVE CloseInv'
    <2> DEFINE h == Head(thosts[t])
               keep == top[t] = "remove" /\ h \notin tset[t]
    <2>1. thosts[t] \in Seq(Hosts) /\ thosts[t] # <<>> /\ tpc[t] = "closing" /\ h \in Hosts /\ Closing(t)
        BY <1>12, <1>0, HeadIsHost DEF CloseHost, ThreadOK, Closing
    <2>2. /\ top' = top /\ tset' = tset /\ UNCHANGED <<closes, targetHosts, shutdown>> /\ Others(t)
          /\ \A g \in Hosts : Created(g)' <=> Created(g)
        BY <1>12, <1>0 DEF CloseHost, ShutdownBegin, hostVars, chanVars, targetVars, startVars, Created, ThreadOK, Others
    <2>3. \A u \in Threads \ {t} : Still(u)
        BY <2>2, OthersStill
    <2>4. Closing(t)'
        BY <1>12, <1>0, <2>1 DEF CloseHost, Closing, ThreadOK
    <2>5. OneEnds'
        <3>1. tpc'[t] \in {"closing", "closeWait"}
            BY <2>4 DEF Closing
        <3>2. \A u \in Threads : Ending(u)' => Ending(u)
            BY <2>1, <2>2, <2>3, <3>1 DEF Still, Ending
        <3> QED BY <2>2, <3>2 DEF CloseInv, OneEnds
    <2>6. Held'
        <3> SUFFICES ASSUME NEW g \in Hosts, Created(g)', closes'[g] # 1, ~Listed(g)'
                     PROVE  \E u \in Threads : Adding(u)' /\ tset'[u] = {g}
            BY DEF Held
        <3>1. PICK u \in Threads : Adding(u) /\ tset[u] = {g}
            BY <2>2 DEF CloseInv, Held, Listed
        <3>2. u # t
            BY <2>1, <3>1 DEF Adding
        <3> QED BY <2>3, <3>1, <3>2 DEF Still
    <2>7. CASE keep \/ hshutdown[h]
        <3>1. thosts'[t] = Tail(thosts[t]) /\ tpc' = tpc /\ hshutdown' = hshutdown
            BY <1>12, <1>0, <2>7 DEF CloseHost, hostVars, chanVars, ThreadOK
        <3>2. BeingClosed'
            BY <2>1, <2>2, <2>3, <3>1 DEF CloseInv, BeingClosed, Still
        <3>3. ASSUME NEW g \in Hosts, Listed(g), closes[g] # 1
              PROVE  \/ \E i \in DOMAIN thosts'[t] : thosts'[t][i] = g
                     \/ top[t] = "remove" /\ \E i \in DOMAIN tkeep'[t] : tkeep'[t][i] = g
            <4>0. tkeep[t] \in Seq(Hosts) /\ tkeep'[t] = IF keep THEN Append(tkeep[t], h) ELSE tkeep[t]
                BY <1>12, <1>0 DEF CloseHost, ThreadOK
            <4>1. CASE top[t] = "remove" /\ \E i \in DOMAIN tkeep[t] : tkeep[t][i] = g
                BY <2>1, <4>0, <4>1, PutHost
            <4>2. CASE g # h /\ \E i \in DOMAIN thosts[t] : thosts[t][i] = g
                <5>1. \E i \in DOMAIN Tail(thosts[t]) : Tail(thosts[t])[i] = g
                    BY <2>1, <4>2, DropHost
                <5> QED BY <3>1, <5>1
            <4>3. CASE g = h
                <5>1. keep
                    BY <1>0, <2>1, <2>7, <3>3, <4>3, OneWalks DEF CloseInv, BeingClosed, Closing
                <5>2. tkeep'[t] = Append(tkeep[t], g)
                    BY <4>0, <4>3, <5>1
                <5>3. Len(tkeep[t]) + 1 \in DOMAIN tkeep'[t] /\ tkeep'[t][Len(tkeep[t]) + 1] = g
                    <6>1. tkeep[t] \in Seq(Hosts) /\ g \in Hosts
                        BY <3>3, <4>0
                    <6> QED BY <5>2, <6>1, PutHost
                <5> QED BY <5>1, <5>3
            <4> QED BY <2>1, <3>3, <4>1, <4>2, <4>3 DEF CloseInv, Walked
        <3>4. Walked'
            BY <2>2, <2>3, <3>3 DEF CloseInv, Walked, Still, Listed
        <3> QED BY <2>5, <2>6, <3>2, <3>4 DEF CloseInv
    <2>8. CASE ~(keep \/ hshutdown[h])
        <3>1. thosts' = thosts /\ tkeep' = tkeep /\ tpc'[t] = "closeWait" /\ \A g \in Hosts \ {h} : hshutdown'[g] = hshutdown[g]
            BY <1>12, <1>0, <2>1, <2>8 DEF CloseHost, ShutdownBegin, ThreadOK, TypeInv, HostTypeOK, ChanOK
        <3>2. BeingClosed'
            BY <2>1, <2>2, <2>3, <3>1 DEF CloseInv, BeingClosed, Still
        <3>3. Walked'
            BY <2>1, <2>2, <2>3, <3>1 DEF CloseInv, Walked, Still, Listed
        <3> QED BY <2>5, <2>6, <3>2, <3>3 DEF CloseInv
    <2> QED BY <2>7, <2>8
<1>13. ASSUME NEW t \in Threads, CloseHostEnd(t) PROVE CloseInv'
    <2> DEFINE h == Head(thosts[t])
    <2>1. thosts[t] \in Seq(Hosts) /\ thosts[t] # <<>> /\ tpc[t] = "closeWait" /\ h \in Hosts /\ Closing(t)
        BY <1>13, <1>0, HeadIsHost DEF CloseHostEnd, ThreadOK, CallsKnown, CallKnown, Closing
    <2>2. /\ top' = top /\ tset' = tset /\ tkeep' = tkeep /\ UNCHANGED <<hshutdown, targetHosts, shutdown>> /\ Others(t)
          /\ tpc'[t] = "closing" /\ thosts'[t] = Tail(thosts[t])
          /\ \A g \in Hosts : Created(g)' <=> Created(g)
        BY <1>13, <1>0 DEF CloseHostEnd, ShutdownEnd, startVars, Created, ThreadOK, Others
    <2>3. closes'[h] = 1 /\ \A g \in Hosts : closes[g] = 1 => closes'[g] = 1
        <3>1. closes[h] = 0
            BY <1>13, <2>1 DEF CloseHostEnd, ShutdownEnd, StopInv
        <3>2. closes \in [Hosts -> Nat] /\ closes' = Inc(closes, h)
            BY <1>13 DEF CloseHostEnd, ShutdownEnd, TypeInv, HostTypeOK, TargetOK
        <3> QED BY <2>1, <3>1, <3>2 DEF Inc
    <2>4. \A u \in Threads \ {t} : Still(u)
        BY <2>2, OthersStill
    <2>5. OneEnds'
        BY <2>1, <2>2, <2>4 DEF CloseInv, OneEnds, Still, Ending, Closing
    <2>6. BeingClosed'
        BY <2>1, <2>2, <2>3, <2>4 DEF CloseInv, BeingClosed, Still
    <2>7. Walked'
        <3>1. ASSUME NEW g \in Hosts, Listed(g), closes'[g] # 1
              PROVE  \/ \E i \in DOMAIN thosts'[t] : thosts'[t][i] = g
                     \/ top[t] = "remove" /\ \E i \in DOMAIN tkeep[t] : tkeep[t][i] = g
            <4>1. closes[g] # 1 /\ g # h
                BY <2>3, <3>1
            <4>2. CASE \E i \in DOMAIN thosts[t] : thosts[t][i] = g
                <5>1. \E i \in DOMAIN Tail(thosts[t]) : Tail(thosts[t])[i] = g
                    BY <2>1, <4>1, <4>2, DropHost
                <5> QED BY <2>2, <5>1
            <4> QED BY <2>1, <3>1, <4>1, <4>2 DEF CloseInv, Walked
        <3>2. ASSUME NEW u \in Threads \ {t}, Closing(u)', NEW g \in Hosts, Listed(g), closes'[g] # 1
              PROVE  \/ \E i \in DOMAIN thosts'[u] : thosts'[u][i] = g
                     \/ top'[u] = "remove" /\ \E i \in DOMAIN tkeep'[u] : tkeep'[u][i] = g
            <4>1. closes[g] # 1 /\ Still(u)
                BY <2>3, <2>4, <3>2
            <4> QED BY <3>2, <4>1 DEF CloseInv, Walked, Still
        <3> SUFFICES ASSUME NEW u \in Threads, Closing(u)', NEW g \in Hosts, Listed(g)', closes'[g] # 1
                     PROVE  \/ \E i \in DOMAIN thosts'[u] : thosts'[u][i] = g
                            \/ top'[u] = "remove" /\ \E i \in DOMAIN tkeep'[u] : tkeep'[u][i] = g
            BY DEF Walked
        <3>3. Listed(g)
            BY <2>2 DEF Listed
        <3>4. CASE u = t
            BY <2>2, <3>1, <3>3, <3>4
        <3>5. CASE u # t
            BY <3>2, <3>3, <3>5
        <3> QED BY <3>4, <3>5
    <2>8. Held'
        <3> SUFFICES ASSUME NEW g \in Hosts, Created(g)', closes'[g] # 1, ~Listed(g)'
                     PROVE  \E u \in Threads : Adding(u)' /\ tset'[u] = {g}
            BY DEF Held
        <3>1. PICK u \in Threads : Adding(u) /\ tset[u] = {g}
            BY <2>2, <2>3 DEF CloseInv, Held, Listed
        <3>2. u # t
            BY <2>1, <3>1 DEF Adding
        <3> QED BY <2>4, <3>1, <3>2 DEF Still
    <2> QED BY <2>5, <2>6, <2>7, <2>8 DEF CloseInv
<1> QED
    BY <1>1, <1>2, <1>3, <1>4, <1>5, <1>6, <1>7, <1>8, <1>9, <1>10, <1>11, <1>12, <1>13
    DEF LogrNext, LogrStep, LogrCall, ThreadStep, LoopStep

LEMMA CloseInit == LogrInit => CloseInv
<1> SUFFICES ASSUME LogrInit PROVE CloseInv
    OBVIOUS
<1>1. \A t \in Threads : tpc[t] = "idle"
    BY DEF LogrInit
<1>2. OneEnds /\ Walked
    BY <1>1 DEF OneEnds, Walked, Ending, Closing
<1>3. BeingClosed
    BY DEF LogrInit, HostInit, BeingClosed
<1>4. Held
    BY DEF LogrInit, Held, Created, Listed
<1> QED BY <1>2, <1>3, <1>4 DEF CloseInv

LEMMA CloseAlways == LogrSpec => [](EngineInv /\ CloseInv)
<1>1. LogrInit => CloseInv
    BY CloseInit
<1>2. TypeInv /\ EngineInv /\ StopInv /\ CloseInv /\ [LogrNext]_vars => CloseInv'
    BY CloseStep
<1> QED BY <1>1, <1>2, EngineAlways, EngineImplementsHosts, StopAlways, PTL DEF LogrSpec

\* When Shutdown returns, every host made until then has been shut down, except
\* those of AddTarget calls still under way (logr.go:89, 371-382): whatever the
\* numbers of goroutines and targets, also when a context ended early and when
\* RemoveTargets calls change the list in between.
THEOREM ShutdownClosesAll == LogrSpec => ShutdownCloses
<1>1. EngineInv /\ CloseInv /\ [LogrNext]_vars
        => [\A t \in Threads : ShutdownReturn(t) =>
               \A h \in Hosts : Created(h) =>
                   \/ closes[h] = 1
                   \/ \E u \in Threads : top[u] = "add" /\ tset[u] = {h}]_vars
    <2> SUFFICES ASSUME CloseInv, NEW t \in Threads, ShutdownReturn(t), NEW h \in Hosts, Created(h), closes[h] # 1
                 PROVE  \E u \in Threads : top[u] = "add" /\ tset[u] = {h}
        OBVIOUS
    <2>1. ~Listed(h)
        BY DEF ShutdownReturn, CloseInv, Walked, Closing
    <2> QED BY <2>1 DEF CloseInv, Held, Adding
<1> QED BY <1>1, CloseAlways, PTL DEF LogrSpec, ShutdownCloses

=============================================================================
