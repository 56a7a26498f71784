--------------------------- MODULE Delivery_proofs ---------------------------
(***************************************************************************)
(* Proof that the engine with its hosts implements module Delivery: every  *)
(* target receives records it enables, in the order of acceptance, each at *)
(* most once, whatever the queues, the locks, Flush, Shutdown, AddTarget,  *)
(* RemoveTargets, panics, errors and timeouts do.  The second part proves  *)
(* that Flush delivers every record, when nothing is told to lose any.     *)
(***************************************************************************)
EXTENDS Logr_proofs

(***************************************************************************)
(* The order of records, in parts.                                         *)
(***************************************************************************)

\* A record that was accepted, with its number and its level.
Genuine(r, acc) == r.seq \in 1 .. Len(acc) /\ r.level = acc[r.seq]

\* Whatever host h has received was accepted before number n.
Below(h, n) ==
    /\ \A i \in DOMAIN out[h] : out[h][i].seq < n
    /\ hpc[h] = "write" => hrec[h].seq < n
    /\ \A i \in DOMAIN hin[h] : hin[h][i].seq < n

\* What host h has written, has in hand and has in its channel are in order.
Ordered(h) ==
    /\ hpc[h] = "write" =>
          /\ Genuine(hrec[h], accepted)
          /\ \A i \in DOMAIN out[h] : out[h][i].seq < hrec[h].seq
    /\ \A j \in DOMAIN hin[h] : hin[h][j].flush = nil =>
          /\ Genuine(hin[h][j], accepted)
          /\ \A i \in DOMAIN out[h] : out[h][i].seq < hin[h][j].seq
          /\ hpc[h] = "write" => hrec[h].seq < hin[h][j].seq
          /\ \A i \in DOMAIN hin[h] : i < j => hin[h][i].seq < hin[h][j].seq

\* The records in lgr.in are in order, and newer than those taken from it.
QueueOrder ==
    /\ taken <= Len(accepted)
    /\ \A i \in DOMAIN in : in[i].flush = 0 => Genuine(in[i], accepted) /\ taken < in[i].seq
    /\ \A i, j \in DOMAIN in :
          i < j /\ in[i].flush = 0 /\ in[j].flush = 0 => in[i].seq < in[j].seq

\* The record in the hands of the read loop is the last one taken.
LoopOrder ==
    lpc \in {"rlock", "fanout"} => Genuine(lrec, accepted) /\ lrec.seq = taken

\* The hosts that fanout has not got to yet have older records only.
FanoutOrder ==
    /\ \A h \in Hosts : Ordered(h) /\ Below(h, taken + 1)
    /\ lpc = "rlock" => \A h \in Hosts : Below(h, taken)
    /\ lpc = "fanout" => \A i \in DOMAIN targetHosts : lidx <= i => Below(targetHosts[i], taken)

\* The call of host.Log that is under way.
FeedOrder ==
    /\ fpc[readLoop] # "idle" => lidx - 1 \in DOMAIN targetHosts /\ fhost[readLoop] = targetHosts[lidx - 1]
    /\ fpc[readLoop] \in {"send", "blocked"} /\ frec[readLoop].flush = nil =>
          /\ lpc = "fanout" /\ Genuine(frec[readLoop], accepted) /\ frec[readLoop].seq = taken
          /\ Below(fhost[readLoop], taken)

\* No host is in the list twice.
Once(s) == \A i, j \in DOMAIN s : s[i] = s[j] => i = j
ListedOnce ==
    /\ Once(targetHosts)
    /\ \A t \in Threads : Closing(t) =>
          /\ Once(thosts[t]) /\ Once(tkeep[t])
          /\ top[t] = "remove" =>
                \A i \in DOMAIN thosts[t], j \in DOMAIN tkeep[t] : thosts[t][i] # tkeep[t][j]

OrderInv == QueueOrder /\ LoopOrder /\ FanoutOrder /\ FeedOrder /\ ListedOnce

-----------------------------------------------------------------------------
(***************************************************************************)
(* The steps of the abstract specification.                                *)
(***************************************************************************)
delivered == [h \in Hosts |-> Seqs(out[h])]

LEMMA SeqsEmpty == Seqs(<<>>) = <<>>
BY DEF Seqs

LEMMA SeqsAppend ==
    ASSUME NEW s \in Seq(LogRec), NEW r \in LogRec
    PROVE  Seqs(Append(s, r)) = Append(Seqs(s), r.seq)
BY DEF Seqs

LEMMA DeliverStarts == LogrInit => Abstract!Init
<1> SUFFICES ASSUME LogrInit PROVE Abstract!Init
    OBVIOUS
<1>1. \A h \in Hosts : out[h] = <<>>
    BY DEF LogrInit, HostInit
<1>2. [h \in Hosts |-> Seqs(out[h])] = [h \in Hosts |-> <<>>]
    BY <1>1, SeqsEmpty
<1> QED BY <1>2 DEF LogrInit, Abstract!Init

\* A write to a target is a delivery.
LEMMA WriteDelivers ==
    ASSUME TypeInv, NEW h \in Hosts, Ordered(h), hpc[h] = "write", hrec[h].level \in Filter[h],
           out' = [out EXCEPT ![h] = Append(@, hrec[h])], accepted' = accepted
    PROVE  Abstract!Next
<1> DEFINE n == hrec[h].seq
<1>1. n \in 1 .. Len(accepted) /\ accepted[n] \in Filter[h]
    BY DEF Ordered, Genuine
<1>2. out \in [Hosts -> Seq(LogRec)] /\ hrec[h] \in LogRec
    BY DEF TypeInv, HostTypeOK, TargetOK, StartOK
<1>3. \A i \in DOMAIN delivered[h] : delivered[h][i] < n
    BY DEF Ordered, delivered, Seqs
<1>4. Seqs(out'[h]) = Append(Seqs(out[h]), n)
    BY <1>2, SeqsAppend
<1>5. \A g \in Hosts : g # h => out'[g] = out[g]
    BY <1>2
<1>6. [g \in Hosts |-> Seqs(out'[g])] = [delivered EXCEPT ![h] = Append(@, n)]
    <2>1. \A g \in Hosts : Seqs(out'[g]) = IF g = h THEN Append(delivered[h], n) ELSE delivered[g]
        <3>1. \A g \in Hosts : delivered[g] = Seqs(out[g])
            BY DEF delivered
        <3>2. \A g \in Hosts : g # h => Seqs(out'[g]) = delivered[g]
            BY <1>5, <3>1
        <3>3. Seqs(out'[h]) = Append(delivered[h], n)
            BY <1>4, <3>1
        <3> HIDE DEF n
        <3> QED BY <3>2, <3>3
    <2>2. [delivered EXCEPT ![h] = Append(@, n)]
             = [g \in Hosts |-> IF g = h THEN Append(delivered[h], n) ELSE delivered[g]]
        BY DEF delivered
    <2> QED BY <2>1, <2>2
<1>7. Abstract!Deliver(h, n)
    BY <1>1, <1>3, <1>6 DEF Abstract!Deliver, delivered
<1> QED BY <1>1, <1>7 DEF Abstract!Next

-----------------------------------------------------------------------------
(***************************************************************************)
(* A host keeps the order of what it is sent.                              *)
(***************************************************************************)
Grown == \A r : Genuine(r, accepted) => Genuine(r, accepted')

\* Nothing is added to what host h has received.
Kept(h) == Ordered(h)' /\ \A n \in Nat : Below(h, n) => Below(h, n)'

LEMMA PipeFrame ==
    ASSUME Grown, NEW h, Ordered(h), hin'[h] = hin[h], out'[h] = out[h],
           hpc'[h] = "write" => hpc[h] = "write" /\ hrec'[h] = hrec[h]
    PROVE  Kept(h)
BY DEF Grown, Ordered, Below, Kept

LEMMA TailOf ==
    ASSUME NEW q \in Seq(LogRec), q # <<>>, NEW p, p = Tail(q)
    PROVE  /\ 1 \in DOMAIN q /\ Head(q) = q[1]
           /\ \A i \in DOMAIN p : i + 1 \in DOMAIN q /\ i \in Nat \ {0} /\ p[i] = q[i + 1]
OBVIOUS

LEMMA PipeStep ==
    ASSUME TypeInv, Grown, [HostNext]_hostVars, ~LogSend(readLoop), NEW h \in Hosts, Ordered(h),
           \A g \in Hosts : CountInv(g)
    PROVE  Kept(h)
<1>t. /\ hin \in [Hosts -> Seq(LogRec)] /\ hpc \in [Hosts -> StartPcs]
      /\ out \in [Hosts -> Seq(LogRec)] /\ hrec \in [Hosts -> LogRec]
    BY DEF TypeInv, HostTypeOK, ChanOK, StartOK, TargetOK
<1>1. ASSUME NEW g \in Hosts, NewTargetHost(g) \/ StartQuit(g) \/ StartPanic(g) \/ FlushDrained(g) \/ FlushSignal(g)
      PROVE  Kept(h)
    <2>1. UNCHANGED <<hin, out>>
        BY <1>1 DEF NewTargetHost, StartQuit, StartPanic, FlushDrained, FlushSignal, chanVars, targetVars
    <2>2. hpc'[h] = "write" => hpc[h] = "write" /\ hrec'[h] = hrec[h]
        BY <1>1, <1>t DEF NewTargetHost, StartQuit, StartPanic, FlushDrained, FlushSignal
    <2> QED BY <2>1, <2>2, PipeFrame
<1>2. ASSUME NEW g \in Hosts, ShutdownBegin(g) \/ ShutdownEnd(g) PROVE Kept(h)
    BY <1>2, PipeFrame DEF ShutdownBegin, ShutdownEnd, startVars, targetVars
<1>3. ASSUME LogCall(readLoop) \/ LogDrop(readLoop) \/ LogBlock(readLoop) \/ LogPanic(readLoop) \/ LogTimeout(readLoop)
      PROVE  Kept(h)
    BY <1>3, PipeFrame DEF LogCall, LogRefused, LogEnter, LogDrop, LogBlock, LogPanic, LogTimeout,
        chanVars, startVars, targetVars
<1>4. ASSUME NEW g \in Hosts, StartWrite(g) PROVE Kept(h)
    <2>1. /\ hin' = hin /\ hpc[g] = "write" /\ hpc' = [hpc EXCEPT ![g] = "select"]
          /\ hrec' = [hrec EXCEPT ![g] = NoRec]
          /\ out' = out \/ out' = [out EXCEPT ![g] = Append(@, hrec[g])]
        BY <1>4 DEF StartWrite, WriteRecOK, WriteRecErr, chanVars
    <2>2. CASE h # g \/ out' = out
        <3>1. out'[h] = out[h] /\ (hpc'[h] = "write" => hpc[h] = "write" /\ hrec'[h] = hrec[h])
            BY <1>t, <2>1, <2>2
        <3> QED BY <2>1, <3>1, PipeFrame
    <2>3. CASE h = g /\ out' # out
        <3>1. out[h] \in Seq(LogRec) /\ hrec[h] \in LogRec /\ out'[h] = Append(out[h], hrec[h])
            BY <1>t, <2>1, <2>3
        <3>2. \A i \in DOMAIN out'[h] : (i \in DOMAIN out[h] /\ out'[h][i] = out[h][i]) \/ out'[h][i] = hrec[h]
            BY <3>1, PutLast
        <3>3. hpc'[h] = "select" /\ hpc[h] = "write" /\ hin'[h] = hin[h]
            BY <1>t, <2>1, <2>3
        <3> QED BY <3>2, <3>3 DEF Grown, Ordered, Below, Kept
    <2> QED BY <2>2, <2>3
<1>5. ASSUME NEW g \in Hosts, StartRecv(g) PROVE Kept(h)
    <2>1. out' = out
        BY <1>5 DEF StartRecv, targetVars
    <2>2. CASE h # g
        <3>1. hin'[h] = hin[h] /\ hpc'[h] = hpc[h] /\ hrec'[h] = hrec[h]
            BY <1>5, <1>t, <2>2 DEF StartRecv
        <3> QED BY <2>1, <3>1, PipeFrame
    <2>3. CASE h = g
        <3>1. hin[h] \in Seq(LogRec) /\ hin[h] # <<>> /\ hin'[h] = Tail(hin[h]) /\ hpc[h] = "select"
            BY <1>5, <1>t, <2>3 DEF StartRecv
        <3>2. /\ 1 \in DOMAIN hin[h] /\ Head(hin[h]) = hin[h][1]
              /\ \A i \in DOMAIN hin'[h] : i + 1 \in DOMAIN hin[h] /\ i \in Nat \ {0} /\ hin'[h][i] = hin[h][i + 1]
            BY <3>1, TailOf
        <3>3. hpc'[h] = "write" => hrec'[h] = hin[h][1] /\ hin[h][1].flush = nil
            BY <1>5, <1>t, <2>3, <3>2 DEF StartRecv
        <3>4. \A n \in Nat : Below(h, n) => Below(h, n)'
            BY <2>1, <3>2, <3>3 DEF Below
        <3>5. \A j \in DOMAIN hin'[h] : hin'[h][j].flush = nil =>
                  /\ Genuine(hin'[h][j], accepted')
                  /\ \A i \in DOMAIN out[h] : out[h][i].seq < hin'[h][j].seq
                  /\ hin[h][1].seq < hin'[h][j].seq
                  /\ \A i \in DOMAIN hin'[h] : i < j => hin'[h][i].seq < hin'[h][j].seq
            BY <3>2 DEF Ordered, Grown
        <3>6. hpc'[h] = "write" =>
                  Genuine(hrec'[h], accepted') /\ \A i \in DOMAIN out[h] : out[h][i].seq < hrec'[h].seq
            BY <3>2, <3>3 DEF Ordered, Grown
        <3> QED BY <2>1, <3>3, <3>4, <3>5, <3>6 DEF Ordered, Kept
    <2> QED BY <2>2, <2>3
<1>6. \A g \in Hosts : ~FlushRecv(g) /\ ~FlushWrite(g)
    BY DEF FlushRecv, FlushWrite, CountInv
<1>7. CASE UNCHANGED hostVars
    BY <1>7, PipeFrame DEF hostVars, chanVars, startVars, targetVars
<1>8. Feeders = {readLoop}
    BY LogrAssumption
<1> QED BY <1>1, <1>2, <1>3, <1>4, <1>5, <1>6, <1>7, <1>8 DEF HostNext, HostStep, HostLoop, LogStep

\* The read loop sends a record to a host: everything there is older.
LEMMA SendStep ==
    ASSUME TypeInv, Grown, LogSend(readLoop), NEW h \in Hosts, Ordered(h),
           h = fhost[readLoop] /\ frec[readLoop].flush = nil
              => Genuine(frec[readLoop], accepted) /\ Below(h, frec[readLoop].seq)
    PROVE  /\ Ordered(h)'
           /\ \A n \in Nat \ {0} : Below(h, n) /\ (h = fhost[readLoop] => frec[readLoop].seq < n) => Below(h, n)'
<1> DEFINE r == frec[readLoop]
<1>t. /\ hin \in [Hosts -> Seq(LogRec)] /\ out \in [Hosts -> Seq(LogRec)]
    BY DEF TypeInv, HostTypeOK, ChanOK, TargetOK
<1>1. /\ UNCHANGED <<hpc, hrec, out>>
      /\ hin' = [hin EXCEPT ![fhost[readLoop]] = Append(@, r)]
      /\ fhost[readLoop] \in Hosts /\ r \in LogRec
    BY LogrAssumption, RecordsAreLogRecs DEF LogSend, startVars, targetVars, TypeInv, HostTypeOK, FeedOK, Calling
<1>2. CASE h # fhost[readLoop]
    BY <1>t, <1>1, <1>2, PipeFrame DEF Kept
<1>3. CASE h = fhost[readLoop]
    <2>1. hin[h] \in Seq(LogRec) /\ hin'[h] = Append(hin[h], r)
        BY <1>t, <1>1, <1>3
    <2>2. \A i \in DOMAIN hin'[h] : \/ i \in DOMAIN hin[h] /\ hin'[h][i] = hin[h][i]
                                    \/ i = Len(hin[h]) + 1 /\ hin'[h][i] = r
        BY <1>1, <2>1, PutLast
    <2>3. \A i \in DOMAIN hin[h] : i <= Len(hin[h]) /\ i \in Nat
        BY <2>1
    <2>4. Len(hin[h]) \in Nat
        BY <2>1
    <2>5. Ordered(h)'
        BY <1>1, <1>3, <2>2, <2>3, <2>4 DEF Ordered, Below, Grown
    <2>6. \A n \in Nat \ {0} : Below(h, n) /\ r.seq < n => Below(h, n)'
        BY <1>1, <2>2 DEF Below
    <2> QED BY <1>3, <2>5, <2>6
<1> QED BY <1>2, <1>3

-----------------------------------------------------------------------------
(***************************************************************************)
(* The engine keeps the order on the way to the hosts.                     *)
(***************************************************************************)
LEMMA BelowMore ==
    ASSUME TypeInv, NEW h \in Hosts, NEW m \in Nat, NEW n \in Nat, Below(h, m), m <= n
    PROVE  Below(h, n)
<1>1. /\ \A i \in DOMAIN out[h] : out[h][i].seq \in Nat
      /\ \A i \in DOMAIN hin[h] : hin[h][i].seq \in Nat
      /\ hrec[h].seq \in Nat
    <2>1. hin[h] \in Seq(LogRec) /\ out[h] \in Seq(LogRec) /\ hrec[h] \in LogRec
        BY DEF TypeInv, HostTypeOK, ChanOK, StartOK, TargetOK
    <2>2. /\ \A i \in DOMAIN out[h] : out[h][i] \in LogRec
          /\ \A i \in DOMAIN hin[h] : hin[h][i] \in LogRec
        BY <2>1
    <2> QED BY <2>1, <2>2, HostAssumption DEF LogRec
<1> QED BY <1>1 DEF Below

\* A step with which no host receives anything and the read loop stays where it is.
LEMMA OrderFrame ==
    ASSUME OrderInv, PastOK, Grown, \A h \in Hosts : Kept(h), EngineOK,
           UNCHANGED <<taken, lpc, lrec, lidx, targetHosts>>,
           fpc'[readLoop] # "idle" => fpc[readLoop] # "idle" /\ fhost'[readLoop] = fhost[readLoop],
           fpc'[readLoop] \in {"send", "blocked"}
              => fpc[readLoop] \in {"send", "blocked"} /\ frec'[readLoop] = frec[readLoop],
           fpc[readLoop] # "idle" => fhost[readLoop] \in Hosts
    PROVE  LoopOrder' /\ FanoutOrder' /\ FeedOrder'
<1> USE DEF OrderInv, Kept
<1>1. taken \in Nat /\ taken + 1 \in Nat /\ targetHosts \in Seq(Hosts)
    BY DEF PastOK, EngineOK
<1>2. LoopOrder'
    BY DEF LoopOrder, Grown
<1>3. FanoutOrder'
    BY <1>1 DEF FanoutOrder
<1>4. FeedOrder'
    BY <1>1 DEF FeedOrder, Grown
<1> QED BY <1>2, <1>3, <1>4

\* The read loop is done with the record, or does not have one.
LEMMA OrderRests ==
    ASSUME OrderInv, PastOK, Grown, \A h \in Hosts : Kept(h), taken' = taken,
           lpc' \notin {"rlock", "fanout"}, fpc'[readLoop] = "idle"
    PROVE  LoopOrder' /\ FanoutOrder' /\ FeedOrder'
<1>1. taken \in Nat /\ taken + 1 \in Nat
    BY DEF PastOK
<1> QED BY <1>1 DEF OrderInv, Kept, LoopOrder, FanoutOrder, FeedOrder

LEMMA QueueFrame ==
    ASSUME QueueOrder, UNCHANGED <<in, taken, accepted>>
    PROVE  QueueOrder'
BY DEF QueueOrder

\* Who goes through hosts goes on with them.
Walks ==
    \A u \in Threads : Closing(u)' =>
        Closing(u) /\ thosts'[u] = thosts[u] /\ tkeep'[u] = tkeep[u] /\ top'[u] = top[u]

LEMMA WalkFrame ==
    ASSUME ListedOnce, targetHosts' = targetHosts, Walks
    PROVE  ListedOnce'
BY DEF ListedOnce, Once, Walks

LEMMA WalkOthers ==
    ASSUME NEW t \in Threads, Others(t), ~Closing(t)'
    PROVE  Walks
BY DEF Walks, Others, Closing

LEMMA SendMoves ==
    ASSUME TypeInv, LogSend(readLoop)
    PROVE  fpc[readLoop] \in {"send", "blocked"} /\ fpc'[readLoop] \in {"idle", "await"}
BY LogrAssumption DEF LogSend, LogReturns, TypeInv, HostTypeOK, FeedOK

\* The calls of the API that do not touch the queue, the list or what is known of it.
LEMMA QuietCalls ==
    ASSUME EngineInv, NEW t \in Threads,
           \/ \E l \in Levels : LoggerLog(t, l)
           \/ \E op \in {"flush", "shutdown"} : FlushBegin(t, op)
           \/ \E h \in Hosts : AddTarget(t, h)
           \/ \E S \in SUBSET Hosts : RemoveTargets(t, S)
           \/ EnqueueDrop(t) \/ EnqueueBlock(t) \/ EnqueueTimeout(t) \/ FlushCheck(t) \/ FlushTimeout(t)
           \/ ShutdownSwap(t) \/ ShutdownWait(t) \/ ShutdownReturn(t) \/ LockAnnounce(t)
    PROVE  /\ UNCHANGED <<in, taken, accepted, lpc, lrec, lidx, targetHosts, fpc, fhost, frec>>
           /\ Walks
<1> USE DEF EngineInv, engineVars, loopVars, pastVars, hostVars, feedVars
<1>t. ThreadOK
    OBVIOUS
<1>1. ASSUME NEW l \in Levels, LoggerLog(t, l) PROVE Walks /\ UNCHANGED <<in, taken, accepted, lpc, lrec, lidx, targetHosts, fpc, fhost, frec>>
    BY <1>1, <1>t DEF LoggerLog, Walks, Closing, ThreadOK
<1>2. ASSUME NEW op \in {"flush", "shutdown"}, FlushBegin(t, op)
      PROVE  Walks /\ UNCHANGED <<in, taken, accepted, lpc, lrec, lidx, targetHosts, fpc, fhost, frec>>
    BY <1>2, <1>t DEF FlushBegin, Walks, Closing, ThreadOK
<1>3. ASSUME NEW h \in Hosts, AddTarget(t, h)
      PROVE  Walks /\ UNCHANGED <<in, taken, accepted, lpc, lrec, lidx, targetHosts, fpc, fhost, frec>>
    <2>1. Walks
        <3>1. CASE Created(h)'
            BY <1>3, <1>t, <3>1 DEF AddTarget, Walks, Closing, ThreadOK
        <3>2. CASE ~Created(h)'
            BY <1>3, <3>2 DEF AddTarget, Walks, Closing
        <3> QED BY <3>1, <3>2
    <2> QED BY <1>3, <2>1 DEF AddTarget, NewTargetHost
<1>4. ASSUME NEW S \in SUBSET Hosts, RemoveTargets(t, S)
      PROVE  Walks /\ UNCHANGED <<in, taken, accepted, lpc, lrec, lidx, targetHosts, fpc, fhost, frec>>
    BY <1>4, <1>t DEF RemoveTargets, Walks, Closing, ThreadOK
<1>5. ASSUME EnqueueDrop(t) \/ EnqueueTimeout(t)
      PROVE  Walks /\ UNCHANGED <<in, taken, accepted, lpc, lrec, lidx, targetHosts, fpc, fhost, frec>>
    <2>1. Walks
        BY <1>5, <1>t, EnqueueEffect, WalkOthers DEF EnqueueDrop, EnqueueTimeout, Keeps, Closing
    <2> QED BY <1>5, <2>1 DEF EnqueueDrop, EnqueueTimeout
<1>6. ASSUME EnqueueBlock(t) \/ ShutdownWait(t) \/ LockAnnounce(t)
      PROVE  Walks /\ UNCHANGED <<in, taken, accepted, lpc, lrec, lidx, targetHosts, fpc, fhost, frec>>
    BY <1>6, <1>t DEF EnqueueBlock, ShutdownWait, LockAnnounce, Walks, Closing, ThreadOK
<1>7. ASSUME FlushTimeout(t) \/ ShutdownReturn(t)
      PROVE  Walks /\ UNCHANGED <<in, taken, accepted, lpc, lrec, lidx, targetHosts, fpc, fhost, frec>>
    <2>1. Walks
        BY <1>7, <1>t, ReturnsEffect, WalkOthers DEF FlushTimeout, ShutdownReturn, Keeps, Closing
    <2> QED BY <1>7, <2>1 DEF FlushTimeout, ShutdownReturn
<1>8. ASSUME FlushCheck(t)
      PROVE  Walks /\ UNCHANGED <<in, taken, accepted, lpc, lrec, lidx, targetHosts, fpc, fhost, frec>>
    <2>1. CASE Returns(t)
        BY <1>8, <1>t, <2>1, ReturnsEffect, WalkOthers DEF FlushCheck, Keeps, Closing
    <2>2. CASE ~Returns(t)
        BY <1>8, <1>t, <2>2 DEF FlushCheck, Walks, Closing, ThreadOK
    <2> QED BY <2>1, <2>2
<1>9. ASSUME ShutdownSwap(t)
      PROVE  Walks /\ UNCHANGED <<in, taken, accepted, lpc, lrec, lidx, targetHosts, fpc, fhost, frec>>
    <2>1. CASE shutdown
        BY <1>9, <1>t, <2>1, ReturnsEffect, WalkOthers DEF ShutdownSwap, Keeps, Closing
    <2>2. CASE ~shutdown
        BY <1>9, <1>t, <2>2 DEF ShutdownSwap, Walks, Closing, ThreadOK
    <2> QED BY <2>1, <2>2
<1> QED BY <1>1, <1>2, <1>3, <1>4, <1>5, <1>6, <1>7, <1>8, <1>9

\* A call goes through the list of hosts, or through what is left of it.
LEMMA WalkMoves ==
    ASSUME EngineInv, ListedOnce, NEW t \in Threads,
           ShutdownRLock(t) \/ RemoveLocked(t) \/ CloseHost(t) \/ CloseHostEnd(t)
    PROVE  /\ UNCHANGED <<in, taken, accepted, lpc, lrec, lidx, targetHosts, fpc, fhost, frec>>
           /\ ListedOnce'
<1> USE DEF EngineInv, engineVars, loopVars, pastVars, hostVars, feedVars
<1>t. /\ tpc \in [Threads -> ThreadPcs] /\ thosts \in [Threads -> Seq(Hosts)] /\ tkeep \in [Threads -> Seq(Hosts)]
    BY DEF ThreadOK
<1>1. UNCHANGED <<in, taken, accepted, lpc, lrec, lidx, targetHosts, fpc, fhost, frec, top>>
    BY DEF ShutdownRLock, RemoveLocked, CloseHost, CloseHostEnd, ShutdownBegin, ShutdownEnd
<1>2. \A u \in Threads \ {t} : tpc'[u] = tpc[u] /\ thosts'[u] = thosts[u] /\ tkeep'[u] = tkeep[u]
    BY <1>t DEF ShutdownRLock, RemoveLocked, CloseHost, CloseHostEnd
<1>3. /\ Once(thosts'[t]) /\ Once(tkeep'[t])
      /\ top[t] = "remove" => \A i \in DOMAIN thosts'[t], j \in DOMAIN tkeep'[t] : thosts'[t][i] # tkeep'[t][j]
    <2>1. CASE ShutdownRLock(t) \/ RemoveLocked(t)
        <3>1. thosts'[t] = targetHosts /\ tkeep'[t] = tkeep[t] /\ ~Closing(t)
            BY <1>t, <2>1 DEF ShutdownRLock, RemoveLocked, Closing
        <3>2. tkeep[t] = <<>>
            BY <3>1 DEF WalkKnown
        <3> QED BY <3>1, <3>2 DEF ListedOnce, Once
    <2>2. CASE CloseHost(t) \/ CloseHostEnd(t)
        <3>0. Closing(t)
            BY <2>2 DEF CloseHost, CloseHostEnd, Closing
        <3>1. /\ Once(thosts[t]) /\ Once(tkeep[t])
              /\ top[t] = "remove" => \A i \in DOMAIN thosts[t], j \in DOMAIN tkeep[t] : thosts[t][i] # tkeep[t][j]
            BY <3>0 DEF ListedOnce
        <3>2. thosts[t] \in Seq(Hosts) /\ thosts[t] # <<>> /\ tkeep[t] \in Seq(Hosts)
            BY <1>t, <2>2 DEF CloseHost, CloseHostEnd, CallsKnown, CallKnown
        <3> DEFINE h == Head(thosts[t])
        <3>3. \/ thosts'[t] = thosts[t] /\ tkeep'[t] = tkeep[t]
              \/ thosts'[t] = Tail(thosts[t]) /\ tkeep'[t] = tkeep[t]
              \/ thosts'[t] = Tail(thosts[t]) /\ tkeep'[t] = Append(tkeep[t], h) /\ top[t] = "remove"
            BY <1>t, <2>2 DEF CloseHost, CloseHostEnd
        <3>4. /\ h \in Hosts /\ 1 \in DOMAIN thosts[t] /\ h = thosts[t][1]
              /\ \A i \in DOMAIN Tail(thosts[t]) :
                    i \in Nat \ {0} /\ i + 1 \in DOMAIN thosts[t] /\ Tail(thosts[t])[i] = thosts[t][i + 1]
            BY <3>2, TakeHost
        <3>5. Once(Tail(thosts[t])) /\ \A i \in DOMAIN Tail(thosts[t]) : Tail(thosts[t])[i] # h
            BY <3>1, <3>4 DEF Once
        <3>6. CASE thosts'[t] = thosts[t] /\ tkeep'[t] = tkeep[t]
            BY <3>1, <3>6
        <3>7. CASE thosts'[t] = Tail(thosts[t]) /\ tkeep'[t] = tkeep[t]
            BY <3>1, <3>4, <3>5, <3>7
        <3>8. CASE thosts'[t] = Tail(thosts[t]) /\ tkeep'[t] = Append(tkeep[t], h) /\ top[t] = "remove"
            <4>1. \A i \in DOMAIN Append(tkeep[t], h) :
                      \/ i \in DOMAIN tkeep[t] /\ Append(tkeep[t], h)[i] = tkeep[t][i]
                      \/ i = Len(tkeep[t]) + 1 /\ Append(tkeep[t], h)[i] = h
                BY <3>2, <3>4, PutHost
            <4>2. \A j \in DOMAIN tkeep[t] : tkeep[t][j] # h
                BY <3>1, <3>4, <3>8
            <4>3. Once(Append(tkeep[t], h))
                BY <3>1, <4>1, <4>2 DEF Once
            <4> HIDE DEF h
            <4> QED BY <3>1, <3>4, <3>5, <3>8, <4>1, <4>3
        <3> QED BY <3>3, <3>6, <3>7, <3>8
    <2> QED BY <2>1, <2>2
<1>4. \A u \in Threads \ {t} : Closing(u)' => Closing(u)
    BY <1>2 DEF Closing
<1> QED BY <1>1, <1>2, <1>3, <1>4 DEF ListedOnce

-----------------------------------------------------------------------------
(***************************************************************************)
(* Every step of the engine keeps the order.                               *)
(***************************************************************************)
Counts == \A h \in Hosts : CountInv(h)

LEMMA GrownSame == accepted' = accepted => Grown
BY DEF Grown

LEMMA PipesKept ==
    ASSUME TypeInv, EngineInv, Counts, OrderInv, [LogrNext]_vars, Grown, ~LogSend(readLoop)
    PROVE  \A h \in Hosts : Kept(h)
<1>1. [HostNext]_hostVars
    BY HostsRefined
<1>2. \A h \in Hosts : Ordered(h)
    BY DEF OrderInv, FanoutOrder
<1> QED BY <1>1, <1>2, PipeStep DEF Counts

\* A step that leaves the call of host.Log alone sends nothing.
LEMMA NoSend ==
    ASSUME TypeInv, fpc' = fpc \/ fpc[readLoop] \notin {"send", "blocked"}
    PROVE  ~LogSend(readLoop)
BY SendMoves

LEMMA FedHost == TypeInv => (fpc[readLoop] # "idle" => fhost[readLoop] \in Hosts)
<1> SUFFICES ASSUME TypeInv, fpc[readLoop] # "idle" PROVE fhost[readLoop] \in Hosts
    OBVIOUS
<1> QED BY LogrAssumption DEF TypeInv, Calling, HostTypeOK, FeedOK, FeedPcs

\* A step of the goroutines of the application that is not about a record.
LEMMA OrderQuiet ==
    ASSUME TypeInv, EngineInv, Counts, OrderInv, [LogrNext]_vars,
           UNCHANGED <<in, taken, accepted, lpc, lrec, lidx, targetHosts, fpc, fhost, frec>>,
           ListedOnce'
    PROVE  OrderInv'
<1>1. Grown /\ ~LogSend(readLoop)
    BY GrownSame, NoSend
<1>2. \A h \in Hosts : Kept(h)
    BY <1>1, PipesKept
<1>3. PastOK /\ EngineOK
    BY DEF EngineInv
<1>4. fpc[readLoop] # "idle" => fhost[readLoop] \in Hosts
    BY FedHost
<1>5. LoopOrder' /\ FanoutOrder' /\ FeedOrder'
    BY <1>1, <1>2, <1>3, <1>4, OrderFrame
<1>6. QueueOrder'
    BY QueueFrame DEF OrderInv
<1> QED BY <1>5, <1>6 DEF OrderInv

\* The read loop leaves its record, or goes on without one.
LEMMA OrderIdle ==
    ASSUME TypeInv, EngineInv, Counts, OrderInv, [LogrNext]_vars, ~LogSend(readLoop),
           UNCHANGED <<in, taken, accepted, targetHosts>>, Walks,
           lpc' \notin {"rlock", "fanout"}, fpc'[readLoop] = "idle"
    PROVE  OrderInv'
<1>1. Grown
    BY GrownSame
<1>2. \A h \in Hosts : Kept(h)
    BY <1>1, PipesKept
<1>3. LoopOrder' /\ FanoutOrder' /\ FeedOrder'
    BY <1>1, <1>2, OrderRests DEF EngineInv
<1>4. QueueOrder' /\ ListedOnce'
    BY QueueFrame, WalkFrame DEF OrderInv
<1> QED BY <1>3, <1>4 DEF OrderInv

\* `case lgr.in <- rec' gives the record the next number.
LEMMA OrderEnqueue ==
    ASSUME TypeInv, EngineInv, Counts, OrderInv, [LogrNext]_vars, NEW t \in Threads, EnqueueSend(t)
    PROVE  OrderInv'
<1> DEFINE r == [trec[t] EXCEPT !.seq = IF trec[t].flush = 0 THEN Len(accepted) + 1 ELSE Len(accepted)]
           n == Len(accepted)
<1>t. /\ ThreadOK /\ PastOK /\ EngineOK /\ in \in Seq(QueueRec) /\ trec[t] \in QueueRec
      /\ accepted \in Seq(Levels) /\ n \in Nat /\ taken \in Nat
    BY DEF EngineInv, ThreadOK, PastOK, EngineOK
<1>0. /\ r \in QueueRec /\ r.flush = trec[t].flush /\ r.level = trec[t].level
      /\ r.flush = 0 => r.seq = n + 1 /\ r.level \in Levels
    <2>1. r.flush = 0 => r.level \in Levels
        BY <1>t DEF EnqueueSend, EngineInv, RecordsKnown, QueueRec
    <2>2. \A q \in QueueRec, m \in Nat :
             LET p == [q EXCEPT !.seq = m] IN p \in QueueRec /\ p.flush = q.flush /\ p.level = q.level /\ p.seq = m
        BY DEF QueueRec
    <2>3. (IF trec[t].flush = 0 THEN Len(accepted) + 1 ELSE Len(accepted)) \in Nat
        BY <1>t
    <2>4. /\ r \in QueueRec /\ r.flush = trec[t].flush /\ r.level = trec[t].level
          /\ r.seq = IF trec[t].flush = 0 THEN Len(accepted) + 1 ELSE Len(accepted)
        BY <1>t, <2>2, <2>3, Zenon
    <2> HIDE DEF r
    <2> QED BY <1>t, <2>1, <2>4
<1>1. /\ in' = Append(in, r)
      /\ UNCHANGED <<hostVars, taken, lpc, lrec, lidx, targetHosts, tset, thosts, tkeep>> /\ EnqueueReturns(t)
    BY DEF EnqueueSend, loopVars
<1>2. accepted' = IF r.flush = 0 THEN Append(accepted, r.level) ELSE accepted
    BY <1>0 DEF EnqueueSend
<1> HIDE DEF r
<1>3. /\ n <= Len(accepted') /\ \A i \in 1 .. n : accepted'[i] = accepted[i]
      /\ r.flush = 0 => Len(accepted') = n + 1 /\ accepted'[n + 1] = r.level
      /\ Len(accepted') \in Nat
    BY <1>t, <1>0, <1>2
<1>4. Grown
    BY <1>t, <1>3 DEF Grown, Genuine
<1>5. r.flush = 0 => Genuine(r, accepted')
    BY <1>t, <1>0, <1>3 DEF Genuine
<1>6. ~LogSend(readLoop) /\ UNCHANGED <<fpc, fhost, frec>>
    BY <1>1, NoSend DEF hostVars, feedVars
<1>7. \A h \in Hosts : Kept(h)
    BY <1>4, <1>6, PipesKept
<1>8. LoopOrder' /\ FanoutOrder' /\ FeedOrder'
    BY <1>t, <1>1, <1>4, <1>6, <1>7, FedHost, OrderFrame
<1>9. QueueOrder'
    <2>1. \A i \in DOMAIN in' : (i \in DOMAIN in /\ in'[i] = in[i]) \/ (i = Len(in) + 1 /\ in'[i] = r)
        BY <1>t, <1>0, <1>1, PutRecord
    <2>2. \A i \in DOMAIN in : i \in Nat /\ i <= Len(in)
        BY <1>t
    <2>3. Len(in) \in Nat
        BY <1>t
    <2>4. \A i \in DOMAIN in : in[i].flush = 0 => in[i].seq \in Nat /\ in[i].seq <= n
        BY <1>t DEF OrderInv, QueueOrder, Genuine
    <2>5. taken' <= Len(accepted')
        BY <1>t, <1>1, <1>3 DEF OrderInv, QueueOrder
    <2>6. \A i \in DOMAIN in' : in'[i].flush = 0 => Genuine(in'[i], accepted') /\ taken' < in'[i].seq
        <3>1. ASSUME NEW i \in DOMAIN in', in'[i].flush = 0, in'[i] = r PROVE Genuine(in'[i], accepted') /\ taken' < in'[i].seq
            BY <1>t, <1>0, <1>1, <1>5, <3>1 DEF OrderInv, QueueOrder
        <3>2. ASSUME NEW i \in DOMAIN in, in[i].flush = 0 PROVE Genuine(in[i], accepted') /\ taken' < in[i].seq
            BY <1>1, <1>4, <3>2 DEF OrderInv, QueueOrder, Grown
        <3> QED BY <2>1, <3>1, <3>2
    <2>7. \A i, j \in DOMAIN in' :
             i < j /\ in'[i].flush = 0 /\ in'[j].flush = 0 => in'[i].seq < in'[j].seq
        BY <1>t, <1>0, <2>1, <2>2, <2>3, <2>4 DEF OrderInv, QueueOrder
    <2> QED BY <2>5, <2>6, <2>7 DEF QueueOrder
<1>10. Walks
    <2>1. Keeps(t) /\ tpc'[t] \in {"idle", "await"}
        BY <1>t, <1>1, EnqueueEffect
    <2> QED BY <2>1, WalkOthers DEF Keeps, Closing
<1>11. ListedOnce'
    BY <1>1, <1>10, WalkFrame DEF OrderInv
<1> QED BY <1>8, <1>9, <1>11 DEF OrderInv

\* A step of the read loop leaves the calls of the API alone.
LEMMA WalksAlone == UNCHANGED threadVars => Walks
BY DEF Walks, Closing, threadVars

\* The read loop takes the next record: it is newer than what any host has.
LEMMA OrderTake ==
    ASSUME TypeInv, EngineInv, Counts, OrderInv, [LogrNext]_vars, StartRecvRec \/ DrainRec
    PROVE  OrderInv'
<1> DEFINE r == Head(in)
<1>t. in \in Seq(QueueRec) /\ taken \in Nat
    BY DEF EngineInv, EngineOK, PastOK
<1>1. /\ lpc \in {"select", "drain"} /\ in # <<>> /\ in' = Tail(in)
      /\ UNCHANGED <<hostVars, targetHosts, threadVars, accepted>>
      /\ \/ r.flush # 0 /\ taken' = taken /\ lpc' \notin {"rlock", "fanout"}
         \/ r.flush = 0 /\ taken' = r.seq /\ lpc' = "rlock" /\ lrec' = r
    BY DEF StartRecvRec, DrainRec
<1>2. /\ r \in QueueRec /\ 1 \in DOMAIN in /\ r = in[1]
      /\ \A i \in DOMAIN in' : i \in Nat \ {0} /\ i + 1 \in DOMAIN in /\ in'[i] = in[i + 1]
    BY <1>t, <1>1, TakeRecord
<1> HIDE DEF r
<1>3. fpc[readLoop] = "idle" /\ UNCHANGED <<fpc, fhost, frec>>
    BY <1>1 DEF EngineInv, LoopKnown, hostVars, feedVars
<1>4. Grown /\ ~LogSend(readLoop)
    BY <1>1, <1>3, GrownSame, NoSend
<1>5. \A h \in Hosts : Kept(h)
    BY <1>4, PipesKept
<1>6. r.flush = 0 => Genuine(r, accepted) /\ taken < r.seq /\ r.seq \in Nat
    BY <1>2 DEF OrderInv, QueueOrder, Genuine
<1>7. QueueOrder'
    <2>1. taken' <= Len(accepted')
        BY <1>1, <1>6 DEF OrderInv, QueueOrder, Genuine
    <2>2. \A i \in DOMAIN in' : in'[i].flush = 0 =>
              Genuine(in'[i], accepted') /\ taken < in'[i].seq /\ (r.flush = 0 => r.seq < in'[i].seq)
        BY <1>1, <1>2 DEF OrderInv, QueueOrder
    <2>3. \A i, j \in DOMAIN in' :
             i < j /\ in'[i].flush = 0 /\ in'[j].flush = 0 => in'[i].seq < in'[j].seq
        BY <1>2 DEF OrderInv, QueueOrder
    <2> QED BY <1>1, <2>1, <2>2, <2>3 DEF QueueOrder
<1>8. ListedOnce'
    BY <1>1, WalksAlone, WalkFrame DEF OrderInv
<1>9. LoopOrder' /\ FanoutOrder' /\ FeedOrder'
    <2>1. CASE r.flush # 0
        BY <1>1, <1>3, <1>4, <1>5, <2>1, OrderRests DEF EngineInv
    <2>2. CASE r.flush = 0
        <3>1. taken' = r.seq /\ lpc' = "rlock" /\ lrec' = r
            BY <1>1, <2>2
        <3>2. LoopOrder' /\ FeedOrder'
            BY <1>1, <1>3, <1>6, <2>2, <3>1 DEF LoopOrder, FeedOrder
        <3>3. PICK m \in Nat : m = r.seq
            BY <1>6, <2>2
        <3>4. taken + 1 \in Nat /\ taken + 1 <= m /\ m <= m + 1 /\ m + 1 \in Nat
            BY <1>t, <1>6, <2>2, <3>3
        <3>5. \A h \in Hosts : Below(h, m)' /\ Below(h, m + 1)' /\ Ordered(h)'
            <4> SUFFICES ASSUME NEW h \in Hosts PROVE Below(h, m)' /\ Below(h, m + 1)' /\ Ordered(h)'
                OBVIOUS
            <4>1. Below(h, taken + 1)
                BY DEF OrderInv, FanoutOrder
            <4>2. Below(h, m) /\ Below(h, m + 1)
                BY <3>4, <4>1, BelowMore
            <4> QED BY <1>5, <3>4, <4>2 DEF Kept
        <3>6. taken' = m
            BY <3>1, <3>3
        <3>7. FanoutOrder'
            BY <3>1, <3>5, <3>6 DEF FanoutOrder
        <3> QED BY <3>2, <3>7
    <2> QED BY <2>1, <2>2
<1> QED BY <1>7, <1>8, <1>9 DEF OrderInv

\* fanout starts with the first host of the list.
LEMMA OrderFanoutBegins ==
    ASSUME TypeInv, EngineInv, Counts, OrderInv, [LogrNext]_vars, FanoutRLock
    PROVE  OrderInv'
<1>t. targetHosts \in Seq(Hosts) /\ taken \in Nat
    BY DEF EngineInv, EngineOK, PastOK
<1>1. /\ lpc = "rlock" /\ lpc' = "fanout" /\ lidx' = 1
      /\ UNCHANGED <<hostVars, in, targetHosts, lrec, threadVars, accepted, taken>>
    BY DEF FanoutRLock, pastVars
<1>2. fpc[readLoop] = "idle" /\ UNCHANGED <<fpc, fhost, frec>>
    BY <1>1 DEF EngineInv, LoopKnown, hostVars, feedVars
<1>3. Grown /\ ~LogSend(readLoop)
    BY <1>1, <1>2, GrownSame, NoSend
<1>4. \A h \in Hosts : Kept(h)
    BY <1>3, PipesKept
<1>5. QueueOrder' /\ ListedOnce'
    BY <1>1, WalksAlone, WalkFrame, QueueFrame DEF OrderInv
<1>6. LoopOrder' /\ FeedOrder'
    BY <1>1, <1>2, <1>3 DEF OrderInv, LoopOrder, FeedOrder, Grown
<1>7. FanoutOrder'
    BY <1>t, <1>1, <1>4 DEF OrderInv, FanoutOrder, Kept
<1> QED BY <1>5, <1>6, <1>7 DEF OrderInv

\* fanout gets to the next host, which is not in the list again.
LEMMA OrderFanoutHost ==
    ASSUME TypeInv, EngineInv, Counts, OrderInv, [LogrNext]_vars, FanoutHost
    PROVE  OrderInv'
<1> DEFINE h == targetHosts[lidx]
           rec == [seq |-> lrec.seq, level |-> lrec.level, flush |-> nil]
<1>t. targetHosts \in Seq(Hosts) /\ taken \in Nat /\ lidx \in Nat /\ lidx >= 1 /\ fpc \in [{readLoop} -> FeedPcs]
      /\ fhost \in [{readLoop} -> Hosts \cup {nil}] /\ frec \in [{readLoop} -> LogRec]
    BY LogrAssumption DEF EngineInv, EngineOK, PastOK, LoopOK, LoopKnown, TypeInv, HostTypeOK, FeedOK
<1>1. /\ lpc = "fanout" /\ lpc' = "fanout" /\ lidx' = lidx + 1 /\ lidx <= Len(targetHosts)
      /\ UNCHANGED <<in, targetHosts, lrec, threadVars, accepted, taken>>
      /\ fpc[readLoop] = "idle"
    BY DEF FanoutHost, engineVars, pastVars
<1>2. fpc'[readLoop] = "idle" \/ (fpc'[readLoop] = "send" /\ fhost'[readLoop] = h /\ frec'[readLoop] = rec)
    BY <1>t DEF FanoutHost, LogRefused, LogEnter, LogReturns, hostVars, feedVars
<1>3. Grown /\ ~LogSend(readLoop)
    BY <1>1, GrownSame, NoSend
<1>4. \A x \in Hosts : Kept(x)
    BY <1>3, PipesKept
<1>5. QueueOrder' /\ ListedOnce'
    BY <1>1, WalksAlone, WalkFrame, QueueFrame DEF OrderInv
<1>6. LoopOrder'
    BY <1>1, <1>3 DEF OrderInv, LoopOrder, Grown
<1>7. FanoutOrder'
    <2>1. \A i \in DOMAIN targetHosts : lidx + 1 <= i => lidx <= i /\ targetHosts[i] \in Hosts
        BY <1>t
    <2> QED BY <1>t, <1>1, <1>4, <2>1 DEF OrderInv, FanoutOrder, Kept
<1>8. FeedOrder'
    <2>1. lidx \in DOMAIN targetHosts /\ lidx' - 1 = lidx /\ h \in Hosts
        BY <1>t, <1>1
    <2>0. PICK g \in Hosts : g = h
        BY <2>1
    <2>2. Below(g, taken)
        BY <1>t, <1>1, <2>0, <2>1 DEF OrderInv, FanoutOrder
    <2>3. Below(g, taken)'
        BY <1>t, <1>1, <1>4, <2>2 DEF Kept
    <2>4. Genuine(lrec, accepted') /\ lrec.seq = taken
        BY <1>1, <1>3 DEF OrderInv, LoopOrder, Grown
    <2>5. Genuine(rec, accepted') /\ rec.seq = taken
        BY <2>4 DEF Genuine
    <2> HIDE DEF rec, h
    <2>6. fpc'[readLoop] = "send" => Below(fhost[readLoop], taken)'
        BY <1>2, <2>0, <2>3
    <2>7. fpc'[readLoop] # "idle" => lidx' - 1 \in DOMAIN targetHosts' /\ fhost'[readLoop] = targetHosts'[lidx' - 1]
        BY <1>1, <1>2, <2>1 DEF h
    <2> QED BY <1>1, <1>2, <2>5, <2>6, <2>7 DEF FeedOrder
<1> QED BY <1>5, <1>6, <1>7, <1>8 DEF OrderInv

\* flush gets to the next host with a flush record, which has no number.
LEMMA OrderFlushHost ==
    ASSUME TypeInv, EngineInv, Counts, OrderInv, [LogrNext]_vars, FlushHost
    PROVE  OrderInv'
<1> DEFINE h == targetHosts[lidx]
           rec == FlushLogRec(readLoop)
<1>t. /\ targetHosts \in Seq(Hosts) /\ taken \in Nat /\ lidx \in Nat /\ lidx >= 1 /\ fpc \in [{readLoop} -> FeedPcs]
      /\ fhost \in [{readLoop} -> Hosts \cup {nil}] /\ frec \in [{readLoop} -> LogRec]
    BY LogrAssumption DEF EngineInv, EngineOK, PastOK, LoopOK, LoopKnown, TypeInv, HostTypeOK, FeedOK
<1>0. rec.flush # nil
    BY HostAssumption, LogrAssumption DEF FlushLogRec
<1>1. /\ lpc = "flush" /\ lpc' = "flush" /\ lidx' = lidx + 1 /\ lidx <= Len(targetHosts)
      /\ UNCHANGED <<in, targetHosts, lrec, threadVars, accepted, taken>>
      /\ fpc[readLoop] = "idle"
    BY DEF FlushHost, engineVars, pastVars
<1>2. /\ fhost'[readLoop] = h
      /\ fpc'[readLoop] = "await" \/ (fpc'[readLoop] = "send" /\ frec'[readLoop] = rec)
    BY <1>t, <1>0 DEF FlushHost, LogRefused, LogEnter, LogReturns
<1>3. Grown /\ ~LogSend(readLoop)
    BY <1>1, GrownSame, NoSend
<1>4. \A x \in Hosts : Kept(x)
    BY <1>3, PipesKept
<1>5. QueueOrder' /\ ListedOnce'
    BY <1>1, WalksAlone, WalkFrame, QueueFrame DEF OrderInv
<1>6. LoopOrder'
    BY <1>1 DEF LoopOrder
<1>7. FanoutOrder'
    BY <1>t, <1>1, <1>4 DEF OrderInv, FanoutOrder, Kept
<1>8. FeedOrder'
    <2>1. lidx \in DOMAIN targetHosts /\ lidx' - 1 = lidx
        BY <1>t, <1>1
    <2> HIDE DEF rec
    <2> QED BY <1>0, <1>1, <1>2, <2>1 DEF FeedOrder
<1> QED BY <1>5, <1>6, <1>7, <1>8 DEF OrderInv

\* host.Log goes on: only a send changes what the host has, and the host is not
\* one of those that fanout still has to get to.
LEMMA OrderLogStep ==
    ASSUME TypeInv, EngineInv, Counts, OrderInv, [LogrNext]_vars, LoopLogStep
    PROVE  OrderInv'
<1> DEFINE r == frec[readLoop]
<1>t. /\ targetHosts \in Seq(Hosts) /\ taken \in Nat /\ lidx \in Nat /\ fpc \in [{readLoop} -> FeedPcs]
      /\ fhost \in [{readLoop} -> Hosts \cup {nil}] /\ frec \in [{readLoop} -> LogRec]
    BY LogrAssumption DEF EngineInv, EngineOK, PastOK, LoopOK, TypeInv, HostTypeOK, FeedOK
<1>1. UNCHANGED <<in, targetHosts, lpc, lrec, lidx, threadVars, accepted, taken>>
    BY DEF LoopLogStep, engineVars, loopVars, pastVars
<1>2. /\ fpc[readLoop] \in {"send", "blocked"}
      /\ fpc'[readLoop] # "idle" => fhost'[readLoop] = fhost[readLoop]
      /\ fpc'[readLoop] \in {"send", "blocked"} => frec'[readLoop] = frec[readLoop]
    BY <1>t DEF LoopLogStep, LogSend, LogDrop, LogBlock, LogTimeout, LogReturns
<1>3. Grown
    BY <1>1, GrownSame
<1>4. QueueOrder' /\ ListedOnce'
    BY <1>1, WalksAlone, WalkFrame, QueueFrame DEF OrderInv
<1>5. PastOK /\ EngineOK /\ fhost[readLoop] \in Hosts
    BY <1>2, FedHost DEF EngineInv
<1>6. CASE ~LogSend(readLoop)
    <2>1. \A h \in Hosts : Kept(h)
        BY <1>3, <1>6, PipesKept
    <2>2. LoopOrder' /\ FanoutOrder' /\ FeedOrder'
        BY <1>1, <1>2, <1>3, <1>5, <2>1, OrderFrame
    <2> QED BY <1>4, <2>2 DEF OrderInv
<1>7. CASE LogSend(readLoop)
    <2>1. fpc'[readLoop] \in {"idle", "await"}
        BY <1>7, SendMoves
    <2>2. lpc \in {"fanout", "flush"}
        BY <1>2 DEF EngineInv, LoopKnown
    <2>3. IF r.flush = nil
            THEN lpc = "fanout" /\ Genuine(r, accepted) /\ r.seq = taken /\ Below(fhost[readLoop], taken)
            ELSE r.seq = 0
        <3>1. r.flush # nil => r.seq = 0
            <4>1. r \in RecordsOf(readLoop)
                BY <1>2, LogrAssumption DEF TypeInv, Calling
            <4> QED BY <4>1 DEF RecordsOf, FlushLogRec
        <3>2. r.flush = nil => lpc = "fanout" /\ Genuine(r, accepted) /\ r.seq = taken /\ Below(fhost[readLoop], taken)
            BY <1>2 DEF OrderInv, FeedOrder
        <3> QED BY <3>1, <3>2
    <2>4. \A h \in Hosts : Ordered(h) /\ Below(h, taken + 1)
        BY DEF OrderInv, FanoutOrder
    <2>5. r.seq < taken + 1
        BY <1>t, <2>3
    <2>6. \A h \in Hosts : /\ Ordered(h)'
                           /\ \A n \in Nat \ {0} : Below(h, n) /\ (h = fhost[readLoop] => r.seq < n) => Below(h, n)'
        <3> SUFFICES ASSUME NEW h \in Hosts
                     PROVE  /\ Ordered(h)'
                            /\ \A n \in Nat \ {0} : Below(h, n) /\ (h = fhost[readLoop] => r.seq < n) => Below(h, n)'
            OBVIOUS
        <3> HIDE DEF Genuine, Below, Ordered
        <3>1. h = fhost[readLoop] /\ frec[readLoop].flush = nil
                 => Genuine(frec[readLoop], accepted) /\ Below(h, frec[readLoop].seq)
            BY <2>3
        <3> QED BY <1>3, <1>7, <2>4, <3>1, SendStep
    <2>7. \A h \in Hosts : Ordered(h)' /\ Below(h, taken + 1)'
        <3>1. PICK m \in Nat \ {0} : m = taken + 1
            BY <1>t
        <3>2. \A h \in Hosts : Ordered(h)' /\ Below(h, m)'
            BY <2>4, <2>5, <2>6, <3>1
        <3> QED BY <1>1, <3>1, <3>2
    <2>8. lpc = "fanout" => \A i \in DOMAIN targetHosts : lidx <= i => Below(targetHosts[i], taken)'
        <3> SUFFICES ASSUME lpc = "fanout", NEW i \in DOMAIN targetHosts, lidx <= i PROVE Below(targetHosts[i], taken)'
            OBVIOUS
        <3>1. PICK g \in Hosts : g = targetHosts[i]
            BY <1>t
        <3>2. Below(g, taken)
            BY <3>1 DEF OrderInv, FanoutOrder
        <3>3. g # fhost[readLoop]
            <4>1. lidx - 1 \in DOMAIN targetHosts /\ fhost[readLoop] = targetHosts[lidx - 1]
                BY <1>2 DEF OrderInv, FeedOrder
            <4>2. i # lidx - 1
                BY <1>t
            <4> QED BY <3>1, <4>1, <4>2 DEF OrderInv, ListedOnce, Once
        <3>4. taken \in Nat \ {0}
            <4>1. Genuine(lrec, accepted) /\ lrec.seq = taken
                BY DEF OrderInv, LoopOrder
            <4> QED BY <1>t, <4>1 DEF Genuine
        <3>5. PICK m \in Nat \ {0} : m = taken
            BY <3>4
        <3>6. Below(g, m)'
            BY <2>6, <3>2, <3>3, <3>5
        <3> QED BY <1>1, <3>1, <3>5, <3>6
    <2>9. FanoutOrder'
        BY <1>1, <2>2, <2>7, <2>8 DEF FanoutOrder
    <2>10. LoopOrder'
        BY <1>1 DEF OrderInv, LoopOrder
    <2>11. FeedOrder'
        BY <1>1, <1>2, <2>1 DEF OrderInv, FeedOrder
    <2> QED BY <1>4, <2>9, <2>10, <2>11 DEF OrderInv
<1> QED BY <1>6, <1>7

\* A step of a host's goroutine.
LEMMA OrderHost ==
    ASSUME TypeInv, EngineInv, Counts, OrderInv, [LogrNext]_vars, NEW h \in Hosts, HostGoroutine(h)
    PROVE  OrderInv'
<1>t. fpc \in [{readLoop} -> FeedPcs] /\ hflush[h] \in {readLoop, nil}
    BY LogrAssumption DEF TypeInv, HostTypeOK, FeedOK, StartOK
<1>1. UNCHANGED <<in, targetHosts, lpc, lrec, lidx, threadVars, accepted, taken>>
    BY DEF HostGoroutine, engineVars, loopVars, pastVars
<1>2. UNCHANGED feedVars \/ FlushSignal(h)
    BY DEF HostGoroutine, HostLoop, StartRecv, StartQuit, StartWrite, StartPanic, FlushRecv, FlushWrite, FlushDrained
<1>3. /\ fpc'[readLoop] # "idle" => fpc[readLoop] # "idle" /\ fhost'[readLoop] = fhost[readLoop]
      /\ fpc'[readLoop] \in {"send", "blocked"}
           => fpc[readLoop] \in {"send", "blocked"} /\ frec'[readLoop] = frec[readLoop]
      /\ ~LogSend(readLoop)
    <2>1. CASE UNCHANGED feedVars
        BY <2>1, NoSend DEF feedVars
    <2>2. CASE FlushSignal(h) /\ hflush[h] = readLoop
        BY <1>t, <2>2, NoSend DEF FlushSignal
    <2>3. CASE FlushSignal(h) /\ hflush[h] = nil
        <3>1. fpc' = fpc /\ frec' = frec
            BY <1>t, <2>3, HostAssumption, LogrAssumption DEF FlushSignal
        <3>2. fhost'[readLoop] = fhost[readLoop]
            BY <1>t, <2>3, HostAssumption, LogrAssumption DEF FlushSignal, TypeInv, HostTypeOK, FeedOK
        <3> QED BY <3>1, <3>2, NoSend
    <2> QED BY <1>t, <1>2, <2>1, <2>2, <2>3
<1>4. Grown
    BY <1>1, GrownSame
<1>5. \A g \in Hosts : Kept(g)
    BY <1>3, <1>4, PipesKept
<1>6. LoopOrder' /\ FanoutOrder' /\ FeedOrder'
    BY <1>1, <1>3, <1>4, <1>5, FedHost, OrderFrame DEF EngineInv
<1>7. QueueOrder' /\ ListedOnce'
    BY <1>1, WalksAlone, WalkFrame, QueueFrame DEF OrderInv
<1> QED BY <1>6, <1>7 DEF OrderInv

\* The list changes only while the read loop is kept out by tmux.
LEMMA OrderList ==
    ASSUME TypeInv, EngineInv, Counts, OrderInv, [LogrNext]_vars,
           lpc \notin {"fanout", "flush"}, ListedOnce',
           UNCHANGED <<hostVars, in, taken, accepted, lpc, lrec>>
    PROVE  OrderInv'
<1>t. taken \in Nat /\ taken + 1 \in Nat
    BY DEF EngineInv, PastOK
<1>1. fpc[readLoop] = "idle" /\ UNCHANGED fpc
    BY DEF EngineInv, LoopKnown, hostVars, feedVars
<1>2. Grown /\ ~LogSend(readLoop)
    BY <1>1, GrownSame, NoSend
<1>3. \A h \in Hosts : Kept(h)
    BY <1>2, PipesKept
<1>4. QueueOrder'
    BY QueueFrame DEF OrderInv
<1>5. LoopOrder' /\ FeedOrder'
    BY <1>1 DEF OrderInv, LoopOrder, FeedOrder
<1>6. FanoutOrder'
    BY <1>t, <1>3 DEF OrderInv, FanoutOrder, Kept
<1> QED BY <1>4, <1>5, <1>6 DEF OrderInv

LEMMA OrderAdd ==
    ASSUME TypeInv, EngineInv, Counts, OrderInv, [LogrNext]_vars, NEW t \in Threads, AddTargetAppend(t)
    PROVE  OrderInv'
<1>1. PICK h \in Hosts : tset[t] = {h}
    BY DEF AddTargetAppend, EngineInv, CallsKnown, CallKnown, Adding
<1>2. (CHOOSE x \in tset[t] : TRUE) = h
    BY <1>1
<1>3. /\ UNCHANGED <<hostVars, in, taken, accepted, lpc, lrec>> /\ Returns(t)
      /\ LockGranted(t) /\ targetHosts' = Append(targetHosts, h) /\ Adding(t)
    BY <1>2 DEF AddTargetAppend, loopVars, Adding
<1>4. lpc \notin {"fanout", "flush"}
    BY <1>3 DEF LockGranted, EngineInv, LockOK
<1>5. ~Listed(h)
    BY <1>1, <1>3 DEF EngineInv, HostsKnown, AddedFresh
<1>6. Once(targetHosts')
    <2>1. targetHosts \in Seq(Hosts) /\ Once(targetHosts)
        BY DEF EngineInv, EngineOK, OrderInv, ListedOnce
    <2>2. \A i \in DOMAIN Append(targetHosts, h) :
              \/ i \in DOMAIN targetHosts /\ Append(targetHosts, h)[i] = targetHosts[i]
              \/ i = Len(targetHosts) + 1 /\ Append(targetHosts, h)[i] = h
        BY <2>1, PutHost
    <2>3. \A i \in DOMAIN targetHosts : targetHosts[i] # h
        BY <1>5 DEF Listed
    <2> QED BY <1>3, <2>1, <2>2, <2>3 DEF Once
<1>7. Walks
    <2>1. Keeps(t) /\ tpc'[t] = "idle"
        BY <1>3, ReturnsEffect DEF EngineInv
    <2> QED BY <2>1, WalkOthers DEF Keeps, Closing
<1>8. ListedOnce'
    BY <1>6, <1>7 DEF OrderInv, ListedOnce, Walks
<1> QED BY <1>3, <1>4, <1>8, OrderList

LEMMA OrderRemove ==
    ASSUME TypeInv, EngineInv, Counts, OrderInv, [LogrNext]_vars, NEW t \in Threads, RemoveReturn(t)
    PROVE  OrderInv'
<1>1. /\ UNCHANGED <<hostVars, in, taken, accepted, lpc, lrec>> /\ Returns(t)
      /\ targetHosts' = tkeep[t] /\ Closing(t) /\ top[t] = "remove"
    BY DEF RemoveReturn, loopVars, pastVars, Closing
<1>2. lpc \notin {"fanout", "flush"}
    <2>1. tmux.writer = t
        BY <1>1 DEF EngineInv, LockOK
    <2>2. tmux.readers = {}
        BY <2>1, LogrAssumption DEF EngineInv, LockOK
    <2> QED BY <2>2 DEF EngineInv, LockOK
<1>3. Once(targetHosts')
    BY <1>1 DEF OrderInv, ListedOnce
<1>4. Walks
    <2>1. Keeps(t) /\ tpc'[t] = "idle"
        BY <1>1, ReturnsEffect DEF EngineInv
    <2> QED BY <2>1, WalkOthers DEF Keeps, Closing
<1>5. ListedOnce'
    BY <1>3, <1>4 DEF OrderInv, ListedOnce, Walks
<1> QED BY <1>1, <1>2, <1>5, OrderList

\* The steps of the read loop that end with it idle.
LEMMA OrderLoopIdle ==
    ASSUME TypeInv, EngineInv, Counts, OrderInv, [LogrNext]_vars,
           \/ StartRecvQuit \/ FanoutReturn \/ LoopPanic \/ DrainEnd \/ FlushRLock \/ FlushHostsEnd
           \/ \E t \in Threads : SignalFlush(t)
    PROVE  OrderInv'
<1>t. fpc \in [{readLoop} -> FeedPcs]
    BY LogrAssumption DEF TypeInv, HostTypeOK, FeedOK
<1>1. ASSUME StartRecvQuit \/ FanoutReturn \/ DrainEnd \/ FlushRLock \/ FlushHostsEnd PROVE OrderInv'
    <2>1. /\ UNCHANGED <<hostVars, in, taken, accepted, targetHosts, threadVars>>
          /\ lpc \in {"select", "drain", "flushRLock"} \/ fpc[readLoop] = "idle"
          /\ lpc' \notin {"rlock", "fanout"}
        BY <1>1 DEF StartRecvQuit, FanoutReturn, AfterFanout, DrainEnd, FlushRLock, FlushHostsEnd, engineVars, pastVars
    <2>2. fpc[readLoop] = "idle"
        BY <2>1 DEF EngineInv, LoopKnown
    <2>3. fpc' = fpc
        BY <2>1 DEF hostVars, feedVars
    <2> QED BY <2>1, <2>2, <2>3, WalksAlone, NoSend, OrderIdle
<1>2. ASSUME LoopPanic PROVE OrderInv'
    <2>1. /\ UNCHANGED <<in, taken, accepted, targetHosts, threadVars>>
          /\ lpc' \notin {"rlock", "fanout"}
        BY <1>2 DEF LoopPanic, AfterFanout, pastVars
    <2>2. fpc'[readLoop] = "idle" /\ ~LogSend(readLoop)
        <3>1. CASE LogPanic(readLoop)
            <4>1. fpc'[readLoop] = "idle" /\ hin' = hin
                BY <1>t, <3>1 DEF LogPanic, chanVars
            <4>2. ASSUME LogSend(readLoop) PROVE FALSE
                <5>1. fhost[readLoop] \in Hosts /\ hin[fhost[readLoop]] \in Seq(LogRec) /\ frec[readLoop] \in LogRec
                    BY <4>2, RecordsAreLogRecs, LogrAssumption DEF LogSend, TypeInv, Calling, HostTypeOK, ChanOK
                <5>2. hin'[fhost[readLoop]] = Append(hin[fhost[readLoop]], frec[readLoop])
                    BY <4>2, <5>1 DEF LogSend, TypeInv, HostTypeOK, ChanOK
                <5>3. Len(hin'[fhost[readLoop]]) = Len(hin[fhost[readLoop]]) + 1
                    BY <5>1, <5>2
                <5>4. Len(hin[fhost[readLoop]]) \in Nat
                    BY <5>1
                <5> QED BY <4>1, <5>3, <5>4
            <4> QED BY <4>1, <4>2
        <3>2. CASE ~LogPanic(readLoop)
            BY <1>2, <3>2, NoSend DEF LoopPanic, hostVars, feedVars
        <3> QED BY <3>1, <3>2
    <2> QED BY <2>1, <2>2, WalksAlone, OrderIdle
<1>3. ASSUME NEW t \in Threads, SignalFlush(t) PROVE OrderInv'
    <2>1. /\ UNCHANGED <<hostVars, in, taken, accepted, targetHosts>>
          /\ lpc = "signal" /\ lpc' = "select" /\ FlushReturns(t)
        BY <1>3 DEF SignalFlush, pastVars
    <2>2. fpc[readLoop] = "idle" /\ fpc' = fpc
        BY <2>1 DEF EngineInv, LoopKnown, hostVars, feedVars
    <2>3. Keeps(t) /\ tpc'[t] \in {"idle", "swap"}
        BY <2>1, FlushEffect DEF EngineInv
    <2>4. Walks
        BY <2>3, WalkOthers DEF Keeps, Closing
    <2> QED BY <2>1, <2>2, <2>4, NoSend, OrderIdle
<1> QED BY <1>1, <1>2, <1>3

LEMMA OrderStep ==
    ASSUME TypeInv, EngineInv, Counts, OrderInv, [LogrNext]_vars
    PROVE  OrderInv'
<1>1. ASSUME LoopStep PROVE OrderInv'
    BY <1>1, OrderTake, OrderFanoutBegins, OrderFanoutHost, OrderFlushHost, OrderLogStep, OrderLoopIdle DEF LoopStep
<1>2. ASSUME NEW t \in Threads,
             \/ \E l \in Levels : LoggerLog(t, l)
             \/ \E op \in {"flush", "shutdown"} : FlushBegin(t, op)
             \/ \E h \in Hosts : AddTarget(t, h)
             \/ \E S \in SUBSET Hosts : RemoveTargets(t, S)
             \/ EnqueueDrop(t) \/ EnqueueBlock(t) \/ EnqueueTimeout(t) \/ FlushCheck(t) \/ FlushTimeout(t)
             \/ ShutdownSwap(t) \/ ShutdownWait(t) \/ ShutdownReturn(t) \/ LockAnnounce(t)
      PROVE  OrderInv'
    <2>1. UNCHANGED <<in, taken, accepted, lpc, lrec, lidx, targetHosts, fpc, fhost, frec>> /\ Walks
        BY <1>2, QuietCalls
    <2>2. ListedOnce'
        BY <2>1, WalkFrame DEF OrderInv
    <2> QED BY <2>1, <2>2, OrderQuiet
<1>3. ASSUME NEW t \in Threads, ShutdownRLock(t) \/ RemoveLocked(t) \/ CloseHost(t) \/ CloseHostEnd(t)
      PROVE  OrderInv'
    <2>1. UNCHANGED <<in, taken, accepted, lpc, lrec, lidx, targetHosts, fpc, fhost, frec>> /\ ListedOnce'
        BY <1>3, WalkMoves DEF OrderInv
    <2> QED BY <2>1, OrderQuiet
<1>4. ASSUME NEW t \in Threads, ThreadStep(t) PROVE OrderInv'
    BY <1>2, <1>3, <1>4, OrderEnqueue, OrderAdd, OrderRemove DEF ThreadStep
<1>5. ASSUME LogrCall PROVE OrderInv'
    BY <1>2, <1>5 DEF LogrCall, Flush, Shutdown
<1>6. ASSUME UNCHANGED vars PROVE OrderInv'
    <2>1. UNCHANGED <<in, taken, accepted, lpc, lrec, lidx, targetHosts, fpc, fhost, frec, threadVars>>
        BY <1>6 DEF vars, engineVars, loopVars, pastVars, hostVars, feedVars
    <2>2. ListedOnce'
        BY <2>1, WalksAlone, WalkFrame DEF OrderInv
    <2> QED BY <2>1, <2>2, OrderQuiet
<1> QED BY <1>1, <1>4, <1>5, <1>6, OrderHost DEF LogrNext, LogrStep

LEMMA OrderInit == LogrInit => OrderInv
<1> SUFFICES ASSUME LogrInit PROVE OrderInv
    OBVIOUS
<1>1. \A h \in Hosts : hin[h] = <<>> /\ out[h] = <<>> /\ hpc[h] \in {"select", "none"}
    BY DEF LogrInit, HostInit
<1>2. \A h \in Hosts : Ordered(h) /\ \A n : Below(h, n)
    <2>1. \A i : i \notin DOMAIN <<>>
        OBVIOUS
    <2>2. \A h \in Hosts : hpc[h] # "write"
        BY <1>1
    <2>3. \A h \in Hosts : \A i : i \notin DOMAIN hin[h] /\ i \notin DOMAIN out[h]
        BY <1>1, <2>1
    <2> QED BY <2>2, <2>3 DEF Ordered, Below
<1>3. fpc[readLoop] = "idle"
    BY LogrAssumption DEF LogrInit, HostInit
<1>4. lpc = "select" /\ in = <<>> /\ accepted = <<>> /\ taken = 0 /\ targetHosts = InitialHosts
    BY DEF LogrInit
<1>5. \A t \in Threads : ~Closing(t)
    BY DEF LogrInit, Closing
<1>6. QueueOrder /\ LoopOrder
    BY <1>4 DEF QueueOrder, LoopOrder
<1>7. FanoutOrder /\ FeedOrder
    BY <1>2, <1>3, <1>4 DEF FanoutOrder, FeedOrder
<1>8. ListedOnce
    BY <1>4, <1>5, LogrAssumption DEF ListedOnce, Once
<1> QED BY <1>6, <1>7, <1>8 DEF OrderInv

-----------------------------------------------------------------------------
(***************************************************************************)
(* The refinement.                                                         *)
(***************************************************************************)

\* out and accepted change only in a write of start and in a send of enqueue.
LEMMA OutKept ==
    ASSUME Counts, [HostNext]_hostVars, \A h \in Hosts : ~(StartWrite(h) /\ WriteRecOK(h, "select"))
    PROVE  out' = out
<1>1. \A h \in Hosts : ~FlushRecv(h) /\ ~FlushWrite(h)
    BY DEF Counts, CountInv, FlushRecv, FlushWrite
<1>2. ASSUME NEW h \in Hosts, HostLoop(h) PROVE out' = out
    BY <1>1, <1>2 DEF HostLoop, StartRecv, StartQuit, StartWrite, WriteRecErr, StartPanic, FlushDrained,
        FlushSignal, targetVars
<1>3. ASSUME NEW h \in Hosts, NewTargetHost(h) \/ ShutdownBegin(h) \/ ShutdownEnd(h) PROVE out' = out
    BY <1>3 DEF NewTargetHost, ShutdownBegin, ShutdownEnd, targetVars
<1>4. ASSUME NEW f \in Feeders, LogStep(f) \/ LogCall(f) PROVE out' = out
    BY <1>4 DEF LogStep, LogSend, LogDrop, LogBlock, LogPanic, LogTimeout, LogCall, LogRefused, LogEnter, targetVars
<1>5. CASE UNCHANGED hostVars
    BY <1>5 DEF hostVars, targetVars
<1> QED BY <1>2, <1>3, <1>4, <1>5 DEF HostNext, HostStep

LEMMA AcceptedKept ==
    ASSUME [LogrNext]_vars, \A t \in Threads : ~EnqueueSend(t)
    PROVE  accepted' = accepted
<1> USE DEF pastVars
<1>1. ASSUME LoopStep PROVE accepted' = accepted
    BY <1>1 DEF LoopStep, StartRecvRec, StartRecvQuit, FanoutRLock, FanoutHost, FanoutReturn, LoopLogStep, LoopPanic,
        DrainRec, DrainEnd, FlushRLock, FlushHost, FlushHostsEnd, SignalFlush
<1>2. ASSUME NEW t \in Threads, ThreadStep(t) PROVE accepted' = accepted
    BY <1>2 DEF ThreadStep, EnqueueDrop, EnqueueBlock, EnqueueTimeout, FlushCheck, FlushTimeout, ShutdownSwap,
        ShutdownWait, ShutdownRLock, ShutdownReturn, CloseHost, CloseHostEnd, LockAnnounce, AddTargetAppend,
        RemoveLocked, RemoveReturn
<1>3. ASSUME LogrCall PROVE accepted' = accepted
    BY <1>3 DEF LogrCall, LoggerLog, Flush, Shutdown, FlushBegin, AddTarget, RemoveTargets
<1>4. ASSUME NEW h \in Hosts, HostGoroutine(h) PROVE accepted' = accepted
    BY <1>4 DEF HostGoroutine
<1>5. CASE UNCHANGED vars
    BY <1>5 DEF vars
<1> QED BY <1>1, <1>2, <1>3, <1>4, <1>5 DEF LogrNext, LogrStep

\* A step of enqueue is an acceptance, or puts a flush record into the queue.
LEMMA EnqueueAccepts ==
    ASSUME EngineInv, NEW t \in Threads, EnqueueSend(t)
    PROVE  out' = out /\ (accepted' = accepted \/ \E l \in Levels : accepted' = Append(accepted, l))
<1>1. out' = out
    BY DEF EnqueueSend, hostVars, targetVars
<1>2. trec[t].flush = 0 => trec[t].level \in Levels
    BY DEF EnqueueSend, EngineInv, RecordsKnown
<1>3. accepted' = IF trec[t].flush = 0 THEN Append(accepted, trec[t].level) ELSE accepted
    BY DEF EnqueueSend
<1> QED BY <1>1, <1>2, <1>3

LEMMA DeliverSteps ==
    ASSUME TypeInv, EngineInv, Counts, OrderInv, [LogrNext]_vars
    PROVE  [Abstract!Next]_<<accepted, [h \in Hosts |-> Seqs(out[h])]>>
<1> DEFINE dlv == [h \in Hosts |-> Seqs(out[h])]
<1>1. CASE \E t \in Threads : EnqueueSend(t)
    <2>1. PICK t \in Threads : EnqueueSend(t)
        BY <1>1
    <2>2. out' = out /\ (accepted' = accepted \/ \E l \in Levels : accepted' = Append(accepted, l))
        BY <2>1, EnqueueAccepts
    <2>3. dlv' = dlv
        BY <2>2
    <2>4. ASSUME NEW l \in Levels, accepted' = Append(accepted, l) PROVE Abstract!Next
        BY <2>3, <2>4 DEF Abstract!Next, Abstract!Accept
    <2> QED BY <2>2, <2>3, <2>4
<1>2. CASE \A t \in Threads : ~EnqueueSend(t)
    <2>1. accepted' = accepted
        BY <1>2, AcceptedKept
    <2>2. ASSUME NEW h \in Hosts, StartWrite(h), WriteRecOK(h, "select") PROVE Abstract!Next
        <3>1. hpc[h] = "write" /\ hrec[h].level \in Filter[h] /\ out' = [out EXCEPT ![h] = Append(@, hrec[h])]
            BY <2>2 DEF StartWrite, WriteRecOK
        <3>2. Ordered(h)
            BY DEF OrderInv, FanoutOrder
        <3> QED BY <2>1, <3>1, <3>2, WriteDelivers
    <2>3. ASSUME \A h \in Hosts : ~(StartWrite(h) /\ WriteRecOK(h, "select")) PROVE out' = out
        BY <2>3, OutKept, HostsRefined
    <2>4. CASE \E h \in Hosts : StartWrite(h) /\ WriteRecOK(h, "select")
        BY <2>2, <2>4
    <2>5. CASE \A h \in Hosts : ~(StartWrite(h) /\ WriteRecOK(h, "select"))
        BY <2>1, <2>3, <2>5
    <2> QED BY <2>4, <2>5
<1> QED BY <1>1, <1>2

LEMMA CountsAlways == LogrSpec => []Counts
<1>1. HostInit => Counts
    BY CountInit DEF Counts
<1>2. TypeInv /\ FlushHandshake /\ Counts /\ [HostNext]_hostVars => Counts'
    BY CountStep DEF Counts
<1>3. HostSpec => []TypeInv
    BY TypeInit, TypeStep, PTL DEF HostSpec
<1> QED BY <1>1, <1>2, <1>3, HandshakeHolds, EngineImplementsHosts, PTL DEF HostSpec

LEMMA OrderAlways == LogrSpec => []OrderInv
<1>1. LogrInit => OrderInv
    BY OrderInit
<1>2. TypeInv /\ EngineInv /\ Counts /\ OrderInv /\ [LogrNext]_vars => OrderInv'
    BY OrderStep
<1> QED BY <1>1, <1>2, CountsAlways, EngineAlways, PTL DEF LogrSpec

\* What the whole pipeline promises holds for any number of goroutines, hosts and
\* records, any capacities and any faults: a target receives only accepted records
\* whose level its filter enables, in the order in which enqueue accepted them,
\* and each at most once.  The two queues, fanout under the read lock and the
\* single goroutine of each host keep the order; that the list never holds a host
\* twice and that TargetHost.flush runs with an empty channel keep a record from
\* being written twice (logr.go:274, 282, 429-434, 453-459,
\* 474-478, target.go:167, 179, 234-244, 285-304).
THEOREM EngineDeliversInOrder == LogrSpec => DeliverySpec
<1>1. LogrInit => Abstract!Init
    BY DeliverStarts
<1>2. TypeInv /\ EngineInv /\ Counts /\ OrderInv /\ [LogrNext]_vars
        => [Abstract!Next]_<<accepted, [h \in Hosts |-> Seqs(out[h])]>>
    BY DeliverSteps
<1> QED BY <1>1, <1>2, CountsAlways, OrderAlways, EngineAlways, PTL DEF LogrSpec, DeliverySpec, Abstract!Spec

-----------------------------------------------------------------------------
(***************************************************************************)
(* Flush.  Nothing is lost as long as no queue of a host is told to drop,  *)
(* no target fails or panics, no callback or filter panics, and nobody     *)
(* gives up waiting.                                                       *)
(***************************************************************************)
NoLoss ==
    /\ "drop" \notin OnTargetQueueFull
    /\ \A f \in {"writeError", "writePanic", "handlerPanic", "filterPanic", "targetTimeout", "ctxTimeout"} :
          f \notin Faults

\* Record number s has been written to the target of host h.
Written(h, s) == \E i \in DOMAIN out[h] : out[h][i].seq = s

\* It is written, in the hands of the host, or in its channel.
Inside(h, s) ==
    \/ Written(h, s)
    \/ hpc[h] = "write" /\ hrec[h].seq = s
    \/ \E i \in DOMAIN hin[h] : hin[h][i].flush = nil /\ hin[h][i].seq = s

\* It is to go to host h: taken from lgr.in since the host was added, and enabled.
Wanted(h, s) == s \in since[h] + 1 .. taken /\ accepted[s] \in Filter[h]

\* It is the record that the read loop has in its hands, on the way to host h.
Coming(h, s) ==
    /\ s = taken
    /\ \/ lpc = "rlock"
       \/ lpc = "fanout" /\ \E i \in DOMAIN targetHosts : lidx <= i /\ targetHosts[i] = h
       \/ fpc[readLoop] \in {"send", "blocked"} /\ frec[readLoop].flush = nil /\ fhost[readLoop] = h

\* No record is lost between the read loop and a host of the list.
Reached == \A h \in Hosts : Listed(h) => \A s : Wanted(h, s) => Inside(h, s) \/ Coming(h, s)

\* Nor in lgr.in; a flush record comes after those accepted before it.
Waiting ==
    /\ \A s \in taken + 1 .. Len(accepted) : \E i \in DOMAIN in : in[i].flush = 0 /\ in[i].seq = s
    /\ \A i \in DOMAIN in : in[i].flush # 0 => in[i].seq <= Len(accepted)
    /\ lflush.seq <= Len(accepted)
    /\ lpc \in {"flushRLock", "flush", "signal"} => lflush.seq <= taken

\* The hosts that flush has been through have written all that they were to.
Flushed ==
    /\ lpc \in {"flush", "signal"} =>
          \A i \in DOMAIN targetHosts : i < lidx /\ (fpc[readLoop] = "idle" \/ i # lidx - 1) =>
              \A s : Wanted(targetHosts[i], s) => Written(targetHosts[i], s)
    /\ lpc = "signal" => lidx > Len(targetHosts)

\* A host answers a flush with an empty channel.
SignalEmpty == \A h \in Hosts : hpc[h] = "signal" => hflush[h] # nil /\ hin[h] = <<>>

\* Only flush waits for an answer.
FlushWaits ==
    /\ fpc[readLoop] = "await" => lpc = "flush"
    /\ fpc[readLoop] \in {"send", "blocked"} /\ frec[readLoop].flush # nil => lpc = "flush"

ReachInv == Reached /\ Waiting /\ Flushed /\ SignalEmpty /\ FlushWaits /\ ~giveUp
FlushInv == TypeInv /\ FlushHandshake /\ EngineInv /\ Counts /\ OrderInv /\ ReachInv

\* What is in a host stays there until it is written.
LEMMA WrittenStays ==
    ASSUME TypeInv, Counts, [HostNext]_hostVars, NEW h \in Hosts, NEW s, Written(h, s)
    PROVE  Written(h, s)'
<1>t. out \in [Hosts -> Seq(LogRec)] /\ hrec \in [Hosts -> LogRec]
    BY DEF TypeInv, HostTypeOK, TargetOK, StartOK
<1>1. CASE \E g \in Hosts : StartWrite(g) /\ WriteRecOK(g, "select")
    <2>1. PICK g \in Hosts : out' = [out EXCEPT ![g] = Append(@, hrec[g])]
        BY <1>1 DEF WriteRecOK
    <2>2. PICK i \in DOMAIN out[h] : out[h][i].seq = s
        BY DEF Written
    <2>3. out[h] \in Seq(LogRec) /\ hrec[h] \in LogRec /\ (out'[h] = out[h] \/ out'[h] = Append(out[h], hrec[h]))
        BY <1>t, <2>1
    <2>4. i \in DOMAIN out'[h] /\ out'[h][i] = out[h][i]
        BY <2>2, <2>3
    <2> QED BY <2>2, <2>4 DEF Written
<1>2. CASE \A g \in Hosts : ~(StartWrite(g) /\ WriteRecOK(g, "select"))
    BY <1>2, OutKept DEF Written
<1> QED BY <1>1, <1>2

LEMMA InsideFrame ==
    ASSUME NEW h, NEW s, Inside(h, s), out'[h] = out[h], hpc'[h] = hpc[h], hrec'[h] = hrec[h], hin'[h] = hin[h]
    PROVE  Inside(h, s)'
BY DEF Inside, Written

LEMMA InsideStays ==
    ASSUME NoLoss, TypeInv, Counts, [HostNext]_hostVars, NEW h \in Hosts, Ordered(h), NEW s,
           accepted[s] \in Filter[h], Inside(h, s)
    PROVE  Inside(h, s)'
<1>t. /\ hin \in [Hosts -> Seq(LogRec)] /\ hpc \in [Hosts -> StartPcs]
      /\ out \in [Hosts -> Seq(LogRec)] /\ hrec \in [Hosts -> LogRec]
    BY DEF TypeInv, HostTypeOK, ChanOK, StartOK, TargetOK
<1>0. CASE Written(h, s)
    BY <1>0, WrittenStays DEF Inside
<1> SUFFICES ASSUME ~Written(h, s) PROVE Inside(h, s)'
    BY <1>0
<1>1. ASSUME NEW g \in Hosts, NewTargetHost(g) PROVE Inside(h, s)'
    BY <1>1, <1>t DEF NewTargetHost, Inside, Written, chanVars, targetVars
<1>2. ASSUME NEW g \in Hosts, StartQuit(g) \/ FlushDrained(g) \/ FlushSignal(g) PROVE Inside(h, s)'
    BY <1>2, <1>t DEF StartQuit, FlushDrained, FlushSignal, Inside, Written, chanVars, targetVars
<1>3. ASSUME NEW g \in Hosts, ShutdownBegin(g) \/ ShutdownEnd(g) PROVE Inside(h, s)'
    BY <1>3, InsideFrame DEF ShutdownBegin, ShutdownEnd, startVars, targetVars
<1>4. ASSUME NEW f \in Feeders, LogCall(f) \/ LogDrop(f) \/ LogBlock(f) \/ LogPanic(f) \/ LogTimeout(f)
      PROVE  Inside(h, s)'
    BY <1>4, InsideFrame DEF LogCall, LogRefused, LogEnter, LogDrop, LogBlock, LogPanic, LogTimeout,
        chanVars, startVars, targetVars
<1>5. ASSUME NEW f \in Feeders, LogSend(f) PROVE Inside(h, s)'
    <2>1. UNCHANGED <<hpc, hrec, out>> /\ hin' = [hin EXCEPT ![fhost[f]] = Append(@, frec[f])]
        BY <1>5 DEF LogSend, startVars, targetVars
    <2>2. frec[f] \in LogRec
        BY DEF TypeInv, HostTypeOK, FeedOK
    <2>3. hin[h] \in Seq(LogRec) /\ (hin'[h] = hin[h] \/ hin'[h] = Append(hin[h], frec[f]))
        BY <1>t, <2>1
    <2>4. \A i \in DOMAIN hin[h] : i \in DOMAIN hin'[h] /\ hin'[h][i] = hin[h][i]
        BY <2>2, <2>3
    <2> QED BY <2>1, <2>4 DEF Inside, Written
<1>6. ASSUME NEW g \in Hosts, StartRecv(g) PROVE Inside(h, s)'
    <2>1. out' = out
        BY <1>6 DEF StartRecv, targetVars
    <2>2. CASE h # g
        BY <1>6, <1>t, <2>1, <2>2, InsideFrame DEF StartRecv
    <2>3. CASE h = g
        <3>1. hin[h] \in Seq(LogRec) /\ hin[h] # <<>> /\ hin'[h] = Tail(hin[h]) /\ hpc[h] = "select"
            BY <1>6, <1>t, <2>3 DEF StartRecv
        <3>2. PICK i \in DOMAIN hin[h] : hin[h][i].flush = nil /\ hin[h][i].seq = s
            BY <3>1 DEF Inside
        <3>3. CASE i = 1
            <4>1. Head(hin[h]) = hin[h][i]
                BY <3>1, <3>3
            <4>2. hpc'[h] = "write" /\ hrec'[h] = hin[h][i]
                BY <1>6, <1>t, <2>3, <3>2, <4>1 DEF StartRecv
            <4> QED BY <3>2, <4>2 DEF Inside
        <3>4. CASE i # 1
            <4>1. i - 1 \in DOMAIN hin'[h] /\ hin'[h][i - 1] = hin[h][i]
                BY <3>1, <3>2, <3>4
            <4> QED BY <3>2, <4>1 DEF Inside
        <3> QED BY <3>3, <3>4
    <2> QED BY <2>2, <2>3
<1>7. ASSUME NEW g \in Hosts, StartWrite(g) PROVE Inside(h, s)'
    <2>1. hin' = hin /\ hpc' = [hpc EXCEPT ![g] = "select"] /\ hrec' = [hrec EXCEPT ![g] = NoRec]
        BY <1>7 DEF StartWrite, WriteRecOK, WriteRecErr, chanVars
    <2>2. CASE \E i \in DOMAIN hin[h] : hin[h][i].flush = nil /\ hin[h][i].seq = s
        BY <2>1, <2>2 DEF Inside
    <2>3. CASE hpc[h] = "write" /\ hrec[h].seq = s
        <3>1. CASE h # g
            BY <1>t, <2>1, <2>3, <3>1 DEF Inside
        <3>2. CASE h = g
            <4>1. hrec[h].level \in Filter[h]
                BY <2>3 DEF Ordered, Genuine
            <4>2. out' = [out EXCEPT ![h] = Append(@, hrec[h])]
                BY <1>7, <3>2, <4>1 DEF StartWrite, WriteRecOK, WriteRecErr, NoLoss
            <4>3. out[h] \in Seq(LogRec) /\ hrec[h] \in LogRec /\ out'[h] = Append(out[h], hrec[h])
                BY <1>t, <4>2
            <4>4. Len(out[h]) + 1 \in DOMAIN out'[h] /\ out'[h][Len(out[h]) + 1] = hrec[h]
                BY <4>3
            <4> QED BY <2>3, <4>4 DEF Inside, Written
        <3> QED BY <3>1, <3>2
    <2> QED BY <2>2, <2>3 DEF Inside
<1>8. \A g \in Hosts : ~FlushRecv(g) /\ ~FlushWrite(g) /\ ~StartPanic(g)
    BY DEF FlushRecv, FlushWrite, StartPanic, Counts, CountInv, NoLoss
<1>9. CASE UNCHANGED hostVars
    BY <1>9, InsideFrame DEF hostVars, chanVars, startVars, targetVars
<1> QED BY <1>1, <1>2, <1>3, <1>4, <1>5, <1>6, <1>7, <1>8, <1>9 DEF HostNext, HostStep, HostLoop, LogStep

\* A record that host.Log has sent is in the host.
LEMMA SentInside ==
    ASSUME TypeInv, LogSend(readLoop), NEW h \in Hosts, h = fhost[readLoop], NEW s, s = frec[readLoop].seq,
           frec[readLoop].flush = nil
    PROVE  Inside(h, s)'
<1>1. hin \in [Hosts -> Seq(LogRec)] /\ frec[readLoop] \in LogRec
    BY LogrAssumption DEF TypeInv, HostTypeOK, ChanOK, FeedOK
<1>2. hin[h] \in Seq(LogRec) /\ hin'[h] = Append(hin[h], frec[readLoop])
    BY <1>1 DEF LogSend
<1>3. Len(hin[h]) + 1 \in DOMAIN hin'[h] /\ hin'[h][Len(hin[h]) + 1] = frec[readLoop]
    BY <1>1, <1>2
<1> QED BY <1>3 DEF Inside

LEMMA SignalStep ==
    ASSUME TypeInv, FlushHandshake, Counts, SignalEmpty, [HostNext]_hostVars
    PROVE  SignalEmpty'
<1> SUFFICES ASSUME NEW h \in Hosts, hpc'[h] = "signal" PROVE hflush'[h] # nil /\ hin'[h] = <<>>
    BY DEF SignalEmpty
<1>t. /\ hin \in [Hosts -> Seq(LogRec)] /\ hpc \in [Hosts -> StartPcs]
      /\ hflush \in [Hosts -> Feeders \cup {nil}]
    BY DEF TypeInv, HostTypeOK, ChanOK, StartOK
<1>0. hpc[h] = "signal" => hflush[h] # nil /\ hin[h] = <<>>
    BY DEF SignalEmpty
<1>1. ASSUME NEW g \in Hosts, NewTargetHost(g) \/ StartQuit(g) \/ StartPanic(g) \/ FlushSignal(g)
      PROVE  hflush'[h] # nil /\ hin'[h] = <<>>
    BY <1>0, <1>1, <1>t DEF NewTargetHost, StartQuit, StartPanic, FlushSignal, chanVars
<1>2. ASSUME NEW g \in Hosts, ShutdownBegin(g) \/ ShutdownEnd(g) PROVE hflush'[h] # nil /\ hin'[h] = <<>>
    BY <1>0, <1>2 DEF ShutdownBegin, ShutdownEnd, startVars
<1>3. ASSUME NEW f \in Feeders, LogCall(f) \/ LogDrop(f) \/ LogBlock(f) \/ LogPanic(f) \/ LogTimeout(f)
      PROVE  hflush'[h] # nil /\ hin'[h] = <<>>
    BY <1>0, <1>3 DEF LogCall, LogRefused, LogEnter, LogDrop, LogBlock, LogPanic, LogTimeout, chanVars, startVars
<1>4. ASSUME NEW f \in Feeders, LogSend(f) PROVE hflush'[h] # nil /\ hin'[h] = <<>>
    <2>1. UNCHANGED <<hpc, hflush>> /\ hin' = [hin EXCEPT ![fhost[f]] = Append(@, frec[f])]
          /\ fpc[f] \in {"send", "blocked"}
        BY <1>4 DEF LogSend, startVars
    <2>2. Handshake(h, f) /\ \A e \in Feeders : e = f
        BY HandshakeDef, LogrAssumption
    <2>3. hflush[h] = f
        BY <1>t, <1>0, <2>1, <2>2
    <2>4. FALSE
        BY <2>1, <2>2, <2>3 DEF Handshake, Flushing, Waits
    <2> QED BY <2>4
<1>5. ASSUME NEW g \in Hosts, StartRecv(g) \/ StartWrite(g) PROVE hflush'[h] # nil /\ hin'[h] = <<>>
    <2>1. h # g
        BY <1>5, <1>t DEF StartRecv, StartWrite, WriteRecOK, WriteRecErr
    <2> QED BY <1>5, <1>t, <1>0, <2>1 DEF StartRecv, StartWrite, WriteRecOK, WriteRecErr, chanVars
<1>6. ASSUME NEW g \in Hosts, FlushDrained(g) PROVE hflush'[h] # nil /\ hin'[h] = <<>>
    BY <1>6, <1>t, <1>0 DEF FlushDrained, Counts, CountInv, chanVars
<1>7. \A g \in Hosts : ~FlushRecv(g) /\ ~FlushWrite(g)
    BY DEF FlushRecv, FlushWrite, Counts, CountInv
<1>8. CASE UNCHANGED hostVars
    BY <1>8, <1>0 DEF hostVars, chanVars, startVars
<1> QED BY <1>1, <1>2, <1>3, <1>4, <1>5, <1>6, <1>7, <1>8 DEF HostNext, HostStep, HostLoop, LogStep

\* A step that takes no record from the queue and adds no host.
Stays == taken' = taken /\ since' = since /\ \A i \in 1 .. taken : accepted'[i] = accepted[i]

LEMMA WantedStays ==
    ASSUME EngineInv, Stays, NEW h \in Hosts, NEW s, Wanted(h, s)'
    PROVE  Wanted(h, s)
<1>1. since[h] \in Nat /\ taken \in Nat
    BY DEF EngineInv, PastOK
<1> QED BY <1>1 DEF Stays, Wanted

\* Nothing is lost in a host; it remains to see that nothing is lost on the way.
LEMMA ReachedStep ==
    ASSUME NoLoss, FlushInv, [LogrNext]_vars, Stays, \A h \in Hosts : Listed(h)' => Listed(h),
           \A h \in Hosts : \A s : Listed(h) /\ Wanted(h, s) /\ Coming(h, s) => Coming(h, s)' \/ Inside(h, s)'
    PROVE  Reached'
<1> USE DEF FlushInv
<1>1. [HostNext]_hostVars
    BY HostsRefined
<1> SUFFICES ASSUME NEW h \in Hosts, Listed(h), NEW s, Wanted(h, s)' PROVE Inside(h, s)' \/ Coming(h, s)'
    BY DEF Reached
<1>2. Wanted(h, s)
    BY WantedStays
<1>3. Inside(h, s) \/ Coming(h, s)
    BY <1>2 DEF ReachInv, Reached
<1>4. CASE Inside(h, s)
    <2>1. Ordered(h) /\ accepted[s] \in Filter[h]
        BY <1>2 DEF OrderInv, FanoutOrder, Wanted
    <2> QED BY <1>1, <1>4, <2>1, InsideStays
<1> QED BY <1>2, <1>3, <1>4

LEMMA FlushedStep ==
    ASSUME FlushInv, [LogrNext]_vars, Stays, targetHosts' = targetHosts,
           lpc' \in {"flush", "signal"} => lpc \in {"flush", "signal"},
           lpc' = "signal" => lidx' > Len(targetHosts),
           \A i \in DOMAIN targetHosts : i < lidx' /\ (fpc'[readLoop] = "idle" \/ i # lidx' - 1)
               => \/ i < lidx /\ (fpc[readLoop] = "idle" \/ i # lidx - 1)
                  \/ lpc \in {"flush", "signal"} => \A s : Wanted(targetHosts[i], s) => Written(targetHosts[i], s)
    PROVE  Flushed'
<1> USE DEF FlushInv
<1>1. [HostNext]_hostVars
    BY HostsRefined
<1> SUFFICES ASSUME lpc' \in {"flush", "signal"}, NEW i \in DOMAIN targetHosts,
                    i < lidx' /\ (fpc'[readLoop] = "idle" \/ i # lidx' - 1),
                    NEW s, Wanted(targetHosts[i], s)'
             PROVE  Written(targetHosts[i], s)'
    BY DEF Flushed
<1>2. PICK h \in Hosts : h = targetHosts[i]
    BY DEF EngineInv, EngineOK
<1>3. Wanted(h, s)
    BY <1>2, WantedStays
<1>4. Written(h, s)
    BY <1>2, <1>3 DEF ReachInv, Flushed
<1> QED BY <1>1, <1>2, <1>4, WrittenStays

\* A step that leaves the read loop, its queue and the list alone.
LEMMA ReachQuiet ==
    ASSUME NoLoss, FlushInv, [LogrNext]_vars,
           UNCHANGED <<in, taken, accepted, since, lpc, lidx, lflush, targetHosts, fpc, fhost, frec, giveUp>>
    PROVE  ReachInv'
<1> USE DEF FlushInv
<1>1. Stays
    BY DEF Stays
<1>2. Reached'
    BY <1>1, ReachedStep DEF Listed, Coming
<1>3. Flushed'
    BY <1>1, FlushedStep DEF ReachInv, Flushed
<1>4. SignalEmpty'
    BY HostsRefined, SignalStep DEF ReachInv
<1>5. Waiting' /\ FlushWaits' /\ ~giveUp'
    BY DEF ReachInv, Waiting, FlushWaits
<1> QED BY <1>2, <1>3, <1>4, <1>5 DEF ReachInv

\* A call of the API that adds no host leaves the numbers of the records alone.
LEMMA CallsApart ==
    ASSUME NoLoss, NEW t \in Threads, ThreadStep(t) \/ LogrCall, ~AddTargetAppend(t)
    PROVE  UNCHANGED <<lpc, lidx, lflush, since, giveUp, taken>>
<1> USE DEF loopVars, pastVars
<1>1. CASE ThreadStep(t)
    BY <1>1 DEF ThreadStep, EnqueueSend, EnqueueDrop, EnqueueBlock, EnqueueTimeout, FlushCheck, FlushTimeout, ShutdownSwap,
        ShutdownWait, ShutdownRLock, ShutdownReturn, CloseHost, CloseHostEnd, LockAnnounce,
        RemoveLocked, RemoveReturn, NoLoss
<1>2. CASE LogrCall
    BY <1>2 DEF LogrCall, LoggerLog, Flush, Shutdown, FlushBegin, AddTarget, RemoveTargets
<1> QED BY <1>1, <1>2

\* enqueue: the record waits in the queue.
LEMMA ReachEnqueue ==
    ASSUME NoLoss, FlushInv, [LogrNext]_vars, NEW t \in Threads, EnqueueSend(t)
    PROVE  ReachInv'
<1> USE DEF FlushInv
<1> DEFINE r == [trec[t] EXCEPT !.seq = IF trec[t].flush = 0 THEN Len(accepted) + 1 ELSE Len(accepted)]
           n == Len(accepted)
<1>t. /\ in \in Seq(QueueRec) /\ trec[t] \in QueueRec /\ lflush \in QueueRec
      /\ accepted \in Seq(Levels) /\ n \in Nat /\ taken \in Nat /\ taken <= n
    BY DEF EngineInv, ThreadOK, PastOK, EngineOK, LoopOK, OrderInv, QueueOrder
<1>0. r \in QueueRec /\ r.flush = trec[t].flush /\ r.seq = IF r.flush = 0 THEN n + 1 ELSE n
    <2>1. \A q \in QueueRec, m \in Nat :
             LET p == [q EXCEPT !.seq = m] IN p \in QueueRec /\ p.flush = q.flush /\ p.level = q.level /\ p.seq = m
        BY DEF QueueRec
    <2>2. (IF trec[t].flush = 0 THEN Len(accepted) + 1 ELSE Len(accepted)) \in Nat
        BY <1>t
    <2>3. r \in QueueRec /\ r.flush = trec[t].flush /\ r.seq = IF trec[t].flush = 0 THEN Len(accepted) + 1 ELSE Len(accepted)
        BY <1>t, <2>1, <2>2, Zenon
    <2> HIDE DEF r
    <2> QED BY <1>t, <2>3
<1>1. in' = Append(in, r) /\ UNCHANGED <<hostVars, taken, lpc, lidx, lflush, targetHosts, since, giveUp>>
    BY DEF EnqueueSend, loopVars
<1>2. accepted' = IF r.flush = 0 THEN Append(accepted, trec[t].level) ELSE accepted
    BY <1>0 DEF EnqueueSend
<1>2a. r.flush = 0 => trec[t].level \in Levels
    BY <1>0 DEF EnqueueSend, EngineInv, RecordsKnown
<1> HIDE DEF r
<1>3. /\ \A i \in 1 .. n : accepted'[i] = accepted[i]
      /\ Len(accepted') = IF r.flush = 0 THEN n + 1 ELSE n
    BY <1>t, <1>2, <1>2a
<1>4. Stays /\ UNCHANGED <<fpc, fhost, frec>>
    BY <1>t, <1>1, <1>3 DEF Stays, hostVars, feedVars
<1>5. Reached'
    BY <1>1, <1>4, ReachedStep DEF Listed, Coming
<1>6. Flushed'
    BY <1>1, <1>4, FlushedStep DEF ReachInv, Flushed
<1>7. SignalEmpty'
    BY HostsRefined, SignalStep DEF ReachInv
<1>8. FlushWaits' /\ ~giveUp'
    BY <1>1, <1>4 DEF ReachInv, FlushWaits
<1>9. Waiting'
    <2>1. /\ \A i \in DOMAIN in' : (i \in DOMAIN in /\ in'[i] = in[i]) \/ (i = Len(in) + 1 /\ in'[i] = r)
          /\ \A i \in DOMAIN in : i \in DOMAIN in' /\ in'[i] = in[i]
          /\ Len(in) + 1 \in DOMAIN in' /\ in'[Len(in) + 1] = r
        <3>1. \A i \in DOMAIN in' : (i \in DOMAIN in /\ in'[i] = in[i]) \/ (i = Len(in) + 1 /\ in'[i] = r)
            BY <1>t, <1>0, <1>1, PutRecord
        <3>2. /\ \A i \in DOMAIN in : i \in DOMAIN in' /\ in'[i] = in[i]
              /\ Len(in) + 1 \in DOMAIN in' /\ in'[Len(in) + 1] = r
            BY <1>t, <1>0, <1>1
        <3> QED BY <3>1, <3>2
    <2>2. ASSUME NEW s \in taken' + 1 .. Len(accepted') PROVE \E i \in DOMAIN in' : in'[i].flush = 0 /\ in'[i].seq = s
        <3>1. CASE s \in taken + 1 .. n
            <4>1. PICK i \in DOMAIN in : in[i].flush = 0 /\ in[i].seq = s
                BY <3>1 DEF ReachInv, Waiting
            <4> QED BY <2>1, <4>1
        <3>2. CASE s \notin taken + 1 .. n
            <4>1. r.flush = 0 /\ s = n + 1
                BY <1>t, <1>1, <1>3, <2>2, <3>2
            <4> QED BY <1>0, <2>1, <4>1
        <3> QED BY <3>1, <3>2
    <2>3. \A i \in DOMAIN in : in[i].seq \in Nat
        <3>1. \A i \in DOMAIN in : in[i] \in QueueRec
            BY <1>t
        <3> QED BY <3>1 DEF QueueRec
    <2>4. \A i \in DOMAIN in' : in'[i].flush # 0 => in'[i].seq <= Len(accepted')
        BY <1>t, <1>0, <1>3, <2>1, <2>3 DEF ReachInv, Waiting
    <2>5. lflush'.seq <= Len(accepted') /\ (lpc' \in {"flushRLock", "flush", "signal"} => lflush'.seq <= taken')
        <3>1. lflush.seq \in Nat
            BY <1>t DEF QueueRec
        <3> QED BY <1>t, <1>1, <1>3, <3>1 DEF ReachInv, Waiting
    <2> QED BY <2>2, <2>4, <2>5 DEF Waiting
<1> QED BY <1>5, <1>6, <1>7, <1>8, <1>9 DEF ReachInv

\* Nobody is on the way to a host unless the read loop is in fanout or flush.
LEMMA NobodyComes ==
    ASSUME EngineInv, lpc \notin {"rlock", "fanout", "flush"}
    PROVE  \A h, s : ~Coming(h, s)
BY DEF EngineInv, LoopKnown, Coming

\* The read loop takes the next record, which is the next number.
LEMMA ReachTake ==
    ASSUME NoLoss, FlushInv, [LogrNext]_vars, StartRecvRec \/ DrainRec
    PROVE  ReachInv'
<1> USE DEF FlushInv
<1> DEFINE r == Head(in)
<1>t. in \in Seq(QueueRec) /\ taken \in Nat /\ Len(accepted) \in Nat /\ lflush \in QueueRec
    BY DEF EngineInv, EngineOK, PastOK, LoopOK
<1>1. /\ lpc \in {"select", "drain"} /\ in # <<>> /\ in' = Tail(in)
      /\ UNCHANGED <<hostVars, targetHosts, accepted, since, giveUp>>
      /\ \/ r.flush # 0 /\ taken' = taken /\ lpc' = "drain" /\ lflush' \in {r, lflush}
         \/ r.flush = 0 /\ taken' = r.seq /\ lpc' = "rlock" /\ lflush' = lflush
    BY DEF StartRecvRec, DrainRec
<1>2. /\ r \in QueueRec /\ 1 \in DOMAIN in /\ r = in[1]
      /\ \A i \in DOMAIN in' : i \in Nat \ {0} /\ i + 1 \in DOMAIN in /\ in'[i] = in[i + 1]
    BY <1>t, <1>1, TakeRecord
<1>2a. \A i \in DOMAIN in : i # 1 => i - 1 \in DOMAIN in' /\ in'[i - 1] = in[i] /\ 1 < i
    BY <1>t, <1>1
<1> HIDE DEF r
<1>3. fpc[readLoop] = "idle" /\ UNCHANGED <<fpc, fhost, frec>>
    BY <1>1 DEF EngineInv, LoopKnown, hostVars, feedVars
<1>4. r.flush = 0 => r.seq = taken + 1
    <2> SUFFICES ASSUME r.flush = 0 PROVE r.seq = taken + 1
        OBVIOUS
    <2>1. r.seq \in 1 .. Len(accepted) /\ taken < r.seq
        BY <1>2 DEF OrderInv, QueueOrder, Genuine
    <2>2. PICK i \in DOMAIN in : in[i].flush = 0 /\ in[i].seq = taken + 1
        BY <1>t, <2>1 DEF ReachInv, Waiting
    <2>3. i # 1 => r.seq < in[i].seq
        BY <1>2, <1>2a, <2>2 DEF OrderInv, QueueOrder
    <2> QED BY <1>t, <1>2, <2>1, <2>2, <2>3
<1>5. Waiting'
    <2>1. ASSUME NEW s \in taken' + 1 .. Len(accepted') PROVE \E i \in DOMAIN in' : in'[i].flush = 0 /\ in'[i].seq = s
        <3>1. s \in taken + 1 .. Len(accepted) /\ (r.flush = 0 => s # r.seq)
            BY <1>t, <1>1, <1>4, <2>1
        <3>2. PICK i \in DOMAIN in : in[i].flush = 0 /\ in[i].seq = s
            BY <3>1 DEF ReachInv, Waiting
        <3> QED BY <1>2, <1>2a, <3>1, <3>2
    <2>2. \A i \in DOMAIN in' : in'[i].flush # 0 => in'[i].seq <= Len(accepted')
        BY <1>1, <1>2 DEF ReachInv, Waiting
    <2>3. lflush'.seq <= Len(accepted')
        BY <1>1, <1>2 DEF ReachInv, Waiting
    <2> QED BY <1>1, <2>1, <2>2, <2>3 DEF Waiting
<1>6. Reached'
    <2> SUFFICES ASSUME NEW h \in Hosts, Listed(h), NEW s, Wanted(h, s)' PROVE Inside(h, s)' \/ Coming(h, s)'
        BY <1>1 DEF Reached, Listed
    <2>0. since[h] \in Nat
        BY DEF EngineInv, PastOK
    <2>1. CASE s = taken' /\ lpc' = "rlock"
        BY <2>1 DEF Coming
    <2>2. CASE ~(s = taken' /\ lpc' = "rlock")
        <3>1. Wanted(h, s)
            BY <1>t, <1>1, <1>4, <2>0, <2>2 DEF Wanted
        <3>2. Inside(h, s)
            BY <1>1, <3>1, NobodyComes DEF ReachInv, Reached
        <3>3. UNCHANGED <<hpc, hrec, hin, out>>
            BY <1>1 DEF hostVars, chanVars, startVars, targetVars
        <3> QED BY <3>2, <3>3, InsideFrame
    <2> QED BY <2>1, <2>2
<1>7. SignalEmpty'
    BY HostsRefined, SignalStep DEF ReachInv
<1>8. Flushed' /\ FlushWaits' /\ ~giveUp'
    BY <1>1, <1>3 DEF ReachInv, Flushed, FlushWaits
<1> QED BY <1>5, <1>6, <1>7, <1>8 DEF ReachInv

\* The read loop of the engine goes on with the record it has, or without one.
LEMMA ReachLoop ==
    ASSUME NoLoss, FlushInv, [LogrNext]_vars,
           UNCHANGED <<in, taken, accepted, since, lflush, targetHosts, giveUp>>, Reached', Flushed', FlushWaits',
           lpc' \in {"flushRLock", "flush", "signal"} => lpc \in {"flushRLock", "flush", "signal"}
    PROVE  ReachInv'
<1>1. SignalEmpty'
    BY HostsRefined, SignalStep DEF FlushInv, ReachInv
<1>2. Waiting' /\ ~giveUp'
    BY DEF FlushInv, ReachInv, Waiting
<1> QED BY <1>1, <1>2 DEF ReachInv

\* The steps at which no record is on its way to a host.
LEMMA ReachIdle ==
    ASSUME NoLoss, FlushInv, [LogrNext]_vars,
           \/ StartRecvQuit \/ FanoutReturn \/ DrainEnd \/ FlushRLock \/ FlushHostsEnd
           \/ \E t \in Threads : SignalFlush(t)
    PROVE  ReachInv'
<1> USE DEF FlushInv
<1>t. /\ taken \in Nat /\ Len(accepted) \in Nat /\ lflush \in QueueRec /\ targetHosts \in Seq(Hosts) /\ lidx \in Nat
      /\ lflush.seq \in Nat
    BY DEF EngineInv, EngineOK, PastOK, LoopOK, QueueRec
<1>1. /\ UNCHANGED <<hostVars, in, taken, accepted, since, targetHosts, giveUp>>
      /\ lpc \in {"flush", "fanout"} => fpc[readLoop] = "idle" /\ lidx > Len(targetHosts)
      /\ lpc # "rlock"
      /\ lpc' \in {"select", "exited", "drain", "flushRLock", "flush", "signal"}
      /\ lpc' = "flushRLock" => lpc = "drain" /\ in = <<>> /\ lflush' = lflush
      /\ lpc' = "flush" => lpc = "flushRLock" /\ lidx' = 1 /\ lflush' = lflush
      /\ lpc' = "signal" => lpc = "flush" /\ lidx' = lidx /\ lflush' = lflush
      /\ lflush' \in {lflush, NoQRec}
    BY DEF StartRecvQuit, FanoutReturn, AfterFanout, DrainEnd, FlushRLock, FlushHostsEnd, SignalFlush, engineVars, pastVars
<1>2. Stays /\ UNCHANGED <<fpc, fhost, frec>> /\ fpc[readLoop] = "idle"
    BY <1>1 DEF Stays, hostVars, feedVars, EngineInv, LoopKnown
<1>3. \A h \in Hosts : \A s : ~Coming(h, s)
    BY <1>t, <1>1, <1>2 DEF Coming
<1>4. Reached'
    BY <1>1, <1>2, <1>3, ReachedStep DEF Listed
<1>5. Flushed'
    <2>1. CASE lpc' = "flush"
        BY <1>t, <1>1, <2>1 DEF Flushed
    <2>2. CASE lpc' = "signal"
        BY <1>1, <1>2, <2>2, FlushedStep
    <2>3. CASE lpc' \notin {"flush", "signal"}
        BY <2>3 DEF Flushed
    <2> QED BY <2>1, <2>2, <2>3
<1>6. FlushWaits'
    BY <1>2 DEF FlushWaits
<1>7. Waiting'
    <2>1. lpc' = "flushRLock" => lflush.seq <= taken
        <3> SUFFICES ASSUME in = <<>> PROVE Len(accepted) <= taken
            BY <1>t, <1>1 DEF ReachInv, Waiting
        <3>1. DOMAIN in = {}
            OBVIOUS
        <3>2. ASSUME taken < Len(accepted) PROVE FALSE
            <4>1. taken + 1 \in taken + 1 .. Len(accepted)
                BY <1>t, <3>2
            <4>2. PICK i \in DOMAIN in : in[i].seq = taken + 1
                BY <4>1 DEF ReachInv, Waiting
            <4> QED BY <3>1, <4>2
        <3> QED BY <1>t, <3>2
    <2>2. lflush'.seq <= Len(accepted)
        <3>1. NoQRec.seq = 0
            BY DEF NoQRec
        <3> QED BY <1>t, <1>1, <3>1 DEF ReachInv, Waiting
    <2>3. lpc' \in {"flushRLock", "flush", "signal"} => lflush'.seq <= taken
        BY <1>1, <2>1 DEF ReachInv, Waiting
    <2>4. /\ \A s \in taken + 1 .. Len(accepted) : \E i \in DOMAIN in : in[i].flush = 0 /\ in[i].seq = s
          /\ \A i \in DOMAIN in : in[i].flush # 0 => in[i].seq <= Len(accepted)
        BY DEF ReachInv, Waiting
    <2> QED BY <1>1, <2>2, <2>3, <2>4 DEF Waiting
<1>8. SignalEmpty' /\ ~giveUp'
    BY <1>1, HostsRefined, SignalStep DEF ReachInv
<1> QED BY <1>4, <1>5, <1>6, <1>7, <1>8 DEF ReachInv

LEMMA ReachFanoutBegins ==
    ASSUME NoLoss, FlushInv, [LogrNext]_vars, FanoutRLock
    PROVE  ReachInv'
<1> USE DEF FlushInv
<1>t. targetHosts \in Seq(Hosts)
    BY DEF EngineInv, EngineOK
<1>1. /\ lpc = "rlock" /\ lpc' = "fanout" /\ lidx' = 1
      /\ UNCHANGED <<hostVars, in, targetHosts, lflush, accepted, taken, since, giveUp>>
    BY DEF FanoutRLock, pastVars
<1>2. fpc[readLoop] = "idle" /\ UNCHANGED <<fpc, fhost, frec>> /\ Stays
    BY <1>1 DEF EngineInv, LoopKnown, hostVars, feedVars, Stays
<1>3. \A h \in Hosts : \A s : Listed(h) /\ Coming(h, s) => Coming(h, s)'
    <2> SUFFICES ASSUME NEW h \in Hosts, NEW s, Listed(h), Coming(h, s) PROVE Coming(h, s)'
        OBVIOUS
    <2>1. PICK i \in DOMAIN targetHosts : targetHosts[i] = h
        BY DEF Listed
    <2>2. 1 <= i
        BY <1>t, <2>1
    <2> QED BY <1>1, <2>1, <2>2 DEF Coming
<1>4. Reached'
    BY <1>1, <1>2, <1>3, ReachedStep DEF Listed
<1>5. Flushed' /\ FlushWaits'
    BY <1>1, <1>2 DEF Flushed, FlushWaits
<1> QED BY <1>1, <1>4, <1>5, ReachLoop

\* fanout: the next host is alive, so it gets the record if it enables the level.
LEMMA ReachFanoutHost ==
    ASSUME NoLoss, FlushInv, [LogrNext]_vars, FanoutHost
    PROVE  ReachInv'
<1> USE DEF FlushInv
<1> DEFINE g == targetHosts[lidx]
           rec == [seq |-> lrec.seq, level |-> lrec.level, flush |-> nil]
<1>t. /\ targetHosts \in Seq(Hosts) /\ taken \in Nat /\ lidx \in Nat /\ lidx >= 1 /\ fpc \in [{readLoop} -> FeedPcs]
      /\ fhost \in [{readLoop} -> Hosts \cup {nil}] /\ frec \in [{readLoop} -> LogRec]
    BY LogrAssumption DEF EngineInv, EngineOK, PastOK, LoopOK, LoopKnown, TypeInv, HostTypeOK, FeedOK
<1>1. /\ lpc = "fanout" /\ lpc' = "fanout" /\ lidx' = lidx + 1 /\ lidx <= Len(targetHosts)
      /\ UNCHANGED <<in, targetHosts, lflush, accepted, taken, since, giveUp>>
      /\ fpc[readLoop] = "idle"
    BY DEF FanoutHost, engineVars, pastVars
<1>2. lidx \in DOMAIN targetHosts /\ g \in Hosts /\ Listed(g)
    BY <1>t, <1>1 DEF Listed
<1>3. ~hshutdown[g]
    <2>1. \A t \in Threads : tmux.writer # t
        BY <1>1, LogrAssumption DEF EngineInv, LockOK
    <2>2. ~done
        BY <1>1 DEF EngineInv, LoopKnown
    <2> QED BY <1>2, <2>1, <2>2 DEF EngineInv, DeadListed, ReachInv
<1>4. IF lrec.level \in Filter[g]
        THEN fpc'[readLoop] = "send" /\ fhost'[readLoop] = g /\ frec'[readLoop] = rec
        ELSE fpc' = fpc
    BY <1>t, <1>3 DEF FanoutHost, LogRefused, LogEnter, hostVars, feedVars
<1>5. Stays
    BY <1>1 DEF Stays
<1>6. \A h \in Hosts : \A s : Listed(h) /\ Wanted(h, s) /\ Coming(h, s) => Coming(h, s)'
    <2> SUFFICES ASSUME NEW h \in Hosts, NEW s, Wanted(h, s), Coming(h, s) PROVE Coming(h, s)'
        OBVIOUS
    <2>1. PICK i \in DOMAIN targetHosts : lidx <= i /\ targetHosts[i] = h
        BY <1>1 DEF Coming
    <2>2. s = taken
        BY DEF Coming
    <2>3. CASE i = lidx
        <3>1. lrec.level \in Filter[g]
            BY <1>1, <2>1, <2>2, <2>3 DEF Wanted, OrderInv, LoopOrder, Genuine
        <3>2. rec.flush = nil
            OBVIOUS
        <3> HIDE DEF rec, g
        <3>3. g = h
            BY <2>1, <2>3 DEF g
        <3> QED BY <1>1, <1>4, <2>2, <3>1, <3>2, <3>3 DEF Coming
    <2>4. CASE i # lidx
        <3>1. lidx + 1 <= i
            BY <1>t, <2>1, <2>4
        <3> QED BY <1>1, <2>1, <2>2, <3>1 DEF Coming
    <2> QED BY <2>3, <2>4
<1>7. Reached'
    BY <1>1, <1>5, <1>6, ReachedStep DEF Listed
<1>8. Flushed' /\ FlushWaits'
    <2>1. rec.flush = nil
        OBVIOUS
    <2> HIDE DEF rec, g
    <2> QED BY <1>1, <1>4, <2>1 DEF Flushed, FlushWaits
<1> QED BY <1>1, <1>7, <1>8, ReachLoop

\* flush: the read loop is now in the call of host.Log of the next host.
LEMMA ReachFlushHost ==
    ASSUME NoLoss, FlushInv, [LogrNext]_vars, FlushHost
    PROVE  ReachInv'
<1> USE DEF FlushInv
<1>t. /\ targetHosts \in Seq(Hosts) /\ lidx \in Nat /\ fpc \in [{readLoop} -> FeedPcs]
    BY LogrAssumption DEF EngineInv, EngineOK, LoopOK, TypeInv, HostTypeOK, FeedOK
<1>0. FlushLogRec(readLoop).flush # nil
    BY HostAssumption, LogrAssumption DEF FlushLogRec
<1>1. /\ lpc = "flush" /\ lpc' = "flush" /\ lidx' = lidx + 1
      /\ UNCHANGED <<in, targetHosts, lflush, accepted, taken, since, giveUp>>
      /\ fpc[readLoop] = "idle"
    BY DEF FlushHost, engineVars, pastVars
<1>2. fpc'[readLoop] # "idle"
    BY <1>t, <1>0 DEF FlushHost, LogRefused, LogEnter, LogReturns
<1>3. Stays
    BY <1>1 DEF Stays
<1>4. \A h \in Hosts : \A s : ~Coming(h, s)
    BY <1>1 DEF Coming
<1>5. Reached'
    BY <1>1, <1>3, <1>4, ReachedStep DEF Listed
<1>6. \A i \in DOMAIN targetHosts : i < lidx' /\ (fpc'[readLoop] = "idle" \/ i # lidx' - 1)
         => i < lidx /\ (fpc[readLoop] = "idle" \/ i # lidx - 1)
    BY <1>t, <1>1, <1>2
<1>7. Flushed'
    BY <1>1, <1>3, <1>6, FlushedStep
<1>8. FlushWaits'
    BY <1>1 DEF FlushWaits
<1> QED BY <1>1, <1>5, <1>7, <1>8, ReachLoop

\* host.Log sends the record, or blocks with it.
LEMMA ReachLogStep ==
    ASSUME NoLoss, FlushInv, [LogrNext]_vars, LoopLogStep
    PROVE  ReachInv'
<1> USE DEF FlushInv
<1>t. /\ fpc \in [{readLoop} -> FeedPcs] /\ targetHosts \in Seq(Hosts) /\ lidx \in Nat
      /\ fhost \in [{readLoop} -> Hosts \cup {nil}] /\ frec \in [{readLoop} -> LogRec]
    BY LogrAssumption DEF EngineInv, EngineOK, LoopOK, TypeInv, HostTypeOK, FeedOK
<1>1. UNCHANGED <<in, targetHosts, lpc, lidx, lflush, accepted, taken, since, giveUp>>
    BY DEF LoopLogStep, engineVars, loopVars, pastVars
<1>2. Stays
    BY <1>1 DEF Stays
<1>3. LogSend(readLoop) \/ LogBlock(readLoop)
    BY DEF LoopLogStep, LogDrop, LogTimeout, NoLoss
<1>4. /\ fpc[readLoop] \in {"send", "blocked"} /\ fhost[readLoop] \in Hosts
      /\ \/ LogSend(readLoop) /\ fpc'[readLoop] = IF frec[readLoop].flush = nil THEN "idle" ELSE "await"
         \/ fpc'[readLoop] = "blocked" /\ UNCHANGED <<fhost, frec>>
    BY <1>t, <1>3, FedHost DEF LogSend, LogBlock, LogReturns
<1>5. \A h \in Hosts : \A s : Coming(h, s) => Coming(h, s)' \/ Inside(h, s)'
    <2> SUFFICES ASSUME NEW h \in Hosts, NEW s, Coming(h, s) PROVE Coming(h, s)' \/ Inside(h, s)'
        OBVIOUS
    <2>1. CASE frec[readLoop].flush = nil /\ fhost[readLoop] = h
        <3>1. s = frec[readLoop].seq
            BY <1>4, <2>1 DEF Coming, OrderInv, FeedOrder
        <3>2. CASE LogSend(readLoop)
            BY <2>1, <3>1, <3>2, SentInside
        <3>3. CASE ~LogSend(readLoop)
            BY <1>1, <1>4, <2>1, <3>3 DEF Coming
        <3> QED BY <3>2, <3>3
    <2>2. CASE ~(frec[readLoop].flush = nil /\ fhost[readLoop] = h)
        BY <1>1, <2>2 DEF Coming
    <2> QED BY <2>1, <2>2
<1>6. Reached'
    BY <1>1, <1>2, <1>5, ReachedStep DEF Listed
<1>7. lpc \in {"flush", "signal"} => frec[readLoop].flush # nil
    BY <1>4 DEF OrderInv, FeedOrder
<1>8. Flushed'
    <2>1. CASE lpc \in {"flush", "signal"}
        <3>1. fpc[readLoop] # "idle" /\ fpc'[readLoop] # "idle"
            BY <1>4, <1>7, <2>1
        <3> QED BY <1>1, <1>2, <3>1, FlushedStep DEF ReachInv, Flushed
    <2>2. CASE lpc \notin {"flush", "signal"}
        BY <1>1, <2>2 DEF Flushed
    <2> QED BY <2>1, <2>2
<1>9. FlushWaits'
    <2>1. frec[readLoop].flush # nil => lpc = "flush"
        BY <1>4 DEF ReachInv, FlushWaits
    <2> QED BY <1>1, <1>4, <2>1 DEF FlushWaits
<1> QED BY <1>1, <1>6, <1>8, <1>9, ReachLoop

\* A host goes on; when it has answered a flush it has written what it was to.
LEMMA ReachHost ==
    ASSUME NoLoss, FlushInv, [LogrNext]_vars, NEW h \in Hosts, HostGoroutine(h)
    PROVE  ReachInv'
<1> USE DEF FlushInv
<1>t. /\ fpc \in [{readLoop} -> FeedPcs] /\ targetHosts \in Seq(Hosts) /\ lidx \in Nat
      /\ hflush[h] \in {readLoop, nil} /\ fhost \in [{readLoop} -> Hosts \cup {nil}]
    BY LogrAssumption DEF EngineInv, EngineOK, LoopOK, TypeInv, HostTypeOK, FeedOK, StartOK
<1>1. UNCHANGED <<in, targetHosts, lpc, lidx, lflush, accepted, taken, since, giveUp>>
    BY DEF HostGoroutine, engineVars, loopVars, pastVars
<1>2. UNCHANGED feedVars \/ FlushSignal(h)
    BY DEF HostGoroutine, HostLoop, StartRecv, StartQuit, StartWrite, StartPanic, FlushRecv, FlushWrite, FlushDrained
<1>3. CASE UNCHANGED feedVars
    BY <1>1, <1>3, ReachQuiet DEF feedVars
<1>4. CASE FlushSignal(h)
    <2>1. hflush[h] = readLoop /\ hin[h] = <<>> /\ hpc[h] = "signal"
        BY <1>t, <1>4 DEF FlushSignal, ReachInv, SignalEmpty
    <2>2. fpc[readLoop] = "await" /\ fhost[readLoop] = h /\ fpc'[readLoop] = "idle" /\ lpc = "flush"
        BY <1>t, <1>4, <2>1 DEF FlushSignal, ReachInv, FlushWaits
    <2>3. \A g \in Hosts : \A s : ~Coming(g, s)
        BY <2>2 DEF Coming
    <2>4. Stays
        BY <1>1 DEF Stays
    <2>5. Reached'
        BY <1>1, <2>3, <2>4, ReachedStep DEF Listed
    <2>6. lidx - 1 \in DOMAIN targetHosts /\ h = targetHosts[lidx - 1]
        BY <2>2 DEF OrderInv, FeedOrder
    <2>7. \A s : Wanted(h, s) => Written(h, s)
        <3>1. Listed(h)
            BY <2>6 DEF Listed
        <3>2. \A s : Inside(h, s) => Written(h, s)
            <4>1. \A i : i \notin DOMAIN hin[h]
                BY <2>1
            <4> QED BY <2>1, <4>1 DEF Inside
        <3> QED BY <2>3, <3>1, <3>2 DEF ReachInv, Reached
    <2>8. Flushed'
        <3>1. \A i \in DOMAIN targetHosts : i < lidx' => i < lidx /\ (i # lidx - 1 \/ targetHosts[i] = h)
            BY <1>1, <2>6
        <3> QED BY <1>1, <2>2, <2>4, <2>7, <3>1, FlushedStep
    <2>9. FlushWaits'
        BY <2>2 DEF FlushWaits
    <2> QED BY <1>1, <2>5, <2>8, <2>9, ReachLoop
<1> QED BY <1>2, <1>3, <1>4

\* The list changes: a new host is owed nothing yet.
LEMMA ReachList ==
    ASSUME NoLoss, FlushInv, [LogrNext]_vars, NEW t \in Threads, AddTargetAppend(t) \/ RemoveReturn(t)
    PROVE  ReachInv'
<1> USE DEF FlushInv
<1>t. taken \in Nat /\ since \in [Hosts -> Nat] /\ targetHosts \in Seq(Hosts)
    BY DEF EngineInv, PastOK, EngineOK
<1>1. UNCHANGED <<hostVars, in, lpc, lidx, lflush, accepted, taken, giveUp>>
    BY DEF AddTargetAppend, RemoveReturn, loopVars, pastVars
<1>2. lpc \notin {"fanout", "flush", "signal"}
    <2>1. tmux.readers = {}
        <3>1. CASE AddTargetAppend(t)
            BY <3>1 DEF AddTargetAppend, LockGranted
        <3>2. CASE RemoveReturn(t)
            BY <3>2, LogrAssumption DEF RemoveReturn, EngineInv, LockOK, Closing
        <3> QED BY <3>1, <3>2
    <2> QED BY <2>1 DEF EngineInv, LockOK
<1>3. UNCHANGED <<fpc, fhost, frec>> /\ fpc[readLoop] = "idle"
    BY <1>1, <1>2 DEF hostVars, feedVars, EngineInv, LoopKnown
<1>4. \A h \in Hosts : Listed(h)' => since'[h] = taken \/ (since'[h] = since[h] /\ Listed(h))
    <2>1. CASE AddTargetAppend(t)
        <3>1. PICK g \in Hosts : tset[t] = {g}
            BY <2>1 DEF AddTargetAppend, EngineInv, CallsKnown, CallKnown, Adding
        <3>2. (CHOOSE x \in tset[t] : TRUE) = g
            BY <3>1
        <3>3. targetHosts' = Append(targetHosts, g) /\ since' = [since EXCEPT ![g] = taken]
            BY <2>1, <3>2 DEF AddTargetAppend
        <3>4. \A i \in DOMAIN targetHosts' : (i \in DOMAIN targetHosts /\ targetHosts'[i] = targetHosts[i]) \/ targetHosts'[i] = g
            BY <1>t, <3>3, PutHost
        <3> QED BY <1>t, <3>3, <3>4 DEF Listed
    <2>2. CASE RemoveReturn(t)
        <3>1. targetHosts' = tkeep[t] /\ since' = since
            BY <2>2 DEF RemoveReturn, pastVars
        <3>2. \A i \in DOMAIN tkeep[t] : Listed(tkeep[t][i])
            BY <2>2 DEF RemoveReturn, EngineInv, WalkKnown, Closing
        <3>3. \A h : Listed(h)' => \E i \in DOMAIN tkeep[t] : tkeep[t][i] = h
            BY <3>1 DEF Listed
        <3>4. \A h : Listed(h)' => Listed(h)
            BY <3>2, <3>3
        <3> QED BY <3>1, <3>4
    <2> QED BY <2>1, <2>2
<1>5. Reached'
    <2> SUFFICES ASSUME NEW h \in Hosts, Listed(h)', NEW s, Wanted(h, s)' PROVE Inside(h, s)' \/ Coming(h, s)'
        BY DEF Reached
    <2>1. since'[h] = since[h] /\ Listed(h)
        BY <1>t, <1>1, <1>4 DEF Wanted
    <2>2. Wanted(h, s)
        BY <1>1, <2>1 DEF Wanted
    <2>3. Inside(h, s) \/ Coming(h, s)
        BY <2>1, <2>2 DEF ReachInv, Reached
    <2>4. Inside(h, s) => Inside(h, s)'
        BY <1>1, InsideFrame DEF hostVars, chanVars, startVars, targetVars
    <2>5. Coming(h, s) => Coming(h, s)'
        BY <1>1, <1>2, <1>3 DEF Coming
    <2> QED BY <2>3, <2>4, <2>5
<1>6. SignalEmpty'
    BY HostsRefined, SignalStep DEF ReachInv
<1>7. Waiting' /\ ~giveUp'
    BY <1>1 DEF ReachInv, Waiting
<1>8. Flushed' /\ FlushWaits'
    BY <1>1, <1>2, <1>3 DEF Flushed, FlushWaits
<1> QED BY <1>5, <1>6, <1>7, <1>8 DEF ReachInv

LEMMA ReachStep == NoLoss /\ FlushInv /\ [LogrNext]_vars => ReachInv'
<1> SUFFICES ASSUME NoLoss, FlushInv, [LogrNext]_vars PROVE ReachInv'
    OBVIOUS
<1>1. ASSUME LoopStep PROVE ReachInv'
    <2>1. ~LoopPanic
        BY DEF LoopPanic, LogPanic, NoLoss
    <2> QED BY <1>1, <2>1, ReachTake, ReachFanoutBegins, ReachFanoutHost, ReachFlushHost, ReachLogStep, ReachIdle DEF LoopStep
<1>2. ASSUME NEW t \in Threads, ThreadStep(t) PROVE ReachInv'
    <2>1. CASE EnqueueSend(t)
        BY <2>1, ReachEnqueue
    <2>2. CASE AddTargetAppend(t) \/ RemoveReturn(t)
        BY <2>2, ReachList
    <2>3. CASE ~EnqueueSend(t) /\ ~AddTargetAppend(t) /\ ~RemoveReturn(t)
        <3>1. UNCHANGED <<lpc, lidx, lflush, since, giveUp, taken>>
            BY <1>2, <2>3, CallsApart
        <3>2. UNCHANGED <<in, taken, accepted, lpc, lrec, lidx, targetHosts, fpc, fhost, frec>>
            BY <1>2, <2>3, QuietCalls, WalkMoves DEF ThreadStep, FlushInv, OrderInv
        <3> QED BY <3>1, <3>2, ReachQuiet
    <2> QED BY <2>1, <2>2, <2>3
<1>3. ASSUME LogrCall PROVE ReachInv'
    <2>1. PICK t \in Threads :
              \/ \E l \in Levels : LoggerLog(t, l)
              \/ \E op \in {"flush", "shutdown"} : FlushBegin(t, op)
              \/ \E h \in Hosts : AddTarget(t, h)
              \/ \E S \in SUBSET Hosts : RemoveTargets(t, S)
        BY <1>3 DEF LogrCall, Flush, Shutdown
    <2>2. UNCHANGED <<in, taken, accepted, lpc, lrec, lidx, targetHosts, fpc, fhost, frec>>
        BY <2>1, QuietCalls DEF FlushInv
    <2>3. UNCHANGED <<lflush, since, giveUp>>
        BY <1>3 DEF LogrCall, LoggerLog, Flush, Shutdown, FlushBegin, AddTarget, RemoveTargets, loopVars, pastVars
    <2> QED BY <2>2, <2>3, ReachQuiet
<1>4. ASSUME UNCHANGED vars PROVE ReachInv'
    BY <1>4, ReachQuiet DEF vars, engineVars, loopVars, pastVars, hostVars, feedVars
<1> QED BY <1>1, <1>2, <1>3, <1>4, ReachHost DEF LogrNext, LogrStep

LEMMA ReachInit == LogrInit => ReachInv
<1> SUFFICES ASSUME LogrInit PROVE ReachInv
    OBVIOUS
<1>1. /\ lpc = "select" /\ in = <<>> /\ accepted = <<>> /\ taken = 0 /\ since = [h \in Hosts |-> 0]
      /\ giveUp = FALSE /\ lflush = NoQRec
    BY DEF LogrInit
<1>2. fpc[readLoop] = "idle" /\ \A h \in Hosts : hpc[h] \in {"select", "none"}
    BY LogrAssumption DEF LogrInit, HostInit
<1>3. lflush.seq = 0 /\ Len(accepted) = 0 /\ DOMAIN in = {}
    BY <1>1 DEF NoQRec
<1>4. \A h \in Hosts : \A s : ~Wanted(h, s)
    BY <1>1 DEF Wanted
<1>5. Reached /\ Flushed /\ FlushWaits /\ SignalEmpty
    BY <1>1, <1>2, <1>4 DEF Reached, Flushed, FlushWaits, SignalEmpty
<1>6. Waiting
    BY <1>1, <1>3 DEF Waiting
<1> QED BY <1>1, <1>5, <1>6 DEF ReachInv

LEMMA FlushedDelivers == FlushInv => FlushDelivers
<1> SUFFICES ASSUME FlushInv, lpc = "signal", NEW h \in Hosts, Listed(h),
                    NEW s \in since[h] + 1 .. lflush.seq, accepted[s] \in Filter[h]
             PROVE  \E i \in DOMAIN out[h] : out[h][i].seq = s
    BY DEF FlushDelivers
<1> USE DEF FlushInv
<1>1. PICK i \in DOMAIN targetHosts : targetHosts[i] = h
    BY DEF Listed
<1>2. /\ targetHosts \in Seq(Hosts) /\ lidx \in Nat /\ taken \in Nat /\ since[h] \in Nat /\ lflush.seq \in Nat
    BY DEF EngineInv, EngineOK, LoopOK, PastOK, QueueRec
<1>3. lidx > Len(targetHosts) /\ fpc[readLoop] = "idle" /\ lflush.seq <= taken
    BY DEF ReachInv, Flushed, Waiting, EngineInv, LoopKnown
<1>4. i < lidx
    BY <1>1, <1>2, <1>3
<1>5. Wanted(h, s)
    BY <1>2, <1>3 DEF Wanted
<1> QED BY <1>1, <1>3, <1>4, <1>5 DEF ReachInv, Flushed, Written

\* Flush delivers what it promises, for any number of goroutines that log, flush,
\* add and remove targets and shut down at the same time, any capacities, and
\* whatever the queue handler of the Logr answers: when the read loop signals the
\* caller, every record accepted before the flush record has been written to
\* every listed target that was to get it (logr.go:287-288, 468-495,
\* target.go:285-304).  The hypothesis lists what loses a record on its way.
THEOREM FlushIsComplete ==
    ASSUME NoLoss
    PROVE  LogrSpec => []FlushDelivers
<1>1. LogrInit => ReachInv
    BY ReachInit
<1>2. FlushInv /\ [LogrNext]_vars => ReachInv'
    BY ReachStep
<1>3. FlushInv => FlushDelivers
    BY FlushedDelivers
<1>4. LogrSpec => [](TypeInv /\ EngineInv)
    BY EngineAlways, PTL
<1>5. LogrSpec => [](FlushHandshake /\ Counts /\ OrderInv)
    BY HandshakeHolds, EngineImplementsHosts, CountsAlways, OrderAlways, PTL
<1>6. FlushInv <=> TypeInv /\ FlushHandshake /\ EngineInv /\ Counts /\ OrderInv /\ ReachInv
    BY DEF FlushInv
<1> QED BY <1>1, <1>2, <1>3, <1>4, <1>5, <1>6, PTL DEF LogrSpec

=============================================================================
