------------------------- MODULE TargetHost_proofs -------------------------
(***************************************************************************)
(* Proofs of the safety properties of TargetHost, for any number of hosts, *)
(* feeders and records, any capacity, any handler and any set of faults.   *)
(***************************************************************************)
EXTENDS TargetHost, TLAPS

(***************************************************************************)
(* Types.  A feeder inside Log, or waiting for a flush, has a host, and    *)
(* inside Log the record it was called with.                               *)
(***************************************************************************)
Calling ==
    \A f \in Feeders :
        /\ fpc[f] # "idle" => fhost[f] \in Hosts
        /\ fpc[f] \in {"send", "blocked"} => frec[f] \in RecordsOf(f)

TypeInv == HostTypeOK /\ Calling

\* The records a feeder may pass to Log are records.
LEMMA RecordsAreLogRecs ==
    /\ NoRec \in LogRec
    /\ \A f \in Feeders : RecordsOf(f) \subseteq LogRec
    /\ \A f \in Feeders : \A rec \in RecordsOf(f) : rec.flush \in {nil, f}
BY HostAssumption DEF RecordsOf, LogRec, NoRec, FlushLogRec

\* Counting, appending and taking the head keep the types.
LEMMA IncType ==
    ASSUME NEW c \in [Hosts -> Nat], NEW h \in Hosts
    PROVE  Inc(c, h) \in [Hosts -> Nat]
BY DEF Inc

LEMMA AppendType ==
    ASSUME NEW q \in [Hosts -> Seq(LogRec)], NEW h \in Hosts, NEW rec \in LogRec
    PROVE  /\ [q EXCEPT ![h] = Append(@, rec)] \in [Hosts -> Seq(LogRec)]
           /\ Len(Append(q[h], rec)) = Len(q[h]) + 1
           /\ Len(q[h]) \in Nat
OBVIOUS

LEMMA TailType ==
    ASSUME NEW q \in [Hosts -> Seq(LogRec)], NEW h \in Hosts, q[h] # <<>>
    PROVE  /\ [q EXCEPT ![h] = Tail(@)] \in [Hosts -> Seq(LogRec)]
           /\ Len(Tail(q[h])) = Len(q[h]) - 1
           /\ Len(q[h]) \in Nat
           /\ Head(q[h]) \in LogRec
<1>1. q[h] \in Seq(LogRec)
    OBVIOUS
<1>2. Tail(q[h]) \in Seq(LogRec) /\ Head(q[h]) \in LogRec /\ Len(Tail(q[h])) = Len(q[h]) - 1
    BY <1>1
<1> QED BY <1>1, <1>2

\* A channel holds at least the record that is being handed over, and one more
\* fits into it whenever a send goes through.
LEMMA QueueBoundType ==
    ASSUME NEW h \in Hosts
    PROVE  QueueBound(h) \in Nat /\ QueueBound(h) >= 1
BY HostAssumption DEF QueueBound

LEMMA SendFits ==
    ASSUME NEW h \in Hosts, NEW f, hin[h] \in Seq(LogRec), CanSend(f, h)
    PROVE  Len(hin[h]) + 1 <= QueueBound(h)
BY HostAssumption DEF CanSend, QueueBound

\* What does not change keeps its type.
LEMMA Frame ==
    /\ ChanOK /\ chanVars' = chanVars => ChanOK'
    /\ StartOK /\ startVars' = startVars => StartOK'
    /\ FeedOK /\ feedVars' = feedVars => FeedOK'
    /\ MetricOK /\ metricVars' = metricVars => MetricOK'
    /\ TargetOK /\ targetVars' = targetVars => TargetOK'
    /\ HistoryOK /\ historyVars' = historyVars => HistoryOK'
    /\ Calling /\ feedVars' = feedVars => Calling'
<1>1. ChanOK /\ chanVars' = chanVars => ChanOK'
    BY DEF ChanOK, chanVars
<1>2. StartOK /\ startVars' = startVars => StartOK'
    BY DEF StartOK, startVars
<1>3. FeedOK /\ feedVars' = feedVars => FeedOK'
    BY DEF FeedOK, feedVars
<1>4. MetricOK /\ metricVars' = metricVars => MetricOK'
    BY DEF MetricOK, metricVars
<1>5. TargetOK /\ targetVars' = targetVars => TargetOK'
    BY DEF TargetOK, targetVars
<1>6. HistoryOK /\ historyVars' = historyVars => HistoryOK'
    BY DEF HistoryOK, historyVars
<1>7. Calling /\ feedVars' = feedVars => Calling'
    BY DEF Calling, feedVars
<1> QED BY <1>1, <1>2, <1>3, <1>4, <1>5, <1>6, <1>7

\* The initial state is well typed.
LEMMA TypeInit == HostInit => TypeInv
<1> SUFFICES ASSUME HostInit PROVE TypeInv
    OBVIOUS
<1> USE DEF HostInit
<1> NoRec \in LogRec
    BY RecordsAreLogRecs
<1>1. ChanOK
    BY QueueBoundType DEF ChanOK
<1>2. StartOK /\ FeedOK
    BY DEF StartOK, StartPcs, FeedOK, FeedPcs
<1>3. MetricOK /\ TargetOK /\ HistoryOK
    BY DEF MetricOK, TargetOK, HistoryOK
<1>4. Calling
    BY DEF Calling
<1> QED BY <1>1, <1>2, <1>3, <1>4 DEF TypeInv, HostTypeOK

\* Every step keeps the types.
LEMMA TypeStep == TypeInv /\ [HostNext]_hostVars => TypeInv'
<1> SUFFICES ASSUME TypeInv, [HostNext]_hostVars PROVE TypeInv'
    OBVIOUS
<1> USE RecordsAreLogRecs DEF TypeInv, HostTypeOK
<1>1. ASSUME NEW h \in Hosts, NewTargetHost(h) PROVE TypeInv'
    <2>1. StartOK'
        BY <1>1 DEF NewTargetHost, StartOK, StartPcs
    <2> QED
        BY <1>1, <2>1, Frame DEF NewTargetHost
<1>2. ASSUME NEW h \in Hosts, StartRecv(h) PROVE TypeInv'
    <2>0. hin \in [Hosts -> Seq(LogRec)] /\ hin[h] # <<>>
        BY <1>2 DEF StartRecv, ChanOK
    <2>1. ChanOK'
        <3>1. hin' \in [Hosts -> Seq(LogRec)]
            BY <1>2, <2>0, TailType DEF StartRecv
        <3>2. Len(Tail(hin[h])) <= QueueBound(h)
            BY <2>0, TailType, QueueBoundType DEF ChanOK
        <3> QED BY <1>2, <2>0, <3>1, <3>2 DEF StartRecv, ChanOK
    <2>2. StartOK'
        <3>1. Head(hin[h]) \in LogRec
            BY <2>0, TailType
        <3>2. Head(hin[h]).flush \in Feeders \cup {nil}
            BY <3>1 DEF LogRec
        <3> QED BY <1>2, <3>1, <3>2 DEF StartRecv, StartOK, StartPcs
    <2>3. HistoryOK'
        <3>1. /\ flushes' = flushes \/ flushes' = Inc(flushes, h)
              /\ expired' = expired /\ sent' = sent /\ panics' = panics
            BY <1>2 DEF StartRecv
        <3> QED BY <3>1, IncType DEF HistoryOK
    <2> QED
        BY <1>2, <2>1, <2>2, <2>3, Frame DEF StartRecv
<1>3. ASSUME NEW h \in Hosts, StartQuit(h) PROVE TypeInv'
    <2>1. ChanOK'
        BY <1>3 DEF StartQuit, ChanOK
    <2>2. StartOK'
        BY <1>3 DEF StartQuit, StartOK, StartPcs
    <2> QED
        BY <1>3, <2>1, <2>2, Frame DEF StartQuit
<1>4. ASSUME NEW h \in Hosts, StartWrite(h) PROVE TypeInv'
    <2>1. StartOK'
        BY <1>4 DEF StartWrite, WriteRecOK, WriteRecErr, StartOK, StartPcs
    <2>2. MetricOK'
        <3>1. /\ logged' = logged \/ logged' = Inc(logged, h)
              /\ errors' = errors \/ errors' = Inc(errors, h)
              /\ reported' = reported \/ reported' = Inc(reported, h)
              /\ dropped' = dropped /\ blocked' = blocked
            BY <1>4 DEF StartWrite, WriteRecOK, WriteRecErr
        <3> QED BY <3>1, IncType DEF MetricOK
    <2>3. TargetOK'
        <3>1. /\ out' = out \/ out' = [out EXCEPT ![h] = Append(@, hrec[h])]
              /\ closes' = closes
            BY <1>4 DEF StartWrite, WriteRecOK, WriteRecErr
        <3>2. hrec[h] \in LogRec
            BY DEF StartOK
        <3>3. out \in [Hosts -> Seq(LogRec)]
            BY DEF TargetOK
        <3>4. [out EXCEPT ![h] = Append(@, hrec[h])] \in [Hosts -> Seq(LogRec)]
            BY <3>2, <3>3, AppendType
        <3> QED BY <3>1, <3>3, <3>4 DEF TargetOK
    <2> QED
        BY <1>4, <2>1, <2>2, <2>3, Frame DEF StartWrite, WriteRecOK, WriteRecErr
<1>5. ASSUME NEW h \in Hosts, StartPanic(h) PROVE TypeInv'
    <2>1. StartOK'
        BY <1>5 DEF StartPanic, StartOK, StartPcs
    <2>2. HistoryOK'
        BY <1>5, IncType DEF StartPanic, HistoryOK
    <2> QED
        BY <1>5, <2>1, <2>2, Frame DEF StartPanic
<1>6. ASSUME NEW h \in Hosts, FlushRecv(h) PROVE TypeInv'
    <2>0. hin \in [Hosts -> Seq(LogRec)] /\ hin[h] # <<>>
        BY <1>6 DEF FlushRecv, ChanOK
    <2>1. ChanOK'
        <3>1. hin' \in [Hosts -> Seq(LogRec)]
            BY <1>6, <2>0, TailType DEF FlushRecv
        <3>2. Len(Tail(hin[h])) <= QueueBound(h)
            BY <2>0, TailType, QueueBoundType DEF ChanOK
        <3> QED BY <1>6, <2>0, <3>1, <3>2 DEF FlushRecv, ChanOK
    <2>2. StartOK'
        <3>1. Head(hin[h]) \in LogRec
            BY <2>0, TailType
        <3>2. Head(hin[h]).flush \in Feeders \cup {nil}
            BY <3>1 DEF LogRec
        <3> QED BY <1>6, <3>1, <3>2 DEF FlushRecv, StartOK, StartPcs
    <2>3. HistoryOK'
        <3>1. /\ flushes' = flushes \/ flushes' = Inc(flushes, h)
              /\ expired' = expired /\ sent' = sent /\ panics' = panics
            BY <1>6 DEF FlushRecv
        <3> QED BY <3>1, IncType DEF HistoryOK
    <2> QED
        BY <1>6, <2>1, <2>2, <2>3, Frame DEF FlushRecv
<1>7. ASSUME NEW h \in Hosts, FlushWrite(h) PROVE TypeInv'
    <2>1. StartOK'
        BY <1>7 DEF FlushWrite, WriteRecOK, WriteRecErr, StartOK, StartPcs
    <2>2. MetricOK'
        <3>1. /\ logged' = logged \/ logged' = Inc(logged, h)
              /\ errors' = errors \/ errors' = Inc(errors, h)
              /\ reported' = reported \/ reported' = Inc(reported, h)
              /\ dropped' = dropped /\ blocked' = blocked
            BY <1>7 DEF FlushWrite, WriteRecOK, WriteRecErr
        <3> QED BY <3>1, IncType DEF MetricOK
    <2>3. TargetOK'
        <3>1. /\ out' = out \/ out' = [out EXCEPT ![h] = Append(@, hrec[h])]
              /\ closes' = closes
            BY <1>7 DEF FlushWrite, WriteRecOK, WriteRecErr
        <3>2. hrec[h] \in LogRec
            BY DEF StartOK
        <3>3. out \in [Hosts -> Seq(LogRec)]
            BY DEF TargetOK
        <3>4. [out EXCEPT ![h] = Append(@, hrec[h])] \in [Hosts -> Seq(LogRec)]
            BY <3>2, <3>3, AppendType
        <3> QED BY <3>1, <3>3, <3>4 DEF TargetOK
    <2> QED
        BY <1>7, <2>1, <2>2, <2>3, Frame DEF FlushWrite, WriteRecOK, WriteRecErr
<1>8. ASSUME NEW h \in Hosts, FlushDrained(h) PROVE TypeInv'
    <2>1. StartOK'
        BY <1>8 DEF FlushDrained, StartOK, StartPcs
    <2> QED
        BY <1>8, <2>1, Frame DEF FlushDrained
<1>9. ASSUME NEW h \in Hosts, FlushSignal(h) PROVE TypeInv'
    <2>1. StartOK'
        BY <1>9 DEF FlushSignal, StartOK, StartPcs
    <2>2. FeedOK'
        BY <1>9 DEF FlushSignal, FeedOK, FeedPcs, StartOK
    <2>3. Calling'
        BY <1>9 DEF FlushSignal, Calling, FeedOK
    <2> QED
        BY <1>9, <2>1, <2>2, <2>3, Frame DEF FlushSignal
<1>10. ASSUME NEW h \in Hosts, ShutdownBegin(h) PROVE TypeInv'
    <2>1. ChanOK'
        BY <1>10 DEF ShutdownBegin, ChanOK
    <2> QED
        BY <1>10, <2>1, Frame DEF ShutdownBegin
<1>11. ASSUME NEW h \in Hosts, ShutdownEnd(h) PROVE TypeInv'
    <2>1. ChanOK'
        BY <1>11 DEF ShutdownEnd, ChanOK
    <2>2. TargetOK'
        BY <1>11, IncType DEF ShutdownEnd, TargetOK
    <2>3. HistoryOK'
        BY <1>11, IncType DEF ShutdownEnd, HistoryOK
    <2> QED
        BY <1>11, <2>1, <2>2, <2>3, Frame DEF ShutdownEnd
<1>12. ASSUME NEW f \in Feeders, NEW h \in Hosts, NEW rec \in RecordsOf(f),
              LogRefused(f, h, rec)
       PROVE  TypeInv'
    <2>1. FeedOK'
        BY <1>12 DEF LogRefused, LogReturns, FeedOK, FeedPcs
    <2>2. Calling'
        BY <1>12 DEF LogRefused, LogReturns, Calling, FeedOK
    <2> QED
        BY <1>12, <2>1, <2>2, Frame DEF LogRefused
<1>13. ASSUME NEW f \in Feeders, NEW h \in Hosts, NEW rec \in RecordsOf(f),
              LogEnter(f, h, rec)
       PROVE  TypeInv'
    <2>1. FeedOK'
        BY <1>13 DEF LogEnter, FeedOK, FeedPcs
    <2>2. Calling'
        BY <1>13 DEF LogEnter, Calling, FeedOK
    <2> QED
        BY <1>13, <2>1, <2>2, Frame DEF LogEnter
<1>14. ASSUME NEW f \in Feeders, LogSend(f) PROVE TypeInv'
    <2>0. fhost[f] \in Hosts /\ frec[f] \in LogRec /\ hin \in [Hosts -> Seq(LogRec)]
        BY <1>14 DEF LogSend, Calling, ChanOK
    <2>1. ChanOK'
        <3>1. hin' \in [Hosts -> Seq(LogRec)]
            BY <1>14, <2>0, AppendType DEF LogSend
        <3>2. Len(Append(hin[fhost[f]], frec[f])) <= QueueBound(fhost[f])
            BY <1>14, <2>0, AppendType, SendFits DEF LogSend
        <3> QED BY <1>14, <2>0, <3>1, <3>2 DEF LogSend, ChanOK
    <2>2. FeedOK'
        BY <1>14 DEF LogSend, LogReturns, FeedOK, FeedPcs, Calling
    <2>3. HistoryOK'
        BY <1>14, IncType DEF LogSend, LogReturns, HistoryOK, Calling, FeedOK
    <2>4. Calling'
        BY <1>14 DEF LogSend, LogReturns, Calling, FeedOK
    <2> QED
        BY <1>14, <2>1, <2>2, <2>3, <2>4, Frame DEF LogSend
<1>15. ASSUME NEW f \in Feeders, LogDrop(f) PROVE TypeInv'
    <2>1. FeedOK'
        BY <1>15 DEF LogDrop, LogReturns, FeedOK, FeedPcs, Calling
    <2>2. MetricOK'
        BY <1>15, IncType DEF LogDrop, LogReturns, MetricOK, Calling, FeedOK
    <2>3. Calling'
        BY <1>15 DEF LogDrop, LogReturns, Calling, FeedOK
    <2> QED
        BY <1>15, <2>1, <2>2, <2>3, Frame DEF LogDrop
<1>16. ASSUME NEW f \in Feeders, LogBlock(f) PROVE TypeInv'
    <2>1. FeedOK'
        BY <1>16 DEF LogBlock, FeedOK, FeedPcs, Calling
    <2>2. MetricOK'
        BY <1>16, IncType DEF LogBlock, MetricOK, Calling, FeedOK
    <2>3. Calling'
        BY <1>16 DEF LogBlock, Calling, FeedOK
    <2> QED
        BY <1>16, <2>1, <2>2, <2>3, Frame DEF LogBlock
<1>17. ASSUME NEW f \in Feeders, LogPanic(f) PROVE TypeInv'
    <2>1. FeedOK'
        BY <1>17 DEF LogPanic, FeedOK, FeedPcs, Calling
    <2>2. Calling'
        BY <1>17 DEF LogPanic, Calling, FeedOK
    <2> QED
        BY <1>17, <2>1, <2>2, Frame DEF LogPanic
<1>18. ASSUME NEW f \in Feeders, LogTimeout(f) PROVE TypeInv'
    <2>1. FeedOK'
        BY <1>18 DEF LogTimeout, LogReturns, FeedOK, FeedPcs, Calling
    <2>2. MetricOK'
        BY <1>18, IncType DEF LogTimeout, LogReturns, MetricOK, Calling, FeedOK
    <2>3. Calling'
        BY <1>18 DEF LogTimeout, LogReturns, Calling, FeedOK
    <2> QED
        BY <1>18, <2>1, <2>2, <2>3, Frame DEF LogTimeout
<1>19. CASE UNCHANGED hostVars
    BY <1>19, Frame DEF hostVars
<1> QED
    BY <1>1, <1>2, <1>3, <1>4, <1>5, <1>6, <1>7, <1>8, <1>9, <1>10, <1>11, <1>12, <1>13,
       <1>14, <1>15, <1>16, <1>17, <1>18, <1>19
    DEF HostNext, HostStep, HostLoop, LogCall, LogStep

\* The type invariant holds throughout: no channel ever holds more records
\* than its capacity, whatever the callers of Log do.
THEOREM HostTypeCorrect == HostSpec => []HostTypeOK
<1>1. HostInit => TypeInv
    BY TypeInit
<1>2. TypeInv /\ [HostNext]_hostVars => TypeInv'
    BY TypeStep
<1>3. TypeInv => HostTypeOK
    BY DEF TypeInv
<1> QED BY <1>1, <1>2, <1>3, PTL DEF HostSpec

-----------------------------------------------------------------------------
(***************************************************************************)
(* Shutdown.  The flag counts the callers that passed the swap, `done'     *)
(* tells that the read loop is gone for good, and a target that was shut   *)
(* down before that was shut down because a context ended.                 *)
(***************************************************************************)
StopInv ==
    \A h \in Hosts :
        /\ hstop[h] = "none" <=> ~hshutdown[h]
        /\ closes[h] = IF hstop[h] = "returned" THEN 1 ELSE 0
        /\ hdone[h] => hpc[h] = "exited"
        /\ closes[h] > 0 /\ ~expired[h] => hdone[h]

LEMMA StopInit == HostInit => StopInv
<1> SUFFICES ASSUME HostInit, NEW h \in Hosts
             PROVE  /\ hstop[h] = "none" <=> ~hshutdown[h]
                    /\ closes[h] = IF hstop[h] = "returned" THEN 1 ELSE 0
                    /\ hdone[h] => hpc[h] = "exited"
                    /\ closes[h] > 0 /\ ~expired[h] => hdone[h]
    BY DEF StopInv
<1>1. hstop[h] = "none" /\ ~hshutdown[h] /\ closes[h] = 0 /\ ~hdone[h]
    BY DEF HostInit
<1> QED BY <1>1

LEMMA StopStep == TypeInv /\ StopInv /\ [HostNext]_hostVars => StopInv'
<1> SUFFICES ASSUME TypeInv, StopInv, [HostNext]_hostVars PROVE StopInv'
    OBVIOUS
<1> USE DEF StopInv
<1>0. /\ hpc \in [Hosts -> StartPcs] /\ hdone \in [Hosts -> BOOLEAN]
      /\ hshutdown \in [Hosts -> BOOLEAN] /\ hstop \in [Hosts -> {"none", "wait", "returned"}]
      /\ closes \in [Hosts -> Nat] /\ expired \in [Hosts -> BOOLEAN]
    BY DEF TypeInv, HostTypeOK, ChanOK, StartOK, TargetOK, HistoryOK
<1>1. ASSUME NEW h \in Hosts, NewTargetHost(h) PROVE StopInv'
    BY <1>0, <1>1 DEF NewTargetHost, chanVars, targetVars, historyVars
<1>2. ASSUME NEW h \in Hosts, HostLoop(h), ~StartQuit(h) PROVE StopInv'
    <2>1. /\ hpc[h] # "exited"
          /\ \A g \in Hosts : g # h => hpc'[g] = hpc[g]
          /\ UNCHANGED <<hstop, hshutdown, hdone, closes, expired>>
        BY <1>0, <1>2 DEF HostLoop, StartRecv, StartWrite, WriteRecOK, WriteRecErr, StartPanic,
           FlushRecv, FlushWrite, FlushDrained, FlushSignal, chanVars, targetVars, historyVars
    <2> QED BY <1>0, <2>1
<1>3. ASSUME NEW h \in Hosts, StartQuit(h) PROVE StopInv'
    BY <1>0, <1>3 DEF StartQuit, targetVars, historyVars
<1>4. ASSUME NEW h \in Hosts, ShutdownBegin(h) PROVE StopInv'
    BY <1>0, <1>4 DEF ShutdownBegin, startVars, targetVars, historyVars
<1>5. ASSUME NEW h \in Hosts, ShutdownEnd(h) PROVE StopInv'
    BY <1>0, <1>5 DEF ShutdownEnd, startVars, Inc
<1>6. ASSUME NEW f \in Feeders, LogCall(f) \/ LogStep(f) PROVE StopInv'
    <2>1. UNCHANGED <<hpc, hstop, hshutdown, hdone, closes, expired>>
        BY <1>6 DEF LogCall, LogStep, LogRefused, LogEnter, LogSend, LogDrop, LogBlock, LogPanic,
           LogTimeout, chanVars, startVars, targetVars, historyVars
    <2> QED BY <2>1
<1>7. CASE UNCHANGED hostVars
    BY <1>7 DEF hostVars, chanVars, startVars, targetVars, historyVars
<1> QED
    BY <1>1, <1>2, <1>3, <1>4, <1>5, <1>6, <1>7 DEF HostNext, HostStep

\* TypeInv and StopInv hold throughout.
LEMMA StopAlways == HostSpec => [](TypeInv /\ StopInv)
BY TypeInit, TypeStep, StopInit, StopStep, PTL DEF HostSpec

\* However many goroutines shut a host down, its target is shut down once.
THEOREM ClosedAtMostOnce == HostSpec => []ClosedOnce
<1>1. TypeInv /\ StopInv => ClosedOnce
    <2> SUFFICES ASSUME StopInv, NEW h \in Hosts PROVE closes[h] <= 1
        BY DEF ClosedOnce
    <2>1. closes[h] = 0 \/ closes[h] = 1
        BY DEF StopInv
    <2> QED BY <2>1
<1> QED BY <1>1, StopAlways, PTL

\* Nothing is written to a target that was shut down in time.
THEOREM NoWriteAfterClose == HostSpec => SilentAfterClose
<1>1. TypeInv /\ StopInv /\ [HostNext]_hostVars
        => [\A h \in Hosts : closes[h] > 0 /\ ~expired[h] => out'[h] = out[h]]_hostVars
    <2> SUFFICES ASSUME TypeInv, StopInv, HostNext,
                        NEW g \in Hosts, closes[g] > 0, ~expired[g]
                 PROVE  out'[g] = out[g]
        OBVIOUS
    <2>1. hpc[g] = "exited"
        BY DEF StopInv
    <2>2. out \in [Hosts -> Seq(LogRec)]
        BY DEF TypeInv, HostTypeOK, TargetOK
    <2>3. ASSUME NEW h \in Hosts, StartWrite(h) \/ FlushWrite(h) PROVE out'[g] = out[g]
        <3>1. h # g
            BY <2>1, <2>3 DEF StartWrite, FlushWrite
        <3>2. out' = out \/ out' = [out EXCEPT ![h] = Append(@, hrec[h])]
            BY <2>3 DEF StartWrite, FlushWrite, WriteRecOK, WriteRecErr
        <3> QED BY <2>2, <3>1, <3>2
    <2>4. ASSUME NEW h \in Hosts,
                 \/ NewTargetHost(h) \/ StartRecv(h) \/ StartQuit(h) \/ StartPanic(h)
                 \/ FlushRecv(h) \/ FlushDrained(h) \/ FlushSignal(h)
                 \/ ShutdownBegin(h) \/ ShutdownEnd(h)
          PROVE  out'[g] = out[g]
        BY <2>4 DEF NewTargetHost, StartRecv, StartQuit, StartPanic, FlushRecv, FlushDrained,
           FlushSignal, ShutdownBegin, ShutdownEnd, targetVars
    <2>5. ASSUME NEW f \in Feeders, LogCall(f) \/ LogStep(f) PROVE out'[g] = out[g]
        BY <2>5 DEF LogCall, LogStep, LogRefused, LogEnter, LogSend, LogDrop, LogBlock, LogPanic,
           LogTimeout, targetVars
    <2> QED BY <2>3, <2>4, <2>5 DEF HostNext, HostStep, HostLoop
<1> QED BY <1>1, StopAlways, PTL DEF HostSpec, SilentAfterClose

-----------------------------------------------------------------------------
(***************************************************************************)
(* The flush handshake.  FlushHandshake is inductive on top of the types:  *)
(* a feeder that waits has at most one flush record under way, because it  *)
(* was in Log, not waiting, when it sent the record.                       *)
(***************************************************************************)
Waits(h, f) == fpc[f] = "await" /\ fhost[f] = h
Queued(h, f) == \E i \in DOMAIN hin[h] : hin[h][i].flush = f
QueuedOnce(h, f) ==
    \A i, j \in DOMAIN hin[h] : hin[h][i].flush = f /\ hin[h][j].flush = f => i = j

\* FlushHandshake, for one host and one feeder.
Handshake(h, f) ==
    /\ Flushing(h, f) \/ Queued(h, f) => Waits(h, f)
    /\ Queued(h, f) => ~Flushing(h, f)
    /\ QueuedOnce(h, f)

LEMMA HandshakeDef == FlushHandshake <=> \A h \in Hosts, f \in Feeders : Handshake(h, f)
BY DEF FlushHandshake, Handshake, FlushQueued, Queued, QueuedOnce, Waits

\* What happens to the flush records of a queue whose head is taken.
LEMMA TakeHead ==
    ASSUME NEW q \in Seq(LogRec), q # <<>>
    PROVE  /\ 1 \in DOMAIN q /\ Head(q) = q[1]
           /\ \A i \in DOMAIN Tail(q) : i + 1 \in DOMAIN q /\ i + 1 # 1 /\ Tail(q)[i] = q[i + 1]
           /\ \A i, j \in DOMAIN Tail(q) : i + 1 = j + 1 => i = j
OBVIOUS

LEMMA PutLast ==
    ASSUME NEW q \in Seq(LogRec), NEW rec \in LogRec
    PROVE  \A i \in DOMAIN Append(q, rec) :
              \/ i \in DOMAIN q /\ Append(q, rec)[i] = q[i]
              \/ i = Len(q) + 1 /\ Append(q, rec)[i] = rec
OBVIOUS

LEMMA HandshakeInit == HostInit => FlushHandshake
<1> SUFFICES ASSUME HostInit, NEW h \in Hosts, NEW f \in Feeders PROVE Handshake(h, f)
    BY HandshakeDef
<1>1. hin[h] = <<>> /\ hpc[h] \in {"none", "select"}
    BY DEF HostInit
<1> QED BY <1>1 DEF Handshake, Queued, QueuedOnce, Flushing

\* Steps that leave the queue of h, its read loop and f as they are.
LEMMA HandshakeFrame ==
    ASSUME NEW h, NEW f, Handshake(h, f),
           hin'[h] = hin[h], hpc'[h] = hpc[h], hflush'[h] = hflush[h],
           fpc'[f] = fpc[f], fhost'[f] = fhost[f]
    PROVE  Handshake(h, f)'
BY DEF Handshake, Queued, QueuedOnce, Flushing, Waits

LEMMA HandshakeStep ==
    TypeInv /\ FlushHandshake /\ [HostNext]_hostVars => FlushHandshake'
<1> SUFFICES ASSUME TypeInv, FlushHandshake, [HostNext]_hostVars,
                    NEW h \in Hosts, NEW f \in Feeders
             PROVE  Handshake(h, f)'
    BY DEF FlushHandshake, Handshake, FlushQueued, Queued, QueuedOnce, Waits
<1>h. \A x \in Hosts, e \in Feeders : Handshake(x, e)
    BY HandshakeDef
<1>t. /\ hin \in [Hosts -> Seq(LogRec)] /\ hpc \in [Hosts -> StartPcs]
      /\ hflush \in [Hosts -> Feeders \cup {nil}] /\ fpc \in [Feeders -> FeedPcs]
      /\ fhost \in [Feeders -> Hosts \cup {nil}] /\ frec \in [Feeders -> LogRec]
    BY DEF TypeInv, HostTypeOK, ChanOK, StartOK, FeedOK
<1>n. nil \notin Feeders
    BY HostAssumption
<1>1. ASSUME NEW g \in Hosts, NewTargetHost(g) PROVE Handshake(h, f)'
    <2>1. UNCHANGED <<hin, hflush, fpc, fhost>>
        BY <1>1 DEF NewTargetHost, chanVars, feedVars
    <2>2. CASE h = g
        BY <1>1, <1>h, <1>t, <2>1, <2>2
        DEF NewTargetHost, Handshake, Queued, QueuedOnce, Flushing, Waits
    <2>3. CASE h # g
        BY <1>1, <1>h, <1>t, <2>1, <2>3, HandshakeFrame DEF NewTargetHost
    <2> QED BY <2>2, <2>3
<1>2. ASSUME NEW g \in Hosts, StartRecv(g) \/ FlushRecv(g) PROVE Handshake(h, f)'
    <2>1. UNCHANGED <<fpc, fhost>>
        BY <1>2 DEF StartRecv, FlushRecv, feedVars
    <2>2. CASE h # g
        BY <1>2, <1>h, <1>t, <2>1, <2>2, HandshakeFrame DEF StartRecv, FlushRecv
    <2>3. CASE h = g
        <3>1. hin[h] \in Seq(LogRec) /\ hin[h] # <<>> /\ hin'[h] = Tail(hin[h])
            BY <1>2, <1>t, <2>3 DEF StartRecv, FlushRecv
        <3>2. Queued(h, f)' => Queued(h, f) /\ Head(hin[h]).flush # f
            BY <1>h, <3>1, TakeHead DEF Queued, QueuedOnce, Handshake
        <3>3. QueuedOnce(h, f)'
            BY <1>h, <3>1, TakeHead DEF QueuedOnce, Handshake
        <3>4. Head(hin[h]).flush = f => Queued(h, f)
            BY <3>1, TakeHead DEF Queued
        <3>5. Flushing(h, f)' => Flushing(h, f) \/ Head(hin[h]).flush = f
            BY <1>2, <1>t, <2>3 DEF StartRecv, FlushRecv, Flushing
        <3>6. Waits(h, f)' <=> Waits(h, f)
            BY <2>1 DEF Waits
        <3> QED BY <1>h, <3>2, <3>3, <3>4, <3>5, <3>6 DEF Handshake
    <2> QED BY <2>2, <2>3
<1>3. ASSUME NEW g \in Hosts,
             \/ StartQuit(g) \/ StartWrite(g) \/ StartPanic(g) \/ FlushWrite(g) \/ FlushDrained(g)
      PROVE  Handshake(h, f)'
    <2>1. UNCHANGED <<hin, fpc, fhost>>
        BY <1>3 DEF StartQuit, StartWrite, StartPanic, FlushWrite, FlushDrained, chanVars, feedVars
    <2>2. CASE h # g
        <3>1. hpc'[h] = hpc[h] /\ hflush'[h] = hflush[h]
            BY <1>3, <1>t, <2>2 DEF StartQuit, StartWrite, StartPanic, FlushWrite, FlushDrained,
               WriteRecOK, WriteRecErr
        <3> QED BY <1>h, <2>1, <3>1, HandshakeFrame
    <2>3. CASE h = g
        <3>1. Flushing(h, f)' => Flushing(h, f)
            BY <1>3, <1>t, <2>3 DEF StartQuit, StartWrite, StartPanic, FlushWrite, FlushDrained,
               WriteRecOK, WriteRecErr, Flushing
        <3>2. /\ Queued(h, f)' <=> Queued(h, f)
              /\ QueuedOnce(h, f)' <=> QueuedOnce(h, f)
              /\ Waits(h, f)' <=> Waits(h, f)
            BY <2>1 DEF Queued, QueuedOnce, Waits
        <3> QED BY <1>h, <3>1, <3>2 DEF Handshake
    <2> QED BY <2>2, <2>3
<1>4. ASSUME NEW g \in Hosts, FlushSignal(g) PROVE Handshake(h, f)'
    <2>1. /\ UNCHANGED hin
          /\ hpc' = [hpc EXCEPT ![g] = "select"]
          /\ hflush' = [hflush EXCEPT ![g] = nil]
          /\ fpc' = [fpc EXCEPT ![hflush[g]] = "idle"]
          /\ fhost' = [fhost EXCEPT ![hflush[g]] = nil]
          /\ hpc[g] = "signal" /\ fhost[hflush[g]] = g
        BY <1>4 DEF FlushSignal, chanVars
    <2>2. /\ Queued(h, f)' <=> Queued(h, f)
          /\ QueuedOnce(h, f)' <=> QueuedOnce(h, f)
        BY <2>1 DEF Queued, QueuedOnce
    <2>3. CASE f = hflush[g]
        <3>1. ~Queued(h, f)
            BY <1>h, <2>1, <2>3 DEF Handshake, Flushing, Waits
        <3>2. ~Flushing(h, f)'
            BY <1>h, <1>t, <2>1, <2>3 DEF Handshake, Flushing, Waits
        <3> QED BY <1>h, <2>2, <3>1, <3>2 DEF Handshake
    <2>4. CASE f # hflush[g]
        <3>1. Waits(h, f)' <=> Waits(h, f)
            BY <1>t, <2>1, <2>4 DEF Waits
        <3>2. Flushing(h, f)' => Flushing(h, f)
            BY <1>t, <2>1, <2>4 DEF Flushing
        <3> QED BY <1>h, <2>2, <3>1, <3>2 DEF Handshake
    <2> QED BY <2>3, <2>4
<1>5. ASSUME NEW g \in Hosts, ShutdownBegin(g) \/ ShutdownEnd(g) PROVE Handshake(h, f)'
    BY <1>5, <1>h, HandshakeFrame DEF ShutdownBegin, ShutdownEnd, startVars, feedVars
<1>6. ASSUME NEW e \in Feeders,
             \/ LogCall(e) \/ LogDrop(e) \/ LogBlock(e) \/ LogPanic(e) \/ LogTimeout(e)
      PROVE  Handshake(h, f)'
    <2>1. /\ UNCHANGED <<hin, hpc, hflush>>
          /\ fpc[e] # "await"
          /\ \A x \in Feeders : x # e => fpc'[x] = fpc[x] /\ fhost'[x] = fhost[x]
        BY <1>6, <1>t DEF LogCall, LogRefused, LogEnter, LogDrop, LogBlock, LogPanic, LogTimeout,
           LogReturns, chanVars, startVars
    <2>2. CASE f # e
        BY <1>h, <2>1, <2>2, HandshakeFrame
    <2>3. CASE f = e
        <3>1. ~Flushing(h, f) /\ ~Queued(h, f)
            BY <1>h, <2>1, <2>3 DEF Handshake, Waits
        <3>2. ~Flushing(h, f)' /\ ~Queued(h, f)' /\ (QueuedOnce(h, f)' <=> QueuedOnce(h, f))
            BY <2>1, <3>1 DEF Flushing, Queued, QueuedOnce
        <3> QED BY <1>h, <3>1, <3>2 DEF Handshake
    <2> QED BY <2>2, <2>3
<1>7. ASSUME NEW e \in Feeders, LogSend(e) PROVE Handshake(h, f)'
    <2>1. /\ fhost[e] \in Hosts /\ frec[e] \in LogRec /\ frec[e].flush \in {nil, e}
          /\ fpc[e] \in {"send", "blocked"}
        BY <1>7, <1>t, RecordsAreLogRecs DEF LogSend, TypeInv, Calling
    <2>2. /\ UNCHANGED <<hpc, hflush>>
          /\ hin' = [hin EXCEPT ![fhost[e]] = Append(@, frec[e])]
          /\ fpc' = [fpc EXCEPT ![e] = IF frec[e].flush = nil THEN "idle" ELSE "await"]
          /\ fhost' = [fhost EXCEPT ![e] = IF frec[e].flush = nil THEN nil ELSE fhost[e]]
        BY <1>7 DEF LogSend, LogReturns, startVars
    <2>3. CASE f # e
        <3>1. Waits(h, f)' <=> Waits(h, f)
            BY <1>t, <2>2, <2>3 DEF Waits
        <3>2. Flushing(h, f)' <=> Flushing(h, f)
            BY <2>2 DEF Flushing
        <3>3. CASE h # fhost[e]
            BY <1>h, <1>t, <2>1, <2>2, <2>3, <3>3, HandshakeFrame
        <3>4. CASE h = fhost[e]
            <4>1. hin'[h] = Append(hin[h], frec[e]) /\ hin[h] \in Seq(LogRec) /\ frec[e].flush # f
                BY <1>t, <1>n, <2>1, <2>2, <2>3, <3>4
            <4>2. \A i \in DOMAIN hin'[h] : hin'[h][i].flush = f
                      => i \in DOMAIN hin[h] /\ hin[h][i].flush = f
                BY <2>1, <4>1, PutLast
            <4>3. (Queued(h, f)' => Queued(h, f)) /\ (QueuedOnce(h, f) => QueuedOnce(h, f)')
                BY <4>2 DEF Queued, QueuedOnce
            <4> QED BY <1>h, <3>1, <3>2, <4>3 DEF Handshake
        <3> QED BY <3>3, <3>4
    <2>4. CASE f = e
        <3>1. ~Flushing(h, f) /\ ~Queued(h, f)
            BY <1>h, <2>1, <2>4 DEF Handshake, Waits
        <3>2. ~Flushing(h, f)'
            BY <2>2, <3>1 DEF Flushing
        <3>3. CASE h # fhost[e]
            <4>1. hin'[h] = hin[h]
                BY <1>t, <2>2, <3>3
            <4>2. ~Queued(h, f)' /\ (QueuedOnce(h, f)' <=> QueuedOnce(h, f))
                BY <3>1, <4>1 DEF Queued, QueuedOnce
            <4> QED BY <1>h, <3>2, <4>2 DEF Handshake
        <3>4. CASE h = fhost[e]
            <4>1. hin'[h] = Append(hin[h], frec[e]) /\ hin[h] \in Seq(LogRec)
                BY <1>t, <2>1, <2>2, <3>4
            <4>2. \A i \in DOMAIN hin'[h] : hin'[h][i].flush = f
                      => i = Len(hin[h]) + 1 /\ frec[e].flush = f
                BY <2>1, <3>1, <4>1, PutLast DEF Queued
            <4>3. QueuedOnce(h, f)'
                BY <4>2 DEF QueuedOnce
            <4>4. Queued(h, f)' => Waits(h, f)'
                BY <1>t, <1>n, <2>1, <2>2, <2>4, <3>4, <4>2 DEF Queued, Waits
            <4> QED BY <3>2, <4>3, <4>4 DEF Handshake
        <3> QED BY <3>3, <3>4
    <2> QED BY <2>3, <2>4
<1>8. CASE UNCHANGED hostVars
    BY <1>8, <1>h, HandshakeFrame DEF hostVars, chanVars, startVars, feedVars
<1> QED
    BY <1>1, <1>2, <1>3, <1>4, <1>5, <1>6, <1>7, <1>8
    DEF HostNext, HostStep, HostLoop, LogStep

\* A host that has finished a flush always finds the caller that waits for it,
\* so no read loop is ever stuck on a flush channel.
THEOREM HandshakeHolds == HostSpec => []FlushHandshake
BY TypeInit, TypeStep, HandshakeInit, HandshakeStep, PTL DEF HostSpec

-----------------------------------------------------------------------------
(***************************************************************************)
(* Accounting.  NothingVanishes is inductive on top of the types.          *)
(***************************************************************************)
Balanced(h) ==
    sent[h] = Len(hin[h]) + InHand(h) + Len(out[h]) + errors[h] + panics[h] + flushes[h]

LEMMA BalanceFrame ==
    ASSUME NEW h, Balanced(h),
           hin'[h] = hin[h], InHand(h)' = InHand(h), out'[h] = out[h], sent'[h] = sent[h],
           errors'[h] = errors[h], panics'[h] = panics[h], flushes'[h] = flushes[h]
    PROVE  Balanced(h)'
BY DEF Balanced

LEMMA BalanceInit == HostInit => NothingVanishes
<1> SUFFICES ASSUME HostInit, NEW h \in Hosts PROVE Balanced(h)
    BY DEF NothingVanishes, Balanced
<1>1. /\ hin[h] = <<>> /\ out[h] = <<>> /\ sent[h] = 0 /\ errors[h] = 0 /\ panics[h] = 0
      /\ flushes[h] = 0 /\ hpc[h] \in {"none", "select"}
    BY DEF HostInit
<1> QED BY <1>1 DEF Balanced, InHand

LEMMA BalanceStep ==
    TypeInv /\ NothingVanishes /\ [HostNext]_hostVars => NothingVanishes'
<1> SUFFICES ASSUME TypeInv, NothingVanishes, [HostNext]_hostVars, NEW h \in Hosts
             PROVE  Balanced(h)'
    BY DEF NothingVanishes, Balanced
<1>b. Balanced(h)
    BY DEF NothingVanishes, Balanced
<1>t. /\ hin \in [Hosts -> Seq(LogRec)] /\ out \in [Hosts -> Seq(LogRec)]
      /\ hpc \in [Hosts -> StartPcs] /\ hrec \in [Hosts -> LogRec]
      /\ sent \in [Hosts -> Nat] /\ errors \in [Hosts -> Nat]
      /\ panics \in [Hosts -> Nat] /\ flushes \in [Hosts -> Nat]
    BY DEF TypeInv, HostTypeOK, ChanOK, StartOK, TargetOK, MetricOK, HistoryOK
<1>l. /\ Len(hin[h]) \in Nat /\ Len(out[h]) \in Nat /\ sent[h] \in Nat /\ errors[h] \in Nat
      /\ panics[h] \in Nat /\ flushes[h] \in Nat
    BY <1>t
<1>i. InHand(h) \in Nat
    BY DEF InHand
<1> DEFINE q == Len(hin[h])
           k == InHand(h)
           o == Len(out[h])
           r == errors[h]
           p == panics[h]
           f == flushes[h]
           s == sent[h]
<1>n. q \in Nat /\ k \in Nat /\ o \in Nat /\ r \in Nat /\ p \in Nat /\ f \in Nat /\ s \in Nat
    BY <1>l, <1>i
<1>s. s = q + k + o + r + p + f
    BY <1>b DEF Balanced
<1> HIDE DEF q, k, o, r, p, f, s
<1>m. /\ s = (q - 1) + k + o + r + p + (f + 1)
      /\ s = (q - 1) + (k + 1) + o + r + p + f
      /\ k = 1 => s = q + 0 + (o + 1) + r + p + f
      /\ k = 1 => s = q + 0 + o + (r + 1) + p + f
      /\ k = 1 => s = q + 0 + o + r + (p + 1) + f
      /\ s + 1 = (q + 1) + k + o + r + p + f
    BY <1>n, <1>s
<1>1. ASSUME NEW g \in Hosts,
             \/ NewTargetHost(g) \/ StartQuit(g) \/ FlushDrained(g) \/ FlushSignal(g)
             \/ ShutdownBegin(g) \/ ShutdownEnd(g)
      PROVE  Balanced(h)'
    <2>1. UNCHANGED <<hin, out, sent, errors, panics, flushes>>
        BY <1>1 DEF NewTargetHost, StartQuit, FlushDrained, FlushSignal, ShutdownBegin, ShutdownEnd,
           chanVars, metricVars, targetVars, historyVars
    <2>2. InHand(h)' = InHand(h)
        BY <1>1, <1>t DEF NewTargetHost, StartQuit, FlushDrained, FlushSignal, ShutdownBegin,
           ShutdownEnd, startVars, InHand
    <2> QED BY <1>b, <2>1, <2>2, BalanceFrame
<1>2. ASSUME NEW g \in Hosts, StartRecv(g) \/ FlushRecv(g) PROVE Balanced(h)'
    <2>1. UNCHANGED <<out, sent, errors, panics>>
        BY <1>2 DEF StartRecv, FlushRecv, metricVars, targetVars
    <2>2. CASE h # g
        <3>1. hin'[h] = hin[h] /\ flushes'[h] = flushes[h] /\ InHand(h)' = InHand(h)
            BY <1>2, <1>t, <2>2 DEF StartRecv, FlushRecv, Inc, InHand
        <3> QED BY <1>b, <2>1, <3>1, BalanceFrame
    <2>3. CASE h = g
        <3>1. hin[h] # <<>> /\ hin'[h] = Tail(hin[h])
            BY <1>2, <1>t, <2>3 DEF StartRecv, FlushRecv
        <3>2. Len(hin'[h]) = Len(hin[h]) - 1
            BY <1>t, <3>1, TailType
        <3>3. \/ flushes'[h] = flushes[h] + 1 /\ InHand(h)' = InHand(h)
              \/ flushes'[h] = flushes[h] /\ InHand(h)' = InHand(h) + 1
            BY <1>2, <1>t, <2>3 DEF StartRecv, FlushRecv, Inc, InHand
        <3>6. CASE flushes'[h] = flushes[h] + 1 /\ InHand(h)' = InHand(h)
            <4>r. sent[h] = (Len(hin[h]) - 1) + InHand(h) + Len(out[h]) + errors[h] + panics[h] + (flushes[h] + 1)
                BY <1>m DEF q, k, o, r, p, f, s
            <4> QED BY <2>1, <3>2, <3>6, <4>r DEF Balanced
        <3>7. CASE flushes'[h] = flushes[h] /\ InHand(h)' = InHand(h) + 1
            <4>r. sent[h] = (Len(hin[h]) - 1) + (InHand(h) + 1) + Len(out[h]) + errors[h] + panics[h] + flushes[h]
                BY <1>m DEF q, k, o, r, p, f, s
            <4> QED BY <2>1, <3>2, <3>7, <4>r DEF Balanced
        <3> QED BY <3>3, <3>6, <3>7
    <2> QED BY <2>2, <2>3
<1>3. ASSUME NEW g \in Hosts, StartWrite(g) \/ FlushWrite(g) PROVE Balanced(h)'
    <2>1. UNCHANGED <<hin, sent, panics, flushes>>
        BY <1>3 DEF StartWrite, FlushWrite, chanVars, historyVars
    <2>2. /\ hpc[g] \in {"write", "fwrite"}
          /\ hpc' = [hpc EXCEPT ![g] = "select"] \/ hpc' = [hpc EXCEPT ![g] = "flush"]
          /\ \/ out' = [out EXCEPT ![g] = Append(@, hrec[g])] /\ errors' = errors
             \/ out' = out /\ errors' = Inc(errors, g)
        BY <1>3 DEF StartWrite, FlushWrite, WriteRecOK, WriteRecErr
    <2>3. CASE h # g
        <3>1. out'[h] = out[h] /\ errors'[h] = errors[h] /\ InHand(h)' = InHand(h)
            BY <1>t, <2>2, <2>3 DEF Inc, InHand
        <3> QED BY <1>b, <2>1, <3>1, BalanceFrame
    <2>4. CASE h = g
        <3>1. InHand(h) = 1 /\ InHand(h)' = 0
            BY <1>t, <2>2, <2>4 DEF InHand
        <3>2. \/ Len(out'[h]) = Len(out[h]) + 1 /\ errors'[h] = errors[h]
              \/ Len(out'[h]) = Len(out[h]) /\ errors'[h] = errors[h] + 1
            BY <1>t, <2>2, <2>4, AppendType DEF Inc
        <3>3. CASE Len(out'[h]) = Len(out[h]) + 1 /\ errors'[h] = errors[h]
            <4>r. sent[h] = Len(hin[h]) + 0 + (Len(out[h]) + 1) + errors[h] + panics[h] + flushes[h]
                BY <1>m, <3>1 DEF q, k, o, r, p, f, s
            <4> QED BY <2>1, <3>1, <3>3, <4>r DEF Balanced
        <3>4. CASE Len(out'[h]) = Len(out[h]) /\ errors'[h] = errors[h] + 1
            <4>r. sent[h] = Len(hin[h]) + 0 + Len(out[h]) + (errors[h] + 1) + panics[h] + flushes[h]
                BY <1>m, <3>1 DEF q, k, o, r, p, f, s
            <4> QED BY <2>1, <3>1, <3>4, <4>r DEF Balanced
        <3> QED BY <3>2, <3>3, <3>4
    <2> QED BY <2>3, <2>4
<1>4. ASSUME NEW g \in Hosts, StartPanic(g) PROVE Balanced(h)'
    <2>1. /\ UNCHANGED <<hin, out, sent, errors, flushes>>
          /\ panics' = Inc(panics, g) /\ hpc[g] \in {"write", "fwrite"}
          /\ hpc' = [hpc EXCEPT ![g] = "select"]
        BY <1>4 DEF StartPanic, chanVars, metricVars, targetVars
    <2>2. CASE h # g
        <3>1. panics'[h] = panics[h] /\ InHand(h)' = InHand(h)
            BY <1>t, <2>1, <2>2 DEF Inc, InHand
        <3> QED BY <1>b, <2>1, <3>1, BalanceFrame
    <2>3. CASE h = g
        <3>1. InHand(h) = 1 /\ InHand(h)' = 0 /\ panics'[h] = panics[h] + 1
            BY <1>t, <2>1, <2>3 DEF Inc, InHand
        <3>r. sent[h] = Len(hin[h]) + 0 + Len(out[h]) + errors[h] + (panics[h] + 1) + flushes[h]
            BY <1>m, <3>1 DEF q, k, o, r, p, f, s
        <3> QED BY <2>1, <3>1, <3>r DEF Balanced
    <2> QED BY <2>2, <2>3
<1>5. ASSUME NEW e \in Feeders,
             \/ LogCall(e) \/ LogDrop(e) \/ LogBlock(e) \/ LogPanic(e) \/ LogTimeout(e)
      PROVE  Balanced(h)'
    <2>1. UNCHANGED <<hin, hpc, out, sent, errors, panics, flushes>>
        BY <1>5 DEF LogCall, LogRefused, LogEnter, LogDrop, LogBlock, LogPanic, LogTimeout,
           chanVars, startVars, metricVars, targetVars, historyVars
    <2> QED BY <1>b, <2>1, BalanceFrame DEF InHand
<1>6. ASSUME NEW e \in Feeders, LogSend(e) PROVE Balanced(h)'
    <2>1. fhost[e] \in Hosts /\ frec[e] \in LogRec
        BY <1>6, RecordsAreLogRecs DEF LogSend, TypeInv, Calling
    <2>2. /\ UNCHANGED <<hpc, out, errors, panics, flushes>>
          /\ hin' = [hin EXCEPT ![fhost[e]] = Append(@, frec[e])]
          /\ sent' = Inc(sent, fhost[e])
        BY <1>6 DEF LogSend, startVars, metricVars, targetVars
    <2>3. InHand(h)' = InHand(h) /\ InHand(h) \in Nat
        BY <2>2 DEF InHand
    <2>4. CASE h # fhost[e]
        <3>1. hin'[h] = hin[h] /\ sent'[h] = sent[h]
            BY <1>t, <2>2, <2>4 DEF Inc
        <3> QED BY <1>b, <2>2, <2>3, <3>1, BalanceFrame
    <2>5. CASE h = fhost[e]
        <3>1. Len(hin'[h]) = Len(hin[h]) + 1 /\ sent'[h] = sent[h] + 1
            BY <1>t, <2>1, <2>2, <2>5, AppendType DEF Inc
        <3>r. sent[h] + 1 = (Len(hin[h]) + 1) + InHand(h) + Len(out[h]) + errors[h] + panics[h] + flushes[h]
            BY <1>m DEF q, k, o, r, p, f, s
        <3> QED BY <2>2, <2>3, <3>1, <3>r DEF Balanced
    <2> QED BY <2>4, <2>5
<1>7. CASE UNCHANGED hostVars
    <2>1. UNCHANGED <<hin, hpc, out, sent, errors, panics, flushes>>
        BY <1>7 DEF hostVars, chanVars, startVars, metricVars, targetVars, historyVars
    <2> QED BY <1>b, <2>1, BalanceFrame DEF InHand
<1> QED
    BY <1>1, <1>2, <1>3, <1>4, <1>5, <1>6, <1>7 DEF HostNext, HostStep, HostLoop, LogStep

\* Every record that was put into the channel of a host is accounted for.
THEOREM AllRecordsAccounted == HostSpec => []NothingVanishes
BY TypeInit, TypeStep, BalanceInit, BalanceStep, PTL DEF HostSpec

=============================================================================
