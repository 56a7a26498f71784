----------------------------- MODULE TargetHost -----------------------------
(***************************************************************************)
(* The hosts of a Logr (target.go).  A TargetHost owns one target, a       *)
(* bounded channel of log records and the goroutine `start' that takes     *)
(* records from the channel and writes them to the target.  Two kinds of   *)
(* goroutine act on a host from outside:                                   *)
(*                                                                         *)
(*   - feeders call TargetHost.Log.  A feeder that logged a flush record   *)
(*     then waits for `<-rec.flush', as Logr.flush does (logr.go:490-492); *)
(*   - whoever removes the host or shuts the Logr down calls               *)
(*     TargetHost.Shutdown.                                                *)
(*                                                                         *)
(* In the program the only feeder is the read loop of the Logr.  Nothing   *)
(* in target.go depends on that, so this module allows any set of them;    *)
(* module Logr composes the hosts with the one feeder that exists.         *)
(***************************************************************************)
EXTENDS Naturals, Sequences

CONSTANTS
    Hosts,              \* the TargetHost values that may ever be created
    Feeders,            \* goroutines that call TargetHost.Log
    Levels,             \* log levels
    Filter,             \* Filter[h]: the levels h.filter enables
    MaxTargetQueue,     \* MaxTargetQueue[h]: the capacity of h.in (maxQueueSize)
    OnTargetQueueFull,  \* the answers that handler may give: "drop", "block"
    Faults,             \* what may go wrong around the hosts, see FaultNames
    Stamps,             \* the sequence numbers records may carry
    nil

\* initError: Target.Init fails.  writeError, writePanic: formatting or
\* Target.Write fails or panics.  handlerPanic: the OnTargetQueueFull callback
\* panics.  targetTimeout: a blocked Log waits longer than enqueueTimeout.
\* ctxTimeout: the context given to Shutdown (or to Flush) is done too early.
\* The others concern module Logr.
FaultNames == {"initError", "writeError", "writePanic", "handlerPanic",
               "targetTimeout", "ctxTimeout", "enqueueTimeout", "filterPanic"}

ASSUME HostAssumption ==
    /\ MaxTargetQueue \in [Hosts -> Nat]
    /\ OnTargetQueueFull \in (SUBSET {"drop", "block"}) \ {{}}
    /\ Faults \subseteq FaultNames
    /\ Filter \in [Hosts -> SUBSET Levels]
    /\ Stamps \subseteq Nat
    /\ 0 \in Stamps
    /\ nil \notin Hosts \cup Feeders \cup Levels

(***************************************************************************)
(* A LogRec as far as the queues tell records apart: `flush' is the        *)
(* goroutine that waits on the record's flush channel, nil when the record *)
(* is not a flush record (logrec.go:14-35).  `seq' numbers the records in  *)
(* the order in which the Logr accepted them.                              *)
(***************************************************************************)
LogRec == [seq : Stamps, level : Levels \cup {nil}, flush : Feeders \cup {nil}]
NoRec  == [seq |-> 0, level |-> nil, flush |-> nil]

\* newFlushLogRec, called by f.
FlushLogRec(f) == [seq |-> 0, level |-> nil, flush |-> f]

\* The records f may pass to Log: ordinary ones of any level, and a flush
\* record that f itself waits for.
RecordsOf(f) ==
    [seq : Stamps, level : Levels, flush : {nil}] \cup {FlushLogRec(f)}

VARIABLES
    \* fields of TargetHost
    hin,        \* the channel `in'
    hquit,      \* `quit' is closed
    hdone,      \* `done' is closed
    hshutdown,  \* the atomic flag `shutdown'
    \* the goroutine `start'
    hpc,        \* where it is
    hrec,       \* the record it is writing
    hflush,     \* the flush channel it must signal
    \* the one call of Shutdown that won the swap of `shutdown'
    hstop,      \* "none", "wait" or "returned"
    \* the goroutines that call Log
    fpc, fhost, frec,
    \* metrics of the host, and errors it gave to Logr.ReportError
    logged, errors, dropped, blocked, reported,
    \* the target
    out,        \* the records written to it, in order
    closes,     \* calls of Target.Shutdown
    \* history
    expired,    \* Shutdown gave up waiting for `done'
    sent,       \* records sent to `in'
    panics,     \* records lost to a recovered panic
    flushes     \* flush records taken from `in'

chanVars    == <<hin, hquit, hdone, hshutdown, hstop>>
startVars   == <<hpc, hrec, hflush>>
feedVars    == <<fpc, fhost, frec>>
metricVars  == <<logged, errors, dropped, blocked, reported>>
targetVars  == <<out, closes>>
historyVars == <<expired, sent, panics, flushes>>
hostVars    == <<chanVars, startVars, feedVars, metricVars, targetVars, historyVars>>

StartPcs == {"none", "failed", "select", "write", "flush", "fwrite", "signal", "exited"}
FeedPcs  == {"idle", "send", "blocked", "await"}

\* An unbuffered channel holds the record that is being handed over.
QueueBound(h) == IF MaxTargetQueue[h] = 0 THEN 1 ELSE MaxTargetQueue[h]

ChanOK ==
    /\ hin \in [Hosts -> Seq(LogRec)]
    /\ \A h \in Hosts : Len(hin[h]) <= QueueBound(h)
    /\ hquit \in [Hosts -> BOOLEAN]
    /\ hdone \in [Hosts -> BOOLEAN]
    /\ hshutdown \in [Hosts -> BOOLEAN]
    /\ hstop \in [Hosts -> {"none", "wait", "returned"}]

StartOK ==
    /\ hpc \in [Hosts -> StartPcs]
    /\ hrec \in [Hosts -> LogRec]
    /\ hflush \in [Hosts -> Feeders \cup {nil}]

FeedOK ==
    /\ fpc \in [Feeders -> FeedPcs]
    /\ fhost \in [Feeders -> Hosts \cup {nil}]
    /\ frec \in [Feeders -> LogRec]

MetricOK ==
    /\ logged \in [Hosts -> Nat]
    /\ errors \in [Hosts -> Nat]
    /\ dropped \in [Hosts -> Nat]
    /\ blocked \in [Hosts -> Nat]
    /\ reported \in [Hosts -> Nat]

TargetOK ==
    /\ out \in [Hosts -> Seq(LogRec)]
    /\ closes \in [Hosts -> Nat]

HistoryOK ==
    /\ expired \in [Hosts -> BOOLEAN]
    /\ sent \in [Hosts -> Nat]
    /\ panics \in [Hosts -> Nat]
    /\ flushes \in [Hosts -> Nat]

\* Every variable keeps its type and no channel holds more than its capacity,
\* which is what `make(chan *LogRec, maxQueueSize)' promises (target.go:66).
HostTypeOK == ChanOK /\ StartOK /\ FeedOK /\ MetricOK /\ TargetOK /\ HistoryOK

\* Any host may have been created before the behaviour starts.
HostInit ==
    /\ hin       = [h \in Hosts |-> <<>>]
    /\ hquit     = [h \in Hosts |-> FALSE]
    /\ hdone     = [h \in Hosts |-> FALSE]
    /\ hshutdown = [h \in Hosts |-> FALSE]
    /\ hstop     = [h \in Hosts |-> "none"]
    /\ hpc       \in [Hosts -> {"none", "select"}]
    /\ hrec      = [h \in Hosts |-> NoRec]
    /\ hflush    = [h \in Hosts |-> nil]
    /\ fpc       = [f \in Feeders |-> "idle"]
    /\ fhost     = [f \in Feeders |-> nil]
    /\ frec      = [f \in Feeders |-> NoRec]
    /\ logged    = [h \in Hosts |-> 0]
    /\ errors    = [h \in Hosts |-> 0]
    /\ dropped   = [h \in Hosts |-> 0]
    /\ blocked   = [h \in Hosts |-> 0]
    /\ reported  = [h \in Hosts |-> 0]
    /\ out       = [h \in Hosts |-> <<>>]
    /\ closes    = [h \in Hosts |-> 0]
    /\ expired   = [h \in Hosts |-> FALSE]
    /\ sent      = [h \in Hosts |-> 0]
    /\ panics    = [h \in Hosts |-> 0]
    /\ flushes   = [h \in Hosts |-> 0]

Inc(f, h) == [f EXCEPT ![h] = @ + 1]

\* newTargetHost succeeded for h.
Created(h) == hpc[h] \notin {"none", "failed"}

(***************************************************************************)
(* newTargetHost: build the host, initialise the target and start the read *)
(* loop; a target whose Init fails leaves no read loop behind.             *)
(***************************************************************************)
NewTargetHost(h) ==
    /\ hpc[h] = "none"
    /\ \/ hpc' = [hpc EXCEPT ![h] = "select"]
       \/ /\ "initError" \in Faults
          /\ hpc' = [hpc EXCEPT ![h] = "failed"]
    /\ UNCHANGED <<chanVars, hrec, hflush, feedVars, metricVars, targetVars, historyVars>>

-----------------------------------------------------------------------------
(***************************************************************************)
(* TargetHost.Log, called by feeder f.                                     *)
(***************************************************************************)

\* Mutant: the caller does not wait for the flush it asked for.
Mut_LogReturns(f, h, rec) ==
    /\ fpc' = [fpc EXCEPT ![f] = "idle"]
    /\ fhost' = [fhost EXCEPT ![f] = nil]
    /\ frec' = [frec EXCEPT ![f] = NoRec]

\* A call of Log returned: the caller goes on, or waits on the flush channel.
LogReturns(f, h, rec) ==
    /\ fpc' = [fpc EXCEPT ![f] = IF rec.flush = nil THEN "idle" ELSE "await"]
    /\ fhost' = [fhost EXCEPT ![f] = IF rec.flush = nil THEN nil ELSE h]
    /\ frec' = [frec EXCEPT ![f] = NoRec]

\* The first test of Log: a host that is shut down ignores the record.
LogRefused(f, h, rec) ==
    /\ fpc[f] = "idle"
    /\ Created(h)
    /\ hshutdown[h]
    /\ LogReturns(f, h, rec)
    /\ UNCHANGED <<chanVars, startVars, metricVars, targetVars, historyVars>>

\* The flag is not set; the caller goes on to the select of Log.
LogEnter(f, h, rec) ==
    /\ fpc[f] = "idle"
    /\ Created(h)
    /\ ~hshutdown[h]
    /\ fpc' = [fpc EXCEPT ![f] = "send"]
    /\ fhost' = [fhost EXCEPT ![f] = h]
    /\ frec' = [frec EXCEPT ![f] = rec]
    /\ UNCHANGED <<chanVars, startVars, metricVars, targetVars, historyVars>>

\* The channel has room.  An unbuffered one (maxQueueSize 0) hands the record to
\* the read loop when that is in the select of start, or in the one of flush and
\* the caller is blocked: two selects with a default never meet.  The record
\* is in hin[h] until the loop goes on.
CanSend(f, h) ==
    \/ Len(hin[h]) < MaxTargetQueue[h]
    \/ /\ MaxTargetQueue[h] = 0 /\ hin[h] = <<>>
       /\ hpc[h] = "select" \/ (hpc[h] = "flush" /\ fpc[f] = "blocked")

\* The send may fall through: an unbuffered channel is full unless the loop has
\* arrived at its select.
Full(h) == Len(hin[h]) >= MaxTargetQueue[h]

\* Mutant: one record more than the channel holds.
Mut_LogSend(f) ==
    LET h == fhost[f] IN
    /\ fpc[f] \in {"send", "blocked"}
    /\ Len(hin[h]) <= QueueBound(h)
    /\ hin' = [hin EXCEPT ![h] = Append(@, frec[f])]
    /\ sent' = Inc(sent, h)
    /\ LogReturns(f, h, frec[f])
    /\ UNCHANGED <<hquit, hdone, hshutdown, hstop, startVars, metricVars, targetVars,
                   expired, panics, flushes>>

\* `case h.in <- rec', of the first select or of the blocking one.
LogSend(f) ==
    LET h == fhost[f] IN
    /\ fpc[f] \in {"send", "blocked"}
    /\ CanSend(f, h)
    /\ hin' = [hin EXCEPT ![h] = Append(@, frec[f])]
    /\ sent' = Inc(sent, h)
    /\ LogReturns(f, h, frec[f])
    /\ UNCHANGED <<hquit, hdone, hshutdown, hstop, startVars, metricVars, targetVars,
                   expired, panics, flushes>>

\* The queue is full and the handler says to drop the record, whatever it is.
LogDrop(f) ==
    LET h == fhost[f] IN
    /\ fpc[f] = "send"
    /\ Full(h)
    /\ "drop" \in OnTargetQueueFull
    /\ dropped' = Inc(dropped, h)
    /\ LogReturns(f, h, frec[f])
    /\ UNCHANGED <<chanVars, startVars, logged, errors, blocked, reported,
                   targetVars, historyVars>>

\* The queue is full and the caller blocks.
LogBlock(f) ==
    LET h == fhost[f] IN
    /\ fpc[f] = "send"
    /\ Full(h)
    /\ "block" \in OnTargetQueueFull
    /\ blocked' = Inc(blocked, h)
    /\ fpc' = [fpc EXCEPT ![f] = "blocked"]
    /\ UNCHANGED <<chanVars, startVars, fhost, frec, logged, errors, dropped, reported,
                   targetVars, historyVars>>

\* The OnTargetQueueFull callback panics: Log unwinds into its caller, which
\* recovers (logr.go:417-424, 445-449) and it does not wait for a flush.
LogPanic(f) ==
    /\ fpc[f] = "send"
    /\ Full(fhost[f])
    /\ "handlerPanic" \in Faults
    /\ fpc' = [fpc EXCEPT ![f] = "idle"]
    /\ fhost' = [fhost EXCEPT ![f] = nil]
    /\ frec' = [frec EXCEPT ![f] = NoRec]
    /\ UNCHANGED <<chanVars, startVars, metricVars, targetVars, historyVars>>

\* The blocked caller gives up after enqueueTimeout and reports the error.
LogTimeout(f) ==
    /\ fpc[f] = "blocked"
    /\ "targetTimeout" \in Faults
    /\ reported' = Inc(reported, fhost[f])
    /\ LogReturns(f, fhost[f], frec[f])
    /\ UNCHANGED <<chanVars, startVars, logged, errors, dropped, blocked,
                   targetVars, historyVars>>

-----------------------------------------------------------------------------
(***************************************************************************)
(* TargetHost.start and TargetHost.flush, the read loop of host h.         *)
(***************************************************************************)

\* `case rec = <-h.in' of start.
StartRecv(h) ==
    LET rec == Head(hin[h]) IN
    /\ hpc[h] = "select"
    /\ hin[h] # <<>>
    /\ hin' = [hin EXCEPT ![h] = Tail(@)]
    /\ IF rec.flush # nil
         THEN /\ hpc' = [hpc EXCEPT ![h] = "flush"]
              /\ hflush' = [hflush EXCEPT ![h] = rec.flush]
              /\ flushes' = Inc(flushes, h)
              /\ UNCHANGED hrec
         ELSE /\ hpc' = [hpc EXCEPT ![h] = "write"]
              /\ hrec' = [hrec EXCEPT ![h] = rec]
              /\ UNCHANGED <<hflush, flushes>>
    /\ UNCHANGED <<hquit, hdone, hshutdown, hstop, feedVars, metricVars, targetVars,
                   expired, sent, panics>>

\* Mutant: the loop returns without close(h.done).
Mut_StartQuit(h) ==
    /\ hpc[h] = "select"
    /\ hquit[h]
    /\ hpc' = [hpc EXCEPT ![h] = "exited"]
    /\ UNCHANGED <<chanVars, hrec, hflush, feedVars, metricVars, targetVars, historyVars>>

\* `case <-h.quit' of start.  A select with several ready cases picks any of
\* them, so the loop may leave records behind in its
\* channel; a record that was handed over is not left behind.
StartQuit(h) ==
    /\ hpc[h] = "select"
    /\ hquit[h]
    /\ MaxTargetQueue[h] = 0 => hin[h] = <<>>
    /\ hpc' = [hpc EXCEPT ![h] = "exited"]
    /\ hdone' = [hdone EXCEPT ![h] = TRUE]
    /\ UNCHANGED <<hin, hquit, hshutdown, hstop, hrec, hflush, feedVars, metricVars,
                   targetVars, historyVars>>

\* The outcomes of writeRec, which leave h's loop at pc.  A record whose level
\* the filter does not enable is an error, as are those of Format and Write.
WriteRecOK(h, pc) ==
    /\ hrec[h].level \in Filter[h]
    /\ out' = [out EXCEPT ![h] = Append(@, hrec[h])]
    /\ hpc' = [hpc EXCEPT ![h] = pc]
    /\ hrec' = [hrec EXCEPT ![h] = NoRec]
    /\ UNCHANGED <<errors, reported>>

\* Mutant: a write that failed, but had an effect, is tried again.
Mut_WriteRecErr(h, pc) ==
    /\ hrec[h].level \notin Filter[h] \/ "writeError" \in Faults
    /\ errors' = Inc(errors, h)
    /\ reported' = Inc(reported, h)
    /\ out' = [out EXCEPT ![h] = Append(@, hrec[h])]
    /\ UNCHANGED <<hpc, hrec>>

WriteRecErr(h, pc) ==
    /\ hrec[h].level \notin Filter[h] \/ "writeError" \in Faults
    /\ errors' = Inc(errors, h)
    /\ reported' = Inc(reported, h)
    /\ hpc' = [hpc EXCEPT ![h] = pc]
    /\ hrec' = [hrec EXCEPT ![h] = NoRec]
    /\ UNCHANGED out

\* start writes the record it received; a success is counted.
StartWrite(h) ==
    /\ hpc[h] = "write"
    /\ \/ /\ WriteRecOK(h, "select")
          /\ logged' = Inc(logged, h)
       \/ /\ WriteRecErr(h, "select")
          /\ UNCHANGED logged
    /\ UNCHANGED <<chanVars, hflush, feedVars, dropped, blocked, closes, historyVars>>

\* Mutant: flush empties the channel without writing what it takes.
Mut_FlushRecv(h) ==
    /\ hpc[h] = "flush"
    /\ hin[h] # <<>>
    /\ hin' = [hin EXCEPT ![h] = Tail(@)]
    /\ UNCHANGED <<hquit, hdone, hshutdown, hstop, startVars, feedVars, metricVars,
                   targetVars, historyVars>>

\* flush takes the next record off the channel; redundant flush records are
\* ignored.
FlushRecv(h) ==
    LET rec == Head(hin[h]) IN
    /\ hpc[h] = "flush"
    /\ hin[h] # <<>>
    /\ hin' = [hin EXCEPT ![h] = Tail(@)]
    /\ IF rec.flush # nil
         THEN /\ flushes' = Inc(flushes, h)
              /\ UNCHANGED <<hpc, hrec>>
         ELSE /\ hpc' = [hpc EXCEPT ![h] = "fwrite"]
              /\ hrec' = [hrec EXCEPT ![h] = rec]
              /\ UNCHANGED flushes
    /\ UNCHANGED <<hquit, hdone, hshutdown, hstop, hflush, feedVars, metricVars, targetVars,
                   expired, sent, panics>>

\* flush writes it; unlike start it counts only failures.
FlushWrite(h) ==
    /\ hpc[h] = "fwrite"
    /\ WriteRecOK(h, "flush") \/ WriteRecErr(h, "flush")
    /\ UNCHANGED <<chanVars, hflush, feedVars, logged, dropped, blocked, closes, historyVars>>

\* `default:' the channel is empty, so flush goes on to `done <- struct{}{}'.
FlushDrained(h) ==
    /\ hpc[h] = "flush"
    /\ hin[h] = <<>>
    /\ hpc' = [hpc EXCEPT ![h] = "signal"]
    /\ UNCHANGED <<chanVars, hrec, hflush, feedVars, metricVars, targetVars, historyVars>>

\* The unbuffered flush channel: sender and receiver meet.
FlushSignal(h) ==
    LET f == hflush[h] IN
    /\ hpc[h] = "signal"
    /\ fpc[f] = "await" /\ fhost[f] = h
    /\ hpc' = [hpc EXCEPT ![h] = "select"]
    /\ hflush' = [hflush EXCEPT ![h] = nil]
    /\ fpc' = [fpc EXCEPT ![f] = "idle"]
    /\ fhost' = [fhost EXCEPT ![f] = nil]
    /\ UNCHANGED <<chanVars, hrec, frec, metricVars, targetVars, historyVars>>

\* Mutant: `defer close(h.done)', also when the loop starts itself again.
Mut_StartPanic(h) ==
    /\ hpc[h] \in {"write", "fwrite"}
    /\ "writePanic" \in Faults
    /\ hpc' = [hpc EXCEPT ![h] = "select"]
    /\ hrec' = [hrec EXCEPT ![h] = NoRec]
    /\ hflush' = [hflush EXCEPT ![h] = nil]
    /\ hdone' = [hdone EXCEPT ![h] = TRUE]
    /\ panics' = Inc(panics, h)
    /\ UNCHANGED <<hin, hquit, hshutdown, hstop, feedVars, metricVars, targetVars, expired,
                   sent, flushes>>

\* Formatting or writing panics: start recovers and starts itself again.  The
\* record is gone, and so is the flush it was drained for.
StartPanic(h) ==
    /\ hpc[h] \in {"write", "fwrite"}
    /\ "writePanic" \in Faults
    /\ hpc' = [hpc EXCEPT ![h] = "select"]
    /\ hrec' = [hrec EXCEPT ![h] = NoRec]
    /\ hflush' = [hflush EXCEPT ![h] = nil]
    /\ panics' = Inc(panics, h)
    /\ UNCHANGED <<chanVars, feedVars, metricVars, targetVars, expired, sent, flushes>>

-----------------------------------------------------------------------------
\* Mutant: the flag is set but not tested.
Mut_ShutdownBegin(h) ==
    /\ Created(h)
    /\ hshutdown' = [hshutdown EXCEPT ![h] = TRUE]
    /\ hquit' = [hquit EXCEPT ![h] = TRUE]
    /\ hstop' = [hstop EXCEPT ![h] = "wait"]
    /\ UNCHANGED <<hin, hdone, startVars, feedVars, metricVars, targetVars, historyVars>>

(***************************************************************************)
(* TargetHost.Shutdown(ctx).  The swap of the flag lets one caller pass;   *)
(* any other returns an error and changes nothing.  close(h.quit) follows  *)
(* the swap at once: no one observes the state between them except Log,    *)
(* which only looks at the flag.                                           *)
(***************************************************************************)
ShutdownBegin(h) ==
    /\ Created(h)
    /\ ~hshutdown[h]
    /\ hshutdown' = [hshutdown EXCEPT ![h] = TRUE]
    /\ hquit' = [hquit EXCEPT ![h] = TRUE]
    /\ hstop' = [hstop EXCEPT ![h] = "wait"]
    /\ UNCHANGED <<hin, hdone, startVars, feedVars, metricVars, targetVars, historyVars>>

\* The caller waits until the read loop is gone or ctx is done, then shuts the
\* target down.
ShutdownEnd(h) ==
    /\ hstop[h] = "wait"
    /\ \/ /\ hdone[h]
          /\ UNCHANGED expired
       \/ /\ "ctxTimeout" \in Faults
          /\ expired' = [expired EXCEPT ![h] = TRUE]
    /\ hstop' = [hstop EXCEPT ![h] = "returned"]
    /\ closes' = Inc(closes, h)
    /\ UNCHANGED <<hin, hquit, hdone, hshutdown, startVars, feedVars, metricVars, out,
                   sent, panics, flushes>>

-----------------------------------------------------------------------------

HostLoop(h) ==
    \/ StartRecv(h) \/ StartQuit(h) \/ StartWrite(h) \/ StartPanic(h)
    \/ FlushRecv(h) \/ FlushWrite(h) \/ FlushDrained(h) \/ FlushSignal(h)

LogCall(f) ==
    \E h \in Hosts, rec \in RecordsOf(f) : LogRefused(f, h, rec) \/ LogEnter(f, h, rec)

\* The steps inside a call of Log.
LogStep(f) == LogSend(f) \/ LogDrop(f) \/ LogBlock(f) \/ LogPanic(f) \/ LogTimeout(f)

HostStep ==
    \/ \E h \in Hosts : NewTargetHost(h) \/ HostLoop(h) \/ ShutdownBegin(h) \/ ShutdownEnd(h)
    \/ \E f \in Feeders : LogStep(f)

HostNext == HostStep \/ \E f \in Feeders : LogCall(f)

HostSpec == HostInit /\ [][HostNext]_hostVars

(***************************************************************************)
(* Fairness.  The Go scheduler runs every goroutine that can go on, so the *)
(* read loop of a host takes its steps, and the call of Shutdown that won  *)
(* returns once `done' is closed; no context is assumed to end.            *)
(* Nothing is assumed of the callers of Log, and nothing of which ready    *)
(* case a select takes.                                                    *)
(***************************************************************************)
HostFairness ==
    \A h \in Hosts : WF_hostVars(HostLoop(h)) /\ WF_hostVars(hdone[h] /\ ShutdownEnd(h))

-----------------------------------------------------------------------------
(***************************************************************************)
(* Properties.                                                             *)
(***************************************************************************)

\* Target.Shutdown runs at most once for a target, whoever calls
\* TargetHost.Shutdown and however often ("Shutdown is called once",
\* target.go:21).
ClosedOnce == \A h \in Hosts : closes[h] <= 1

\* Once the target has been shut down nothing is written to it any more,
\* unless the context of Shutdown ended before the read loop did: Shutdown
\* orders the target's Shutdown after the last Write through `done', across
\* recovered panics of the read loop too (target.go:142-157, 221-230).
SilentAfterClose ==
    [][\A h \in Hosts : closes[h] > 0 /\ ~expired[h] => out'[h] = out[h]]_hostVars

\* Flushing(h, f): the read loop of h has taken f's flush record and owes f a
\* signal.  FlushQueued(h, f, i): that record is still in the channel.
Flushing(h, f) == hpc[h] \in {"flush", "fwrite", "signal"} /\ hflush[h] = f
FlushQueued(h, f, i) == i \in DOMAIN hin[h] /\ hin[h][i].flush = f

\* The handshake on the unbuffered flush channel never leaves the read loop
\* stuck in `done <- struct{}{}' (target.go:300): a host owes at most one
\* signal to a caller, and the caller it owes one to is waiting for it.
FlushHandshake ==
    \A h \in Hosts, f \in Feeders :
        /\ Flushing(h, f) \/ (\E i \in DOMAIN hin[h] : FlushQueued(h, f, i))
              => fpc[f] = "await" /\ fhost[f] = h
        /\ \A i \in DOMAIN hin[h] : FlushQueued(h, f, i) => ~Flushing(h, f)
        /\ \A i, j \in DOMAIN hin[h] : FlushQueued(h, f, i) /\ FlushQueued(h, f, j) => i = j

\* Records the loop has taken and not yet dealt with.
InHand(h) == IF hpc[h] \in {"write", "fwrite"} THEN 1 ELSE 0

\* No record vanishes between the channel and the target: whatever was sent
\* is queued, in hand, written, counted as an error, lost to a panic the read
\* loop recovered from, or was a flush record (target.go:221-304).
NothingVanishes ==
    \A h \in Hosts :
        sent[h] = Len(hin[h]) + InHand(h) + Len(out[h]) + errors[h] + panics[h] + flushes[h]

\* A host that is told to shut down shuts its target down: the read loop
\* notices `quit' after finitely many records, never waits in vain for the
\* receiver of a flush signal, and closes `done' (target.go:142-157, 246).
ShutdownCompletes == \A h \in Hosts : hshutdown[h] ~> closes[h] = 1

=============================================================================
