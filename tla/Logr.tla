-------------------------------- MODULE Logr --------------------------------
(***************************************************************************)
(* The logging engine (logr.go): the bounded queue lgr.in, the goroutine   *)
(* `start' that fans records out to the target hosts, the list of hosts    *)
(* behind the RWMutex tmux, and the goroutines of the application that     *)
(* call Logger.Log, Flush, Shutdown, AddTarget and RemoveTargets.          *)
(*                                                                         *)
(* The hosts are those of module TargetHost; the read loop of the engine   *)
(* is their only feeder, so a call of TargetHost.Log made by the engine is *)
(* a step of that module together with a step of the read loop here.       *)
(*                                                                         *)
(* IsLevelEnabled is modelled by its result for the current list of hosts; *)
(* the cache that stands before it is the subject of module LevelCache.    *)
(***************************************************************************)
EXTENDS TargetHost

CONSTANTS
    Threads,        \* goroutines of the application
    readLoop,       \* the goroutine Logr.start
    MaxQueueSize,   \* capacity of lgr.in
    OnQueueFull,    \* the answers that handler may give: "drop", "block"
    InitialHosts    \* hosts added before the behaviour starts, in order

ASSUME LogrAssumption ==
    /\ Feeders = {readLoop}
    /\ readLoop \notin Threads
    /\ nil \notin Threads
    /\ MaxQueueSize \in Nat
    /\ OnQueueFull \in (SUBSET {"drop", "block"}) \ {{}}
    /\ InitialHosts \in Seq(Hosts)
    /\ \A i, j \in DOMAIN InitialHosts : InitialHosts[i] = InitialHosts[j] => i = j

(***************************************************************************)
(* A record in lgr.in.  `flush' is 0 for an ordinary record, otherwise it  *)
(* identifies the flush channel of one call of Flush.  `seq' is the number *)
(* of the record in the order of acceptance; for a flush record it is the  *)
(* number of records accepted before it.                                   *)
(***************************************************************************)
QueueRec == [seq : Nat, level : Levels \cup {nil}, flush : Nat]
NoQRec   == [seq |-> 0, level |-> nil, flush |-> 0]

VARIABLES
    \* fields of Logr
    in, quit, done, shutdown,
    targetHosts,
    tmux,       \* [readers, waiting, writer]: the holders of RLock, the goroutine
                \* in Lock that keeps new readers out, the holder of Lock
    lgrLogged,  \* loggedCounter of the Logr
    lgrErrors,  \* ReportError calls of the engine itself
    \* the read loop
    lpc, lrec,
    lflush,     \* the flush record being served, NoQRec if none
    lidx,       \* position in targetHosts
    \* the goroutines of the application
    tpc,
    top,        \* the operation in progress
    trec,       \* the record to enqueue, or the flush record waited for
    tset,       \* targets to add or to remove
    thosts,     \* the rest of targetHosts to go through
    tkeep,      \* `hosts' of RemoveTargets: the ones it keeps
    \* history
    accepted,   \* levels of the records put into lgr.in, by seq
    flushCalls, \* flush records made, which also names their channels
    since,      \* records taken from lgr.in when the host was added
    taken,      \* seq of the last record taken from lgr.in
    giveUp      \* Shutdown stopped waiting for the read loop

engineVars == <<in, quit, done, shutdown, targetHosts, tmux, lgrLogged, lgrErrors>>
loopVars   == <<lpc, lrec, lflush, lidx>>
threadVars == <<tpc, top, trec, tset, thosts, tkeep>>
pastVars   == <<accepted, flushCalls, since, taken, giveUp>>
vars       == <<hostVars, engineVars, loopVars, threadVars, pastVars>>

LoopPcs   == {"select", "rlock", "fanout", "drain", "flushRLock", "flush", "signal", "exited"}
ThreadPcs == {"idle", "hasTargets", "enqueue", "blocked", "await", "swap", "wait", "rlock",
              "lock", "lockWait", "closing", "closeWait"}
Ops       == {"none", "log", "flush", "shutdown", "add", "remove"}
Procs     == Threads \cup {readLoop}

\* How many records lgr.in shows: of an unbuffered channel, the one that is
\* being handed over.
InBound == IF MaxQueueSize = 0 THEN 1 ELSE MaxQueueSize

EngineOK ==
    /\ in \in Seq(QueueRec) /\ Len(in) <= InBound
    /\ quit \in BOOLEAN /\ done \in BOOLEAN /\ shutdown \in BOOLEAN
    /\ targetHosts \in Seq(Hosts)
    /\ tmux \in [readers : SUBSET Procs, waiting : Threads \cup {nil},
                 writer : Threads \cup {nil}]
    /\ lgrLogged \in Nat /\ lgrErrors \in Nat

LoopOK == lpc \in LoopPcs /\ lrec \in QueueRec /\ lflush \in QueueRec /\ lidx \in Nat

ThreadOK ==
    /\ tpc \in [Threads -> ThreadPcs]
    /\ top \in [Threads -> Ops]
    /\ trec \in [Threads -> QueueRec]
    /\ tset \in [Threads -> SUBSET Hosts]
    /\ thosts \in [Threads -> Seq(Hosts)]
    /\ tkeep \in [Threads -> Seq(Hosts)]

PastOK ==
    /\ accepted \in Seq(Levels)
    /\ flushCalls \in Nat
    /\ since \in [Hosts -> Nat]
    /\ taken \in Nat
    /\ giveUp \in BOOLEAN

\* Every variable of the engine keeps its type and lgr.in its capacity.
LogrTypeOK == HostTypeOK /\ EngineOK /\ LoopOK /\ ThreadOK /\ PastOK

LogrInit ==
    /\ HostInit
    /\ hpc = [h \in Hosts |-> IF \E i \in DOMAIN InitialHosts : InitialHosts[i] = h
                              THEN "select" ELSE "none"]
    /\ in = <<>> /\ quit = FALSE /\ done = FALSE /\ shutdown = FALSE
    /\ targetHosts = InitialHosts
    /\ tmux = [readers |-> {}, waiting |-> nil, writer |-> nil]
    /\ lgrLogged = 0 /\ lgrErrors = 0
    /\ lpc = "select" /\ lrec = NoQRec /\ lflush = NoQRec /\ lidx = 1
    /\ tpc = [t \in Threads |-> "idle"]
    /\ top = [t \in Threads |-> "none"]
    /\ trec = [t \in Threads |-> NoQRec]
    /\ tset = [t \in Threads |-> {}]
    /\ thosts = [t \in Threads |-> <<>>]
    /\ tkeep = [t \in Threads |-> <<>>]
    /\ accepted = <<>>
    /\ flushCalls = 0
    /\ since = [h \in Hosts |-> 0]
    /\ taken = 0
    /\ giveUp = FALSE

-----------------------------------------------------------------------------
(***************************************************************************)
(* sync.RWMutex: a goroutine that waits for Lock keeps new readers out.    *)
(***************************************************************************)
CanRLock    == tmux.writer = nil /\ tmux.waiting = nil
RLock(p)    == CanRLock /\ tmux' = [tmux EXCEPT !.readers = @ \cup {p}]
RUnlock(p)  == tmux' = [tmux EXCEPT !.readers = @ \ {p}]
LockBegin(p) == CanRLock /\ tmux' = [tmux EXCEPT !.waiting = p]
LockGranted(p) == tmux.waiting = p /\ tmux.readers = {}

\* Some listed host enables the level.
LevelEnabled(l) == \E i \in DOMAIN targetHosts : l \in Filter[targetHosts[i]]

-----------------------------------------------------------------------------
(***************************************************************************)
(* Logger.Log and Logr.enqueue, called by thread t.                        *)
(***************************************************************************)

\* The level check of Log succeeds and a record is made; otherwise Log has no
\* effect.
LoggerLog(t, l) ==
    /\ tpc[t] = "idle"
    /\ ~shutdown
    /\ LevelEnabled(l)
    /\ tpc' = [tpc EXCEPT ![t] = "enqueue"]
    /\ top' = [top EXCEPT ![t] = "log"]
    /\ trec' = [trec EXCEPT ![t] = [NoQRec EXCEPT !.level = l]]
    /\ UNCHANGED <<hostVars, engineVars, loopVars, tset, thosts, tkeep, pastVars>>

\* enqueue returned: Log is over, Flush goes on to wait for its channel.
EnqueueReturns(t) ==
    IF top[t] = "log"
      THEN /\ tpc' = [tpc EXCEPT ![t] = "idle"]
           /\ top' = [top EXCEPT ![t] = "none"]
           /\ trec' = [trec EXCEPT ![t] = NoQRec]
      ELSE /\ tpc' = [tpc EXCEPT ![t] = "await"]
           /\ UNCHANGED <<top, trec>>

\* lgr.in has room.  An unbuffered one (MaxQueueSize 0) hands the record to the
\* read loop when that is in the select of start, or in the one of flush, which
\* polls, and the caller is blocked.  The record is in `in' until the loop goes on.
CanEnqueue(t) ==
    \/ Len(in) < MaxQueueSize
    \/ /\ MaxQueueSize = 0 /\ in = <<>>
       /\ lpc = "select" \/ (lpc = "drain" /\ tpc[t] = "blocked")

\* The send may fall through: an unbuffered channel is full unless the loop has
\* arrived at its select.
QueueFull == Len(in) >= MaxQueueSize

\* Mutant: one record more than the channel holds.
Mut_EnqueueSend(t) ==
    /\ tpc[t] \in {"enqueue", "blocked"}
    /\ Len(in) <= InBound
    /\ in' = Append(in, [trec[t] EXCEPT !.seq = Len(accepted) + 1])
    /\ accepted' = Append(accepted, trec[t].level)
    /\ EnqueueReturns(t)
    /\ UNCHANGED <<hostVars, quit, done, shutdown, targetHosts, tmux, lgrLogged, lgrErrors,
                   loopVars, tset, thosts, tkeep, flushCalls, since, taken, giveUp>>

\* `case lgr.in <- rec', of the first select or of the blocking one.
EnqueueSend(t) ==
    LET ordinary == trec[t].flush = 0
        seq == IF ordinary THEN Len(accepted) + 1 ELSE Len(accepted)
    IN
    /\ tpc[t] \in {"enqueue", "blocked"}
    /\ CanEnqueue(t)
    /\ seq \in Stamps
    /\ in' = Append(in, [trec[t] EXCEPT !.seq = seq])
    /\ accepted' = IF ordinary THEN Append(accepted, trec[t].level) ELSE accepted
    /\ EnqueueReturns(t)
    /\ UNCHANGED <<hostVars, quit, done, shutdown, targetHosts, tmux, lgrLogged, lgrErrors,
                   loopVars, tset, thosts, tkeep, flushCalls, since, taken, giveUp>>

\* The queue is full and OnQueueFull says to drop the record.
EnqueueDrop(t) ==
    /\ tpc[t] = "enqueue"
    /\ QueueFull
    /\ "drop" \in OnQueueFull
    /\ EnqueueReturns(t)
    /\ UNCHANGED <<hostVars, engineVars, loopVars, tset, thosts, tkeep, pastVars>>

\* The queue is full and the caller blocks.
EnqueueBlock(t) ==
    /\ tpc[t] = "enqueue"
    /\ QueueFull
    /\ "block" \in OnQueueFull
    /\ tpc' = [tpc EXCEPT ![t] = "blocked"]
    /\ UNCHANGED <<hostVars, engineVars, loopVars, top, trec, tset, thosts, tkeep, pastVars>>

\* The blocked caller gives up after enqueueTimeout.
EnqueueTimeout(t) ==
    /\ tpc[t] = "blocked"
    /\ "enqueueTimeout" \in Faults
    /\ lgrErrors' = lgrErrors + 1
    /\ EnqueueReturns(t)
    /\ UNCHANGED <<hostVars, in, quit, done, shutdown, targetHosts, tmux, lgrLogged,
                   loopVars, tset, thosts, tkeep, pastVars>>

-----------------------------------------------------------------------------
(***************************************************************************)
(* FlushWithTimeout and ShutdownWithTimeout, called by thread t.           *)
(***************************************************************************)

\* The operation of t is over.
Returns(t) ==
    /\ tpc' = [tpc EXCEPT ![t] = "idle"]
    /\ top' = [top EXCEPT ![t] = "none"]
    /\ trec' = [trec EXCEPT ![t] = NoQRec]
    /\ tset' = [tset EXCEPT ![t] = {}]
    /\ thosts' = [thosts EXCEPT ![t] = <<>>]
    /\ tkeep' = [tkeep EXCEPT ![t] = <<>>]

\* A call of Flush, or of Shutdown, which flushes first.
FlushBegin(t, op) ==
    /\ tpc[t] = "idle"
    /\ tpc' = [tpc EXCEPT ![t] = "hasTargets"]
    /\ top' = [top EXCEPT ![t] = op]
    /\ UNCHANGED <<hostVars, engineVars, loopVars, trec, tset, thosts, tkeep, pastVars>>

Flush(t)    == FlushBegin(t, "flush")
Shutdown(t) == FlushBegin(t, "shutdown")

\* HasTargets takes the read lock for a moment; then the flag is tested.  With
\* no target there is nothing to flush; on a Logr that is shut down it is an
\* error, which Shutdown returns too.  (Both tests are one step: the flag is
\* never reset, and a list that changes between them could change after them.)
FlushCheck(t) ==
    /\ tpc[t] = "hasTargets"
    /\ CanRLock
    /\ \/ /\ targetHosts = <<>>
          /\ top[t] = "shutdown"
          /\ tpc' = [tpc EXCEPT ![t] = "swap"]
          /\ UNCHANGED <<top, trec, tset, thosts, tkeep, flushCalls>>
       \/ /\ IF targetHosts = <<>> THEN top[t] = "flush" ELSE shutdown
          /\ Returns(t)
          /\ UNCHANGED flushCalls
       \/ /\ targetHosts # <<>>
          /\ ~shutdown
          /\ flushCalls' = flushCalls + 1
          /\ trec' = [trec EXCEPT ![t] = [NoQRec EXCEPT !.flush = flushCalls']]
          /\ tpc' = [tpc EXCEPT ![t] = "enqueue"]
          /\ UNCHANGED <<top, tset, thosts, tkeep>>
    /\ UNCHANGED <<hostVars, engineVars, loopVars, accepted, since, taken, giveUp>>

\* What follows a successful flush.
FlushReturns(t) ==
    IF top[t] = "flush"
      THEN Returns(t)
      ELSE /\ tpc' = [tpc EXCEPT ![t] = "swap"]
           /\ trec' = [trec EXCEPT ![t] = NoQRec]
           /\ UNCHANGED <<top, tset, thosts, tkeep>>

\* The context is done first: Flush, and the Shutdown it is part of, return a
\* timeout error and leave the flush record where it is.
FlushTimeout(t) ==
    /\ tpc[t] = "await"
    /\ "ctxTimeout" \in Faults
    /\ Returns(t)
    /\ UNCHANGED <<hostVars, engineVars, loopVars, pastVars>>

\* The swap of lgr.shutdown; the winner closes `quit', a loser returns.
ShutdownSwap(t) ==
    /\ tpc[t] = "swap"
    /\ shutdown' = TRUE
    /\ IF shutdown
         THEN Returns(t) /\ UNCHANGED quit
         ELSE /\ quit' = TRUE
              /\ tpc' = [tpc EXCEPT ![t] = "wait"]
              /\ UNCHANGED <<top, trec, tset, thosts, tkeep>>
    /\ UNCHANGED <<hostVars, in, done, targetHosts, tmux, lgrLogged, lgrErrors, loopVars,
                   pastVars>>

\* Wait for the read loop to exit or for the context.
ShutdownWait(t) ==
    /\ tpc[t] = "wait"
    /\ \/ done /\ UNCHANGED giveUp
       \/ "ctxTimeout" \in Faults /\ giveUp' = TRUE
    /\ tpc' = [tpc EXCEPT ![t] = "rlock"]
    /\ UNCHANGED <<hostVars, engineVars, loopVars, top, trec, tset, thosts, tkeep, accepted,
                   flushCalls, since, taken>>

\* Mutant: the list is read without the lock.
Mut_ShutdownRLock(t) ==
    /\ tpc[t] = "rlock"
    /\ thosts' = [thosts EXCEPT ![t] = targetHosts]
    /\ tpc' = [tpc EXCEPT ![t] = "closing"]
    /\ UNCHANGED <<hostVars, engineVars, loopVars, top, trec, tset, tkeep, pastVars>>

ShutdownRLock(t) ==
    /\ tpc[t] = "rlock"
    /\ RLock(t)
    /\ thosts' = [thosts EXCEPT ![t] = targetHosts]
    /\ tpc' = [tpc EXCEPT ![t] = "closing"]
    /\ UNCHANGED <<hostVars, in, quit, done, shutdown, targetHosts, lgrLogged, lgrErrors,
                   loopVars, top, trec, tset, tkeep, pastVars>>

ShutdownReturn(t) ==
    /\ tpc[t] = "closing"
    /\ top[t] = "shutdown"
    /\ thosts[t] = <<>>
    /\ RUnlock(t)
    /\ Returns(t)
    /\ UNCHANGED <<hostVars, in, quit, done, shutdown, targetHosts, lgrLogged, lgrErrors,
                   loopVars, pastVars>>

\* The next host of Shutdown, or of RemoveTargets, which keeps the hosts its
\* function does not select.  host.Shutdown(ctx) swaps the host's flag, which
\* fails on a host that is shut down already, and waits for its read loop.
CloseHost(t) ==
    LET h == Head(thosts[t])
        keep == top[t] = "remove" /\ h \notin tset[t]
    IN
    /\ tpc[t] = "closing"
    /\ thosts[t] # <<>>
    /\ tkeep' = IF keep THEN [tkeep EXCEPT ![t] = Append(@, h)] ELSE tkeep
    /\ IF keep \/ hshutdown[h]
         THEN /\ thosts' = [thosts EXCEPT ![t] = Tail(@)]
              /\ UNCHANGED <<hostVars, tpc>>
         ELSE /\ ShutdownBegin(h)
              /\ tpc' = [tpc EXCEPT ![t] = "closeWait"]
              /\ UNCHANGED thosts
    /\ UNCHANGED <<engineVars, loopVars, top, trec, tset, pastVars>>

\* Mutant: the target is closed without waiting for the host's read loop.
Mut_CloseHostEnd(t) ==
    LET h == Head(thosts[t]) IN
    /\ tpc[t] = "closeWait"
    /\ hstop' = [hstop EXCEPT ![h] = "returned"]
    /\ closes' = Inc(closes, h)
    /\ thosts' = [thosts EXCEPT ![t] = Tail(@)]
    /\ tpc' = [tpc EXCEPT ![t] = "closing"]
    /\ UNCHANGED <<hin, hquit, hdone, hshutdown, startVars, feedVars, metricVars, out,
                   historyVars, engineVars, loopVars, top, trec, tset, tkeep, pastVars>>

CloseHostEnd(t) ==
    /\ tpc[t] = "closeWait"
    /\ ShutdownEnd(Head(thosts[t]))
    /\ thosts' = [thosts EXCEPT ![t] = Tail(@)]
    /\ tpc' = [tpc EXCEPT ![t] = "closing"]
    /\ UNCHANGED <<engineVars, loopVars, top, trec, tset, tkeep, pastVars>>

-----------------------------------------------------------------------------
(***************************************************************************)
(* AddTarget and RemoveTargets, called by thread t.                        *)
(***************************************************************************)

\* The flag is tested and the host is made; a failure of Init is returned.
AddTarget(t, h) ==
    /\ tpc[t] = "idle"
    /\ ~shutdown
    /\ NewTargetHost(h)
    /\ IF Created(h)'
         THEN /\ tpc' = [tpc EXCEPT ![t] = "lock"]
              /\ top' = [top EXCEPT ![t] = "add"]
              /\ tset' = [tset EXCEPT ![t] = {h}]
         ELSE UNCHANGED <<tpc, top, tset>>
    /\ UNCHANGED <<engineVars, loopVars, trec, thosts, tkeep, pastVars>>

\* RemoveTargets with a function f that selects the hosts in S.
RemoveTargets(t, S) ==
    /\ tpc[t] = "idle"
    /\ tpc' = [tpc EXCEPT ![t] = "lock"]
    /\ top' = [top EXCEPT ![t] = "remove"]
    /\ tset' = [tset EXCEPT ![t] = S]
    /\ UNCHANGED <<hostVars, engineVars, loopVars, trec, thosts, tkeep, pastVars>>

\* tmux.Lock(): announce the writer, then wait for the readers to leave.
LockAnnounce(t) ==
    /\ tpc[t] = "lock"
    /\ LockBegin(t)
    /\ tpc' = [tpc EXCEPT ![t] = "lockWait"]
    /\ UNCHANGED <<hostVars, in, quit, done, shutdown, targetHosts, lgrLogged, lgrErrors,
                   loopVars, top, trec, tset, thosts, tkeep, pastVars>>

\* AddTarget gets the lock, appends the host and unlocks.
AddTargetAppend(t) ==
    LET h == CHOOSE x \in tset[t] : TRUE IN
    /\ tpc[t] = "lockWait"
    /\ top[t] = "add"
    /\ LockGranted(t)
    /\ tmux' = [tmux EXCEPT !.waiting = nil]
    /\ targetHosts' = Append(targetHosts, h)
    /\ since' = [since EXCEPT ![h] = taken]
    /\ Returns(t)
    /\ UNCHANGED <<hostVars, in, quit, done, shutdown, lgrLogged, lgrErrors, loopVars,
                   accepted, flushCalls, taken, giveUp>>

\* RemoveTargets gets the lock and starts to go through the list.
RemoveLocked(t) ==
    /\ tpc[t] = "lockWait"
    /\ top[t] = "remove"
    /\ LockGranted(t)
    /\ tmux' = [tmux EXCEPT !.waiting = nil, !.writer = t]
    /\ thosts' = [thosts EXCEPT ![t] = targetHosts]
    /\ tpc' = [tpc EXCEPT ![t] = "closing"]
    /\ UNCHANGED <<hostVars, in, quit, done, shutdown, targetHosts, lgrLogged, lgrErrors,
                   loopVars, top, trec, tset, tkeep, pastVars>>

\* Mutant: the lock is not released.
Mut_RemoveReturn(t) ==
    /\ tpc[t] = "closing"
    /\ top[t] = "remove"
    /\ thosts[t] = <<>>
    /\ targetHosts' = tkeep[t]
    /\ Returns(t)
    /\ UNCHANGED <<hostVars, in, quit, done, shutdown, tmux, lgrLogged, lgrErrors, loopVars,
                   pastVars>>

\* The end of the list: replace it and unlock.
RemoveReturn(t) ==
    /\ tpc[t] = "closing"
    /\ top[t] = "remove"
    /\ thosts[t] = <<>>
    /\ targetHosts' = tkeep[t]
    /\ tmux' = [tmux EXCEPT !.writer = nil]
    /\ Returns(t)
    /\ UNCHANGED <<hostVars, in, quit, done, shutdown, lgrLogged, lgrErrors, loopVars,
                   pastVars>>

-----------------------------------------------------------------------------
(***************************************************************************)
(* Logr.start, fanout and flush: the read loop.                            *)
(***************************************************************************)

\* `case rec = <-lgr.in' of start.
StartRecvRec ==
    LET rec == Head(in) IN
    /\ lpc = "select"
    /\ in # <<>>
    /\ in' = Tail(in)
    /\ IF rec.flush # 0
         THEN lpc' = "drain" /\ lflush' = rec /\ UNCHANGED <<lrec, taken>>
         ELSE lpc' = "rlock" /\ lrec' = rec /\ taken' = rec.seq /\ UNCHANGED lflush
    /\ UNCHANGED <<hostVars, quit, done, shutdown, targetHosts, tmux, lgrLogged, lgrErrors,
                   lidx, threadVars, accepted, flushCalls, since, giveUp>>

\* `case <-lgr.quit' of start, whatever lgr.in still holds; what an unbuffered
\* channel hands over has been received.
StartRecvQuit ==
    /\ lpc = "select"
    /\ quit
    /\ MaxQueueSize = 0 => in = <<>>
    /\ lpc' = "exited"
    /\ done' = TRUE
    /\ UNCHANGED <<hostVars, in, quit, shutdown, targetHosts, tmux, lgrLogged, lgrErrors,
                   lrec, lflush, lidx, threadVars, pastVars>>

\* Where fanout returns to: the loop of start, or the drain loop of flush.
AfterFanout == IF lflush = NoQRec THEN "select" ELSE "drain"

\* Mutant: fanout reads the list without the lock.
Mut_FanoutRLock ==
    /\ lpc = "rlock"
    /\ lpc' = "fanout"
    /\ lidx' = 1
    /\ UNCHANGED <<hostVars, engineVars, lrec, lflush, threadVars, pastVars>>

FanoutRLock ==
    /\ lpc = "rlock"
    /\ RLock(readLoop)
    /\ lpc' = "fanout"
    /\ lidx' = 1
    /\ UNCHANGED <<hostVars, in, quit, done, shutdown, targetHosts, lgrLogged, lgrErrors,
                   lrec, lflush, threadVars, pastVars>>

\* host.Log(rec), if the host enables the level.
FanoutHost ==
    LET h == targetHosts[lidx]
        rec == [seq |-> lrec.seq, level |-> lrec.level, flush |-> nil]
    IN
    /\ lpc = "fanout"
    /\ fpc[readLoop] = "idle"
    /\ lidx <= Len(targetHosts)
    /\ IF lrec.level \in Filter[h]
         THEN LogRefused(readLoop, h, rec) \/ LogEnter(readLoop, h, rec)
         ELSE UNCHANGED hostVars
    /\ lidx' = lidx + 1
    /\ UNCHANGED <<engineVars, lpc, lrec, lflush, threadVars, pastVars>>

FanoutReturn ==
    /\ lpc = "fanout"
    /\ fpc[readLoop] = "idle"
    /\ lidx > Len(targetHosts)
    /\ RUnlock(readLoop)
    /\ lgrLogged' = IF LevelEnabled(lrec.level) THEN lgrLogged + 1 ELSE lgrLogged
    /\ lpc' = AfterFanout
    /\ lrec' = NoQRec
    /\ UNCHANGED <<hostVars, in, quit, done, shutdown, targetHosts, lgrErrors, lflush, lidx,
                   threadVars, pastVars>>

\* The steps of host.Log, called by fanout or flush.
LoopLogStep ==
    /\ LogSend(readLoop) \/ LogDrop(readLoop) \/ LogBlock(readLoop) \/ LogTimeout(readLoop)
    /\ UNCHANGED <<engineVars, loopVars, threadVars, pastVars>>

\* A panic in fanout (the level filter of a host, or the OnTargetQueueFull
\* callback) skips the hosts that are left: fanout recovers and reports it.  A
\* panic of the callback in flush goes up to start, which abandons the flush.
LoopPanic ==
    /\ \/ LogPanic(readLoop)
       \/ /\ lpc = "fanout"
          /\ fpc[readLoop] = "idle"
          /\ lidx <= Len(targetHosts)
          /\ "filterPanic" \in Faults
          /\ UNCHANGED hostVars
    /\ RUnlock(readLoop)
    /\ lgrErrors' = lgrErrors + 1
    /\ IF lpc = "fanout"
         THEN lpc' = AfterFanout /\ UNCHANGED lflush
         ELSE lpc' = "select" /\ lflush' = NoQRec
    /\ lrec' = NoQRec
    /\ UNCHANGED <<in, quit, done, shutdown, targetHosts, lgrLogged, lidx, threadVars,
                   pastVars>>

\* flush drains lgr.in; other flush records are taken and ignored.
DrainRec ==
    LET rec == Head(in) IN
    /\ lpc = "drain"
    /\ in # <<>>
    /\ in' = Tail(in)
    /\ IF rec.flush # 0
         THEN UNCHANGED <<lpc, lrec, taken>>
         ELSE lpc' = "rlock" /\ lrec' = rec /\ taken' = rec.seq
    /\ UNCHANGED <<hostVars, quit, done, shutdown, targetHosts, tmux, lgrLogged, lgrErrors,
                   lflush, lidx, threadVars, accepted, flushCalls, since, giveUp>>

DrainEnd ==
    /\ lpc = "drain"
    /\ in = <<>>
    /\ lpc' = "flushRLock"
    /\ UNCHANGED <<hostVars, engineVars, lrec, lflush, lidx, threadVars, pastVars>>

FlushRLock ==
    /\ lpc = "flushRLock"
    /\ RLock(readLoop)
    /\ lpc' = "flush"
    /\ lidx' = 1
    /\ UNCHANGED <<hostVars, in, quit, done, shutdown, targetHosts, lgrLogged, lgrErrors,
                   lrec, lflush, threadVars, pastVars>>

\* host.Log of a flush record; the read loop then waits for `<-rec.flush'.
FlushHost ==
    LET h == targetHosts[lidx]
        rec == FlushLogRec(readLoop)
    IN
    /\ lpc = "flush"
    /\ fpc[readLoop] = "idle"
    /\ lidx <= Len(targetHosts)
    /\ LogRefused(readLoop, h, rec) \/ LogEnter(readLoop, h, rec)
    /\ lidx' = lidx + 1
    /\ UNCHANGED <<engineVars, lpc, lrec, lflush, threadVars, pastVars>>

\* Mutant: the last host is left out.
Mut_FlushHostsEnd ==
    /\ lpc = "flush"
    /\ fpc[readLoop] = "idle"
    /\ lidx >= Len(targetHosts)
    /\ lpc' = "signal"
    /\ UNCHANGED <<hostVars, engineVars, lrec, lflush, lidx, threadVars, pastVars>>

FlushHostsEnd ==
    /\ lpc = "flush"
    /\ fpc[readLoop] = "idle"
    /\ lidx > Len(targetHosts)
    /\ lpc' = "signal"
    /\ UNCHANGED <<hostVars, engineVars, lrec, lflush, lidx, threadVars, pastVars>>

\* `done <- struct{}{}' meets the caller of Flush that still waits for it.
SignalFlush(t) ==
    /\ lpc = "signal"
    /\ tpc[t] = "await"
    /\ trec[t].flush = lflush.flush
    /\ FlushReturns(t)
    /\ RUnlock(readLoop)
    /\ lpc' = "select"
    /\ lflush' = NoQRec
    /\ UNCHANGED <<hostVars, in, quit, done, shutdown, targetHosts, lgrLogged, lgrErrors,
                   lrec, lidx, pastVars>>

-----------------------------------------------------------------------------

\* A step of a goroutine inside a call of the API.
ThreadStep(t) ==
    \/ EnqueueSend(t) \/ EnqueueDrop(t) \/ EnqueueBlock(t) \/ EnqueueTimeout(t)
    \/ FlushCheck(t) \/ FlushTimeout(t)
    \/ ShutdownSwap(t) \/ ShutdownWait(t) \/ ShutdownRLock(t) \/ ShutdownReturn(t)
    \/ CloseHost(t) \/ CloseHostEnd(t)
    \/ LockAnnounce(t) \/ AddTargetAppend(t) \/ RemoveLocked(t) \/ RemoveReturn(t)

LoopStep ==
    \/ StartRecvRec \/ StartRecvQuit
    \/ FanoutRLock \/ FanoutHost \/ FanoutReturn \/ LoopLogStep \/ LoopPanic
    \/ DrainRec \/ DrainEnd \/ FlushRLock \/ FlushHost \/ FlushHostsEnd
    \/ \E t \in Threads : SignalFlush(t)

HostGoroutine(h) == HostLoop(h) /\ UNCHANGED <<engineVars, loopVars, threadVars, pastVars>>

LogrStep ==
    \/ LoopStep
    \/ \E h \in Hosts : HostGoroutine(h)
    \/ \E t \in Threads : ThreadStep(t)

LogrCall ==
    \E t \in Threads :
        \/ \E l \in Levels : LoggerLog(t, l)
        \/ Flush(t)
        \/ Shutdown(t)
        \/ \E h \in Hosts : AddTarget(t, h)
        \/ \E S \in SUBSET Hosts : RemoveTargets(t, S)

LogrNext == LogrStep \/ LogrCall

LogrSpec == LogrInit /\ [][LogrNext]_vars

(***************************************************************************)
(* The Go scheduler runs every goroutine that can go on; a goroutine that  *)
(* is in a call of the API goes on with it.  sync.RWMutex starves nobody:  *)
(* Unlock lets the readers in that wait, and writers queue up, so the      *)
(* steps that enter the lock are strongly fair.  Nobody has to call        *)
(* anything, and which ready case a select takes is not fair.              *)
(***************************************************************************)
LogrFairness ==
    /\ WF_vars(LoopStep) /\ SF_vars(FanoutRLock \/ FlushRLock)
    /\ \A h \in Hosts : WF_vars(HostGoroutine(h))
    /\ \A t \in Threads :
          /\ WF_vars(ThreadStep(t))
          /\ SF_vars(FlushCheck(t) \/ ShutdownRLock(t) \/ LockAnnounce(t))

-----------------------------------------------------------------------------
(***************************************************************************)
(* Properties.                                                             *)
(***************************************************************************)

\* What the whole pipeline promises (module Delivery): every target receives
\* records in the order in which they were accepted, each at most once, and
\* only records that were accepted with a level its filter enables.
Seqs(recs) == [i \in DOMAIN recs |-> recs[i].seq]
Abstract == INSTANCE Delivery WITH delivered <- [h \in Hosts |-> Seqs(out[h])]
DeliverySpec == Abstract!Spec

Listed(h) == \E i \in DOMAIN targetHosts : targetHosts[i] = h

\* While the read loop is inside a call of host.Log, or waits for the host to
\* flush, the host is in the list and is not being shut down; a Shutdown whose
\* context ended before the read loop did is the exception.  RemoveTargets
\* keeps the loop out through tmux, Shutdown through `done' (logr.go:208, 368,
\* 453, 487).
FedHostAlive ==
    fpc[readLoop] # "idle" =>
        /\ Listed(fhost[readLoop])
        /\ hshutdown[fhost[readLoop]] => giveUp

\* When the read loop is about to tell a caller of Flush that it is done,
\* every record accepted before the flush record has been written to every
\* listed target that enables its level and was there when the record was
\* fanned out (logr.go:287-288: "flushing the logr queue and all target
\* queues, by writing existing log records to valid targets").
FlushDelivers ==
    lpc = "signal" =>
        \A h \in Hosts : Listed(h) =>
            \A s \in since[h] + 1 .. lflush.seq :
                accepted[s] \in Filter[h] => \E i \in DOMAIN out[h] : out[h][i].seq = s

\* The loggedCounter of a host counts every record written to its target,
\* although TargetHost.flush does not count: the engine logs nothing to a host
\* after the flush record until the host has answered, so the drain loop of
\* TargetHost.flush never finds a record (target.go:243, 285-304, logr.go:492).
LoggedCounted == \A h \in Hosts : logged[h] = Len(out[h])

\* Nobody will ever answer t.  The queue is full and the read loop has exited
\* (logr.go:279, 428); or the flush record of t was thrown away by the drain
\* loop of another flush (logr.go:475), or is left in the queue of a read loop
\* that has exited.
InService(t) ==
    \/ lflush.flush = trec[t].flush
    \/ \E i \in DOMAIN in : in[i].flush = trec[t].flush
Abandoned(t) ==
    \/ tpc[t] = "blocked" /\ done /\ ~CanEnqueue(t)
    \/ tpc[t] = "await" /\ (done \/ ~InService(t))

\* Every call of the API returns without the help of a timeout, however calls
\* overlap, unless it is one of those that Abandoned describes, which only
\* their timeout ends: no cycle of the bounded queues, tmux and the flush
\* channels keeps callers waiting.  The exceptions are real: Flush "blocks
\* while flushing" (logr.go:287) in all other cases only; see FlushAnswered.
CallsReturn == \A t \in Threads : tpc[t] # "idle" ~> tpc[t] = "idle" \/ Abandoned(t)

\* When the Shutdown that won the swap returns, every host made until then is
\* shut down (logr.go:373-380), also when its context ended early or when
\* RemoveTargets works on the list, except those in the hands of an AddTarget
\* that passed the test for shutdown before (logr.go:89) and appends its host
\* later; Config.OnlyLateTargetsLeft follows these to the end.
ShutdownCloses ==
    [][\A t \in Threads : ShutdownReturn(t) =>
          \A h \in Hosts : Created(h) =>
              \/ closes[h] = 1
              \/ \E u \in Threads : top[u] = "add" /\ tset[u] = {h}]_vars

-----------------------------------------------------------------------------
(***************************************************************************)
(* What comments of the code say and the code does not do; the README      *)
(* tells how each of these fails.                                          *)
(***************************************************************************)

\* Flush "blocks while flushing" (logr.go:287): a call of Flush that has queued
\* its record goes on when it has been flushed.
FlushAnswered == \A t \in Threads : tpc[t] = "await" ~> tpc[t] # "await"

\* A flush ends: FlushTimeout is "the amount of time `logr.Flush` can execute
\* before timing out" (options.go:118-119), so the read loop gets back to its
\* queue after it.
FlushEnds == lflush # NoQRec ~> lflush = NoQRec

\* "logr.in channel should now be drained to targets" once the read loop has
\* exited (logr.go:371).
EngineDrained == \A t \in Threads : tpc[t] = "rlock" /\ ~giveUp => in = <<>>

\* "Target queue is already drained when this is called" (target.go:22, of
\* Target.Shutdown; also target.go:155).
DrainedAtClose == \A h \in Hosts : closes[h] > 0 /\ ~expired[h] => hin[h] = <<>>

\* "No further log records can be enqueued [...] after shutdown"
\* (logr.go:325-326).
NothingEnqueuedAfterShutdown == [][shutdown => accepted' = accepted]_vars

\* "[...] and no targets added after shutdown" (logr.go:325-326).
NoTargetAddedAfterShutdown == [][shutdown => \A h \in Hosts : Listed(h)' => Listed(h)]_vars

=============================================================================
