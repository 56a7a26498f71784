------------------------------ MODULE Metrics ------------------------------
(***************************************************************************)
(* Metrics (metrics.go, target.go): the collector in force, which          *)
(* SetMetricsCollector may replace or take away at any time, the           *)
(* goroutines startMetricsUpdater of the engine and of the target hosts,   *)
(* which publish the length of a queue, and the counters.                  *)
(*                                                                         *)
(* A `metrics' struct, its `done' channel and the updater started for it   *)
(* have the same name, an element of Structs.  The critical sections of    *)
(* metricsMux are single steps.  A collector is the set of the meters that *)
(* it fails to provide for "_logr"; for a host it may fail or not.         *)
(***************************************************************************)
EXTENDS Naturals

CONSTANTS
    Threads,        \* goroutines that call SetMetricsCollector or Shutdown
    Structs,        \* the metrics structs that may be made
    first,          \* the one made by New
    Collectors,     \* what SetMetricsCollector is called with
    Resets,         \* whether it is called with nil as well
    Hosts,          \* the target hosts that may be added
    nil

\* What the engine asks a collector for.
Meters == {"gauge", "logged", "error"}

ASSUME MetricsAssumption ==
    /\ first \in Structs
    /\ Collectors \subseteq SUBSET Meters
    /\ Resets \in BOOLEAN
    /\ nil \notin Structs

VARIABLES
    metrics,    \* lgr.metrics
    stopped,    \* structs whose field `done' is nil: stopMetricsUpdater was here
    closed,     \* channels that are closed
    made,       \* structs made so far
    upc, uchan, \* per updater: its place, and the channel it selects on
    pc,         \* per thread: its place in SetMetricsCollector
    shut,       \* the flag of the engine, with which Shutdown stops the updater
    panicked,   \* the program died: a nil pointer, or a channel closed twice
    missing,    \* per struct: the meters that are nil
    lpc,        \* the read loop of the engine: fanout and what its panics reach
    hpc,        \* per host: what became of it; "closed" when h.done is
    hupc,       \* per host: its updater
    hmeters,    \* per host: the meters it has, none when targetMetrics is nil
    exposed     \* history: SetMetricsCollector(nil), or a collector without a
                \* gauge or without an error counter, came into force

structVars  == <<metrics, stopped, closed, made, missing, exposed>>
updateVars  == <<upc, uchan>>
hostVars    == <<hpc, hupc, hmeters>>
metricsVars == <<structVars, updateVars, pc, shut, panicked, lpc, hostVars>>

\* Every variable keeps its type, and the channels that are closed are those of
\* the structs that were stopped.
MetricsTypeOK ==
    /\ metrics \in Structs \cup {nil}
    /\ made \in SUBSET Structs /\ stopped \in SUBSET made /\ closed = stopped
    /\ upc \in [Structs -> {"none", "top", "select", "set", "returned"}]
    /\ uchan \in [Structs -> Structs \cup {nil}]
    /\ pc \in [Threads -> {"idle", "assign"}]
    /\ shut \in BOOLEAN /\ panicked \in {"no", "nil pointer", "closed twice"}
    /\ missing \in [Structs -> SUBSET Meters]
    /\ lpc \in {"recv", "fanout panicked", "start panicked"}
    /\ hpc \in [Hosts -> {"none", "open", "closed", "refused", "failed"}]
    /\ hupc \in [Hosts -> {"none", "select", "set", "returned"}]
    /\ hmeters \in [Hosts -> {{}, Meters}]
    /\ exposed \in BOOLEAN

\* A collector that fails to provide these meters takes the program down when
\* they are used.
Fatal(c) == c \cap {"gauge", "error"} # {}

\* New with the option SetMetricsCollector.
MetricsInit ==
    /\ metrics = first /\ stopped = {} /\ closed = {} /\ made = {first}
    /\ \E c \in Collectors :
          /\ missing = [m \in Structs |-> IF m = first THEN c ELSE {}]
          /\ exposed = Fatal(c)
    /\ lpc = "recv"
    /\ hpc = [h \in Hosts |-> "none"]
    /\ hupc = [h \in Hosts |-> "none"] /\ hmeters = [h \in Hosts |-> {}]
    /\ upc = [m \in Structs |-> IF m = first THEN "top" ELSE "none"]
    /\ uchan = [m \in Structs |-> nil]
    /\ pc = [t \in Threads |-> "idle"]
    /\ shut = FALSE /\ panicked = "no"

-----------------------------------------------------------------------------
(***************************************************************************)
(* SetMetricsCollector and the part of Shutdown that concerns metrics.     *)
(***************************************************************************)

\* Mutant: the field is not reset after the channel is closed.
Mut_StopUpdater ==
    /\ IF metrics # nil /\ metrics \notin stopped
         THEN /\ panicked' = IF metrics \in closed THEN "closed twice" ELSE panicked
              /\ closed' = closed \cup {metrics}
         ELSE UNCHANGED <<panicked, closed>>
    /\ UNCHANGED stopped

\* stopMetricsUpdater: close the channel of the struct in force, once.
StopUpdater ==
    IF metrics # nil /\ metrics \notin stopped
      THEN /\ panicked' = IF metrics \in closed THEN "closed twice" ELSE panicked
           /\ closed' = closed \cup {metrics}
           /\ stopped' = stopped \cup {metrics}
      ELSE UNCHANGED <<panicked, closed, stopped>>

\* SetMetricsCollector begins with it, before it looks at its argument.
SetMetricsCollector(t) ==
    /\ pc[t] = "idle"
    /\ StopUpdater
    /\ pc' = [pc EXCEPT ![t] = "assign"]
    /\ UNCHANGED <<metrics, made, missing, exposed, updateVars, shut, lpc, hostVars>>

\* The first call of Shutdown to get so far.
Shutdown ==
    /\ ~shut
    /\ StopUpdater
    /\ shut' = TRUE
    /\ UNCHANGED <<metrics, made, missing, exposed, updateVars, pc, lpc, hostVars>>

\* Mutant: no updater is started for a struct that replaces another.
Mut_InitMetrics(t) ==
    /\ pc[t] = "assign"
    /\ \/ /\ Resets
          /\ metrics' = nil /\ exposed' = TRUE
          /\ UNCHANGED <<made, missing>>
       \/ \E m \in Structs \ made, c \in Collectors :
             /\ metrics' = m /\ made' = made \cup {m}
             /\ missing' = [missing EXCEPT ![m] = c]
             /\ exposed' = (exposed \/ Fatal(c))
    /\ pc' = [pc EXCEPT ![t] = "idle"]
    /\ UNCHANGED <<stopped, closed, updateVars, shut, panicked, lpc, hostVars>>

\* The rest of initMetrics: without a collector there is no struct, with one
\* there is a new struct and a new updater; errors of the collector are ignored.
InitMetrics(t) ==
    /\ pc[t] = "assign"
    /\ \/ /\ Resets
          /\ metrics' = nil /\ exposed' = TRUE
          /\ UNCHANGED <<made, missing, upc>>
       \/ \E m \in Structs \ made, c \in Collectors :
             /\ metrics' = m
             /\ made' = made \cup {m}
             /\ missing' = [missing EXCEPT ![m] = c]
             /\ exposed' = (exposed \/ Fatal(c))
             /\ upc' = [upc EXCEPT ![m] = "top"]
    /\ pc' = [pc EXCEPT ![t] = "idle"]
    /\ UNCHANGED <<stopped, closed, uchan, shut, panicked, lpc, hostVars>>

-----------------------------------------------------------------------------
(***************************************************************************)
(* startMetricsUpdater, started for struct u.                              *)
(***************************************************************************)

\* It reads whatever struct is in force, and its `done', which is a nil channel
\* when the struct was stopped before; there may be no struct to read.
UpdaterTop(u) ==
    /\ upc[u] = "top"
    /\ IF metrics = nil
         THEN panicked' = "nil pointer" /\ UNCHANGED updateVars
         ELSE /\ upc' = [upc EXCEPT ![u] = "select"]
              /\ uchan' = [uchan EXCEPT ![u] = IF metrics \in stopped THEN nil ELSE metrics]
              /\ UNCHANGED panicked
    /\ UNCHANGED <<structVars, pc, shut, lpc, hostVars>>

\* `case <-c', which a nil channel never is.
UpdaterReturn(u) ==
    /\ upc[u] = "select"
    /\ uchan[u] \in closed
    /\ upc' = [upc EXCEPT ![u] = "returned"]
    /\ uchan' = [uchan EXCEPT ![u] = nil]
    /\ UNCHANGED <<structVars, pc, shut, panicked, lpc, hostVars>>

\* updateFreqMillis have passed.
UpdaterTick(u) ==
    /\ upc[u] = "select"
    /\ upc' = [upc EXCEPT ![u] = "set"]
    /\ uchan' = [uchan EXCEPT ![u] = nil]
    /\ UNCHANGED <<structVars, pc, shut, panicked, lpc, hostVars>>

\* Does a use of this meter of the engine panic?
NilMeter(x) == metrics # nil /\ x \in missing[metrics]

\* setQueueSizeGauge on the struct in force, if there is one.
SetQueueSizeGauge(u) ==
    /\ upc[u] = "set"
    /\ IF NilMeter("gauge")
         THEN panicked' = "nil pointer" /\ UNCHANGED upc
         ELSE upc' = [upc EXCEPT ![u] = "top"] /\ UNCHANGED panicked
    /\ UNCHANGED <<structVars, uchan, pc, shut, lpc, hostVars>>

-----------------------------------------------------------------------------
(***************************************************************************)
(* incLoggedCounter and incErrorCounter: the read loop has two deferred    *)
(* functions that recover from a panic, the goroutines of the application  *)
(* have none.                                                              *)
(***************************************************************************)

\* The end of fanout, for a record that was logged.
IncLoggedCounter ==
    /\ lpc = "recv" /\ NilMeter("logged")
    /\ lpc' = "fanout panicked"
    /\ UNCHANGED <<structVars, updateVars, pc, shut, panicked, hostVars>>

\* Mutant: fanout does not recover from a panic, start alone does, and dies.
Mut_FanoutRecover ==
    /\ lpc = "fanout panicked"
    /\ lpc' = "recv" /\ panicked' = "nil pointer"
    /\ UNCHANGED <<structVars, updateVars, pc, shut, hostVars>>

\* The deferred function of fanout recovers and calls ReportError, which may
\* panic in its turn.
FanoutRecover ==
    /\ lpc = "fanout panicked"
    /\ lpc' = IF NilMeter("error") THEN "start panicked" ELSE "recv"
    /\ UNCHANGED <<structVars, updateVars, pc, shut, panicked, hostVars>>

\* So does that of start, from which a second panic is not recovered.
StartRecover ==
    /\ lpc = "start panicked"
    /\ IF NilMeter("error")
         THEN panicked' = "nil pointer" /\ UNCHANGED lpc
         ELSE lpc' = "recv" /\ UNCHANGED panicked
    /\ UNCHANGED <<structVars, updateVars, pc, shut, hostVars>>

\* ReportError in a goroutine of the application: a record that could not be
\* enqueued, or a level that the cache does not take.
ReportError(t) ==
    /\ pc[t] = "idle" /\ NilMeter("error")
    /\ panicked' = "nil pointer"
    /\ UNCHANGED <<structVars, updateVars, pc, shut, lpc, hostVars>>

-----------------------------------------------------------------------------
(***************************************************************************)
(* A target host: AddTarget as far as it concerns metrics, and the updater *)
(* of the host, which ends when the read loop of the host has ended.  A    *)
(* host that is added while no collector is in force has neither meters    *)
(* nor updater and is left out.                                            *)
(***************************************************************************)

\* Mutant: initMetrics goes on when the collector fails, like that of the engine.
Mut_AddTarget(h) ==
    /\ hpc[h] = "none" /\ ~shut /\ metrics # nil
    /\ \E result \in {"failed", "open"}, has \in SUBSET Meters :
          /\ hpc' = [hpc EXCEPT ![h] = result]
          /\ hmeters' = [hmeters EXCEPT ![h] = has]
          /\ hupc' = [hupc EXCEPT ![h] = "select"]
    /\ UNCHANGED <<structVars, updateVars, pc, shut, panicked, lpc>>

\* newTargetHost with the struct that AddTarget finds in force: initMetrics
\* refuses the host when the collector fails to provide a meter, otherwise it
\* starts the updater; when Target.Init fails after that the host is dropped.
\* Nothing that happens between these steps concerns any of them.
AddTarget(h) ==
    /\ hpc[h] = "none" /\ ~shut /\ metrics # nil
    /\ \E result \in {"refused", "failed", "open"} :
          /\ hpc' = [hpc EXCEPT ![h] = result]
          /\ hmeters' = [hmeters EXCEPT ![h] = IF result = "refused" THEN {} ELSE Meters]
          /\ hupc' = [hupc EXCEPT ![h] = IF result = "refused" THEN "none" ELSE "select"]
    /\ UNCHANGED <<structVars, updateVars, pc, shut, panicked, lpc>>

\* The host is shut down and its read loop closes h.done.
HostDone(h) ==
    /\ hpc[h] = "open"
    /\ hpc' = [hpc EXCEPT ![h] = "closed"]
    /\ UNCHANGED <<structVars, updateVars, pc, shut, panicked, lpc, hupc, hmeters>>

\* Mutant: the updater of a host waits for the channel of the engine.
Mut_HostUpdaterReturn(h) ==
    /\ hupc[h] = "select" /\ shut
    /\ hupc' = [hupc EXCEPT ![h] = "returned"]
    /\ UNCHANGED <<structVars, updateVars, pc, shut, panicked, lpc, hpc, hmeters>>

\* `case <-h.done' in the updater of a host.
HostUpdaterReturn(h) ==
    /\ hupc[h] = "select" /\ hpc[h] = "closed"
    /\ hupc' = [hupc EXCEPT ![h] = "returned"]
    /\ UNCHANGED <<structVars, updateVars, pc, shut, panicked, lpc, hpc, hmeters>>

\* The pause of a host's updater, at least 250 ms, is over.
HostUpdaterTick(h) ==
    /\ hupc[h] = "select"
    /\ hupc' = [hupc EXCEPT ![h] = "set"]
    /\ UNCHANGED <<structVars, updateVars, pc, shut, panicked, lpc, hpc, hmeters>>

\* TargetHost.setQueueSizeGauge.
HostSetQueueSizeGauge(h) ==
    /\ hupc[h] = "set"
    /\ IF "gauge" \in hmeters[h] \/ hmeters[h] = {}
         THEN hupc' = [hupc EXCEPT ![h] = "select"] /\ UNCHANGED panicked
         ELSE panicked' = "nil pointer" /\ UNCHANGED hupc
    /\ UNCHANGED <<structVars, updateVars, pc, shut, lpc, hpc, hmeters>>

-----------------------------------------------------------------------------

Updater(u) == UpdaterTop(u) \/ UpdaterReturn(u) \/ UpdaterTick(u) \/ SetQueueSizeGauge(u)

LoopStep == IncLoggedCounter \/ FanoutRecover \/ StartRecover

HostUpdater(h) == HostUpdaterReturn(h) \/ HostUpdaterTick(h) \/ HostSetQueueSizeGauge(h)

HostStep(h) == AddTarget(h) \/ HostDone(h)

\* A panic that nobody recovers from ends the program.
MetricsNext ==
    /\ panicked = "no"
    /\ \/ \E t \in Threads : SetMetricsCollector(t) \/ InitMetrics(t) \/ ReportError(t)
       \/ Shutdown
       \/ \E u \in Structs : Updater(u)
       \/ LoopStep
       \/ \E h \in Hosts : HostStep(h) \/ HostUpdater(h)

MetricsSpec == MetricsInit /\ [][MetricsNext]_metricsVars

\* The scheduler runs the updaters and the calls; an updater that has been told
\* to end finds its channel ready and its new timer not, so it ends.
MetricsFairness ==
    /\ \A t \in Threads : WF_metricsVars(panicked = "no" /\ InitMetrics(t))
    /\ \A u \in Structs : /\ WF_metricsVars(panicked = "no" /\ Updater(u))
                          /\ SF_metricsVars(panicked = "no" /\ UpdaterReturn(u))
    /\ \A h \in Hosts : /\ WF_metricsVars(panicked = "no" /\ HostUpdater(h))
                        /\ SF_metricsVars(panicked = "no" /\ HostUpdaterReturn(h))

MetricsFairSpec == MetricsSpec /\ MetricsFairness

-----------------------------------------------------------------------------
(***************************************************************************)
(* Properties.                                                             *)
(***************************************************************************)

\* The `done' channel of a struct is closed once, however calls of
\* SetMetricsCollector and Shutdown meet (metrics.go:132-140).
DoneClosedOnce == panicked # "closed twice"

\* A collector that stays in force is fed: the queue size is published again
\* and again, by the updater started for it or by an older one that took it
\* over, as long as the program lives (metrics.go:84, 117-128).
KeepsPolling ==
    \A m \in Structs :
        <>[](metrics = m /\ m \notin stopped /\ panicked = "no")
            => []<><<\E u \in Structs : SetQueueSizeGauge(u)>>_metricsVars

\* A meter that is nil, because an error of the collector was ignored
\* (metrics.go:76-78), ends the program only when it is the gauge or the error
\* counter: the panic of a missing logged counter is caught in fanout
\* (logr.go:445-449) and reported, and the meters of a host are never nil.
DeathExplained == panicked = "nil pointer" => exposed

\* The queue of a host with metrics is published again and again while the host
\* is open, whatever becomes of the collector of the engine, and the updater of
\* a host ends after the read loop of the host has (target.go:273-282).
HostPolledWhileOpen ==
    \A h \in Hosts :
        /\ <>[](hpc[h] = "open" /\ hmeters[h] # {} /\ panicked = "no")
              => []<><<HostSetQueueSizeGauge(h)>>_metricsVars
        /\ (hpc[h] = "closed" /\ panicked = "no")
              ~> (hupc[h] \in {"none", "returned"} \/ panicked # "no")

-----------------------------------------------------------------------------
(***************************************************************************)
(* What comments of the code say and the code does not do.                 *)
(***************************************************************************)

\* An updater runs "until logr is closed" (metrics.go:114-115).
UpdatersEnd == shut ~> \A u \in Structs : upc[u] \in {"none", "returned"}

\* So does the updater of a host, "until target is shut down"
\* (target.go:271-272); there is no target to shut down when Init failed.
HostUpdatersEnd == \A h \in Hosts :
    hpc[h] \in {"closed", "failed"} ~> (hupc[h] \in {"none", "returned"} \/ panicked # "no")

\* "SetMetricsCollector sets (or resets) the metrics collector" (logr.go:237),
\* which does not end the program.
ResetIsSafe == panicked # "nil pointer"

=============================================================================
