--------------------------- MODULE Metrics_proofs ---------------------------
(***************************************************************************)
(* Proofs of the safety properties of Metrics, for any number of           *)
(* goroutines, collectors and hosts.                                       *)
(***************************************************************************)
EXTENDS Metrics, TLAPS

\* The struct in force was made, so stopping it keeps `stopped' a set of structs
\* that were made.
InForce == metrics \in made \cup {nil}

\* The history variable tells of every state in which the use of a meter outside
\* of the read loop may be fatal.
Exposure ==
    /\ metrics = nil => exposed
    /\ metrics # nil /\ Fatal(missing[metrics]) => exposed

MetricsInv == MetricsTypeOK /\ InForce /\ DoneClosedOnce /\ Exposure /\ DeathExplained

-----------------------------------------------------------------------------

\* A use of the gauge or the error counter panics only when they are fatal.
LEMMA NilMeterFatal ==
    ASSUME MetricsInv, NEW x \in {"gauge", "error"}, NilMeter(x)
    PROVE  exposed
BY DEF MetricsInv, Exposure, NilMeter, Fatal

\* stopMetricsUpdater closes a channel that is open, whoever calls it.
LEMMA StopUpdaterSafe ==
    ASSUME MetricsInv, StopUpdater
    PROVE  /\ panicked' = panicked
           /\ stopped' \in SUBSET made /\ closed' = stopped'
BY DEF MetricsInv, MetricsTypeOK, InForce, StopUpdater

LEMMA MetricsInvInit == MetricsInit => MetricsInv
<1> SUFFICES ASSUME MetricsInit PROVE MetricsInv
    OBVIOUS
<1> USE MetricsAssumption DEF MetricsInit
<1>1. PICK c \in Collectors : /\ missing = [m \in Structs |-> IF m = first THEN c ELSE {}]
                              /\ exposed = Fatal(c)
    OBVIOUS
<1>2. missing \in [Structs -> SUBSET Meters] /\ missing[first] = c
    BY <1>1
<1>3. exposed \in BOOLEAN
    BY <1>1 DEF Fatal
<1>4. MetricsTypeOK
    BY <1>2, <1>3 DEF MetricsTypeOK
<1>5. Exposure
    BY <1>1, <1>2 DEF Exposure
<1> QED BY <1>4, <1>5 DEF MetricsInv, InForce, DoneClosedOnce, DeathExplained

LEMMA MetricsInvStep == MetricsInv /\ [MetricsNext]_metricsVars => MetricsInv'
<1> SUFFICES ASSUME MetricsInv, [MetricsNext]_metricsVars PROVE MetricsInv'
    OBVIOUS
<1> USE MetricsAssumption DEF MetricsInv, MetricsTypeOK, InForce, DoneClosedOnce, Exposure, DeathExplained
<1>1. ASSUME NEW t \in Threads, SetMetricsCollector(t) PROVE MetricsInv'
    BY <1>1, StopUpdaterSafe DEF SetMetricsCollector, updateVars, hostVars
<1>2. CASE Shutdown
    BY <1>2, StopUpdaterSafe DEF Shutdown, updateVars, hostVars
<1>3. ASSUME NEW t \in Threads, InitMetrics(t) PROVE MetricsInv'
    <2> USE DEF InitMetrics, hostVars
    <2>1. CASE Resets /\ metrics' = nil /\ exposed' = TRUE /\ UNCHANGED <<made, missing, upc>>
        BY <1>3, <2>1
    <2>2. ASSUME NEW m \in Structs \ made, NEW c \in Collectors,
                 metrics' = m, made' = made \cup {m}, missing' = [missing EXCEPT ![m] = c],
                 exposed' = (exposed \/ Fatal(c)), upc' = [upc EXCEPT ![m] = "top"]
          PROVE  MetricsInv'
        <3>1. missing' \in [Structs -> SUBSET Meters] /\ missing'[m] = c /\ m # nil
            BY <2>2
        <3>2. exposed' \in BOOLEAN /\ (exposed => exposed') /\ (Fatal(c) => exposed')
            BY <2>2 DEF Fatal
        <3> QED BY <1>3, <2>2, <3>1, <3>2 DEF Fatal
    <2> QED BY <1>3, <2>1, <2>2
<1>4. ASSUME NEW t \in Threads, ReportError(t) PROVE MetricsInv'
    BY <1>4, NilMeterFatal DEF ReportError, structVars, updateVars, hostVars
<1>5. ASSUME NEW u \in Structs, Updater(u) PROVE MetricsInv'
    <2> USE DEF structVars, updateVars, hostVars
    <2>1. CASE UpdaterTop(u)
        BY <2>1 DEF UpdaterTop
    <2>2. CASE UpdaterReturn(u)
        BY <2>2 DEF UpdaterReturn
    <2>3. CASE UpdaterTick(u)
        BY <2>3 DEF UpdaterTick
    <2>4. CASE SetQueueSizeGauge(u)
        BY <2>4, NilMeterFatal DEF SetQueueSizeGauge
    <2> QED BY <1>5, <2>1, <2>2, <2>3, <2>4 DEF Updater
<1>6. CASE LoopStep
    <2> USE DEF structVars, updateVars, hostVars
    <2>1. CASE IncLoggedCounter
        BY <2>1 DEF IncLoggedCounter
    <2>2. CASE FanoutRecover
        BY <2>2 DEF FanoutRecover
    <2>3. CASE StartRecover
        BY <2>3, NilMeterFatal DEF StartRecover
    <2> QED BY <1>6, <2>1, <2>2, <2>3 DEF LoopStep
<1>7. ASSUME NEW h \in Hosts, HostStep(h) PROVE MetricsInv'
    <2> USE DEF structVars, updateVars
    <2>1. CASE AddTarget(h)
        <3>1. PICK result \in {"refused", "failed", "open"} :
                /\ hpc' = [hpc EXCEPT ![h] = result]
                /\ hmeters' = [hmeters EXCEPT ![h] = IF result = "refused" THEN {} ELSE Meters]
                /\ hupc' = [hupc EXCEPT ![h] = IF result = "refused" THEN "none" ELSE "select"]
            BY <2>1 DEF AddTarget
        <3>2. /\ hpc' \in [Hosts -> {"none", "open", "closed", "refused", "failed"}]
              /\ hupc' \in [Hosts -> {"none", "select", "set", "returned"}]
              /\ hmeters' \in [Hosts -> {{}, Meters}]
            BY <3>1
        <3> QED BY <2>1, <3>2 DEF AddTarget
    <2>2. CASE HostDone(h)
        BY <2>2 DEF HostDone
    <2> QED BY <1>7, <2>1, <2>2 DEF HostStep
<1>8. ASSUME NEW h \in Hosts, HostUpdater(h) PROVE MetricsInv'
    <2> USE DEF structVars, updateVars
    <2>1. CASE HostUpdaterReturn(h)
        BY <2>1 DEF HostUpdaterReturn
    <2>2. CASE HostUpdaterTick(h)
        BY <2>2 DEF HostUpdaterTick
    <2>3. CASE HostSetQueueSizeGauge(h)
        <3>1. "gauge" \in hmeters[h] \/ hmeters[h] = {}
            <4>1. hmeters[h] \in {{}, Meters} /\ "gauge" \in Meters
                BY DEF Meters
            <4> QED BY <4>1
        <3> QED BY <2>3, <3>1 DEF HostSetQueueSizeGauge
    <2> QED BY <1>8, <2>1, <2>2, <2>3 DEF HostUpdater
<1>9. CASE UNCHANGED metricsVars
    BY <1>9 DEF metricsVars, structVars, updateVars, hostVars
<1> QED BY <1>1, <1>2, <1>3, <1>4, <1>5, <1>6, <1>7, <1>8, <1>9 DEF MetricsNext

LEMMA MetricsInvariant == MetricsSpec => []MetricsInv
BY MetricsInvInit, MetricsInvStep, PTL DEF MetricsSpec

-----------------------------------------------------------------------------

\* Every variable of the metrics keeps its type, and the channels that are
\* closed are those of the structs whose field `done' was reset
\* (metrics.go:132-140).
THEOREM MetricsTypeCorrect == MetricsSpec => []MetricsTypeOK
BY MetricsInvariant, PTL DEF MetricsInv

\* However many goroutines call SetMetricsCollector and Shutdown at a time, no
\* `done' channel is closed twice (metrics.go:132-140).
THEOREM DoneClosedAtMostOnce == MetricsSpec => []DoneClosedOnce
BY MetricsInvariant, PTL DEF MetricsInv

\* A collector that only fails to provide the counter of records never ends the
\* program, and neither does a host whose collector fails (metrics.go:76-78,
\* logr.go:445-449, target.go:106-132).
THEOREM DeathIsExplained == MetricsSpec => []DeathExplained
BY MetricsInvariant, PTL DEF MetricsInv

=============================================================================
