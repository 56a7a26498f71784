---------------------------- MODULE MCTargetHost ----------------------------
(***************************************************************************)
(* Instances of TargetHost for TLC.                                        *)
(***************************************************************************)
EXTENDS TargetHost

CONSTANTS
    h1, h2, f1, f2, Debug, Info, \* model values
    MaxCalls            \* bound on the calls of Log that reach a host's channel

TwoHosts    == {h1, h2}
TwoFeeders  == {f1, f2}
TwoLevels   == {Debug, Info}
InfoOnly    == [h \in Hosts |-> {Info}]
AllFaults   == FaultNames
DropOrBlock == {"drop", "block"}
\* h2 has an unbuffered channel.
TwoAndNone  == [h \in Hosts |-> IF h = h1 THEN 2 ELSE 0]
OneStamp    == {0}

\* Every call of Log that has an effect ends in one of these counters; only new calls are bounded, never a step of a call or of a host.
WithinBound == \A h \in Hosts : sent[h] + dropped[h] + reported[h] < (IF MaxTargetQueue[h] = 0 THEN MaxCalls - 2 ELSE MaxCalls)

\* Hosts do not interact, so it is enough that at most one of the two is created.
MCHostInit == HostInit /\ (\A g, h \in Hosts : Created(g) /\ Created(h) => g = h)

MCHostNext ==
    \/ (\A h \in Hosts : ~Created(h)) /\ \E h \in Hosts : NewTargetHost(h)
    \/ \E h \in Hosts : HostLoop(h) \/ ShutdownBegin(h) \/ ShutdownEnd(h)
    \/ \E f \in Feeders : LogStep(f)
    \/ WithinBound /\ \E f \in Feeders : LogCall(f)

MCHostSpec == MCHostInit /\ [][MCHostNext]_hostVars

MCHostFairSpec == MCHostSpec /\ HostFairness

=============================================================================
