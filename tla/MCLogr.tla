------------------------------- MODULE MCLogr -------------------------------
(***************************************************************************)
(* Instances of Logr for TLC: what each thread of the application may call *)
(* and how often.                                                          *)
(***************************************************************************)
EXTENDS Logr, FiniteSets

CONSTANTS
    a, b, h1, h2, Debug, Info,  \* model values
    ACalls, BCalls,     \* the operations that threads a and b call
    MaxRecords,         \* bound on the records accepted or timed out
    MaxFlushes          \* bound on the calls of Flush and Shutdown

TwoThreads  == {a, b}
OneHost     == {h1}
TwoHosts    == {h1, h2}
Loop        == {readLoop}
OneLevel    == {Info}
TwoLevels   == {Debug, Info}
\* h1 takes Info only, any other host all levels.
Filters     == [h \in Hosts |-> IF h = h1 THEN {Info} ELSE Levels]
OneEach     == [h \in Hosts |-> 1]
\* h2 has an unbuffered channel.
OneAndNone  == [h \in Hosts |-> IF h = h1 THEN 1 ELSE 0]
Numbers     == 0 .. MaxRecords
StartWithH1 == <<h1>>
StartWithH1H2 == <<h1, h2>>

May(t, op) == op \in (IF t = a THEN ACalls ELSE BCalls)

Running(op) == Cardinality({t \in Threads : top[t] = op})

\* Only new calls are bounded, never a step of a call or of a goroutine.
MCCall(t) ==
    \/ /\ May(t, "log")
       /\ Len(accepted) + lgrErrors + Running("log") < MaxRecords
       /\ \E l \in Levels : LoggerLog(t, l)
    \/ May(t, "flush") /\ flushCalls + Running("flush") < MaxFlushes /\ Flush(t)
    \/ May(t, "shutdown") /\ flushCalls + Running("shutdown") < MaxFlushes /\ Shutdown(t)
    \/ May(t, "add") /\ \E h \in Hosts : AddTarget(t, h)
    \/ May(t, "remove") /\ \E h \in Hosts : RemoveTargets(t, {h})

MCNext == LogrStep \/ \E t \in Threads : MCCall(t)

MCSpec == LogrInit /\ [][MCNext]_vars

MCFairSpec == MCSpec /\ LogrFairness
=============================================================================
