----------------------------- MODULE MCMetrics -----------------------------
(***************************************************************************)
(* Instances of Metrics for TLC.                                           *)
(***************************************************************************)
EXTENDS Metrics

CONSTANTS a, b, m1, m2, m3, h1  \* model values

TwoThreads   == {a, b}
ThreeStructs == {m1, m2, m3}
TwoStructs   == {m1, m2}
OneStruct    == {m1}
OneHost      == {h1}
NoHost       == {}
\* A collector that works, one that fails for a counter, one that always fails.
Complete     == {{}}
Failing      == {{}, {"logged"}, Meters}
=============================================================================
