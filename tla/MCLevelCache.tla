---------------------------- MODULE MCLevelCache ----------------------------
(***************************************************************************)
(* Instances of LevelCache for TLC.                                        *)
(***************************************************************************)
EXTENDS LevelCache, TLC

CONSTANTS t1, t2, t3, h1, h2    \* model values

TwoThreads   == {t1, t2}
ThreeThreads == {t1, t2, t3}
OneTarget    == {h1}
TwoTargets   == {h1, h2}

\* h1 has a StdFilter that enables the valid levels with a stack trace, h2 a
\* CustomFilter with no levels yet.
OnlyH1  == {h1}
OnlyH2  == {h2}
Filters == [h \in Targets |-> IF h = h1 THEN StdFilter(MaxLevelID, MaxLevelID)
                                        ELSE [id \in LevelIDs |-> "off"]]
ThreadSymmetry == Permutations(Threads)
Nothing == [h \in Targets |-> [id \in LevelIDs |-> "off"]]
=============================================================================
