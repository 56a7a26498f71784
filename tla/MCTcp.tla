------------------------------- MODULE MCTcp -------------------------------
(***************************************************************************)
(* Instances of Tcp for TLC.                                               *)
(***************************************************************************)
EXTENDS Tcp

CONSTANTS d1, d2, d3    \* model values

OneDial    == {d1}
TwoDials   == {d1, d2}
ThreeDials == {d1, d2, d3}
=============================================================================
