--------------------------- MODULE MCLocalPlanner ---------------------------
(***************************************************************************)
(* Instances of LocalPlanner for TLC.                                      *)
(***************************************************************************)
EXTENDS LocalPlanner

ShortHorizons == {1, 2}
TwoHorizons == {2, 3}
BothSides == {-2, -1, 1}
OnePerSide == {-1, 1}
OneSide == {1}
OneTransition == {[before |-> 2, after |-> 2]}
=============================================================================
