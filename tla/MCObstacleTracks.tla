-------------------------- MODULE MCObstacleTracks --------------------------
(***************************************************************************)
(* Instances of ObstacleTracks for TLC.                                    *)
(***************************************************************************)
EXTENDS ObstacleTracks

\* Two obstacles as close as SeparationAssumption allows with MatchDistance 2
\* and Jitter 1, away from the start line.
TwoObstacles == {4, 8}

\* One obstacle whose surface straddles the start line.
SeamObstacle == {0}
=============================================================================
