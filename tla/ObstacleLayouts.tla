--------------------------- MODULE ObstacleLayouts ---------------------------
(***************************************************************************)
(* The static obstacles of GymBridge: a lap tracker that follows the car   *)
(* along the reference path, and obstacle layouts that a worker thread     *)
(* prepares one lap ahead.  The path is a ring of positions; two of them   *)
(* may be close in space, where a nearest-point search can take one for    *)
(* the other.                                                              *)
(***************************************************************************)
EXTENDS Integers, Sequences, FiniteSets

CONSTANTS
    PathLength,      \* positions on the closed path
    SearchDistance,  \* search_distance of the lap tracker
    Branches,        \* pairs of positions of branches that are close in space
    Count,           \* random_obstacle_count
    StartClearance,  \* start_clearance of generate_obstacles
    MinSpacing,      \* obstacle_min_spacing
    ResetAt,         \* positions a reset puts the car on
    ClickAt,         \* positions of clicked points
    PromptWorker,    \* assumption: a queued layout is started before the car moves on
    MaxRounds,       \* bound of obstacle_round
    MaxObstacles     \* bound: obstacles on the map

Positions == 0 .. PathLength - 1

ASSUME ObstacleLayoutsAssumption ==
    /\ {PathLength, SearchDistance, Count, StartClearance, MinSpacing,
        MaxRounds, MaxObstacles} \subseteq Nat
    /\ PathLength >= 4 /\ Count <= MaxObstacles
    /\ 0 < SearchDistance /\ 4 * SearchDistance < PathLength
    /\ ResetAt \subseteq Positions /\ ClickAt \subseteq Positions
    /\ \A branch \in Branches :
        /\ branch \subseteq Positions
        /\ \A a, b \in branch : a # b => SearchDistance + 1 < (a - b) % PathLength
VARIABLES
    pos,        \* the position of ego_pose on the path
    tracking,   \* obstacle_lap_tracker exists
    previousS,  \* obstacle_lap_tracker.previous_s
    progress,   \* obstacle_lap_tracker.progress
    laps,       \* parity of obstacle_lap_tracker.lap_count
    obstacles,  \* obstacles
    sequence,   \* obstacle_sequence
    active,     \* random_obstacles_active
    round,      \* obstacle_round
    next,       \* next_obstacle_layout, the future of the worker thread
    applied,    \* history: the round of the last layout applied
    failed,     \* history: the last attempt to change the layout failed
    cleared,    \* history: cleared, and not randomized by request since
    covered     \* history: positions visited since the lap count changed

tracker == <<tracking, previousS, progress, laps, covered>>
layoutVars == <<obstacles, sequence, active, round, next, applied, failed, cleared>>
vars == <<pos, tracker, layoutVars>>

Forward(from, to) == (to - from) % PathLength
Apart(a, b) == IF Forward(a, b) < Forward(b, a) THEN Forward(a, b) ELSE Forward(b, a)

\* Positions close in space to a position.
Near(p) == {p} \cup UNION {branch \in Branches : p \in branch}

NoFuture == [state |-> "none", round |-> 0, layout |-> <<>>]
Queued(r) == [state |-> "queued", round |-> r, layout |-> <<>>]

\* generate_obstacles from start_xy: clearance is forward arc distance, spacing is
\* distance in space.  Which candidates the validator refuses is a free choice.
Layouts(start) ==
    {layout \in [1 .. Count -> Positions] :
        /\ \A i \in 1 .. Count : Forward(start, layout[i]) >= StartClearance
        /\ \A i, j \in 1 .. Count : i # j =>
            \A a \in Near(layout[i]) : Apart(a, layout[j]) >= MinSpacing}

AsObstacles(layout) ==
    [i \in 1 .. Len(layout) |-> [id |-> i - 1, at |-> layout[i], random |-> TRUE]]

\* The outcomes of generate_obstacle_layout started at a position.
Outcomes(r, start) ==
    {[state |-> "done", round |-> r, layout |-> layout] : layout \in Layouts(start)}
        \cup {[state |-> "error", round |-> r, layout |-> <<>>]}

\* future.result(): waits for a layout that is not ready yet.
Results(future, start) ==
    IF future.state = "queued" THEN Outcomes(future.round, start) ELSE {future}

Init ==
    /\ pos \in ResetAt
    /\ tracking = FALSE
    /\ previousS = pos
    /\ progress = 0
    /\ laps = 0
    /\ covered = {}
    /\ obstacles = <<>>
    /\ sequence = 0
    /\ active = FALSE
    /\ round = 0
    /\ next = NoFuture
    /\ applied = -1
    /\ failed = FALSE
    /\ cleared = FALSE

\* ClosedPathLapTracker.reset: reset poses are unambiguous.
ResetTracker(position) ==
    /\ tracking' = TRUE
    /\ previousS' = position
    /\ progress' = 0
    /\ laps' = 0
    /\ covered' = {position}

\* Mutant of Projections: the nearest point of the whole path.
ProjectionsAnywhere(position) == Near(position)

\* _projection on _local_indices: which of the positions close in space is taken.
Projections(position) ==
    LET local == {s \in Positions : Apart(s, previousS) <= SearchDistance}
    IN  IF Near(position) \cap local = {} THEN local ELSE Near(position) \cap local

\* The signed step along the ring is added; progress never falls below zero.
ProgressAfter(s) ==
    LET half == PathLength \div 2
        delta == ((s - previousS + half) % PathLength) - half
    IN  IF progress + delta < 0 THEN 0 ELSE progress + delta

\* ClosedPathLapTracker.update.
UpdateTracker(s) ==
    LET total == ProgressAfter(s)
    IN  /\ previousS' = s
        /\ progress' = total % PathLength
        /\ laps' = (laps + total \div PathLength) % 2
        /\ covered' = IF total >= PathLength THEN {pos'} ELSE covered \cup {pos'}
        /\ UNCHANGED tracking

\* Mutant of ApplyLayout: the future that was taken is still in place.
ApplyLayoutKeepingFuture(result, newRound) ==
    /\ obstacles' = AsObstacles(result.layout)
    /\ sequence' = Len(result.layout)
    /\ active' = TRUE
    /\ applied' = result.round
    /\ next' = result
    /\ round' = newRound

\* Mutant of ApplyLayout: clicked points go on counting where they were.
ApplyLayoutKeepingSequence(result, newRound) ==
    /\ obstacles' = AsObstacles(result.layout)
    /\ active' = TRUE
    /\ applied' = result.round
    /\ next' = Queued(newRound)
    /\ round' = newRound + 1
    /\ UNCHANGED sequence

\* apply_obstacle_layout, then schedule_next_obstacle_layout.
ApplyLayout(result, newRound) ==
    /\ obstacles' = AsObstacles(result.layout)
    /\ sequence' = Len(result.layout)
    /\ active' = TRUE
    /\ applied' = result.round
    /\ next' = Queued(newRound)
    /\ round' = newRound + 1

\* The future that is taken, a new one if there is none.
Taken == IF next = NoFuture THEN Queued(round) ELSE next

\* The common part of randomize_obstacles and _randomize_obstacles_after_lap:
\* an error keeps the obstacles and leaves no future behind.
ChangeLayout(position) ==
    LET newRound == IF next = NoFuture THEN round + 1 ELSE round
    IN  /\ newRound < MaxRounds
        /\ \E result \in Results(Taken, position) :
            IF result.state = "done"
            THEN /\ ApplyLayout(result, newRound)
                 /\ failed' = FALSE
            ELSE /\ next' = NoFuture
                 /\ round' = newRound
                 /\ failed' = TRUE
                 /\ UNCHANGED <<obstacles, sequence, active, applied>>

\* The new position of a car that drives on.
Drives == {(pos + step) % PathLength : step \in {-1, 1}}
WorkerStarted == PromptWorker => next.state # "queued"

\* The car moves by one position and _update_sim_state looks at it: without a
\* lap tracker, within a lap, and at the end of one.
DriveUntracked ==
    /\ ~tracking
    /\ WorkerStarted
    /\ pos' \in Drives
    /\ UNCHANGED <<tracker, layoutVars>>

DriveOn ==
    /\ tracking
    /\ WorkerStarted
    /\ pos' \in Drives
    /\ \E s \in Projections(pos') : ProgressAfter(s) < PathLength /\ UpdateTracker(s)
    /\ UNCHANGED layoutVars

CompleteLap ==
    /\ tracking
    /\ WorkerStarted
    /\ pos' \in Drives
    /\ \E s \in Projections(pos') : ProgressAfter(s) >= PathLength /\ UpdateTracker(s)
    /\ IF active
       THEN ChangeLayout(pos') /\ UNCHANGED cleared
       ELSE UNCHANGED layoutVars

\* generate_obstacle_layout in the worker thread, from where the car is then.
Generate ==
    /\ next.state = "queued"
    /\ next' \in Outcomes(next.round, pos)
    /\ UNCHANGED <<pos, tracker, obstacles, sequence, active, round, applied, failed, cleared>>

\* randomize_obstacles_callback when load_obstacle_placement_data raises, which it can
\* until it has succeeded once: the path is read and followed before the map is read.
\* A path that is read is one that the lap tracker accepts (PathLength >= 4).
RandomizeWithoutData ==
    /\ round = 0
    /\ failed' = TRUE
    /\ \/ UNCHANGED tracker
       \/ ~tracking /\ ResetTracker(pos)
    /\ UNCHANGED <<pos, obstacles, sequence, active, round, next, applied, cleared>>

\* randomize_obstacles_callback with the path and the map read; a first reading
\* creates the lap tracker.
RandomizeObstaclesCallback ==
    /\ ChangeLayout(pos)
    /\ cleared' = (cleared /\ failed')
    /\ IF tracking THEN UNCHANGED tracker ELSE ResetTracker(pos)
    /\ UNCHANGED pos

\* Mutant of ClearObstaclesCallback: laps go on randomizing.
ClearObstaclesCallbackStayingActive ==
    /\ obstacles' = <<>>
    /\ sequence' = 0
    /\ cleared' = TRUE
    /\ UNCHANGED <<pos, tracker, active, round, next, applied, failed>>

\* clear_obstacles_callback; the prepared layout stays.
ClearObstaclesCallback ==
    /\ obstacles' = <<>>
    /\ sequence' = 0
    /\ active' = FALSE
    /\ cleared' = TRUE
    /\ UNCHANGED <<pos, tracker, round, next, applied, failed>>

ClickedPointCallback ==
    /\ Len(obstacles) < MaxObstacles
    /\ \E at \in ClickAt :
        obstacles' = Append(obstacles, [id |-> sequence, at |-> at, random |-> FALSE])
    /\ sequence' = sequence + 1
    /\ UNCHANGED <<pos, tracker, active, round, next, applied, failed, cleared>>

\* ego_reset_callback with randomize_obstacles_on_reset off.
EgoResetCallback ==
    /\ WorkerStarted
    /\ pos' \in ResetAt
    /\ IF tracking THEN ResetTracker(pos') ELSE UNCHANGED tracker
    /\ UNCHANGED layoutVars

Next ==
    \/ DriveUntracked
    \/ DriveOn
    \/ CompleteLap
    \/ Generate
    \/ RandomizeWithoutData
    \/ RandomizeObstaclesCallback
    \/ ClearObstaclesCallback
    \/ ClickedPointCallback
    \/ EgoResetCallback

Spec == Init /\ [][Next]_vars
-------------------------------------------------------------------------------
(* The variables have the values the code can give them. *)
TypeOK ==
    /\ pos \in Positions /\ previousS \in Positions
    /\ progress \in 0 .. PathLength - 1
    /\ laps \in {0, 1}
    /\ {tracking, active, failed, cleared} \subseteq BOOLEAN
    /\ Len(obstacles) <= MaxObstacles
    /\ sequence = Len(obstacles)
    /\ applied \in -1 .. round - 1
    /\ round \in 0 .. MaxRounds
    /\ next.state \in {"none", "queued", "done", "error"}
    /\ next # NoFuture => next.round = round - 1
    /\ covered \subseteq Positions

(* A lap is counted only after the car has been everywhere on the circuit, *)
(* however it went back and forth across the start line or past a branch   *)
(* of the track that is close in space.                                    *)
LapCoversCircuit == [][CompleteLap => covered \cup {pos'} = Positions]_vars

(* While random obstacles are on, every completed lap brings a layout that *)
(* was never shown before, unless its generation failed, also after        *)
(* failures, resets, and layouts taken early by request.                   *)
NewLayoutEachLap == [][CompleteLap /\ active => applied' > applied \/ failed']_vars

(* Cleared obstacles do not come back by themselves, although a prepared   *)
(* layout and a running worker survive the request.                        *)
ClearedStaysClear == cleared => \A i \in DOMAIN obstacles : ~obstacles[i].random

(* No two obstacles share the id that identifies their RViz marker, in any *)
(* mixture of clicked points, layouts and clear requests.                  *)
IdsUnique ==
    \A i, j \in DOMAIN obstacles : obstacles[i].id = obstacles[j].id => i = j

===============================================================================
