---------------------------- MODULE LocalPlanner ----------------------------
(***************************************************************************)
(* The decision logic of LocalObstaclePlannerNode.plan: which path the     *)
(* node publishes, how it locks onto an obstacle and a side of it, and     *)
(* when it lets go.  plan is one action: it is the only writer of what it  *)
(* writes except for global_path_callback, which belongs to the same       *)
(* callback group.  The attributes it reads from the sensor group are      *)
(* module ScanPipeline's, the obstacle list is module ObstacleTracks'.     *)
(*                                                                         *)
(* The closed path has PathLength cells and the arc length s is a cell.    *)
(* Offsets keep their side (sign) and a coarse magnitude.  Footprints,     *)
(* curvature and the score are geometry: any subset of the candidates may  *)
(* turn out safe and feasible, and any of those may score best.  Whether a *)
(* recent scan and a pose are at hand, and whether the AEB count demands   *)
(* a stop, is decided elsewhere and may change from one plan to the next.  *)
(***************************************************************************)
EXTENDS Integers

CONSTANTS
    PathLength,      \* ClosedPathGeometry.length, in cells
    Horizons,        \* values of current_planning_horizon, one per speed
    Offsets,         \* lateral offsets around obstacles, without 0.0
    Transitions,     \* before/after distances: current_avoidance_distances times a scale
    Hold,            \* hold_before = hold_after: half the obstacle group plus margin
    AvoidanceAfter,  \* avoidance_after_distance, the release distance of a new lock
    MaxPaths,        \* bound: number of different global paths received
    MaxObstacles     \* bound: number of obstacles ever confirmed

ASSUME PlannerAssumption ==
    /\ PathLength \in Nat \ {0}
    /\ Horizons \subseteq Nat
    /\ Offsets \subseteq Int \ {0}
    /\ Transitions \subseteq [before : Nat \ {0}, after : Nat \ {0}]
    /\ Hold \in Nat
    /\ AvoidanceAfter \in Nat
    /\ MaxPaths \in Nat
    /\ MaxObstacles \in Nat

\* The entry and the exit of a manoeuvre are each shorter than half a lap.
\* The code bounds them by maximum_planning_horizon and does not compare that
\* with the length of the path.
ASSUME LapAssumption ==
    \A t \in Transitions : /\ 2 * (Hold + t.before) < PathLength
                            /\ 2 * (Hold + t.after) < PathLength

VARIABLES
    geometry,        \* number of the current global path, 0 before the first
    vehicleS,        \* projection of the vehicle
    moved,           \* the vehicle entered a new cell since the last plan
    obstacles,       \* the confirmed tracks: their identifier and arc length
    nextId,          \* identifier of the next obstacle
    lockedId,        \* locked_obstacle_id
    lockedOffset,    \* locked_offset
    lockedS,         \* locked_obstacle_s
    lockedVehicleS,  \* locked_vehicle_s
    releaseAfter,    \* locked_release_after
    lastSafePath,    \* last_safe_path
    published,       \* the path on local_path_topic
    stop,            \* the value on emergency_stop_topic
    avoiding         \* the value on avoidance_active_topic

lockVars == <<lockedId, lockedOffset, lockedS, lockedVehicleS, releaseAfter>>
pathVars == <<lastSafePath, published, stop, avoiding>>
world == <<vehicleS, obstacles, nextId>>
vars == <<geometry, world, moved, lockVars, pathVars>>

Cells == 0 .. PathLength - 1
None == -1       \* of an obstacle identifier or an arc length
NoOffset == 0    \* of a locked offset, which is never 0.0

\* ClosedPathGeometry.forward_distance: (b - a) modulo the length.
Forward(a, b) == IF a <= b THEN b - a ELSE b - a + PathLength

\* A path: the global path of some number, displaced by offset around center.
\* It leaves the global path `before` ahead of the plateau, is displaced in
\* full within Hold of center, and is back `after` behind the plateau.
Path == [geometry : 0 .. MaxPaths, center : Cells, offset : Offsets \cup {0},
         before : Nat, after : Nat]
Reference(g) == [geometry |-> g, center |-> 0, offset |-> 0, before |-> 0, after |-> 0]

\* Lateral displacement of a path abreast of s, in half offsets: the smooth
\* transitions count as half.
Displacement(path, s) ==
    LET ahead == Forward(s, path.center)   \* distance to the centre
        past  == Forward(path.center, s)   \* distance from the centre
    IN  CASE path.offset = 0                           -> 0
          [] ahead <= Hold \/ past <= Hold             -> 2 * path.offset
          [] Hold < ahead /\ ahead < Hold + path.before -> path.offset
          [] Hold < past /\ past < Hold + path.after    -> path.offset
          [] OTHER                                     -> 0

SameSide(a, b) == (a > 0) = (b > 0)

\* Mutant of AllowedOffsets: the locked side is only a preference.
AllowedOffsetsOfBothSides(locked) == Offsets \cup {0}

\* ordered_candidate_offsets: with a locked offset only its side is left, and
\* the undisplaced path is not.  The locked offset itself is always a candidate.
AllowedOffsets(locked) ==
    IF locked = NoOffset
      THEN Offsets \cup {0}
      ELSE {o \in Offsets : SameSide(o, locked)}

\* reachable_offset_plateau: the transition starts where the vehicle was when
\* it locked on, if the preferred start is already behind; None (no element)
\* without any room before the plateau.  A zero offset is the global path.
Candidates(origin, center, locked) ==
    LET room == Forward(origin, center) - Hold
    IN  IF room <= 0
          THEN {}
          ELSE {IF o = 0
                  THEN Reference(geometry)
                  ELSE [geometry |-> geometry, center |-> center, offset |-> o,
                        before |-> IF t.before < room THEN t.before ELSE room,
                        after |-> t.after] :
                 o \in AllowedOffsets(locked), t \in Transitions}

-----------------------------------------------------------------------------

Init ==
    /\ geometry = 0
    /\ vehicleS = 0
    /\ moved = FALSE
    /\ obstacles = {}
    /\ nextId = 0
    /\ lockedId = None
    /\ lockedOffset = NoOffset
    /\ lockedS = None
    /\ lockedVehicleS = None
    /\ releaseAfter = 0
    /\ lastSafePath = Reference(0)
    /\ published = Reference(0)
    /\ stop = TRUE
    /\ avoiding = FALSE

\* Mutant of ReleaseLock: a forgotten reset.
ReleaseLockKeepingS ==
    /\ lockedId' = None
    /\ lockedOffset' = NoOffset
    /\ lockedS' = lockedS
    /\ lockedVehicleS' = None
    /\ releaseAfter' = 0

\* The five lock attributes go back to their initial values.
ReleaseLock ==
    /\ lockedId' = None
    /\ lockedOffset' = NoOffset
    /\ lockedS' = None
    /\ lockedVehicleS' = None
    /\ releaseAfter' = 0

\* Mutant of GlobalPathCallback: the lock survives the change of path.
GlobalPathCallbackKeepingLock ==
    /\ geometry < MaxPaths
    /\ geometry' = geometry + 1
    /\ lastSafePath' = Reference(geometry')
    /\ \E kept \in {{}, obstacles} : obstacles' = kept
    /\ \E s \in Cells : vehicleS' = s
    /\ UNCHANGED <<moved, nextId, lockVars, published, stop, avoiding>>

\* global_path_callback, for a path that differs from the current one: all
\* that refers to the old arc lengths is dropped.  An update of the tracks
\* that runs at the same time can bring the old tracks back.
GlobalPathCallback ==
    /\ geometry < MaxPaths
    /\ geometry' = geometry + 1
    /\ lastSafePath' = Reference(geometry')
    /\ \E kept \in {{}, obstacles} : obstacles' = kept
    /\ \E s \in Cells : vehicleS' = s
    /\ ReleaseLock
    /\ UNCHANGED <<moved, nextId, published, stop, avoiding>>

-----------------------------------------------------------------------------
(* plan. *)

\* The early returns WAITING_FOR_GLOBAL_PATH_OR_MAP, AEB_SCAN_TIMEOUT and
\* AEB_TF_UNAVAILABLE: stop, and publish no path.
PlanStops ==
    /\ stop' = TRUE
    /\ avoiding' = FALSE
    /\ UNCHANGED <<geometry, world, lockVars, lastSafePath, published>>

\* active_obstacles, and the nearest of them: the first one after the stable
\* sort by forward distance.
Active(horizon) == {o \in obstacles : Forward(vehicleS, o.s) <= horizon}
Nearest(active) ==
    {o \in active : \A other \in active :
        \/ Forward(vehicleS, o.s) < Forward(vehicleS, other.s)
        \/ Forward(vehicleS, o.s) = Forward(vehicleS, other.s) /\ o.id <= other.id}

\* The lock as plan sees it while it deals with the primary obstacle: a new
\* primary resets it, and the manoeuvre starts at the vehicle.
NewLock(primary) == lockedId # primary.id
OffsetFor(primary) == IF NewLock(primary) THEN NoOffset ELSE lockedOffset
OriginFor(primary) == IF NewLock(primary) THEN vehicleS ELSE lockedVehicleS

\* No candidate is safe and feasible: keep publishing the last safe path, stop.
NoFeasibleCandidate(primary) ==
    /\ lockedId' = primary.id
    /\ lockedOffset' = OffsetFor(primary)
    /\ lockedVehicleS' = OriginFor(primary)
    /\ lockedS' = IF NewLock(primary) THEN primary.s ELSE lockedS
    /\ releaseAfter' = IF NewLock(primary) THEN AvoidanceAfter ELSE releaseAfter
    /\ published' = lastSafePath
    /\ stop' = TRUE
    /\ avoiding' = FALSE
    /\ UNCHANGED lastSafePath

\* The best feasible candidate is selected; a displaced one is locked.
SelectCandidate(primary) ==
    \E path \in Candidates(OriginFor(primary), primary.s, OffsetFor(primary)) :
        /\ lockedId' = primary.id
        /\ lockedVehicleS' = OriginFor(primary)
        /\ IF path.offset # 0
             THEN /\ lockedOffset' = path.offset
                  /\ lockedS' = primary.s
                  /\ releaseAfter' = Hold + path.after
             ELSE /\ lockedOffset' = OffsetFor(primary)
                  /\ lockedS' = IF NewLock(primary) THEN primary.s ELSE lockedS
                  /\ releaseAfter' = IF NewLock(primary) THEN AvoidanceAfter ELSE releaseAfter
        /\ lastSafePath' = path
        /\ published' = path
        /\ stop' \in BOOLEAN
        /\ avoiding' = (path.offset # 0)

PlanAvoids ==
    /\ geometry # 0
    /\ \E horizon \in Horizons : \E primary \in Nearest(Active(horizon)) :
         NoFeasibleCandidate(primary) \/ SelectCandidate(primary)
    /\ UNCHANGED <<geometry, world>>

\* Mutants of Retained: the manoeuvre ends as soon as the obstacle is behind ...
RetainedUntilBehind ==
    /\ lockedS # None
    /\ lockedOffset # NoOffset
    /\ 2 * Forward(vehicleS, lockedS) <= PathLength

\* ... or it is retained for as long as there is a locked offset.
RetainedForever ==
    /\ lockedS # None
    /\ lockedOffset # NoOffset

\* Without an active obstacle the locked manoeuvre is retained until the
\* vehicle is behind the obstacle (the obstacle is more than half a lap ahead)
\* and past the release distance.
Retained ==
    /\ lockedS # None
    /\ lockedOffset # NoOffset
    /\ \/ 2 * Forward(vehicleS, lockedS) <= PathLength
       \/ Forward(lockedS, vehicleS) < releaseAfter

\* Mutant of PlanRetains: only active obstacles count as an avoidance.
PlanRetainsSilently ==
    /\ geometry # 0
    /\ \E horizon \in Horizons : Active(horizon) = {}
    /\ Retained
    /\ published' = lastSafePath
    /\ stop' \in BOOLEAN
    /\ avoiding' = FALSE
    /\ UNCHANGED <<geometry, world, lockVars, lastSafePath>>

\* Nothing active, and the manoeuvre is not over: its path is published again.
PlanRetains ==
    /\ geometry # 0
    /\ \E horizon \in Horizons : Active(horizon) = {}
    /\ Retained
    /\ published' = lastSafePath
    /\ stop' \in BOOLEAN
    /\ avoiding' = TRUE
    /\ UNCHANGED <<geometry, world, lockVars, lastSafePath>>

\* Nothing active, and nothing retained: back to the global path.
PlanReleases ==
    /\ geometry # 0
    /\ \E horizon \in Horizons : Active(horizon) = {}
    /\ ~Retained
    /\ ReleaseLock
    /\ lastSafePath' = Reference(geometry)
    /\ published' = Reference(geometry)
    /\ stop' \in BOOLEAN
    /\ avoiding' = FALSE
    /\ UNCHANGED <<geometry, world>>

Plan ==
    /\ PlanStops \/ PlanAvoids \/ PlanRetains \/ PlanReleases
    /\ moved' = FALSE

-----------------------------------------------------------------------------
(* What plan reacts to. *)

\* The vehicle moves along the path; told to stop, it may still be rolling.
\* A cell is longer than what the vehicle covers between two plans (0.05 s).
Drive ==
    /\ ~moved
    /\ moved' = TRUE
    /\ vehicleS' = IF vehicleS = PathLength - 1 THEN 0 ELSE vehicleS + 1
    /\ UNCHANGED <<geometry, obstacles, nextId, lockVars, pathVars>>

\* A track reaches obstacle_confirmation_frames.
ObstacleConfirmed ==
    /\ nextId < MaxObstacles
    /\ \E s \in Cells : obstacles' = obstacles \cup {[id |-> nextId, s |-> s]}
    /\ nextId' = nextId + 1
    /\ UNCHANGED <<geometry, vehicleS, moved, lockVars, pathVars>>

\* A track expires.
ObstacleLost ==
    /\ \E o \in obstacles : obstacles' = obstacles \ {o}
    /\ UNCHANGED <<geometry, vehicleS, nextId, moved, lockVars, pathVars>>

\* The running mean moves a confirmed track a little, possibly over the seam.
ObstacleDrifts ==
    /\ \E o \in obstacles, s \in Cells :
         /\ Forward(o.s, s) = 1 \/ Forward(s, o.s) = 1
         /\ obstacles' = (obstacles \ {o}) \cup {[o EXCEPT !.s = s]}
    /\ UNCHANGED <<geometry, vehicleS, nextId, moved, lockVars, pathVars>>

\* While plan stops the vehicle, for want of a pose say, localization may find
\* it anywhere.
Relocalize ==
    /\ stop
    /\ \E s \in Cells : vehicleS' = s
    /\ UNCHANGED <<geometry, obstacles, nextId, moved, lockVars, pathVars>>

Next ==
    \/ GlobalPathCallback
    \/ Plan
    \/ Drive
    \/ ObstacleConfirmed
    \/ ObstacleLost
    \/ ObstacleDrifts
    \/ Relocalize

Spec == Init /\ [][Next]_vars

\* The planning timer keeps firing and a vehicle that is not told to stop
\* keeps moving.
FairSpec == Spec /\ WF_vars(Plan) /\ WF_vars(Drive /\ ~stop)

-----------------------------------------------------------------------------
(* Properties. *)

Obstacle == [id : 0 .. MaxObstacles - 1, s : Cells]

\* Domains of the variables.  The identifier, the arc length and the origin of
\* a lock are None together, so plan never computes with a None.
TypeOK ==
    /\ geometry \in 0 .. MaxPaths
    /\ vehicleS \in Cells
    /\ moved \in BOOLEAN
    /\ obstacles \subseteq Obstacle
    /\ nextId \in 0 .. MaxObstacles
    /\ lockedId \in 0 .. MaxObstacles - 1 \cup {None}
    /\ lockedOffset \in Offsets \cup {NoOffset}
    /\ lockedS \in Cells \cup {None}
    /\ lockedVehicleS \in Cells \cup {None}
    /\ releaseAfter \in Nat
    /\ (lockedId = None) = (lockedS = None)
    /\ (lockedId = None) = (lockedVehicleS = None)
    /\ lastSafePath \in Path
    /\ published \in Path
    /\ stop \in BOOLEAN
    /\ avoiding \in BOOLEAN

\* The five lock attributes and last_safe_path, assigned in five places of
\* plan and global_path_callback, describe one manoeuvre: a locked offset is
\* the offset of the last safe path, around the locked obstacle, on the
\* current global path, and it is released where that path has returned.
LockMatchesPath ==
    lockedOffset # NoOffset =>
        /\ lockedId # None
        /\ lastSafePath.geometry = geometry
        /\ lastSafePath.offset = lockedOffset
        /\ lastSafePath.center = lockedS
        /\ releaseAfter = Hold + lastSafePath.after

\* ordered_candidate_offsets: "Prefer a free side initially and commit to it
\* during the manoeuvre."  While the lock names the same obstacle the side
\* never changes, is never given up, and the entry of the manoeuvre does not
\* move with the vehicle, whatever becomes infeasible or disappears meanwhile.
ManoeuvreCommitted ==
    [][lockedId # None /\ lockedId' = lockedId =>
         /\ lockedVehicleS' = lockedVehicleS
         /\ lockedOffset # NoOffset =>
              /\ lockedOffset' # NoOffset
              /\ SameSide(lockedOffset, lockedOffset')]_vars

\* "Keep the already validated avoidance path until the vehicle has travelled
\* beyond its smooth return section": when a locked manoeuvre is let go and
\* the path is still the same global path, the vehicle is abreast of a part
\* of the manoeuvre that has returned to the global path.
ReleasedBeyondReturn ==
    [][lockedOffset # NoOffset /\ lockedId' = None /\ geometry' = geometry
         => Displacement(lastSafePath, vehicleS) = 0]_vars

\* The avoidance flag, which makes the controllers switch to their avoidance
\* gains, tells the truth about the published path whenever they may drive.
AvoidanceAnnounced == ~stop => avoiding = (published.offset # 0)

\* reachable_offset_plateau: "a newly detected obstacle never causes a
\* discontinuous path jump".  When plan locks onto another obstacle, the path
\* it publishes has the displacement of the path before abreast of the vehicle.
NoJumpOnDetection ==
    [][lockedId' # lockedId /\ lockedId' # None /\ published.geometry = geometry
         => Displacement(published', vehicleS) = Displacement(published, vehicleS)]_vars

\* When nothing is tracked any more and nothing stops the vehicle, it ends up
\* on the global path for good: the retained manoeuvre is released.
ReturnsToGlobalPath ==
    <>[](~stop /\ obstacles = {}) =>
        <>[](published = Reference(geometry) /\ lockedId = None)
=============================================================================
