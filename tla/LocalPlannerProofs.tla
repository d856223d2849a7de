------------------------- MODULE LocalPlannerProofs -------------------------
(***************************************************************************)
(* Proofs about LocalPlanner, for every value of its constants.  TypeOK    *)
(* and LockMatchesPath are inductive together: a displaced candidate is    *)
(* locked with all its attributes in one step, and with a locked offset    *)
(* the undisplaced path is no candidate.  The claims about steps follow    *)
(* from that invariant and, for the release, from arithmetic on the closed *)
(* path under LapAssumption.                                               *)
(***************************************************************************)
EXTENDS LocalPlanner, TLAPS

\* Every half of the last manoeuvre is shorter than half a lap.
ShortManoeuvre ==
    lastSafePath.offset # 0 =>
        /\ 2 * (Hold + lastSafePath.before) < PathLength
        /\ 2 * (Hold + lastSafePath.after) < PathLength
        /\ lastSafePath.after \in Nat \ {0}

PlannerInv == TypeOK /\ LockMatchesPath /\ ShortManoeuvre

-----------------------------------------------------------------------------
(* The closed path. *)

\* forward_distance is a length on the lap, and the distances in the two
\* directions add up to the lap.
LEMMA ForwardProperties ==
    ASSUME NEW a \in Cells, NEW b \in Cells
    PROVE  /\ Forward(a, b) \in 0 .. PathLength - 1
           /\ a # b => Forward(a, b) + Forward(b, a) = PathLength
           /\ a = b => Forward(a, b) = 0
<1>1. PathLength \in Nat /\ a \in Int /\ b \in Int
  BY PlannerAssumption DEF Cells
<1>2. 0 <= a /\ a <= PathLength - 1 /\ 0 <= b /\ b <= PathLength - 1
  BY <1>1 DEF Cells
<1>3. CASE a < b
  BY <1>1, <1>2, <1>3 DEF Forward
<1>4. CASE a = b
  BY <1>1, <1>2, <1>4 DEF Forward
<1>5. CASE b < a
  BY <1>1, <1>2, <1>5 DEF Forward
<1> QED
  BY <1>1, <1>3, <1>4, <1>5

\* The candidates are paths on the current geometry; a displaced one passes
\* the obstacle at the given centre on an allowed side.
LEMMA CandidatesProperties ==
    ASSUME TypeOK, NEW origin \in Cells, NEW center \in Cells,
           NEW locked \in Offsets \cup {NoOffset},
           NEW path \in Candidates(origin, center, locked)
    PROVE  /\ path \in Path
           /\ path.geometry = geometry
           /\ path.offset # 0 => path.center = center
           /\ path.offset = 0 => locked = NoOffset
           /\ path.offset # 0 /\ locked # NoOffset => SameSide(path.offset, locked)
           /\ path.offset # 0 => /\ 2 * (Hold + path.before) < PathLength
                                 /\ 2 * (Hold + path.after) < PathLength
                                 /\ path.after \in Nat \ {0}
<1> DEFINE room == Forward(origin, center) - Hold
           cut(t) == IF t.before < room THEN t.before ELSE room
           displaced(o, t) == [geometry |-> geometry, center |-> center, offset |-> o,
                               before |-> cut(t), after |-> t.after]
<1>1. room \in Int /\ Hold \in Nat
  <2>1. Forward(origin, center) \in 0 .. PathLength - 1
    BY ForwardProperties
  <2> QED
    BY <2>1, PlannerAssumption
<1>2. PICK o \in AllowedOffsets(locked), t \in Transitions :
        room > 0 /\ path = IF o = 0 THEN Reference(geometry) ELSE displaced(o, t)
  <2>1. ~(room <= 0)
    BY DEF Candidates
  <2>2. path \in {IF o = 0 THEN Reference(geometry) ELSE displaced(o, t) :
                   o \in AllowedOffsets(locked), t \in Transitions}
    BY <2>1 DEF Candidates
  <2>3. room > 0
    BY <1>1, <2>1
  <2> QED
    BY <2>2, <2>3
<1>3. t.before \in Nat /\ t.after \in Nat
  BY PlannerAssumption
<1>4. /\ o \in Offsets \cup {0}
      /\ locked # NoOffset => o # 0 /\ SameSide(o, locked)
  BY PlannerAssumption DEF AllowedOffsets
<1>5. geometry \in 0 .. MaxPaths /\ 0 \in Cells
  BY PlannerAssumption DEF TypeOK, Cells
<1>6. CASE o = 0
  <2>1. path = Reference(geometry) /\ locked = NoOffset
    BY <1>2, <1>4, <1>6
  <2>2. /\ path \in Path /\ path.geometry = geometry /\ path.offset = 0
    BY <1>5, <2>1 DEF Reference, Path
  <2> QED
    BY <2>1, <2>2
<1>7. CASE o # 0
  <2>1. cut(t) \in Nat
    BY <1>2, <1>1, <1>3
  <2>2. path = displaced(o, t)
    BY <1>2, <1>7
  <2>3. path \in Path
    BY <1>3, <1>4, <1>5, <2>1, <2>2 DEF Path
  <2>4. /\ path.geometry = geometry /\ path.center = center /\ path.offset = o
        /\ path.before = cut(t) /\ path.after = t.after
    BY <2>2
  <2>5. /\ 2 * (Hold + cut(t)) < PathLength /\ 2 * (Hold + t.after) < PathLength
        /\ t.after \in Nat \ {0}
    <3>1. cut(t) <= t.before
      BY <1>1, <1>3
    <3>2. /\ 2 * (Hold + t.before) < PathLength /\ 2 * (Hold + t.after) < PathLength
          /\ PathLength \in Int
      BY LapAssumption, PlannerAssumption
    <3>3. t.after \in Nat \ {0}
      BY PlannerAssumption
    <3> HIDE DEF cut
    <3> QED
      BY <1>1, <1>3, <2>1, <3>1, <3>2, <3>3
  <2> HIDE DEF cut, displaced
  <2> QED
    BY <1>4, <1>7, <2>3, <2>4, <2>5
<1> QED
  BY <1>6, <1>7

-----------------------------------------------------------------------------
(* The invariant. *)

LEMMA ReferenceIsPath == ASSUME NEW g \in 0 .. MaxPaths
                         PROVE  Reference(g) \in Path /\ Reference(g).offset = 0
BY PlannerAssumption DEF Reference, Path, Cells

LEMMA InitPlanner == Init => PlannerInv
<1> SUFFICES ASSUME Init PROVE PlannerInv
  OBVIOUS
<1>1. Reference(0) \in Path
  BY ReferenceIsPath, PlannerAssumption
<1>2. TypeOK
  <2>1. vehicleS \in Cells /\ geometry \in 0 .. MaxPaths /\ nextId \in 0 .. MaxObstacles
    BY PlannerAssumption DEF Init, Cells
  <2>2. lastSafePath \in Path /\ published \in Path
    BY <1>1 DEF Init
  <2>3. (lockedId = None) = (lockedS = None) /\ (lockedId = None) = (lockedVehicleS = None)
    BY DEF Init
  <2>4. releaseAfter \in Nat
    BY DEF Init
  <2> QED
    BY <2>1, <2>2, <2>3, <2>4 DEF Init, TypeOK
<1>3. LockMatchesPath /\ ShortManoeuvre
  BY DEF Init, LockMatchesPath, ShortManoeuvre, Reference
<1> QED
  BY <1>2, <1>3 DEF PlannerInv

LEMMA GlobalPathStep == PlannerInv /\ GlobalPathCallback => PlannerInv'
<1> SUFFICES ASSUME PlannerInv, GlobalPathCallback PROVE PlannerInv'
  OBVIOUS
<1>1. geometry' \in 0 .. MaxPaths
  BY PlannerAssumption DEF GlobalPathCallback, PlannerInv, TypeOK
<1>2. lastSafePath' \in Path
  BY <1>1, ReferenceIsPath DEF GlobalPathCallback
<1>3. TypeOK'
  BY <1>1, <1>2 DEF GlobalPathCallback, ReleaseLock, PlannerInv, TypeOK
<1>4. LockMatchesPath' /\ ShortManoeuvre'
  BY DEF GlobalPathCallback, ReleaseLock, LockMatchesPath, ShortManoeuvre, Reference
<1> QED
  BY <1>3, <1>4 DEF PlannerInv

\* What plan knows of the obstacle it deals with.
LEMMA PrimaryProperties ==
    ASSUME PlannerInv, NEW horizon, NEW primary \in Nearest(Active(horizon))
    PROVE  /\ primary.id \in 0 .. MaxObstacles - 1 /\ primary.id # None
           /\ primary.s \in Cells /\ primary.s # None
           /\ OffsetFor(primary) \in Offsets \cup {NoOffset}
           /\ OriginFor(primary) \in Cells /\ OriginFor(primary) # None
           /\ ~NewLock(primary) => lockedId # None /\ lockedS \in Cells
<1>1. primary \in Obstacle
  BY DEF Nearest, Active, PlannerInv, TypeOK
<1>2. primary.id \in 0 .. MaxObstacles - 1 /\ primary.s \in Cells
  BY <1>1 DEF Obstacle
<1>3. primary.id # None /\ primary.s # None /\ \A s \in Cells : s # None
  BY <1>2, PlannerAssumption DEF Cells, None
<1>4. ~NewLock(primary) => /\ lockedId # None /\ lockedS \in Cells
                           /\ lockedVehicleS \in Cells
  BY <1>3 DEF NewLock, PlannerInv, TypeOK
<1>5. OffsetFor(primary) \in Offsets \cup {NoOffset}
  BY DEF OffsetFor, PlannerInv, TypeOK
<1>6. OriginFor(primary) \in Cells
  BY <1>4 DEF OriginFor, PlannerInv, TypeOK
<1> QED
  BY <1>2, <1>3, <1>4, <1>5, <1>6

\* plan without a feasible candidate: the lock that was is kept, a new one
\* has no offset yet.
LEMMA NoFeasibleStep ==
    ASSUME PlannerInv, NEW horizon, NEW primary \in Nearest(Active(horizon)),
           NoFeasibleCandidate(primary), UNCHANGED <<geometry, world>>, moved' = FALSE
    PROVE  PlannerInv'
<1>1. /\ primary.id \in 0 .. MaxObstacles - 1 /\ primary.id # None
      /\ primary.s \in Cells /\ primary.s # None
      /\ OffsetFor(primary) \in Offsets \cup {NoOffset}
      /\ OriginFor(primary) \in Cells /\ OriginFor(primary) # None
      /\ ~NewLock(primary) => lockedId # None /\ lockedS \in Cells
  BY PrimaryProperties
<1>2. \A s \in Cells : s # None
  BY PlannerAssumption DEF Cells, None
<1>3. /\ lockedS' \in Cells /\ releaseAfter' \in Nat
      /\ lastSafePath' \in Path /\ published' \in Path
  BY <1>1, PlannerAssumption DEF NoFeasibleCandidate, PlannerInv, TypeOK
<1>4. /\ lockedId' = primary.id /\ lockedOffset' = OffsetFor(primary)
      /\ lockedVehicleS' = OriginFor(primary) /\ stop' = TRUE /\ avoiding' = FALSE
      /\ lastSafePath' = lastSafePath
  BY DEF NoFeasibleCandidate
<1>5. TypeOK'
  BY <1>1, <1>2, <1>3, <1>4 DEF PlannerInv, TypeOK, world
<1>6. LockMatchesPath'
  <2>1. CASE NewLock(primary)
    BY <1>4, <2>1 DEF OffsetFor, LockMatchesPath
  <2>2. CASE ~NewLock(primary)
    <3>1. /\ lockedId' = lockedId /\ lockedOffset' = lockedOffset
          /\ lockedS' = lockedS /\ releaseAfter' = releaseAfter
      BY <1>4, <2>2 DEF NoFeasibleCandidate, OffsetFor, NewLock
    <3> QED
      BY <1>4, <3>1 DEF PlannerInv, LockMatchesPath, world
  <2> QED
    BY <2>1, <2>2
<1>7. ShortManoeuvre'
  BY <1>4 DEF PlannerInv, ShortManoeuvre
<1> QED
  BY <1>5, <1>6, <1>7 DEF PlannerInv

\* plan with a feasible candidate.
LEMMA SelectStep ==
    ASSUME PlannerInv, NEW horizon, NEW primary \in Nearest(Active(horizon)),
           SelectCandidate(primary), UNCHANGED <<geometry, world>>, moved' = FALSE
    PROVE  PlannerInv'
<1>1. /\ primary.id \in 0 .. MaxObstacles - 1 /\ primary.id # None
      /\ primary.s \in Cells /\ primary.s # None
      /\ OffsetFor(primary) \in Offsets \cup {NoOffset}
      /\ OriginFor(primary) \in Cells /\ OriginFor(primary) # None
      /\ ~NewLock(primary) => lockedId # None /\ lockedS \in Cells
  BY PrimaryProperties
<1>2. \A s \in Cells : s # None
  BY PlannerAssumption DEF Cells, None
<1>3. PICK path \in Candidates(OriginFor(primary), primary.s, OffsetFor(primary)) :
        /\ IF path.offset # 0
             THEN /\ lockedOffset' = path.offset
                  /\ lockedS' = primary.s
                  /\ releaseAfter' = Hold + path.after
             ELSE /\ lockedOffset' = OffsetFor(primary)
                  /\ lockedS' = IF NewLock(primary) THEN primary.s ELSE lockedS
                  /\ releaseAfter' = IF NewLock(primary) THEN AvoidanceAfter ELSE releaseAfter
        /\ lastSafePath' = path
        /\ published' = path
        /\ avoiding' = (path.offset # 0)
  BY DEF SelectCandidate
<1>4. /\ path \in Path
      /\ path.geometry = geometry
      /\ path.offset # 0 => path.center = primary.s
      /\ path.offset = 0 => OffsetFor(primary) = NoOffset
      /\ path.offset # 0 => /\ 2 * (Hold + path.before) < PathLength
                            /\ 2 * (Hold + path.after) < PathLength
                            /\ path.after \in Nat \ {0}
  BY <1>1, CandidatesProperties DEF PlannerInv
<1>5. /\ lockedId' = primary.id /\ lockedVehicleS' = OriginFor(primary)
      /\ stop' \in BOOLEAN /\ geometry' = geometry
  BY DEF SelectCandidate
<1>6. path.offset \in Offsets \cup {0} /\ path.after \in Nat
  BY <1>4 DEF Path
<1>7. TypeOK'
  <2>1. lockedOffset' \in Offsets \cup {NoOffset}
    BY <1>1, <1>3, <1>6 DEF NoOffset
  <2>2. lockedS' \in Cells
    BY <1>1, <1>3
  <2>3. releaseAfter' \in Nat
    <3>1. Hold + path.after \in Nat /\ AvoidanceAfter \in Nat
      BY <1>6, PlannerAssumption
    <3> QED
      BY <1>3, <3>1 DEF PlannerInv, TypeOK
  <2>4. avoiding' \in BOOLEAN
    BY <1>3
  <2> QED
    BY <1>1, <1>2, <1>3, <1>4, <1>5, <2>1, <2>2, <2>3, <2>4 DEF PlannerInv, TypeOK, world
<1>8. LockMatchesPath'
  <2>1. CASE path.offset # 0
    BY <1>1, <1>3, <1>4, <1>5, <2>1 DEF LockMatchesPath
  <2>2. CASE path.offset = 0
    BY <1>3, <1>4, <2>2 DEF LockMatchesPath
  <2> QED
    BY <2>1, <2>2
<1>9. ShortManoeuvre'
  BY <1>3, <1>4 DEF ShortManoeuvre
<1> QED
  BY <1>7, <1>8, <1>9 DEF PlannerInv

LEMMA PlanStepInv == PlannerInv /\ Plan => PlannerInv'
<1> SUFFICES ASSUME PlannerInv, Plan PROVE PlannerInv'
  OBVIOUS
<1>1. moved' = FALSE
  BY DEF Plan
<1>2. CASE PlanStops
  <2>1. TypeOK'
    BY <1>1, <1>2 DEF PlanStops, PlannerInv, TypeOK, world, lockVars
  <2>2. LockMatchesPath' /\ ShortManoeuvre'
    BY <1>2 DEF PlanStops, PlannerInv, LockMatchesPath, ShortManoeuvre, lockVars
  <2> QED
    BY <2>1, <2>2 DEF PlannerInv
<1>3. CASE PlanAvoids
  BY <1>1, <1>3, NoFeasibleStep, SelectStep DEF PlanAvoids
<1>4. CASE PlanRetains
  <2>1. TypeOK'
    BY <1>1, <1>4 DEF PlanRetains, PlannerInv, TypeOK, world, lockVars
  <2>2. LockMatchesPath' /\ ShortManoeuvre'
    BY <1>4 DEF PlanRetains, PlannerInv, LockMatchesPath, ShortManoeuvre, lockVars
  <2> QED
    BY <2>1, <2>2 DEF PlannerInv
<1>5. CASE PlanReleases
  <2>1. Reference(geometry) \in Path
    BY ReferenceIsPath DEF PlannerInv, TypeOK
  <2>2. TypeOK'
    BY <1>1, <1>5, <2>1 DEF PlanReleases, ReleaseLock, PlannerInv, TypeOK, world
  <2>3. LockMatchesPath' /\ ShortManoeuvre'
    BY <1>5 DEF PlanReleases, ReleaseLock, LockMatchesPath, ShortManoeuvre, Reference
  <2> QED
    BY <2>2, <2>3 DEF PlannerInv
<1> QED
  BY <1>2, <1>3, <1>4, <1>5 DEF Plan

\* The environment does not touch the lock or the paths.
LEMMA WorldStep ==
    ASSUME PlannerInv,
           Drive \/ ObstacleConfirmed \/ ObstacleLost \/ ObstacleDrifts \/ Relocalize
    PROVE  PlannerInv'
<1>1. UNCHANGED <<geometry, lockVars, pathVars>>
  BY DEF Drive, ObstacleConfirmed, ObstacleLost, ObstacleDrifts, Relocalize
<1>2. /\ vehicleS' \in Cells /\ moved' \in BOOLEAN
  <2>1. vehicleS \in Cells => (IF vehicleS = PathLength - 1 THEN 0 ELSE vehicleS + 1) \in Cells
    BY PlannerAssumption DEF Cells
  <2>2. CASE Drive
    BY <2>1, <2>2 DEF Drive, PlannerInv, TypeOK
  <2>3. CASE ObstacleConfirmed \/ ObstacleLost \/ ObstacleDrifts
    BY <2>3 DEF ObstacleConfirmed, ObstacleLost, ObstacleDrifts, PlannerInv, TypeOK
  <2>4. CASE Relocalize
    BY <2>4 DEF Relocalize, PlannerInv, TypeOK
  <2> QED
    BY <2>2, <2>3, <2>4
<1>3. obstacles' \subseteq Obstacle /\ nextId' \in 0 .. MaxObstacles
  <2>1. CASE ObstacleConfirmed
    <3>1. nextId \in 0 .. MaxObstacles - 1 /\ nextId' = nextId + 1
      BY <2>1, PlannerAssumption DEF ObstacleConfirmed, PlannerInv, TypeOK
    <3> QED
      BY <2>1, <3>1, PlannerAssumption DEF ObstacleConfirmed, PlannerInv, TypeOK, Obstacle
  <2>2. CASE ObstacleLost
    BY <2>2 DEF ObstacleLost, PlannerInv, TypeOK
  <2>3. CASE ObstacleDrifts
    <3>1. \A o \in Obstacle, s \in Cells : [o EXCEPT !.s = s] \in Obstacle
      BY DEF Obstacle
    <3> QED
      BY <2>3, <3>1 DEF ObstacleDrifts, PlannerInv, TypeOK
  <2>4. CASE UNCHANGED <<obstacles, nextId>>
    BY <2>4 DEF PlannerInv, TypeOK
  <2> QED
    BY <2>1, <2>2, <2>3, <2>4 DEF Drive, Relocalize
<1>4. TypeOK'
  BY <1>1, <1>2, <1>3 DEF PlannerInv, TypeOK, lockVars, pathVars
<1>5. LockMatchesPath' /\ ShortManoeuvre'
  BY <1>1 DEF PlannerInv, LockMatchesPath, ShortManoeuvre, lockVars, pathVars
<1> QED
  BY <1>4, <1>5 DEF PlannerInv

LEMMA NextPlanner == PlannerInv /\ [Next]_vars => PlannerInv'
<1> SUFFICES ASSUME PlannerInv, [Next]_vars PROVE PlannerInv'
  OBVIOUS
<1>1. CASE UNCHANGED vars
  BY <1>1 DEF PlannerInv, TypeOK, LockMatchesPath, ShortManoeuvre, vars, world, lockVars, pathVars
<1> QED
  BY <1>1, GlobalPathStep, PlanStepInv, WorldStep DEF Next

LEMMA PlannerInvariant == Spec => []PlannerInv
<1>1. Init => PlannerInv
  BY InitPlanner
<1>2. PlannerInv /\ [Next]_vars => PlannerInv'
  BY NextPlanner
<1> QED
  BY <1>1, <1>2, PTL DEF Spec

-----------------------------------------------------------------------------
(* The theorems. *)

\* The attributes of plan and global_path_callback stay in their domains, and
\* those of a lock are None together.
THEOREM PlannerTypeCorrect == Spec => []TypeOK
<1>1. PlannerInv => TypeOK
  BY DEF PlannerInv
<1> QED
  BY <1>1, PlannerInvariant, PTL

\* A locked offset always belongs to last_safe_path, to the locked obstacle
\* and to the current global path.
THEOREM LockIsConsistent == Spec => []LockMatchesPath
<1>1. PlannerInv => LockMatchesPath
  BY DEF PlannerInv
<1> QED
  BY <1>1, PlannerInvariant, PTL

\* While plan deals with one obstacle it keeps the side and the origin of its
\* manoeuvre.
THEOREM Commitment == Spec => ManoeuvreCommitted
<1> DEFINE A == lockedId # None /\ lockedId' = lockedId =>
                  /\ lockedVehicleS' = lockedVehicleS
                  /\ lockedOffset # NoOffset =>
                       /\ lockedOffset' # NoOffset
                       /\ SameSide(lockedOffset, lockedOffset')
<1>1. PlannerInv /\ [Next]_vars => [A]_vars
  <2> SUFFICES ASSUME PlannerInv, Next, lockedId # None, lockedId' = lockedId
               PROVE  /\ lockedVehicleS' = lockedVehicleS
                      /\ lockedOffset # NoOffset =>
                           /\ lockedOffset' # NoOffset
                           /\ SameSide(lockedOffset, lockedOffset')
    OBVIOUS
  <2>1. CASE UNCHANGED lockVars
    BY <2>1 DEF lockVars, SameSide
  <2>2. CASE ReleaseLock
    BY <2>2 DEF ReleaseLock
  <2>3. ASSUME NEW horizon \in Horizons, NEW primary \in Nearest(Active(horizon)),
               NoFeasibleCandidate(primary) \/ SelectCandidate(primary)
        PROVE  /\ lockedVehicleS' = lockedVehicleS
               /\ lockedOffset # NoOffset =>
                    /\ lockedOffset' # NoOffset
                    /\ SameSide(lockedOffset, lockedOffset')
    <3>1. ~NewLock(primary)
      BY <2>3 DEF NoFeasibleCandidate, SelectCandidate, NewLock
    <3>2. OffsetFor(primary) = lockedOffset /\ OriginFor(primary) = lockedVehicleS
      BY <3>1 DEF OffsetFor, OriginFor
    <3>3. lockedVehicleS' = lockedVehicleS
      BY <2>3, <3>2 DEF NoFeasibleCandidate, SelectCandidate
    <3>4. CASE NoFeasibleCandidate(primary)
      BY <3>2, <3>3, <3>4 DEF NoFeasibleCandidate, SameSide
    <3>5. CASE SelectCandidate(primary)
      <4>1. PICK path \in Candidates(lockedVehicleS, primary.s, lockedOffset) :
              lockedOffset' = IF path.offset # 0 THEN path.offset ELSE lockedOffset
        BY <3>2, <3>5 DEF SelectCandidate
      <4>2. /\ primary.s \in Cells /\ lockedVehicleS \in Cells
            /\ lockedOffset \in Offsets \cup {NoOffset}
        BY <3>2, PrimaryProperties
      <4>3. path.offset # 0 /\ lockedOffset # NoOffset => SameSide(path.offset, lockedOffset)
        BY <4>1, <4>2, CandidatesProperties DEF PlannerInv
      <4> QED
        BY <3>3, <4>1, <4>3 DEF SameSide, NoOffset
    <3> QED
      BY <2>3, <3>4, <3>5
  <2> QED
    BY <2>1, <2>2, <2>3
       DEF Next, GlobalPathCallback, Plan, PlanStops, PlanAvoids, PlanRetains,
           PlanReleases, Drive, ObstacleConfirmed, ObstacleLost, ObstacleDrifts, Relocalize
<1> QED
  BY <1>1, PlannerInvariant, PTL DEF Spec, ManoeuvreCommitted

\* A manoeuvre is let go of only where its path is back on the global path.
THEOREM Release == Spec => ReleasedBeyondReturn
<1> DEFINE A == lockedOffset # NoOffset /\ lockedId' = None /\ geometry' = geometry
                  => Displacement(lastSafePath, vehicleS) = 0
<1>1. PlannerInv /\ [Next]_vars => [A]_vars
  <2> SUFFICES ASSUME PlannerInv, Next, lockedOffset # NoOffset, lockedId' = None,
                      geometry' = geometry
               PROVE  Displacement(lastSafePath, vehicleS) = 0
    OBVIOUS
  <2>1. /\ lockedId # None /\ lastSafePath.offset = lockedOffset
        /\ lastSafePath.center = lockedS
        /\ releaseAfter = Hold + lastSafePath.after
    BY DEF PlannerInv, LockMatchesPath
  <2>2. PlanReleases
    <3>1. ~GlobalPathCallback
      BY DEF GlobalPathCallback, PlannerInv, TypeOK
    <3>2. ~PlanAvoids
      <4> SUFFICES ASSUME NEW horizon, NEW primary \in Nearest(Active(horizon)),
                          NoFeasibleCandidate(primary) \/ SelectCandidate(primary)
                   PROVE  FALSE
        BY DEF PlanAvoids
      <4>1. lockedId' = primary.id
        BY DEF NoFeasibleCandidate, SelectCandidate
      <4> QED
        BY <4>1, PrimaryProperties
    <3> QED
      BY <2>1, <3>1, <3>2
         DEF Next, Plan, PlanStops, PlanRetains, Drive, ObstacleConfirmed,
             ObstacleLost, ObstacleDrifts, Relocalize, lockVars
  <2> DEFINE ahead == Forward(vehicleS, lockedS)
             past == Forward(lockedS, vehicleS)
             before == lastSafePath.before
             after == lastSafePath.after
  <2>3. /\ lockedS \in Cells /\ vehicleS \in Cells
        /\ before \in Nat /\ lastSafePath.offset # 0
        /\ Hold \in Nat /\ PathLength \in Nat
    BY <2>1, PlannerAssumption DEF PlannerInv, TypeOK, Path, NoOffset
  <2>4. lockedS # None
    BY <2>3, PlannerAssumption DEF Cells, None
  <2>5. ahead \in Nat /\ past \in Nat
    BY <2>3, ForwardProperties, PlannerAssumption
  <2>6. PathLength < 2 * ahead /\ Hold + after <= past
    <3>1. ~Retained
      BY <2>2 DEF PlanReleases
    <3>2. after \in Nat
      BY DEF PlannerInv, TypeOK, Path
    <3> QED
      BY <2>1, <2>3, <2>4, <2>5, <3>1, <3>2 DEF Retained
  <2>7. 2 * (Hold + before) < PathLength /\ after \in Nat \ {0}
    BY <2>3 DEF PlannerInv, ShortManoeuvre
  <2> HIDE DEF ahead, past, before, after
  <2>8. ~(ahead <= Hold) /\ ~(past <= Hold) /\ ~(ahead < Hold + before) /\ ~(past < Hold + after)
    BY <2>3, <2>5, <2>6, <2>7
  <2> QED
    BY <2>1, <2>3, <2>8 DEF Displacement, ahead, past, before, after
<1> QED
  BY <1>1, PlannerInvariant, PTL DEF Spec, ReleasedBeyondReturn

\* Whenever the vehicle may drive, the avoidance flag agrees with the path.
THEOREM FlagIsTruthful == Spec => []AvoidanceAnnounced
<1>1. Init => AvoidanceAnnounced
  BY DEF Init, AvoidanceAnnounced
<1>2. PlannerInv /\ AvoidanceAnnounced /\ [Next]_vars => AvoidanceAnnounced'
  <2> SUFFICES ASSUME PlannerInv, AvoidanceAnnounced, [Next]_vars
               PROVE  AvoidanceAnnounced'
    OBVIOUS
  <2>1. CASE UNCHANGED <<published, stop, avoiding>>
    BY <2>1 DEF AvoidanceAnnounced
  <2>2. CASE PlanStops
    BY <2>2 DEF PlanStops, AvoidanceAnnounced
  <2>3. CASE PlanAvoids
    BY <2>3 DEF PlanAvoids, NoFeasibleCandidate, SelectCandidate, AvoidanceAnnounced
  <2>4. CASE PlanRetains
    <3>1. lockedOffset # NoOffset /\ published' = lastSafePath /\ avoiding' = TRUE
      BY <2>4 DEF PlanRetains, Retained
    <3> QED
      BY <3>1 DEF PlannerInv, LockMatchesPath, AvoidanceAnnounced, NoOffset
  <2>5. CASE PlanReleases
    BY <2>5 DEF PlanReleases, Reference, AvoidanceAnnounced
  <2> QED
    BY <2>1, <2>2, <2>3, <2>4, <2>5
       DEF Next, GlobalPathCallback, Plan, Drive, ObstacleConfirmed, ObstacleLost,
           ObstacleDrifts, Relocalize, vars, pathVars
<1> QED
  BY <1>1, <1>2, PlannerInvariant, PTL DEF Spec

-----------------------------------------------------------------------------
(* The way back to the global path: why ReturnsToGlobalPath holds. *)

\* Where the lock is released, and how far the vehicle still is from there.
ReleasePoint ==
    IF lockedS + releaseAfter < PathLength
    THEN lockedS + releaseAfter ELSE lockedS + releaseAfter - PathLength
LeftToRelease == Forward(vehicleS, ReleasePoint)

\* A retained manoeuvre has a release point less than half a lap beyond its
\* obstacle, and the vehicle is not there yet.
LEMMA RetainedIsBeforeRelease ==
    ASSUME PlannerInv, Retained
    PROVE  /\ vehicleS \in Cells /\ ReleasePoint \in Cells
           /\ vehicleS # ReleasePoint
           /\ LeftToRelease \in 1 .. PathLength - 1
<1>1. /\ PathLength \in Nat /\ PathLength >= 1
      /\ vehicleS \in Cells /\ lockedS \in Cells
      /\ vehicleS \in Nat /\ lockedS \in Nat /\ vehicleS < PathLength /\ lockedS < PathLength
    BY PlannerAssumption DEF PlannerInv, TypeOK, Retained, Cells
<1>2. releaseAfter \in Nat /\ releaseAfter >= 1 /\ 2 * releaseAfter < PathLength
  <2>1. lastSafePath.offset # 0 /\ releaseAfter = Hold + lastSafePath.after
    BY DEF PlannerInv, LockMatchesPath, Retained, NoOffset
  <2>2. 2 * (Hold + lastSafePath.after) < PathLength /\ lastSafePath.after \in Nat \ {0}
    BY <2>1 DEF PlannerInv, ShortManoeuvre
  <2>3. Hold \in Nat
    BY PlannerAssumption
  <2> QED
    BY <2>1, <2>2, <2>3
<1>3. ReleasePoint \in Cells /\ ReleasePoint \in Nat
    BY <1>1, <1>2 DEF ReleasePoint, Cells
<1>4. vehicleS # ReleasePoint
  <2> SUFFICES ASSUME vehicleS = ReleasePoint PROVE FALSE
    OBVIOUS
  <2>1. Forward(lockedS, vehicleS) = releaseAfter
    BY <1>1, <1>2 DEF ReleasePoint, Forward
  <2>2. Forward(vehicleS, lockedS) = PathLength - releaseAfter
    BY <1>1, <1>2 DEF ReleasePoint, Forward
  <2> QED
    BY <1>1, <1>2, <2>1, <2>2 DEF Retained
<1>5. LeftToRelease \in 1 .. PathLength - 1
  <2>1. /\ LeftToRelease \in 0 .. PathLength - 1
        /\ Forward(ReleasePoint, vehicleS) \in 0 .. PathLength - 1
        /\ LeftToRelease + Forward(ReleasePoint, vehicleS) = PathLength
    BY <1>1, <1>3, <1>4, ForwardProperties DEF LeftToRelease
  <2> QED
    BY <1>1, <2>1
<1> QED
    BY <1>1, <1>3, <1>4, <1>5

\* Without obstacles nothing moves the lock of a retained manoeuvre.
LEMMA RetainedKeepsLock ==
    ASSUME PlannerInv, [Next]_vars, obstacles = {}, Retained, geometry' = geometry
    PROVE  UNCHANGED <<lockedS, releaseAfter>>
<1>1. ~GlobalPathCallback
    BY DEF GlobalPathCallback, PlannerInv, TypeOK
<1>2. ~PlanAvoids
    BY DEF PlanAvoids, Nearest, Active
<1> QED
    BY <1>1, <1>2
    DEF Next, Plan, PlanStops, PlanRetains, PlanReleases, Drive, ObstacleConfirmed,
        ObstacleLost, ObstacleDrifts, Relocalize, lockVars, vars

\* When nothing is tracked any more, each cell the vehicle covers brings it a
\* cell closer to where the retained manoeuvre is released, and nothing but a
\* new path, or a pose found elsewhere, takes it away from there, for any lap
\* and any manoeuvre that LapAssumption allows: within a lap it is let go of.
THEOREM ReturnIsApproached ==
    Spec => [][obstacles = {} /\ Retained
                 => /\ LeftToRelease > 0
                    /\ \/ geometry' # geometry \/ Relocalize
                       \/ LeftToRelease' = IF Drive THEN LeftToRelease - 1 ELSE LeftToRelease]_vars
<1>1. ASSUME PlannerInv, [Next]_vars, obstacles = {}, Retained
      PROVE  /\ LeftToRelease > 0
             /\ \/ geometry' # geometry \/ Relocalize
                \/ LeftToRelease' = IF Drive THEN LeftToRelease - 1 ELSE LeftToRelease
  <2>1. /\ vehicleS \in Cells /\ ReleasePoint \in Cells /\ vehicleS # ReleasePoint
        /\ LeftToRelease \in 1 .. PathLength - 1
    BY <1>1, RetainedIsBeforeRelease
  <2>2. LeftToRelease > 0
    BY <2>1
  <2> SUFFICES ASSUME geometry' = geometry, ~Relocalize
               PROVE  LeftToRelease' = IF Drive THEN LeftToRelease - 1 ELSE LeftToRelease
    BY <2>2
  <2>3. ReleasePoint' = ReleasePoint
    BY <1>1, RetainedKeepsLock DEF ReleasePoint
  <2>4. LeftToRelease' = Forward(vehicleS', ReleasePoint)
    BY <2>3 DEF LeftToRelease, Forward
  <2>5. PathLength \in Nat /\ vehicleS \in 0 .. PathLength - 1
        /\ ReleasePoint \in 0 .. PathLength - 1
    BY <2>1, PlannerAssumption DEF Cells
  <2>6. CASE Drive
    <3>1. vehicleS' = IF vehicleS = PathLength - 1 THEN 0 ELSE vehicleS + 1
      BY <2>6 DEF Drive
    <3>2. Forward(vehicleS', ReleasePoint) = Forward(vehicleS, ReleasePoint) - 1
      BY <2>1, <2>5, <3>1 DEF Forward
    <3> QED
      BY <2>4, <2>6, <3>2 DEF LeftToRelease
  <2>7. CASE ~Drive
    <3>1. vehicleS' = vehicleS
      BY <1>1, <2>7
      DEF Next, GlobalPathCallback, PlannerInv, TypeOK, Plan, PlanStops, PlanAvoids,
          PlanRetains, PlanReleases, ObstacleConfirmed, ObstacleLost, ObstacleDrifts,
          world, vars
    <3> QED
      BY <2>4, <2>7, <3>1 DEF LeftToRelease
  <2> QED
    BY <2>6, <2>7
<1>2. PlannerInv /\ [Next]_vars
        => [obstacles = {} /\ Retained
              => /\ LeftToRelease > 0
                 /\ \/ geometry' # geometry \/ Relocalize
                    \/ LeftToRelease' = IF Drive THEN LeftToRelease - 1 ELSE LeftToRelease]_vars
    BY <1>1
<1> QED
    BY <1>2, PlannerInvariant, PTL DEF Spec

\* Nothing is locked, and the global path is published.
Returned == lockedId = None /\ published = Reference(geometry)

\* While nothing is tracked, only a new global path ends the return: the safety
\* part of ReturnsToGlobalPath.
THEOREM ReturnLasts ==
    Spec => [][obstacles = {} /\ Returned => Returned' \/ geometry' # geometry]_vars
<1>1. ASSUME PlannerInv, [Next]_vars, obstacles = {}, Returned, geometry' = geometry
      PROVE  Returned'
  <2>1. ~GlobalPathCallback /\ ~PlanAvoids
    BY <1>1 DEF GlobalPathCallback, PlanAvoids, Nearest, Active, PlannerInv, TypeOK
  <2>2. ~PlanRetains
    BY <1>1 DEF PlanRetains, Retained, Returned, PlannerInv, TypeOK
  <2>3. CASE PlanReleases
    BY <1>1, <2>3 DEF PlanReleases, ReleaseLock, Returned, Reference
  <2>4. CASE ~PlanReleases
    <3>1. UNCHANGED <<lockedId, published>>
      BY <1>1, <2>1, <2>2, <2>4
      DEF Next, Plan, PlanStops, Drive, ObstacleConfirmed, ObstacleLost, ObstacleDrifts,
          Relocalize, lockVars, pathVars, vars
    <3> QED
      BY <1>1, <3>1 DEF Returned, Reference
  <2> QED
    BY <2>3, <2>4
<1>2. PlannerInv /\ [Next]_vars
        => [obstacles = {} /\ Returned => Returned' \/ geometry' # geometry]_vars
    BY <1>1
<1> QED
    BY <1>2, PlannerInvariant, PTL DEF Spec
=============================================================================
