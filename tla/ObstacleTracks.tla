--------------------------- MODULE ObstacleTracks ---------------------------
(***************************************************************************)
(* Obstacle tracking: process_scan hands the observations of a scan to     *)
(* update_tracked_obstacles, which associates each of them with at most    *)
(* one existing track, one observation after the other.                    *)
(*                                                                         *)
(* A track is a dict, and the loop mutates the dicts that the published    *)
(* list tracked_obstacles already holds, while plan may be reading them in *)
(* the other callback group.  Tracks are therefore kept in a heap (track), *)
(* and lists of tracks are sets of identifiers: lists only ever lose       *)
(* elements or get a new identifier, larger than all others, appended, so  *)
(* the order of a list is the order of the identifiers.                    *)
(*                                                                         *)
(* Positions are integers along the stretch of track around the start      *)
(* line, x = 0: XY distances are differences of x, and the arc length of x *)
(* is x % PathLength.  The running mean of n values with weight 1/(n+1) is *)
(* their sum divided by their number, so a track keeps the sums.           *)
(***************************************************************************)
EXTENDS Integers, Sequences

CONSTANTS
    PathLength,     \* ClosedPathGeometry.length
    MatchDistance,  \* obstacle_match_distance
    Memory,         \* obstacle_memory
    Obstacles,      \* where the physical obstacles are
    Jitter,         \* how far a visible surface centre strays from its obstacle
    MaxPerScan,     \* bound: observations in one scan
    MaxScans,       \* bound: number of scans
    MaxIds          \* bound: number of tracks ever created

ASSUME TracksAssumption ==
    /\ PathLength \in Nat \ {0}
    /\ MatchDistance \in Nat
    /\ Memory \in Nat
    /\ Obstacles \subseteq Int
    /\ Jitter \in Nat
    /\ MaxPerScan \in Nat
    /\ MaxScans \in Nat
    /\ MaxIds \in Nat

Abs(n) == IF n < 0 THEN -n ELSE n

\* Obstacles are further apart than an association can reach.
ASSUME SeparationAssumption ==
    \A p, q \in Obstacles : p # q => Abs(p - q) >= MatchDistance + 2 * Jitter

VARIABLES
    track,     \* the dicts: a function on all identifiers
    tracked,   \* tracked_obstacles
    nextId,    \* next_obstacle_id
    updating,  \* update_tracked_obstacles is running
    todo,      \* the observations of this scan that are still to be associated
    work,      \* its local list of tracks
    freshId,   \* its local next_id
    original,  \* range(original_track_count), as identifiers
    matched,   \* matched_indices, as identifiers
    scans,     \* history: number of scans handed over
    born,      \* history: the scan that created a track
    sources,   \* history: the obstacles whose observations a track absorbed
    raced      \* history: the list was reset since the update began

vars == <<track, tracked, nextId, updating, todo, work, freshId, original,
          matched, scans, born, sources, raced>>

Ids == 0 .. MaxIds - 1
Expired == Memory + 1

\* ClosedPathGeometry.project, its arc length.
Project(x) == x % PathLength

\* The centre of a cluster lies close to the obstacle it comes from.  The list
\* process_scan builds is in beam order, so any order is possible, and an
\* obstacle may show up as several clusters.
Observation ==
    {[from |-> p, x |-> p + j] : p \in Obstacles, j \in -Jitter .. Jitter}
ScanLists == UNION {[1 .. n -> Observation] : n \in 0 .. MaxPerScan}

Track == [hits : Nat, sumX : Int, sumS : Int, age : 0 .. Expired]
NoTrack == [hits |-> 0, sumX |-> 0, sumS |-> 0, age |-> 0]

\* Distance from the running mean of a track to x, times the track's hits.
ScaledDistance(t, x) == Abs(t.sumX - x * t.hits)

\* Mutant of InReach: a distance of obstacle_match_distance is still a match.
InReachInclusive(t, x) == ScaledDistance(t, x) <= MatchDistance * t.hits

\* norm(center - observation) < match_distance, strictly.
InReach(t, x) == ScaledDistance(t, x) < MatchDistance * t.hits

\* Track t is strictly closer to x than track u.
Closer(t, u, x) == ScaledDistance(t, x) * u.hits < ScaledDistance(u, x) * t.hits

-----------------------------------------------------------------------------

Init ==
    /\ track = [id \in Ids |-> NoTrack]
    /\ tracked = {}
    /\ nextId = 0
    /\ updating = FALSE
    /\ todo = <<>>
    /\ work = {}
    /\ freshId = 0
    /\ original = {}
    /\ matched = {}
    /\ scans = 0
    /\ born = [id \in Ids |-> 0]
    /\ sources = [id \in Ids |-> {}]
    /\ raced = FALSE

\* Mutant of BeginUpdate: the update starts from every track that was ever
\* created and is young enough, listed or not.
BeginUpdateFromAll ==
    /\ ~updating
    /\ scans < MaxScans
    /\ \E dt \in 1 .. Expired :
         LET aged(t) == [t EXCEPT !.age = IF @ + dt < Expired THEN @ + dt ELSE Expired]
         IN  /\ track' = [id \in Ids |-> aged(track[id])]
             /\ work' = {id \in 0 .. nextId - 1 : track'[id].age <= Memory}
    /\ original' = work'
    /\ matched' = {}
    /\ freshId' = nextId
    /\ \E observations \in ScanLists : todo' = observations
    /\ updating' = TRUE
    /\ scans' = scans + 1
    /\ UNCHANGED <<tracked, nextId, born, sources, raced>>

\* process_scan has its observations, and update_tracked_obstacles starts by
\* dropping the tracks not seen for longer than the memory.  The clock moved
\* by dt since the previous update.
BeginUpdate ==
    /\ ~updating
    /\ scans < MaxScans
    /\ \E dt \in 1 .. Expired :
         LET aged(t) == [t EXCEPT !.age = IF @ + dt < Expired THEN @ + dt ELSE Expired]
         IN  /\ track' = [id \in Ids |-> aged(track[id])]
             /\ work' = {id \in tracked : track'[id].age <= Memory}
    /\ original' = work'
    /\ matched' = {}
    /\ freshId' = nextId
    /\ \E observations \in ScanLists : todo' = observations
    /\ updating' = TRUE
    /\ scans' = scans + 1
    /\ UNCHANGED <<tracked, nextId, born, sources, raced>>

\* Mutant of Candidates: a track may match several observations of a scan.
CandidatesMatchedOrNot == {id \in original : InReach(track[id], Head(todo).x)}

\* The tracks the observation at hand may be associated with.
Candidates == {id \in original \ matched : InReach(track[id], Head(todo).x)}

\* The loop body, an observation with a match: the closest candidate, the
\* first of equally close ones.  The dict is updated in place, so a published
\* track changes before the update ends.
Associate ==
    /\ updating
    /\ todo # <<>>
    /\ \E id \in Candidates :
         /\ \A other \in Candidates :
              \/ Closer(track[id], track[other], Head(todo).x)
              \/ id <= other /\ ~Closer(track[other], track[id], Head(todo).x)
         /\ matched' = matched \cup {id}
         /\ track' = [track EXCEPT
              ![id] = [hits |-> @.hits + 1,
                       sumX |-> @.sumX + Head(todo).x,
                       sumS |-> @.sumS + Project(Head(todo).x),
                       age  |-> 0]]
         /\ sources' = [sources EXCEPT ![id] = @ \cup {Head(todo).from}]
    /\ todo' = Tail(todo)
    /\ UNCHANGED <<tracked, nextId, updating, work, freshId, original, scans,
                   born, raced>>

\* The loop body, an observation without a match: a new track with one hit.
CreateTrack ==
    /\ updating
    /\ todo # <<>>
    /\ Candidates = {}
    /\ freshId < MaxIds
    /\ track' = [track EXCEPT
         ![freshId] = [hits |-> 1,
                       sumX |-> Head(todo).x,
                       sumS |-> Project(Head(todo).x),
                       age  |-> 0]]
    /\ work' = work \cup {freshId}
    /\ freshId' = freshId + 1
    /\ born' = [born EXCEPT ![freshId] = scans]
    /\ sources' = [sources EXCEPT ![freshId] = {Head(todo).from}]
    /\ todo' = Tail(todo)
    /\ UNCHANGED <<tracked, nextId, updating, original, matched, scans, raced>>

\* Mutant of FinishUpdate: next_obstacle_id is not stored.
FinishUpdateKeepingNextId ==
    /\ updating
    /\ todo = <<>>
    /\ tracked' = work
    /\ nextId' = nextId
    /\ updating' = FALSE
    /\ work' = {}
    /\ original' = {}
    /\ matched' = {}
    /\ raced' = FALSE
    /\ UNCHANGED <<track, todo, freshId, scans, born, sources>>

\* update_obstacle_tracks stores what the loop returns; the locals are gone.
FinishUpdate ==
    /\ updating
    /\ todo = <<>>
    /\ tracked' = work
    /\ nextId' = freshId
    /\ updating' = FALSE
    /\ work' = {}
    /\ original' = {}
    /\ matched' = {}
    /\ raced' = FALSE
    /\ UNCHANGED <<track, todo, freshId, scans, born, sources>>

\* Mutant of GlobalPathCallback: the identifiers start over with the list.
GlobalPathCallbackRestartingIds ==
    /\ tracked' = {}
    /\ nextId' = 0
    /\ raced' = updating
    /\ UNCHANGED <<track, updating, todo, work, freshId, original,
                   matched, scans, born, sources>>

\* global_path_callback with a path that differs from the current one.  It
\* runs in the other callback group, hence also while an update is running.
GlobalPathCallback ==
    /\ tracked' = {}
    /\ raced' = updating
    /\ UNCHANGED <<track, nextId, updating, todo, work, freshId, original,
                   matched, scans, born, sources>>

Next ==
    \/ BeginUpdate
    \/ Associate
    \/ CreateTrack
    \/ FinishUpdate
    \/ GlobalPathCallback

Spec == Init /\ [][Next]_vars

-----------------------------------------------------------------------------
(* Properties. *)

\* Domains of the variables: in particular every list holds identifiers below
\* the counter it will be continued with.
TypeOK ==
    /\ track \in [Ids -> Track]
    /\ tracked \subseteq 0 .. nextId - 1
    /\ nextId \in 0 .. MaxIds
    /\ updating \in BOOLEAN
    /\ todo \in Seq(Observation)
    /\ work \subseteq 0 .. freshId - 1
    /\ freshId \in 0 .. MaxIds
    /\ original \subseteq work
    /\ matched \subseteq original
    /\ scans \in 0 .. MaxScans
    /\ born \in [Ids -> 0 .. MaxScans]
    /\ sources \in [Ids -> SUBSET Obstacles]
    /\ raced \in BOOLEAN

\* update_tracked_obstacles promises "one-to-one scan associations" that keep
\* "one noisy scan from becoming a planned obstacle": however many clusters a
\* scan yields, a track gains at most one hit from it, so hits, which
\* active_obstacles compares with obstacle_confirmation_frames, never exceed
\* the number of scans since the track was created.  This holds for what plan
\* can read in the middle of an update, too.
OneHitPerScan ==
    \A id \in tracked \cup work : track[id].hits <= scans - born[id] + 1

\* A running mean follows one obstacle: no sequence of associations ever pulls
\* a track so far that it absorbs an observation of another obstacle, when
\* the obstacles are separated as SeparationAssumption says.
TracksDoNotMix ==
    \A id \in Ids : \A p, q \in sources[id] : p = q

\* The identifier of a listed track is never handed out again, whatever
\* global_path_callback empties in between: locked_obstacle_id, which outlives
\* the track it names, cannot come to mean another track.
IdsNeverReused ==
    [][\A id \in Ids : sources[id] # {} => sources[id] \subseteq sources'[id]
                                          /\ born'[id] = born[id]]_vars

\* A track that left the list, expired or reset, comes back only through an
\* update that was already running when global_path_callback reset the list
\* (its result overwrites the reset).
ComesBackOnlyByRace ==
    [][\A id \in tracked' \ tracked : id >= nextId \/ raced]_vars

\* The arc length of a track is the arc length of its centre; compare the
\* comment in update_tracked_obstacles, "Static obstacles should not move as
\* their visible LiDAR surface changes.  A running mean is map-independent".
\* Both sides are scaled by the number of hits.
ArcLengthOfCentre ==
    \A id \in tracked : (track[id].sumS - track[id].sumX) % (PathLength * track[id].hits) = 0
=============================================================================
