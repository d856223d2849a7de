---------------------------- MODULE ScanPipeline ----------------------------
(***************************************************************************)
(* The two threads of LocalObstaclePlannerNode that share the LiDAR        *)
(* attributes of the node.                                                 *)
(*                                                                         *)
(* The node runs under MultiThreadedExecutor(3) with two mutually          *)
(* exclusive callback groups:                                              *)
(*                                                                         *)
(*   sensor group    scan_callback, odom_callback, process_pending_scan    *)
(*   default group   global_path_callback, map_callback, plan              *)
(*                                                                         *)
(* Callbacks of one group never overlap; callbacks of different groups do. *)
(* Nothing locks the attributes they share, so process_scan and plan are   *)
(* broken here into one action per access to a shared attribute.           *)
(*                                                                         *)
(* A scan is its arrival number.  latest_scan_clusters is represented by   *)
(* the scan the clusters come from and by its turn: the n-th scan whose    *)
(* clusters were stored has turn n.  Whether the clusters block the        *)
(* commanded path is geometry, hence a free choice (no clusters block      *)
(* nothing).  Time is counted in ticks and kept as ages that saturate      *)
(* where no guard can tell larger values apart.                            *)
(***************************************************************************)
EXTENDS Integers, Sequences

CONSTANTS
    QueueLen,        \* maxlen of the pending_scans deque (20 in the code)
    TransformDelay,  \* scan_transform_delay: a younger scan is left pending
    RetryAge,        \* 0.25 s: an unprocessed scan older than this is dropped
    ScanTimeout,     \* scan_timeout: plan stops on an older last_scan_time
    Confirm,         \* aeb_confirmation_frames
    MaxScans         \* bound: the LiDAR delivers this many scans, then dies

ASSUME PipelineAssumption ==
    /\ QueueLen \in Nat \ {0}
    /\ TransformDelay \in Nat
    /\ RetryAge \in Nat
    /\ ScanTimeout \in Nat
    /\ Confirm \in Nat \ {0}
    /\ MaxScans \in Nat

VARIABLES
    inputs,      \* which of path_geometry, map_clearance_grid and map_info are not None
    arrived,     \* number of scans delivered so far, so the newest scan's number
    tfUpTo,      \* newest scan for whose stamp the TF buffer can transform
    pending,     \* pending_scans, oldest first
    sensorPc,    \* where process_pending_scan / process_scan is
    inflight,    \* the scan process_pending_scan took out of the deque
    held,        \* ticks since process_pending_scan read its clock
    scanAge,     \* age of last_scan_time; ScanTimeout + 1 when None or expired
    clusters,    \* latest_scan_clusters: the scan and the turn they come from
    generation,  \* latest_scan_generation
    planPc,      \* where plan is
    readTurn,    \* the turn of the clusters plan computed raw_path_stop from
    rawStop,     \* raw_path_stop
    lastAeb,     \* last_aeb_scan_generation
    aebCount,    \* aeb_detection_count
    stop,        \* the last value published on the emergency stop topic
    counted,     \* history: how often the clusters of each turn were counted
    run          \* history: the first and the last turn of aeb_detection_count

sensorVars == <<pending, sensorPc, inflight, held, scanAge, clusters, generation>>
planVars == <<planPc, readTurn, rawStop, lastAeb, aebCount, stop, counted, run>>
vars == <<inputs, arrived, tfUpTo, sensorVars, planVars>>

Ids == 1 .. MaxScans
Turns == 0 .. MaxScans

\* The largest age of a pending scan that a guard distinguishes.
AgeCap == IF TransformDelay < RetryAge THEN RetryAge ELSE TransformDelay
Expired == ScanTimeout + 1
Capped(n, cap) == IF n < cap THEN n ELSE cap

\* An element of pending_scans: received_time (as an age), the message, and
\* whether map_from_odom was available when the scan arrived.
PendingScan == [id : Ids, age : 0 .. AgeCap, corrected : BOOLEAN]
NoScan == [id |-> 0, age |-> 0, corrected |-> FALSE]

SensorBusy == sensorPc # "idle"
InputsReady == {"path", "grid"} \subseteq inputs

\* map_callback is between its two assignments for the first map.
MapHalfway == "grid" \in inputs /\ "info" \notin inputs

-----------------------------------------------------------------------------

Init ==
    /\ inputs = {}
    /\ arrived = 0
    /\ tfUpTo = 0
    /\ pending = <<>>
    /\ sensorPc = "idle"
    /\ inflight = NoScan
    /\ held = 0
    /\ scanAge = Expired
    /\ clusters = [scan |-> 0, turn |-> 0]
    /\ generation = 0
    /\ planPc = "idle"
    /\ readTurn = 0
    /\ rawStop = FALSE
    /\ lastAeb = -1
    /\ aebCount = 0
    /\ stop = FALSE
    /\ counted = [t \in Turns |-> 0]
    /\ run = [first |-> 0, last |-> 0]

-----------------------------------------------------------------------------
(* The environment: clock and TF. *)

Tick ==
    /\ pending' = [i \in 1 .. Len(pending) |->
                     [pending[i] EXCEPT !.age = Capped(@ + 1, AgeCap)]]
    /\ held' = IF SensorBusy THEN Capped(held + 1, Expired) ELSE held
    /\ scanAge' = Capped(scanAge + 1, Expired)
    /\ UNCHANGED <<inputs, arrived, tfUpTo, sensorPc, inflight, clusters,
                   generation, planVars>>

\* The TF listener thread receives the transforms up to some scan's stamp.
TfArrives ==
    /\ \E id \in tfUpTo + 1 .. arrived : tfUpTo' = id
    /\ UNCHANGED <<inputs, arrived, sensorVars, planVars>>

-----------------------------------------------------------------------------
(* The sensor callback group. *)

\* Mutant of ScanCallback: the deque has no maxlen.
ScanCallbackUnbounded ==
    /\ ~SensorBusy
    /\ arrived < MaxScans
    /\ arrived' = arrived + 1
    /\ \E corrected \in BOOLEAN :
         pending' = Append(pending, [id |-> arrived + 1, age |-> 0, corrected |-> corrected])
    /\ UNCHANGED <<inputs, tfUpTo, sensorPc, inflight, held, scanAge, clusters,
                   generation, planVars>>

\* scan_callback: remember the scan with the localization correction that is
\* available now, or with None.  A full deque drops its oldest element.
ScanCallback ==
    /\ ~SensorBusy
    /\ arrived < MaxScans
    /\ arrived' = arrived + 1
    /\ \E corrected \in BOOLEAN :
         LET scan == [id |-> arrived + 1, age |-> 0, corrected |-> corrected]
         IN  pending' = IF Len(pending) < QueueLen
                          THEN Append(pending, scan)
                          ELSE Append(Tail(pending), scan)
    /\ UNCHANGED <<inputs, tfUpTo, sensorPc, inflight, held, scanAge, clusters,
                   generation, planVars>>

\* Old enough, corrected, and its timestamped transform can be looked up.
Eligible ==
    {i \in 1 .. Len(pending) : /\ pending[i].age >= TransformDelay
                               /\ pending[i].corrected
                               /\ pending[i].id <= tfUpTo}

\* Mutant of SelectScan: only the selected scan leaves the deque.
SelectScanKeepingOlder ==
    /\ ~SensorBusy
    /\ \E i \in Eligible :
         /\ \A j \in Eligible : j <= i
         /\ inflight' = pending[i]
         /\ pending' = SubSeq(pending, 1, i - 1) \o SubSeq(pending, i + 1, Len(pending))
    /\ held' = 0
    /\ sensorPc' = "transform"
    /\ UNCHANGED <<inputs, arrived, tfUpTo, scanAge, clusters, generation, planVars>>

\* process_pending_scan: take the newest eligible scan; every scan before it
\* in the deque is discarded.
SelectScan ==
    /\ ~SensorBusy
    /\ \E i \in Eligible :
         /\ \A j \in Eligible : j <= i
         /\ inflight' = pending[i]
         /\ pending' = SubSeq(pending, i + 1, Len(pending))
    /\ held' = 0
    /\ sensorPc' = "transform"
    /\ UNCHANGED <<inputs, arrived, tfUpTo, scanAge, clusters, generation, planVars>>

\* The end of process_pending_scan: a scan process_scan did not process goes
\* back to the head of the deque while it is young.  The age compared is the
\* one at the clock reading of process_pending_scan.
Return(processed) ==
    /\ sensorPc' = "idle"
    /\ inflight' = NoScan
    /\ held' = 0
    /\ pending' =
         IF ~processed /\ inflight.age < RetryAge
           THEN <<[inflight EXCEPT !.age = Capped(@ + held, AgeCap)]>> \o pending
           ELSE pending

\* process_scan: the lookup of the scan's transform fails (the TF buffer was
\* cleared since can_transform answered) ...
LookupFails ==
    /\ sensorPc = "transform"
    /\ Return(FALSE)
    /\ UNCHANGED <<inputs, arrived, tfUpTo, scanAge, clusters, generation, planVars>>

\* ... or succeeds and last_scan_time becomes the clock reading of the caller.
LookupSucceeds ==
    /\ sensorPc = "transform"
    /\ scanAge' = held
    /\ sensorPc' = "inputs"
    /\ UNCHANGED <<inputs, arrived, tfUpTo, pending, inflight, held, clusters,
                   generation, planVars>>

\* Without a path or a map process_scan returns None: not processed.
InputsMissing ==
    /\ sensorPc = "inputs"
    /\ ~InputsReady
    /\ Return(FALSE)
    /\ UNCHANGED <<inputs, arrived, tfUpTo, scanAge, clusters, generation, planVars>>

\* Otherwise the clusters of the scan are stored first (none while map_info
\* is None: without it a scan with points is not got through) ...
StoreClusters ==
    /\ sensorPc = "inputs"
    /\ InputsReady
    /\ clusters' = [scan |-> inflight.id, turn |-> clusters.turn + 1]
    /\ sensorPc' = "generation"
    /\ UNCHANGED <<inputs, arrived, tfUpTo, pending, inflight, held, scanAge,
                   generation, planVars>>

\* ... and the generation is bumped afterwards.  The obstacle tracks that
\* process_scan then updates are the subject of module ObstacleTracks.
BumpGeneration ==
    /\ sensorPc = "generation"
    /\ generation' = generation + 1
    /\ Return(TRUE)
    /\ UNCHANGED <<inputs, arrived, tfUpTo, scanAge, clusters, planVars>>

SensorStep ==
    \/ SelectScan
    \/ LookupFails
    \/ LookupSucceeds
    \/ InputsMissing
    \/ StoreClusters
    \/ BumpGeneration

-----------------------------------------------------------------------------
(* The default callback group. *)

\* global_path_callback and map_callback: the first accepted message makes
\* its attributes available for good, the grid of a map before its info.
InputArrives(input) ==
    /\ planPc = "idle"
    /\ input = "info" <=> MapHalfway
    /\ inputs' = inputs \cup {input}
    /\ UNCHANGED <<arrived, tfUpTo, sensorVars, planVars>>

\* plan, its three early returns: no path or map, no recent scan, no pose.
\* The last one depends on TF alone, so it may happen at any time.
PlanStops ==
    /\ planPc = "idle" /\ ~MapHalfway
    /\ stop' = TRUE
    /\ UNCHANGED <<inputs, arrived, tfUpTo, sensorVars, planPc, readTurn,
                   rawStop, lastAeb, aebCount, counted, run>>

\* Mutant of PlanStarts: no AEB_SCAN_TIMEOUT.
PlanStartsWithoutTimeout ==
    /\ planPc = "idle" /\ ~MapHalfway
    /\ InputsReady
    /\ planPc' = "clearance"
    /\ UNCHANGED <<inputs, arrived, tfUpTo, sensorVars, readTurn, rawStop,
                   lastAeb, aebCount, stop, counted, run>>

\* plan passes its guards; candidate selection (module LocalPlanner) follows.
PlanStarts ==
    /\ planPc = "idle" /\ ~MapHalfway
    /\ InputsReady
    /\ scanAge <= ScanTimeout
    /\ planPc' = "clearance"
    /\ UNCHANGED <<inputs, arrived, tfUpTo, sensorVars, readTurn, rawStop,
                   lastAeb, aebCount, stop, counted, run>>

\* emergency_clearance is computed from latest_scan_clusters.
ReadClusters ==
    /\ planPc = "clearance"
    /\ readTurn' = clusters.turn
    /\ \E blocked \in BOOLEAN : rawStop' = (blocked /\ clusters.turn > 0)
    /\ planPc' = "count"
    /\ UNCHANGED <<inputs, arrived, tfUpTo, sensorVars, lastAeb, aebCount,
                   stop, counted, run>>

\* What the history variables remember of a reading that is counted.
Record ==
    /\ counted' = [counted EXCEPT ![readTurn] = @ + 1]
    /\ run' = [first |-> IF rawStop /\ aebCount > 0 THEN run.first ELSE readTurn,
               last |-> readTurn]

\* Mutant of CountReading: every plan counts.
CountEveryReading ==
    /\ planPc = "count"
    /\ aebCount' = IF rawStop THEN aebCount + 1 ELSE 0
    /\ Record
    /\ planPc' = "commit"
    /\ UNCHANGED <<inputs, arrived, tfUpTo, sensorVars, readTurn, rawStop,
                   lastAeb, stop>>

\* The generation differs from the one counted last: count the reading.
CountReading ==
    /\ planPc = "count"
    /\ generation # lastAeb
    /\ aebCount' = IF rawStop THEN aebCount + 1 ELSE 0
    /\ Record
    /\ planPc' = "commit"
    /\ UNCHANGED <<inputs, arrived, tfUpTo, sensorVars, readTurn, rawStop,
                   lastAeb, stop>>

SkipReading ==
    /\ planPc = "count"
    /\ generation = lastAeb
    /\ planPc' = "publish"
    /\ UNCHANGED <<inputs, arrived, tfUpTo, sensorVars, readTurn, rawStop,
                   lastAeb, aebCount, stop, counted, run>>

\* latest_scan_generation is read a second time.
CommitGeneration ==
    /\ planPc = "commit"
    /\ lastAeb' = generation
    /\ planPc' = "publish"
    /\ UNCHANGED <<inputs, arrived, tfUpTo, sensorVars, readTurn, rawStop,
                   aebCount, stop, counted, run>>

\* Mutant of PublishStop: one reading more than confirmed.
PublishStopLater ==
    /\ planPc = "publish"
    /\ \E feasible \in BOOLEAN : stop' = (aebCount > Confirm \/ ~feasible)
    /\ planPc' = "idle"
    /\ UNCHANGED <<inputs, arrived, tfUpTo, sensorVars, readTurn, rawStop,
                   lastAeb, aebCount, counted, run>>

\* The emergency stop, for an obstacle or for want of a feasible path.
PublishStop ==
    /\ planPc = "publish"
    /\ \E feasible \in BOOLEAN : stop' = (aebCount >= Confirm \/ ~feasible)
    /\ planPc' = "idle"
    /\ UNCHANGED <<inputs, arrived, tfUpTo, sensorVars, readTurn, rawStop,
                   lastAeb, aebCount, counted, run>>

PlanStep ==
    \/ PlanStops
    \/ PlanStarts
    \/ ReadClusters
    \/ CountReading
    \/ SkipReading
    \/ CommitGeneration
    \/ PublishStop

-----------------------------------------------------------------------------

Next ==
    \/ Tick
    \/ TfArrives
    \/ ScanCallback
    \/ SensorStep
    \/ \E input \in {"path", "grid", "info"} : InputArrives(input)
    \/ PlanStep

Spec == Init /\ [][Next]_vars

\* The two timers keep firing, a started callback runs to its end, and time
\* passes.  Nothing is assumed of the LiDAR, of TF or of the path and map.
FairSpec ==
    /\ Spec
    /\ WF_vars(Tick)
    /\ WF_vars(SensorStep)
    /\ WF_vars(PlanStep)
    /\ WF_vars(InputArrives("info"))

-----------------------------------------------------------------------------
(* Properties. *)

\* Domains of the variables.  The deque never exceeds its maxlen, also not by
\* a scan that process_pending_scan puts back, so nothing is evicted unseen.
TypeOK ==
    /\ inputs \subseteq {"path", "grid", "info"}
    /\ arrived \in 0 .. MaxScans
    /\ tfUpTo \in 0 .. arrived
    /\ pending \in Seq(PendingScan)
    /\ Len(pending) <= QueueLen
    /\ sensorPc \in {"idle", "transform", "inputs", "generation"}
    /\ inflight \in PendingScan \cup {NoScan}
    /\ held \in 0 .. Expired
    /\ scanAge \in 0 .. Expired
    /\ clusters \in [scan : 0 .. MaxScans, turn : Turns]
    /\ generation \in Turns
    /\ planPc \in {"idle", "clearance", "count", "commit", "publish"}
    /\ readTurn \in Turns
    /\ rawStop \in BOOLEAN
    /\ lastAeb \in Turns \cup {-1}
    /\ aebCount \in Nat
    /\ stop \in BOOLEAN
    /\ counted \in [Turns -> Nat]
    /\ run \in [first : Turns, last : Turns]

\* Skipped, retried and re-queued scans never run backwards: the clusters the
\* AEB and the tracker see come from scans in their order of arrival, each at
\* most once (process_pending_scan, the discard loop and appendleft).
EvaluatedInOrder ==
    [][clusters'.scan # clusters.scan => clusters'.scan > clusters.scan
                                         /\ clusters'.turn = clusters.turn + 1]_clusters

\* The intent of the comment in plan: "Count each sensor observation once so
\* confirmation_frames represents real independent measurements".
CountedOnce == \A t \in Turns : counted[t] <= 1

\* What the unlocked reads of plan really guarantee: the clusters of one scan
\* enter aeb_detection_count at most three times, once with the generation
\* before their own (clusters are stored before the bump), once with their
\* own and once with a later one (read before, committed after).
CountedAtMostThrice == \A t \in Turns : counted[t] <= 3

\* aeb_detection_count exceeds the number of scans from the first to the last
\* it counts by at most two: n confirmations in a row show that the obstacle
\* was there for n - 2 scans, however the two callback groups interleave.
ConfirmationsSpanScans == aebCount <= run.last - run.first + 3

Decisions == INSTANCE SafeDrive WITH
    sighted <- InputsReady /\ scanAge <= ScanTimeout,
    deciding <- planPc # "idle",
    evaluated <- clusters.turn,
    alarms <- aebCount,
    first <- run.first,
    last <- run.last

\* Although plan reads what process_scan writes piece by piece, it decides as
\* SafeDrive says: on sight of a recent scan, on readings in their order, and
\* against driving on when readings enough in a row are blocked.
ImplementsSafeDrive == Decisions!Spec

\* When the LiDAR dies the planner ends up publishing the emergency stop, and
\* nothing (a retried scan, a late transform, a plan in progress) lifts it
\* again: plan, AEB_SCAN_TIMEOUT.
ScanLossStops == <>[]stop
=============================================================================
