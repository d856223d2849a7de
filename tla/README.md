# A TLA+ model of the F1TENTH autonomy stack

TLA+ modules, TLC configurations and TLAPS proofs about the program in this
repository: a ROS 2 stack for a 1:10 race car that follows a closed race line,
avoids static obstacles seen by a LiDAR, and stops when it cannot. The first part
is the inventory, the second says which module models what, the third what the
runs and the proofs show, the last what is planned.

## 1. Inventory

### Components and how they interact

| component | state | operations | talks to |
|---|---|---|---|
| waypoint planner (`planning/waypoint_planner_node.py`) | the waypoints | publish on a timer | global path to the local planner |
| **local obstacle planner** (`planning/local_obstacle_planner_node.py`, `local_planner_core.py`) | pending scans, clusters, tracks, AEB count, lock, last safe path | `scan_callback`, `process_pending_scan`, `global_path_callback`, `map_callback`, `odom_callback`, `plan` | path, emergency stop, avoidance flag and speed limit to the controllers |
| controllers (`control/*_node.py`: pure pursuit, Unicorn L1, Forza MAP, linear MPC, MPCC) | enabled, last command, ages of inputs, stop flag | path, odometry, stop, speed limit callbacks, enable service, control loop | drive commands to the bridge or the vehicle |
| vehicle interface, localization node | last command time; last pose | callbacks and a watchdog | between controllers and hardware |
| simulation bridge (`f1tenth_gym_ros/gym_bridge.py`, `static_obstacles.py`) | requested command, delayed steering queue, collision latch, obstacle layout, lap progress | drive, teleop and reset callbacks, physics timer, layout worker thread | scans, odometry, TF to everyone |
| onboard overrides (`onboard/vehicle_overrides`: `joy_teleop.py`, `vesc_to_odom.cpp`) | active commands; servo command history | Joy messages; VESC state | drive commands; odometry |
| session scripts (`run_autonomy.sh`, `onboard/run_autonomy.sh`) | lock file, process group | start, recover, clean up | launch files |

The local planner is where the stack decides between driving, avoiding and
stopping, and the node with the most concurrency inside: it runs under
`MultiThreadedExecutor(num_threads=3)` with two mutually exclusive callback
groups that share attributes without a lock. The controllers and the programs on
the vehicle side run their callbacks one at a time; there it is the order of
callbacks, the age of what they read and what survives a stop that is hard. The
bridge has one thread more, which prepares obstacle layouts.

### What is hard, and what makes each part correct

* *Local planner, scan side.* Scans wait for TF, are skipped, retried and put
  back. Correct means: clusters are replaced in order of arrival, the deque never
  overflows unseen, one scan is not counted as many confirmations, and a silent
  LiDAR ends in a stop.
* *Local planner, tracks.* Noisy and split clusters are associated one by one.
  Correct means: hits count scans, tracks do not mix obstacles or reuse
  identifiers, a reset list stays reset.
* *Local planner, decision.* Correct means: lock and path describe the same
  manoeuvre, the manoeuvre is committed, it is let go of where its path has
  returned, it does end, the flag agrees with the path, and the path does not jump.
* *Controllers.* Stale inputs, enabling, rate limits across stops, dry runs and
  faults. Correct means: the car moves only while enabled and not vetoed, comes to
  rest without inputs, obeys a limit that stays, never leaps to a former speed.
* *Vehicle interface.* Correct means: a silent controller or a safety stop reaches
  the wheels and is not undone by what comes after.
* *Bridge.* Delayed steering against the collision latch and resets, a publication
  grid slower than the physics. Correct means: what the bridge handled before a reset does
  not act after it, and a collision latches and is reported.
* *Obstacle layouts.* Layouts prepared by a worker thread while requests, resets
  and failures come in; laps under backtracking and past branches close in space.
  Correct means: a lap is a lap and brings a new layout, and cleared stays cleared.
* *Onboard.* Deadman buttons that call once, choice of the delayed servo command
  from a history that two callbacks shorten.
* *Scripts.* Recovery from a killed session.

`PROJECT.json` lists every hazard with its line under `hazards`.

## 2. The modules

### ScanPipeline

The two callback groups of `LocalObstaclePlannerNode`. One action per access to a
shared attribute, so every interleaving of `process_scan` and `plan` that threads
can produce is a behaviour:

| code | actions |
|---|---|
| `scan_callback` | `ScanCallback` |
| `process_pending_scan`, `process_scan` | `SelectScan`, then `LookupFails` or `LookupSucceeds`, then `InputsMissing` or `StoreClusters`, `BumpGeneration` |
| `plan` | `PlanStops`, or `PlanStarts`, `ReadClusters`, `CountReading` / `SkipReading`, `CommitGeneration`, `PublishStop` |
| `global_path_callback`, `map_callback` | `InputArrives`: the path; the grid and the info of the first map, two assignments that `process_scan` can come between |
| clock, TF listener | `Tick`, `TfArrives` |

`Return` is the tail of `process_pending_scan`: the scan goes back to the head of the
deque when `process_scan` did not process it (also when it returned `None`) and it
was younger than 0.25 s at the clock reading the callback started with. Ages
saturate where no guard distinguishes more. Between the grid and the info of the first
map (`MapHalfway`) no plan can run, its group is busy; a `process_scan` that has points would
fail there on a `map_info` that is `None` and end the node, which is not modelled, so
`StoreClusters` there stands for the scans that have none. A cluster set is the scan it comes
from; whether it blocks the commanded path is a free choice.

### SafeDrive

What a controller may rely on in the emergency stop of the local planner, as if a
planning cycle counted one evaluated scan and decided at once: no cycle begins
without sight of a recent scan, readings are counted in the order of their scans,
`Confirm` blocked readings in a row stop the vehicle, and without sight it is
stopped for good (`StopsInTheEnd`). The interleaving shows in one place only, the bound
`alarms <= last - first + 3`: the count may run ahead of the scans it spans by two.
`ScanPipeline` implements it (`ImplementsSafeDrive`) under the mapping

| SafeDrive | ScanPipeline |
|---|---|
| `sighted` | path and map are there and `last_scan_time` is not older than its timeout |
| `deciding` | `plan` is between its guards and `PublishStop` |
| `evaluated` | the turn of the scan whose clusters are stored |
| `alarms` | `aeb_detection_count` |
| `first`, `last` | the history variable `run`: the turns of the first and the last reading of the count |
| `stop` | the emergency stop as published |

SafeDrive also says what the code does not promise: a cycle that began on sight of a
scan may end after the sight is lost, and it may decide before any scan was
evaluated, when nothing can be blocked.

### ObstacleTracks

`update_tracked_obstacles` with its caller: `BeginUpdate` expires tracks, then
`Associate` or `CreateTrack` handles one observation, `FinishUpdate` is the
assignment in `update_obstacle_tracks`. Tracks live in a heap, because the loop
mutates the dicts the published list already holds. `GlobalPathCallback` empties the
list at any moment, from the other callback group. Positions are integers around the
start line and a running mean is kept as sum and count, which makes the mean exact
and the strict comparison with `obstacle_match_distance` exact, too. Left out:
radius, lateral extents, surface points; the `int(...)` and `float(...)` conversions
are identities on what the program stores.

### LocalPlanner

`plan` after its guards, as one action: it shares the callback group of
`global_path_callback`, the only other writer of what it writes. `Plan` is
`PlanStops` (early returns), `PlanAvoids` (an obstacle is active: `SelectCandidate` or
`NoFeasibleCandidate`), `PlanRetains` or `PlanReleases`. The path has cells; a
displaced path is its centre, its side and magnitude, and the lengths of its two
transitions. Which candidates are safe, feasible and best is a free choice, and so
is the AEB decision of ScanPipeline. `Drive` moves the vehicle by at most a cell
between two plans; `ObstacleConfirmed`, `ObstacleDrifts`, `ObstacleLost` and
`Relocalize` are the environment.

`LapAssumption` (entry and exit of a manoeuvre are each shorter than half a lap) is a
condition on the parameters and the track that the code does not check. On a track
where it fails the half-lap test in `plan` no longer tells ahead from behind; with a
release distance of half a lap or more a lock would never be released.

### ControllerParameters, PurePursuit, UnicornL1, LinearMpc

One module per node class, one action per callback; the nodes run under
`rclpy.spin`, so a callback is not interrupted. Speeds and angles are integers in
units of one rate-limit step, ages are ticks that saturate beyond their timeout.

| code | PurePursuit | UnicornL1 | LinearMpc |
|---|---|---|---|
| input callbacks | `OdomCallback`, `PathCallback`, `EmergencyStopCallback`, `AvoidanceActiveCallback`, `SpeedLimitCallback` | the same, `CollisionCallback` | `OdomCallback`, `PathCallback`, `CollisionCallback`, `EmergencyStopCallback` |
| `enable_callback` | `Enable`, `RefuseEnable`, `Disable` | `Enable`, `Disable` | `Enable`, `Disable` |
| `control_loop` | `StopLoop`, `DriveLoop` | `NotReadyLoop`, `IdleLoop`, `DryRunLoop`, `DriveLoop`, `HoldLoop`, `FaultLoop` | `NotReadyLoop`, `IdleLoop`, `DryRunLoop`, `DriveLoop`, `FailLoop` |
| time | `Tick` | `Tick` | `Tick` |

Which point of the path is pursued, what the guidance law or the solver returns, is a
free choice; clamping, ramps, rate limits, speed limits and failure counts that are
applied to it are as in the code. `pose` is what the TF lookup and the search on the
path would yield. `ForzaMapNode` is `UnicornL1` with other constants, `NonlinearMpccNode`
is `LinearMpc` with `Nonlinear`.

### ControlStack and DriveController

`control.launch.py` starts one controller; `which` is its argument. `ControlStack`
instantiates the modules over the same variables, and a variable that a node does
not have keeps its initial value. The two subclasses are instantiated with the rarer
parameters: Forza MAP may ignore vetoes, neither of them makes dry runs.

`DriveController` is what a planner or an operator may rely on, in four variables. The
refinement mapping is

| DriveController | ControlStack |
|---|---|
| `enabled` | `enabled` |
| `vetoed` | `stopFlag \/ collision` (as far as the node heeds them) |
| `lost` | path or odometry older than its timeout, or no pose on the path |
| `moving` | the last command has a speed |

Its steps forbid moving while disabled or vetoed, and make a veto or a disable request
stop the car in the same step; `ComesToRest` is its liveness: inputs that stay
lost end in a car that stays at rest, also through the grace time in which
Unicorn L1 repeats its last command.

### VehicleInterface, GymBridge, VescToOdom, JoyTeleop, VehicleSide

| code | actions |
|---|---|
| `vehicle_interface_node.py`: callbacks, timer | `DriveCallback`, `SafetyCallback`, `PublishLoop` |
| `gym_bridge.py`: `drive_callback`, `opp_drive_callback`, `teleop_callback` | `DriveCallback`, `DriveCallbackLatched`, `OppDriveCallback`, `TeleopCallback` |
| `ego_reset_callback`, `opp_reset_callback` | `EgoResetCallback`, `OppResetCallback` |
| `drive_timer_callback` with `_update_sim_state` and the publication grid (`timer_callback`) | `DriveTimerCallback` |
| `vesc_to_odom.cpp`: `servoCmdCallback`, `vescStateCallback` | `ServoCmdCallback`, `VescStateCallback` |
| `joy_teleop.py`: `joy_callback` of all commands | `JoyCallback` |
| servers, clock | `ServerChanges`, `Tick` |

`VehicleSide` composes them into five deployments: the interface in front of the
simulator, the same with an opponent (no latch, no keyboard), the interface in front
of motor and servo, the odometry, the joystick. `driveTopic` is the drive topic between
interface and bridge, oldest message first: `PublishLoop` appends `sent`, a topic that holds
`TopicDepth` messages loses its oldest, and `Deliver` hands the oldest to the bridge. So
a bridge that is held up may handle a moving command after the interface has long sent
a stop. The depth is 10 in the code, 2 in the run and anything in the theorems.
`acted` is a history variable: since its last reset the bridge has acted on a message that was not
a stop. Commands, resets and the timer of the bridge come in any order.
Contacts and motion are free choices. A state message reaches
`VescToOdom` at most `MaxLateness` late and in order of its stamps; the C++ comment
that one second of history is ample is the assumption
`ServoDelay + MaxLateness <= HistoryLength`. `DriveCommandAssumption` says that the commands the
interface is sent are ones the bridge tells apart.

### ObstacleLayouts

The obstacle services of `GymBridge`, `ClosedPathLapTracker`, and the worker thread, over
a path that is a ring of positions. `Branches` are positions close in space, which a
nearest-point search may confuse.

| code | actions |
|---|---|
| `_update_sim_state`, `ClosedPathLapTracker.update`, `_randomize_obstacles_after_lap` | `DriveUntracked`, `DriveOn`, `CompleteLap` |
| `randomize_obstacles_callback`, `clear_obstacles_callback`, `clicked_point_callback` | `RandomizeObstaclesCallback`, `RandomizeWithoutData` (the path or the map cannot be read), `ClearObstaclesCallback`, `ClickedPointCallback` |
| `ego_reset_callback` | `EgoResetCallback` |
| `generate_obstacle_layout` in the thread pool | `Generate` |

`next` is the future: queued, done, failed or none; taking a queued one waits for
it. `ObstacleLayoutsAssumption` keeps branches out of reach of the local search and
reset poses are unambiguous: the tracker is reset with a search over the whole path.

### MC modules and mutants

`MCObstacleTracks`, `MCLocalPlanner` and `MCVehicleSide` give constants their values. Operators whose
comment begins with "Mutant of" are alternative, faulty versions of an action or a
helper; no specification uses them. They document which mistake each property
excludes: with the mutant in place of the definition TLC finds the property violated.

## 3. What is checked

### TLC

| run | shows | bounds |
|---|---|---|
| `scan_pipeline` | `TypeOK`, `CountedAtMostThrice`, `ConfirmationsSpanScans`, `EvaluatedInOrder`, `ScanLossStops`, and that the two callback groups implement `SafeDrive` (`ImplementsSafeDrive`) | 3 scans, deque of 2, ages up to 2 ticks: enough for an overflow, a retry behind a newer scan, an expiry in flight, and for a scan to be counted three times (the bound is reached) |
| `obstacle_tracks` | `TypeOK`, `OneHitPerScan`, `TracksDoNotMix`, `IdsNeverReused`, `ComesBackOnlyByRace` | 3 scans of up to 2 observations, 3 tracks, two obstacles at exactly the separation that is assumed, jitter in both directions |
| `local_planner` | `TypeOK`, `LockMatchesPath`, `AvoidanceAnnounced`, `ManoeuvreCommitted`, `ReleasedBeyondReturn` | lap of 5 cells, 3 offsets on two sides, 2 horizons, 2 obstacles, 2 global paths: a second obstacle can become primary, either side can be locked, late detection shortens the entry |
| `local_planner_returns` | `ReturnsToGlobalPath` | the same with one global path |
| `controllers` | `TypeOK`, `StopResetsRamp`, `GivesUp`, `SpeedRamps`, `SteeringWasSent`, `LimitObeyed`, and that each of the five controllers implements `DriveController` (`ImplementsDriveController`) | speeds 0 to 2 and steering -1 to 1 in rate-limit steps, so a ramp takes more than one command; limits below and at `min_speed`; inputs expire after a tick; three failures; one repetition in a transform fault |
| `vehicle_side` | `TypeOK`, `ResetForgets`, `DelayedSteering`, `JoyOneCallPerPress`, `LatchedStandsStill`, `StaysAtRest`, `StopReachesVehicle`, `CollisionReported` | a drive topic of two messages, the least in which a moving command waits before a stop; a steering delay of a tick with one command in it, a grid of two ticks, a servo range narrower than the commands; 4 ticks and 3 servo commands with a history of 2 ticks, so commands are forgotten by both callbacks; 4 joystick commands that share buttons |
| `obstacle_layouts` | `TypeOK`, `ClearedStaysClear`, `IdsUnique`, `LapCoversCircuit`, `NewLayoutEachLap` | a ring of 7 with two pairs of close branches, 5 rounds, 2 obstacles: enough for a lap, a failure, a clear request and a reset between a request and the use of the layout |

The bounds are small because each hazard is a matter of order, not of size: a second
scan behind the first, a command between a stop and a reset. The ramps, delays and
rings are long enough for every branch of every action to be taken, and the
theorems below do not depend on them.

Runs that end in a counterexample, each against a sentence of the repository:

* `scan_counted_once`: a plan that reads `latest_scan_clusters` between the two
  assignments of `process_scan` counts the clusters under the generation before, and
  the next plan counts them again. "Count each sensor observation once" does not hold;
  three counts is what the code guarantees. The third comes from a plan that read the
  clusters early and compares the generation late.
* `tracks_at_the_seam`: the arc length of a track is a linear mean, so an obstacle on
  the start line ends up with an `s` about half a lap away.
* `no_jump_on_detection`: a nearer obstacle confirmed in the middle of a manoeuvre
  resets the lock, and the new path starts on the global path abreast of a vehicle
  that is displaced.
* `mpc_steering_state`: "Track the last command that was actually sent" is what the MPC
  says of its steering state. A collision, an emergency stop or the third failure sends
  steering zero and keeps the state, and the command after enabling may jump by it.
* `layout_clearance`: a new run or lap shall not have an obstacle closer than an
  avoidance manoeuvre needs. The layout that is applied at the end of a lap was generated
  from an earlier position of the car; after a reset to another place the lap ends
  elsewhere. The run assumes (`PromptWorker`) that the worker starts before the car moves
  on, so the delay of the thread plays no part in it.

### Fairness

`ScanPipeline!FairSpec` assumes that time passes, that the two timers keep firing and
that a started callback runs to its end (`WF` of `Tick`, `SensorStep`, `PlanStep`, and of
`InputArrives` for the info of a map whose grid is there): the
executor has a thread for each callback group and one more for TF. Nothing is assumed
of the LiDAR, TF, the path or the map. `LocalPlanner!FairSpec` assumes that the
planning timer keeps firing and that a vehicle that is not told to stop keeps moving.
`ControlStack!FairSpec` assumes that the control timer of the node keeps firing and that time
passes (`WF` of `Loop` and `Clock`); nothing is assumed of the operator, the planner, TF or
the odometry, and whether the solver succeeds is never assumed. `VehicleSide!SideSpec`
assumes the two timers, the delivery of messages on the drive topic and the clock
(`WF` of `PublishLoop`, `DriveTimer`, `Deliver`, `SideTick`); commands, resets,
the opponent and the keyboard are free. `LimitObeyed` excludes an operator who
enables the controller again and again, and says nothing of the MPC and the MPCC, which
subscribe to no limit; excluded from `StopReachesVehicle` is a keyboard that keeps
commanding. The other safety runs use `Spec`. `CHECK_DEADLOCK FALSE` is set for
ObstacleTracks only, whose scans and identifiers are used up.

### TLAPS

The theorems hold for every value of the constants under the named assumptions.

* `ScanPipelineProofs`: `TypeCorrect`, `CountBound`, `InOrder`. The inductive
  invariant `PipelineInv` adds two things to `TypeOK`. `QueueInv`: the deque is in
  order of arrival and newer than the scan in flight, which is newer than what was
  evaluated; while a scan is in flight the deque has room for it; the generation is
  the turn of the stored clusters, or one less between the two assignments.
  `CountInv`: a turn `t` was counted at most `Ceiling - t + 2` times, where `Ceiling` is
  the generation that is, or is about to be, committed. Every counting step sees a
  generation above the committed one and so raises `Ceiling`; a turn can only be
  counted by a plan that read it while it was newest, hence while `Ceiling` was at
  most `t`. Neither `TypeOK` nor the bound of three is inductive alone.
* `SafeDriveProofs`: `ConfirmationsSpan`, `StepsImplementSafeDrive`, `StopLasts`, `ScansRunOut`. `RunInv` adds to
  `PipelineInv` that the count is at most `Ceiling - run.first + 2`, the argument of
  `CountInv` for a whole run of readings: every counting step raises `Ceiling`, which was
  at most `run.first` when the run began. The refinement needs besides that readings
  are in the order of their scans and that a blocked one is of an evaluated scan. Each
  action of ScanPipeline then is a step of SafeDrive or leaves the mapped state alone.
  `StopLasts` is the safety part of `ScanLossStops`, `ScansRunOut` its descent: without new
  scans those that wait, are in flight or put back never become more or younger, one
  older than `RetryAge` is not put back, and nothing else refreshes `last_scan_time`.
* `ObstacleTracksProofs`: `TracksTypeCorrect`, `HitsCountScans`,
  `TracksFollowOneObstacle`, `IdentifiersAreUnique`, `ResetHolds`, for any number of
  obstacles, scans, observations and identifiers. `TracksInv` adds four things to
  `TypeOK`. `IdsInv`: identifiers at or above the counter were never used. `RaceInv`:
  unless the list was reset meanwhile, it still holds what the update started from.
  `HitsInv`: a track the running update has not matched has a hit to spare; without
  it one more hit could break `OneHitPerScan`. `MeanInv`: the mean of a track lies
  within `Jitter` of its obstacle, so an observation of an obstacle that
  `SeparationAssumption` keeps `MatchDistance + 2 * Jitter` away is not strictly
  within the match distance (`OthersOutOfReach`), and the next mean is near again
  (`MeanStaysNear`).
* `LocalPlannerProofs`: `PlannerTypeCorrect`, `LockIsConsistent`, `Commitment`,
  `Release`, `FlagIsTruthful`, `ReturnIsApproached`, `ReturnLasts`. `LockMatchesPath` is inductive together with `TypeOK`
  and `ShortManoeuvre` (the last safe path obeys `LapAssumption`). `Release` follows by
  arithmetic: a released vehicle has more than half a lap to the obstacle, hence is
  not in the entry, and at least the release distance behind it, hence is past the
  exit. `ReturnIsApproached` is the descent behind `ReturnsToGlobalPath`: `LeftToRelease`, the
  cells left to the place where a plan releases the manoeuvre, is positive while it is
  retained and falls with every cell the vehicle covers. `ReturnLasts` is its safety part.
* `ControlStackProofs`: `StackTypeCorrect`, `RampsRest`, `ThreeFailuresDisable`,
  `CommandsRamp`, `SteeringIsSent`, `StepsImplementDriveController`, `LimitIsApproached`,
  `LimitLasts`, `GraceRunsOut`, for any speeds, rates, timeouts and grace. `StackInv` adds to type correctness that the variables a
  node lacks or never uses keep their initial values (`AbsentInv`), that the ramp of pure pursuit
  is the speed of its last command unless it was just enabled (`RampInv`), and that a
  command with a speed is only in force while enabled and not vetoed (`MovingInv`):
  without it a `Veto` that leaves the command alone would be no step of
  `DriveController`. For the refinement every action of a node is shown to be
  one of six kinds (it observes, drives, stops, enables, vetoes or clears), and each
  kind to be a step of `DriveController` or a stutter. `LimitIsApproached` is the descent
  behind `LimitObeyed`: while a limit counts, a loop that follows the path commands a
  speed within it or a deceleration step lower than before, and only enabling raises it;
  `LimitLasts` is the safety part. `GraceRunsOut` is the descent behind `ComesToRest` for the
  two nodes that repeat a command: the age of the fault grows with every tick, no message
  sets it back, and past the grace every loop stops.
* `VehicleSideProofs`: `TypesHold`, `ResetsForget`, `LatchHolds`, `PressCallsOnce`,
  `SteeringIsDelayed`, `RestLasts`, `StopIsApproached`, `ReportComesDue`, for any delays, buttons and numbers of commands. `LatchInv`: the bridge with an opponent never
  latches. `JoyInv`: a client was called once in this press if it is active and ready,
  else not at all. `OdomInv`: the history is the end of all commands received
  (`HistoryOK`), these are ordered in time, and commands were forgotten only if the
  first that is left is older than a second or not newer than the delayed time of the
  last state (`FrontOK`). With the assumption on lateness no later state can ask for a
  command that is gone. `LatchHolds` and `SteeringIsDelayed` rest on no bound of the runs.
  `SideTypes` makes `TypeOK` inductive: the interface has a command in hand or none at all,
  a steering command on its way carries a delay no longer than the longest, and the
  integrals of the odometry are bounded by the stamp of the last state (`OdomOK`).
  `ResetsForget` rests on `ForgetInv`: until the bridge acts on more than a stop, it asks for
  nothing and delays straight wheels only. It says nothing of commands that wait on the
  topic, or that the interface keeps, when the reset comes: those are handled after it.
  `RestLasts` is the safety half of `StopReachesVehicle`: a car at rest, with only stops
  waiting on the topic, is not set in motion while the controller is silent.
  `StopIsApproached` is its descent: `StopRank` is the place on the topic of the last
  moving command (`LastMoving`), and beyond it the programs the stop still has to pass. A
  message that is handled lowers it by one while a moving one waits or was just
  handled, each program lowers it when it passes the stop on, and nothing but the keyboard
  raises it; that the physics timer passes it on needs `ArmedInv`, a car only moves
  by a command the bridge keeps sending to the Gym. `ReportComesDue` is the descent behind
  `CollisionReported`: the publication grid advances with every tick until a publication is
  due, and only a publication of the present collision sets it back.
* `ObstacleLayoutsProofs`: `LayoutsTypeCorrect`, `ClearIsFinal`, `IdsAreUnique`,
  `LapsBringLayouts`, `LapsCover`, for a circuit of any length and any branches under
  `ObstacleLayoutsAssumption`. `LapInv`: the tracker is where the car is, and the last
  `progress` positions behind it are covered, hence all of them when a lap is counted.
  `RoundInv`: the future belongs to the last round handed out, which is later than
  the one applied. `NumberedInv`: obstacle number i has the id i - 1. `ClearInv`: nothing
  is active after a clear request.

Only model-checked: liveness, since liveness under fairness and `ENABLED` are outside the
prover's reach, and the five counterexamples. What is proved of each liveness property:

| property | proved for every value of the constants | left to TLC |
|---|---|---|
| `ScanLossStops`, `StopsInTheEnd` of `ImplementsSafeDrive` | descent and lasting (`ScansRunOut`, `StopLasts`) | that time passes and plans go on |
| `ReturnsToGlobalPath` | descent and lasting (`ReturnIsApproached`, `ReturnLasts`) | that the vehicle moves and plans |
| `LimitObeyed` | descent and lasting (`LimitIsApproached`, `LimitLasts`) | that loops follow the path or stop |
| `ComesToRest` of `ImplementsDriveController` | the steps, and the descent of the grace (`StepsImplementDriveController`, `GraceRunsOut`) | that loops go on |
| `StopReachesVehicle` | descent and lasting (`StopIsApproached`, `RestLasts`) | that the timers and the topic go on |
| `CollisionReported` | descent (`ReportComesDue`) | that ticks and the timer go on |

## 4. Not modelled, and the plan

Left out of modelled components: floating-point geometry (footprints, splines,
curvature, clearances, clustering), guidance laws and optimisation, the Gym physics,
the occupancy map and ray casting, markers and status text. The age of what the AEB
and the tracker see is not bounded by the code: `last_scan_time` is the time of
processing. The end of a process (Ctrl-C) is not modelled.

Without a module: the waypoint planner (it republishes the path it read once; a path is
an input of `GlobalPathCallback`), the localization node (it republishes a pose and
decides nothing), the session scripts (processes of the host), the offline tools
(run by hand, away from the car) and the tests.

Hazards without a property have a note in `PROJECT.json`. What would come next:

1. `AutonomyStack`: LocalPlanner's outputs, the topics between the nodes and
   `DriveController` in one module: a dead planner stops the car.
2. ObstacleTracks with the dict of a track updated field by field under a reader, and a
   stamp on each scan in ScanPipeline, to bound the age of what is trusted.
3. An abstract specification of a manoeuvre (start, hold, return) with LocalPlanner shown
   to implement it.
4. The session scripts: lock file, process group and recovery.
