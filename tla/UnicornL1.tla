------------------------------ MODULE UnicornL1 ------------------------------
(***************************************************************************)
(* UnicornL1Node, and ForzaMapNode, which inherits its control flow.  The  *)
(* executor has two threads, but all callbacks are in the default group,   *)
(* which is mutually exclusive: each of them is one action.  The dry run   *)
(* and the transform fault grace set it apart from PurePursuit.            *)
(***************************************************************************)
EXTENDS ControllerParameters

CONSTANTS
    AvoidanceSpeed,       \* avoidance_speed_limit
    Grace,                \* transform_fault_grace
    SolveWhenDisabled,    \* solve_when_disabled
    StopOnCollision,      \* stop_on_collision of ForzaMapNode, TRUE for UnicornL1Node
    StopOnEmergencyStop   \* stop_on_emergency_stop, likewise

VARIABLES
    enabled,       \* enabled
    odomAge,       \* age of current_odom; a missing one counts as expired
    pathAge,       \* age of path_points; a missing one counts as expired
    measured,      \* the speed in current_odom
    pose,          \* what TF and compute_command would yield
    stopFlag,      \* emergency_stop
    collision,     \* collision
    avoidance,     \* avoidance_active
    limit,         \* dynamic_speed_limit
    limitAge,      \* age of dynamic_speed_limit; a missing one counts as expired
    prevSteering,  \* previous_steering
    prevSpeed,     \* previous_command_speed
    lastOk,        \* last_solution_ok
    faultAge,      \* age of transform_fault_since, None without a fault
    drive          \* the last command on drive_topic

ctrlVars == <<enabled, prevSteering, prevSpeed, lastOk, drive>>
inputVars == <<odomAge, pathAge, measured, pose, stopFlag, collision, avoidance,
               limit, limitAge>>
vars == <<ctrlVars, faultAge, inputVars>>

None == -1

\* The parameter enabled may start the controller at once.
Init ==
    /\ enabled \in BOOLEAN
    /\ odomAge = Expired(OdomTimeout)
    /\ pathAge = Expired(PathTimeout)
    /\ measured = 0
    /\ pose \in Poses
    /\ stopFlag = FALSE
    /\ collision = FALSE
    /\ avoidance = FALSE
    /\ limit = 0
    /\ limitAge = Expired(LimitTimeout)
    /\ prevSteering = 0
    /\ prevSpeed = 0
    /\ lastOk = FALSE
    /\ faultAge = None
    /\ drive = Stop

\* readiness_problem: is there one?
ReadinessProblem ==
    \/ pathAge > PathTimeout
    \/ odomAge > OdomTimeout
    \/ collision
    \/ stopFlag

OdomCallback ==
    /\ measured' \in MeasuredSpeeds
    /\ odomAge' = 0
    /\ UNCHANGED <<ctrlVars, faultAge, pathAge, pose, stopFlag, collision, avoidance,
                   limit, limitAge>>

\* A path of at least four distinct points; shorter ones are ignored.
PathCallback ==
    /\ pathAge' = 0
    /\ UNCHANGED <<ctrlVars, faultAge, odomAge, measured, pose, stopFlag, collision,
                   avoidance, limit, limitAge>>

\* ForzaMapNode may be told to ignore the two vetoes.
Heeded(stops) == {veto \in BOOLEAN : veto => stops}

CollisionCallback ==
    /\ collision' \in Heeded(StopOnCollision)
    /\ \/ /\ collision' /\ enabled
          /\ enabled' = FALSE
          /\ prevSpeed' = 0
          /\ drive' = Stop
       \/ /\ ~(collision' /\ enabled)
          /\ UNCHANGED <<enabled, prevSpeed, drive>>
    /\ UNCHANGED <<prevSteering, lastOk, faultAge, odomAge, pathAge, measured, pose,
                   stopFlag, avoidance, limit, limitAge>>

\* Mutant of EmergencyStopCallback: the ramp is left where it was.
EmergencyStopCallbackKeepingSpeed ==
    /\ stopFlag' \in Heeded(StopOnEmergencyStop)
    /\ drive' = IF stopFlag' THEN Stop ELSE drive
    /\ UNCHANGED <<prevSpeed, enabled, prevSteering, lastOk, faultAge, odomAge, pathAge,
                   measured, pose, collision, avoidance, limit, limitAge>>

EmergencyStopCallback ==
    /\ stopFlag' \in Heeded(StopOnEmergencyStop)
    /\ \/ stopFlag' /\ prevSpeed' = 0 /\ drive' = Stop
       \/ ~stopFlag' /\ UNCHANGED <<prevSpeed, drive>>
    /\ UNCHANGED <<enabled, prevSteering, lastOk, faultAge, odomAge, pathAge, measured,
                   pose, collision, avoidance, limit, limitAge>>

AvoidanceActiveCallback ==
    /\ avoidance' \in BOOLEAN
    /\ UNCHANGED <<ctrlVars, faultAge, odomAge, pathAge, measured, pose, stopFlag,
                   collision, limit, limitAge>>

SpeedLimitCallback ==
    /\ limit' \in SpeedLimits
    /\ limitAge' = 0
    /\ UNCHANGED <<ctrlVars, faultAge, odomAge, pathAge, measured, pose, stopFlag,
                   collision, avoidance>>

\* enable_callback(false).
Disable ==
    /\ enabled' = FALSE
    /\ prevSteering' = 0
    /\ prevSpeed' = 0
    /\ drive' = Stop
    /\ UNCHANGED <<lastOk, faultAge, inputVars>>

\* enable_callback(true) that succeeds; a refused one changes nothing.
Enable ==
    /\ ~ReadinessProblem
    /\ lastOk
    /\ enabled' = TRUE
    /\ prevSpeed' = measured
    /\ UNCHANGED <<prevSteering, lastOk, faultAge, drive, inputVars>>

\* control_loop with a readiness problem: the ramp is left where it was.
NotReadyLoop ==
    /\ ReadinessProblem
    /\ lastOk' = FALSE
    /\ drive' = Stop
    /\ UNCHANGED <<enabled, prevSteering, prevSpeed, faultAge, inputVars>>

\* control_loop that is disabled and must not solve.
IdleLoop ==
    /\ ~ReadinessProblem
    /\ ~enabled
    /\ ~SolveWhenDisabled
    /\ drive' = Stop
    /\ UNCHANGED <<enabled, prevSteering, prevSpeed, lastOk, faultAge, inputVars>>

Solving == ~ReadinessProblem /\ (enabled \/ SolveWhenDisabled)

\* compute_command, its guidance law with the filtered heading correction.
WantedSteerings == Angles

\* limit_steering.
Steerings ==
    {clamp(clamp(wanted, prevSteering - SteeringStep, prevSteering + SteeringStep),
           -MaxSteering, MaxSteering) : wanted \in WantedSteerings}

\* build_closed_velocity_profile, whatever the curvature of the path.
VelocityProfile == 0 .. MaxSpeed

\* compute_command, its speed without avoidance: slowed down, but not below
\* min_command_speed unless it is zero.
WantedSpeeds ==
    {IF 0 < speed /\ speed < MinSpeed THEN MinSpeed ELSE speed : speed \in VelocityProfile}

\* The cap while avoidance is announced: the configured one, and the planner's
\* while it is fresh.
AvoidanceLimit ==
    IF limitAge <= LimitTimeout /\ limit < AvoidanceSpeed THEN limit ELSE AvoidanceSpeed

\* compute_command, its speed.
CommandSpeeds == {IF avoidance /\ AvoidanceLimit < wanted THEN AvoidanceLimit ELSE wanted :
                      wanted \in WantedSpeeds}

\* control_loop while disabled: the dry run, which only proposes a command.
DryRunLoop ==
    /\ Solving
    /\ pose = "on_path"
    /\ ~enabled
    /\ faultAge' = None
    /\ lastOk' = TRUE
    /\ drive' = Stop
    /\ UNCHANGED <<enabled, prevSteering, prevSpeed, inputVars>>

\* control_loop that follows the path.
DriveLoop ==
    /\ Solving
    /\ pose = "on_path"
    /\ enabled
    /\ faultAge' = None
    /\ lastOk' = TRUE
    /\ prevSteering' \in Steerings
    /\ prevSpeed' \in {clamp(wanted,
                             IF prevSpeed > DecelStep THEN prevSpeed - DecelStep ELSE 0,
                             prevSpeed + AccelStep) : wanted \in CommandSpeeds}
    /\ drive' = [speed |-> prevSpeed', steering |-> prevSteering']
    /\ UNCHANGED <<enabled, inputVars>>

\* The age of the transform fault once this loop has met it.
FaultAge == IF faultAge = None THEN 0 ELSE faultAge

\* Mutant of HoldLoop: every fault starts a grace of its own.
HoldLoopRestarting ==
    /\ Solving
    /\ pose = "lost"
    /\ enabled
    /\ lastOk
    /\ faultAge' = 0
    /\ drive' = [speed |-> prevSpeed, steering |-> prevSteering]
    /\ UNCHANGED <<enabled, prevSteering, prevSpeed, lastOk, inputVars>>

\* control_loop without a transform, within the grace: the command is repeated.
HoldLoop ==
    /\ Solving
    /\ pose = "lost"
    /\ enabled
    /\ lastOk
    /\ FaultAge <= Grace
    /\ faultAge' = FaultAge
    /\ drive' = [speed |-> prevSpeed, steering |-> prevSteering]
    /\ UNCHANGED <<enabled, prevSteering, prevSpeed, lastOk, inputVars>>

\* control_loop without a transform for too long, or with a RuntimeError of
\* compute_command: too far from the path, or heading away from it.
FaultLoop ==
    /\ Solving
    /\ \/ pose = "lost" /\ ~(enabled /\ lastOk /\ FaultAge <= Grace) /\ faultAge' = FaultAge
       \/ pose = "off_path" /\ faultAge' = faultAge
    /\ lastOk' = FALSE
    /\ prevSpeed' = 0
    /\ drive' = Stop
    /\ UNCHANGED <<enabled, prevSteering, inputVars>>

\* Time passes, and the vehicle moves relative to the path or TF comes and goes.
Tick ==
    /\ odomAge' = Older(odomAge, OdomTimeout)
    /\ pathAge' = Older(pathAge, PathTimeout)
    /\ limitAge' = Older(limitAge, LimitTimeout)
    /\ faultAge' = IF faultAge = None THEN None ELSE Older(faultAge, Grace)
    /\ pose' \in Poses
    /\ UNCHANGED <<ctrlVars, measured, stopFlag, collision, avoidance, limit>>

ControlLoop ==
    \/ NotReadyLoop
    \/ IdleLoop
    \/ DryRunLoop
    \/ DriveLoop
    \/ HoldLoop
    \/ FaultLoop

Next ==
    \/ OdomCallback
    \/ PathCallback
    \/ CollisionCallback
    \/ EmergencyStopCallback
    \/ AvoidanceActiveCallback
    \/ SpeedLimitCallback
    \/ Enable
    \/ Disable
    \/ ControlLoop
    \/ Tick

Spec == Init /\ [][Next]_vars
==============================================================================
