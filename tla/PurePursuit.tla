----------------------------- MODULE PurePursuit -----------------------------
(***************************************************************************)
(* PurePursuitNode.  Its callbacks run one at a time (rclpy.spin), so each *)
(* is one action.  Which path point is pursued, and the speed and steering *)
(* that follow from it, is a free choice inside the clamps.                *)
(***************************************************************************)
EXTENDS ControllerParameters

VARIABLES
    enabled,       \* enabled
    odomAge,       \* age of current_odom; a missing one counts as expired
    pathAge,       \* age of current_path; a missing one counts as expired
    measured,      \* the speed in current_odom
    pose,          \* what TF and the path search would yield
    stopFlag,      \* emergency_stop
    avoidance,     \* avoidance_active
    limit,         \* dynamic_speed_limit
    limitAge,      \* age of dynamic_speed_limit; a missing one counts as expired
    prevSteering,  \* previous_steering
    prevSpeed,     \* previous_speed_command
    drive,         \* the last command on drive_topic
    armed          \* history: nothing was published since enabling

ctrlVars == <<enabled, prevSteering, prevSpeed, drive, armed>>
inputVars == <<odomAge, pathAge, measured, pose, stopFlag, avoidance, limit, limitAge>>
vars == <<ctrlVars, inputVars>>

\* The parameter enabled may start the controller at once.
Init ==
    /\ enabled \in BOOLEAN
    /\ odomAge = Expired(OdomTimeout)
    /\ pathAge = Expired(PathTimeout)
    /\ measured = 0
    /\ pose \in Poses
    /\ stopFlag = FALSE
    /\ avoidance = FALSE
    /\ limit = 0
    /\ limitAge = Expired(LimitTimeout)
    /\ prevSteering = 0
    /\ prevSpeed = 0
    /\ drive = Stop
    /\ armed = FALSE

\* Mutant of PublishStop: the next command is limited from the speed before.
PublishStopKeepingSpeed ==
    /\ drive' = Stop
    /\ armed' = FALSE
    /\ UNCHANGED prevSpeed

\* publish_stop.
PublishStop ==
    /\ drive' = Stop
    /\ armed' = FALSE
    /\ prevSpeed' = 0

\* readiness_problem: is there one?
ReadinessProblem == pathAge > PathTimeout \/ odomAge > OdomTimeout

OdomCallback ==
    /\ measured' \in MeasuredSpeeds
    /\ odomAge' = 0
    /\ UNCHANGED <<ctrlVars, pathAge, pose, stopFlag, avoidance, limit, limitAge>>

\* A path with poses; one without is ignored.
PathCallback ==
    /\ pathAge' = 0
    /\ UNCHANGED <<ctrlVars, odomAge, measured, pose, stopFlag, avoidance, limit, limitAge>>

EmergencyStopCallback ==
    /\ \/ stopFlag' = TRUE /\ PublishStop
       \/ stopFlag' = FALSE /\ UNCHANGED <<prevSpeed, drive, armed>>
    /\ UNCHANGED <<enabled, prevSteering, odomAge, pathAge, measured, pose, avoidance,
                   limit, limitAge>>

AvoidanceActiveCallback ==
    /\ avoidance' \in BOOLEAN
    /\ UNCHANGED <<ctrlVars, odomAge, pathAge, measured, pose, stopFlag, limit, limitAge>>

\* A finite limit that is not negative; others are ignored.
SpeedLimitCallback ==
    /\ limit' \in SpeedLimits
    /\ limitAge' = 0
    /\ UNCHANGED <<ctrlVars, odomAge, pathAge, measured, pose, stopFlag, avoidance>>

\* enable_callback(false).
Disable ==
    /\ enabled' = FALSE
    /\ prevSteering' = 0
    /\ PublishStop
    /\ UNCHANGED inputVars

\* enable_callback(true) that is refused: this stops a running controller, too.
RefuseEnable ==
    /\ ReadinessProblem \/ stopFlag \/ pose # "on_path"
    /\ enabled' = FALSE
    /\ PublishStop
    /\ UNCHANGED <<prevSteering, inputVars>>

\* enable_callback(true) that succeeds: the ramp starts at the measured speed.
Enable ==
    /\ ~ReadinessProblem
    /\ ~stopFlag
    /\ pose = "on_path"
    /\ enabled' = TRUE
    /\ armed' = TRUE
    /\ prevSteering' = 0
    /\ prevSpeed' = measured
    /\ UNCHANGED <<drive, inputVars>>

\* control_loop that ends in publish_stop.
StopLoop ==
    /\ ~enabled \/ stopFlag \/ ReadinessProblem \/ pose # "on_path"
    /\ PublishStop
    /\ UNCHANGED <<enabled, prevSteering, inputVars>>

\* find_lookahead_point and compute_steering: any angle inside the clamp.
RequestedSteerings == Angles

\* Mutant of Steerings: the rate limit alone, without max_steering_angle.
SteeringsWithinRate == prevSteering - SteeringStep .. prevSteering + SteeringStep

\* rate_limit_steering: what may be steered next.
Steerings ==
    {clamp(requested, prevSteering - SteeringStep, prevSteering + SteeringStep) :
        requested \in RequestedSteerings}

\* curvature_speed_limit and the corner slowdown: any speed inside the clamp.
RequestedSpeeds == MinSpeed .. MaxSpeed

\* Mutant of Limited: min_speed is enforced on the planner's limit, too.
LimitedAboveMinimum(requested) ==
    IF avoidance /\ limitAge <= LimitTimeout /\ limit < requested
    THEN clamp(limit, MinSpeed, MaxSpeed) ELSE requested

\* The planner's limit counts while avoidance is announced and the limit is fresh.
Limited(requested) ==
    IF avoidance /\ limitAge <= LimitTimeout /\ limit < requested THEN limit ELSE requested

\* rate_limit_speed: what may be commanded next.
CommandSpeeds ==
    {clamp(Limited(requested),
           IF prevSpeed > DecelStep THEN prevSpeed - DecelStep ELSE 0,
           prevSpeed + AccelStep) : requested \in RequestedSpeeds}

\* control_loop that follows the path.
DriveLoop ==
    /\ enabled
    /\ ~stopFlag
    /\ ~ReadinessProblem
    /\ pose = "on_path"
    /\ prevSteering' \in Steerings
    /\ prevSpeed' \in CommandSpeeds
    /\ drive' = [speed |-> prevSpeed', steering |-> prevSteering']
    /\ armed' = FALSE
    /\ UNCHANGED <<enabled, inputVars>>

\* Time passes, and the vehicle moves relative to the path or TF comes and goes.
Tick ==
    /\ odomAge' = Older(odomAge, OdomTimeout)
    /\ pathAge' = Older(pathAge, PathTimeout)
    /\ limitAge' = Older(limitAge, LimitTimeout)
    /\ pose' \in Poses
    /\ UNCHANGED <<ctrlVars, measured, stopFlag, avoidance, limit>>

Next ==
    \/ OdomCallback
    \/ PathCallback
    \/ EmergencyStopCallback
    \/ AvoidanceActiveCallback
    \/ SpeedLimitCallback
    \/ Enable
    \/ Disable
    \/ RefuseEnable
    \/ StopLoop
    \/ DriveLoop
    \/ Tick

Spec == Init /\ [][Next]_vars
==============================================================================
