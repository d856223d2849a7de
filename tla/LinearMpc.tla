------------------------------ MODULE LinearMpc ------------------------------
(***************************************************************************)
(* LinearMpcNode, and NonlinearMpccNode, which replaces the solver.  The   *)
(* callbacks run one at a time (rclpy.spin).  The optimisation is the set  *)
(* of first controls its constraints admit, or a failure.                  *)
(***************************************************************************)
EXTENDS ControllerParameters

CONSTANTS
    Nonlinear,          \* the node is a NonlinearMpccNode
    SolveWhenDisabled   \* solve_when_disabled

VARIABLES
    enabled,       \* enabled
    odomAge,       \* age of current_odom; a missing one counts as expired
    pathAge,       \* age of path_points; a missing one counts as expired
    measured,      \* the speed in current_odom
    pose,          \* what TF and build_reference would yield
    stopFlag,      \* emergency_stop
    collision,     \* collision
    prevSteering,  \* previous_steering
    lastOk,        \* last_solution_ok
    failures,      \* consecutive_solver_failures
    drive          \* the last command on drive_topic

ctrlVars == <<enabled, prevSteering, lastOk, failures, drive>>
inputVars == <<odomAge, pathAge, measured, pose, stopFlag, collision>>
vars == <<ctrlVars, inputVars>>

\* The number of failures in a row that disable the controller.
MaxFailures == 3

\* The parameter enabled may start the controller at once.
Init ==
    /\ enabled \in BOOLEAN
    /\ odomAge = Expired(OdomTimeout)
    /\ pathAge = Expired(PathTimeout)
    /\ measured = 0
    /\ pose \in Poses
    /\ stopFlag = FALSE
    /\ collision = FALSE
    /\ prevSteering = 0
    /\ lastOk = FALSE
    /\ failures = 0
    /\ drive = Stop

\* readiness_problem: is there one?
ReadinessProblem ==
    \/ pathAge > PathTimeout
    \/ odomAge > OdomTimeout
    \/ collision
    \/ stopFlag

OdomCallback ==
    /\ measured' \in MeasuredSpeeds
    /\ odomAge' = 0
    /\ UNCHANGED <<ctrlVars, pathAge, pose, stopFlag, collision>>

\* A closed path of at least four points; shorter ones are ignored.
PathCallback ==
    /\ pathAge' = 0
    /\ UNCHANGED <<ctrlVars, odomAge, measured, pose, stopFlag, collision>>

CollisionCallback ==
    /\ collision' \in BOOLEAN
    /\ \/ collision' /\ enabled /\ enabled' = FALSE /\ drive' = Stop
       \/ ~(collision' /\ enabled) /\ UNCHANGED <<enabled, drive>>
    /\ UNCHANGED <<prevSteering, lastOk, failures, odomAge, pathAge, measured, pose, stopFlag>>

EmergencyStopCallback ==
    /\ stopFlag' \in BOOLEAN
    /\ drive' = IF stopFlag' THEN Stop ELSE drive
    /\ UNCHANGED <<enabled, prevSteering, lastOk, failures, odomAge, pathAge, measured,
                   pose, collision>>

\* enable_callback(false).
Disable ==
    /\ enabled' = FALSE
    /\ prevSteering' = 0
    /\ drive' = Stop
    /\ UNCHANGED <<lastOk, failures, inputVars>>

\* enable_callback(true) that succeeds; a refused one changes nothing.
Enable ==
    /\ ~ReadinessProblem
    /\ lastOk
    /\ pose = "on_path"
    /\ enabled' = TRUE
    /\ failures' = 0
    /\ UNCHANGED <<prevSteering, lastOk, drive, inputVars>>

\* control_loop with a readiness problem; the failures before it still count.
NotReadyLoop ==
    /\ ReadinessProblem
    /\ lastOk' = FALSE
    /\ drive' = Stop
    /\ UNCHANGED <<enabled, prevSteering, failures, inputVars>>

\* control_loop that is disabled and must not solve.
IdleLoop ==
    /\ ~ReadinessProblem
    /\ ~enabled
    /\ ~SolveWhenDisabled
    /\ drive' = Stop
    /\ UNCHANGED <<enabled, prevSteering, lastOk, failures, inputVars>>

Solving == ~ReadinessProblem /\ (enabled \/ SolveWhenDisabled)

\* The speeds of the second state of the horizon the constraints admit.
PredictedSpeeds ==
    {measured + acceleration : acceleration \in -AccelStep .. AccelStep}
        \cap (IF Nonlinear THEN 0 .. MaxSpeed ELSE Nat)

\* The first steering angle of the horizon.
Steerings ==
    {steering \in Angles : prevSteering - SteeringStep <= steering
                           /\ steering <= prevSteering + SteeringStep}

\* control_loop, its command_speed.
CommandSpeed(predicted) ==
    LET speed == clamp(predicted, 0, MaxSpeed)
    IN  IF 0 < speed /\ speed < MinSpeed THEN MinSpeed ELSE speed

\* What the solver may return when it succeeds.
Solutions ==
    {[speed |-> CommandSpeed(predicted), steering |-> angle] :
        predicted \in PredictedSpeeds, angle \in Steerings}

\* build_reference and solve_mpc do not fail.
MaySolve == Solving /\ pose = "on_path" /\ Solutions # {}

\* Mutant of DryRunLoop: the dry run loads the steering-rate state.
DryRunLoopPreloading ==
    /\ MaySolve
    /\ ~enabled
    /\ lastOk' = TRUE
    /\ failures' = 0
    /\ prevSteering' \in Steerings
    /\ drive' = Stop
    /\ UNCHANGED <<enabled, inputVars>>

\* control_loop while disabled: the dry run, which only proposes a command.
DryRunLoop ==
    /\ MaySolve
    /\ ~enabled
    /\ lastOk' = TRUE
    /\ failures' = 0
    /\ drive' = Stop
    /\ UNCHANGED <<enabled, prevSteering, inputVars>>

\* control_loop that drives.
DriveLoop ==
    /\ MaySolve
    /\ enabled
    /\ lastOk' = TRUE
    /\ failures' = 0
    /\ drive' \in Solutions
    /\ prevSteering' = drive'.steering
    /\ UNCHANGED <<enabled, inputVars>>

\* Mutant of FailLoop: one failure too many is tolerated.
FailLoopOneMore ==
    /\ Solving
    /\ lastOk' = FALSE
    /\ failures' = IF failures = MaxFailures THEN failures ELSE failures + 1
    /\ drive' = Stop
    /\ enabled' = (enabled /\ failures < MaxFailures)
    /\ UNCHANGED <<prevSteering, inputVars>>

\* control_loop without a pose, off the path, or whose solver fails, which it
\* may in any state; the count matters up to the third failure only.
FailLoop ==
    /\ Solving
    /\ lastOk' = FALSE
    /\ failures' = IF failures = MaxFailures THEN failures ELSE failures + 1
    /\ drive' = Stop
    /\ enabled' = (enabled /\ failures' < MaxFailures)
    /\ UNCHANGED <<prevSteering, inputVars>>

\* Time passes, and the vehicle moves relative to the path or TF comes and goes.
Tick ==
    /\ odomAge' = Older(odomAge, OdomTimeout)
    /\ pathAge' = Older(pathAge, PathTimeout)
    /\ pose' \in Poses
    /\ UNCHANGED <<ctrlVars, measured, stopFlag, collision>>

ControlLoop ==
    \/ NotReadyLoop
    \/ IdleLoop
    \/ DryRunLoop
    \/ DriveLoop
    \/ FailLoop

Next ==
    \/ OdomCallback
    \/ PathCallback
    \/ CollisionCallback
    \/ EmergencyStopCallback
    \/ Enable
    \/ Disable
    \/ ControlLoop
    \/ Tick

Spec == Init /\ [][Next]_vars
==============================================================================
