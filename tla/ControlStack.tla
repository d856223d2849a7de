----------------------------- MODULE ControlStack -----------------------------
(***************************************************************************)
(* The controller control.launch.py starts, one of five, and what all of   *)
(* them promise.  Their variables have the same names; the ones a node     *)
(* does not have keep their initial values.                                *)
(***************************************************************************)
EXTENDS ControllerParameters

CONSTANTS
    Controllers,       \* the values of the launch argument controller
    AvoidanceSpeed,    \* avoidance_speed_limit
    Grace              \* transform_fault_grace

\* What the launch file accepts.
ASSUME ControlStackAssumption ==
    /\ Controllers \subseteq {"pure_pursuit", "unicorn_l1", "forza_map", "mpc", "mpcc"}
    /\ AvoidanceSpeed \in Nat \ {0}
    /\ Grace \in Nat

VARIABLES
    which,         \* the launch argument controller
    enabled, odomAge, pathAge, measured, pose, stopFlag, collision, avoidance,
    limit, limitAge, prevSteering, prevSpeed, lastOk, faultAge, failures, drive, armed

shared == <<enabled, odomAge, pathAge, measured, pose, stopFlag, prevSteering, drive>>
vars == <<which, shared, collision, avoidance, limit, limitAge, prevSpeed, lastOk,
          faultAge, failures, armed>>

\* The subclasses are instantiated with the rarer parameters: a crash test of
\* ForzaMapNode that heeds no veto, and neither of the two with a dry run.
PurePursuitNode == INSTANCE PurePursuit
UnicornL1Node == INSTANCE UnicornL1 WITH
    StopOnCollision <- TRUE, StopOnEmergencyStop <- TRUE, SolveWhenDisabled <- TRUE
ForzaMapNode == INSTANCE UnicornL1 WITH
    StopOnCollision <- FALSE, StopOnEmergencyStop <- FALSE, SolveWhenDisabled <- FALSE
LinearMpcNode == INSTANCE LinearMpc WITH Nonlinear <- FALSE, SolveWhenDisabled <- TRUE
NonlinearMpccNode == INSTANCE LinearMpc WITH Nonlinear <- TRUE, SolveWhenDisabled <- FALSE

Init ==
    /\ which \in Controllers
    /\ PurePursuitNode!Init
    /\ UnicornL1Node!Init
    /\ LinearMpcNode!Init

\* A step of one node changes none of the variables it does not have.
PurePursuit(step) ==
    /\ which = "pure_pursuit"
    /\ step
    /\ UNCHANGED <<which, collision, lastOk, faultAge, failures>>

UnicornL1(step) ==
    /\ which = "unicorn_l1"
    /\ step
    /\ UNCHANGED <<which, failures, armed>>

ForzaMap(step) ==
    /\ which = "forza_map"
    /\ step
    /\ UNCHANGED <<which, failures, armed>>

LinearMpc(step) ==
    /\ which = "mpc"
    /\ step
    /\ UNCHANGED <<which, avoidance, limit, limitAge, prevSpeed, faultAge, armed>>

NonlinearMpcc(step) ==
    /\ which = "mpcc"
    /\ step
    /\ UNCHANGED <<which, avoidance, limit, limitAge, prevSpeed, faultAge, armed>>

PurePursuitStep == PurePursuit(PurePursuitNode!Next)
UnicornL1Step == UnicornL1(UnicornL1Node!Next)
ForzaMapStep == ForzaMap(ForzaMapNode!Next)
LinearMpcStep == LinearMpc(LinearMpcNode!Next)
NonlinearMpccStep == NonlinearMpcc(NonlinearMpccNode!Next)

Next ==
    \/ PurePursuitStep
    \/ UnicornL1Step
    \/ ForzaMapStep
    \/ LinearMpcStep
    \/ NonlinearMpccStep

\* The timer of the node, and the clock.
Loop ==
    \/ PurePursuit(PurePursuitNode!StopLoop \/ PurePursuitNode!DriveLoop)
    \/ UnicornL1(UnicornL1Node!ControlLoop)
    \/ ForzaMap(ForzaMapNode!ControlLoop)
    \/ LinearMpc(LinearMpcNode!ControlLoop)
    \/ NonlinearMpcc(NonlinearMpccNode!ControlLoop)

Clock ==
    \/ PurePursuit(PurePursuitNode!Tick)
    \/ UnicornL1(UnicornL1Node!Tick)
    \/ ForzaMap(ForzaMapNode!Tick)
    \/ LinearMpc(LinearMpcNode!Tick)
    \/ NonlinearMpcc(NonlinearMpccNode!Tick)

Spec == Init /\ [][Next]_vars
FairSpec == Spec /\ WF_vars(Loop) /\ WF_vars(Clock)
-------------------------------------------------------------------------------
(* The variables have the values the code can give them. *)
TypeOK ==
    /\ which \in Controllers
    /\ enabled \in BOOLEAN /\ stopFlag \in BOOLEAN /\ collision \in BOOLEAN
    /\ avoidance \in BOOLEAN /\ lastOk \in BOOLEAN /\ armed \in BOOLEAN
    /\ odomAge \in Ages(OdomTimeout)
    /\ pathAge \in Ages(PathTimeout)
    /\ limitAge \in Ages(LimitTimeout)
    /\ measured \in MeasuredSpeeds \cup {0}
    /\ limit \in SpeedLimits \cup {0}
    /\ pose \in Poses
    /\ prevSteering \in Angles
    /\ prevSpeed \in 0 .. CommandSpeedBound
    /\ faultAge \in -1 .. Grace + 1
    /\ failures \in 0 .. 3
    /\ drive \in Commands

Abstract == INSTANCE DriveController WITH
    enabled <- enabled,
    vetoed <- stopFlag \/ collision,
    lost <- pathAge > PathTimeout \/ odomAge > OdomTimeout \/ pose # "on_path",
    moving <- drive.speed > 0

(* Every controller moves the car only while it is enabled and not vetoed, *)
(* stops in the step that vetoes or disables it, and lets it come to rest  *)
(* when path, odometry or pose stay away: also UnicornL1, which repeats a  *)
(* command during a transform fault.                                       *)
ImplementsDriveController == Abstract!Spec

Enabling ==
    \/ PurePursuit(PurePursuitNode!Enable)
    \/ UnicornL1(UnicornL1Node!Enable)
    \/ ForzaMap(ForzaMapNode!Enable)

(* A speed limit the planner keeps announcing is obeyed in the end, even   *)
(* below min_speed, unless the operator keeps enabling the controller,     *)
(* which restarts the ramp at the measured speed.                          *)
LimitObeyed ==
    \A speed \in SpeedLimits :
        /\ <>[](avoidance /\ limitAge <= LimitTimeout /\ limit <= speed)
        /\ <>[][~Enabling]_vars
        => <>[](drive.speed <= speed)

(* Pure pursuit commands no more than one acceleration step above its last *)
(* command, whatever stopped the car in between, except in the first one   *)
(* after enabling, which starts from the measured speed.                   *)
SpeedRamps ==
    [][which = "pure_pursuit" /\ ~armed => drive'.speed <= drive.speed + AccelStep]_vars

(* While the planner's emergency stop is announced, and while disabled,    *)
(* the speed ramp of pure pursuit and Unicorn L1 stands at rest, so that   *)
(* the car cannot leap to its former speed afterwards.                     *)
StopResetsRamp == stopFlag \/ ~enabled => prevSpeed = 0

(* No MPC stays enabled after three failures in a row, dry runs between    *)
(* enabling and disabling included.                                        *)
GivesUp == enabled => failures < 3

(* The steering the rate limit starts from is one that was sent: dry runs  *)
(* of MPC, MPCC, Unicorn L1 and Forza MAP do not preload it.               *)
SteeringWasSent ==
    [][which # "pure_pursuit" /\ prevSteering' # prevSteering
        => prevSteering' = drive'.steering]_vars

(* linear_mpc_node.py:692 says that the steering state is that of the last *)
(* command actually sent, as enabling could make the steering jump         *)
(* otherwise: while MPC is disabled it is that of the stop it publishes.   *)
EnablingDoesNotJump == which = "mpc" /\ ~enabled => prevSteering = drive.steering
===============================================================================
