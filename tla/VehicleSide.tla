----------------------------- MODULE VehicleSide -----------------------------
(***************************************************************************)
(* The programs between a controller and the vehicle, in five deployments: *)
(* VehicleInterface in front of the simulator, alone or with an opponent,  *)
(* VehicleInterface in front of the motor, the odometry of the real car    *)
(* and its joystick.  The variables of an absent program keep their values.*)
(***************************************************************************)
EXTENDS VescToOdom

CONSTANTS
    Deployments,   \* the deployments to check
    DriveCommands, Watchdog, UseSafetyStop,
    ServoCenter, ServoGain, ServoMin, ServoMax,
    SteeringDelay, PublishPeriod, MaxPending,
    TopicDepth,    \* messages the drive topic keeps, 10 in the code
    Axes, Messages, Clients, Buttons, MaxButtons

\* The configurations the constructors accept.
ASSUME VehicleSideAssumption ==
    /\ Deployments \subseteq {"sim", "sim_opponent", "real", "odometry", "joystick"}
    /\ Watchdog \in Nat /\ SteeringDelay \in Nat /\ PublishPeriod \in Nat \ {0} /\ MaxPending \in Nat
    /\ TopicDepth \in Nat \ {0}
    /\ {ServoCenter, ServoGain, ServoMin, ServoMax} \subseteq Int
    /\ ServoMin <= ServoCenter /\ ServoCenter <= ServoMax
    /\ Buttons \in [Axes \cup Messages \cup Clients -> (SUBSET (1 .. MaxButtons)) \ {{}}]

VARIABLES
    which,     \* the deployment
    latest, commandAge, safetyStop, sent,
    driveTopic,\* messages the bridge has not handled yet, the oldest first
    acted,     \* history: since its last reset the bridge acted on more than stops
    requested, steer, pending, collision, latched, drivePublished, oppPublished,
    sincePublish, driven, reported,
    active, clientReady, served, published, calls

interfaceVars == <<latest, commandAge, safetyStop, sent>>
bridgeVars == <<requested, steer, pending, collision, latched, drivePublished,
                oppPublished, sincePublish, driven, reported>>
odometryVars == <<now, history, lastStamp, odomAngle, travelled, turned, log>>
joyVars == <<active, clientReady, served, published, calls>>
topicVars == <<driveTopic, acted>>
allVars == <<which, topicVars, interfaceVars, bridgeVars, odometryVars, joyVars>>

SimInterface == INSTANCE VehicleInterface WITH DriveMode <- "sim"
RealInterface == INSTANCE VehicleInterface WITH DriveMode <- "real"
Bridge == INSTANCE GymBridge WITH
    HasOpp <- FALSE, KbTeleop <- TRUE, StopOnCollision <- TRUE, Delay <- SteeringDelay
OpponentBridge == INSTANCE GymBridge WITH
    HasOpp <- TRUE, KbTeleop <- FALSE, StopOnCollision <- FALSE, Delay <- SteeringDelay
Joystick == INSTANCE JoyTeleop

\* Controllers stand still or drive, straight ahead or in a curve.
ASSUME DriveCommandAssumption ==
    DriveCommands \subseteq [speed : Bridge!SpeedValues, steering : Bridge!SteeringValues]

Simulated == which \in {"sim", "sim_opponent"}
Real == which = "real"

\* VehicleSide starts with one deployment.
SideInit ==
    /\ which \in Deployments
    /\ IF Real THEN RealInterface!Init ELSE SimInterface!Init
    /\ driveTopic = <<>>
    /\ acted = FALSE
    /\ Bridge!Init
    /\ Init
    /\ Joystick!Init

\* A step of one program leaves the others alone.
InterfaceStep(simStep, realStep) ==
    /\ (Simulated /\ simStep) \/ (Real /\ realStep)
    /\ UNCHANGED <<which, bridgeVars, odometryVars, joyVars>>

BridgeStep(step, opponentStep) ==
    /\ (which = "sim" /\ step) \/ (which = "sim_opponent" /\ opponentStep)
    /\ UNCHANGED <<which, interfaceVars, odometryVars, joyVars>>

Command ==
    /\ InterfaceStep(SimInterface!DriveCallback, RealInterface!DriveCallback)
    /\ UNCHANGED topicVars

SafetyTopic ==
    /\ InterfaceStep(SimInterface!SafetyCallback, RealInterface!SafetyCallback)
    /\ UNCHANGED topicVars

\* A full topic loses its oldest message.
Enqueue(topic, message) ==
    Append(IF Len(topic) < TopicDepth THEN topic ELSE Tail(topic), message)

\* The timer of the interface; the topics of the motor are not the bridge's.
PublishLoop ==
    /\ InterfaceStep(SimInterface!PublishLoop, RealInterface!PublishLoop)
    /\ driveTopic' = IF Simulated THEN Enqueue(driveTopic, sent') ELSE driveTopic
    /\ UNCHANGED acted

\* The bridge handles the oldest message of the drive topic.
Deliver ==
    /\ driveTopic # <<>>
    /\ driveTopic' = Tail(driveTopic)
    /\ BridgeStep(Bridge!DriveCallback(Head(driveTopic)) \/ Bridge!DriveCallbackLatched,
                  OpponentBridge!DriveCallback(Head(driveTopic)))
    /\ acted' = (acted \/ (~latched /\ Head(driveTopic) # SimInterface!StopCommand))

Reset ==
    /\ BridgeStep(Bridge!EgoResetCallback, OpponentBridge!EgoResetCallback)
    /\ acted' = FALSE
    /\ UNCHANGED driveTopic

Opponent ==
    /\ BridgeStep(FALSE, OpponentBridge!OppDriveCallback \/ OpponentBridge!OppResetCallback)
    /\ UNCHANGED topicVars

Teleop ==
    /\ BridgeStep(Bridge!TeleopCallback, OpponentBridge!TeleopCallback)
    /\ acted' = (acted \/ requested' # 0 \/ steer' # 0)
    /\ UNCHANGED driveTopic

DriveTimer ==
    /\ BridgeStep(Bridge!DriveTimerCallback, OpponentBridge!DriveTimerCallback)
    /\ UNCHANGED topicVars

\* Time passes for the interface and for the bridge.
SideTick ==
    /\ \/ Simulated /\ SimInterface!Tick /\ Bridge!Tick
       \/ Real /\ RealInterface!Tick /\ UNCHANGED bridgeVars
    /\ UNCHANGED <<which, topicVars, odometryVars, joyVars>>

Odometry ==
    /\ which = "odometry"
    /\ Next
    /\ UNCHANGED <<which, topicVars, interfaceVars, bridgeVars, joyVars>>

Joy ==
    /\ which = "joystick"
    /\ Joystick!Next
    /\ UNCHANGED <<which, topicVars, interfaceVars, bridgeVars, odometryVars>>

SideNext ==
    \/ Command
    \/ SafetyTopic
    \/ PublishLoop
    \/ Deliver
    \/ Reset
    \/ Opponent
    \/ Teleop
    \/ DriveTimer
    \/ SideTick
    \/ Odometry
    \/ Joy

\* The two timers run, messages arrive and time passes.
SideSpec ==
    /\ SideInit
    /\ [][SideNext]_allVars
    /\ WF_allVars(PublishLoop)
    /\ WF_allVars(Deliver)
    /\ WF_allVars(DriveTimer)
    /\ WF_allVars(SideTick)
------------------------------------------------------------------------------
(* The variables have the values the code can give them.                   *)
TypeOK ==
    /\ which \in Deployments
    /\ Len(latest) <= 1 /\ \A i \in DOMAIN latest : latest[i] \in DriveCommands
    /\ commandAge \in 0 .. Watchdog + 1
    /\ {acted, safetyStop, collision, latched, drivePublished, oppPublished,
        reported} \subseteq BOOLEAN
    /\ sent.speed \in Bridge!SpeedValues
    /\ Len(driveTopic) <= TopicDepth
    /\ \A i \in DOMAIN driveTopic : driveTopic[i].speed \in Bridge!SpeedValues
    /\ Real => sent.steering \in ServoMin .. ServoMax
    /\ requested \in Bridge!SpeedValues /\ driven \in Bridge!SpeedValues
    /\ steer \in Bridge!SteeringValues
    /\ Len(pending) <= MaxPending
    /\ \A i \in DOMAIN pending : pending[i].left \in 0 .. SteeringDelay
    /\ sincePublish \in -1 .. 2 * PublishPeriod - 1
    /\ lastStamp \in -1 .. now
    /\ {travelled, turned} \subseteq 0 .. Horizon
    /\ published \subseteq Axes \cup Messages \cup Clients

(* What the bridge had handled before a reset neither steers nor moves the *)
(* simulated car after it: steering on its way through the delay is        *)
(* forgotten with the rest, and what the car does until the next reset is  *)
(* due to a command or a Twist handled since.  A command still waiting on  *)
(* the drive topic, or kept by the interface, is not the bridge's to       *)
(* forget: it is handled after the reset like any other.                   *)
ResetForgets ==
    ~acted => /\ requested = 0 /\ steer = 0 /\ driven = 0
              /\ \A i \in DOMAIN pending : pending[i].angle = 0

(* A car that has collided is not set in motion by whatever commands are   *)
(* on their way or arrive, only by a Twist of the keyboard.                *)
LatchedStandsStill ==
    [][latched' /\ requested' # 0 => Teleop \/ (latched /\ requested # 0)]_allVars

\* Nothing moves, and only stops wait on the drive topic.
AtRest ==
    /\ sent.speed = 0 /\ requested = 0 /\ driven = 0
    /\ \A i \in DOMAIN driveTopic : driveTopic[i].speed = 0
Silent == commandAge > Watchdog \/ (UseSafetyStop /\ safetyStop)

(* A car at rest with nothing but stops waiting on the drive topic stays   *)
(* so while the controller is silent or the safety topic asks for a stop:  *)
(* no command the interface still keeps, no steering still delayed, no     *)
(* reset, no opponent sets it in motion, only a Twist of the keyboard.  A  *)
(* moving command that waits behind a busy bridge would: those are what    *)
(* StopReachesVehicle has run out first.                                   *)
StaysAtRest == [][AtRest /\ Silent => AtRest' \/ Teleop]_allVars

VehicleSpeed == IF Real THEN sent.speed ELSE driven

(* When the controller falls silent, or the safety topic keeps asking for  *)
(* a stop, the car stands still in the end, in the simulator (whatever     *)
(* resets and collisions happen) and on the real car.                      *)
StopReachesVehicle ==
    <>[](commandAge > Watchdog \/ safetyStop) /\ <>[][~Teleop]_allVars => <>[](VehicleSpeed = 0)

(* A contact that lasts is reported, although the topic has a slower grid  *)
(* than the physics.                                                       *)
CollisionReported == <>[]collision => <>[]reported

JoyOneCallPerPress == Joystick!OneCallPerPress
==============================================================================
