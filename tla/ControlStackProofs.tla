-------------------------- MODULE ControlStackProofs --------------------------
(***************************************************************************)
(* Type correctness and the safety properties of ControlStack, and that    *)
(* each step of each controller is a step of DriveController, for any      *)
(* limits, rates and timeouts.                                             *)
(***************************************************************************)
EXTENDS ControlStack, TLAPS

\* The parts of TypeOK: flags, inputs and what the control loop computes.
FlagsOK ==
    /\ which \in Controllers
    /\ enabled \in BOOLEAN /\ stopFlag \in BOOLEAN /\ collision \in BOOLEAN
    /\ avoidance \in BOOLEAN /\ lastOk \in BOOLEAN /\ armed \in BOOLEAN

InputsOK ==
    /\ odomAge \in Ages(OdomTimeout)
    /\ pathAge \in Ages(PathTimeout)
    /\ limitAge \in Ages(LimitTimeout)
    /\ measured \in MeasuredSpeeds \cup {0}
    /\ limit \in SpeedLimits \cup {0}
    /\ pose \in Poses

LimiterOK ==
    /\ prevSteering \in Angles
    /\ prevSpeed \in 0 .. CommandSpeedBound

CountersOK ==
    /\ faultAge \in -1 .. Grace + 1
    /\ failures \in 0 .. 3

\* The variables a node lacks or never uses keep their initial values.
AbsentInv ==
    /\ which = "pure_pursuit" => ~collision
    /\ which \notin {"mpc", "mpcc"} => failures = 0
    /\ which \in {"mpc", "mpcc"} => prevSpeed = 0 /\ ~avoidance

\* The ramp of pure pursuit starts from the last command, unless just enabled.
RampInv == which = "pure_pursuit" /\ ~armed => prevSpeed = drive.speed

\* The car moves only by a command that nothing has stopped since.
MovingInv == drive.speed > 0 => enabled /\ ~stopFlag /\ ~collision

StackInv ==
    /\ FlagsOK
    /\ InputsOK
    /\ LimiterOK
    /\ CountersOK
    /\ drive \in Commands
    /\ StopResetsRamp
    /\ GivesUp
    /\ AbsentInv
    /\ RampInv
    /\ MovingInv
-------------------------------------------------------------------------------
\* The stop of each node is a command of speed zero.
LEMMA StopIsCommand ==
    /\ Stop \in Commands /\ Stop.speed = 0 /\ Stop.steering = 0
    /\ PurePursuitNode!Stop = Stop
    /\ UnicornL1Node!Stop = Stop
    /\ ForzaMapNode!Stop = Stop
    /\ LinearMpcNode!Stop = Stop
    /\ NonlinearMpccNode!Stop = Stop
<1>1. 0 \in Angles /\ 0 \in 0 .. CommandSpeedBound
    BY ControllerParametersAssumption
    DEF ControllerParametersAssumption, Angles, CommandSpeedBound
<1>2. Stop = [speed |-> 0, steering |-> 0]
    BY DEF Stop
<1> QED
    BY <1>1, <1>2
    DEF Commands, PurePursuitNode!Stop, UnicornL1Node!Stop, ForzaMapNode!Stop,
        LinearMpcNode!Stop, NonlinearMpccNode!Stop

\* Initially nothing is commanded and every input counts as expired.
LEMMA InitHolds == Init => StackInv
<1> SUFFICES ASSUME Init PROVE StackInv
    OBVIOUS
<1> USE StopIsCommand, ControllerParametersAssumption, ControlStackAssumption
    DEF ControllerParametersAssumption, ControlStackAssumption, Init,
        PurePursuitNode!Init, UnicornL1Node!Init, LinearMpcNode!Init
<1>1. FlagsOK
    BY DEF FlagsOK
<1>2. InputsOK
    BY DEF InputsOK, Ages, Poses, PurePursuitNode!Poses, PurePursuitNode!Expired
<1>3. LimiterOK /\ CountersOK
    BY DEF LimiterOK, CountersOK, Angles, CommandSpeedBound, UnicornL1Node!None
<1>4. drive \in Commands
    OBVIOUS
<1>5. StopResetsRamp /\ GivesUp /\ AbsentInv /\ RampInv /\ MovingInv
    BY DEF StopResetsRamp, GivesUp, AbsentInv, RampInv, MovingInv
<1> QED
    BY <1>1, <1>2, <1>3, <1>4, <1>5 DEF StackInv

-------------------------------------------------------------------------------
\* The steps of each node keep the invariant: its control loop, then the rest.
LEMMA PurePursuitKeepsInv == StackInv /\ PurePursuitStep => StackInv'
<1> SUFFICES ASSUME StackInv, PurePursuitStep PROVE StackInv'
    OBVIOUS
<1> USE StopIsCommand, ControllerParametersAssumption, ControlStackAssumption
    DEF ControllerParametersAssumption, ControlStackAssumption, StackInv,
        PurePursuitNode!ctrlVars, PurePursuitNode!inputVars,
        PurePursuitNode!PublishStop
<1>0. /\ which = "pure_pursuit"
      /\ UNCHANGED <<which, collision, lastOk, faultAge, failures>>
      /\ PurePursuitNode!Next
    BY DEF PurePursuitStep, PurePursuit
<1> USE <1>0 DEF PurePursuitNode!Next, PurePursuitNode!OdomCallback,
    PurePursuitNode!PathCallback,
    PurePursuitNode!EmergencyStopCallback, PurePursuitNode!AvoidanceActiveCallback,
    PurePursuitNode!SpeedLimitCallback, PurePursuitNode!Enable,
    PurePursuitNode!Disable, PurePursuitNode!RefuseEnable, PurePursuitNode!StopLoop,
    PurePursuitNode!DriveLoop, PurePursuitNode!Tick
<1>1. FlagsOK'
    BY DEF FlagsOK
<1>2. InputsOK'
    BY DEF InputsOK, Ages, Poses, PurePursuitNode!Poses, PurePursuitNode!Older
<1>3. LimiterOK'
    BY DEF LimiterOK, InputsOK, CommandSpeedBound, Angles,
           PurePursuitNode!Steerings,
       PurePursuitNode!CommandSpeeds, PurePursuitNode!clamp,
       PurePursuitNode!Limited,
       PurePursuitNode!RequestedSpeeds, PurePursuitNode!RequestedSteerings,
       PurePursuitNode!Angles
<1>4. CountersOK'
    BY DEF CountersOK
<1>5. drive' \in Commands
    BY <1>3 DEF LimiterOK, Commands
<1>6. StopResetsRamp'
    BY DEF StopResetsRamp
<1>7. GivesUp'
    BY DEF GivesUp, AbsentInv
<1>8. AbsentInv'
    BY DEF AbsentInv
<1>9. RampInv'
    BY DEF RampInv
<1>10. MovingInv'
    BY DEF MovingInv, AbsentInv
<1> QED
    BY <1>1, <1>2, <1>3, <1>4, <1>5, <1>6, <1>7, <1>8, <1>9, <1>10

LEMMA UnicornL1KeepsInv == StackInv /\ UnicornL1Step => StackInv'
<1> SUFFICES ASSUME StackInv, UnicornL1Step PROVE StackInv'
    OBVIOUS
<1> USE StopIsCommand, ControllerParametersAssumption, ControlStackAssumption
    DEF ControllerParametersAssumption, ControlStackAssumption, StackInv,
        UnicornL1Node!ctrlVars, UnicornL1Node!inputVars, UnicornL1Node!Heeded,
        UnicornL1Node!Solving, UnicornL1Node!ReadinessProblem
<1>0. /\ which = "unicorn_l1"
      /\ UNCHANGED <<which, failures, armed>>
      /\ UnicornL1Node!Next
    BY DEF UnicornL1Step, UnicornL1
<1>1. CASE UnicornL1Node!ControlLoop
  <2> USE <1>0, <1>1
      DEF UnicornL1Node!ControlLoop, UnicornL1Node!NotReadyLoop,
          UnicornL1Node!IdleLoop, UnicornL1Node!DryRunLoop,
          UnicornL1Node!DriveLoop, UnicornL1Node!HoldLoop, UnicornL1Node!FaultLoop
  <2>1. FlagsOK'
    BY DEF FlagsOK
  <2>2. InputsOK'
    BY DEF InputsOK
  <2>3. LimiterOK'
    BY DEF LimiterOK, InputsOK, CommandSpeedBound, Angles, UnicornL1Node!Steerings,
       UnicornL1Node!CommandSpeeds, UnicornL1Node!clamp,
       UnicornL1Node!AvoidanceLimit,
       UnicornL1Node!WantedSpeeds, UnicornL1Node!VelocityProfile,
       UnicornL1Node!WantedSteerings, UnicornL1Node!Angles
  <2>4. CountersOK'
    BY DEF CountersOK, UnicornL1Node!FaultAge, UnicornL1Node!None
  <2>5. drive' \in Commands
    BY <2>3 DEF LimiterOK, Commands
  <2>6. StopResetsRamp'
    BY DEF StopResetsRamp
  <2>7. GivesUp'
    BY DEF GivesUp, AbsentInv
  <2>8. AbsentInv' /\ RampInv'
    BY DEF AbsentInv, RampInv
  <2>9. MovingInv'
    BY DEF MovingInv
  <2> QED
    BY <2>1, <2>2, <2>3, <2>4, <2>5, <2>6, <2>7, <2>8, <2>9
<1>2. CASE ~UnicornL1Node!ControlLoop
  <2> USE <1>0, <1>2
      DEF UnicornL1Node!Next, UnicornL1Node!OdomCallback,
          UnicornL1Node!PathCallback,
          UnicornL1Node!CollisionCallback, UnicornL1Node!EmergencyStopCallback,
          UnicornL1Node!AvoidanceActiveCallback,
          UnicornL1Node!SpeedLimitCallback, UnicornL1Node!Enable,
          UnicornL1Node!Disable, UnicornL1Node!Tick
  <2>1. FlagsOK'
    BY DEF FlagsOK
  <2>2. InputsOK'
    BY DEF InputsOK, Ages, Poses, UnicornL1Node!Poses, UnicornL1Node!Older
  <2>3. LimiterOK'
    BY DEF LimiterOK, InputsOK, CommandSpeedBound, Angles
  <2>4. CountersOK'
    BY DEF CountersOK, UnicornL1Node!None, UnicornL1Node!Older
  <2>5. drive' \in Commands
    OBVIOUS
  <2>6. StopResetsRamp'
    BY DEF StopResetsRamp
  <2>7. GivesUp'
    BY DEF GivesUp, AbsentInv
  <2>8. AbsentInv' /\ RampInv'
    BY DEF AbsentInv, RampInv
  <2>9. MovingInv'
    BY DEF MovingInv
  <2> QED
    BY <2>1, <2>2, <2>3, <2>4, <2>5, <2>6, <2>7, <2>8, <2>9
<1> QED
    BY <1>1, <1>2

LEMMA ForzaMapKeepsInv == StackInv /\ ForzaMapStep => StackInv'
<1> SUFFICES ASSUME StackInv, ForzaMapStep PROVE StackInv'
    OBVIOUS
<1> USE StopIsCommand, ControllerParametersAssumption, ControlStackAssumption
    DEF ControllerParametersAssumption, ControlStackAssumption, StackInv,
        ForzaMapNode!ctrlVars, ForzaMapNode!inputVars, ForzaMapNode!Heeded,
        ForzaMapNode!Solving, ForzaMapNode!ReadinessProblem
<1>0. /\ which = "forza_map"
      /\ UNCHANGED <<which, failures, armed>>
      /\ ForzaMapNode!Next
    BY DEF ForzaMapStep, ForzaMap
<1>1. CASE ForzaMapNode!ControlLoop
  <2> USE <1>0, <1>1
      DEF ForzaMapNode!ControlLoop, ForzaMapNode!NotReadyLoop, ForzaMapNode!IdleLoop,
          ForzaMapNode!DryRunLoop,
          ForzaMapNode!DriveLoop, ForzaMapNode!HoldLoop, ForzaMapNode!FaultLoop
  <2>1. FlagsOK'
    BY DEF FlagsOK
  <2>2. InputsOK'
    BY DEF InputsOK
  <2>3. LimiterOK'
    BY DEF LimiterOK, InputsOK, CommandSpeedBound, Angles, ForzaMapNode!Steerings,
       ForzaMapNode!CommandSpeeds, ForzaMapNode!clamp, ForzaMapNode!AvoidanceLimit,
       ForzaMapNode!WantedSpeeds, ForzaMapNode!VelocityProfile,
       ForzaMapNode!WantedSteerings, ForzaMapNode!Angles
  <2>4. CountersOK'
    BY DEF CountersOK, ForzaMapNode!FaultAge, ForzaMapNode!None
  <2>5. drive' \in Commands
    BY <2>3 DEF LimiterOK, Commands
  <2>6. StopResetsRamp'
    BY DEF StopResetsRamp
  <2>7. GivesUp'
    BY DEF GivesUp, AbsentInv
  <2>8. AbsentInv' /\ RampInv'
    BY DEF AbsentInv, RampInv
  <2>9. MovingInv'
    BY DEF MovingInv
  <2> QED
    BY <2>1, <2>2, <2>3, <2>4, <2>5, <2>6, <2>7, <2>8, <2>9
<1>2. CASE ~ForzaMapNode!ControlLoop
  <2> USE <1>0, <1>2
      DEF ForzaMapNode!Next, ForzaMapNode!OdomCallback, ForzaMapNode!PathCallback,
          ForzaMapNode!CollisionCallback, ForzaMapNode!EmergencyStopCallback,
          ForzaMapNode!AvoidanceActiveCallback,
          ForzaMapNode!SpeedLimitCallback, ForzaMapNode!Enable, ForzaMapNode!Disable,
          ForzaMapNode!Tick
  <2>1. FlagsOK'
    BY DEF FlagsOK
  <2>2. InputsOK'
    BY DEF InputsOK, Ages, Poses, ForzaMapNode!Poses, ForzaMapNode!Older
  <2>3. LimiterOK'
    BY DEF LimiterOK, InputsOK, CommandSpeedBound, Angles
  <2>4. CountersOK'
    BY DEF CountersOK, ForzaMapNode!None, ForzaMapNode!Older
  <2>5. drive' \in Commands
    OBVIOUS
  <2>6. StopResetsRamp'
    BY DEF StopResetsRamp
  <2>7. GivesUp'
    BY DEF GivesUp, AbsentInv
  <2>8. AbsentInv' /\ RampInv'
    BY DEF AbsentInv, RampInv
  <2>9. MovingInv'
    BY DEF MovingInv
  <2> QED
    BY <2>1, <2>2, <2>3, <2>4, <2>5, <2>6, <2>7, <2>8, <2>9
<1> QED
    BY <1>1, <1>2

LEMMA LinearMpcKeepsInv == StackInv /\ LinearMpcStep => StackInv'
<1> SUFFICES ASSUME StackInv, LinearMpcStep PROVE StackInv'
    OBVIOUS
<1> USE StopIsCommand, ControllerParametersAssumption, ControlStackAssumption
    DEF ControllerParametersAssumption, ControlStackAssumption, StackInv,
        LinearMpcNode!ctrlVars, LinearMpcNode!inputVars, LinearMpcNode!MaxFailures
<1>0. /\ which = "mpc"
      /\ UNCHANGED <<which, avoidance, limit, limitAge, prevSpeed, faultAge, armed>>
      /\ LinearMpcNode!Next
    BY DEF LinearMpcStep, LinearMpc
<1>a. ASSUME NEW solution \in LinearMpcNode!Solutions PROVE solution \in Commands
  <2>1. PICK predicted \in LinearMpcNode!PredictedSpeeds,
  angle \in LinearMpcNode!Steerings :
            solution = [speed |-> LinearMpcNode!CommandSpeed(predicted),
            steering |-> angle]
    BY <1>a DEF LinearMpcNode!Solutions
  <2>2. predicted \in Int
    BY DEF LinearMpcNode!PredictedSpeeds, InputsOK
  <2>3. LinearMpcNode!CommandSpeed(predicted) \in 0 .. CommandSpeedBound
    BY <2>2 DEF LinearMpcNode!CommandSpeed, LinearMpcNode!clamp, CommandSpeedBound
  <2>4. angle \in Angles
    BY DEF LinearMpcNode!Steerings, LinearMpcNode!Angles, Angles
  <2> QED
    BY <2>1, <2>3, <2>4 DEF Commands
<1> USE <1>0 DEF LinearMpcNode!Next, LinearMpcNode!ControlLoop,
    LinearMpcNode!OdomCallback, LinearMpcNode!PathCallback,
    LinearMpcNode!CollisionCallback, LinearMpcNode!EmergencyStopCallback,
    LinearMpcNode!Enable, LinearMpcNode!Disable, LinearMpcNode!NotReadyLoop,
    LinearMpcNode!IdleLoop, LinearMpcNode!DryRunLoop, LinearMpcNode!DriveLoop,
    LinearMpcNode!FailLoop, LinearMpcNode!Tick,
    LinearMpcNode!MaySolve, LinearMpcNode!Solving, LinearMpcNode!ReadinessProblem
<1>1. FlagsOK'
    BY DEF FlagsOK
<1>2. InputsOK'
    BY DEF InputsOK, Ages, Poses, LinearMpcNode!Poses, LinearMpcNode!Older
<1>3. drive' \in Commands
    BY <1>a
<1>4. LimiterOK'
    BY <1>3 DEF LimiterOK, Commands, Angles
<1>5. CountersOK'
    BY DEF CountersOK
<1>6. StopResetsRamp'
    BY DEF StopResetsRamp, AbsentInv
<1>7. GivesUp'
  <2>1. CASE LinearMpcNode!FailLoop
    BY <2>1 DEF GivesUp
  <2>2. CASE ~LinearMpcNode!FailLoop
    <3> HIDE DEF LinearMpcNode!FailLoop
    <3>1. failures' = 0 \/ (failures' = failures /\ (enabled' => enabled))
      BY <2>2
    <3> QED
      BY <3>1 DEF GivesUp
  <2> QED
    BY <2>1, <2>2
<1>8. AbsentInv'
    BY DEF AbsentInv
<1>9. RampInv'
    BY DEF RampInv
<1>10. MovingInv'
    BY DEF MovingInv
<1> QED
    BY <1>1, <1>2, <1>3, <1>4, <1>5, <1>6, <1>7, <1>8, <1>9, <1>10

LEMMA NonlinearMpccKeepsInv == StackInv /\ NonlinearMpccStep => StackInv'
<1> SUFFICES ASSUME StackInv, NonlinearMpccStep PROVE StackInv'
    OBVIOUS
<1> USE StopIsCommand, ControllerParametersAssumption, ControlStackAssumption
    DEF ControllerParametersAssumption, ControlStackAssumption, StackInv,
        NonlinearMpccNode!ctrlVars, NonlinearMpccNode!inputVars,
        NonlinearMpccNode!MaxFailures
<1>0. /\ which = "mpcc"
      /\ UNCHANGED <<which, avoidance, limit, limitAge, prevSpeed, faultAge, armed>>
      /\ NonlinearMpccNode!Next
    BY DEF NonlinearMpccStep, NonlinearMpcc
<1>a. ASSUME NEW solution \in NonlinearMpccNode!Solutions PROVE solution \in Commands
  <2>1. PICK predicted \in NonlinearMpccNode!PredictedSpeeds,
  angle \in NonlinearMpccNode!Steerings :
            solution = [speed |-> NonlinearMpccNode!CommandSpeed(predicted),
            steering |-> angle]
    BY <1>a DEF NonlinearMpccNode!Solutions
  <2>2. predicted \in Int
    BY DEF NonlinearMpccNode!PredictedSpeeds, InputsOK
  <2>3. NonlinearMpccNode!CommandSpeed(predicted) \in 0 .. CommandSpeedBound
    BY <2>2 DEF NonlinearMpccNode!CommandSpeed, NonlinearMpccNode!clamp,
       CommandSpeedBound
  <2>4. angle \in Angles
    BY DEF NonlinearMpccNode!Steerings, NonlinearMpccNode!Angles, Angles
  <2> QED
    BY <2>1, <2>3, <2>4 DEF Commands
<1> USE <1>0 DEF NonlinearMpccNode!Next, NonlinearMpccNode!ControlLoop,
    NonlinearMpccNode!OdomCallback, NonlinearMpccNode!PathCallback,
    NonlinearMpccNode!CollisionCallback, NonlinearMpccNode!EmergencyStopCallback,
    NonlinearMpccNode!Enable, NonlinearMpccNode!Disable,
    NonlinearMpccNode!NotReadyLoop,
    NonlinearMpccNode!IdleLoop, NonlinearMpccNode!DryRunLoop,
    NonlinearMpccNode!DriveLoop, NonlinearMpccNode!FailLoop, NonlinearMpccNode!Tick,
    NonlinearMpccNode!MaySolve, NonlinearMpccNode!Solving,
    NonlinearMpccNode!ReadinessProblem
<1>1. FlagsOK'
    BY DEF FlagsOK
<1>2. InputsOK'
    BY DEF InputsOK, Ages, Poses, NonlinearMpccNode!Poses, NonlinearMpccNode!Older
<1>3. drive' \in Commands
    BY <1>a
<1>4. LimiterOK'
    BY <1>3 DEF LimiterOK, Commands, Angles
<1>5. CountersOK'
    BY DEF CountersOK
<1>6. StopResetsRamp'
    BY DEF StopResetsRamp, AbsentInv
<1>7. GivesUp'
  <2>1. CASE NonlinearMpccNode!FailLoop
    BY <2>1 DEF GivesUp
  <2>2. CASE ~NonlinearMpccNode!FailLoop
    <3> HIDE DEF NonlinearMpccNode!FailLoop
    <3>1. failures' = 0 \/ (failures' = failures /\ (enabled' => enabled))
      BY <2>2
    <3> QED
      BY <3>1 DEF GivesUp
  <2> QED
    BY <2>1, <2>2
<1>8. AbsentInv'
    BY DEF AbsentInv
<1>9. RampInv'
    BY DEF RampInv
<1>10. MovingInv'
    BY DEF MovingInv
<1> QED
    BY <1>1, <1>2, <1>3, <1>4, <1>5, <1>6, <1>7, <1>8, <1>9, <1>10

LEMMA StutteringKeepsInv == StackInv /\ UNCHANGED vars => StackInv'
<1> SUFFICES ASSUME StackInv, UNCHANGED vars PROVE StackInv'
    OBVIOUS
<1> USE DEF StackInv, vars, shared
<1>1. FlagsOK' /\ InputsOK'
    BY DEF FlagsOK, InputsOK
<1>2. LimiterOK' /\ CountersOK' /\ drive' \in Commands
    BY DEF LimiterOK, CountersOK
<1>3. StopResetsRamp' /\ GivesUp' /\ AbsentInv' /\ RampInv' /\ MovingInv'
    BY DEF StopResetsRamp, GivesUp, AbsentInv, RampInv, MovingInv
<1> QED
    BY <1>1, <1>2, <1>3

THEOREM Invariant == Spec => []StackInv
<1>1. StackInv /\ [Next]_vars => StackInv'
    BY PurePursuitKeepsInv, UnicornL1KeepsInv, ForzaMapKeepsInv, LinearMpcKeepsInv,
       NonlinearMpccKeepsInv, StutteringKeepsInv DEF Next
<1> QED
    BY InitHolds, <1>1, PTL DEF Spec

(* The variables of all five controllers stay in their domains: commands    *)
(* respect the steering limit and a speed at most one acceleration step     *)
(* above what odometry can measure.                                         *)
THEOREM StackTypeCorrect == Spec => []TypeOK
<1>1. StackInv => TypeOK
    BY DEF StackInv, TypeOK, FlagsOK, InputsOK, LimiterOK, CountersOK
<1> QED
    BY <1>1, Invariant, PTL

(* While stopped or disabled, the speed ramps stand at rest.                *)
THEOREM RampsRest == Spec => []StopResetsRamp
<1>1. StackInv => StopResetsRamp
    BY DEF StackInv
<1> QED
    BY <1>1, Invariant, PTL

(* No MPC stays enabled after three failures in a row.                      *)
THEOREM ThreeFailuresDisable == Spec => []GivesUp
<1>1. StackInv => GivesUp
    BY DEF StackInv
<1> QED
    BY <1>1, Invariant, PTL

LEMMA StepRamps ==
    StackInv /\ [Next]_vars /\ which = "pure_pursuit" /\ ~armed
        => drive'.speed <= drive.speed + AccelStep
<1> SUFFICES ASSUME StackInv, [Next]_vars, which = "pure_pursuit", ~armed
             PROVE  drive'.speed <= drive.speed + AccelStep
    OBVIOUS
<1>1. /\ drive.speed \in Nat /\ prevSpeed = drive.speed /\ limit \in Int
      /\ AccelStep \in Nat /\ DecelStep \in Nat /\ MinSpeed \in Nat /\ MaxSpeed \in Nat
      /\ AccelStep > 0
    BY ControllerParametersAssumption
    DEF StackInv, RampInv, InputsOK, Commands, CommandSpeedBound,
        ControllerParametersAssumption
<1>2. CASE PurePursuitNode!DriveLoop
  <2>1. prevSpeed' <= prevSpeed + AccelStep
    BY <1>1, <1>2
    DEF PurePursuitNode!DriveLoop, PurePursuitNode!CommandSpeeds,
        PurePursuitNode!clamp,
        PurePursuitNode!Limited, PurePursuitNode!RequestedSpeeds
  <2> QED
    BY <1>1, <1>2, <2>1 DEF PurePursuitNode!DriveLoop
<1>3. CASE ~PurePursuitNode!DriveLoop
  <2>1. drive' = drive \/ drive' = Stop
    BY <1>3, StopIsCommand
    DEF vars, shared, Next, PurePursuitStep, PurePursuit, UnicornL1Step, UnicornL1,
        ForzaMapStep, ForzaMap, LinearMpcStep, LinearMpc, NonlinearMpccStep, NonlinearMpcc,
        PurePursuitNode!Next, PurePursuitNode!ctrlVars,
        PurePursuitNode!OdomCallback,
        PurePursuitNode!PathCallback, PurePursuitNode!EmergencyStopCallback,
        PurePursuitNode!AvoidanceActiveCallback, PurePursuitNode!SpeedLimitCallback,
        PurePursuitNode!Enable, PurePursuitNode!Disable,
        PurePursuitNode!RefuseEnable,
        PurePursuitNode!StopLoop, PurePursuitNode!Tick, PurePursuitNode!PublishStop
  <2> QED
    BY <1>1, <2>1, StopIsCommand
<1> QED
    BY <1>2, <1>3

(* Pure pursuit accelerates by at most one step per command, except in the  *)
(* first command after enabling.                                            *)
THEOREM CommandsRamp == Spec => SpeedRamps
<1>1. StackInv /\ [Next]_vars
        => [which = "pure_pursuit" /\ ~armed => drive'.speed <= drive.speed + AccelStep]_vars
    BY StepRamps
<1> QED
    BY <1>1, Invariant, PTL DEF Spec, SpeedRamps

\* A steering state that changes is sent; the operator may only reset it.
LEMMA UnicornL1SteersAsSent ==
    UnicornL1Step => (prevSteering' # prevSteering => prevSteering' = drive'.steering)
<1> SUFFICES ASSUME UnicornL1Step, prevSteering' # prevSteering
             PROVE  prevSteering' = drive'.steering
    OBVIOUS
<1>1. CASE UnicornL1Node!ControlLoop
    BY <1>1 DEF UnicornL1Node!ControlLoop, UnicornL1Node!NotReadyLoop,
       UnicornL1Node!IdleLoop, UnicornL1Node!DryRunLoop,
        UnicornL1Node!DriveLoop, UnicornL1Node!HoldLoop, UnicornL1Node!FaultLoop
<1>2. CASE ~UnicornL1Node!ControlLoop
  <2>1. prevSteering' = 0 /\ drive' = Stop
    BY <1>2, StopIsCommand
    DEF UnicornL1Step, UnicornL1, UnicornL1Node!Next, UnicornL1Node!ctrlVars,
        UnicornL1Node!OdomCallback, UnicornL1Node!PathCallback,
        UnicornL1Node!CollisionCallback,
        UnicornL1Node!EmergencyStopCallback, UnicornL1Node!AvoidanceActiveCallback,
        UnicornL1Node!SpeedLimitCallback,
        UnicornL1Node!Enable, UnicornL1Node!Disable, UnicornL1Node!Tick
  <2> QED
    BY <2>1, StopIsCommand
<1> QED
    BY <1>1, <1>2

LEMMA ForzaMapSteersAsSent ==
    ForzaMapStep => (prevSteering' # prevSteering => prevSteering' = drive'.steering)
<1> SUFFICES ASSUME ForzaMapStep, prevSteering' # prevSteering
             PROVE  prevSteering' = drive'.steering
    OBVIOUS
<1>1. CASE ForzaMapNode!ControlLoop
    BY <1>1 DEF ForzaMapNode!ControlLoop, ForzaMapNode!NotReadyLoop,
       ForzaMapNode!IdleLoop, ForzaMapNode!DryRunLoop,
        ForzaMapNode!DriveLoop, ForzaMapNode!HoldLoop, ForzaMapNode!FaultLoop
<1>2. CASE ~ForzaMapNode!ControlLoop
  <2>1. prevSteering' = 0 /\ drive' = Stop
    BY <1>2, StopIsCommand
    DEF ForzaMapStep, ForzaMap, ForzaMapNode!Next, ForzaMapNode!ctrlVars,
        ForzaMapNode!OdomCallback, ForzaMapNode!PathCallback,
        ForzaMapNode!CollisionCallback,
        ForzaMapNode!EmergencyStopCallback, ForzaMapNode!AvoidanceActiveCallback,
        ForzaMapNode!SpeedLimitCallback,
        ForzaMapNode!Enable, ForzaMapNode!Disable, ForzaMapNode!Tick
  <2> QED
    BY <2>1, StopIsCommand
<1> QED
    BY <1>1, <1>2

LEMMA LinearMpcSteersAsSent ==
    LinearMpcStep => (prevSteering' # prevSteering => prevSteering' = drive'.steering)
<1> SUFFICES ASSUME LinearMpcStep, prevSteering' # prevSteering
             PROVE  prevSteering' = drive'.steering
    OBVIOUS
<1>1. CASE LinearMpcNode!ControlLoop
    BY <1>1 DEF LinearMpcNode!ControlLoop, LinearMpcNode!NotReadyLoop,
       LinearMpcNode!IdleLoop, LinearMpcNode!DryRunLoop,
        LinearMpcNode!DriveLoop, LinearMpcNode!FailLoop
<1>2. CASE ~LinearMpcNode!ControlLoop
  <2>1. prevSteering' = 0 /\ drive' = Stop
    BY <1>2, StopIsCommand
    DEF LinearMpcStep, LinearMpc, LinearMpcNode!Next, LinearMpcNode!ctrlVars,
        LinearMpcNode!OdomCallback, LinearMpcNode!PathCallback,
        LinearMpcNode!CollisionCallback,
        LinearMpcNode!EmergencyStopCallback, LinearMpcNode!Enable,
        LinearMpcNode!Disable,
        LinearMpcNode!Tick
  <2> QED
    BY <2>1, StopIsCommand
<1> QED
    BY <1>1, <1>2

LEMMA NonlinearMpccSteersAsSent ==
    NonlinearMpccStep => (prevSteering' # prevSteering => prevSteering' = drive'.steering)
<1> SUFFICES ASSUME NonlinearMpccStep, prevSteering' # prevSteering
             PROVE  prevSteering' = drive'.steering
    OBVIOUS
<1>1. CASE NonlinearMpccNode!ControlLoop
    BY <1>1 DEF NonlinearMpccNode!ControlLoop, NonlinearMpccNode!NotReadyLoop,
       NonlinearMpccNode!IdleLoop, NonlinearMpccNode!DryRunLoop,
        NonlinearMpccNode!DriveLoop, NonlinearMpccNode!FailLoop
<1>2. CASE ~NonlinearMpccNode!ControlLoop
  <2>1. prevSteering' = 0 /\ drive' = Stop
    BY <1>2, StopIsCommand
    DEF NonlinearMpccStep, NonlinearMpcc, NonlinearMpccNode!Next,
        NonlinearMpccNode!ctrlVars,
        NonlinearMpccNode!OdomCallback, NonlinearMpccNode!PathCallback,
        NonlinearMpccNode!CollisionCallback,
        NonlinearMpccNode!EmergencyStopCallback, NonlinearMpccNode!Enable,
        NonlinearMpccNode!Disable,
        NonlinearMpccNode!Tick
  <2> QED
    BY <2>1, StopIsCommand
<1> QED
    BY <1>1, <1>2

(* The steering the rate limit starts from changes only to one that is      *)
(* sent in the same step, in every controller but pure pursuit.             *)
THEOREM SteeringIsSent == Spec => SteeringWasSent
<1>1. [Next]_vars => [which # "pure_pursuit" /\ prevSteering' # prevSteering
                        => prevSteering' = drive'.steering]_vars
    BY UnicornL1SteersAsSent, ForzaMapSteersAsSent, LinearMpcSteersAsSent,
       NonlinearMpccSteersAsSent DEF Next, PurePursuitStep, PurePursuit
<1> QED
    BY <1>1, PTL DEF Spec, SteeringWasSent
-------------------------------------------------------------------------------
\* What the steps of all controllers look like to DriveController.
sensors == <<odomAge, pathAge, pose>>

Observes == UNCHANGED <<enabled, stopFlag, collision, drive>>
Drives ==
    /\ enabled /\ ~stopFlag /\ ~collision
    /\ UNCHANGED <<enabled, stopFlag, collision, sensors>>
Stops ==
    /\ enabled' = enabled \/ enabled' = FALSE
    /\ ~(drive'.speed > 0)
    /\ UNCHANGED <<stopFlag, collision, sensors>>
Enables ==
    /\ ~stopFlag /\ ~collision
    /\ enabled' = TRUE
    /\ UNCHANGED <<stopFlag, collision, sensors, drive>>
Vetoes ==
    /\ stopFlag' \/ collision'
    /\ enabled' = enabled \/ enabled' = FALSE
    /\ ~(drive'.speed > 0)
    /\ UNCHANGED sensors
Clears ==
    /\ ~stopFlag' /\ ~collision'
    /\ UNCHANGED <<enabled, sensors, drive>>

ControllerStep ==
    Observes \/ Drives \/ Stops \/ Enables \/ Vetoes \/ Clears

\* Each kind of step is an action of DriveController, or changes nothing it sees.
LEMMA StepIsAbstract ==
    ASSUME enabled \in BOOLEAN, ControllerStep
    PROVE  [Abstract!Next]_(Abstract!vars)
<1> DEFINE vetoed == stopFlag \/ collision
           lost == pathAge > PathTimeout \/ odomAge > OdomTimeout \/ pose # "on_path"
           moving == drive.speed > 0
<1>1. CASE Observes
  <2>1. UNCHANGED <<enabled, vetoed, moving>>
    BY <1>1 DEF Observes
  <2>2. lost' = lost \/ lost' = ~lost
    OBVIOUS
  <2>3. Abstract!InputsChange \/ UNCHANGED <<enabled, vetoed, lost, moving>>
    BY <2>1, <2>2, Zenon DEF Abstract!InputsChange
  <2> QED
    BY <2>3 DEF Abstract!Next, Abstract!vars
<1>2. CASE Drives
  <2>1. enabled /\ ~vetoed /\ UNCHANGED <<enabled, vetoed, lost>>
    BY <1>2 DEF Drives, sensors
  <2>2. moving' = TRUE \/ moving' = FALSE
    OBVIOUS
  <2>3. Abstract!Move \/ Abstract!Halt
    BY <2>1, <2>2, Zenon DEF Abstract!Move, Abstract!Halt
  <2> QED
    BY <2>3 DEF Abstract!Next
<1>3. CASE Stops
  <2>1. UNCHANGED <<vetoed, lost>>
    BY <1>3 DEF Stops, sensors
  <2>2. moving' = FALSE
    BY <1>3 DEF Stops
  <2>3. enabled' = enabled \/ enabled' = FALSE
    BY <1>3 DEF Stops
  <2>4. Abstract!Disable \/ Abstract!Halt
    BY <2>1, <2>2, <2>3, Zenon DEF Abstract!Disable, Abstract!Halt
  <2> QED
    BY <2>4 DEF Abstract!Next
<1>4. CASE Enables
  <2>1. ~vetoed /\ enabled' = TRUE /\ UNCHANGED <<vetoed, lost, moving>>
    BY <1>4 DEF Enables, sensors
  <2>2. Abstract!Enable
    BY <2>1, Zenon DEF Abstract!Enable
  <2> QED
    BY <2>2 DEF Abstract!Next
<1>5. CASE Vetoes
  <2>1. vetoed' = TRUE
    BY <1>5 DEF Vetoes
  <2>2. moving' = FALSE
    BY <1>5 DEF Vetoes
  <2>3. enabled' = enabled \/ enabled' = FALSE
    BY <1>5 DEF Vetoes
  <2>4. UNCHANGED lost
    BY <1>5 DEF Vetoes, sensors
  <2>5. Abstract!Veto
    BY <2>1, <2>2, <2>3, <2>4, Zenon DEF Abstract!Veto
  <2> QED
    BY <2>5 DEF Abstract!Next
<1>6. CASE Clears
  <2>1. vetoed' = FALSE /\ UNCHANGED <<enabled, lost, moving>>
    BY <1>6 DEF Clears, sensors
  <2>2. Abstract!Clear
    BY <2>1, Zenon DEF Abstract!Clear
  <2> QED
    BY <2>2 DEF Abstract!Next
<1> QED
    BY <1>1, <1>2, <1>3, <1>4, <1>5, <1>6 DEF ControllerStep

\* Every action of each node is one of the kinds above.
LEMMA PurePursuitIsController == StackInv /\ PurePursuitStep => ControllerStep
<1> SUFFICES ASSUME StackInv, PurePursuitStep PROVE ControllerStep
    OBVIOUS
<1> USE StopIsCommand DEF StackInv, FlagsOK, MovingInv, AbsentInv, sensors, ControllerStep,
    PurePursuitNode!ctrlVars, PurePursuitNode!inputVars
<1>0. /\ which = "pure_pursuit"
      /\ UNCHANGED <<which, collision, lastOk, faultAge, failures>>
      /\ PurePursuitNode!Next
    BY DEF PurePursuitStep, PurePursuit
<1>1. CASE PurePursuitNode!OdomCallback \/ PurePursuitNode!PathCallback \/
          PurePursuitNode!AvoidanceActiveCallback \/ PurePursuitNode!SpeedLimitCallback \/
          PurePursuitNode!Tick
    BY <1>0, <1>1
    DEF Observes, PurePursuitNode!OdomCallback, PurePursuitNode!PathCallback,
        PurePursuitNode!AvoidanceActiveCallback, PurePursuitNode!SpeedLimitCallback,
        PurePursuitNode!Tick
<1>2. CASE PurePursuitNode!EmergencyStopCallback
    BY <1>0, <1>2
    DEF Vetoes, Clears, PurePursuitNode!PublishStop,
        PurePursuitNode!EmergencyStopCallback
<1>3. CASE PurePursuitNode!Disable \/ PurePursuitNode!RefuseEnable \/
          PurePursuitNode!StopLoop
    BY <1>0, <1>3
    DEF Stops, PurePursuitNode!PublishStop, PurePursuitNode!Disable,
        PurePursuitNode!RefuseEnable, PurePursuitNode!StopLoop
<1>4. CASE PurePursuitNode!Enable
    BY <1>0, <1>4
    DEF Enables, PurePursuitNode!Enable
<1>5. CASE PurePursuitNode!DriveLoop
    BY <1>0, <1>5
    DEF Drives, PurePursuitNode!DriveLoop
<1> QED
    BY <1>0, <1>1, <1>2, <1>3, <1>4, <1>5 DEF PurePursuitNode!Next

LEMMA UnicornL1IsController == StackInv /\ UnicornL1Step => ControllerStep
<1> SUFFICES ASSUME StackInv, UnicornL1Step PROVE ControllerStep
    OBVIOUS
<1> USE StopIsCommand DEF StackInv, FlagsOK, MovingInv, AbsentInv, sensors, ControllerStep,
    UnicornL1Node!ctrlVars, UnicornL1Node!inputVars
<1>0. /\ which = "unicorn_l1"
      /\ UNCHANGED <<which, failures, armed>>
      /\ UnicornL1Node!Next
    BY DEF UnicornL1Step, UnicornL1
<1>1. CASE UnicornL1Node!OdomCallback \/ UnicornL1Node!PathCallback \/
          UnicornL1Node!AvoidanceActiveCallback \/ UnicornL1Node!SpeedLimitCallback \/
          UnicornL1Node!Tick
    BY <1>0, <1>1
    DEF Observes, UnicornL1Node!OdomCallback, UnicornL1Node!PathCallback,
        UnicornL1Node!AvoidanceActiveCallback, UnicornL1Node!SpeedLimitCallback,
        UnicornL1Node!Tick
<1>2. CASE UnicornL1Node!CollisionCallback
    BY <1>0, <1>2
    DEF Vetoes, Clears, UnicornL1Node!Heeded,
        UnicornL1Node!CollisionCallback
<1>3. CASE UnicornL1Node!EmergencyStopCallback
    BY <1>0, <1>3
    DEF Vetoes, Clears, UnicornL1Node!Heeded,
        UnicornL1Node!EmergencyStopCallback
<1>4. CASE UnicornL1Node!Disable \/ UnicornL1Node!NotReadyLoop \/
          UnicornL1Node!IdleLoop \/ UnicornL1Node!DryRunLoop \/
          UnicornL1Node!FaultLoop
    BY <1>0, <1>4
    DEF Stops, UnicornL1Node!Disable, UnicornL1Node!NotReadyLoop,
        UnicornL1Node!IdleLoop, UnicornL1Node!DryRunLoop, UnicornL1Node!FaultLoop
<1>5. CASE UnicornL1Node!Enable
    BY <1>0, <1>5
    DEF Enables, UnicornL1Node!ReadinessProblem, UnicornL1Node!Enable
<1>6. CASE UnicornL1Node!DriveLoop \/ UnicornL1Node!HoldLoop
    BY <1>0, <1>6
    DEF Drives, UnicornL1Node!Solving, UnicornL1Node!ReadinessProblem,
        UnicornL1Node!DriveLoop, UnicornL1Node!HoldLoop
<1> QED
    BY <1>0, <1>1, <1>2, <1>3, <1>4, <1>5, <1>6 DEF UnicornL1Node!Next,
       UnicornL1Node!ControlLoop

LEMMA ForzaMapIsController == StackInv /\ ForzaMapStep => ControllerStep
<1> SUFFICES ASSUME StackInv, ForzaMapStep PROVE ControllerStep
    OBVIOUS
<1> USE StopIsCommand DEF StackInv, FlagsOK, MovingInv, AbsentInv, sensors, ControllerStep,
    ForzaMapNode!ctrlVars, ForzaMapNode!inputVars
<1>0. /\ which = "forza_map"
      /\ UNCHANGED <<which, failures, armed>>
      /\ ForzaMapNode!Next
    BY DEF ForzaMapStep, ForzaMap
<1>1. CASE ForzaMapNode!OdomCallback \/ ForzaMapNode!PathCallback \/
          ForzaMapNode!AvoidanceActiveCallback \/ ForzaMapNode!SpeedLimitCallback \/
          ForzaMapNode!Tick
    BY <1>0, <1>1
    DEF Observes, ForzaMapNode!OdomCallback, ForzaMapNode!PathCallback,
        ForzaMapNode!AvoidanceActiveCallback, ForzaMapNode!SpeedLimitCallback,
        ForzaMapNode!Tick
<1>2. CASE ForzaMapNode!CollisionCallback
    BY <1>0, <1>2
    DEF Vetoes, Clears, ForzaMapNode!Heeded,
        ForzaMapNode!CollisionCallback
<1>3. CASE ForzaMapNode!EmergencyStopCallback
    BY <1>0, <1>3
    DEF Vetoes, Clears, ForzaMapNode!Heeded,
        ForzaMapNode!EmergencyStopCallback
<1>4. CASE ForzaMapNode!Disable \/ ForzaMapNode!NotReadyLoop \/
          ForzaMapNode!IdleLoop \/ ForzaMapNode!DryRunLoop \/
          ForzaMapNode!FaultLoop
    BY <1>0, <1>4
    DEF Stops, ForzaMapNode!Disable, ForzaMapNode!NotReadyLoop,
        ForzaMapNode!IdleLoop, ForzaMapNode!DryRunLoop, ForzaMapNode!FaultLoop
<1>5. CASE ForzaMapNode!Enable
    BY <1>0, <1>5
    DEF Enables, ForzaMapNode!ReadinessProblem, ForzaMapNode!Enable
<1>6. CASE ForzaMapNode!DriveLoop \/ ForzaMapNode!HoldLoop
    BY <1>0, <1>6
    DEF Drives, ForzaMapNode!Solving, ForzaMapNode!ReadinessProblem,
        ForzaMapNode!DriveLoop, ForzaMapNode!HoldLoop
<1> QED
    BY <1>0, <1>1, <1>2, <1>3, <1>4, <1>5, <1>6 DEF ForzaMapNode!Next,
       ForzaMapNode!ControlLoop

LEMMA LinearMpcIsController == StackInv /\ LinearMpcStep => ControllerStep
<1> SUFFICES ASSUME StackInv, LinearMpcStep PROVE ControllerStep
    OBVIOUS
<1> USE StopIsCommand DEF StackInv, FlagsOK, MovingInv, AbsentInv, sensors, ControllerStep,
    LinearMpcNode!ctrlVars, LinearMpcNode!inputVars
<1>0. /\ which = "mpc"
      /\ UNCHANGED <<which, avoidance, limit, limitAge, prevSpeed, faultAge, armed>>
      /\ LinearMpcNode!Next
    BY DEF LinearMpcStep, LinearMpc
<1>1. CASE LinearMpcNode!OdomCallback \/ LinearMpcNode!PathCallback \/
          LinearMpcNode!Tick
    BY <1>0, <1>1
    DEF Observes, LinearMpcNode!OdomCallback, LinearMpcNode!PathCallback,
        LinearMpcNode!Tick
<1>2. CASE LinearMpcNode!CollisionCallback
    BY <1>0, <1>2
    DEF Vetoes, Clears, LinearMpcNode!CollisionCallback
<1>3. CASE LinearMpcNode!EmergencyStopCallback
    BY <1>0, <1>3
    DEF Vetoes, Clears, LinearMpcNode!EmergencyStopCallback
<1>4. CASE LinearMpcNode!Disable \/ LinearMpcNode!NotReadyLoop \/
          LinearMpcNode!IdleLoop \/ LinearMpcNode!DryRunLoop
    BY <1>0, <1>4
    DEF Stops, LinearMpcNode!Disable, LinearMpcNode!NotReadyLoop,
        LinearMpcNode!IdleLoop, LinearMpcNode!DryRunLoop
<1>5. CASE LinearMpcNode!FailLoop
  <2>1. ~(drive'.speed > 0) /\ UNCHANGED <<stopFlag, collision, sensors>>
    BY <1>5 DEF LinearMpcNode!FailLoop
  <2>2. enabled' = enabled \/ enabled' = FALSE
    BY <1>5, Zenon DEF LinearMpcNode!FailLoop, FlagsOK
  <2> QED
    BY <2>1, <2>2 DEF Stops
<1>6. CASE LinearMpcNode!Enable
    BY <1>0, <1>6
    DEF Enables, LinearMpcNode!ReadinessProblem, LinearMpcNode!Enable
<1>7. CASE LinearMpcNode!DriveLoop
    BY <1>0, <1>7
    DEF Drives, LinearMpcNode!MaySolve, LinearMpcNode!Solving,
        LinearMpcNode!ReadinessProblem, LinearMpcNode!DriveLoop
<1> QED
    BY <1>0, <1>1, <1>2, <1>3, <1>4, <1>5, <1>6, <1>7 DEF LinearMpcNode!Next,
       LinearMpcNode!ControlLoop

LEMMA NonlinearMpccIsController == StackInv /\ NonlinearMpccStep => ControllerStep
<1> SUFFICES ASSUME StackInv, NonlinearMpccStep PROVE ControllerStep
    OBVIOUS
<1> USE StopIsCommand DEF StackInv, FlagsOK, MovingInv, AbsentInv, sensors, ControllerStep,
    NonlinearMpccNode!ctrlVars, NonlinearMpccNode!inputVars
<1>0. /\ which = "mpcc"
      /\ UNCHANGED <<which, avoidance, limit, limitAge, prevSpeed, faultAge, armed>>
      /\ NonlinearMpccNode!Next
    BY DEF NonlinearMpccStep, NonlinearMpcc
<1>1. CASE NonlinearMpccNode!OdomCallback \/ NonlinearMpccNode!PathCallback \/
          NonlinearMpccNode!Tick
    BY <1>0, <1>1
    DEF Observes, NonlinearMpccNode!OdomCallback, NonlinearMpccNode!PathCallback,
        NonlinearMpccNode!Tick
<1>2. CASE NonlinearMpccNode!CollisionCallback
    BY <1>0, <1>2
    DEF Vetoes, Clears, NonlinearMpccNode!CollisionCallback
<1>3. CASE NonlinearMpccNode!EmergencyStopCallback
    BY <1>0, <1>3
    DEF Vetoes, Clears, NonlinearMpccNode!EmergencyStopCallback
<1>4. CASE NonlinearMpccNode!Disable \/ NonlinearMpccNode!NotReadyLoop \/
          NonlinearMpccNode!IdleLoop \/ NonlinearMpccNode!DryRunLoop
    BY <1>0, <1>4
    DEF Stops, NonlinearMpccNode!Disable, NonlinearMpccNode!NotReadyLoop,
        NonlinearMpccNode!IdleLoop, NonlinearMpccNode!DryRunLoop
<1>5. CASE NonlinearMpccNode!FailLoop
  <2>1. ~(drive'.speed > 0) /\ UNCHANGED <<stopFlag, collision, sensors>>
    BY <1>5 DEF NonlinearMpccNode!FailLoop
  <2>2. enabled' = enabled \/ enabled' = FALSE
    BY <1>5, Zenon DEF NonlinearMpccNode!FailLoop, FlagsOK
  <2> QED
    BY <2>1, <2>2 DEF Stops
<1>6. CASE NonlinearMpccNode!Enable
    BY <1>0, <1>6
    DEF Enables, NonlinearMpccNode!ReadinessProblem, NonlinearMpccNode!Enable
<1>7. CASE NonlinearMpccNode!DriveLoop
    BY <1>0, <1>7
    DEF Drives, NonlinearMpccNode!MaySolve, NonlinearMpccNode!Solving,
        NonlinearMpccNode!ReadinessProblem, NonlinearMpccNode!DriveLoop
<1> QED
    BY <1>0, <1>1, <1>2, <1>3, <1>4, <1>5, <1>6, <1>7 DEF NonlinearMpccNode!Next,
       NonlinearMpccNode!ControlLoop

LEMMA InitIsAbstract == Init => Abstract!Init
<1> SUFFICES ASSUME Init PROVE Abstract!Init
    OBVIOUS
<1>1. enabled \in BOOLEAN /\ ~stopFlag /\ ~collision
    BY DEF Init, PurePursuitNode!Init, UnicornL1Node!Init
<1>2. (pathAge > PathTimeout \/ odomAge > OdomTimeout \/ pose # "on_path") \in BOOLEAN
    OBVIOUS
<1>3. ~(drive.speed > 0)
    BY StopIsCommand DEF Init, PurePursuitNode!Init
<1> QED
    BY <1>1, <1>2, <1>3 DEF Abstract!Init

(* Every controller moves the car only while enabled and not vetoed, and    *)
(* stops it in the step that vetoes or disables it: each of its steps is a  *)
(* step of DriveController or a stutter.  This is the safety part of        *)
(* ImplementsDriveController.                                               *)
THEOREM StepsImplementDriveController ==
    Spec => Abstract!Init /\ [][Abstract!Next]_(Abstract!vars)
<1>1. StackInv /\ [Next]_vars => [Abstract!Next]_(Abstract!vars)
  <2> SUFFICES ASSUME StackInv, [Next]_vars PROVE [Abstract!Next]_(Abstract!vars)
    OBVIOUS
  <2>1. CASE Next
    <3>1. ControllerStep
      BY <2>1, PurePursuitIsController, UnicornL1IsController, ForzaMapIsController,
         LinearMpcIsController, NonlinearMpccIsController DEF Next
    <3> QED
      BY <3>1, StepIsAbstract DEF StackInv, FlagsOK
  <2>2. CASE UNCHANGED vars
    BY <2>2 DEF vars, shared, Abstract!vars
  <2> QED
    BY <2>1, <2>2
<1> QED
    BY InitIsAbstract, Invariant, <1>1, PTL DEF Spec
-------------------------------------------------------------------------------
(* The planner's speed limit: why LimitObeyed holds.                       *)

\* A limit of at most this speed counts.
Limiting(speed) == avoidance /\ limitAge <= LimitTimeout /\ limit <= speed

\* The control loops that follow the path; the MPC nodes have no limit.
Following ==
    \/ PurePursuit(PurePursuitNode!DriveLoop)
    \/ UnicornL1(UnicornL1Node!DriveLoop)
    \/ ForzaMap(ForzaMapNode!DriveLoop)

\* The ramp does not rise above the limit, a loop that follows the path takes
\* it a step down, and no command is faster than the ramp or the one before.
Falls(speed) ==
    /\ prevSpeed' <= speed \/ prevSpeed' <= prevSpeed
    /\ drive'.speed \in {drive.speed, 0, prevSpeed'}
    /\ Following => /\ drive'.speed = prevSpeed'
                    /\ prevSpeed' <= speed \/ prevSpeed' <= prevSpeed - DecelStep

\* The rate limit towards a speed within the limit.
LEMMA RateLimitFalls ==
    ASSUME NEW speed \in Nat, NEW wanted \in Nat, wanted <= speed, prevSpeed \in Nat,
           NEW next, next = clamp(wanted,
                                  IF prevSpeed > DecelStep THEN prevSpeed - DecelStep ELSE 0,
                                  prevSpeed + AccelStep)
    PROVE  next \in Nat /\ (next <= speed \/ next <= prevSpeed - DecelStep)
    BY ControllerParametersAssumption DEF clamp

\* The limits and the state they meet are numbers.
LEMMA LimitTypes ==
    ASSUME StackInv, NEW speed \in SpeedLimits
    PROVE  /\ speed \in Nat /\ limit \in Nat /\ prevSpeed \in Nat /\ drive.speed \in Nat
           /\ MinSpeed \in Nat /\ MaxSpeed \in Nat /\ DecelStep \in Nat /\ DecelStep > 0
           /\ AvoidanceSpeed \in Nat
    BY ControllerParametersAssumption, ControlStackAssumption
    DEF StackInv, InputsOK, LimiterOK, Commands, CommandSpeedBound

LEMMA PurePursuitFalls ==
    ASSUME StackInv, PurePursuitStep, NEW speed \in SpeedLimits, Limiting(speed), ~Enabling
    PROVE  Falls(speed)
<1>1. which = "pure_pursuit" /\ PurePursuitNode!Next /\ ~PurePursuitNode!Enable
      /\ UNCHANGED <<which, collision, lastOk, faultAge, failures>>
    BY DEF PurePursuitStep, PurePursuit, Enabling
<1>2. CASE PurePursuitNode!DriveLoop
  <2>1. PICK requested \in PurePursuitNode!RequestedSpeeds :
            prevSpeed' = PurePursuitNode!clamp(PurePursuitNode!Limited(requested),
                             IF prevSpeed > DecelStep THEN prevSpeed - DecelStep ELSE 0,
                             prevSpeed + AccelStep)
    BY <1>2 DEF PurePursuitNode!DriveLoop, PurePursuitNode!CommandSpeeds
  <2>2. requested \in Nat
    BY LimitTypes DEF PurePursuitNode!RequestedSpeeds
  <2>3. PurePursuitNode!Limited(requested) \in Nat /\ PurePursuitNode!Limited(requested) <= speed
    BY <2>2, LimitTypes DEF PurePursuitNode!Limited, Limiting
  <2>4. prevSpeed' \in Nat /\ (prevSpeed' <= speed \/ prevSpeed' <= prevSpeed - DecelStep)
    BY <2>1, <2>3, LimitTypes, RateLimitFalls DEF PurePursuitNode!clamp, clamp
  <2>5. drive'.speed = prevSpeed'
    BY <1>2 DEF PurePursuitNode!DriveLoop
  <2> QED
    BY <2>4, <2>5, LimitTypes DEF Falls
<1>3. CASE ~PurePursuitNode!DriveLoop
  <2>1. prevSpeed' \in {prevSpeed, 0} /\ drive' \in {drive, Stop}
    BY <1>1, <1>3, StopIsCommand
    DEF PurePursuitNode!Next, PurePursuitNode!OdomCallback, PurePursuitNode!PathCallback,
        PurePursuitNode!EmergencyStopCallback, PurePursuitNode!AvoidanceActiveCallback,
        PurePursuitNode!SpeedLimitCallback, PurePursuitNode!Disable,
        PurePursuitNode!RefuseEnable, PurePursuitNode!StopLoop, PurePursuitNode!Tick,
        PurePursuitNode!PublishStop, PurePursuitNode!ctrlVars
  <2>2. ~Following
    BY <1>1, <1>3 DEF Following, PurePursuit, UnicornL1, ForzaMap
  <2> QED
    BY <2>1, <2>2, LimitTypes, StopIsCommand DEF Falls
<1> QED
    BY <1>2, <1>3

LEMMA UnicornL1Falls ==
    ASSUME StackInv, UnicornL1Step, NEW speed \in SpeedLimits, Limiting(speed), ~Enabling
    PROVE  Falls(speed)
<1>1. which = "unicorn_l1" /\ UnicornL1Node!Next /\ ~UnicornL1Node!Enable
      /\ UNCHANGED <<which, failures, armed>>
    BY DEF UnicornL1Step, UnicornL1, Enabling
<1>2. CASE UnicornL1Node!DriveLoop
  <2>1. PICK command \in UnicornL1Node!CommandSpeeds :
            prevSpeed' = UnicornL1Node!clamp(command,
                             IF prevSpeed > DecelStep THEN prevSpeed - DecelStep ELSE 0,
                             prevSpeed + AccelStep)
    BY <1>2 DEF UnicornL1Node!DriveLoop
  <2>2. UnicornL1Node!AvoidanceLimit \in Nat /\ UnicornL1Node!AvoidanceLimit <= speed
    BY LimitTypes DEF UnicornL1Node!AvoidanceLimit, Limiting
  <2>3. command \in Nat /\ command <= speed
    <3>1. PICK wanted \in UnicornL1Node!WantedSpeeds :
              command = IF avoidance /\ UnicornL1Node!AvoidanceLimit < wanted
                        THEN UnicornL1Node!AvoidanceLimit ELSE wanted
      BY DEF UnicornL1Node!CommandSpeeds
    <3>2. wanted \in Nat
      BY LimitTypes DEF UnicornL1Node!WantedSpeeds, UnicornL1Node!VelocityProfile
    <3> QED
      BY <2>2, <3>1, <3>2, LimitTypes DEF Limiting
  <2>4. prevSpeed' \in Nat /\ (prevSpeed' <= speed \/ prevSpeed' <= prevSpeed - DecelStep)
    BY <2>1, <2>3, LimitTypes, RateLimitFalls DEF UnicornL1Node!clamp, clamp
  <2>5. drive'.speed = prevSpeed'
    BY <1>2 DEF UnicornL1Node!DriveLoop
  <2> QED
    BY <2>4, <2>5, LimitTypes DEF Falls
<1>3. CASE ~UnicornL1Node!DriveLoop
  <2>1. /\ prevSpeed' \in {prevSpeed, 0}
        /\ drive' \in {drive, Stop} \/ (drive'.speed = prevSpeed /\ prevSpeed' = prevSpeed)
    <3>1. CASE UnicornL1Node!ControlLoop
      BY <1>3, <3>1, StopIsCommand
      DEF UnicornL1Node!ControlLoop, UnicornL1Node!NotReadyLoop, UnicornL1Node!IdleLoop,
          UnicornL1Node!DryRunLoop, UnicornL1Node!HoldLoop, UnicornL1Node!FaultLoop
    <3>2. CASE UnicornL1Node!CollisionCallback \/ UnicornL1Node!EmergencyStopCallback
      BY <3>2, StopIsCommand DEF UnicornL1Node!CollisionCallback,
                                 UnicornL1Node!EmergencyStopCallback
    <3>3. CASE ~(UnicornL1Node!ControlLoop \/ UnicornL1Node!CollisionCallback
                  \/ UnicornL1Node!EmergencyStopCallback)
      BY <1>1, <3>3, StopIsCommand
      DEF UnicornL1Node!Next, UnicornL1Node!OdomCallback, UnicornL1Node!PathCallback,
          UnicornL1Node!AvoidanceActiveCallback, UnicornL1Node!SpeedLimitCallback,
          UnicornL1Node!Disable, UnicornL1Node!Tick, UnicornL1Node!ctrlVars
    <3> QED
      BY <3>1, <3>2, <3>3
  <2>2. ~Following
    BY <1>1, <1>3 DEF Following, PurePursuit, UnicornL1, ForzaMap
  <2> QED
    BY <2>1, <2>2, LimitTypes, StopIsCommand DEF Falls
<1> QED
    BY <1>2, <1>3

LEMMA ForzaMapFalls ==
    ASSUME StackInv, ForzaMapStep, NEW speed \in SpeedLimits, Limiting(speed), ~Enabling
    PROVE  Falls(speed)
<1>1. which = "forza_map" /\ ForzaMapNode!Next /\ ~ForzaMapNode!Enable
      /\ UNCHANGED <<which, failures, armed>>
    BY DEF ForzaMapStep, ForzaMap, Enabling
<1>2. CASE ForzaMapNode!DriveLoop
  <2>1. PICK command \in ForzaMapNode!CommandSpeeds :
            prevSpeed' = ForzaMapNode!clamp(command,
                             IF prevSpeed > DecelStep THEN prevSpeed - DecelStep ELSE 0,
                             prevSpeed + AccelStep)
    BY <1>2 DEF ForzaMapNode!DriveLoop
  <2>2. ForzaMapNode!AvoidanceLimit \in Nat /\ ForzaMapNode!AvoidanceLimit <= speed
    BY LimitTypes DEF ForzaMapNode!AvoidanceLimit, Limiting
  <2>3. command \in Nat /\ command <= speed
    <3>1. PICK wanted \in ForzaMapNode!WantedSpeeds :
              command = IF avoidance /\ ForzaMapNode!AvoidanceLimit < wanted
                        THEN ForzaMapNode!AvoidanceLimit ELSE wanted
      BY DEF ForzaMapNode!CommandSpeeds
    <3>2. wanted \in Nat
      BY LimitTypes DEF ForzaMapNode!WantedSpeeds, ForzaMapNode!VelocityProfile
    <3> QED
      BY <2>2, <3>1, <3>2, LimitTypes DEF Limiting
  <2>4. prevSpeed' \in Nat /\ (prevSpeed' <= speed \/ prevSpeed' <= prevSpeed - DecelStep)
    BY <2>1, <2>3, LimitTypes, RateLimitFalls DEF ForzaMapNode!clamp, clamp
  <2>5. drive'.speed = prevSpeed'
    BY <1>2 DEF ForzaMapNode!DriveLoop
  <2> QED
    BY <2>4, <2>5, LimitTypes DEF Falls
<1>3. CASE ~ForzaMapNode!DriveLoop
  <2>1. /\ prevSpeed' \in {prevSpeed, 0}
        /\ drive' \in {drive, Stop} \/ (drive'.speed = prevSpeed /\ prevSpeed' = prevSpeed)
    <3>1. CASE ForzaMapNode!ControlLoop
      BY <1>3, <3>1, StopIsCommand
      DEF ForzaMapNode!ControlLoop, ForzaMapNode!NotReadyLoop, ForzaMapNode!IdleLoop,
          ForzaMapNode!DryRunLoop, ForzaMapNode!HoldLoop, ForzaMapNode!FaultLoop
    <3>2. CASE ForzaMapNode!CollisionCallback \/ ForzaMapNode!EmergencyStopCallback
      BY <3>2, StopIsCommand DEF ForzaMapNode!CollisionCallback,
                                 ForzaMapNode!EmergencyStopCallback
    <3>3. CASE ~(ForzaMapNode!ControlLoop \/ ForzaMapNode!CollisionCallback
                  \/ ForzaMapNode!EmergencyStopCallback)
      BY <1>1, <3>3, StopIsCommand
      DEF ForzaMapNode!Next, ForzaMapNode!OdomCallback, ForzaMapNode!PathCallback,
          ForzaMapNode!AvoidanceActiveCallback, ForzaMapNode!SpeedLimitCallback,
          ForzaMapNode!Disable, ForzaMapNode!Tick, ForzaMapNode!ctrlVars
    <3> QED
      BY <3>1, <3>2, <3>3
  <2>2. ~Following
    BY <1>1, <1>3 DEF Following, PurePursuit, UnicornL1, ForzaMap
  <2> QED
    BY <2>1, <2>2, LimitTypes, StopIsCommand DEF Falls
<1> QED
    BY <1>2, <1>3

LEMMA StepFalls ==
    ASSUME StackInv, [Next]_vars, NEW speed \in SpeedLimits, Limiting(speed), ~Enabling
    PROVE  Falls(speed)
<1>1. which \notin {"mpc", "mpcc"}
    BY DEF StackInv, AbsentInv, Limiting
<1>2. CASE Next
  <2>1. ~LinearMpcStep /\ ~NonlinearMpccStep
    BY <1>1 DEF LinearMpcStep, NonlinearMpccStep, LinearMpc, NonlinearMpcc
  <2> QED
    BY <1>2, <2>1, PurePursuitFalls, UnicornL1Falls, ForzaMapFalls DEF Next
<1>3. CASE UNCHANGED vars
  <2>1. drive' = drive /\ prevSpeed' = prevSpeed /\ enabled' = enabled /\ armed' = armed
        /\ faultAge' = faultAge /\ lastOk' = lastOk /\ prevSteering' = prevSteering
    BY <1>3 DEF vars, shared
  <2>2. ASSUME Following PROVE drive'.speed = prevSpeed'
    BY <2>2 DEF Following, PurePursuit, UnicornL1, ForzaMap, PurePursuitNode!DriveLoop,
                UnicornL1Node!DriveLoop, ForzaMapNode!DriveLoop
  <2>3. CASE Following
    <3>1. \/ PurePursuitStep \/ UnicornL1Step \/ ForzaMapStep
      BY <2>3 DEF Following, PurePursuit, UnicornL1, ForzaMap, PurePursuitStep, UnicornL1Step,
                  ForzaMapStep, PurePursuitNode!Next, UnicornL1Node!Next, ForzaMapNode!Next,
                  UnicornL1Node!ControlLoop, ForzaMapNode!ControlLoop
    <3> QED
      BY <3>1, PurePursuitFalls, UnicornL1Falls, ForzaMapFalls
  <2> QED
    BY <2>1, <2>3, LimitTypes DEF Falls
<1> QED
    BY <1>2, <1>3

(* While a speed limit counts, each control loop that follows the path      *)
(* brings the command a deceleration step closer to it, and nothing but     *)
(* enabling raises it above: for any limits, speeds and rates, and also for *)
(* a limit below min_speed.  It is the descent LimitObeyed rests on.        *)
THEOREM LimitIsApproached ==
    ASSUME NEW speed \in SpeedLimits
    PROVE  Spec => [][Limiting(speed) /\ ~Enabling => Falls(speed)]_vars
<1>1. StackInv /\ [Next]_vars => [Limiting(speed) /\ ~Enabling => Falls(speed)]_vars
    BY StepFalls
<1> QED
    BY <1>1, Invariant, PTL DEF Spec

\* Both the ramp and the last command are within a limit.
Within(speed) == prevSpeed <= speed /\ drive.speed <= speed

(* A limit that is obeyed stays obeyed for as long as it counts, unless the *)
(* operator enables the controller: the safety part of LimitObeyed.         *)
THEOREM LimitLasts ==
    ASSUME NEW speed \in SpeedLimits
    PROVE  Spec => [][Limiting(speed) /\ Within(speed) => Within(speed)' \/ Enabling]_vars
<1>1. ASSUME StackInv, StackInv', [Next]_vars, Limiting(speed), Within(speed), ~Enabling
      PROVE  Within(speed)'
  <2>1. Falls(speed)
    BY <1>1, StepFalls
  <2>2. prevSpeed' \in Nat
    BY <1>1 DEF StackInv, LimiterOK
  <2> QED
    BY <1>1, <2>1, <2>2, LimitTypes DEF Falls, Within
<1>2. StackInv /\ StackInv' /\ [Next]_vars
        => [Limiting(speed) /\ Within(speed) => Within(speed)' \/ Enabling]_vars
    BY <1>1
<1> QED
    BY <1>2, Invariant, PTL DEF Spec
-------------------------------------------------------------------------------
(* The transform fault of Unicorn L1 and Forza MAP: why ComesToRest holds, *)
(* although these two repeat a command while the pose is lost.             *)

\* What a step without a pose may do: the age of the fault only grows, with
\* every tick of the clock up to the end of the grace, and a command other than
\* a stop is the last one repeated, within the grace.
GraceStep ==
    /\ faultAge' >= faultAge
    /\ Clock /\ faultAge \in 0 .. Grace => faultAge' = faultAge + 1
    /\ \/ drive' = drive
       \/ drive'.speed = 0
       \/ drive'.speed = prevSpeed /\ faultAge <= Grace
    /\ Loop /\ faultAge > Grace => drive'.speed = 0

LEMMA UnicornL1Grace == ASSUME StackInv, UnicornL1Step, pose = "lost" PROVE GraceStep
<1>1. UnicornL1Node!Next /\ which = "unicorn_l1" /\ ~PurePursuit(PurePursuitNode!Tick)
    BY DEF UnicornL1Step, UnicornL1, PurePursuit
<1>2. Grace \in Nat /\ faultAge \in -1 .. Grace + 1 /\ Stop.speed = 0
    BY ControlStackAssumption, StopIsCommand DEF ControlStackAssumption, StackInv, CountersOK
<1>3. ASSUME UnicornL1Node!Tick
      PROVE  /\ faultAge' = IF faultAge = -1 THEN -1 ELSE Older(faultAge, Grace)
             /\ drive' = drive
    BY <1>3 DEF UnicornL1Node!Tick, UnicornL1Node!ctrlVars, UnicornL1Node!None,
                UnicornL1Node!Older, Older
<1>4. Clock => UnicornL1Node!Tick
    BY <1>1 DEF Clock, PurePursuit, UnicornL1, ForzaMap, LinearMpc, NonlinearMpcc
<1>5. Loop /\ faultAge > Grace => drive'.speed = 0
  <2> SUFFICES ASSUME Loop, faultAge > Grace PROVE drive'.speed = 0
    OBVIOUS
  <2>1. UnicornL1Node!ControlLoop
    BY <1>1 DEF Loop, PurePursuit, UnicornL1, ForzaMap, LinearMpc, NonlinearMpcc
  <2>2. ~UnicornL1Node!DryRunLoop /\ ~UnicornL1Node!DriveLoop /\ ~UnicornL1Node!HoldLoop
    BY <1>2 DEF UnicornL1Node!DryRunLoop, UnicornL1Node!DriveLoop, UnicornL1Node!HoldLoop,
                UnicornL1Node!FaultAge, UnicornL1Node!None
  <2> QED
    BY <1>2, <2>1, <2>2, StopIsCommand
    DEF UnicornL1Node!ControlLoop, UnicornL1Node!NotReadyLoop, UnicornL1Node!IdleLoop,
        UnicornL1Node!FaultLoop
<1>6. CASE UnicornL1Node!Tick
    BY <1>2, <1>3, <1>5, <1>6 DEF GraceStep, Older
<1>7. CASE ~UnicornL1Node!Tick
  <2>1. CASE UnicornL1Node!ControlLoop
    <3>1. ~UnicornL1Node!DryRunLoop /\ ~UnicornL1Node!DriveLoop
      BY DEF UnicornL1Node!DryRunLoop, UnicornL1Node!DriveLoop
    <3>2. CASE UnicornL1Node!NotReadyLoop \/ UnicornL1Node!IdleLoop
      BY <1>2, <1>4, <1>5, <1>7, <3>2, StopIsCommand
      DEF UnicornL1Node!NotReadyLoop, UnicornL1Node!IdleLoop, GraceStep
    <3>3. CASE UnicornL1Node!HoldLoop \/ UnicornL1Node!FaultLoop
      BY <1>2, <1>4, <1>5, <1>7, <3>3, StopIsCommand
      DEF UnicornL1Node!HoldLoop, UnicornL1Node!FaultLoop, UnicornL1Node!FaultAge,
          UnicornL1Node!None, GraceStep
    <3> QED
      BY <2>1, <3>1, <3>2, <3>3 DEF UnicornL1Node!ControlLoop
  <2>2. CASE ~UnicornL1Node!ControlLoop
    <3>1. faultAge' = faultAge /\ drive' \in {drive, Stop}
      BY <1>1, <1>7, <2>2, StopIsCommand
      DEF UnicornL1Node!Next, UnicornL1Node!OdomCallback, UnicornL1Node!PathCallback,
          UnicornL1Node!CollisionCallback, UnicornL1Node!EmergencyStopCallback,
          UnicornL1Node!AvoidanceActiveCallback, UnicornL1Node!SpeedLimitCallback,
          UnicornL1Node!Enable, UnicornL1Node!Disable, UnicornL1Node!ctrlVars
    <3> QED
      BY <1>2, <1>4, <1>5, <1>7, <3>1 DEF GraceStep
  <2> QED
    BY <2>1, <2>2
<1> QED
    BY <1>6, <1>7

LEMMA ForzaMapGrace == ASSUME StackInv, ForzaMapStep, pose = "lost" PROVE GraceStep
<1>1. ForzaMapNode!Next /\ which = "forza_map" /\ ~PurePursuit(PurePursuitNode!Tick)
    BY DEF ForzaMapStep, ForzaMap, PurePursuit
<1>2. Grace \in Nat /\ faultAge \in -1 .. Grace + 1 /\ Stop.speed = 0
    BY ControlStackAssumption, StopIsCommand DEF ControlStackAssumption, StackInv, CountersOK
<1>3. ASSUME ForzaMapNode!Tick
      PROVE  /\ faultAge' = IF faultAge = -1 THEN -1 ELSE Older(faultAge, Grace)
             /\ drive' = drive
    BY <1>3 DEF ForzaMapNode!Tick, ForzaMapNode!ctrlVars, ForzaMapNode!None,
                ForzaMapNode!Older, Older
<1>4. Clock => ForzaMapNode!Tick
    BY <1>1 DEF Clock, PurePursuit, UnicornL1, ForzaMap, LinearMpc, NonlinearMpcc
<1>5. Loop /\ faultAge > Grace => drive'.speed = 0
  <2> SUFFICES ASSUME Loop, faultAge > Grace PROVE drive'.speed = 0
    OBVIOUS
  <2>1. ForzaMapNode!ControlLoop
    BY <1>1 DEF Loop, PurePursuit, UnicornL1, ForzaMap, LinearMpc, NonlinearMpcc
  <2>2. ~ForzaMapNode!DryRunLoop /\ ~ForzaMapNode!DriveLoop /\ ~ForzaMapNode!HoldLoop
    BY <1>2 DEF ForzaMapNode!DryRunLoop, ForzaMapNode!DriveLoop, ForzaMapNode!HoldLoop,
                ForzaMapNode!FaultAge, ForzaMapNode!None
  <2> QED
    BY <1>2, <2>1, <2>2, StopIsCommand
    DEF ForzaMapNode!ControlLoop, ForzaMapNode!NotReadyLoop, ForzaMapNode!IdleLoop,
        ForzaMapNode!FaultLoop
<1>6. CASE ForzaMapNode!Tick
    BY <1>2, <1>3, <1>5, <1>6 DEF GraceStep, Older
<1>7. CASE ~ForzaMapNode!Tick
  <2>1. CASE ForzaMapNode!ControlLoop
    <3>1. ~ForzaMapNode!DryRunLoop /\ ~ForzaMapNode!DriveLoop
      BY DEF ForzaMapNode!DryRunLoop, ForzaMapNode!DriveLoop
    <3>2. CASE ForzaMapNode!NotReadyLoop \/ ForzaMapNode!IdleLoop
      BY <1>2, <1>4, <1>5, <1>7, <3>2, StopIsCommand
      DEF ForzaMapNode!NotReadyLoop, ForzaMapNode!IdleLoop, GraceStep
    <3>3. CASE ForzaMapNode!HoldLoop \/ ForzaMapNode!FaultLoop
      BY <1>2, <1>4, <1>5, <1>7, <3>3, StopIsCommand
      DEF ForzaMapNode!HoldLoop, ForzaMapNode!FaultLoop, ForzaMapNode!FaultAge,
          ForzaMapNode!None, GraceStep
    <3> QED
      BY <2>1, <3>1, <3>2, <3>3 DEF ForzaMapNode!ControlLoop
  <2>2. CASE ~ForzaMapNode!ControlLoop
    <3>1. faultAge' = faultAge /\ drive' \in {drive, Stop}
      BY <1>1, <1>7, <2>2, StopIsCommand
      DEF ForzaMapNode!Next, ForzaMapNode!OdomCallback, ForzaMapNode!PathCallback,
          ForzaMapNode!CollisionCallback, ForzaMapNode!EmergencyStopCallback,
          ForzaMapNode!AvoidanceActiveCallback, ForzaMapNode!SpeedLimitCallback,
          ForzaMapNode!Enable, ForzaMapNode!Disable, ForzaMapNode!ctrlVars
    <3> QED
      BY <1>2, <1>4, <1>5, <1>7, <3>1 DEF GraceStep
  <2> QED
    BY <2>1, <2>2
<1> QED
    BY <1>6, <1>7

(* While the pose stays lost the grace of Unicorn L1 and of Forza MAP runs *)
(* out and no message renews it, for any grace: after it they command      *)
(* nothing but stops.                                                      *)
THEOREM GraceRunsOut ==
    Spec => [][pose = "lost" /\ which \in {"unicorn_l1", "forza_map"} => GraceStep]_vars
<1>1. StackInv /\ [Next]_vars
        => [pose = "lost" /\ which \in {"unicorn_l1", "forza_map"} => GraceStep]_vars
  <2> SUFFICES ASSUME StackInv, Next, which \in {"unicorn_l1", "forza_map"}, pose = "lost"
               PROVE  GraceStep
    OBVIOUS
  <2>1. UnicornL1Step \/ ForzaMapStep
    BY DEF Next, PurePursuitStep, PurePursuit, LinearMpcStep, LinearMpc,
           NonlinearMpccStep, NonlinearMpcc
  <2> QED
    BY <2>1, UnicornL1Grace, ForzaMapGrace
<1> QED
    BY <1>1, Invariant, PTL DEF Spec
===============================================================================
