----------------------------- MODULE VescToOdom -----------------------------
(***************************************************************************)
(* VescToOdom with use_servo_cmd_to_calc_angular_velocity: odometry from   *)
(* the motor speed and from the servo command of servo_command_delay ago.  *)
(* Its history of commands is shortened by both callbacks.                 *)
(***************************************************************************)
EXTENDS Integers, Sequences, FiniteSetsExt

CONSTANTS
    ServoDelay,     \* servo_command_delay, in ticks
    HistoryLength,  \* one second, in ticks
    MaxLateness,    \* assumption: age of a state message when it is handled
    Horizon,        \* bound of the clock
    MaxCommands     \* bound: servo commands sent

\* The code calls one second ample history: a state is never that late.
ASSUME VescToOdomAssumption ==
    /\ {ServoDelay, HistoryLength, MaxLateness, Horizon, MaxCommands} \subseteq Nat
    /\ ServoDelay > 0
    /\ ServoDelay + MaxLateness <= HistoryLength

VARIABLES
    now,        \* the clock
    history,    \* servo_cmd_history_
    lastStamp,  \* last_state_->header.stamp, NoStamp before the first
    odomAngle,  \* steering angle behind the last odometry message
    travelled, turned,     \* x_, y_ and yaw_: integrals of speed and turning
    log         \* history variable: every servo command received

vars == <<now, history, lastStamp, odomAngle, travelled, turned, log>>

NoStamp == -1
ServoAngles == {0, 1}
MotorSpeeds == {0, 1}

Init ==
    /\ now = 0
    /\ history = <<>>
    /\ lastStamp = NoStamp
    /\ odomAngle = 0
    /\ travelled = 0
    /\ turned = 0
    /\ log = <<>>

\* Pops the front while the second entry is not newer than a time.
PopUntil(time, commands) ==
    LET stays == {i \in DOMAIN commands : \A j \in 2 .. i : commands[j].at <= time}
    IN  SubSeq(commands, Max(stays), Len(commands))

\* Mutant of Recent: the front is popped by its own age.
RecentByFront(commands) ==
    LET young == {i \in DOMAIN commands : commands[i].at >= now - HistoryLength}
    IN  SubSeq(commands, Min(young), Len(commands))

\* servoCmdCallback: what is older than one second is popped.
Recent(commands) == PopUntil(now - HistoryLength - 1, commands)

ServoCmdCallback ==
    /\ Len(log) < MaxCommands
    /\ \E angle \in ServoAngles :
        /\ history' = Recent(Append(history, [at |-> now, angle |-> angle]))
        /\ log' = Append(log, [at |-> now, angle |-> angle])
    /\ UNCHANGED <<now, lastStamp, odomAngle, travelled, turned>>

\* The newest command not newer than the delayed time comes to the front.
Delayed(commands, stamp) == PopUntil(stamp - ServoDelay, commands)

\* vescStateCallback; without any servo command it returns at once.
VescStateCallback ==
    /\ history # <<>>
    /\ \E stamp \in 0 .. now, speed \in MotorSpeeds :
        /\ now - stamp <= MaxLateness
        /\ stamp >= lastStamp
        /\ LET dt == IF lastStamp = NoStamp THEN 0 ELSE stamp - lastStamp
           IN  /\ history' = Delayed(history, stamp)
               /\ odomAngle' = history'[1].angle
               /\ travelled' = travelled + speed * dt
               /\ turned' = turned + speed * odomAngle' * dt
               /\ lastStamp' = stamp
    /\ UNCHANGED <<now, log>>

Tick ==
    /\ now < Horizon
    /\ now' = now + 1
    /\ UNCHANGED <<history, lastStamp, odomAngle, travelled, turned, log>>

Next == ServoCmdCallback \/ VescStateCallback \/ Tick
Spec == Init /\ [][Next]_vars
-----------------------------------------------------------------------------
\* What the delay means, over every command ever received.
InEffect(stamp) ==
    LET early == {i \in DOMAIN log : log[i].at <= stamp - ServoDelay}
    IN  IF early = {} THEN log[1].angle ELSE log[Max(early)].angle

(* The odometry turns with the newest command that is at least the servo   *)
(* delay older than the measured speed, although both callbacks forget     *)
(* commands: one second of history loses none that is still needed, and    *)
(* nothing popped for one state is missed by a later one.                  *)
DelayedSteering == lastStamp # NoStamp => odomAngle = InEffect(lastStamp)
=============================================================================
