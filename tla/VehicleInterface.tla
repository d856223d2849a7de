--------------------------- MODULE VehicleInterface ---------------------------
(***************************************************************************)
(* VehicleInterfaceNode: repeats the latest drive command to the simulator *)
(* or to the motor and the servo, or a stop when the command is stale or   *)
(* the safety topic asks for it.                                           *)
(***************************************************************************)
EXTENDS Integers

CONSTANTS
    DriveMode,     \* drive_mode: "sim" or "real"
    DriveCommands, \* what controllers send: speed and steering
    Watchdog,      \* watchdog_timeout, in ticks
    UseSafetyStop, \* use_safety_stop
    ServoCenter, ServoGain, ServoMin, ServoMax  \* servo_center, ...

VARIABLES
    latest,      \* latest_cmd, an empty sequence before the first
    commandAge,  \* age of latest_cmd_time
    safetyStop,  \* safety_stop_required
    sent         \* the last message or pair of messages published

StopCommand == [speed |-> 0, steering |-> 0]

\* publish_stop: real mode centres the servo.
StopOutput ==
    IF DriveMode = "sim" THEN StopCommand ELSE [speed |-> 0, steering |-> ServoCenter]

Init ==
    /\ latest = <<>>
    /\ commandAge = Watchdog + 1
    /\ safetyStop = FALSE
    /\ sent = StopOutput

DriveCallback ==
    /\ \E command \in DriveCommands : latest' = <<command>>
    /\ commandAge' = 0
    /\ UNCHANGED <<safetyStop, sent>>

SafetyCallback ==
    /\ safetyStop' = ~safetyStop
    /\ UNCHANGED <<latest, commandAge, sent>>

\* Mutant of IsCmdStale: only a missing command is stale.
IsCmdStaleIfMissing == latest = <<>>

\* is_cmd_stale.
IsCmdStale == latest = <<>> \/ commandAge > Watchdog

\* Mutant of clampServo: the upper end is not applied.
clampServoFromBelow(servo) == IF servo < ServoMin THEN ServoMin ELSE servo

clampServo(servo) ==
    IF servo < ServoMin THEN ServoMin ELSE IF servo > ServoMax THEN ServoMax ELSE servo

\* publish_sim, publish_real; the speed gain is a change of unit.
Output(command) ==
    IF DriveMode = "sim"
    THEN command
    ELSE [speed |-> command.speed,
          steering |-> clampServo(ServoCenter + ServoGain * command.steering)]

PublishLoop ==
    /\ sent' = IF IsCmdStale \/ (UseSafetyStop /\ safetyStop) THEN StopOutput ELSE Output(latest[1])
    /\ UNCHANGED <<latest, commandAge, safetyStop>>

Tick ==
    /\ commandAge' = IF commandAge > Watchdog THEN commandAge ELSE commandAge + 1
    /\ UNCHANGED <<latest, safetyStop, sent>>
===============================================================================
