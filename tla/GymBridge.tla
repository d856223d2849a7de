------------------------------ MODULE GymBridge ------------------------------
(***************************************************************************)
(* The ego vehicle of GymBridge: requested speed, steering commands that   *)
(* take effect after a delay, the collision latch, resets, teleoperation   *)
(* and the publication grid of the sensor topics.  The callbacks run one   *)
(* at a time.  Physics and contacts are free choices; obstacle layouts are *)
(* the subject of ObstacleLayouts.                                         *)
(***************************************************************************)
EXTENDS Integers, Sequences, FiniteSetsExt

CONSTANTS
    HasOpp,           \* num_agent = 2
    KbTeleop,         \* kb_teleop
    StopOnCollision,  \* stop_vehicle_on_collision
    Delay,            \* steering_command_delay, in ticks
    PublishPeriod,    \* 1 / topic_publish_rate, in ticks
    MaxPending        \* bound: steering commands that arrive within the delay

VARIABLES
    requested,     \* ego_requested_speed
    steer,         \* ego_steer
    pending,       \* pending_steering_commands, with the ticks left of each
    collision,     \* ego_collision
    latched,       \* ego_collision_latched
    drivePublished,\* ego_drive_published
    oppPublished,  \* opp_drive_published
    sincePublish,  \* ticks since last_topic_publish_ns, Never before
    driven,        \* the speed env.step was last called with, 0 after env.reset
    reported       \* the last message on collision_topic

vars == <<requested, steer, pending, collision, latched, drivePublished,
          oppPublished, sincePublish, driven, reported>>

Never == -1
SpeedValues == {0, 1}
SteeringValues == {0, 1}

Init ==
    /\ requested = 0
    /\ steer = 0
    /\ pending = <<>>
    /\ collision = FALSE
    /\ latched = FALSE
    /\ drivePublished = FALSE
    /\ oppPublished = FALSE
    /\ sincePublish = Never
    /\ driven = 0
    /\ reported = FALSE

\* _update_sim_state: a contact latches the vehicle at zero speed.
UpdateSimState(hit, speed, angle) ==
    /\ collision' = hit
    /\ latched' = (StopOnCollision /\ (latched \/ hit))
    /\ requested' = IF latched' THEN 0 ELSE speed
    /\ steer' = IF latched' THEN 0 ELSE angle

\* Mutant of DriveCallback: the latch is not looked at.
DriveCallbackUnlatched(command) ==
    /\ Len(pending) < MaxPending
    /\ requested' = command.speed
    /\ pending' = Append(pending, [left |-> Delay, angle |-> command.steering])
    /\ drivePublished' = TRUE
    /\ UNCHANGED <<steer, collision, latched, oppPublished, sincePublish,
                   driven, reported>>

\* drive_callback while the collision is latched.
DriveCallbackLatched ==
    /\ StopOnCollision /\ latched
    /\ requested' = 0
    /\ steer' = 0
    /\ UNCHANGED <<pending, collision, latched, drivePublished, oppPublished,
                   sincePublish, driven, reported>>

\* drive_callback.
DriveCallback(command) ==
    /\ ~(StopOnCollision /\ latched)
    /\ Len(pending) < MaxPending
    /\ requested' = command.speed
    /\ pending' = Append(pending, [left |-> Delay, angle |-> command.steering])
    /\ drivePublished' = TRUE
    /\ UNCHANGED <<steer, collision, latched, oppPublished, sincePublish,
                   driven, reported>>

OppDriveCallback ==
    /\ HasOpp
    /\ oppPublished' = TRUE
    /\ UNCHANGED <<requested, steer, pending, collision, latched, drivePublished,
                   sincePublish, driven, reported>>

\* Mutant of ForgetCommands: steering on its way survives the reset.
ForgetCommandsButPending ==
    /\ drivePublished' = FALSE
    /\ driven' = 0
    /\ UNCHANGED pending

\* What ego_reset_callback clears besides the pose; a new pose may touch a wall.
ForgetCommands ==
    /\ pending' = <<>>
    /\ drivePublished' = FALSE
    /\ driven' = 0

EgoResetCallback ==
    /\ ForgetCommands
    /\ \E hit \in BOOLEAN :
        /\ collision' = hit
        /\ latched' = (StopOnCollision /\ hit)
    /\ requested' = 0
    /\ steer' = 0
    /\ UNCHANGED <<oppPublished, sincePublish, reported>>

\* opp_reset_callback: env.reset stops both vehicles, the commands stay.
OppResetCallback ==
    /\ HasOpp
    /\ \E hit \in BOOLEAN : UpdateSimState(hit, requested, steer)
    /\ driven' = 0
    /\ UNCHANGED <<pending, drivePublished, oppPublished, sincePublish,
                   reported>>

TeleopCallback ==
    /\ KbTeleop
    /\ drivePublished' = TRUE
    /\ requested' \in SpeedValues
    /\ steer' \in SteeringValues
    /\ UNCHANGED <<pending, collision, latched, oppPublished, sincePublish,
                   driven, reported>>

\* The commands before this one are popped: their delay is over.
FirstWaiting ==
    Min({i \in 1 .. Len(pending) : pending[i].left > 0} \cup {Len(pending) + 1})

\* The last command popped is in effect.
DelayedSteer == IF FirstWaiting = 1 THEN steer ELSE pending[FirstWaiting - 1].angle

\* Mutant of Publish: the grid is moved on whether or not something was published.
PublishStarved ==
    /\ sincePublish' = 0
    /\ reported' = IF sincePublish = Never \/ sincePublish >= PublishPeriod
                   THEN collision' ELSE reported

\* Sensor topics are published on a grid of their own, after the physics step.
Publish ==
    IF sincePublish = Never \/ sincePublish >= PublishPeriod
    THEN /\ sincePublish' = IF sincePublish = Never THEN 0 ELSE sincePublish % PublishPeriod
         /\ reported' = collision'
    ELSE UNCHANGED <<sincePublish, reported>>

DriveTimerCallback ==
    /\ pending' = SubSeq(pending, FirstWaiting, Len(pending))
    /\ driven' = IF drivePublished /\ (HasOpp => oppPublished) THEN requested ELSE driven
    /\ \E hit \in BOOLEAN : UpdateSimState(hit, requested, DelayedSteer)
    /\ Publish
    /\ UNCHANGED <<drivePublished, oppPublished>>

\* More than two periods late counts the same as one period less.
Tick ==
    /\ pending' = [i \in DOMAIN pending |->
                    [pending[i] EXCEPT !.left = IF @ = 0 THEN 0 ELSE @ - 1]]
    /\ sincePublish' = IF sincePublish = 2 * PublishPeriod - 1 THEN PublishPeriod
                       ELSE IF sincePublish = Never THEN Never ELSE sincePublish + 1
    /\ UNCHANGED <<requested, steer, collision, latched, drivePublished, oppPublished,
                   driven, reported>>
==============================================================================
