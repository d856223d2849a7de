------------------------- MODULE ControllerParameters -------------------------
(***************************************************************************)
(* What the controllers have in common: the parameters each of them        *)
(* declares, commands and their limits.  Speeds and steering angles are    *)
(* integers in units of one rate-limit quantum, ages are counted in ticks. *)
(***************************************************************************)
EXTENDS Integers

CONSTANTS
    MinSpeed,      \* min_speed, min_command_speed
    MaxSpeed,      \* max_speed
    TopSpeed,      \* bound: the highest speed odometry reports
    MeasuredSpeeds,\* the speeds odometry reports
    SpeedLimits,   \* the limits the planner announces
    MaxSteering,   \* max_steering_angle
    AccelStep,     \* max_longitudinal_acceleration * control_dt
    DecelStep,     \* max_longitudinal_deceleration * control_dt
    SteeringStep,  \* max_steering_rate * control_dt
    OdomTimeout,   \* odom_timeout
    PathTimeout,   \* path_timeout
    LimitTimeout   \* speed_limit_timeout

ASSUME ControllerParametersAssumption ==
    /\ MinSpeed \in Nat /\ MaxSpeed \in Nat /\ MinSpeed <= MaxSpeed
    /\ TopSpeed \in Nat /\ MaxSpeed <= TopSpeed
    /\ MeasuredSpeeds \subseteq 0 .. TopSpeed /\ SpeedLimits \subseteq 0 .. TopSpeed
    /\ MaxSteering \in Nat
    /\ AccelStep \in Nat \ {0} /\ DecelStep \in Nat \ {0}
    /\ SteeringStep \in Nat \ {0}
    /\ OdomTimeout \in Nat /\ PathTimeout \in Nat /\ LimitTimeout \in Nat

Angles == -MaxSteering .. MaxSteering
Stop == [speed |-> 0, steering |-> 0]

\* The highest speed a command may have: the ramp starts at a measured speed.
CommandSpeedBound == TopSpeed + AccelStep
Commands == [speed : 0 .. CommandSpeedBound, steering : Angles]

\* What TF and the search for the vehicle on the path would yield.
Poses == {"on_path", "off_path", "lost"}

clamp(value, minimum, maximum) ==
    IF value < minimum THEN minimum ELSE IF value > maximum THEN maximum ELSE value

\* Ages beyond a timeout all count the same; a message never received is expired.
Expired(timeout) == timeout + 1
Older(age, timeout) == IF age > timeout THEN age ELSE age + 1
Ages(timeout) == 0 .. timeout + 1
===============================================================================
