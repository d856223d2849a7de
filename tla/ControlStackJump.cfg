SPECIFICATION Spec
CONSTANTS
    Controllers = {"mpc"}
    MinSpeed = 1
    MaxSpeed = 2
    TopSpeed = 2
    MeasuredSpeeds = {0, 2}
    SpeedLimits = {0, 1}
    MaxSteering = 1
    AccelStep = 1
    DecelStep = 1
    SteeringStep = 1
    AvoidanceSpeed = 1
    OdomTimeout = 0
    PathTimeout = 0
    LimitTimeout = 1
    Grace = 0
INVARIANT EnablingDoesNotJump
