SPECIFICATION SideSpec
CONSTANTS
    Deployments = {"sim", "sim_opponent", "real", "odometry", "joystick"}
    DriveCommands <- OneCommand
    Watchdog = 0
    UseSafetyStop = TRUE
    ServoCenter = 1
    ServoGain = 1
    ServoMin = 0
    ServoMax = 1
    SteeringDelay = 1
    PublishPeriod = 2
    MaxPending = 1
    TopicDepth = 2
    ServoDelay = 1
    HistoryLength = 2
    MaxLateness = 1
    Horizon = 4
    MaxCommands = 3
    drive = drive
    mode = mode
    enable = enable
    dock = dock
    Axes = {drive}
    Messages = {mode}
    Clients = {enable, dock}
    Buttons <- OneButtonEach
    MaxButtons = 3
INVARIANTS
    TypeOK
    ResetForgets
    DelayedSteering
    JoyOneCallPerPress
PROPERTIES
    LatchedStandsStill
    StaysAtRest
    StopReachesVehicle
    CollisionReported
