SPECIFICATION Spec
CONSTANTS
    PathLength = 5
    Horizons <- ShortHorizons
    Offsets <- BothSides
    Transitions <- OneTransition
    Hold = 0
    AvoidanceAfter = 2
    MaxPaths = 2
    MaxObstacles = 2
INVARIANTS
    TypeOK
    LockMatchesPath
    AvoidanceAnnounced
PROPERTIES
    ManoeuvreCommitted
    ReleasedBeyondReturn
