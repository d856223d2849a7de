SPECIFICATION Spec
CONSTANTS
    PathLength = 8
    Horizons <- TwoHorizons
    Offsets <- OnePerSide
    Transitions <- OneTransition
    Hold = 1
    AvoidanceAfter = 2
    MaxPaths = 1
    MaxObstacles = 2
PROPERTIES
    NoJumpOnDetection
