SPECIFICATION FairSpec
CONSTANTS
    PathLength = 5
    Horizons <- ShortHorizons
    Offsets <- OneSide
    Transitions <- OneTransition
    Hold = 0
    AvoidanceAfter = 2
    MaxPaths = 1
    MaxObstacles = 2
PROPERTIES
    ReturnsToGlobalPath
