SPECIFICATION Spec
CONSTANTS
    PathLength = 20
    MatchDistance = 3
    Memory = 1
    Obstacles <- SeamObstacle
    Jitter = 1
    MaxPerScan = 1
    MaxScans = 3
    MaxIds = 2
INVARIANT ArcLengthOfCentre
CHECK_DEADLOCK FALSE
