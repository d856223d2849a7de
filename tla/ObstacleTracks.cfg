SPECIFICATION Spec
CONSTANTS
    PathLength = 20
    MatchDistance = 2
    Memory = 1
    Obstacles <- TwoObstacles
    Jitter = 1
    MaxPerScan = 2
    MaxScans = 3
    MaxIds = 3
INVARIANTS
    TypeOK
    OneHitPerScan
    TracksDoNotMix
PROPERTIES
    IdsNeverReused
    ComesBackOnlyByRace
CHECK_DEADLOCK FALSE
