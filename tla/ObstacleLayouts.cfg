SPECIFICATION Spec
CONSTANTS
    PathLength = 7
    SearchDistance = 1
    Branches = {{1, 4}, {0, 3}}
    Count = 1
    StartClearance = 3
    MinSpacing = 2
    ResetAt = {0, 2}
    ClickAt = {0}
    PromptWorker = FALSE
    MaxRounds = 5
    MaxObstacles = 2
INVARIANTS
    TypeOK
    ClearedStaysClear
    IdsUnique
PROPERTIES
    LapCoversCircuit
    NewLayoutEachLap
