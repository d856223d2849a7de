SPECIFICATION FairSpec
CONSTANTS
    QueueLen = 2
    TransformDelay = 1
    RetryAge = 2
    ScanTimeout = 1
    Confirm = 2
    MaxScans = 3
INVARIANTS
    TypeOK
    CountedAtMostThrice
    ConfirmationsSpanScans
PROPERTIES
    EvaluatedInOrder
    ScanLossStops
    ImplementsSafeDrive
