SPECIFICATION Spec
CONSTANTS
    QueueLen = 2
    TransformDelay = 0
    RetryAge = 1
    ScanTimeout = 1
    Confirm = 2
    MaxScans = 2
INVARIANT CountedOnce
