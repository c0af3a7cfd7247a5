\* With and without hc_safety, two grippers, crashes and restarts, under the
\* fairness of the executor.
SPECIFICATION FairNodeSpec
CONSTANTS
    left = left
    right = right
    Grippers = {left, right}
    FeedbackMaxAge = 1
    CommandMaxAge = 2
    Skew = 1
    WatchdogTimeout = 1
    MaxCount = 0
INVARIANTS
    StoppedIsStill
    GivenSinceEnabled
PROPERTIES
    ImplementsGate
    LockHolds
    FaultLocks
    BlindMotionEnds
    MotionIsRenewedOrEnds
