\* With hc_safety, two joints in one group, under the fairness of the executor.
SPECIFICATION FairNodeSpec
CONSTANTS
    j1 = j1
    j2 = j2
    Joints = {j1, j2}
    GroupOf <- OneGroup
    CommandMaxAge = 2
    Skew = 0
    HcSafety = TRUE
    WatchdogTimeout = 1
    FeedbackMaxAge = 1
    MaxCount = 0
    PluginHealths <- FewHealths
INVARIANTS
    DrivenIsRecent
    NoCommandWithoutFeedback
    QueuedIsCurrent
    StoppedIsStill
    ReadyIsHonest
PROPERTIES
    FaultLocks
    MotionIsRenewedOrEnds
