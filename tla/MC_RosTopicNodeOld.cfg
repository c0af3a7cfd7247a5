\* A command queued before a loss of feedback that only status() notices.
SPECIFICATION RosTopicSpec
CONSTANTS
    j1 = j1
    j2 = j2
    Joints = {j1}
    GroupOf <- OneGroup
    CommandMaxAge = 2
    Skew = 1
    HcSafety = FALSE
    WatchdogTimeout = 1
    FeedbackMaxAge = 3
    MaxCount = 0
    PluginHealths <- Healths
    StateTimeout = 2
    StartupGrace = 2
    ControlPeriod = 1
INVARIANTS
    OldTargetsNotReplayed
