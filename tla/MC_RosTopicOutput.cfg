\* Publications that fail half-way, with one topic and with a topic per group.
SPECIFICATION OutputSpec
CONSTANTS
    a = a
    b = b
    c = c
    Joints = {a, b, c}
    GroupOf <- TwoGroups
    Scale <- Reversed
    Offset <- Shifted
    VendorPositions = {0, 1}
    LogicalTargets = {0, 1}
    WatchdogTimeout = 1
    FeedbackMaxAge = 1
    MaxCount = 0
    PluginHealths <- Healths
INVARIANTS
    Remembered
    TornIsHalted
PROPERTIES
    OthersPreserved
    RecoveryHoldsHere
