\* The runtime over a plugin that answers anything.
SPECIFICATION Spec
CONSTANTS
    WatchdogTimeout = 2
    FeedbackMaxAge = 1
    MaxCount = 2
    PluginHealths <- SomeHealths
INVARIANTS
    RuntimeTypeOK
    HaltedIsNotMoving
    FeedbackCountersAgree
PROPERTIES
    FaultFreezes
    ImplementsGate
