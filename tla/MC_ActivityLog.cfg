\* Positions that drift by two thresholds, paths that overflow twice.
SPECIFICATION ActivitySpec
CONSTANTS
    Positions = {0, 1, 2, 3, 4}
    Threshold = 2
    Quiet = 1
    LogPeriod = 2
    CommandTimeout = 1
    MaxPath = 2
    MaxChanges = 4
    MaxPollGap = 2
INVARIANTS
    PathSummarises
    DriftIsBounded
    ReceivingIsRecent
PROPERTIES
    ChangesAreReported
