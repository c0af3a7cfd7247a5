\* Two joints, travels of two ticks, commands that overtake each other.
SPECIFICATION FairMockSpec
CONSTANTS
    j1 = j1
    j2 = j2
    Joints = {j1, j2}
    Positions = {0, 1, 2}
    Targets = {0, 2}
    Speeds = {0, 1}
    Latencies = {0, 2}
    MaxPending = 2
    MaxLag = 2
INVARIANTS
    StoppedIsAtRest
    NewestWins
PROPERTIES
    ImplementsRobot
    TargetReached
