\* Two joints, revocations, and a ROS clock set forward and back.
SPECIFICATION CommandSpec
CONSTANTS
    j1 = j1
    j2 = j2
    Joints = {j1, j2}
    MaxAge = 3
    Skew = 1
    MaxTime = 3
    MaxRos = 4
    MaxSent = 2
    Leads = {0, 1}
    ForwardSteps = {1}
    BackSteps = {1}
    MaxBack = 1
INVARIANTS
    RevokedIsGone
    FreshIsHeard
CHECK_DEADLOCK FALSE
