\* Delays, repeats, reordering, and a ROS clock set forward and back.
SPECIFICATION StreamSpec
CONSTANTS
    MaxAge = 3
    Skew = 1
    MaxTime = 4
    MaxRos = 6
    MaxSent = 2
    Leads = {0, 1, 2}
    ForwardSteps = {1}
    BackSteps = {1, 2}
    MaxBack = 2
INVARIANTS
    AgeIsHonest
PROPERTIES
    StampsIncrease
CHECK_DEADLOCK FALSE
