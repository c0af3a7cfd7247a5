\* A source that repeats its last sample, and a ROS clock set back by one tick.
SPECIFICATION StreamSpec
CONSTANTS
    MaxAge = 3
    Skew = 1
    MaxTime = 4
    MaxRos = 6
    MaxSent = 2
    Leads = {0}
    ForwardSteps = {}
    BackSteps = {1}
    MaxBack = 1
PROPERTIES
    RepeatsNeverRefresh
CHECK_DEADLOCK FALSE
