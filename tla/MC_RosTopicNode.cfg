\* The ROS topic plugin with two groups, under late, lost and absent
\* feedback.
SPECIFICATION FairRosTopicSpec
CONSTANTS
    j1 = j1
    j2 = j2
    Joints = {j1, j2}
    GroupOf <- TwoGroups
    CommandMaxAge = 2
    Skew = 1
    HcSafety = TRUE
    WatchdogTimeout = 1
    FeedbackMaxAge = 2
    MaxCount = 0
    PluginHealths <- Healths
    StateTimeout = 2
    StartupGrace = 2
    ControlPeriod = 1
INVARIANTS
    TopicTypeOK
    SilenceIsNotAFault
    MotionHasFeedback
    MotionIsRenewed
PROPERTIES
    FeedbackRecovers
