---------------------------- MODULE RosTopicNode ----------------------------
(***************************************************************************)
(* The driver node with its built-in plugin, RosTopicRobotDriver           *)
(* (src/ros_topic_robot_driver.cpp): the plugin's answers are no longer    *)
(* arbitrary but follow from the feedback it received.  Its subscription   *)
(* runs in the node's own executor, so stateCallback is one more handler.  *)
(*                                                                         *)
(* The runtime's constructor has configured, connected and activated the   *)
(* plugin and started its stream, and publishing succeeds; what fails here *)
(* is the feedback: late, lost, repeated, reordered, or never there.       *)
(***************************************************************************)
EXTENDS DriverNodeHistory

CONSTANTS
    StateTimeout,       \* state_timeout_, in ticks
    StartupGrace,       \* startup_grace_, in ticks
    ControlPeriod       \* the longest time between two control ticks

ASSUME TopicAssumption ==
    StateTimeout \in Nat \ {0} /\ StartupGrace \in Nat /\ ControlPeriod \in Nat \ {0}

(* What health() answers is among what DriverNode allows for.              *)
ASSUME PluginAssumption ==
    [level : {"ok", "warning", "stale"}, connected : {TRUE}, active : {TRUE},
     communicationOk : BOOLEAN] \subseteq PluginHealths

VARIABLES
    haveState,          \* have_state_
    feedbackAge,        \* now - last_state_received_
    sourceAge,          \* age of the last stamp source_timestamp_ accepted
    grace,              \* what is left of startup_grace_
    sinceControl        \* time since the last control tick

topicVars == <<haveState, feedbackAge, sourceAge, grace>>
rosTopicVars == <<historyVars, topicVars, sinceControl>>

(* Ages are compared with StateTimeout and FeedbackMaxAge; a sample that   *)
(* passes both tests is no older than FreshLimit.                          *)
Least(m, n) == IF m < n THEN m ELSE n
FreshLimit == Least(StateTimeout, FeedbackMaxAge - 1)
OldestFeedback == StateTimeout + FeedbackMaxAge + ControlPeriod

TopicInit ==
    /\ haveState = FALSE
    /\ feedbackAge = OldestFeedback
    /\ sourceAge = StateTimeout
    /\ grace = StartupGrace
    /\ sinceControl = 0

-----------------------------------------------------------------------------
(* The plugin's answers.  later is the time that has passed since the      *)
(* method of the runtime looked at the feedback first.                     *)

stateFresh(later) == haveState /\ feedbackAge + later <= StateTimeout

InGrace(later) == grace > later

readJointState ==
    IF ~haveState THEN IF InGrace(0) THEN "noFeedback" ELSE "communication"
    ELSE IF stateFresh(0) THEN "sample" ELSE "communication"

(* The age of latest_state_ that read() sees; beyond the limit it does not *)
(* matter by how much.                                                     *)
sampleAge == Least(feedbackAge, FeedbackMaxAge)

(* A stale stream reported as a hardware error.                            *)
topicHealth_StaleIsError(later) ==
    [level |-> IF stateFresh(later) \/ (~haveState /\ InGrace(later)) THEN "ok" ELSE "error",
     connected |-> TRUE, active |-> TRUE, communicationOk |-> TRUE]

(* health(): a plugin that holds, or that still hopes for a first sample,  *)
(* is in a warning state.  (A robot that still moves from before a crash   *)
(* is held by stopped_, but not by output; the runtime treats a warning    *)
(* and ok alike.)                                                          *)
topicHealth(later) ==
    LET awaiting == ~haveState /\ InGrace(later)
    IN [level |-> IF awaiting \/ (stateFresh(later) /\ output # "motion") THEN "warning"
                  ELSE IF stateFresh(later) THEN "ok" ELSE "stale",
        connected |-> TRUE, active |-> TRUE,
        communicationOk |-> awaiting \/ stateFresh(later)]

writeJointCommand ==
    IF ~haveState THEN "failed"
    ELSE IF stateFresh(0) THEN "accepted" ELSE "communication"

(* stopAll() holds the last measured position, however old it is.          *)
stopAll == haveState

-----------------------------------------------------------------------------
(* now - last_state_received_ right after the callback: the stamp of a     *)
(* message from the future counts as the time of its receipt.              *)
Received(age) == IF age > 0 THEN age ELSE 0

(* stateCallback() for a complete, finite message stamped age ago; any     *)
(* other message is dropped.                                               *)
StateCallback(age) ==
    /\ Idle
    /\ age < sourceAge /\ age < StateTimeout
    /\ haveState' = TRUE
    /\ feedbackAge' = Received(age)
    /\ sourceAge' = age
    /\ UNCHANGED <<nodeVars, grace, sinceControl>>

TopicTick ==
    /\ sinceControl < ControlPeriod
    /\ NodeTick
    /\ feedbackAge' = Least(feedbackAge + 1, OldestFeedback)
    /\ sourceAge' = Least(sourceAge + 1, StateTimeout)
    /\ grace' = Shorter(grace)
    /\ sinceControl' = sinceControl + 1
    /\ UNCHANGED haveState

TopicControl ==
    /\ \E later \in {0, 1} :
          ControlTick(readJointState, sampleAge, topicHealth(later), stopAll, stopAll)
    /\ sinceControl' = 0
    /\ UNCHANGED topicVars

TopicHandlerStep ==
    /\ \/ Flush
       \/ CallStop(stopAll)
       \/ CallWatchdog(stopAll)
       \/ \E later \in {0, 1} : CallReady(topicHealth(later), stopAll)
       \/ \E later \in {0, 1} : CallEnable(topicHealth(later), stopAll)
       \/ \E command \in batch, later \in {0, 1} :
             WriteGroup(command, IF Expired(command) THEN "expired" ELSE writeJointCommand,
                        topicHealth(later), stopAll)
    /\ UNCHANGED <<topicVars, sinceControl>>

TopicInput ==
    /\ \/ \E members \in (SUBSET Joints) \ {{}}, age \in StampAges : CommandCallback(members, age)
       \/ EmergencyStop
       \/ \E data \in BOOLEAN : OutputEnable(data)
       \/ \E later \in {0, 1} : PublishDiagnostics(topicHealth(later), stopAll)
    /\ UNCHANGED <<topicVars, sinceControl>>

RosTopicNext ==
    /\ \/ \E age \in -Skew .. StateTimeout - 1 : StateCallback(age)
       \/ TopicTick
       \/ TopicControl
       \/ TopicHandlerStep
       \/ TopicInput
    /\ Remember

RosTopicInit == HistoryInit /\ rosStarted = TRUE /\ TopicInit

RosTopicSpec == RosTopicInit /\ [][RosTopicNext]_rosTopicVars

(* The control timer is punctual (TopicTick), handlers finish, time goes   *)
(* on, and the vendor's driver does not stop sending for ever.             *)
FairRosTopicSpec ==
    /\ RosTopicSpec
    /\ WF_rosTopicVars(TopicHandlerStep /\ Remember)
    /\ SF_rosTopicVars(TopicControl /\ Remember)
    /\ SF_rosTopicVars(TopicTick /\ Remember)
    /\ SF_rosTopicVars(StateCallback(0) /\ Remember)

-----------------------------------------------------------------------------
(* Types, of the runtime and the node too: no command is valid for longer  *)
(* than its maximum age, and no feedback is younger than now.              *)
TopicTypeOK ==
    /\ RuntimeTypeOK /\ NodeTypeOK
    /\ haveState \in BOOLEAN
    /\ feedbackAge \in 0 .. OldestFeedback
    /\ sourceAge \in -Skew .. StateTimeout
    /\ grace \in 0 .. StartupGrace
    /\ sinceControl \in 0 .. ControlPeriod

(* Feedback that is late, lost, repeated or absent from the start makes    *)
(* the runtime wait, whichever call notices it and at whichever moment it  *)
(* becomes stale; it never latches a fault.                                *)
SilenceIsNotAFault == ~driverFaultLatched

(* The robot is never in motion on feedback older than the stricter of the *)
(* two limits plus one control period, whether or not commands keep coming,*)
(* but for a motion inherited from a process that crashed, which no stop   *)
(* has ended yet.                                                          *)
MotionHasFeedback ==
    output = "motion" =>
        \/ feedbackReady /\ haveState /\ feedbackAge <= FreshLimit + ControlPeriod
        \/ ~feedbackReady /\ lastStopReason = "none"

(* A control tick leaves no motion behind that was not renewed within      *)
(* WatchdogTimeout, whether its read found feedback or not: no motion goes *)
(* on unrenewed for longer than that and one control period.               *)
MotionIsRenewed ==
    Idle /\ sinceControl = 0 /\ output = "motion" => commandAge <= WatchdogTimeout

(* As long as feedback keeps coming back, every wait ends in a recovery.   *)
FeedbackRecovers == feedbackWaiting ~> (~feedbackWaiting /\ ~driverFaultLatched)
=============================================================================
