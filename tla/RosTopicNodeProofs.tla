------------------------- MODULE RosTopicNodeProofs -------------------------
(***************************************************************************)
(* Proofs about RosTopicNode: the node and its plugin are a DriverNode, so *)
(* what is proved of DriverNode holds here; and what the plugin's answers  *)
(* have in common makes silence harmless, for every timeout and period.    *)
(***************************************************************************)
EXTENDS RosTopicNode, DriverNodeProofs

(* The plugin's own members, and the period of the control timer.          *)
PluginTypes ==
    /\ haveState \in BOOLEAN
    /\ feedbackAge \in 0 .. OldestFeedback
    /\ sourceAge \in -Skew .. StateTimeout
    /\ grace \in 0 .. StartupGrace
    /\ sinceControl \in 0 .. ControlPeriod

(* Limits of the ages, as numbers.                                         *)
LEMMA Limits ==
  /\ StateTimeout \in Nat \ {0} /\ StartupGrace \in Nat /\ ControlPeriod \in Nat \ {0}
  /\ FeedbackMaxAge \in Nat \ {0} /\ Skew \in Nat
  /\ OldestFeedback \in Nat /\ StateTimeout <= OldestFeedback
  /\ FreshLimit \in Nat /\ FreshLimit <= StateTimeout /\ FreshLimit < FeedbackMaxAge
  BY TopicAssumption, FeedbackAssumption, CommandAssumption
  DEF OldestFeedback, FreshLimit, Least

(* Every step keeps them.                                                  *)
LEMMA PluginTypesStep ==
  ASSUME PluginTypes, [RosTopicNext]_rosTopicVars
  PROVE  PluginTypes'
  <1>1. CASE UNCHANGED <<topicVars, sinceControl>>
    BY <1>1 DEF PluginTypes, topicVars
  <1>2. ASSUME NEW age \in -Skew .. StateTimeout - 1, StateCallback(age)
        PROVE  PluginTypes'
    BY <1>2, Limits DEF StateCallback, Received, PluginTypes
  <1>3. CASE TopicTick
    BY <1>3, Limits DEF TopicTick, PluginTypes, Least, Shorter
  <1>4. CASE TopicControl
    BY <1>4, Limits DEF TopicControl, topicVars, PluginTypes
  <1>5. CASE TopicHandlerStep \/ TopicInput \/ UNCHANGED rosTopicVars
    BY <1>1, <1>5 DEF TopicHandlerStep, TopicInput, rosTopicVars
  <1> QED
    BY <1>2, <1>3, <1>4, <1>5 DEF RosTopicNext

-----------------------------------------------------------------------------
(* Every answer of the plugin is one that DriverNode allows for.           *)
LEMMA AnswersAllowed ==
  ASSUME PluginTypes, NEW later \in {0, 1}, NEW command
  PROVE  /\ readJointState \in ReadAnswers
         /\ sampleAge \in SampleAges
         /\ topicHealth(later) \in PluginHealths
         /\ stopAll \in BOOLEAN
         /\ (IF Expired(command) THEN "expired" ELSE writeJointCommand)
               \in WriteAnswers \ {"invalid"}
  <1>1. readJointState \in ReadAnswers
    BY DEF readJointState, ReadAnswers
  <1>2. sampleAge \in SampleAges
    BY Limits DEF sampleAge, SampleAges, Least, PluginTypes
  <1>3. topicHealth(later) \in PluginHealths
    <2> DEFINE h == topicHealth(later)
    <2>1. /\ h.level \in {"ok", "warning", "stale"} /\ h.connected \in {TRUE}
          /\ h.active \in {TRUE} /\ h.communicationOk \in BOOLEAN
      BY DEF topicHealth
    <2>2. h = [level |-> h.level, connected |-> h.connected, active |-> h.active,
               communicationOk |-> h.communicationOk]
      BY DEF topicHealth
    <2> HIDE DEF h
    <2>3. h \in [level : {"ok", "warning", "stale"}, connected : {TRUE}, active : {TRUE},
                 communicationOk : BOOLEAN]
      BY <2>1, <2>2
    <2> QED
      BY <2>3, PluginAssumption DEF h
  <1>4. stopAll \in BOOLEAN
    BY DEF stopAll, PluginTypes
  <1>5. (IF Expired(command) THEN "expired" ELSE writeJointCommand)
            \in WriteAnswers \ {"invalid"}
    BY DEF writeJointCommand, WriteAnswers
  <1> QED
    BY <1>1, <1>2, <1>3, <1>4, <1>5

(* Every step is one that DriverNode may take.                             *)
LEMMA NodeSimulates ==
  ASSUME PluginTypes, [RosTopicNext]_rosTopicVars
  PROVE  [NodeNext]_nodeVars
  <1>1. CASE UNCHANGED rosTopicVars
    BY <1>1 DEF rosTopicVars, historyVars
  <1>2. CASE \E age \in -Skew .. StateTimeout - 1 : StateCallback(age)
    BY <1>2 DEF StateCallback
  <1>3. CASE TopicTick
    BY <1>3 DEF TopicTick, NodeNext
  <1>4. CASE TopicControl
    <2>1. PICK later \in {0, 1} :
             ControlTick(readJointState, sampleAge, topicHealth(later), stopAll, stopAll)
      BY <1>4 DEF TopicControl
    <2>2. /\ readJointState \in ReadAnswers /\ sampleAge \in SampleAges
          /\ topicHealth(later) \in PluginHealths /\ stopAll \in BOOLEAN
      BY AnswersAllowed
    <2>3. ControlTimer
      BY <2>1, <2>2 DEF ControlTimer
    <2> QED
      BY <2>3 DEF NodeNext
  <1>5. CASE TopicHandlerStep
    <2>1. stopAll \in BOOLEAN
      BY AnswersAllowed
    <2>2. CASE Flush \/ CallStop(stopAll) \/ CallWatchdog(stopAll)
      BY <2>1, <2>2 DEF NodeNext, HandlerStep
    <2>3. ASSUME NEW later \in {0, 1},
                 CallReady(topicHealth(later), stopAll) \/ CallEnable(topicHealth(later), stopAll)
          PROVE  NodeNext
      <3>1. topicHealth(later) \in PluginHealths
        BY AnswersAllowed
      <3> QED
        BY <2>1, <2>3, <3>1 DEF NodeNext, HandlerStep
    <2>4. ASSUME NEW command \in batch, NEW later \in {0, 1},
                 WriteGroup(command, IF Expired(command) THEN "expired" ELSE writeJointCommand,
                            topicHealth(later), stopAll)
          PROVE  NodeNext
      <3>1. /\ topicHealth(later) \in PluginHealths /\ stopAll \in BOOLEAN
            /\ (IF Expired(command) THEN "expired" ELSE writeJointCommand)
                  \in WriteAnswers \ {"invalid"}
        BY AnswersAllowed
      <3> QED
        BY <2>4, <3>1 DEF NodeNext, HandlerStep
    <2> QED
      BY <1>5, <2>2, <2>3, <2>4 DEF TopicHandlerStep
  <1>6. CASE TopicInput
    <2>1. \A later \in {0, 1} : topicHealth(later) \in PluginHealths /\ stopAll \in BOOLEAN
      BY AnswersAllowed
    <2> QED
      BY <1>6, <2>1 DEF TopicInput, NodeNext
  <1> QED
    BY <1>1, <1>2, <1>3, <1>4, <1>5, <1>6 DEF RosTopicNext

(* The plugin's types hold in every behaviour.                             *)
LEMMA PluginTypesHold == RosTopicSpec => []PluginTypes
  <1>1. RosTopicInit => PluginTypes
    <2> SUFFICES ASSUME TopicInit PROVE PluginTypes
      BY DEF RosTopicInit
    <2>1. haveState \in BOOLEAN
      BY Zenon DEF TopicInit
    <2>2. /\ feedbackAge \in 0 .. OldestFeedback /\ sourceAge \in -Skew .. StateTimeout
          /\ grace \in 0 .. StartupGrace /\ sinceControl \in 0 .. ControlPeriod
      BY Limits DEF TopicInit
    <2> QED
      BY <2>1, <2>2 DEF PluginTypes
  <1>2. PluginTypes /\ [RosTopicNext]_rosTopicVars => PluginTypes'
    BY PluginTypesStep
  <1> QED
    BY <1>1, <1>2, PTL DEF RosTopicSpec

(* The node with its built-in plugin implements DriverNode: what is proved *)
(* for a plugin that answers anything holds for this one.                  *)
THEOREM ImplementsDriverNode == RosTopicSpec => NodeSpec
  <1>1. RosTopicInit => NodeInit
    BY DEF RosTopicInit, HistoryInit
  <1>2. PluginTypes /\ [RosTopicNext]_rosTopicVars => [NodeNext]_nodeVars
    BY NodeSimulates
  <1> QED
    BY <1>1, <1>2, PluginTypesHold, PTL DEF RosTopicSpec, NodeSpec

(* TopicTypeOK: the members of the runtime, the node and the plugin.       *)
THEOREM TopicTypeCorrect == RosTopicSpec => []TopicTypeOK
  <1>1. NodeInit => RuntimeTypeOK
    <2>1. 0 \in Counts /\ 0 \in Ages
      BY CountAssumption, WatchdogAssumption DEF Counts, Ages
    <2>2. "none" \in Reasons /\ {"hold", "motion"} \subseteq Outputs
      BY DEF Reasons, Outputs
    <2> QED
      BY <2>1, <2>2 DEF NodeInit, RuntimeTypeOK
  <1>2. RuntimeTypeOK /\ [NodeNext]_nodeVars => RuntimeTypeOK'
    BY NodeStepUsesRuntime, TypeStep
  <1>3. NodeSpec => []RuntimeTypeOK
    BY <1>1, <1>2, PTL DEF NodeSpec
  <1>4. RuntimeTypeOK /\ NodeTypeOK /\ PluginTypes => TopicTypeOK
    BY DEF PluginTypes, TopicTypeOK
  <1> QED
    BY <1>3, <1>4, ImplementsDriverNode, NodeTypeCorrect, PluginTypesHold, PTL

-----------------------------------------------------------------------------
(* What the plugin's answers have in common: once a call has seen that the *)
(* feedback is too old, every later look at it says so too, and nothing    *)
(* but age is ever wrong with it.                                          *)
LEMMA AnswersAgree ==
  ASSUME PluginTypes, NEW later \in {0, 1}
  PROVE  /\ Tolerable(topicHealth(later))
         /\ \/ feedbackUnavailable(topicHealth(later))
            \/ Recoverable(topicHealth(later))
         /\ readJointState \in {"noFeedback", "communication", "sample"}
         /\ readJointState = "communication" => feedbackUnavailable(topicHealth(later))
         /\ readJointState = "sample" => haveState /\ feedbackAge <= StateTimeout
         /\ readJointState = "noFeedback" => ~haveState
         /\ haveState => writeJointCommand # "failed"
         /\ haveState /\ writeJointCommand = "communication"
               => feedbackUnavailable(topicHealth(later))
  <1>1. feedbackAge \in Nat /\ grace \in Nat /\ StateTimeout \in Nat /\ StartupGrace \in Nat
    BY Limits DEF PluginTypes
  <1>2. /\ stateFresh(later) => stateFresh(0)
        /\ InGrace(later) => InGrace(0)
    BY <1>1 DEF stateFresh, InGrace
  <1>3. stateFresh(0) => haveState /\ feedbackAge <= StateTimeout
    BY <1>1 DEF stateFresh
  <1> DEFINE awaiting == ~haveState /\ InGrace(later)
  <1>4. /\ topicHealth(later).connected = TRUE /\ topicHealth(later).active = TRUE
        /\ awaiting \/ stateFresh(later) => /\ topicHealth(later).level \in {"ok", "warning"}
                                            /\ topicHealth(later).communicationOk
        /\ ~(awaiting \/ stateFresh(later)) => topicHealth(later).level = "stale"
    BY DEF topicHealth
  <1>5. awaiting \/ stateFresh(later) =>
           Recoverable(topicHealth(later)) /\ Tolerable(topicHealth(later))
    BY <1>4 DEF Recoverable, Tolerable
  <1>6. ~(awaiting \/ stateFresh(later)) =>
           feedbackUnavailable(topicHealth(later)) /\ Tolerable(topicHealth(later))
    BY <1>4 DEF feedbackUnavailable, Tolerable
  <1>7. /\ readJointState \in {"noFeedback", "communication", "sample"}
        /\ readJointState = "communication" => ~(awaiting \/ stateFresh(later))
        /\ readJointState = "sample" => haveState /\ feedbackAge <= StateTimeout
        /\ readJointState = "noFeedback" => ~haveState
    BY <1>2, <1>3 DEF readJointState
  <1>8. /\ haveState => writeJointCommand # "failed"
        /\ haveState /\ writeJointCommand = "communication" => ~(awaiting \/ stateFresh(later))
    BY <1>2 DEF writeJointCommand
  <1> HIDE DEF awaiting
  <1> QED
    BY <1>5, <1>6, <1>7, <1>8

(* How far feedback may have aged since the control tick that found it     *)
(* fresh; and, while the node has no feedback, what may still be moving.   *)
FeedbackKept ==
    /\ feedbackReady => haveState /\ feedbackAge <= FreshLimit + sinceControl
    /\ haveState => sourceAge <= feedbackAge
    /\ rosStarted /\ active
    /\ output = "motion" => feedbackReady \/ lastStopReason = "none"

(* A read that succeeds has seen a fresh sample of the plugin's.           *)
LEMMA SuccessIsFresh ==
  ASSUME PluginTypes, NEW health, NEW held,
         ReadSucceeds(readJointState, sampleAge, health, held)
  PROVE  haveState /\ feedbackAge <= FreshLimit
  <1>1. readJointState = "sample" /\ sampleAge < FeedbackMaxAge /\ sampleAge >= 0
    BY DEF ReadSucceeds, FreshSample
  <1>2. haveState /\ feedbackAge <= StateTimeout
    BY <1>1, AnswersAgree
  <1>3. feedbackAge <= FeedbackMaxAge - 1
    BY <1>1, Limits DEF sampleAge, Least, PluginTypes
  <1> QED
    BY <1>2, <1>3 DEF FreshLimit, Least

(* No read latches a fault.                                                *)
LEMMA SilentRead ==
  ASSUME PluginTypes, SilenceIsNotAFault, NEW later \in {0, 1}, NEW heldAgain,
         Read(readJointState, sampleAge, topicHealth(later), stopAll, heldAgain)
  PROVE  SilenceIsNotAFault'
  <1>1. ~ReadFails(readJointState, topicHealth(later), stopAll)
    BY AnswersAgree DEF ReadFails
  <1>2. ~ReadCannotRecover(readJointState, sampleAge, topicHealth(later), stopAll, heldAgain)
    BY AnswersAgree DEF ReadCannotRecover, Returning, stopAll
  <1> QED
    BY <1>1, <1>2
    DEF Read, ReadQuietly, ReadLosesFeedback, WaitForFeedback, ReadStillWaits, ReadRecovers,
        SilenceIsNotAFault, runtimeVars, flags

(* No write latches a fault, and no poll of the plugin's health.           *)
LEMMA SilentWrite ==
  ASSUME PluginTypes, SilenceIsNotAFault, haveState, NEW later \in {0, 1}, NEW command,
         Write(IF Expired(command) THEN "expired" ELSE writeJointCommand,
               topicHealth(later), stopAll)
  PROVE  SilenceIsNotAFault'
  <1> DEFINE answer == IF Expired(command) THEN "expired" ELSE writeJointCommand
  <1>1. /\ answer # "failed"
        /\ answer = "communication" => feedbackUnavailable(topicHealth(later))
    BY AnswersAgree
  <1>2. Write(answer, topicHealth(later), stopAll)
    OBVIOUS
  <1> HIDE DEF answer
  <1>3. ~WriteFails(answer, topicHealth(later), stopAll)
    BY <1>1 DEF WriteFails
  <1> QED
    BY <1>2, <1>3
    DEF Write, WriteRefused, WriteLosesFeedback, WaitForFeedback, WriteAccepted,
        SilenceIsNotAFault, flags

(* No poll of status() latches a fault.                                    *)
LEMMA SilentStatus ==
  ASSUME PluginTypes, SilenceIsNotAFault, NEW later \in {0, 1},
         Status(topicHealth(later), stopAll)
  PROVE  SilenceIsNotAFault'
  <1>1. Tolerable(topicHealth(later))
    BY AnswersAgree
  <1> QED
    BY <1>1 DEF Status, WaitForFeedback, SilenceIsNotAFault, runtimeVars, flags

(* No step latches a fault.                                                *)
LEMMA SilenceStep ==
  ASSUME PluginTypes, OnlyLive, FeedbackKept, SilenceIsNotAFault,
         [RosTopicNext]_rosTopicVars
  PROVE  SilenceIsNotAFault'
  <1>1. CASE UNCHANGED runtimeVars
    BY <1>1 DEF runtimeVars, flags, SilenceIsNotAFault
  <1>2. CASE \/ UNCHANGED rosTopicVars
             \/ \E age \in -Skew .. StateTimeout - 1 : StateCallback(age)
    BY <1>1, <1>2 DEF rosTopicVars, historyVars, nodeVars, StateCallback
  <1>3. CASE TopicTick
    BY <1>3 DEF TopicTick, NodeTick, Tick, flags, SilenceIsNotAFault
  <1>4. CASE TopicControl
    BY <1>4, SilentRead DEF TopicControl, ControlTick
  <1>5. CASE TopicHandlerStep
    <2>1. CASE Flush
      BY <1>1, <2>1 DEF Flush
    <2>2. CASE CallStop(stopAll)
      BY <1>1, <2>2 DEF CallStop, Stop, flags, SilenceIsNotAFault
    <2>3. CASE CallWatchdog(stopAll)
      BY <1>1, <2>3 DEF CallWatchdog, EnforceWatchdog, SilenceIsNotAFault
    <2>4. ASSUME NEW later \in {0, 1},
                 CallReady(topicHealth(later), stopAll) \/ CallEnable(topicHealth(later), stopAll)
          PROVE  SilenceIsNotAFault'
      BY <2>4, SilentStatus DEF CallReady, CallEnable
    <2>5. ASSUME NEW command \in batch, NEW later \in {0, 1},
                 WriteGroup(command, IF Expired(command) THEN "expired" ELSE writeJointCommand,
                            topicHealth(later), stopAll)
          PROVE  SilenceIsNotAFault'
      <3>1. haveState
        BY DEF OnlyLive, FeedbackKept
      <3> QED
        BY <2>5, <3>1, SilentWrite DEF WriteGroup
    <2> QED
      BY <1>5, <2>1, <2>2, <2>3, <2>4, <2>5 DEF TopicHandlerStep
  <1>6. CASE TopicInput
    <2>1. CASE \E later \in {0, 1} : PublishDiagnostics(topicHealth(later), stopAll)
      BY <2>1, SilentStatus DEF PublishDiagnostics
    <2> QED
      BY <1>1, <1>6, <2>1 DEF TopicInput, CommandCallback, EmergencyStop, OutputEnable
  <1> QED
    BY <1>2, <1>3, <1>4, <1>5, <1>6 DEF RosTopicNext

-----------------------------------------------------------------------------
(* Only a write sets anything in motion, and whatever changes the reason   *)
(* of the last stop ends a motion.                                         *)
LEMMA MotionInherited ==
  ASSUME \/ \E answer, age, health, held, heldAgain :
               Read(answer, age, health, held, heldAgain)
         \/ \E health, held : Status(health, held)
         \/ \E held : EnforceWatchdog(held) \/ Stop(FALSE, held)
  PROVE  /\ output' = "motion" => output = "motion" /\ lastStopReason' = lastStopReason
         /\ active' = active
  <1> DEFINE Inherited ==
        /\ output' = "motion" => output = "motion" /\ lastStopReason' = lastStopReason
        /\ active' = active
  <1>1. ASSUME NEW reason, NEW told, NEW held, LatchFault(reason, told, held)
        PROVE  Inherited
    BY <1>1, HoldEndsMotion DEF LatchFault
  <1>2. ASSUME NEW held, WaitForFeedback(output, held)
        PROVE  Inherited
    BY <1>2, HoldEndsMotion DEF WaitForFeedback
  <1>3. CASE UNCHANGED runtimeVars
    BY <1>3 DEF runtimeVars, flags
  <1>4. ASSUME NEW answer, NEW age, NEW health, NEW held,
               ReadRecovers(answer, age, health, held)
        PROVE  Inherited
    BY <1>4 DEF ReadRecovers, AfterStop
  <1>5. ASSUME NEW answer, NEW age, NEW health, NEW held, NEW heldAgain,
               Read(answer, age, health, held, heldAgain)
        PROVE  Inherited
    <2>1. CASE ReadQuietly(answer, age) \/ ReadStillWaits(answer, age, health)
      BY <1>3, <2>1 DEF ReadQuietly, ReadStillWaits
    <2>2. CASE ReadFails(answer, health, held)
      BY <1>1, <2>2 DEF ReadFails
    <2>3. CASE ReadLosesFeedback(answer, age, health, held)
      BY <1>2, <2>3 DEF ReadLosesFeedback
    <2>4. CASE ReadCannotRecover(answer, age, health, held, heldAgain)
      BY <1>1, <2>4 DEF ReadCannotRecover
    <2> QED
      BY <1>4, <1>5, <2>1, <2>2, <2>3, <2>4 DEF Read
  <1>6. ASSUME NEW health, NEW held, Status(health, held)
        PROVE  Inherited
    <2>1. CASE LatchFault("health", output, held)
      BY <1>1, <2>1
    <2>2. CASE WaitForFeedback(output, held)
      BY <1>2, <2>2
    <2> QED
      BY <1>3, <1>6, <2>1, <2>2 DEF Status
  <1>7. ASSUME NEW held, EnforceWatchdog(held) \/ Stop(FALSE, held)
        PROVE  Inherited
    BY <1>3, <1>7, HoldEndsMotion DEF EnforceWatchdog, Stop, flags
  <1> QED
    BY <1>5, <1>6, <1>7

(* A read that gives no sample in a node that had one ends any motion.     *)
LEMMA LossEndsMotion ==
  ASSUME PluginTypes, HaltedIsNotMoving, FeedbackKept, feedbackReady,
         NEW later \in {0, 1}, NEW heldAgain,
         Read(readJointState, sampleAge, topicHealth(later), stopAll, heldAgain),
         ~ReadSucceeds(readJointState, sampleAge, topicHealth(later), stopAll)
  PROVE  output' # "motion"
  <1>1. CASE output # "motion"
    BY <1>1, MotionInherited
  <1>2. CASE output = "motion"
    <2>1. ~driverFaultLatched /\ ~feedbackWaiting
      BY <1>2 DEF HaltedIsNotMoving, FeedbackKept
    <2>2. /\ readJointState \in {"communication", "sample"}
          /\ readJointState = "communication" => feedbackUnavailable(topicHealth(later))
      BY AnswersAgree DEF FeedbackKept
    <2>3. readJointState = "sample" => ~FreshSample(sampleAge)
      BY <2>1 DEF ReadSucceeds
    <2>4. ReadLosesFeedback(readJointState, sampleAge, topicHealth(later), stopAll)
      BY <2>1, <2>2, <2>3
      DEF Read, ReadQuietly, ReadFails, ReadStillWaits, ReadCannotRecover, ReadRecovers, Returning
    <2> QED
      BY <2>1, <2>4, HoldEndsMotion DEF ReadLosesFeedback, WaitForFeedback
  <1> QED
    BY <1>1, <1>2

(* A control tick renews what is known of the feedback, or ends the        *)
(* motion.                                                                 *)
LEMMA ControlKeepsFeedback ==
  ASSUME PluginTypes, HaltedIsNotMoving, FeedbackKept, TopicControl
  PROVE  FeedbackKept'
  <1>1. PICK later \in {0, 1} :
           ControlTick(readJointState, sampleAge, topicHealth(later), stopAll, stopAll)
    BY DEF TopicControl
  <1>2. /\ sinceControl' = 0
        /\ haveState' = haveState /\ feedbackAge' = feedbackAge /\ sourceAge' = sourceAge
    BY DEF TopicControl, topicVars
  <1>3. Read(readJointState, sampleAge, topicHealth(later), stopAll, stopAll)
    BY <1>1 DEF ControlTick
  <1>4. /\ output' = "motion" => output = "motion" /\ lastStopReason' = lastStopReason
        /\ active' = active /\ rosStarted' = rosStarted
    BY <1>1, <1>3, MotionInherited DEF ControlTick
  <1>5. CASE ReadSucceeds(readJointState, sampleAge, topicHealth(later), stopAll)
    <2>1. haveState /\ feedbackAge <= FreshLimit
      BY <1>5, SuccessIsFresh
    <2>2. feedbackReady'
      BY <1>1, <1>5 DEF ControlTick, FeedbackKept, FeedbackPresent
    <2>3. feedbackAge \in Nat /\ FreshLimit \in Nat
      BY Limits DEF PluginTypes
    <2> QED
      BY <1>2, <1>4, <2>1, <2>2, <2>3, Limits DEF FeedbackKept, FreshLimit
  <1>6. CASE ~ReadSucceeds(readJointState, sampleAge, topicHealth(later), stopAll)
    <2>1. ~feedbackReady'
      BY <1>1, <1>6 DEF ControlTick, FeedbackMissing
    <2>2. output' = "motion" => lastStopReason' = "none"
      BY <1>3, <1>4, <1>6, LossEndsMotion DEF FeedbackKept
    <2> QED
      BY <1>2, <1>4, <2>1, <2>2 DEF FeedbackKept
  <1> QED
    BY <1>5, <1>6

(* Every step keeps FeedbackKept.                                          *)
LEMMA KeptStep ==
  ASSUME PluginTypes, OnlyLive, HaltedIsNotMoving, FeedbackKept,
         [RosTopicNext]_rosTopicVars
  PROVE  FeedbackKept'
  <1> DEFINE Steady == UNCHANGED <<haveState, feedbackAge, sourceAge, sinceControl,
                                   feedbackReady, rosStarted>>
  <1>1. ASSUME Steady, active' = active,
               output' = "motion" => output = "motion" /\ lastStopReason' = lastStopReason
        PROVE  FeedbackKept'
    BY <1>1 DEF FeedbackKept, FreshLimit
  <1>2. ASSUME Steady, UNCHANGED runtimeVars
        PROVE  FeedbackKept'
    BY <1>1, <1>2 DEF runtimeVars, flags
  <1>3. CASE UNCHANGED rosTopicVars
    BY <1>2, <1>3 DEF rosTopicVars, historyVars, nodeVars, switchVars, topicVars
  <1>4. ASSUME NEW age \in -Skew .. StateTimeout - 1, StateCallback(age)
        PROVE  FeedbackKept'
    <2>1. /\ UNCHANGED <<feedbackReady, rosStarted, active, output, lastStopReason, sinceControl>>
          /\ haveState' /\ feedbackAge' = Received(age) /\ sourceAge' = age /\ age < sourceAge
      BY <1>4 DEF StateCallback, nodeVars, runtimeVars, flags, switchVars
    <2>2. /\ feedbackAge \in Nat /\ sourceAge \in Int /\ age \in Int
          /\ FreshLimit \in Nat /\ sinceControl \in Nat
      BY Limits DEF PluginTypes
    <2>3. sourceAge' <= feedbackAge'
      BY <2>1, <2>2 DEF Received
    <2>4. feedbackReady => feedbackAge' <= FreshLimit + sinceControl
      BY <2>1, <2>2 DEF Received, FeedbackKept
    <2> QED
      BY <2>1, <2>3, <2>4 DEF FeedbackKept, FreshLimit
  <1>5. CASE TopicTick
    <2>1. /\ UNCHANGED <<feedbackReady, rosStarted, active, output, lastStopReason, haveState>>
          /\ feedbackAge' = Least(feedbackAge + 1, OldestFeedback)
          /\ sourceAge' = Least(sourceAge + 1, StateTimeout)
          /\ sinceControl' = sinceControl + 1
      BY <1>5 DEF TopicTick, NodeTick, Tick, switchVars, flags
    <2>2. /\ feedbackAge \in Nat /\ sourceAge \in Int /\ FreshLimit \in Nat
          /\ sinceControl \in Nat
      BY Limits DEF PluginTypes
    <2>3. haveState => sourceAge' <= feedbackAge'
      BY <2>1, <2>2, Limits DEF Least, FeedbackKept
    <2>4. feedbackReady => feedbackAge' <= FreshLimit + sinceControl'
      BY <2>1, <2>2, Limits DEF Least, FeedbackKept
    <2> QED
      BY <2>1, <2>3, <2>4 DEF FeedbackKept, FreshLimit
  <1>6. CASE TopicControl
    BY <1>6, ControlKeepsFeedback
  <1>7. CASE TopicHandlerStep
    <2>1. UNCHANGED <<haveState, feedbackAge, sourceAge, sinceControl>>
      BY <1>7 DEF TopicHandlerStep, topicVars
    <2>2. CASE Flush
      BY <1>2, <2>1, <2>2 DEF Flush, switchVars
    <2>3. CASE CallStop(stopAll)
      BY <1>1, <2>1, <2>3, MotionInherited DEF CallStop, switchVars
    <2>4. CASE CallWatchdog(stopAll)
      <3>1. Steady
        BY <2>1, <2>4 DEF CallWatchdog, switchVars
      <3> QED
        BY <1>1, <1>2, <2>4, <3>1, MotionInherited DEF CallWatchdog
    <2>5. ASSUME NEW later \in {0, 1},
                 CallReady(topicHealth(later), stopAll) \/ CallEnable(topicHealth(later), stopAll)
          PROVE  FeedbackKept'
      BY <1>1, <2>1, <2>5, MotionInherited DEF CallReady, CallEnable
    <2>6. ASSUME NEW command \in batch, NEW answer, NEW health, NEW held,
                 WriteGroup(command, answer, health, held)
          PROVE  FeedbackKept'
      <3>1. feedbackReady
        BY DEF OnlyLive
      <3>2. active' = active
        <4>1. Write(answer, health, held)
          BY <2>6 DEF WriteGroup
        <4> QED
          BY <4>1 DEF Write, WriteRefused, WriteFails, LatchFault, WriteLosesFeedback,
                      WaitForFeedback, WriteAccepted, flags
      <3>3. UNCHANGED <<feedbackReady, rosStarted>>
        BY <2>6 DEF WriteGroup, switchVars
      <3> QED
        BY <2>1, <3>1, <3>2, <3>3 DEF FeedbackKept, FreshLimit
    <2> QED
      BY <1>7, <2>2, <2>3, <2>4, <2>5, <2>6 DEF TopicHandlerStep
  <1>8. CASE TopicInput
    <2>1. UNCHANGED <<haveState, feedbackAge, sourceAge, sinceControl>>
      BY <1>8 DEF TopicInput, topicVars
    <2>2. CASE \E later \in {0, 1} : PublishDiagnostics(topicHealth(later), stopAll)
      BY <1>1, <2>1, <2>2, MotionInherited DEF PublishDiagnostics, switchVars
    <2>3. CASE EmergencyStop \/ \E data \in BOOLEAN : OutputEnable(data)
      BY <1>2, <2>1, <2>3 DEF EmergencyStop, OutputEnable
    <2>4. CASE \E members \in (SUBSET Joints) \ {{}}, age \in StampAges :
                  CommandCallback(members, age)
      BY <1>2, <2>1, <2>4 DEF CommandCallback, switchVars
    <2> QED
      BY <1>8, <2>2, <2>3, <2>4 DEF TopicInput
  <1> QED
    BY <1>3, <1>4, <1>5, <1>6, <1>7, <1>8 DEF RosTopicNext

(* It holds in every behaviour.                                            *)
LEMMA KeptHolds == RosTopicSpec => []FeedbackKept
  <1>1. RosTopicInit => FeedbackKept
    BY DEF RosTopicInit, HistoryInit, NodeInit, TopicInit, FeedbackKept
  <1>2. PluginTypes /\ OnlyLive /\ HaltedIsNotMoving /\ FeedbackKept
          /\ [RosTopicNext]_rosTopicVars => FeedbackKept'
    BY KeptStep
  <1> QED
    BY <1>1, <1>2, PluginTypesHold, ImplementsDriverNode, LiveHolds, HaltedInNode, PTL
    DEF RosTopicSpec

(* SilenceIsNotAFault: however late, lost, repeated or absent the feedback,*)
(* and at whichever call it is missed, the built-in plugin never makes the *)
(* runtime latch a fault.                                                  *)
THEOREM SilenceHolds == RosTopicSpec => []SilenceIsNotAFault
  <1>1. RosTopicInit => SilenceIsNotAFault
    BY DEF RosTopicInit, HistoryInit, NodeInit, SilenceIsNotAFault
  <1>2. PluginTypes /\ OnlyLive /\ FeedbackKept /\ SilenceIsNotAFault
          /\ [RosTopicNext]_rosTopicVars => SilenceIsNotAFault'
    BY SilenceStep
  <1> QED
    BY <1>1, <1>2, PluginTypesHold, ImplementsDriverNode, LiveHolds, KeptHolds, PTL
    DEF RosTopicSpec

(* MotionHasFeedback: a robot in motion was seen no longer ago than the    *)
(* stricter limit and one control period, but for an inherited motion.     *)
THEOREM MotionHolds == RosTopicSpec => []MotionHasFeedback
  <1>1. PluginTypes /\ FeedbackKept => MotionHasFeedback
    <2> SUFFICES ASSUME PluginTypes, FeedbackKept PROVE MotionHasFeedback
      OBVIOUS
    <2>1. /\ feedbackAge \in Nat /\ FreshLimit \in Nat
          /\ sinceControl \in 0 .. ControlPeriod /\ ControlPeriod \in Nat
      BY Limits DEF PluginTypes
    <2>2. feedbackReady => haveState /\ feedbackAge <= FreshLimit + ControlPeriod
      BY <2>1 DEF FeedbackKept
    <2> QED
      BY <2>2 DEF FeedbackKept, MotionHasFeedback
  <1> QED
    BY <1>1, PluginTypesHold, KeptHolds, PTL
-----------------------------------------------------------------------------
(* Strengthening of MotionIsRenewed: a motion that is due to be ended has  *)
(* the watchdog among the calls left to make, or time has passed since the *)
(* last control tick, which put it there.                                  *)
WatchdogComes ==
    output = "motion" /\ commandAge > WatchdogTimeout
        => sinceControl > 0 \/ Among("watchdog", todo)

(* Every control tick, with feedback or without, leaves the watchdog to be *)
(* called.                                                                 *)
LEMMA WatchdogCalls ==
  ASSUME NEW last \in {<<>>, <<"flush">>}
  PROVE  /\ Among("watchdog", PublishReady \o <<"watchdog">>)
         /\ Among("watchdog", RevokeCalls \o PublishReady \o <<"watchdog">>)
         /\ Among("watchdog", <<"watchdog">> \o PublishReady \o last)
  <1>1. "watchdog" \in Calls /\ "flush" \in Calls
    BY DEF Calls
  <1>2. <<"watchdog">> \in Seq(Calls) /\ Among("watchdog", <<"watchdog">>)
    BY <1>1, OneCall
  <1>3. last \in Seq(Calls)
    BY <1>1, OneCall
  <1>4. PublishReady \in Seq(Calls)
    BY ReadyAmong
  <1>5. RevokeCalls \in Seq(Calls) /\ RevokeCalls \o PublishReady \in Seq(Calls)
    BY <1>4, RevokeAmong
  <1>6. Among("watchdog", PublishReady \o <<"watchdog">>)
    BY <1>2, <1>4, ConcatAmong
  <1>7. Among("watchdog", (RevokeCalls \o PublishReady) \o <<"watchdog">>)
    BY <1>2, <1>5, ConcatAmong
  <1>8. /\ <<"watchdog">> \o PublishReady \in Seq(Calls)
        /\ Among("watchdog", <<"watchdog">> \o PublishReady)
    BY <1>2, <1>4, ConcatAmong
  <1>9. Among("watchdog", (<<"watchdog">> \o PublishReady) \o last)
    BY <1>3, <1>8, ConcatAmong
  <1> QED
    BY <1>6, <1>7, <1>9

(* Reading, polling, stopping and the watchdog leave the time of the last  *)
(* command alone.                                                          *)
LEMMA CommandTimeKept ==
  ASSUME \/ \E answer, age, health, held, heldAgain :
               Read(answer, age, health, held, heldAgain)
         \/ \E health, held : Status(health, held)
         \/ \E held : EnforceWatchdog(held) \/ Stop(FALSE, held)
  PROVE  commandAge' = commandAge
  <1>1. ASSUME NEW reason, NEW told, NEW held, LatchFault(reason, told, held)
        PROVE  commandAge' = commandAge
    BY <1>1 DEF LatchFault
  <1>2. ASSUME NEW told, NEW held, WaitForFeedback(told, held)
        PROVE  commandAge' = commandAge
    BY <1>2 DEF WaitForFeedback
  <1>3. ASSUME NEW answer, NEW age, NEW health, NEW held, NEW heldAgain,
               Read(answer, age, health, held, heldAgain)
        PROVE  commandAge' = commandAge
    BY <1>1, <1>2, <1>3
    DEF Read, ReadQuietly, ReadFails, ReadLosesFeedback, ReadStillWaits, ReadCannotRecover,
        ReadRecovers, runtimeVars
  <1>4. ASSUME NEW health, NEW held, Status(health, held)
        PROVE  commandAge' = commandAge
    BY <1>1, <1>2, <1>4 DEF Status, runtimeVars
  <1>5. ASSUME NEW held, EnforceWatchdog(held) \/ Stop(FALSE, held)
        PROVE  commandAge' = commandAge
    BY <1>5 DEF EnforceWatchdog, Stop, runtimeVars
  <1> QED
    BY <1>3, <1>4, <1>5

(* A robot that moves after a write moves by a command that was accepted   *)
(* now, or as it did before.                                               *)
LEMMA WriteRenews ==
  ASSUME NEW answer, NEW health, NEW held, Write(answer, health, held)
  PROVE  output' = "motion" => \/ commandAge' = 0
                               \/ output = "motion" /\ commandAge' = commandAge
  <1>1. ASSUME NEW reason, NEW told, LatchFault(reason, told, held)
        PROVE  output' # "motion"
    BY <1>1, HoldEndsMotion DEF LatchFault
  <1>2. CASE WriteRefused(answer)
    BY <1>2 DEF WriteRefused
  <1>3. CASE WriteFails(answer, health, held)
    BY <1>1, <1>3 DEF WriteFails
  <1>4. CASE WriteLosesFeedback(answer, health, held)
    <2>1. WaitForFeedback("motion", held) /\ ~feedbackWaiting
      BY <1>4 DEF WriteLosesFeedback, ReachesPlugin
    <2> QED
      BY <2>1, HoldEndsMotion DEF WaitForFeedback
  <1>5. CASE WriteAccepted(answer)
    BY <1>5 DEF WriteAccepted
  <1> QED
    BY <1>2, <1>3, <1>4, <1>5 DEF Write

(* Every step keeps WatchdogComes.                                         *)
LEMMA WatchdogStep ==
  ASSUME PluginTypes, RuntimeTypeOK, OnlyLive, HaltedIsNotMoving, FeedbackKept, WatchdogComes,
         [RosTopicNext]_rosTopicVars
  PROVE  WatchdogComes'
  <1>0. /\ sinceControl \in Nat /\ commandAge \in Nat /\ WatchdogTimeout \in Nat \ {0}
        /\ todo \in Seq(Calls)
    BY Limits, WatchdogAssumption DEF PluginTypes, RuntimeTypeOK, Ages, OnlyLive
  <1>1. ASSUME sinceControl' = sinceControl, commandAge' = commandAge,
               output' = "motion" => output = "motion",
               Among("watchdog", todo) => Among("watchdog", todo')
        PROVE  WatchdogComes'
    BY <1>1 DEF WatchdogComes, Among
  <1>2. ASSUME sinceControl' = sinceControl, UNCHANGED runtimeVars,
               Idle \/ todo' = todo \/ \E call \in {"flush", "stop"} : Calling(call)
        PROVE  WatchdogComes'
    <2>1. commandAge' = commandAge /\ output' = output
      BY <1>2 DEF runtimeVars
    <2>2. Among("watchdog", todo) => Among("watchdog", todo')
      <3>1. CASE Idle
        BY <3>1 DEF Idle, Among
      <3>2. CASE todo' = todo
        BY <3>2
      <3>3. ASSUME NEW call \in {"flush", "stop"}, Calling(call)
            PROVE  Among("watchdog", todo) => Among("watchdog", todo')
        BY <1>0, <3>3, CallingAmong
      <3> QED
        BY <1>2, <3>1, <3>2, <3>3
    <2> QED
      BY <1>1, <1>2, <2>1, <2>2
  <1>3. CASE UNCHANGED rosTopicVars
    BY <1>2, <1>3 DEF rosTopicVars, historyVars, nodeVars, handlerVars
  <1>4. ASSUME NEW age \in -Skew .. StateTimeout - 1, StateCallback(age)
        PROVE  WatchdogComes'
    BY <1>2, <1>4 DEF StateCallback, nodeVars
  <1>5. CASE TopicTick
    <2>1. sinceControl' > 0
      BY <1>0, <1>5 DEF TopicTick
    <2> QED
      BY <2>1 DEF WatchdogComes
  <1>6. CASE TopicControl
    <2>1. PICK later \in {0, 1} :
             ControlTick(readJointState, sampleAge, topicHealth(later), stopAll, stopAll)
      BY <1>6 DEF TopicControl
    <2>2. PICK last \in {<<>>, <<"flush">>} :
             \/ todo' = PublishReady \o <<"watchdog">>
             \/ todo' = RevokeCalls \o PublishReady \o <<"watchdog">>
             \/ todo' = <<"watchdog">> \o PublishReady \o last
      BY <2>1 DEF ControlTick, FeedbackMissing, FeedbackPresent
    <2>3. Among("watchdog", todo')
      BY <2>2, WatchdogCalls
    <2> QED
      BY <2>3 DEF WatchdogComes, Among
  <1>7. CASE TopicHandlerStep
    <2>1. sinceControl' = sinceControl
      BY <1>7 DEF TopicHandlerStep
    <2>2. CASE Flush
      BY <1>2, <2>1, <2>2 DEF Flush
    <2>3. CASE CallStop(stopAll)
               \/ \E later \in {0, 1} : \/ CallReady(topicHealth(later), stopAll)
                                        \/ CallEnable(topicHealth(later), stopAll)
      <3>1. PICK call \in {"stop", "ready", "enable"} : Calling(call)
        BY <2>3 DEF CallStop, CallReady, CallEnable
      <3>2. Among("watchdog", todo) => Among("watchdog", todo')
        BY <1>0, <3>1, CallingAmong
      <3>3. Stop(FALSE, stopAll) \/ \E later \in {0, 1} : Status(topicHealth(later), stopAll)
        BY <2>3 DEF CallStop, CallReady, CallEnable
      <3> QED
        BY <1>1, <2>1, <3>2, <3>3, CommandTimeKept, MotionInherited
    <2>4. CASE CallWatchdog(stopAll)
      <3>1. CASE EnforceWatchdog(stopAll)
        BY <3>1, HoldEndsMotion DEF EnforceWatchdog, WatchdogComes
      <3>2. CASE ~WatchdogDue /\ UNCHANGED runtimeVars
        <4>1. output = "motion" => commandAge <= WatchdogTimeout
          BY <1>0, <3>2 DEF WatchdogDue, HaltedIsNotMoving, FeedbackKept
        <4>2. output' = output /\ commandAge' = commandAge
          BY <3>2 DEF runtimeVars
        <4> QED
          BY <1>0, <4>1, <4>2 DEF WatchdogComes
      <3> QED
        BY <2>4, <3>1, <3>2 DEF CallWatchdog
    <2>5. ASSUME NEW command \in batch, NEW answer, NEW health, NEW held,
                 WriteGroup(command, answer, health, held)
          PROVE  WatchdogComes'
      <3>1. Write(answer, health, held) /\ todo' = todo
        BY <2>5 DEF WriteGroup
      <3>2. CASE output' # "motion"
        BY <3>2 DEF WatchdogComes
      <3>3. CASE output' = "motion" /\ commandAge' = 0
        BY <1>0, <3>3 DEF WatchdogComes
      <3>4. CASE output = "motion" /\ commandAge' = commandAge
        BY <1>1, <2>1, <3>1, <3>4
      <3> QED
        BY <3>1, <3>2, <3>3, <3>4, WriteRenews
    <2> QED
      BY <1>7, <2>2, <2>3, <2>4, <2>5 DEF TopicHandlerStep
  <1>8. CASE TopicInput
    <2>1. sinceControl' = sinceControl
      BY <1>8 DEF TopicInput
    <2>2. CASE \E later \in {0, 1} : PublishDiagnostics(topicHealth(later), stopAll)
      <3>1. (\E later \in {0, 1} : Status(topicHealth(later), stopAll)) /\ todo' = todo
        BY <2>2 DEF PublishDiagnostics, handlerVars
      <3> QED
        BY <1>1, <2>1, <3>1, CommandTimeKept, MotionInherited
    <2>3. CASE \/ EmergencyStop
               \/ \E data \in BOOLEAN : OutputEnable(data)
               \/ \E members \in (SUBSET Joints) \ {{}}, age \in StampAges :
                     CommandCallback(members, age)
      BY <1>2, <2>1, <2>3 DEF EmergencyStop, OutputEnable, CommandCallback
    <2> QED
      BY <1>8, <2>2, <2>3 DEF TopicInput
  <1> QED
    BY <1>3, <1>4, <1>5, <1>6, <1>7, <1>8 DEF RosTopicNext

(* MotionIsRenewed: for every timeout and period, a control tick leaves no *)
(* motion behind whose last command is older than the watchdog allows.     *)
THEOREM RenewedHolds == RosTopicSpec => []MotionIsRenewed
  <1>1. RosTopicInit => WatchdogComes
    BY WatchdogAssumption DEF RosTopicInit, HistoryInit, NodeInit, WatchdogComes
  <1>2. /\ PluginTypes /\ RuntimeTypeOK /\ OnlyLive /\ HaltedIsNotMoving
        /\ FeedbackKept /\ WatchdogComes /\ [RosTopicNext]_rosTopicVars
        => WatchdogComes'
    BY WatchdogStep
  <1>3. RuntimeTypeOK /\ WatchdogComes => MotionIsRenewed
    <2> SUFFICES ASSUME RuntimeTypeOK, WatchdogComes PROVE MotionIsRenewed
      OBVIOUS
    <2>1. commandAge \in Nat /\ WatchdogTimeout \in Nat
      BY WatchdogAssumption DEF RuntimeTypeOK, Ages
    <2>2. Idle => ~Among("watchdog", todo)
      BY DEF Idle, Among
    <2> QED
      BY <2>1, <2>2 DEF WatchdogComes, MotionIsRenewed
  <1>4. TopicTypeOK => RuntimeTypeOK
    BY DEF TopicTypeOK
  <1> QED
    BY <1>1, <1>2, <1>3, <1>4, PluginTypesHold, TopicTypeCorrect, ImplementsDriverNode,
       LiveHolds, HaltedInNode, KeptHolds, PTL
    DEF RosTopicSpec
-----------------------------------------------------------------------------
(* A control tick during which the feedback stays fresh.                   *)
FreshControl == TopicControl /\ haveState /\ feedbackAge < Least(StateTimeout, FeedbackMaxAge)

(* Such a tick reads a sample the runtime accepts, and meets a health it   *)
(* recovers on.                                                            *)
LEMMA FreshControlRecovers ==
  ASSUME PluginTypes, FeedbackKept, SilenceIsNotAFault, FreshControl
  PROVE  ~feedbackWaiting' /\ ~driverFaultLatched' /\ feedbackReady'
  <1>1. PICK later \in {0, 1} :
           ControlTick(readJointState, sampleAge, topicHealth(later), stopAll, stopAll)
    BY DEF FreshControl, TopicControl
  <1> DEFINE health == topicHealth(later)
  <1>2. /\ feedbackAge \in Nat /\ StateTimeout \in Nat /\ FeedbackMaxAge \in Nat
        /\ feedbackAge < StateTimeout /\ feedbackAge < FeedbackMaxAge
    BY Limits DEF PluginTypes, FreshControl, Least
  <1>3. haveState /\ ~driverFaultLatched /\ rosStarted
    BY DEF FreshControl, SilenceIsNotAFault, FeedbackKept
  <1>4. stateFresh(0) /\ stateFresh(later)
    BY <1>2, <1>3 DEF stateFresh
  <1>5. readJointState = "sample" /\ FreshSample(sampleAge) /\ stopAll
    BY <1>2, <1>3, <1>4 DEF readJointState, FreshSample, sampleAge, Least, stopAll
  <1>6. /\ health.level \in {"ok", "warning"}
        /\ health.communicationOk = TRUE /\ health.connected = TRUE /\ health.active = TRUE
    BY <1>3, <1>4 DEF topicHealth
  <1>7. Recoverable(health) /\ ~feedbackUnavailable(health)
    BY <1>6 DEF Recoverable, feedbackUnavailable
  <1> HIDE DEF health
  <1>8. Read(readJointState, sampleAge, health, stopAll, stopAll)
    BY <1>1 DEF ControlTick, health
  <1>9. ~feedbackWaiting' /\ ~driverFaultLatched'
    <2>1. \/ ReadQuietly(readJointState, sampleAge) /\ ~feedbackWaiting
          \/ ReadRecovers(readJointState, sampleAge, health, stopAll)
      BY <1>3, <1>5, <1>7, <1>8
      DEF Read, ReadQuietly, ReadFails, ReadLosesFeedback, ReadStillWaits, ReadCannotRecover
    <2> QED
      BY <1>3, <2>1 DEF ReadQuietly, ReadRecovers, runtimeVars, flags
  <1>10. ReadSucceeds(readJointState, sampleAge, health, stopAll)
    BY <1>3, <1>5, <1>7 DEF ReadSucceeds
  <1>11. feedbackReady'
    BY <1>1, <1>3, <1>10 DEF ControlTick, FeedbackPresent, health
  <1> QED
    BY <1>9, <1>11

(* The step that FeedbackRecovers waits for cannot be refused: every       *)
(* control tick that meets feedback fresh enough for the calls it makes    *)
(* ends the wait, whatever had happened before, and the node knows of it.  *)
THEOREM FreshFeedbackRecovers ==
  RosTopicSpec =>
    [][FreshControl => ~feedbackWaiting' /\ ~driverFaultLatched' /\ feedbackReady']_rosTopicVars
  <1>1. PluginTypes /\ FeedbackKept /\ SilenceIsNotAFault /\ [RosTopicNext]_rosTopicVars
          => [FreshControl => ~feedbackWaiting' /\ ~driverFaultLatched'
                                /\ feedbackReady']_rosTopicVars
    BY FreshControlRecovers
  <1> QED
    BY <1>1, PluginTypesHold, KeptHolds, SilenceHolds, PTL DEF RosTopicSpec
=============================================================================
