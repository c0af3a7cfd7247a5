------------------------ MODULE RosTopicOutputProofs ------------------------
(***************************************************************************)
(* Proofs about RosTopicOutput, for every set of joints, every grouping,   *)
(* every conversion and every place where a publication may fail.          *)
(***************************************************************************)
EXTENDS RosTopicOutput, DriverRuntimeProofs

(* What the driver answers is among the answers DriverRuntime allows for.  *)
LEMMA OutputAnswers ==
  ASSUME fresh \in BOOLEAN, awaiting \in BOOLEAN, haveState \in BOOLEAN,
         NEW isFresh \in BOOLEAN, NEW done
  PROVE  /\ readJointState \in ReadAnswers
         /\ health(isFresh) \in PluginHealths
         /\ Held(done) \in BOOLEAN
  <1>1. readJointState \in ReadAnswers
    BY DEF readJointState, ReadAnswers
  <1>2. health(isFresh) \in PluginHealths
    <2> DEFINE h == health(isFresh)
    <2>1. /\ h.level \in {"ok", "warning", "stale"} /\ h.connected \in {TRUE}
          /\ h.active \in {TRUE} /\ h.communicationOk \in BOOLEAN
      BY DEF health
    <2>2. h = [level |-> h.level, connected |-> h.connected, active |-> h.active,
               communicationOk |-> h.communicationOk]
      BY DEF health
    <2> HIDE DEF h
    <2>3. h \in [level : {"ok", "warning", "stale"}, connected : {TRUE}, active : {TRUE},
                 communicationOk : BOOLEAN]
      BY <2>1, <2>2
    <2> QED
      BY <2>3, OutputHealthAssumption DEF h
  <1>3. Held(done) \in BOOLEAN
    BY DEF Held
  <1> QED
    BY <1>1, <1>2, <1>3

(* The members that are conditions stay conditions.                        *)
Conditions == fresh \in BOOLEAN /\ awaiting \in BOOLEAN /\ haveState \in BOOLEAN

(* Every step keeps them conditions.                                       *)
LEMMA ConditionsStep ==
  ASSUME Conditions, [OutputNext]_outputVars
  PROVE  Conditions'
  <1> USE DEF Conditions
  <1>1. ASSUME UNCHANGED feedbackVars
        PROVE  Conditions'
    BY <1>1 DEF feedbackVars
  <1>2. ASSUME NEW lapses, BecomesStale(lapses)
        PROVE  Conditions'
    BY <1>2 DEF BecomesStale
  <1>3. CASE UNCHANGED outputVars
    BY <1>1, <1>3 DEF outputVars
  <1>4. CASE \/ \E byGroup \in BOOLEAN : Configure(byGroup)
             \/ \E position \in VendorPositions : StateCallback(position)
    BY <1>4 DEF Configure, StateCallback
  <1>5. CASE TimePasses
    BY <1>1, <1>2, <1>5 DEF TimePasses
  <1>6. CASE ConfigureFails \/ ProcessDies
    BY <1>1, <1>6 DEF ConfigureFails, ProcessDies
  <1>7. ASSUME NEW done,
               \/ Shutdown(done) \/ OutputStatus(done) \/ OutputStop(done) \/ OutputWatchdog(done)
               \/ \E answer : OutputWriteRefused(answer, done)
        PROVE  Conditions'
    BY <1>1, <1>7 DEF Shutdown, OutputStatus, OutputStop, OutputWatchdog, OutputWriteRefused
  <1>8. ASSUME NEW age, NEW lapses, NEW done, NEW again, OutputRead(age, lapses, done, again)
        PROVE  Conditions'
    BY <1>2, <1>8 DEF OutputRead
  <1>9. ASSUME NEW command, OutputWriteAccepted(command)
        PROVE  Conditions'
    BY <1>1, <1>9 DEF OutputWriteAccepted
  <1>10. ASSUME NEW command, NEW sent, NEW lapses, NEW again,
                OutputWriteFails(command, sent, lapses, again)
         PROVE  Conditions'
    BY <1>2, <1>10 DEF OutputWriteFails
  <1> QED
    BY <1>3, <1>4, <1>5, <1>6, <1>7, <1>8, <1>9, <1>10 DEF OutputNext

(* Each of the driver's publications comes with the call of the runtime    *)
(* that caused it: with these answers, it is a step of DriverRuntime.      *)
LEMMA OutputSimulates ==
  ASSUME Conditions, [OutputNext]_outputVars
  PROVE  [Next]_runtimeVars
  <1> USE DEF Conditions
  <1>1. CASE UNCHANGED outputVars
    BY <1>1 DEF outputVars
  <1>2. CASE \E byGroup \in BOOLEAN : Configure(byGroup)
    BY <1>2 DEF Configure, Next
  <1>3. CASE ConfigureFails \/ ProcessDies
    BY <1>3 DEF ConfigureFails, ProcessDies, Next
  <1>4. CASE \E position \in VendorPositions : StateCallback(position)
    BY <1>4 DEF StateCallback
  <1>5. CASE TimePasses
    BY <1>5 DEF TimePasses, Next
  <1>6. ASSUME NEW done, Shutdown(done) \/ OutputStop(done) \/ OutputWatchdog(done)
        PROVE  Next
    <2>1. Held(done) \in BOOLEAN
      BY OutputAnswers
    <2> QED
      BY <1>6, <2>1 DEF Shutdown, OutputStop, OutputWatchdog, Next
  <1>7. ASSUME NEW done, OutputStatus(done)
        PROVE  Next
    <2>1. Held(done) \in BOOLEAN /\ health(fresh) \in PluginHealths
      BY OutputAnswers
    <2> QED
      BY <1>7, <2>1 DEF OutputStatus, Next
  <1>8. ASSUME NEW answer \in {"invalid", "accepted"}, NEW done, OutputWriteRefused(answer, done)
        PROVE  Next
    <2>1. /\ Held(done) \in BOOLEAN /\ health(FALSE) \in PluginHealths
          /\ {"invalid", "accepted", "failed", "communication"} \subseteq WriteAnswers
      BY OutputAnswers DEF WriteAnswers
    <2>2. \/ Write(answer, health(FALSE), Held(done))
          \/ Write("failed", health(FALSE), FALSE)
          \/ Write("communication", health(FALSE), Held(done))
      BY <1>8 DEF OutputWriteRefused, Write
    <2> QED
      BY <2>1, <2>2 DEF Next
  <1>9. ASSUME NEW age \in 0 .. FeedbackMaxAge, NEW lapses \in BOOLEAN, NEW done, NEW again,
               OutputRead(age, lapses, done, again)
        PROVE  Next
    <2>1. /\ Held(done) \in BOOLEAN /\ Held(again) \in BOOLEAN /\ readJointState \in ReadAnswers
          /\ health(fresh /\ ~lapses) \in PluginHealths
      BY OutputAnswers
    <2>2. age \in SampleAges
      BY FeedbackAssumption DEF SampleAges
    <2>3. Read(readJointState, age, health(fresh /\ ~lapses), Held(done), Held(again))
      BY <1>9 DEF OutputRead, Read
    <2> QED
      BY <2>1, <2>2, <2>3 DEF Next
  <1>10. ASSUME NEW command, OutputWriteAccepted(command)
         PROVE  Next
    <2>1. health(FALSE) \in PluginHealths /\ "accepted" \in WriteAnswers
      BY OutputAnswers DEF WriteAnswers
    <2>2. Write("accepted", health(FALSE), FALSE)
      BY <1>10 DEF OutputWriteAccepted, Write
    <2> QED
      BY <2>1, <2>2 DEF Next
  <1>11. ASSUME NEW command, NEW sent, NEW lapses \in BOOLEAN, NEW again,
                OutputWriteFails(command, sent, lapses, again)
         PROVE  Next
    <2>1. /\ health(fresh /\ ~lapses) \in PluginHealths /\ Held(again) \in BOOLEAN
          /\ "communication" \in WriteAnswers
      BY OutputAnswers DEF WriteAnswers
    <2>2. Write("communication", health(fresh /\ ~lapses), Held(again))
      BY <1>11 DEF OutputWriteFails, Write
    <2> QED
      BY <2>1, <2>2 DEF Next
  <1> QED
    BY <1>1, <1>2, <1>3, <1>4, <1>5, <1>6, <1>7, <1>8, <1>9, <1>10, <1>11 DEF OutputNext

(* The runtime with the ROS topic plugin implements DriverRuntime over a   *)
(* plugin that answers anything, however its publications fail.            *)
THEOREM OutputImplementsRuntime == OutputSpec => Spec
  <1>1. OutputInit => Init /\ Conditions
    BY DEF OutputInit, Conditions
  <1>2. Conditions /\ [OutputNext]_outputVars => [Next]_runtimeVars /\ Conditions'
    BY OutputSimulates, ConditionsStep
  <1> QED
    BY <1>1, <1>2, PTL DEF OutputSpec, Spec

(* Hence it is a MotionGate, and HaltedIsNotMoving holds of it.            *)
THEOREM OutputIsGate == OutputSpec => ImplementsGate /\ []HaltedIsNotMoving
  BY OutputImplementsRuntime, GateRefinement, HaltedHolds, PTL

-----------------------------------------------------------------------------
(* A step that only fails or waits keeps a torn robot halted.              *)
LEMMA TornStep ==
  ASSUME TornIsHalted, [OutputNext]_outputVars
  PROVE  TornIsHalted'
  <1> USE DEF TornIsHalted
  <1>1. CASE UNCHANGED outputVars
    BY <1>1 DEF outputVars, runtimeVars, flags, publishedVars
  <1>2. CASE \E byGroup \in BOOLEAN : Configure(byGroup)
    BY <1>2 DEF Configure
  <1>3. CASE ConfigureFails
    BY <1>3 DEF ConfigureFails, ConstructFails, flags
  <1>4. CASE ProcessDies \/ \E done \in SUBSET Groups : Shutdown(done)
    BY <1>4 DEF ProcessDies, Crash, Shutdown, Destroy
  <1>5. CASE \E position \in VendorPositions : StateCallback(position)
    BY <1>5 DEF StateCallback, runtimeVars, flags
  <1>6. CASE TimePasses
    BY <1>6 DEF TimePasses, BecomesStale, Silent, Tick, runtimeVars, flags
  <1>7. CASE \E done \in SUBSET Groups : OutputStatus(done)
    BY <1>7 DEF OutputStatus, Status, WaitForFeedback, LatchFault, Silent, StopAll, stopAll,
                runtimeVars, flags
  <1>8. CASE \E done \in SUBSET Groups : OutputStop(done)
    BY <1>8 DEF OutputStop, Stop, Silent, StopAll, stopAll, runtimeVars, flags
  <1>9. CASE \E done \in SUBSET Groups : OutputWatchdog(done)
    BY <1>9 DEF OutputWatchdog, EnforceWatchdog, StopAll, stopAll
  <1>10. CASE \E done \in SUBSET Groups, answer \in {"invalid", "accepted"} :
                 OutputWriteRefused(answer, done)
    <2> PICK done \in SUBSET Groups, answer \in {"invalid", "accepted"} :
             OutputWriteRefused(answer, done)
      BY <1>10
    <2>1. CASE WriteRefused(answer) /\ Silent
      BY <2>1 DEF WriteRefused, Silent, flags
    <2>2. CASE WriteFails("failed", health(FALSE), FALSE)
      BY <2>2 DEF WriteFails, LatchFault
    <2>3. CASE WriteLosesFeedback("communication", health(FALSE), Held(done))
      BY <2>3 DEF WriteLosesFeedback, WaitForFeedback
    <2> QED
      BY <2>1, <2>2, <2>3 DEF OutputWriteRefused
  <1>11. CASE \E done, again \in SUBSET Groups, age \in 0 .. FeedbackMaxAge, lapses \in BOOLEAN :
                 OutputRead(age, lapses, done, again)
    <2> PICK done \in SUBSET Groups, again \in SUBSET Groups, age \in 0 .. FeedbackMaxAge,
             lapses \in BOOLEAN : OutputRead(age, lapses, done, again)
      BY <1>11
    <2> DEFINE later == health(fresh /\ ~lapses)
    <2>1. CASE ReadQuietly(readJointState, age) /\ Silent
      BY <2>1 DEF ReadQuietly, Silent, runtimeVars, flags
    <2>2. CASE ReadStillWaits(readJointState, age, later) /\ Silent
      BY <2>2 DEF ReadStillWaits, Silent, runtimeVars, flags
    <2>3. CASE ReadLosesFeedback(readJointState, age, later, Held(done))
      BY <2>3 DEF ReadLosesFeedback, WaitForFeedback
    <2>4. CASE ReadRecovers(readJointState, age, later, Held(done)) /\ StopAll(done)
      BY <2>4 DEF ReadRecovers, StopAll, stopAll
    <2>5. CASE ReadCannotRecover(readJointState, age, later, Held(done), Held(again))
      BY <2>5 DEF ReadCannotRecover, LatchFault
    <2> QED
      BY <2>1, <2>2, <2>3, <2>4, <2>5 DEF OutputRead
  <1>12. CASE \E command \in OutputCommands : OutputWriteAccepted(command)
    BY <1>12 DEF OutputWriteAccepted, WriteAccepted, ReachesPlugin
  <1>13. CASE \E command \in OutputCommands, sent, again \in SUBSET Groups, lapses \in BOOLEAN :
                 OutputWriteFails(command, sent, lapses, again)
    BY <1>13 DEF OutputWriteFails, WriteFails, WriteLosesFeedback, LatchFault, WaitForFeedback
  <1> QED
    BY <1>1, <1>2, <1>3, <1>4, <1>5, <1>6, <1>7, <1>8, <1>9, <1>10, <1>11, <1>12, <1>13
       DEF OutputNext

(* TornIsHalted: a command of which only some groups were sent their part  *)
(* is followed by a fault, or by a wait that ends with a complete hold.    *)
THEOREM TornHolds == OutputSpec => []TornIsHalted
  <1>1. OutputInit => TornIsHalted
    BY DEF OutputInit, TornIsHalted
  <1>2. TornIsHalted /\ [OutputNext]_outputVars => TornIsHalted'
    BY TornStep
  <1> QED
    BY <1>1, <1>2, PTL DEF OutputSpec

-----------------------------------------------------------------------------
(* The inductive invariant: with the first sample there is a target of     *)
(* every joint, and nothing was sent before it.                            *)
TargetsInv ==
    /\ fresh => haveState
    /\ haveState => DOMAIN targets = Joints
    /\ ~haveState => targets = Nothing /\ DOMAIN told = {}
    /\ DOMAIN told \subseteq Joints
    /\ Remembered

(* A message reaches joints of the groups that were published, and names   *)
(* none if none was.                                                       *)
LEMMA SentDomain ==
  ASSUME NEW command, NEW done
  PROVE  /\ DOMAIN Sent(command, done) \subseteq Joints
         /\ done = {} => DOMAIN Sent(command, done) = {}
  BY DEF Sent

(* A complete hold reaches every joint with the target that is remembered. *)
LEMMA CompleteHold ==
  ASSUME haveState, DOMAIN targets = Joints, NEW done, Held(done)
  PROVE  /\ DOMAIN Sent(HoldCommand, done) = Joints
         /\ DOMAIN remembered(HoldCommand, done) = Joints
         /\ grouped => \A j \in Joints :
               Sent(HoldCommand, done)[j] = toVendor(j, remembered(HoldCommand, done)[j])
  <1>1. DOMAIN HoldCommand = Joints /\ done = Groups /\ Affected(HoldCommand) = Groups
    BY DEF HoldCommand, Held, Affected, Groups
  <1>2. \A j \in Joints : GroupOf[j] \in done
    BY <1>1 DEF Groups
  <1>3. DOMAIN Sent(HoldCommand, done) = Joints
    BY <1>1, <1>2 DEF Sent
  <1>4. DOMAIN updated(HoldCommand) = Joints
    BY <1>1 DEF updated, Over
  <1>5. \A j \in Joints : Sent(HoldCommand, done)[j] = toVendor(j, updated(HoldCommand)[j])
    BY <1>1, <1>2 DEF Sent
  <1> QED
    BY <1>1, <1>3, <1>4, <1>5 DEF remembered

(* stopAll() keeps the invariant, if what the call published before it is  *)
(* remembered or marked as unfinished.                                     *)
LEMMA StopKeepsTargets ==
  ASSUME TargetsInv, NEW before, NEW unfinished, NEW done,
         stopAll(before, targets, unfinished, done),
         DOMAIN before \subseteq Joints,
         ~haveState => DOMAIN before = {},
         unfinished = "none" => partial = "none" /\ DOMAIN before = {},
         grouped' = grouped, haveState' = haveState, fresh' => haveState
  PROVE  TargetsInv'
  <1> USE DEF TargetsInv
  <1> DEFINE hold == Sent(HoldCommand, done)
  <1> DEFINE upon == Over(before, told)
  <1>1. /\ told' = Over(hold, upon)
        /\ DOMAIN upon = DOMAIN before \union DOMAIN told
        /\ \A j \in DOMAIN told : j \notin DOMAIN before => upon[j] = told[j]
    BY DEF stopAll, Over
  <1> HIDE DEF hold, upon
  <1>2. DOMAIN hold \subseteq Joints /\ (done = {} => DOMAIN hold = {})
    BY SentDomain DEF hold
  <1>3. DOMAIN told' = DOMAIN hold \union DOMAIN before \union DOMAIN told
    BY <1>1 DEF Over
  <1>4. \A j \in DOMAIN hold : told'[j] = hold[j]
    BY <1>1 DEF Over
  <1>5. DOMAIN told' \subseteq Joints
    BY <1>2, <1>3
  <1>6. CASE Held(done)
    <2>1. haveState /\ haveState' /\ DOMAIN targets = Joints
      BY <1>6 DEF Held
    <2>2. targets' = remembered(HoldCommand, done)
      BY <1>6 DEF stopAll
    <2>3. DOMAIN hold = Joints /\ DOMAIN targets' = Joints
      BY <1>6, <2>1, <2>2, CompleteHold DEF hold
    <2>4. grouped => \A j \in Joints : told'[j] = toVendor(j, targets'[j])
      BY <1>4, <1>6, <2>1, <2>2, <2>3, CompleteHold DEF hold
    <2>5. Remembered'
      BY <1>5, <2>4 DEF Remembered, toVendor
    <2> QED
      BY <1>5, <2>1, <2>3, <2>5
  <1>7. CASE ~Held(done)
    <2>1. targets' = targets
      BY <1>7 DEF stopAll
    <2>2. ~haveState => DOMAIN told' = {}
      <3>1. ~haveState => done = {}
        BY DEF stopAll
      <3> QED
        BY <3>1, <1>2, <1>3
    <2>3. CASE partial' = "none"
      <3>1. unfinished = "none" /\ done = {}
        BY <1>7, <2>3 DEF stopAll
      <3>2. partial = "none" /\ DOMAIN before = {} /\ DOMAIN hold = {}
        BY <3>1, <1>2
      <3>3. \A j \in DOMAIN told : told'[j] = told[j]
        BY <1>1, <3>2 DEF Over
      <3>4. Remembered'
        BY <3>2, <3>3, <1>3, <2>1 DEF Remembered, toVendor
      <3> QED
        BY <3>4, <2>1, <2>2, <1>5
    <2>4. CASE partial' # "none"
      BY <2>4, <2>1, <2>2, <1>5 DEF Remembered
    <2> QED
      BY <2>3, <2>4
  <1> QED
    BY <1>6, <1>7

(* A stop that is the only thing its call publishes.                       *)
LEMMA StopAllKeepsTargets ==
  ASSUME TargetsInv, NEW done, StopAll(done),
         grouped' = grouped, haveState' = haveState, fresh' => haveState
  PROVE  TargetsInv'
  <1>1. DOMAIN Nothing = {}
    BY DEF Nothing
  <1>2. stopAll(Nothing, targets, partial, done)
    BY DEF StopAll
  <1> QED
    BY <1>1, <1>2, StopKeepsTargets

(* What publishes nothing and receives nothing.                            *)
LEMMA QuietKeepsTargets ==
  ASSUME TargetsInv, UNCHANGED <<targets, told, partial>>,
         grouped' = grouped, haveState' = haveState, fresh' => haveState
  PROVE  TargetsInv'
  BY DEF TargetsInv, Remembered, toVendor

(* A command reaches, with its groups, joints it does not name; they are   *)
(* sent the targets that are remembered of them.                           *)
LEMMA CommandSent ==
  ASSUME TargetsInv, haveState, NEW command, DOMAIN command \subseteq Joints
  PROVE  /\ DOMAIN updated(command) = Joints
         /\ grouped => \A j \in DOMAIN Sent(command, Affected(command)) :
               Sent(command, Affected(command))[j] = toVendor(j, updated(command)[j])
         /\ \A j \in Joints \ DOMAIN command : updated(command)[j] = targets[j]
         /\ \A j \in Joints \ DOMAIN Sent(command, Affected(command)) : j \notin DOMAIN command
  <1>1. DOMAIN targets = Joints
    BY DEF TargetsInv
  <1>2. DOMAIN updated(command) = Joints
    BY <1>1 DEF updated, Over
  <1>3. \A j \in Joints \ DOMAIN command : updated(command)[j] = targets[j]
    BY <1>1 DEF updated, Over
  <1>4. \A j \in DOMAIN Sent(command, Affected(command)) :
            Sent(command, Affected(command))[j] = toVendor(j, updated(command)[j])
    BY DEF Sent
  <1>5. \A j \in DOMAIN command : j \in DOMAIN Sent(command, Affected(command))
    BY DEF Sent, Affected
  <1> QED
    BY <1>2, <1>3, <1>4, <1>5

(* A command that is published completely.                                 *)
LEMMA CommandKeepsTargets ==
  ASSUME TargetsInv, NEW command \in OutputCommands, OutputWriteAccepted(command)
  PROVE  TargetsInv'
  <1> USE DEF TargetsInv
  <1> DEFINE sent == Sent(command, Affected(command))
  <1>1. /\ haveState /\ haveState' /\ grouped' = grouped /\ partial' = partial
        /\ told' = Over(sent, told) /\ targets' = remembered(command, Affected(command))
    BY DEF OutputWriteAccepted, feedbackVars
  <1>2. DOMAIN command \subseteq Joints
    BY DEF OutputCommands
  <1>3. /\ DOMAIN updated(command) = Joints /\ DOMAIN sent \subseteq Joints
        /\ grouped => \A j \in DOMAIN sent : sent[j] = toVendor(j, updated(command)[j])
        /\ \A j \in Joints \ DOMAIN command : updated(command)[j] = targets[j]
        /\ \A j \in Joints \ DOMAIN sent : j \notin DOMAIN command
    BY <1>1, <1>2, CommandSent, SentDomain
  <1> HIDE DEF sent
  <1>4. DOMAIN targets' = Joints
    BY <1>1, <1>3 DEF remembered
  <1>5. /\ DOMAIN told' = DOMAIN sent \union DOMAIN told
        /\ \A j \in DOMAIN sent : told'[j] = sent[j]
        /\ \A j \in DOMAIN told \ DOMAIN sent : told'[j] = told[j]
    BY <1>1 DEF Over
  <1>6. ASSUME grouped, partial = "none", NEW j \in DOMAIN told'
        PROVE  told'[j] = toVendor(j, targets'[j])
    <2>1. targets' = updated(command)
      BY <1>1, <1>6 DEF remembered
    <2>2. CASE j \in DOMAIN sent
      BY <1>3, <1>5, <1>6, <2>1, <2>2
    <2>3. CASE j \notin DOMAIN sent
      <3>1. j \in DOMAIN told /\ j \in Joints \ DOMAIN sent /\ told'[j] = told[j]
        BY <1>5, <1>6, <2>3
      <3>2. updated(command)[j] = targets[j]
        BY <1>3, <3>1
      <3>3. told[j] = toVendor(j, targets[j])
        BY <1>6, <3>1 DEF Remembered
      <3> QED
        BY <2>1, <3>1, <3>2, <3>3
    <2> QED
      BY <2>2, <2>3
  <1>7. Remembered'
    BY <1>1, <1>6 DEF Remembered, toVendor
  <1> QED
    BY <1>1, <1>3, <1>4, <1>5, <1>7

(* A read stops nothing, or once, or twice if the first stop fails.        *)
LEMMA ReadKeepsTargets ==
  ASSUME TargetsInv, NEW done \in SUBSET Groups, NEW again \in SUBSET Groups,
         NEW age \in 0 .. FeedbackMaxAge, NEW lapses \in BOOLEAN,
         OutputRead(age, lapses, done, again)
  PROVE  TargetsInv'
  <1> DEFINE later == health(fresh /\ ~lapses)
  <1>1. grouped' = grouped /\ haveState' = haveState /\ (fresh' => haveState)
    BY DEF OutputRead, BecomesStale, TargetsInv
  <1>2. CASE Silent
    BY <1>1, <1>2, QuietKeepsTargets DEF Silent
  <1>3. CASE StopAll(done)
    BY <1>1, <1>3, StopAllKeepsTargets
  <1>4. CASE /\ ReadCannotRecover(readJointState, age, later, Held(done), Held(again))
             /\ stopAll(Sent(HoldCommand, done), targets,
                        IF partial = "none" /\ done # {} THEN "hold" ELSE partial, again)
    <2> DEFINE unfinished == IF partial = "none" /\ done # {} THEN "hold" ELSE partial
    <2>1. haveState
      BY <1>4 DEF ReadCannotRecover, Returning, readJointState, TargetsInv
    <2>2. unfinished = "none" => partial = "none" /\ done = {}
      OBVIOUS
    <2>3. stopAll(Sent(HoldCommand, done), targets, unfinished, again)
      BY <1>4
    <2> HIDE DEF unfinished
    <2>4. /\ DOMAIN Sent(HoldCommand, done) \subseteq Joints
          /\ unfinished = "none" => partial = "none" /\ DOMAIN Sent(HoldCommand, done) = {}
      BY <2>2, SentDomain
    <2> QED
      BY <1>1, <2>1, <2>3, <2>4, StopKeepsTargets
  <1> QED
    BY <1>2, <1>3, <1>4 DEF OutputRead

(* A publication that fails keeps the targets, and marks what got out.     *)
LEMMA FailureKeepsTargets ==
  ASSUME TargetsInv, NEW command \in OutputCommands, NEW sent \in SUBSET Groups,
         NEW again \in SUBSET Groups, NEW lapses \in BOOLEAN,
         OutputWriteFails(command, sent, lapses, again)
  PROVE  TargetsInv'
  <1> DEFINE unfinished == IF sent # {} THEN "command" ELSE partial
  <1>1. grouped' = grouped /\ haveState' = haveState /\ (fresh' => haveState) /\ haveState
    BY DEF OutputWriteFails, BecomesStale, TargetsInv
  <1>2. unfinished = "none" => partial = "none" /\ sent = {}
    OBVIOUS
  <1>3. remembered(command, sent) = targets
    BY DEF OutputWriteFails, remembered
  <1>4. stopAll(Sent(command, sent), targets, unfinished, again)
    BY <1>3 DEF OutputWriteFails
  <1> HIDE DEF unfinished
  <1>5. /\ DOMAIN Sent(command, sent) \subseteq Joints
        /\ unfinished = "none" => partial = "none" /\ DOMAIN Sent(command, sent) = {}
    BY <1>2, SentDomain
  <1> QED
    BY <1>1, <1>4, <1>5, StopKeepsTargets

(* Every step keeps the invariant.                                         *)
LEMMA TargetsStep ==
  ASSUME TargetsInv, [OutputNext]_outputVars
  PROVE  TargetsInv'
  <1>0. fresh => haveState
    BY DEF TargetsInv
  <1>1. CASE UNCHANGED outputVars
    <2>1. UNCHANGED <<targets, told, partial>> /\ UNCHANGED <<grouped, haveState, fresh>>
      BY <1>1 DEF outputVars, feedbackVars, publishedVars
    <2> QED
      BY <1>0, <2>1, QuietKeepsTargets
  <1>2. CASE \E byGroup \in BOOLEAN : Configure(byGroup)
    <2>1. /\ ~haveState' /\ ~fresh' /\ targets' = Nothing /\ told' = Nothing
      BY <1>2 DEF Configure
    <2>2. DOMAIN Nothing = {} /\ Nothing' = Nothing
      BY DEF Nothing
    <2> QED
      BY <2>1, <2>2 DEF TargetsInv, Remembered
  <1>3. CASE ConfigureFails \/ ProcessDies
    <2>1. UNCHANGED <<targets, told, partial>> /\ UNCHANGED <<grouped, haveState, fresh>>
      BY <1>3 DEF ConfigureFails, ProcessDies, Silent, feedbackVars, publishedVars
    <2> QED
      BY <1>0, <2>1, QuietKeepsTargets
  <1>4. CASE \E done \in SUBSET Groups :
                 Shutdown(done) \/ OutputStatus(done) \/ OutputStop(done) \/ OutputWatchdog(done)
    <2> PICK done \in SUBSET Groups :
             Shutdown(done) \/ OutputStatus(done) \/ OutputStop(done) \/ OutputWatchdog(done)
      BY <1>4
    <2>1. grouped' = grouped /\ haveState' = haveState /\ (fresh' => haveState)
      <3>1. UNCHANGED <<grouped, feedbackVars>>
        BY Zenon DEF Shutdown, OutputStatus, OutputStop, OutputWatchdog
      <3> QED
        BY <1>0, <3>1 DEF feedbackVars
    <2>2. StopAll(done) \/ Silent
      BY DEF Shutdown, OutputStatus, OutputStop, OutputWatchdog
    <2>3. CASE StopAll(done)
      BY <2>1, <2>3, StopAllKeepsTargets
    <2>4. CASE Silent
      BY <2>1, <2>4, QuietKeepsTargets DEF Silent
    <2> QED
      BY <2>2, <2>3, <2>4
  <1>5. CASE \E position \in VendorPositions : StateCallback(position)
    <2> PICK position \in VendorPositions : StateCallback(position)
      BY <1>5
    <2>1. haveState' /\ grouped' = grouped /\ told' = told /\ partial' = partial
      BY DEF StateCallback
    <2>2. CASE haveState
      <3>1. DOMAIN targets = Joints /\ targets # Nothing
        BY <2>2, OutputAssumption DEF TargetsInv, Nothing
      <3>2. targets' = targets
        BY <3>1 DEF StateCallback
      <3> QED
        BY <2>1, <2>2, <3>1, <3>2 DEF TargetsInv, Remembered, toVendor
    <2>3. CASE ~haveState
      <3>1. DOMAIN told = {} /\ DOMAIN targets' = Joints
        BY <2>3 DEF TargetsInv, StateCallback
      <3> QED
        BY <2>1, <3>1 DEF TargetsInv, Remembered
    <2> QED
      BY <2>2, <2>3
  <1>6. CASE TimePasses
    <2>1. grouped' = grouped /\ haveState' = haveState /\ (fresh' => haveState)
      BY <1>0, <1>6 DEF TimePasses, BecomesStale, feedbackVars
    <2> QED
      BY <1>6, <2>1, QuietKeepsTargets DEF TimePasses, Silent
  <1>7. CASE \E done \in SUBSET Groups, answer \in {"invalid", "accepted"} :
                 OutputWriteRefused(answer, done)
    <2> PICK done \in SUBSET Groups, answer \in {"invalid", "accepted"} :
             OutputWriteRefused(answer, done)
      BY <1>7
    <2>1. grouped' = grouped /\ haveState' = haveState /\ (fresh' => haveState)
      BY <1>0 DEF OutputWriteRefused, feedbackVars
    <2>2. CASE StopAll(done)
      BY <2>1, <2>2, StopAllKeepsTargets
    <2>3. CASE Silent
      BY <2>1, <2>3, QuietKeepsTargets DEF Silent
    <2> QED
      BY <2>2, <2>3 DEF OutputWriteRefused
  <1>8. CASE \E done \in SUBSET Groups, age \in 0 .. FeedbackMaxAge, lapses \in BOOLEAN,
                again \in SUBSET Groups : OutputRead(age, lapses, done, again)
    BY <1>8, ReadKeepsTargets
  <1>9. CASE \E command \in OutputCommands : OutputWriteAccepted(command)
    BY <1>9, CommandKeepsTargets
  <1>10. CASE \E command \in OutputCommands, sent, again \in SUBSET Groups, lapses \in BOOLEAN :
                 OutputWriteFails(command, sent, lapses, again)
    BY <1>10, FailureKeepsTargets
  <1> QED
    BY <1>1, <1>2, <1>3, <1>4, <1>5, <1>6, <1>7, <1>8, <1>9, <1>10 DEF OutputNext

(* Every behaviour keeps it.                                               *)
LEMMA TargetsHold == OutputSpec => []TargetsInv
  <1>1. OutputInit => TargetsInv
    BY DEF OutputInit, TargetsInv, Remembered, Nothing
  <1>2. TargetsInv /\ [OutputNext]_outputVars => TargetsInv'
    BY TargetsStep
  <1> QED
    BY <1>1, <1>2, PTL DEF OutputSpec

(* Remembered: with a topic per group, the driver remembers of every joint *)
(* what it last sent to it, unless a publication stopped half-way.         *)
THEOREM RememberedHolds == OutputSpec => []Remembered
  <1>1. TargetsInv => Remembered
    BY DEF TargetsInv
  <1> QED
    BY <1>1, TargetsHold, PTL

-----------------------------------------------------------------------------
(* What comes from the vendor goes back to it unchanged, and whatever is   *)
(* commanded is rounded to one of the vendor's positions.                  *)
LEMMA Conversions ==
  ASSUME NEW j \in Joints, NEW position \in Int
  PROVE  /\ toLogical(j, position) \in Int /\ toVendor(j, position) \in Int
         /\ toVendor(j, toLogical(j, position)) = position
  <1> DEFINE s == Scale[j]
  <1> DEFINE o == Offset[j]
  <1>1. o \in Int /\ s \in Int /\ s # 0
    BY OutputAssumption
  <1>2. s * position \in Int /\ (-s) * position \in Int /\ (-s) * position = -(s * position)
    BY <1>1
  <1>3. toLogical(j, position) = s * position + o
    BY DEF toLogical
  <1>4. \A target \in Int : toVendor(j, target) =
            IF s > 0 THEN (target - o) \div s ELSE (o - target) \div (-s)
    BY DEF toVendor
  <1> HIDE DEF s, o
  <1>5. \A d \in Int : d > 0 => (d * position) \div d = position
    OBVIOUS
  <1>6. \A d \in Int, n \in Int : d > 0 => n \div d \in Int
    OBVIOUS
  <1>7. CASE s > 0
    <2>1. (s * position + o) - o = s * position
      BY <1>1, <1>2
    <2> QED
      BY <1>1, <1>2, <1>3, <1>4, <1>5, <1>6, <1>7, <2>1
  <1>8. CASE ~(s > 0)
    <2>1. -s \in Int /\ -s > 0
      BY <1>1, <1>8
    <2>2. o - (s * position + o) = (-s) * position
      BY <1>1, <1>2
    <2> QED
      BY <1>1, <1>2, <1>3, <1>4, <1>5, <1>6, <1>8, <2>1, <2>2
  <1> QED
    BY <1>7, <1>8

(* What is sensed is a position of the vendor's.                           *)
SensedInv == sensed \in VendorPositions /\ (fresh => haveState)

(* Every behaviour keeps it.                                               *)
LEMMA SensedHolds == OutputSpec => []SensedInv
  <1>1. OutputInit => SensedInv
    BY DEF OutputInit, SensedInv
  <1>2. ASSUME SensedInv, [OutputNext]_outputVars
        PROVE  SensedInv'
    <2> USE DEF SensedInv
    <2>1. CASE UNCHANGED outputVars
      BY <1>2, <2>1 DEF outputVars, feedbackVars
    <2>2. CASE \E position \in VendorPositions : StateCallback(position)
      BY <2>2 DEF StateCallback
    <2>3. CASE TimePasses
      <3>1. sensed' = sensed /\ haveState' = haveState /\ (fresh' => fresh)
        BY <2>3 DEF TimePasses, BecomesStale, feedbackVars
      <3> QED
        BY <1>2, <3>1
    <2>4. CASE (\E byGroup \in BOOLEAN : Configure(byGroup)) \/ ConfigureFails \/ ProcessDies
      <3>1. sensed' = sensed /\ (~fresh' \/ UNCHANGED <<fresh, haveState>>)
        BY <2>4 DEF Configure, ConfigureFails, ProcessDies, feedbackVars
      <3> QED
        BY <1>2, <3>1
    <2>5. CASE \E done \in SUBSET Groups :
                   Shutdown(done) \/ OutputStatus(done) \/ OutputStop(done) \/ OutputWatchdog(done)
      <3>1. UNCHANGED <<grouped, feedbackVars>>
        BY <2>5, Zenon DEF Shutdown, OutputStatus, OutputStop, OutputWatchdog
      <3> QED
        BY <1>2, <3>1 DEF feedbackVars
    <2>6. CASE \E done \in SUBSET Groups, answer \in {"invalid", "accepted"} :
                   OutputWriteRefused(answer, done)
      BY <1>2, <2>6 DEF OutputWriteRefused, feedbackVars
    <2>7. CASE \E done \in SUBSET Groups, age \in 0 .. FeedbackMaxAge, lapses \in BOOLEAN,
                  again \in SUBSET Groups : OutputRead(age, lapses, done, again)
      BY <1>2, <2>7 DEF OutputRead, BecomesStale
    <2>8. CASE \E command \in OutputCommands : OutputWriteAccepted(command)
      BY <1>2, <2>8 DEF OutputWriteAccepted, feedbackVars
    <2>9. CASE \E command \in OutputCommands, sent, again \in SUBSET Groups, lapses \in BOOLEAN :
                   OutputWriteFails(command, sent, lapses, again)
      BY <1>2, <2>9 DEF OutputWriteFails, BecomesStale
    <2> QED
      BY <1>2, <2>1, <2>2, <2>3, <2>4, <2>5, <2>6, <2>7, <2>8, <2>9 DEF OutputNext
  <1> QED
    BY <1>1, <1>2, PTL DEF OutputSpec

(* A wait that ends without a fault ends by a recovery.                    *)
LEMMA WaitEnds ==
  ASSUME [OutputNext]_outputVars, active, feedbackWaiting,
         active', ~feedbackWaiting', ~driverFaultLatched'
  PROVE  \E done \in SUBSET Groups, age \in 0 .. FeedbackMaxAge, lapses \in BOOLEAN :
             /\ ReadRecovers(readJointState, age, health(fresh /\ ~lapses), Held(done))
             /\ StopAll(done)
  <1>1. ~ UNCHANGED outputVars
    BY DEF outputVars, runtimeVars, flags
  <1>2. ~ \E byGroup \in BOOLEAN : Configure(byGroup)
    BY DEF Configure, Construct
  <1>3. ~ConfigureFails /\ ~ProcessDies /\ ~ \E done \in SUBSET Groups : Shutdown(done)
    BY DEF ConfigureFails, ConstructFails, ProcessDies, Crash, Shutdown, Destroy
  <1>4. ~ \E position \in VendorPositions : StateCallback(position)
    BY DEF StateCallback, runtimeVars, flags
  <1>5. ~TimePasses
    BY DEF TimePasses, BecomesStale, Tick, runtimeVars, flags
  <1>6. ~ \E done \in SUBSET Groups : OutputStatus(done)
    BY DEF OutputStatus, Status, WaitForFeedback, LatchFault, runtimeVars, flags
  <1>7. ~ \E done \in SUBSET Groups : OutputStop(done)
    BY DEF OutputStop, Stop, runtimeVars, flags
  <1>8. ~ \E done \in SUBSET Groups : OutputWatchdog(done)
    BY DEF OutputWatchdog, EnforceWatchdog, WatchdogDue
  <1>9. ~ \E done \in SUBSET Groups, answer \in {"invalid", "accepted"} :
              OutputWriteRefused(answer, done)
    BY DEF OutputWriteRefused, WriteRefused, WriteFails, WriteLosesFeedback, ReachesPlugin, flags
  <1>10. ~ \E command \in OutputCommands : OutputWriteAccepted(command)
    BY DEF OutputWriteAccepted, WriteAccepted, ReachesPlugin
  <1>11. ~ \E command \in OutputCommands, sent, again \in SUBSET Groups, lapses \in BOOLEAN :
              OutputWriteFails(command, sent, lapses, again)
    BY DEF OutputWriteFails, WriteFails, WriteLosesFeedback, ReachesPlugin
  <1>12. PICK done \in SUBSET Groups, age \in 0 .. FeedbackMaxAge, lapses \in BOOLEAN,
              again \in SUBSET Groups : OutputRead(age, lapses, done, again)
    BY <1>1, <1>2, <1>3, <1>4, <1>5, <1>6, <1>7, <1>8, <1>9, <1>10, <1>11 DEF OutputNext
  <1> DEFINE later == health(fresh /\ ~lapses)
  <1>13. ~ReadQuietly(readJointState, age)
    BY DEF ReadQuietly, runtimeVars, flags
  <1>14. ~ReadStillWaits(readJointState, age, later)
    BY DEF ReadStillWaits, runtimeVars, flags
  <1>15. ~ReadLosesFeedback(readJointState, age, later, Held(done))
    BY DEF ReadLosesFeedback, WaitForFeedback
  <1>16. ~ReadCannotRecover(readJointState, age, later, Held(done), Held(again))
    BY DEF ReadCannotRecover, LatchFault
  <1>17. ReadRecovers(readJointState, age, later, Held(done)) /\ StopAll(done)
    BY <1>12, <1>13, <1>14, <1>15, <1>16 DEF OutputRead
  <1> QED
    BY <1>17

(* RecoveryHoldsHere: when feedback has returned, every joint was told to  *)
(* stay where it is now, whatever it was told, in part or in full, before. *)
THEOREM RecoveryHolds == OutputSpec => RecoveryHoldsHere
  <1> DEFINE Step ==
        active /\ feedbackWaiting /\ active' /\ ~feedbackWaiting' /\ ~driverFaultLatched'
            => told' = [j \in Joints |-> sensed]
  <1>1. ASSUME TargetsInv, SensedInv, [OutputNext]_outputVars,
               active, feedbackWaiting, active', ~feedbackWaiting', ~driverFaultLatched'
        PROVE  told' = [j \in Joints |-> sensed]
    <2> PICK done \in SUBSET Groups, age \in 0 .. FeedbackMaxAge, lapses \in BOOLEAN :
             /\ ReadRecovers(readJointState, age, health(fresh /\ ~lapses), Held(done))
             /\ StopAll(done)
      BY <1>1, WaitEnds
    <2> DEFINE hold == Sent(HoldCommand, done)
    <2>1. Held(done) /\ haveState
      BY DEF ReadRecovers, Held
    <2>2. DOMAIN HoldCommand = Joints /\ (\A j \in Joints : GroupOf[j] \in done)
      BY <2>1 DEF HoldCommand, Held, Groups
    <2>3. hold = [j \in Joints |-> toVendor(j, updated(HoldCommand)[j])]
      BY <2>2 DEF Sent
    <2>4. \A j \in Joints : updated(HoldCommand)[j] = toLogical(j, sensed)
      BY <2>2 DEF updated, Over, HoldCommand
    <2>5. \A j \in Joints : toVendor(j, toLogical(j, sensed)) = sensed
      BY <1>1, Conversions, OutputAssumption DEF SensedInv
    <2>6. hold = [j \in Joints |-> sensed]
      BY <2>3, <2>4, <2>5
    <2>7. told' = Over(hold, Over(Nothing, told))
      BY DEF StopAll, stopAll
    <2> HIDE DEF hold
    <2>8. DOMAIN Over(Nothing, told) \subseteq Joints
      BY <1>1 DEF TargetsInv, Over, Nothing
    <2> QED
      BY <2>6, <2>7, <2>8 DEF Over
  <1>2. TargetsInv /\ SensedInv /\ [OutputNext]_outputVars => [Step]_outputVars
    BY <1>1
  <1> HIDE DEF Step
  <1>3. OutputSpec => [][Step]_outputVars
    BY <1>2, TargetsHold, SensedHolds, PTL DEF OutputSpec
  <1> QED
    BY <1>3 DEF RecoveryHoldsHere, Step
-----------------------------------------------------------------------------
(* Strengthening of OutputTypeOK: what is remembered can be sent.          *)
Sendable(f) ==
    /\ DOMAIN f \subseteq Joints
    /\ \A j \in DOMAIN f : f[j] \in Int

Messages == UNION {[known -> Int] : known \in SUBSET Joints}
Memory == [IF haveState THEN Joints ELSE {} -> Int]

OutputInv == OutputTypeOK /\ Sendable(targets)

(* Functions on joints, read as such.                                      *)
LEMMA MessageIs ==
  ASSUME NEW f
  PROVE  f \in Messages <=> /\ f = [j \in DOMAIN f |-> f[j]]
                           /\ DOMAIN f \subseteq Joints
                           /\ \A j \in DOMAIN f : f[j] \in Int
  BY DEF Messages

(* Messages put over messages are messages.                                *)
LEMMA OverMessages ==
  ASSUME NEW new \in Messages, NEW old \in Messages
  PROVE  Over(new, old) \in Messages
  <1>1. /\ DOMAIN new \subseteq Joints /\ DOMAIN old \subseteq Joints
        /\ \A j \in DOMAIN new : new[j] \in Int
        /\ \A j \in DOMAIN old : old[j] \in Int
    BY MessageIs
  <1>2. Over(new, old) \in [DOMAIN new \union DOMAIN old -> Int]
    BY <1>1 DEF Over
  <1>3. DOMAIN new \union DOMAIN old \in SUBSET Joints
    BY <1>1
  <1> QED
    BY <1>2, <1>3 DEF Messages

(* What a new driver remembers and has sent.                               *)
LEMMA NothingTypes == Nothing \in Messages /\ Nothing \in [{} -> Int] /\ Sendable(Nothing)
  <1>1. Nothing \in [{} -> Int] /\ {} \in SUBSET Joints
    BY DEF Nothing
  <1>2. Nothing \in Messages
    BY <1>1 DEF Messages
  <1> QED
    BY <1>2 DEF Nothing, Sendable

(* What was measured can be sent, and so can a command.                    *)
LEMMA MeasuredSendable ==
  ASSUME NEW position \in VendorPositions
  PROVE  /\ Sendable([j \in Joints |-> toLogical(j, position)])
         /\ [j \in Joints |-> toLogical(j, position)] \in [Joints -> Int]
  <1>1. position \in Int
    BY OutputAssumption
  <1>2. \A j \in Joints : toLogical(j, position) \in Int
    BY <1>1, Conversions
  <1> QED
    BY <1>2 DEF Sendable

LEMMA CommandsSendable ==
  ASSUME NEW command \in OutputCommands
  PROVE  Sendable(command)
  BY OutputAssumption DEF OutputCommands, Sendable

(* A command filled up with what is remembered can be sent.                *)
LEMMA UpdatedSendable ==
  ASSUME NEW command, Sendable(command), Sendable(targets)
  PROVE  /\ Sendable(updated(command))
         /\ DOMAIN updated(command) = DOMAIN command \union DOMAIN targets
         /\ updated(command) \in [DOMAIN command \union DOMAIN targets -> Int]
  BY DEF Sendable, updated, Over

(* What is sent of it is a message of the vendor's positions.              *)
LEMMA SentTypes ==
  ASSUME NEW command, Sendable(command), Sendable(targets),
         haveState => DOMAIN targets = Joints,
         NEW done, haveState \/ done = {}
  PROVE  Sent(command, done) \in Messages
  <1> DEFINE reached == {j \in Joints : GroupOf[j] \in done /\ (grouped \/ j \in DOMAIN command)}
  <1>1. ASSUME NEW j \in reached
        PROVE  toVendor(j, updated(command)[j]) \in Int
    <2>1. haveState /\ j \in Joints
      BY <1>1
    <2>2. j \in DOMAIN updated(command)
      BY <2>1, UpdatedSendable
    <2>3. updated(command)[j] \in Int
      BY <2>2, UpdatedSendable DEF Sendable
    <2> QED
      BY <2>1, <2>3, Conversions
  <1>2. Sent(command, done) \in [reached -> Int]
    BY <1>1 DEF Sent
  <1>3. reached \in SUBSET Joints
    OBVIOUS
  <1> QED
    BY <1>2, <1>3 DEF Messages

(* What is remembered of it can be sent again.                             *)
LEMMA RememberedTypes ==
  ASSUME NEW command, Sendable(command), Sendable(targets), targets \in Memory,
         haveState, NEW done
  PROVE  Sendable(remembered(command, done)) /\ remembered(command, done) \in Memory
  <1>1. DOMAIN targets = Joints /\ DOMAIN command \subseteq Joints
    BY DEF Memory, Sendable
  <1>2. updated(command) \in Memory
    BY <1>1, UpdatedSendable DEF Memory
  <1> QED
    BY <1>2, UpdatedSendable DEF remembered

(* The members that change when something is published.                    *)
PublishedTypes ==
    /\ stopped' \in BOOLEAN /\ named' \subseteq Joints /\ partial' \in Partials
    /\ told' \in Messages /\ targets' \in Memory /\ Sendable(targets')

(* stopAll() keeps the types of what is published, in whatever state it is *)
(* called.                                                                 *)
LEMMA StopPublishes ==
  ASSUME OutputInv, NEW before \in Messages, NEW memory \in Memory, Sendable(memory),
         NEW unfinished \in Partials, NEW done, stopAll(before, memory, unfinished, done)
  PROVE  PublishedTypes
  <1>1. /\ stopped \in BOOLEAN /\ haveState \in BOOLEAN /\ sensed \in VendorPositions
        /\ targets \in Memory /\ told \in Messages /\ Sendable(targets)
    BY DEF OutputInv, OutputTypeOK, Memory, Messages
  <1>2. haveState \/ done = {}
    BY DEF stopAll
  <1>3. Sendable(HoldCommand)
    BY <1>1, MeasuredSendable DEF HoldCommand
  <1>4. Sent(HoldCommand, done) \in Messages
    BY <1>1, <1>2, <1>3, SentTypes DEF Memory
  <1>5. told' \in Messages
    BY <1>1, <1>4, OverMessages DEF stopAll
  <1>6. targets' \in Memory /\ Sendable(targets')
    <2>1. CASE Held(done)
      <3>1. haveState /\ targets' = remembered(HoldCommand, done)
        BY <2>1 DEF Held, stopAll
      <3> QED
        BY <1>1, <1>3, <3>1, RememberedTypes
    <2>2. CASE ~Held(done)
      BY <2>2 DEF stopAll
    <2> QED
      BY <2>1, <2>2
  <1>7. stopped' \in BOOLEAN /\ named' \subseteq Joints /\ partial' \in Partials
    BY <1>1 DEF stopAll, Held, Partials
  <1> QED
    BY <1>5, <1>6, <1>7 DEF PublishedTypes

(* Every step keeps the types.                                             *)
LEMMA OutputTypeStep ==
  ASSUME OutputInv, [OutputNext]_outputVars
  PROVE  OutputInv'
  <1> DEFINE Feedback ==
        /\ awaiting' \in BOOLEAN /\ haveState' = haveState /\ fresh' \in BOOLEAN
        /\ (fresh' => haveState) /\ (haveState => ~awaiting') /\ sensed' \in VendorPositions
        /\ grouped' \in BOOLEAN
  <1>0. /\ stopped \in BOOLEAN /\ haveState \in BOOLEAN /\ fresh \in BOOLEAN
        /\ awaiting \in BOOLEAN /\ grouped \in BOOLEAN /\ (fresh => haveState)
        /\ (haveState => ~awaiting) /\ sensed \in VendorPositions
        /\ targets \in Memory /\ told \in Messages /\ Sendable(targets)
        /\ named \subseteq Joints /\ partial \in Partials
        /\ DOMAIN targets \subseteq Joints /\ (haveState => DOMAIN targets = Joints)
    BY DEF OutputInv, OutputTypeOK, Memory, Messages
  <1>1. ASSUME Feedback, PublishedTypes
        PROVE  OutputInv'
    <2>1. /\ targets' \in [IF haveState' THEN Joints ELSE {} -> Int]
          /\ told' \in UNION {[known -> Int] : known \in SUBSET Joints}
      BY <1>1 DEF PublishedTypes, Memory, Messages
    <2>2. OutputTypeOK'
      BY <1>0, <1>1, <2>1 DEF PublishedTypes, OutputTypeOK
    <2>3. Sendable(targets)'
      BY <1>1 DEF PublishedTypes, Sendable, toVendor
    <2> QED
      BY <2>2, <2>3 DEF OutputInv
  <1>2. ASSUME UNCHANGED <<grouped, feedbackVars>>
        PROVE  Feedback
    BY <1>0, <1>2 DEF feedbackVars
  <1>3. ASSUME NEW lapses, BecomesStale(lapses), UNCHANGED grouped
        PROVE  Feedback
    BY <1>0, <1>3 DEF BecomesStale
  <1>4. ASSUME Silent \/ UNCHANGED publishedVars
        PROVE  PublishedTypes
    <2>1. /\ stopped' = stopped /\ targets' = targets /\ told' = told /\ partial' = partial
          /\ named' = {} \/ named' = named
      BY <1>4 DEF Silent, publishedVars
    <2>2. named' \subseteq Joints
      BY <1>0, <2>1
    <2> QED
      BY <1>0, <2>1, <2>2, Zenon DEF PublishedTypes
  <1>5. ASSUME NEW done, StopAll(done)
        PROVE  PublishedTypes
    BY <1>0, <1>5, NothingTypes, StopPublishes DEF StopAll
  <1>6. CASE UNCHANGED outputVars
    BY <1>1, <1>2, <1>4, <1>6 DEF outputVars
  <1>7. CASE \E byGroup \in BOOLEAN : Configure(byGroup)
    <2>1. /\ grouped' \in BOOLEAN /\ stopped' = TRUE /\ awaiting' = TRUE /\ haveState' = FALSE
          /\ fresh' = FALSE /\ sensed' = sensed /\ targets' = Nothing /\ told' = Nothing
          /\ named' = {} /\ partial' = "none"
      BY <1>7 DEF Configure
    <2>2. /\ targets' \in [IF haveState' THEN Joints ELSE {} -> Int]
          /\ told' \in UNION {[known -> Int] : known \in SUBSET Joints}
      BY <2>1, NothingTypes DEF Messages
    <2>3. OutputTypeOK'
      BY <1>0, <2>1, <2>2 DEF OutputTypeOK, Partials
    <2>4. Sendable(targets)'
      BY <2>1 DEF Nothing, Sendable
    <2> QED
      BY <2>3, <2>4 DEF OutputInv
  <1>8. CASE ConfigureFails \/ ProcessDies
    BY <1>1, <1>2, <1>4, <1>8 DEF ConfigureFails, ProcessDies
  <1>9. CASE \E position \in VendorPositions : StateCallback(position)
    <2> PICK position \in VendorPositions : StateCallback(position)
      BY <1>9
    <2> DEFINE first == [j \in Joints |-> toLogical(j, position)]
    <2>1. /\ awaiting' = FALSE /\ haveState' = TRUE /\ fresh' = TRUE /\ sensed' = position
          /\ targets' = IF targets = Nothing THEN first ELSE targets
          /\ UNCHANGED <<grouped, stopped, told, partial>> /\ named' = {}
      BY DEF StateCallback
    <2>2. first \in [Joints -> Int] /\ Sendable(first)
      BY MeasuredSendable
    <2>3. targets = Nothing \/ targets \in [Joints -> Int]
      <3>1. CASE haveState
        BY <1>0, <3>1 DEF Memory
      <3>2. CASE ~haveState
        BY <1>0, <3>2 DEF Memory, Nothing
      <3> QED
        BY <3>1, <3>2
    <2> HIDE DEF first
    <2>4. targets' \in [Joints -> Int] /\ Sendable(targets')
      BY <1>0, <2>1, <2>2, <2>3
    <2>5. OutputTypeOK'
      BY <1>0, <2>1, <2>4 DEF OutputTypeOK, Messages
    <2>6. Sendable(targets)'
      BY <2>4 DEF Sendable, toVendor
    <2> QED
      BY <2>5, <2>6 DEF OutputInv
  <1>10. CASE TimePasses
    <2>1. UNCHANGED grouped /\ Silent
      BY <1>10 DEF TimePasses
    <2>2. Feedback
      <3>1. CASE BecomesStale(TRUE)
        BY <1>3, <2>1, <3>1
      <3>2. CASE UNCHANGED feedbackVars
        BY <1>2, <2>1, <3>2
      <3>3. CASE awaiting' = FALSE /\ UNCHANGED <<haveState, fresh, sensed>>
        BY <1>0, <2>1, <3>3
      <3> QED
        BY <1>10, <3>1, <3>2, <3>3 DEF TimePasses
    <2> QED
      BY <1>1, <1>4, <2>1, <2>2
  <1>11. ASSUME NEW done,
                \/ Shutdown(done) \/ OutputStatus(done) \/ OutputStop(done) \/ OutputWatchdog(done)
                \/ \E answer : OutputWriteRefused(answer, done)
         PROVE  OutputInv'
    <2>1. UNCHANGED <<grouped, feedbackVars>> /\ (StopAll(done) \/ Silent)
      BY <1>11 DEF Shutdown, OutputStatus, OutputStop, OutputWatchdog, OutputWriteRefused
    <2> QED
      BY <1>1, <1>2, <1>4, <1>5, <2>1
  <1>12. ASSUME NEW age, NEW lapses, NEW done, NEW again, OutputRead(age, lapses, done, again)
         PROVE  OutputInv'
    <2>1. BecomesStale(lapses) /\ UNCHANGED grouped
      BY <1>12 DEF OutputRead
    <2> DEFINE unfinished == IF partial = "none" /\ done # {} THEN "hold" ELSE partial
    <2>2. CASE StopAll(done) \/ Silent
      BY <1>1, <1>3, <1>4, <1>5, <2>1, <2>2
    <2>3. CASE /\ ReadCannotRecover(readJointState, age, health(fresh /\ ~lapses), Held(done), Held(again))
               /\ stopAll(Sent(HoldCommand, done), targets, unfinished, again)
      <3>1. haveState
        BY <1>0, <2>3 DEF ReadCannotRecover, Returning, readJointState
      <3>2. Sendable(HoldCommand)
        BY <1>0, MeasuredSendable DEF HoldCommand
      <3>3. Sent(HoldCommand, done) \in Messages
        BY <1>0, <3>1, <3>2, SentTypes
      <3>4. unfinished \in Partials
        BY <1>0 DEF Partials
      <3> HIDE DEF unfinished
      <3>5. PublishedTypes
        BY <1>0, <2>3, <3>3, <3>4, StopPublishes
      <3> QED
        BY <1>1, <1>3, <2>1, <3>5
    <2> QED
      BY <1>12, <2>2, <2>3 DEF OutputRead
  <1>13. ASSUME NEW command \in OutputCommands, OutputWriteAccepted(command)
         PROVE  OutputInv'
    <2>1. Sendable(command) /\ haveState
      BY <1>0, <1>13, CommandsSendable DEF OutputWriteAccepted
    <2>2. Sent(command, Affected(command)) \in Messages
      BY <1>0, <2>1, SentTypes
    <2>3. told' \in Messages
      BY <1>0, <1>13, <2>2, OverMessages DEF OutputWriteAccepted
    <2>4. targets' \in Memory /\ Sendable(targets')
      BY <1>0, <1>13, <2>1, RememberedTypes DEF OutputWriteAccepted
    <2>5. /\ stopped' = FALSE /\ named' \subseteq Joints /\ partial' = partial
          /\ UNCHANGED <<grouped, feedbackVars>>
      BY <1>13, <2>1 DEF OutputWriteAccepted, Sendable
    <2>6. PublishedTypes
      BY <1>0, <2>3, <2>4, <2>5 DEF PublishedTypes
    <2> QED
      BY <1>1, <1>2, <2>5, <2>6
  <1>14. ASSUME NEW command \in OutputCommands, NEW sent, NEW lapses, NEW again,
                OutputWriteFails(command, sent, lapses, again)
         PROVE  OutputInv'
    <2> DEFINE unfinished == IF sent # {} THEN "command" ELSE partial
    <2>1. /\ BecomesStale(lapses) /\ UNCHANGED grouped /\ fresh
          /\ stopAll(Sent(command, sent), remembered(command, sent), unfinished, again)
      BY <1>14 DEF OutputWriteFails
    <2>2. Sendable(command) /\ haveState
      BY <1>0, <2>1, CommandsSendable
    <2>3. Sent(command, sent) \in Messages
      BY <1>0, <2>2, SentTypes
    <2>4. remembered(command, sent) \in Memory /\ Sendable(remembered(command, sent))
      BY <1>0, <2>2, RememberedTypes
    <2>5. unfinished \in Partials
      BY <1>0 DEF Partials
    <2> HIDE DEF unfinished
    <2>6. PublishedTypes
      BY <2>1, <2>3, <2>4, <2>5, StopPublishes
    <2> QED
      BY <1>1, <1>3, <2>1, <2>6
  <1> QED
    BY <1>6, <1>7, <1>8, <1>9, <1>10, <1>11, <1>12, <1>13, <1>14 DEF OutputNext

(* OutputTypeOK: every member keeps its type; in particular a target is    *)
(* remembered of all joints or of none, and whatever is sent, after both   *)
(* conversions, is a position of the vendor's.                             *)
THEOREM OutputTypeCorrect == OutputSpec => []OutputTypeOK
  <1>1. OutputInit => OutputInv
    <2> SUFFICES ASSUME OutputInit PROVE OutputInv
      OBVIOUS
    <2>1. /\ targets \in [IF haveState THEN Joints ELSE {} -> Int] /\ Sendable(targets)
          /\ told \in UNION {[known -> Int] : known \in SUBSET Joints}
      BY NothingTypes DEF OutputInit, Messages
    <2> QED
      BY <2>1 DEF OutputInit, OutputInv, OutputTypeOK, Partials
  <1>2. OutputInv => OutputTypeOK
    BY DEF OutputInv
  <1> QED
    BY <1>1, <1>2, OutputTypeStep, PTL DEF OutputSpec
-----------------------------------------------------------------------------
(* OthersPreserved, in a step of the driver.                               *)
LEMMA OthersStep ==
  ASSUME TargetsInv, TornIsHalted, partial \in Partials, [OutputNext]_outputVars,
         active, active', NEW j \in DOMAIN told, told'[j] # told[j]
  PROVE  \/ j \in named'
         \/ partial = "hold" /\ told'[j] = toVendor(j, targets[j])
  <1>0. j \in Joints
    BY DEF TargetsInv
  <1>1. CASE \E command \in OutputCommands : OutputWriteAccepted(command)
    <2> PICK command \in OutputCommands : OutputWriteAccepted(command)
      BY <1>1
    <2> DEFINE sent == Sent(command, Affected(command))
    <2>1. haveState /\ told' = Over(sent, told) /\ named' = DOMAIN command
      BY DEF OutputWriteAccepted, TargetsInv
    <2>2. DOMAIN command \subseteq Joints
      BY DEF OutputCommands
    <2>3. j \in DOMAIN sent /\ told'[j] = sent[j]
      BY <2>1 DEF Over
    <2>4. CASE grouped
      <3>1. sent[j] = toVendor(j, updated(command)[j])
        BY <2>1, <2>2, <2>3, <2>4, CommandSent
      <3>2. j \notin DOMAIN command => updated(command)[j] = targets[j]
        BY <1>0, <2>1, <2>2, CommandSent
      <3>3. partial # "none" \/ told[j] = toVendor(j, targets[j])
        BY <2>4 DEF TargetsInv, Remembered
      <3>4. partial # "command"
        BY DEF TornIsHalted, OutputWriteAccepted, WriteAccepted, ReachesPlugin
      <3> QED
        BY <2>1, <2>3, <3>1, <3>2, <3>3, <3>4 DEF Partials
    <2>5. CASE ~grouped
      BY <2>1, <2>3, <2>5 DEF Sent
    <2> QED
      BY <2>4, <2>5
  <1>2. CASE named' = Joints
    BY <1>0, <1>2
  <1>3. CASE told' = told
    BY <1>3
  <1>4. named' = Joints \/ told' = told \/ \E command \in OutputCommands : OutputWriteAccepted(command)
    <2>1. CASE UNCHANGED outputVars
      BY <2>1 DEF outputVars, publishedVars
    <2>2. CASE (\E byGroup \in BOOLEAN : Configure(byGroup)) \/ ConfigureFails
      BY <2>2 DEF Configure, Construct, ConfigureFails, ConstructFails
    <2>3. CASE ProcessDies \/ TimePasses
      BY <2>3 DEF ProcessDies, TimePasses, Silent
    <2>4. CASE \E position \in VendorPositions : StateCallback(position)
      BY <2>4 DEF StateCallback
    <2>5. CASE \E done \in SUBSET Groups :
                   Shutdown(done) \/ OutputStatus(done) \/ OutputStop(done) \/ OutputWatchdog(done)
      BY <2>5 DEF Shutdown, OutputStatus, OutputStop, OutputWatchdog, Silent, StopAll, stopAll
    <2>6. CASE \E done \in SUBSET Groups, answer \in {"invalid", "accepted"} :
                   OutputWriteRefused(answer, done)
      BY <2>6 DEF OutputWriteRefused, Silent, StopAll, stopAll
    <2>7. CASE \E done \in SUBSET Groups, age \in 0 .. FeedbackMaxAge, lapses \in BOOLEAN,
                  again \in SUBSET Groups : OutputRead(age, lapses, done, again)
      BY <2>7 DEF OutputRead, Silent, StopAll, stopAll
    <2>8. CASE \E command \in OutputCommands, sent, again \in SUBSET Groups, lapses \in BOOLEAN :
                   OutputWriteFails(command, sent, lapses, again)
      BY <2>8 DEF OutputWriteFails, stopAll
    <2> QED
      BY <2>1, <2>2, <2>3, <2>4, <2>5, <2>6, <2>7, <2>8 DEF OutputNext
  <1> QED
    BY <1>1, <1>2, <1>3, <1>4

(* OthersPreserved: what a joint was told changes by a command that names  *)
(* it or by a stop, whichever joints share its group; the one exception is *)
(* a command after a hold that stopped half-way, and then the joint is     *)
(* sent the target the driver remembered of it before that hold.           *)
THEOREM OthersPreservedHolds == OutputSpec => OthersPreserved
  <1> DEFINE Step ==
        active /\ active' => \A j \in DOMAIN told : told'[j] # told[j] =>
            \/ j \in named'
            \/ partial = "hold" /\ told'[j] = toVendor(j, targets[j])
  <1> DEFINE Known == partial \in Partials
  <1>1. TargetsInv /\ TornIsHalted /\ Known /\ [OutputNext]_outputVars => [Step]_outputVars
    BY OthersStep
  <1>2. OutputTypeOK => Known
    BY DEF OutputTypeOK
  <1> HIDE DEF Step, Known
  <1>3. OutputSpec => [][Step]_outputVars
    BY <1>1, <1>2, TargetsHold, TornHolds, OutputTypeCorrect, PTL DEF OutputSpec
  <1> QED
    BY <1>3 DEF OthersPreserved, Step
=============================================================================
