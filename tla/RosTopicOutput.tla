--------------------------- MODULE RosTopicOutput ---------------------------
(***************************************************************************)
(* What RosTopicRobotDriver (src/ros_topic_robot_driver.cpp) publishes to  *)
(* the vendor's controllers, under its DriverRuntime: one message for all  *)
(* joints of a command, or one for each group a command touches, with the  *)
(* targets the driver remembers for the joints that were not named.        *)
(* RosTopicNode has the ages of the feedback; here it is fresh or not.     *)
(*                                                                         *)
(* A publication may fail after any of its messages.  The runtime and the  *)
(* driver share the node's only thread, so no feedback arrives during a    *)
(* call of the runtime, but what there is may become stale.                *)
(*                                                                         *)
(* A sample and a command have one position for all their joints: the      *)
(* sample in the vendor's unit, the command in one of this driver's.  The  *)
(* latter is so fine that Scale, a ratio of the two, is an integer; what   *)
(* lies between two of the vendor's positions is rounded by the division.  *)
(***************************************************************************)
EXTENDS DriverRuntime

CONSTANTS
    Joints,
    GroupOf,            \* vendor_group of each joint
    Scale,              \* vendor_to_logical_scale
    Offset,             \* vendor_to_logical_offset_rad
    VendorPositions,    \* the positions sampled
    LogicalTargets      \* the positions commanded

ASSUME OutputAssumption ==
    /\ Joints # {} /\ DOMAIN GroupOf = Joints
    /\ Scale \in [Joints -> Int \ {0}] /\ Offset \in [Joints -> Int]
    /\ VendorPositions \subseteq Int /\ LogicalTargets \subseteq Int

(* What health() answers is among what DriverRuntime allows for.           *)
ASSUME OutputHealthAssumption ==
    [level : {"ok", "warning", "stale"}, connected : {TRUE}, active : {TRUE},
     communicationOk : BOOLEAN] \subseteq PluginHealths

VARIABLES
    grouped,            \* ~group_publishers_.empty()
    awaiting,           \* no sample yet, and startup_grace_ not over
    haveState,          \* have_state_
    fresh,              \* stateFreshLocked()
    sensed,             \* the vendor's positions in latest_state_
    stopped,            \* stopped_
    targets,            \* position_targets_
    told,               \* the last position each joint was sent
    named,              \* the joints the last publication was about
    partial             \* see Partials

feedbackVars == <<awaiting, haveState, fresh, sensed>>
publishedVars == <<stopped, targets, told, named, partial>>
outputVars == <<runtimeVars, grouped, feedbackVars, publishedVars>>

Groups == {GroupOf[j] : j \in Joints}
Nothing == [j \in {} |-> 0]

(* What is new, on top of what was before.                                 *)
Over(new, old) ==
    [j \in DOMAIN new \union DOMAIN old |-> IF j \in DOMAIN new THEN new[j] ELSE old[j]]

(* What was published in part and has not been replaced by a complete hold:*)
(* nothing, holds only, or a command.                                      *)
Partials == {"none", "hold", "command"}

(* The two conversions.                                                    *)
toLogical(j, position) == Scale[j] * position + Offset[j]
toVendor(j, target) ==
    IF Scale[j] > 0 THEN (target - Offset[j]) \div Scale[j]
    ELSE (Offset[j] - target) \div (-Scale[j])

-----------------------------------------------------------------------------
(* publishCommandLocked() fills a group's message from the targets, and    *)
(* remembers them when every group was published.  (Also in forms that     *)
(* fill it with what was measured, and that remember beforehand.)          *)
updated_Measured(command) == Over(command, [j \in Joints |-> toLogical(j, sensed)])
updated(command) == Over(command, targets)

Affected(command) == {GroupOf[j] : j \in DOMAIN command}

(* The messages that got out, if done are the groups that were published:  *)
(* those before the one that failed, in an order nobody chose.             *)
Sent(command, done) ==
    LET reached == {j \in Joints : GroupOf[j] \in done /\ (grouped \/ j \in DOMAIN command)}
    IN  [j \in reached |-> toVendor(j, updated(command)[j])]

MayReach(command, done) ==
    /\ done \subseteq Affected(command)
    /\ ~grouped => done \in {{}, Affected(command)}

remembered_Early(command, done) == IF grouped THEN updated(command) ELSE targets

remembered(command, done) ==
    IF grouped /\ done = Affected(command) THEN updated(command) ELSE targets

-----------------------------------------------------------------------------
(* publishHoldLocked(): the last measured position, once there is one.     *)
HoldCommand == [j \in Joints |-> toLogical(j, sensed)]
Held(done) == haveState /\ done = Groups

(* stopAll(), after the messages of before got out in the same call of the *)
(* runtime and left memory and unfinished in targets and partial.  (Also   *)
(* in a form that trusts its own stopped_.)                                *)
stopAll_Once(before, memory, unfinished, done) ==
    /\ IF haveState THEN MayReach(HoldCommand, done) ELSE done = {}
    /\ IF stopped
       THEN UNCHANGED <<told, targets, stopped, partial>>
       ELSE /\ told' = Over(Sent(HoldCommand, done), Over(before, told))
            /\ targets' = IF Held(done) THEN remembered(HoldCommand, done) ELSE memory
            /\ stopped' = Held(done)
            /\ partial' = IF Held(done) THEN "none" ELSE unfinished
    /\ named' = Joints

stopAll(before, memory, unfinished, done) ==
    /\ IF haveState THEN MayReach(HoldCommand, done) ELSE done = {}
    /\ told' = Over(Sent(HoldCommand, done), Over(before, told))
    /\ targets' = IF Held(done) THEN remembered(HoldCommand, done) ELSE memory
    /\ stopped' = (stopped \/ Held(done))
    /\ partial' = IF Held(done) THEN "none"
                  ELSE IF unfinished = "none" /\ done # {} THEN "hold" ELSE unfinished
    /\ named' = Joints

StopAll(done) == stopAll(Nothing, targets, partial, done)

Silent == UNCHANGED <<stopped, targets, told, partial>> /\ named' = {}

-----------------------------------------------------------------------------
(* The other answers of the driver, before and after it became stale.      *)
readJointState ==
    IF awaiting THEN "noFeedback" ELSE IF fresh THEN "sample" ELSE "communication"

health(isFresh) ==
    [level |-> IF awaiting \/ (isFresh /\ stopped) THEN "warning"
               ELSE IF isFresh THEN "ok" ELSE "stale",
     connected |-> TRUE, active |-> TRUE, communicationOk |-> awaiting \/ isFresh]

BecomesStale(lapses) ==
    /\ lapses => fresh
    /\ fresh' = (fresh /\ ~lapses)
    /\ UNCHANGED <<awaiting, haveState, sensed>>

-----------------------------------------------------------------------------
OutputInit ==
    /\ Init
    /\ grouped = FALSE
    /\ awaiting = TRUE /\ haveState = FALSE /\ fresh = FALSE
    /\ sensed \in VendorPositions
    /\ stopped = TRUE
    /\ targets = Nothing /\ told = Nothing /\ named = {} /\ partial = "none"

(* configure() of a new driver object; the calls that follow it cannot     *)
(* fail.  A driver that was not configured refuses stopAll().              *)
Configure(byGroup) ==
    /\ Construct
    /\ grouped' = byGroup
    /\ awaiting' = TRUE /\ haveState' = FALSE /\ fresh' = FALSE
    /\ UNCHANGED sensed
    /\ stopped' = TRUE
    /\ targets' = Nothing /\ told' = Nothing /\ named' = {} /\ partial' = "none"

ConfigureFails == ConstructFails(FALSE) /\ UNCHANGED <<grouped, feedbackVars, publishedVars>>

Shutdown(done) ==
    /\ Destroy(Held(done))
    /\ StopAll(done)
    /\ UNCHANGED <<grouped, feedbackVars>>

ProcessDies == Crash /\ Silent /\ UNCHANGED <<grouped, feedbackVars>>

(* stateCallback() for a message that is complete and new.                 *)
StateCallback(position) ==
    /\ active
    /\ awaiting' = FALSE /\ haveState' = TRUE /\ fresh' = TRUE
    /\ sensed' = position
    /\ targets' = IF targets = Nothing THEN [j \in Joints |-> toLogical(j, position)] ELSE targets
    /\ named' = {}
    /\ UNCHANGED <<runtimeVars, grouped, stopped, told, partial>>

(* state_timeout_ or startup_grace_ runs out between two calls, or the     *)
(* watchdog's time passes.                                                 *)
TimePasses ==
    /\ active
    /\ \/ fresh /\ BecomesStale(TRUE) /\ UNCHANGED runtimeVars
       \/ /\ awaiting /\ awaiting' = FALSE
          /\ UNCHANGED <<runtimeVars, haveState, fresh, sensed>>
       \/ Tick /\ UNCHANGED feedbackVars
    /\ Silent
    /\ UNCHANGED grouped

-----------------------------------------------------------------------------
(* The calls of the runtime, by whether they stop, how often, and after    *)
(* which messages.                                                         *)
OutputRead(age, lapses, done, again) ==
    LET later == health(fresh /\ ~lapses)
    IN  /\ active
        /\ BecomesStale(lapses)
        /\ \/ ReadQuietly(readJointState, age) /\ Silent
           \/ ReadStillWaits(readJointState, age, later) /\ Silent
           \/ /\ ReadLosesFeedback(readJointState, age, later, Held(done))
              /\ IF feedbackWaiting THEN Silent ELSE StopAll(done)
           \/ /\ ReadRecovers(readJointState, age, later, Held(done))
              /\ StopAll(done)
           \/ /\ ReadCannotRecover(readJointState, age, later, Held(done), Held(again))
              /\ MayReach(HoldCommand, done)
              /\ stopAll(Sent(HoldCommand, done), targets,
                         IF partial = "none" /\ done # {} THEN "hold" ELSE partial, again)
    /\ UNCHANGED grouped

(* A command the runtime refuses, or the driver, which then publishes      *)
(* nothing: for want of any feedback, or of fresh feedback.                *)
OutputWriteRefused(answer, done) ==
    /\ active
    /\ \/ WriteRefused(answer) /\ Silent
       \/ /\ ~haveState /\ WriteFails("failed", health(FALSE), FALSE)
          /\ StopAll(done)
       \/ /\ haveState /\ ~fresh
          /\ WriteLosesFeedback("communication", health(FALSE), Held(done))
          /\ StopAll(done)
    /\ UNCHANGED <<grouped, feedbackVars>>

OutputWriteAccepted(command) ==
    /\ active /\ fresh
    /\ WriteAccepted("accepted")
    /\ told' = Over(Sent(command, Affected(command)), told)
    /\ targets' = remembered(command, Affected(command))
    /\ stopped' = FALSE
    /\ named' = DOMAIN command
    /\ UNCHANGED <<grouped, feedbackVars, partial>>

(* Publishing throws after the groups of sent; again are those its stop    *)
(* reaches.                                                                *)
OutputWriteFails(command, sent, lapses, again) ==
    LET later == health(fresh /\ ~lapses)
    IN  /\ active /\ fresh
        /\ MayReach(command, sent) /\ sent # Affected(command)
        /\ BecomesStale(lapses)
        /\ \/ WriteFails("communication", later, Held(again))
           \/ WriteLosesFeedback("communication", later, Held(again))
        /\ stopAll(Sent(command, sent), remembered(command, sent),
                   IF sent # {} THEN "command" ELSE partial, again)
        /\ UNCHANGED grouped

OutputStatus(done) ==
    /\ Status(health(fresh), Held(done))
    /\ IF feedbackUnavailable(health(fresh)) /\ ~driverFaultLatched /\ ~feedbackWaiting
       THEN StopAll(done) ELSE Silent
    /\ UNCHANGED <<grouped, feedbackVars>>

OutputStop(done) ==
    /\ Stop(FALSE, Held(done))
    /\ IF driverFaultLatched THEN Silent ELSE StopAll(done)
    /\ UNCHANGED <<grouped, feedbackVars>>

OutputWatchdog(done) ==
    /\ EnforceWatchdog(Held(done))
    /\ StopAll(done)
    /\ UNCHANGED <<grouped, feedbackVars>>

-----------------------------------------------------------------------------
OutputCommands ==
    {[j \in members |-> target] : members \in (SUBSET Joints) \ {{}}, target \in LogicalTargets}

OutputNext ==
    \/ \E byGroup \in BOOLEAN : Configure(byGroup)
    \/ ConfigureFails
    \/ ProcessDies
    \/ \E position \in VendorPositions : StateCallback(position)
    \/ TimePasses
    \/ \E done \in SUBSET Groups :
          \/ Shutdown(done) \/ OutputStatus(done) \/ OutputStop(done) \/ OutputWatchdog(done)
          \/ \E answer \in {"invalid", "accepted"} : OutputWriteRefused(answer, done)
          \/ \E age \in 0 .. FeedbackMaxAge, lapses \in BOOLEAN, again \in SUBSET Groups :
                OutputRead(age, lapses, done, again)
    \/ \E command \in OutputCommands :
          \/ OutputWriteAccepted(command)
          \/ \E sent, again \in SUBSET Groups, lapses \in BOOLEAN :
                OutputWriteFails(command, sent, lapses, again)

OutputSpec == OutputInit /\ [][OutputNext]_outputVars

-----------------------------------------------------------------------------
(* Types; targets are remembered for no joint or for all of them.          *)
OutputTypeOK ==
    /\ grouped \in BOOLEAN /\ stopped \in BOOLEAN
    /\ awaiting \in BOOLEAN /\ haveState \in BOOLEAN /\ fresh \in BOOLEAN
    /\ (fresh => haveState) /\ (haveState => ~awaiting)
    /\ sensed \in VendorPositions
    /\ targets \in [IF haveState THEN Joints ELSE {} -> Int]
    /\ told \in UNION {[known -> Int] : known \in SUBSET Joints}
    /\ named \subseteq Joints
    /\ partial \in Partials

(* Unless a publication stopped half-way, the driver remembers of every    *)
(* joint what it last sent to it, so the next message of a group does not  *)
(* move a joint nobody named.                                              *)
Remembered ==
    grouped /\ partial = "none" =>
        \A j \in DOMAIN told : told[j] = toVendor(j, targets[j])

(* What a joint was told changes by a command that names it or by a stop;  *)
(* but after a hold that stopped half-way, a command to a joint of its     *)
(* group also sends it back to the target remembered from before the hold. *)
OthersPreserved ==
    [][active /\ active' => \A j \in DOMAIN told : told'[j] # told[j] =>
        \/ j \in named'
        \/ partial = "hold" /\ told'[j] = toVendor(j, targets[j])]_outputVars

(* Feedback that returns finds every joint told to stay where it is now.   *)
RecoveryHoldsHere ==
    [][active /\ feedbackWaiting /\ active' /\ ~feedbackWaiting' /\ ~driverFaultLatched'
        => told' = [j \in Joints |-> sensed]]_outputVars

(* A robot of which only some groups got a command is not commanded on: it *)
(* is faulted, or waits for feedback and then for a hold of all its groups.*)
TornIsHalted ==
    active /\ partial = "command" => driverFaultLatched \/ feedbackWaiting
=============================================================================
