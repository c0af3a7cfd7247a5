----------------------------- MODULE DriverNode -----------------------------
(***************************************************************************)
(* HumanoidDriverRuntimeNode (src/humanoid_driver_runtime_node.cpp) around *)
(* its DriverRuntime, over a plugin that answers anything.                 *)
(*                                                                         *)
(* rclcpp::spin runs one handler at a time.  A handler is a first action   *)
(* with its own effects, which leaves in todo the calls to the runtime it  *)
(* still has to make; each of those is one action, because each takes the  *)
(* runtime's mutex and gets its own answers from the plugin.  The writes   *)
(* of flushCommands() are the batch.                                       *)
(*                                                                         *)
(* Stamps are ages: the code only compares a stamp with the stamp last     *)
(* accepted, the cutoff of the last revocation and the maximum age, so an  *)
(* age stops growing at CommandMaxAge.  The ROS clock is not set back here *)
(* (SampleStream does that), but a simulated one may not have started.     *)
(***************************************************************************)
EXTENDS DriverRuntime, Sequences

CONSTANTS
    Joints,
    GroupOf,            \* joint_groups_
    CommandMaxAge,      \* command_max_age_ms_, in ticks
    Skew,               \* how far in the future a stamp may lie
    HcSafety            \* hc_safety_

ASSUME JointAssumption == Joints # {} /\ DOMAIN GroupOf = Joints
ASSUME CommandAssumption == CommandMaxAge \in Nat \ {0} /\ Skew \in Nat
ASSUME HcAssumption == HcSafety \in BOOLEAN

VARIABLES
    feedbackReady,      \* feedback_ready_
    stopped,            \* stopped_
    ready,              \* the last message on hardware_ready_topic
    cutoffAge,          \* age of command_cutoff_
    stampAge,           \* age of each joint's last accepted stamp
    pending,            \* time each joint's pending command stays valid, or 0
    todo,               \* calls the running handler still has to make
    batch,              \* group commands flushCommands() still has to write
    driven,             \* the command the plugin accepted in the last step
    rosStarted          \* the ROS clock is past the age of any fresh sample

handlerVars == <<todo, batch>>
commandVars == <<cutoffAge, stampAge, pending>>
switchVars == <<feedbackReady, stopped, ready, rosStarted>>
nodeVars == <<runtimeVars, switchVars, commandVars, handlerVars, driven>>

Calls == {"stop", "ready", "watchdog", "flush", "enable"}
StampAges == -Skew .. CommandMaxAge
NothingPending == [j \in Joints |-> 0]

(* A group command: the joints in it, and how long each stays valid.       *)
Commands == UNION {[members -> 0 .. CommandMaxAge] : members \in (SUBSET Joints) \ {{}}}

Idle == todo = <<>> /\ batch = {}

(* The runtime has just been constructed; the robot may still carry out    *)
(* what a process that crashed told it.                                    *)
NodeInit ==
    /\ active = TRUE /\ abandoned = FALSE
    /\ watchdogLatched = FALSE /\ driverFaultLatched = FALSE /\ feedbackWaiting = FALSE
    /\ interruptions = 0 /\ recoveries = 0 /\ watchdogStops = 0
    /\ safetyStops = 0 /\ rejected = 0
    /\ lastStopReason = "none"
    /\ commandAge = 0
    /\ output \in {"hold", "motion"}
    /\ feedbackReady = FALSE
    /\ stopped = FALSE
    /\ ready = FALSE
    /\ cutoffAge = CommandMaxAge
    /\ stampAge = [j \in Joints |-> CommandMaxAge]
    /\ pending = NothingPending
    /\ todo = <<>> /\ batch = {} /\ driven = {}
    /\ rosStarted \in BOOLEAN

-----------------------------------------------------------------------------
(* revoke(true): its own effects, before the calls it makes.               *)
Revoke ==
    /\ pending' = NothingPending
    /\ cutoffAge' = 0
    /\ stopped' = TRUE
    /\ UNCHANGED stampAge

(* The calls of revoke(true), and those of publishReady(), which has no    *)
(* publisher to call for without hc_safety.                                *)
PublishReady == IF HcSafety THEN <<"ready">> ELSE <<>>

(* revoke() without its publishReady().                                    *)
RevokeCalls_Silent == <<"stop">>

RevokeCalls == <<"stop">> \o PublishReady

(* A failed read that leaves what is queued in the queue.                  *)
FeedbackMissing_KeepsQueue(revokes) ==
    /\ feedbackReady' = FALSE
    /\ todo' = PublishReady \o <<"watchdog">>
    /\ UNCHANGED <<stopped, commandVars>>

(* A failed read that clears the queue and revokes nothing.                *)
FeedbackMissing_NoRevoke(revokes) ==
    /\ feedbackReady' = FALSE
    /\ pending' = NothingPending
    /\ todo' = PublishReady \o <<"watchdog">>
    /\ UNCHANGED <<stopped, cutoffAge, stampAge>>

(* controlTick() with no sample, or with one the ROS clock cannot date yet,*)
(* which revokes even in a node that had no feedback before.               *)
FeedbackMissing(revokes) ==
    /\ feedbackReady' = FALSE
    /\ \/ /\ HcSafety /\ revokes
          /\ Revoke
          /\ todo' = RevokeCalls \o PublishReady \o <<"watchdog">>
       \/ /\ ~(HcSafety /\ revokes)
          /\ pending' = NothingPending
          /\ todo' = PublishReady \o <<"watchdog">>
          /\ UNCHANGED <<stopped, cutoffAge, stampAge>>

(* A successful read that returns before enforceWatchdog().                *)
FeedbackPresent_NoWatchdog ==
    /\ feedbackReady' = TRUE
    /\ todo' = PublishReady \o (IF stopped THEN <<>> ELSE <<"flush">>)
    /\ UNCHANGED <<stopped, commandVars>>

FeedbackPresent ==
    /\ feedbackReady' = TRUE
    /\ todo' = <<"watchdog">> \o PublishReady
                 \o (IF stopped THEN <<>> ELSE <<"flush">>)
    /\ UNCHANGED <<stopped, commandVars>>

(* A ROS clock that has just started dates younger samples and not older   *)
(* ones; a sample that was published before is not dated again.            *)
ControlTick(answer, age, health, held, heldAgain) ==
    /\ Idle
    /\ Read(answer, age, health, held, heldAgain)
    /\ LET succeeds == ReadSucceeds(answer, age, health, held)
       IN  \/ ~succeeds /\ FeedbackMissing(feedbackReady)
           \/ succeeds /\ ~rosStarted /\ FeedbackMissing(TRUE)
           \/ succeeds /\ FeedbackPresent
    /\ driven' = {}
    /\ UNCHANGED <<ready, rosStarted, batch>>

-----------------------------------------------------------------------------
(* commandCallback() without its test of stopped_.                         *)
Listening_Stopped == feedbackReady

Listening == ~stopped /\ feedbackReady

(* Without the cutoff, a command stamped before a revocation passes.       *)
AfterCutoff_Ignored(age) == TRUE

AfterCutoff(age) == HcSafety => age < cutoffAge

NewStamp(age, j) == age < stampAge[j] /\ age < CommandMaxAge

(* A stamp from the future that is valid for longer.                       *)
Validity_FromFuture(age) == CommandMaxAge - age

Validity(age) == CommandMaxAge - (IF age > 0 THEN age ELSE 0)

(* commandCallback() for a well-formed message about the joints of members,*)
(* stamped age ago; every other message is dropped without effect.         *)
CommandCallback(members, age) ==
    /\ Idle
    /\ Listening
    /\ AfterCutoff(age)
    /\ \A j \in members : NewStamp(age, j)
    /\ stampAge' = [j \in Joints |-> IF j \in members THEN age ELSE stampAge[j]]
    /\ pending' = [j \in Joints |->
           IF j \in members THEN Validity(age) ELSE pending[j]]
    /\ driven' = {}
    /\ UNCHANGED <<runtimeVars, switchVars, cutoffAge, handlerVars>>

(* The emergency-stop subscription, and the enable subscription.           *)
EmergencyStop ==
    /\ Idle /\ HcSafety
    /\ Revoke
    /\ todo' = RevokeCalls
    /\ driven' = {}
    /\ UNCHANGED <<runtimeVars, feedbackReady, ready, rosStarted, batch>>

OutputEnable(data) ==
    /\ Idle /\ HcSafety
    /\ Revoke
    /\ todo' = RevokeCalls \o (IF data /\ feedbackReady THEN <<"enable">> ELSE <<>>)
    /\ driven' = {}
    /\ UNCHANGED <<runtimeVars, feedbackReady, ready, rosStarted, batch>>

(* publishDiagnostics(): its only effect on the control path is status().  *)
PublishDiagnostics(health, held) ==
    /\ Idle
    /\ Status(health, held)
    /\ driven' = {}
    /\ UNCHANGED <<switchVars, commandVars, handlerVars>>

-----------------------------------------------------------------------------
(* The calls a handler leaves behind, in order.                            *)
Calling(call) == todo # <<>> /\ Head(todo) = call /\ todo' = Tail(todo) /\ driven' = {}

CallStop(held) ==
    /\ Calling("stop")
    /\ Stop(FALSE, held)
    /\ UNCHANGED <<switchVars, commandVars, batch>>

CallReady(health, held) ==
    /\ Calling("ready")
    /\ Status(health, held)
    /\ ready' = (feedbackReady /\ ~stopped /\ ~driverFaultLatched' /\ ~feedbackWaiting')
    /\ UNCHANGED <<feedbackReady, stopped, rosStarted, commandVars, batch>>

CallWatchdog(held) ==
    /\ Calling("watchdog")
    /\ \/ EnforceWatchdog(held)
       \/ ~WatchdogDue /\ UNCHANGED runtimeVars
    /\ UNCHANGED <<switchVars, commandVars, batch>>

CallEnable(health, held) ==
    /\ Calling("enable")
    /\ Status(health, held)
    /\ stopped' = (stopped /\ driverFaultLatched')
    /\ UNCHANGED <<feedbackReady, ready, rosStarted, commandVars, batch>>

(* flushCommands(): one command per group with the joints still valid.     *)
Valid(g) == {j \in Joints : GroupOf[j] = g /\ pending[j] > 0}

Flush ==
    /\ Calling("flush")
    /\ batch' = {[j \in Valid(g) |-> pending[j]] :
                    g \in {GroupOf[j] : j \in {i \in Joints : pending[i] > 0}}}
    /\ pending' = NothingPending
    /\ UNCHANGED <<runtimeVars, switchVars, cutoffAge, stampAge>>

(* The deadline of the newest joint.                                       *)
Expired_ByNewest(command) == \A j \in DOMAIN command : command[j] = 0

(* The deadline of a group command is that of its oldest joint.            *)
Expired(command) == \E j \in DOMAIN command : command[j] = 0

WriteGroup(command, answer, health, held) ==
    /\ todo = <<>>
    /\ answer = "expired" <=> Expired(command)
    /\ Write(answer, health, held)
    /\ batch' = batch \ {command}
    /\ driven' = IF ReachesPlugin(answer) /\ answer = "accepted" THEN {command} ELSE {}
    /\ UNCHANGED <<switchVars, commandVars, todo>>

-----------------------------------------------------------------------------
Older(age) == IF age < CommandMaxAge THEN age + 1 ELSE age
Shorter(left) == IF left > 0 THEN left - 1 ELSE 0

(* Time passes between handlers, and between the writes of a flush.        *)
NodeTick ==
    /\ todo = <<>>
    /\ Tick
    /\ cutoffAge' = Older(cutoffAge)
    /\ stampAge' = [j \in Joints |-> Older(stampAge[j])]
    /\ pending' = [j \in Joints |-> Shorter(pending[j])]
    /\ batch' = {[j \in DOMAIN command |-> Shorter(command[j])] : command \in batch}
    /\ driven' = {}
    /\ UNCHANGED <<switchVars, todo>>

RosClockStarts ==
    /\ Idle /\ ~rosStarted
    /\ rosStarted' = TRUE
    /\ driven' = {}
    /\ UNCHANGED <<runtimeVars, feedbackReady, stopped, ready, commandVars, handlerVars>>

ControlTimer ==
    \E answer \in ReadAnswers, age \in SampleAges, health \in PluginHealths,
       held, heldAgain \in BOOLEAN : ControlTick(answer, age, health, held, heldAgain)

HandlerStep ==
    \/ Flush
    \/ \E held \in BOOLEAN : CallStop(held) \/ CallWatchdog(held)
    \/ \E health \in PluginHealths, held \in BOOLEAN :
          CallReady(health, held) \/ CallEnable(health, held)
    \/ \E command \in batch, answer \in WriteAnswers \ {"invalid"},
          health \in PluginHealths, held \in BOOLEAN :
          WriteGroup(command, answer, health, held)

NodeNext ==
    \/ ControlTimer
    \/ HandlerStep
    \/ \E members \in (SUBSET Joints) \ {{}}, age \in StampAges : CommandCallback(members, age)
    \/ EmergencyStop
    \/ \E data \in BOOLEAN : OutputEnable(data)
    \/ \E health \in PluginHealths, held \in BOOLEAN : PublishDiagnostics(health, held)
    \/ RosClockStarts
    \/ NodeTick

NodeSpec == NodeInit /\ [][NodeNext]_nodeVars

(* A handler that was started is finished; the executor serves its control *)
(* timer and time passes, whatever else is ready.                          *)
FairNodeSpec == NodeSpec /\ WF_nodeVars(HandlerStep)
                         /\ SF_nodeVars(ControlTimer)
                         /\ SF_nodeVars(NodeTick)

-----------------------------------------------------------------------------
(* Types: in particular no command is ever valid for longer than its       *)
(* maximum age, whatever its stamp.                                        *)
NodeTypeOK ==
    /\ feedbackReady \in BOOLEAN /\ stopped \in BOOLEAN
    /\ ready \in BOOLEAN /\ rosStarted \in BOOLEAN
    /\ cutoffAge \in 0 .. CommandMaxAge
    /\ stampAge \in [Joints -> StampAges]
    /\ pending \in [Joints -> 0 .. CommandMaxAge]
    /\ todo \in Seq(Calls)
    /\ batch \subseteq Commands /\ driven \subseteq Commands

(* Everything the node does to its runtime is a sequence of public calls:  *)
(* what is proved of DriverRuntime holds of the runtime in the node.       *)
UsesRuntime == [][Next]_runtimeVars

(* What the plugin accepts for a joint was stamped after the last          *)
(* revocation and less than the maximum age ago, however long the target   *)
(* waited in the queue and in the batch, whichever newer joints share its  *)
(* group, and whatever was revoked meanwhile.                              *)
DrivenIsRecent ==
    \A command \in driven : \A j \in DOMAIN command :
        /\ stampAge[j] < CommandMaxAge
        /\ HcSafety => stampAge[j] < cutoffAge

(* While the last read gave no sample, no command is queued or on its way. *)
NoCommandWithoutFeedback ==
    ~feedbackReady => pending = NothingPending /\ batch = {} /\ driven = {}

(* A queued command is newer than the last revocation, and stays valid no  *)
(* longer than its newest stamp allows.                                    *)
QueuedIsCurrent ==
    \A j \in Joints : pending[j] > 0 =>
        /\ HcSafety => stampAge[j] < cutoffAge
        /\ pending[j] <= CommandMaxAge - stampAge[j]

(* Once the stop of a revocation was made, a stopped node holds the robot  *)
(* still, queues nothing and sends nothing, until it is enabled.           *)
StoppedIsStill ==
    HcSafety /\ stopped /\ (\A i \in DOMAIN todo : todo[i] # "stop")
        => pending = NothingPending /\ batch = {} /\ output # "motion"

(* Whoever reads the ready topic between handlers never sees a stopped     *)
(* node that claims to be ready, nor one without feedback.                 *)
ReadyIsHonest == Idle /\ HcSafety /\ (stopped \/ ~feedbackReady) => ~ready

(* A fault that latches while the node has feedback ends in the stopped    *)
(* state for good: not ready, not moving, and no enable message undoes it. *)
FaultLocks ==
    (HcSafety /\ driverFaultLatched /\ feedbackReady)
        ~> [](stopped /\ ~ready /\ output # "motion")
=============================================================================
