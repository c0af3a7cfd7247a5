----------------------------- MODULE GripperNode -----------------------------
(***************************************************************************)
(* HumanoidGripperRuntimeNode (src/humanoid_gripper_runtime_node.cpp)      *)
(* around its GripperRuntime, over a plugin that answers anything.         *)
(*                                                                         *)
(* As in DriverNode, rclcpp::spin runs one handler at a time, and a        *)
(* handler leaves in todo the calls to the runtime it still has to make.   *)
(* A command is not queued: it is written by the handler that receives it. *)
(* Stamps are ages.  The states the node publishes are left out.           *)
(*                                                                         *)
(* A process ends by a crash, which may cut a handler short, or by a       *)
(* shutdown between two handlers, and a new one may be started: the node   *)
(* remembers nothing, the grippers carry on with what they were told.      *)
(***************************************************************************)
EXTENDS GripperRuntime, Sequences

CONSTANTS
    Grippers,           \* owned_names_
    FeedbackMaxAge,     \* feedback_max_age_ms_, in ticks
    CommandMaxAge,      \* command_max_age_ms_, in ticks
    Skew                \* how far in the future a stamp may lie

ASSUME GripperAssumption ==
    /\ Grippers # {}
    /\ FeedbackMaxAge \in Nat \ {0} /\ CommandMaxAge \in Nat \ {0} /\ Skew \in Nat

VARIABLES
    hcSafety,           \* hc_safety_, a parameter that each process reads once
    feedbackReady,      \* feedback_ready_
    stopped,            \* stopped_
    cutoffAge,          \* age of command_cutoff_
    stampAge,           \* age of each gripper's last accepted stamp
    enabledAge,         \* history: time since stopped_ was last reset
    todo,               \* calls the running handler still has to make
    driven              \* grippers the plugin accepted a command for in the last step

stampVars == <<cutoffAge, stampAge, enabledAge>>
nodeVars == <<gripperVars, hcSafety, feedbackReady, stopped, stampVars, todo, driven>>

StampAges == -Skew .. CommandMaxAge
SampleAges == -1 .. FeedbackMaxAge + 1

Idle == todo = <<>>

NoStamps == [g \in Grippers |-> CommandMaxAge]

NodeInit ==
    /\ Init
    /\ hcSafety = FALSE /\ feedbackReady = FALSE /\ stopped = FALSE
    /\ cutoffAge = CommandMaxAge /\ stampAge = NoStamps /\ enabledAge = CommandMaxAge
    /\ todo = <<>> /\ driven = {}

-----------------------------------------------------------------------------
(* A process starts, or fails to; its destructors run; it dies.  A process *)
(* that does not exist has no memory.                                      *)
StartNode(hc) ==
    /\ Construct
    /\ hcSafety' = hc
    /\ UNCHANGED <<feedbackReady, stopped, stampVars, todo, driven>>

StartFails(held) ==
    /\ ConstructFails(held)
    /\ UNCHANGED <<hcSafety, feedbackReady, stopped, stampVars, todo, driven>>

Forget ==
    /\ hcSafety' = FALSE /\ feedbackReady' = FALSE /\ stopped' = FALSE
    /\ cutoffAge' = CommandMaxAge /\ stampAge' = NoStamps /\ enabledAge' = CommandMaxAge
    /\ todo' = <<>> /\ driven' = {}

Shutdown(held) == Idle /\ Destroy(held) /\ Forget

NodeCrash == Crash /\ Forget

-----------------------------------------------------------------------------
(* A revocation that does nothing new to a node that is stopped.           *)
Revoke_Once ==
    /\ stopped' = TRUE
    /\ cutoffAge' = IF stopped THEN cutoffAge ELSE 0
    /\ UNCHANGED <<stampAge, enabledAge>>

(* revoke(), before the stop() it ends with.                               *)
Revoke == stopped' = TRUE /\ cutoffAge' = 0 /\ UNCHANGED <<stampAge, enabledAge>>

(* dated: the ROS clock is past the age of the sample.                     *)
Fresh(answer, age, dated) ==
    ReadSucceeds(answer) /\ age >= 0 /\ age <= FeedbackMaxAge /\ dated

(* Missing feedback that revokes nothing.                                  *)
FeedbackMissing_NoRevoke ==
    /\ feedbackReady' = FALSE
    /\ todo' = <<"watchdog">>
    /\ UNCHANGED <<stopped, stampVars>>

FeedbackMissing ==
    /\ feedbackReady' = FALSE
    /\ \/ /\ hcSafety /\ feedbackReady
          /\ Revoke
          /\ todo' = <<"stop", "watchdog">>
       \/ /\ ~(hcSafety /\ feedbackReady)
          /\ todo' = <<"watchdog">>
          /\ UNCHANGED <<stopped, stampVars>>

FeedbackPresent ==
    /\ feedbackReady' = TRUE
    /\ todo' = <<"watchdog">>
    /\ UNCHANGED <<stopped, stampVars>>

ControlTick(answer, age, dated, held) ==
    /\ Idle
    /\ Read(answer, held)
    /\ \/ Fresh(answer, age, dated) /\ FeedbackPresent
       \/ ~Fresh(answer, age, dated) /\ FeedbackMissing
    /\ driven' = {}
    /\ UNCHANGED hcSafety

-----------------------------------------------------------------------------
(* command() without its test of stopped_.                                 *)
Listening_Stopped == feedbackReady
Listening == ~stopped /\ feedbackReady

(* The stamps are looked at with hc_safety only.                           *)
CurrentStamp(members, age) ==
    hcSafety =>
        /\ age < cutoffAge
        /\ \A g \in members : age < stampAge[g] /\ age < CommandMaxAge

(* command() for a message that addresses members, stamped age ago.  A     *)
(* malformed one reaches the runtime, which refuses it, after its stamps   *)
(* were taken.                                                             *)
Command(members, age, answer, held) ==
    /\ Idle
    /\ Listening
    /\ CurrentStamp(members, age)
    /\ members = {} => answer = "invalid"
    /\ Write(answer, held)
    /\ stampAge' = [g \in Grippers |->
           IF hcSafety /\ g \in members THEN age ELSE stampAge[g]]
    /\ driven' = IF ~driverFaultLatched /\ answer = "accepted" THEN members ELSE {}
    /\ UNCHANGED <<hcSafety, feedbackReady, stopped, cutoffAge, enabledAge, todo>>

(* The emergency-stop subscription, and the enable subscription.           *)
EmergencyStop ==
    /\ Idle /\ active /\ hcSafety
    /\ Revoke
    /\ todo' = <<"stop">>
    /\ driven' = {}
    /\ UNCHANGED <<gripperVars, hcSafety, feedbackReady>>

OutputEnable(data) ==
    /\ Idle /\ active /\ hcSafety
    /\ Revoke
    /\ todo' = <<"stop">> \o (IF data /\ feedbackReady THEN <<"enable">> ELSE <<>>)
    /\ driven' = {}
    /\ UNCHANGED <<gripperVars, hcSafety, feedbackReady>>

DiagnosticsTick(health, held) ==
    /\ Idle
    /\ Status(health, held)
    /\ driven' = {}
    /\ UNCHANGED <<hcSafety, feedbackReady, stopped, stampVars, todo>>

-----------------------------------------------------------------------------
Calling(call) == todo # <<>> /\ Head(todo) = call /\ todo' = Tail(todo) /\ driven' = {}

CallStop(held) ==
    /\ Calling("stop")
    /\ Stop(FALSE, held)
    /\ UNCHANGED <<hcSafety, feedbackReady, stopped, stampVars>>

CallWatchdog(held) ==
    /\ Calling("watchdog")
    /\ EnforceWatchdog(held) \/ (~WatchdogDue /\ UNCHANGED gripperVars)
    /\ UNCHANGED <<hcSafety, feedbackReady, stopped, stampVars>>

(* An enable message that does not look at the fault.                      *)
CallEnable_Faulted(health, held) ==
    /\ Calling("enable")
    /\ Status(health, held)
    /\ stopped' = FALSE
    /\ enabledAge' = 0
    /\ UNCHANGED <<hcSafety, feedbackReady, cutoffAge, stampAge>>

CallEnable(health, held) ==
    /\ Calling("enable")
    /\ Status(health, held)
    /\ stopped' = (stopped /\ driverFaultLatched')
    /\ enabledAge' = IF driverFaultLatched' THEN enabledAge ELSE 0
    /\ UNCHANGED <<hcSafety, feedbackReady, cutoffAge, stampAge>>

Older(age) == IF age < CommandMaxAge THEN age + 1 ELSE age

NodeTick ==
    /\ Idle /\ active
    /\ Tick
    /\ cutoffAge' = Older(cutoffAge)
    /\ stampAge' = [g \in Grippers |-> Older(stampAge[g])]
    /\ enabledAge' = Older(enabledAge)
    /\ driven' = {}
    /\ UNCHANGED <<hcSafety, feedbackReady, stopped, todo>>

-----------------------------------------------------------------------------
ControlTimer ==
    \E answer \in ReadAnswers, age \in SampleAges, dated, held \in BOOLEAN :
        ControlTick(answer, age, dated, held)

HandlerStep ==
    \/ \E held \in BOOLEAN : CallStop(held) \/ CallWatchdog(held)
    \/ \E health \in HealthAnswers, held \in BOOLEAN : CallEnable(health, held)

NodeNext ==
    \/ \E hc \in BOOLEAN : StartNode(hc)
    \/ \E held \in BOOLEAN : StartFails(held) \/ Shutdown(held)
    \/ NodeCrash
    \/ ControlTimer
    \/ HandlerStep
    \/ \E members \in SUBSET Grippers, age \in StampAges, answer \in WriteAnswers,
          held \in BOOLEAN : Command(members, age, answer, held)
    \/ EmergencyStop
    \/ \E data \in BOOLEAN : OutputEnable(data)
    \/ \E health \in HealthAnswers, held \in BOOLEAN : DiagnosticsTick(health, held)
    \/ NodeTick

NodeSpec == NodeInit /\ [][NodeNext]_nodeVars

(* As for FairNodeSpec of DriverNode.                                      *)
FairNodeSpec == NodeSpec /\ WF_nodeVars(HandlerStep)
                         /\ SF_nodeVars(ControlTimer)
                         /\ SF_nodeVars(NodeTick)

-----------------------------------------------------------------------------
(* Types; a revocation stops before anything else, an enable comes last.   *)
GripperNodeTypeOK ==
    /\ hcSafety \in BOOLEAN /\ feedbackReady \in BOOLEAN /\ stopped \in BOOLEAN
    /\ cutoffAge \in 0 .. CommandMaxAge /\ enabledAge \in 0 .. CommandMaxAge
    /\ stampAge \in [Grippers -> StampAges]
    /\ todo \in {<<>>, <<"stop">>, <<"watchdog">>, <<"enable">>,
                 <<"stop", "watchdog">>, <<"stop", "enable">>}
    /\ driven \subseteq Grippers

(* Once the stop of a revocation was made, no command sets the grippers of *)
(* a stopped node in motion again.                                         *)
StoppedIsStill ==
    stopped /\ (\A i \in DOMAIN todo : todo[i] # "stop") => output # "motion"

(* A gripper is driven only by a command stamped after the node was last   *)
(* enabled: not by one that was given while the node was stopped, however  *)
(* often it was revoked before, and however late the command arrives.      *)
GivenSinceEnabled ==
    hcSafety => \A g \in driven : stampAge[g] < enabledAge

(* A motion of grippers that nobody can see ends: no command renews it,    *)
(* and without hc_safety the watchdog ends what no revocation does.        *)
BlindMotionEnds ==
    (active /\ output = "motion" /\ ~feedbackReady)
        ~> (output # "motion" \/ feedbackReady \/ ~active)

(* A motion that a process inherits from one that crashed, or that its     *)
(* clients stop renewing, ends while control ticks go on.                  *)
MotionIsRenewedOrEnds ==
    (active /\ output = "motion" /\ commandAge > 0)
        ~> (commandAge = 0 \/ output # "motion" \/ ~active)

Locked == stopped /\ driverFaultLatched /\ output # "motion"

(* A fault that latches while the node has feedback stops the node, and    *)
(* whatever enable messages follow, it is stopped as long as it lives.     *)
FaultLocks == (hcSafety /\ driverFaultLatched /\ feedbackReady) ~> (Locked \/ ~active)

LockHolds == [][hcSafety /\ Locked /\ active' => Locked']_nodeVars
=============================================================================
