--------------------------- MODULE DriverRuntime ---------------------------
(***************************************************************************)
(* DriverRuntime (src/driver_runtime.cpp): the object that owns one        *)
(* hardware plugin and decides whether commands may reach it.              *)
(*                                                                         *)
(* Every public method holds mutex_ from its first to its last line, so    *)
(* each is one action.  The plugin's answers to the calls a method makes   *)
(* are the action's parameters; Next lets a plugin answer anything, and    *)
(* the modules that extend this one supply more particular plugins.        *)
(*                                                                         *)
(* Time is the age of the last accepted command.  The code only compares   *)
(* it with the watchdog timeout, so the age stops growing just above it.   *)
(***************************************************************************)
EXTENDS Integers

CONSTANTS
    WatchdogTimeout,    \* command_watchdog, in ticks
    FeedbackMaxAge,     \* feedback_max_age, in ticks
    MaxCount,           \* the largest value of a std::uint64_t counter
    PluginHealths       \* the answers of health() that are considered

ASSUME WatchdogAssumption == WatchdogTimeout \in Nat \ {0}
ASSUME FeedbackAssumption == FeedbackMaxAge \in Nat \ {0}
ASSUME CountAssumption == MaxCount \in Nat

VARIABLES
    active,             \* the constructor succeeded and the object still exists
    abandoned,          \* see below
    watchdogLatched,
    driverFaultLatched,
    feedbackWaiting,
    interruptions,      \* feedback_interruption_count_
    recoveries,         \* feedback_recovery_count_
    watchdogStops,      \* watchdog_stop_count_
    safetyStops,        \* safety_stop_count_
    rejected,           \* rejected_command_count_
    lastStopReason,
    commandAge,         \* now - last_command_time_
    output              \* what the plugin was last told; see Outputs

(* A process that dies runs no destructor.  Until another one has opened   *)
(* the plugin, nobody tells the robot to stop: abandoned is that history,  *)
(* which no member holds.                                                  *)
flags == <<active, abandoned, watchdogLatched, driverFaultLatched, feedbackWaiting>>
counters == <<interruptions, recoveries, watchdogStops, safetyStops, rejected>>
runtimeVars == <<flags, counters, lastStopReason, commandAge, output>>

Counts == 0 .. MaxCount
Ages == 0 .. WatchdogTimeout + 1
Reasons == {"none", "read", "feedback", "recovery", "write", "watchdog",
            "health", "requested"}

(* "hold": stopAll() succeeded, or nothing was ever commanded.  "motion":  *)
(* a command was accepted.  "unheld": a stop was attempted on a moving     *)
(* robot and stopAll() reported a failure or threw.                        *)
Outputs == {"hold", "motion", "unheld"}

(* A counter that does not wrap: what int arithmetic would do.             *)
Bump_Unbounded(n) == n + 1

(* A std::uint64_t counter.                                                *)
Bump(n) == IF n = MaxCount THEN 0 ELSE n + 1

-----------------------------------------------------------------------------
(* What the plugin may answer.                                             *)

(* DriverHealth, or an exception out of health().                          *)
Healths == [level : {"ok", "warning", "error", "stale", "threw"},
            connected : BOOLEAN, active : BOOLEAN, communicationOk : BOOLEAN]

ASSUME HealthAssumption == PluginHealths \subseteq Healths

(* readJointState(): kNoFeedback, kCommunication, any other error or an    *)
(* exception, a sample validateState() refuses, a valid sample.            *)
ReadAnswers == {"noFeedback", "communication", "failed", "invalid", "sample"}

(* write(): the deadline has passed, validateCommand() refuses, or what    *)
(* writeJointCommand() answers (any error but kCommunication, and an       *)
(* exception, is "failed").                                                *)
WriteAnswers == {"expired", "invalid", "communication", "failed", "accepted"}

(* -1 stands for a sample_time later than now.                             *)
SampleAges == -1 .. FeedbackMaxAge

feedbackUnavailable(health) ==
    health.level = "stale" /\ health.connected /\ health.active

(* A health that must not even be a warning.                               *)
Recoverable_OkOnly(health) ==
    health.level = "ok" /\ health.communicationOk /\ health.connected /\ health.active

(* What read() asks of health() before it leaves feedback_waiting.         *)
Recoverable(health) ==
    /\ health.level \in {"ok", "warning"}
    /\ health.communicationOk /\ health.connected /\ health.active

(* What status() tolerates.                                                *)
Tolerable(health) ==
    \/ feedbackUnavailable(health)
    \/ health.level \in {"ok", "warning"} /\ health.communicationOk

(* A sample of any age but the future's.                                   *)
FreshSample_Unbounded(age) == age >= 0

FreshSample(age) == age >= 0 /\ age < FeedbackMaxAge

-----------------------------------------------------------------------------
Init ==
    /\ active = FALSE /\ abandoned = FALSE
    /\ watchdogLatched = FALSE
    /\ driverFaultLatched = FALSE
    /\ feedbackWaiting = FALSE
    /\ interruptions = 0 /\ recoveries = 0 /\ watchdogStops = 0
    /\ safetyStops = 0 /\ rejected = 0
    /\ lastStopReason = "none"
    /\ commandAge = 0
    /\ output = "hold"

AfterStop(told, held) ==
    IF held \/ told = "hold" THEN "hold" ELSE "unheld"

(* stopLocked(reason, false) on a runtime without a latched fault: the     *)
(* answer of stopAll() is discarded, an exception swallowed.               *)
Hold(reason, told, held) ==
    /\ safetyStops' = Bump(safetyStops)
    /\ lastStopReason' = reason
    /\ output' = AfterStop(told, held)

(* stopLocked(reason, true) on a runtime without a latched fault.          *)
LatchFault(reason, told, held) ==
    /\ driverFaultLatched' = TRUE
    /\ feedbackWaiting' = FALSE
    /\ Hold(reason, told, held)
    /\ UNCHANGED <<active, abandoned, watchdogLatched, interruptions, recoveries,
                   watchdogStops, commandAge>>

(* Without the test of feedback_waiting_: every poll is an interruption.   *)
WaitForFeedback_EveryPoll(told, held) ==
    /\ feedbackWaiting' = TRUE
    /\ interruptions' = Bump(interruptions)
    /\ Hold("feedback", told, held)
    /\ UNCHANGED <<active, abandoned, watchdogLatched, driverFaultLatched, recoveries,
                   watchdogStops, commandAge>>

(* waitForFeedbackLocked on a runtime without a latched fault.  A runtime  *)
(* that waits already is left as it is.                                    *)
WaitForFeedback(told, held) ==
    /\ \/ /\ ~feedbackWaiting
          /\ feedbackWaiting' = TRUE
          /\ interruptions' = Bump(interruptions)
          /\ Hold("feedback", told, held)
       \/ /\ feedbackWaiting
          /\ UNCHANGED <<feedbackWaiting, interruptions, safetyStops,
                         lastStopReason, output>>
    /\ UNCHANGED <<active, abandoned, watchdogLatched, driverFaultLatched, recoveries,
                   watchdogStops, commandAge>>

-----------------------------------------------------------------------------
(* The constructor, once it has loaded and started the plugin: a new       *)
(* object, whatever an earlier one left in its members.  What the plugin   *)
(* was last told survives the object.                                      *)
Construct ==
    /\ ~active
    /\ active' = TRUE /\ abandoned' = FALSE
    /\ watchdogLatched' = FALSE
    /\ driverFaultLatched' = FALSE
    /\ feedbackWaiting' = FALSE
    /\ interruptions' = 0 /\ recoveries' = 0 /\ watchdogStops' = 0
    /\ safetyStops' = 0 /\ rejected' = 0
    /\ lastStopReason' = "none"
    /\ commandAge' = 0
    /\ UNCHANGED output

(* A constructor that fails without shutdownLocked().                       *)
ConstructFails_Silent(held) ==
    /\ ~active
    /\ abandoned' = FALSE
    /\ UNCHANGED <<active, watchdogLatched, driverFaultLatched, feedbackWaiting,
                   counters, lastStopReason, commandAge, output>>

(* The constructor when one of the plugin's lifecycle calls fails or throws:*)
(* the plugin is told to stop, and no object comes to exist.  (One that     *)
(* cannot load the plugin does nothing.)                                    *)
ConstructFails(held) ==
    /\ ~active
    /\ abandoned' = FALSE
    /\ output' = AfterStop(output, held)
    /\ UNCHANGED <<active, watchdogLatched, driverFaultLatched, feedbackWaiting,
                   counters, lastStopReason, commandAge>>

(* The destructor: shutdownLocked() stops the robot, then drops the plugin.*)
Destroy(held) ==
    /\ active
    /\ active' = FALSE /\ abandoned' = FALSE
    /\ output' = AfterStop(output, held)
    /\ UNCHANGED <<watchdogLatched, driverFaultLatched, feedbackWaiting,
                   counters, lastStopReason, commandAge>>

(* The process dies: no destructor runs.                                   *)
Crash ==
    /\ active
    /\ active' = FALSE /\ abandoned' = TRUE
    /\ UNCHANGED <<watchdogLatched, driverFaultLatched, feedbackWaiting,
                   counters, lastStopReason, commandAge, output>>

-----------------------------------------------------------------------------
(* read(), path by path.  health, held and heldAgain are the answers to    *)
(* the calls that follow readJointState() on that path.                    *)

(* Nothing to report, or nothing to do about it: a latched fault, no first *)
(* sample yet, a good sample while commands flow.                          *)
ReadQuietly(answer, age) ==
    /\ \/ driverFaultLatched
       \/ answer = "noFeedback"
       \/ answer = "sample" /\ FreshSample(age) /\ ~feedbackWaiting
    /\ UNCHANGED runtimeVars

ReadFails(answer, health, held) ==
    /\ ~driverFaultLatched
    /\ \/ answer \in {"failed", "invalid"}
       \/ answer = "communication" /\ ~feedbackUnavailable(health)
    /\ LatchFault("read", output, held)
    /\ UNCHANGED rejected

ReadLosesFeedback(answer, age, health, held) ==
    /\ ~driverFaultLatched
    /\ \/ answer = "communication" /\ feedbackUnavailable(health)
       \/ answer = "sample" /\ ~FreshSample(age)
    /\ WaitForFeedback(output, held)
    /\ UNCHANGED rejected

(* A fresh sample arrives while the runtime waits for one.                 *)
Returning(answer, age) ==
    ~driverFaultLatched /\ feedbackWaiting /\ answer = "sample" /\ FreshSample(age)

ReadStillWaits(answer, age, health) ==
    /\ Returning(answer, age)
    /\ feedbackUnavailable(health)
    /\ UNCHANGED runtimeVars

(* heldAgain is the answer to the stopAll() of stopLocked(), after health  *)
(* was not good enough or the stopAll() of the recovery failed (~held).    *)
ReadCannotRecover(answer, age, health, held, heldAgain) ==
    /\ Returning(answer, age)
    /\ \/ ~feedbackUnavailable(health) /\ ~Recoverable(health)
       \/ Recoverable(health) /\ ~held
    /\ LatchFault("recovery", output, heldAgain)
    /\ UNCHANGED rejected

(* Recovery that forgets to keep holding until a new command.              *)
ReadRecovers_Live(answer, age, health, held) ==
    /\ Returning(answer, age)
    /\ Recoverable(health) /\ held
    /\ feedbackWaiting' = FALSE
    /\ recoveries' = Bump(recoveries)
    /\ UNCHANGED <<active, abandoned, watchdogLatched, driverFaultLatched, interruptions,
                   watchdogStops, safetyStops, rejected, lastStopReason,
                   commandAge, output>>

(* Recovery that does not look at the answer of stopAll().                 *)
ReadRecovers_Unheld(answer, age, health, held) ==
    /\ Returning(answer, age)
    /\ Recoverable(health)
    /\ output' = AfterStop(output, held)
    /\ feedbackWaiting' = FALSE
    /\ recoveries' = Bump(recoveries)
    /\ watchdogLatched' = TRUE
    /\ UNCHANGED <<active, abandoned, driverFaultLatched, interruptions, watchdogStops,
                   safetyStops, rejected, lastStopReason, commandAge>>

ReadRecovers(answer, age, health, held) ==
    /\ Returning(answer, age)
    /\ Recoverable(health) /\ held
    /\ output' = AfterStop(output, held)
    /\ feedbackWaiting' = FALSE
    /\ recoveries' = Bump(recoveries)
    /\ watchdogLatched' = TRUE
    /\ UNCHANGED <<active, abandoned, driverFaultLatched, interruptions, watchdogStops,
                   safetyStops, rejected, lastStopReason, commandAge>>

Read(answer, age, health, held, heldAgain) ==
    /\ active
    /\ \/ ReadQuietly(answer, age)
       \/ ReadFails(answer, health, held)
       \/ ReadLosesFeedback(answer, age, health, held)
       \/ ReadStillWaits(answer, age, health)
       \/ ReadCannotRecover(answer, age, health, held, heldAgain)
       \/ ReadRecovers(answer, age, health, held)

(* Whether the read() with these answers returns a sample.                 *)
ReadSucceeds(answer, age, health, held) ==
    /\ ~driverFaultLatched /\ answer = "sample" /\ FreshSample(age)
    /\ feedbackWaiting => Recoverable(health) /\ held

-----------------------------------------------------------------------------
(* write(): the checks before the plugin is called, in any of which the    *)
(* command is only counted.                                                *)
WriteRefused(answer) ==
    /\ \/ answer \in {"expired", "invalid"}
       \/ driverFaultLatched
       \/ feedbackWaiting
    /\ rejected' = Bump(rejected)
    /\ UNCHANGED <<flags, interruptions, recoveries, watchdogStops, safetyStops,
                   lastStopReason, commandAge, output>>

(* write() without its test of driver_fault_latched_.                      *)
ReachesPlugin_Faulted(answer) ==
    ~feedbackWaiting /\ answer \notin {"expired", "invalid"}

ReachesPlugin(answer) ==
    ~driverFaultLatched /\ ~feedbackWaiting /\ answer \notin {"expired", "invalid"}

(* A write that failed may have moved part of the robot.                   *)
WriteFails(answer, health, held) ==
    /\ ReachesPlugin(answer)
    /\ \/ answer = "failed"
       \/ answer = "communication" /\ ~feedbackUnavailable(health)
    /\ LatchFault("write", "motion", held)
    /\ UNCHANGED rejected

WriteLosesFeedback(answer, health, held) ==
    /\ ReachesPlugin(answer)
    /\ answer = "communication" /\ feedbackUnavailable(health)
    /\ WaitForFeedback("motion", held)
    /\ rejected' = Bump(rejected)

(* An accepted command that does not re-arm the watchdog.                  *)
WriteAccepted_StaysLatched(answer) ==
    /\ ReachesPlugin(answer)
    /\ answer = "accepted"
    /\ commandAge' = 0
    /\ output' = "motion"
    /\ UNCHANGED <<flags, counters, lastStopReason>>

WriteAccepted(answer) ==
    /\ ReachesPlugin(answer)
    /\ answer = "accepted"
    /\ commandAge' = 0
    /\ watchdogLatched' = FALSE
    /\ output' = "motion"
    /\ UNCHANGED <<active, abandoned, driverFaultLatched, feedbackWaiting, counters,
                   lastStopReason>>

Write(answer, health, held) ==
    /\ active
    /\ \/ WriteRefused(answer)
       \/ WriteFails(answer, health, held)
       \/ WriteLosesFeedback(answer, health, held)
       \/ WriteAccepted(answer)

-----------------------------------------------------------------------------
WatchdogDue ==
    /\ active
    /\ ~driverFaultLatched /\ ~feedbackWaiting /\ ~watchdogLatched
    /\ commandAge > WatchdogTimeout

EnforceWatchdog(held) ==
    /\ WatchdogDue
    /\ watchdogLatched' = TRUE
    /\ watchdogStops' = Bump(watchdogStops)
    /\ Hold("watchdog", output, held)
    /\ UNCHANGED <<active, abandoned, driverFaultLatched, feedbackWaiting, interruptions,
                   recoveries, rejected, commandAge>>

(* stop(reason, driver_fault); the nodes keep the default, false.          *)
Stop(driver_fault, held) ==
    /\ active
    /\ \/ driverFaultLatched /\ UNCHANGED runtimeVars
       \/ /\ ~driverFaultLatched /\ driver_fault
          /\ LatchFault("requested", output, held)
          /\ UNCHANGED rejected
       \/ /\ ~driverFaultLatched /\ ~driver_fault
          /\ Hold("requested", output, held)
          /\ UNCHANGED <<flags, interruptions, recoveries, watchdogStops,
                         rejected, commandAge>>

(* status(): polling the health of the plugin can itself stop the robot.   *)
Status(health, held) ==
    /\ active
    /\ \/ /\ \/ driverFaultLatched
             \/ Tolerable(health) /\ ~feedbackUnavailable(health)
          /\ UNCHANGED runtimeVars
       \/ /\ ~driverFaultLatched /\ feedbackUnavailable(health)
          /\ WaitForFeedback(output, held)
          /\ UNCHANGED rejected
       \/ /\ ~driverFaultLatched /\ ~Tolerable(health)
          /\ LatchFault("health", output, held)
          /\ UNCHANGED rejected

Tick ==
    /\ commandAge' = IF commandAge > WatchdogTimeout THEN commandAge
                                                     ELSE commandAge + 1
    /\ UNCHANGED <<flags, counters, lastStopReason, output>>

-----------------------------------------------------------------------------
Next ==
    \/ Construct
    \/ Crash
    \/ Tick
    \/ \E held \in BOOLEAN : ConstructFails(held) \/ Destroy(held)
                           \/ EnforceWatchdog(held)
    \/ \E driver_fault, held \in BOOLEAN : Stop(driver_fault, held)
    \/ \E answer \in ReadAnswers, age \in SampleAges, health \in PluginHealths,
          held, heldAgain \in BOOLEAN : Read(answer, age, health, held, heldAgain)
    \/ \E answer \in WriteAnswers, health \in PluginHealths, held \in BOOLEAN :
          Write(answer, health, held)
    \/ \E health \in PluginHealths, held \in BOOLEAN : Status(health, held)

Spec == Init /\ [][Next]_runtimeVars

-----------------------------------------------------------------------------
(* Every member keeps the values its C++ type and its use allow.           *)
RuntimeTypeOK ==
    /\ active \in BOOLEAN /\ abandoned \in BOOLEAN /\ watchdogLatched \in BOOLEAN
    /\ driverFaultLatched \in BOOLEAN /\ feedbackWaiting \in BOOLEAN
    /\ interruptions \in Counts /\ recoveries \in Counts
    /\ watchdogStops \in Counts /\ safetyStops \in Counts /\ rejected \in Counts
    /\ lastStopReason \in Reasons
    /\ commandAge \in Ages
    /\ output \in Outputs

(* A runtime that reports a watchdog stop, a feedback wait or a latched    *)
(* fault is not moving the robot: no order of reads, writes, polls, stops  *)
(* and restarts leaves a motion running behind one of those flags.         *)
HaltedIsNotMoving ==
    active /\ (watchdogLatched \/ feedbackWaiting \/ driverFaultLatched)
        => output # "motion"

(* The two feedback counters tell the same story as the flags: they differ *)
(* by the interruption that is still open, however many polls saw it.  The *)
(* log of publishDiagnostics relies on the difference.                     *)
FeedbackCountersAgree ==
    /\ feedbackWaiting => interruptions = Bump(recoveries)
    /\ ~feedbackWaiting /\ ~driverFaultLatched => interruptions = recoveries
    /\ interruptions \in {recoveries, Bump(recoveries)}

(* A latched fault freezes the runtime: until a restart, nothing but the   *)
(* count of rejected commands and time changes, so the first fault's       *)
(* reason stays on display and no later call reaches the robot.            *)
FaultFreezes ==
    [][active /\ driverFaultLatched /\ active'
        => UNCHANGED <<flags, interruptions, recoveries, watchdogStops,
                       safetyStops, lastStopReason, output>>]_runtimeVars

(* DriverRuntime implements the gate of MotionGate: feedback that returns  *)
(* leaves the robot holding until a command is accepted, an expired        *)
(* watchdog and a stop cannot be undone by anything but a command, and a   *)
(* fault by nothing but a restart; the destructor, and a constructor that  *)
(* fails, leave no motion behind.                                          *)
Gate == INSTANCE MotionGate WITH
    gate <- IF ~active THEN (IF abandoned THEN "lost" ELSE "off")
            ELSE IF driverFaultLatched THEN "faulted"
            ELSE IF feedbackWaiting THEN "waiting"
            ELSE IF watchdogLatched THEN "idle" ELSE "live",
    moving <- output = "motion"

ImplementsGate == Gate!GateSpec

(* While enforceWatchdog() keeps being called, as DriverNode does, a motion*)
(* that is not renewed ends, even one inherited from a crashed process.    *)
MotionIsRenewedOrEnds ==
    (active /\ output = "motion" /\ commandAge > 0)
        ~> (commandAge = 0 \/ output # "motion" \/ ~active)
=============================================================================
