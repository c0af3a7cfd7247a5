--------------------------- MODULE GripperRuntime ---------------------------
(***************************************************************************)
(* GripperRuntime (src/gripper_runtime.cpp): the counterpart of            *)
(* DriverRuntime for a gripper plugin.  It knows no feedback wait and no   *)
(* deadline, a missing sample is no event, and a stop is carried out again *)
(* however often it is asked for, on a faulted runtime too.                *)
(*                                                                         *)
(* As in DriverRuntime every public method holds mutex_ throughout and is  *)
(* one action, with the plugin's answers as parameters.                    *)
(***************************************************************************)
EXTENDS Integers

CONSTANTS
    WatchdogTimeout,    \* watchdog_timeout_, in ticks
    MaxCount            \* the largest value of a std::uint64_t counter

ASSUME WatchdogAssumption == WatchdogTimeout \in Nat \ {0}
ASSUME CountAssumption == MaxCount \in Nat

VARIABLES
    active,             \* active_: constructed, and not shut down
    abandoned,          \* history, as in DriverRuntime: the process died
    watchdogLatched,
    driverFaultLatched,
    watchdogStops,      \* watchdog_stop_count_
    safetyStops,        \* safety_stop_count_
    rejected,           \* rejected_command_count_
    lastStopReason,
    commandAge,         \* now - last_command_time_
    output              \* what the plugin was last told

counters == <<watchdogStops, safetyStops, rejected>>
gripperVars == <<active, abandoned, watchdogLatched, driverFaultLatched, counters,
                 lastStopReason, commandAge, output>>

Counts == 0 .. MaxCount
Reasons == {"none", "read", "write", "watchdog", "health", "requested"}
Outputs == {"hold", "motion", "unheld"}

Bump(n) == IF n = MaxCount THEN 0 ELSE n + 1

-----------------------------------------------------------------------------
(* readGripperState(): kNoFeedback, any other error or an exception, a     *)
(* state validateState() refuses, a valid state.                           *)
ReadAnswers == {"noFeedback", "failed", "invalid", "sample"}

(* write(): validateCommand() refuses, or writeGripperCommand() fails,     *)
(* throws or accepts.                                                      *)
WriteAnswers == {"invalid", "failed", "accepted"}

(* health(), by what status() makes of it: kError, kStale, no              *)
(* communication and an exception are all "bad".                           *)
HealthAnswers == {"good", "bad"}

-----------------------------------------------------------------------------
Init ==
    /\ active = FALSE /\ abandoned = FALSE
    /\ watchdogLatched = FALSE /\ driverFaultLatched = FALSE
    /\ watchdogStops = 0 /\ safetyStops = 0 /\ rejected = 0
    /\ lastStopReason = "none"
    /\ commandAge = 0
    /\ output = "hold"

AfterStop(told, held) ==
    IF held \/ told = "hold" THEN "hold" ELSE "unheld"

(* stopLocked(): held is the answer of stopAll(), which nobody looks at.   *)
StopAll(reason, fault, told, held) ==
    /\ driverFaultLatched' = (driverFaultLatched \/ fault)
    /\ safetyStops' = Bump(safetyStops)
    /\ lastStopReason' = reason
    /\ output' = AfterStop(told, held)

Construct ==
    /\ ~active
    /\ active' = TRUE /\ abandoned' = FALSE
    /\ watchdogLatched' = FALSE /\ driverFaultLatched' = FALSE
    /\ watchdogStops' = 0 /\ safetyStops' = 0 /\ rejected' = 0
    /\ lastStopReason' = "none"
    /\ commandAge' = 0
    /\ UNCHANGED output

(* A constructor that fails without shutdownLocked().                       *)
ConstructFails_Silent(held) ==
    /\ ~active
    /\ abandoned' = FALSE
    /\ UNCHANGED <<active, watchdogLatched, driverFaultLatched, counters,
                   lastStopReason, commandAge, output>>

(* The constructor when one of the plugin's lifecycle calls fails or throws:*)
(* the plugin is told to stop, and no object comes to exist.  (One that     *)
(* cannot load the plugin does nothing.)                                    *)
ConstructFails(held) ==
    /\ ~active
    /\ abandoned' = FALSE
    /\ output' = AfterStop(output, held)
    /\ UNCHANGED <<active, watchdogLatched, driverFaultLatched, counters,
                   lastStopReason, commandAge>>

(* The destructor stops the plugin and drops it.                           *)
Destroy(held) ==
    /\ active
    /\ active' = FALSE /\ abandoned' = FALSE
    /\ output' = AfterStop(output, held)
    /\ UNCHANGED <<watchdogLatched, driverFaultLatched, counters, lastStopReason, commandAge>>

(* The process dies: no destructor runs.                                   *)
Crash ==
    /\ active
    /\ active' = FALSE /\ abandoned' = TRUE
    /\ UNCHANGED <<watchdogLatched, driverFaultLatched, counters, lastStopReason,
                   commandAge, output>>

-----------------------------------------------------------------------------
ReadSucceeds(answer) == ~driverFaultLatched /\ answer = "sample"

Read(answer, held) ==
    /\ active
    /\ \/ /\ driverFaultLatched \/ answer \in {"noFeedback", "sample"}
          /\ UNCHANGED gripperVars
       \/ /\ ~driverFaultLatched /\ answer \in {"failed", "invalid"}
          /\ StopAll("read", TRUE, output, held)
          /\ UNCHANGED <<active, abandoned, watchdogLatched, watchdogStops, rejected, commandAge>>

-----------------------------------------------------------------------------
WriteRefused(answer) ==
    /\ driverFaultLatched \/ answer = "invalid"
    /\ rejected' = Bump(rejected)
    /\ UNCHANGED <<active, abandoned, watchdogLatched, driverFaultLatched, watchdogStops,
                   safetyStops, lastStopReason, commandAge, output>>

(* A write that failed may have moved one of the grippers.                 *)
WriteFails(answer, held) ==
    /\ ~driverFaultLatched /\ answer = "failed"
    /\ StopAll("write", TRUE, "motion", held)
    /\ UNCHANGED <<active, abandoned, watchdogLatched, watchdogStops, rejected, commandAge>>

(* An accepted command that does not re-arm the watchdog.                  *)
WriteAccepted_StaysLatched(answer) ==
    /\ ~driverFaultLatched /\ answer = "accepted"
    /\ commandAge' = 0
    /\ output' = "motion"
    /\ UNCHANGED <<active, abandoned, watchdogLatched, driverFaultLatched, counters, lastStopReason>>

WriteAccepted(answer) ==
    /\ ~driverFaultLatched /\ answer = "accepted"
    /\ commandAge' = 0
    /\ watchdogLatched' = FALSE
    /\ output' = "motion"
    /\ UNCHANGED <<active, abandoned, driverFaultLatched, counters, lastStopReason>>

Write(answer, held) ==
    /\ active
    /\ WriteRefused(answer) \/ WriteFails(answer, held) \/ WriteAccepted(answer)

-----------------------------------------------------------------------------
WatchdogDue ==
    /\ active
    /\ ~driverFaultLatched /\ ~watchdogLatched
    /\ commandAge > WatchdogTimeout

EnforceWatchdog(held) ==
    /\ WatchdogDue
    /\ watchdogLatched' = TRUE
    /\ watchdogStops' = Bump(watchdogStops)
    /\ StopAll("watchdog", FALSE, output, held)
    /\ UNCHANGED <<active, abandoned, rejected, commandAge>>

(* stop(reason, driver_fault); the node keeps the default, false.          *)
Stop(driver_fault, held) ==
    /\ active
    /\ StopAll("requested", driver_fault, output, held)
    /\ UNCHANGED <<active, abandoned, watchdogLatched, watchdogStops, rejected, commandAge>>

(* status(): every poll that finds a bad health stops the grippers again.  *)
Status(health, held) ==
    /\ active
    /\ \/ health = "good" /\ UNCHANGED gripperVars
       \/ /\ health = "bad"
          /\ StopAll("health", TRUE, output, held)
          /\ UNCHANGED <<active, abandoned, watchdogLatched, watchdogStops, rejected, commandAge>>

Tick ==
    /\ commandAge' = IF commandAge > WatchdogTimeout THEN commandAge ELSE commandAge + 1
    /\ UNCHANGED <<active, abandoned, watchdogLatched, driverFaultLatched, counters,
                   lastStopReason, output>>

-----------------------------------------------------------------------------
Next ==
    \/ Construct
    \/ Crash
    \/ Tick
    \/ \E held \in BOOLEAN : ConstructFails(held) \/ Destroy(held)
                           \/ EnforceWatchdog(held)
    \/ \E driver_fault, held \in BOOLEAN : Stop(driver_fault, held)
    \/ \E answer \in ReadAnswers, held \in BOOLEAN : Read(answer, held)
    \/ \E answer \in WriteAnswers, held \in BOOLEAN : Write(answer, held)
    \/ \E health \in HealthAnswers, held \in BOOLEAN : Status(health, held)

Spec == Init /\ [][Next]_gripperVars

-----------------------------------------------------------------------------
(* Every member keeps the values its C++ type and its use allow.           *)
GripperTypeOK ==
    /\ active \in BOOLEAN /\ abandoned \in BOOLEAN
    /\ watchdogLatched \in BOOLEAN /\ driverFaultLatched \in BOOLEAN
    /\ watchdogStops \in Counts /\ safetyStops \in Counts /\ rejected \in Counts
    /\ lastStopReason \in Reasons
    /\ commandAge \in 0 .. WatchdogTimeout + 1
    /\ output \in Outputs

(* Grippers whose runtime reports a watchdog stop or a latched fault are   *)
(* not being moved, whatever the order of calls, restarts and crashes.     *)
HaltedIsNotMoving ==
    active /\ (watchdogLatched \/ driverFaultLatched) => output # "motion"

(* The gripper runtime implements the gate DriverRuntime implements, and   *)
(* never waits in it: a fault is undone by nothing but a restart, and an   *)
(* expired watchdog by nothing but a command; the destructor, and a        *)
(* constructor that fails, leave no motion behind.                         *)
Gate == INSTANCE MotionGate WITH
    gate <- IF ~active THEN (IF abandoned THEN "lost" ELSE "off")
            ELSE IF driverFaultLatched THEN "faulted"
            ELSE IF watchdogLatched THEN "idle" ELSE "live",
    moving <- output = "motion"

ImplementsGate == Gate!GateSpec
=============================================================================
