------------------------ MODULE DriverRuntimeProofs ------------------------
(***************************************************************************)
(* Proofs about DriverRuntime, for every watchdog timeout, feedback age    *)
(* and counter width, and for a plugin that answers anything.              *)
(***************************************************************************)
EXTENDS DriverRuntime, TLAPS

(* A counter stays in its range, whether it wraps or not.                  *)
LEMMA BumpInRange == ASSUME NEW n \in Counts PROVE Bump(n) \in Counts
  BY CountAssumption DEF Bump, Counts

(* stopLocked() and its two callers keep every member well typed.          *)
LEMMA HoldTypes ==
  ASSUME RuntimeTypeOK, NEW reason \in Reasons, NEW told \in Outputs,
         NEW held \in BOOLEAN, Hold(reason, told, held)
  PROVE  safetyStops' \in Counts /\ lastStopReason' \in Reasons /\ output' \in Outputs
  BY BumpInRange DEF RuntimeTypeOK, Hold, AfterStop, Outputs

(* A latched fault keeps the types.                                        *)
LEMMA LatchFaultTypes ==
  ASSUME RuntimeTypeOK, NEW reason \in Reasons, NEW told \in Outputs,
         NEW held \in BOOLEAN, LatchFault(reason, told, held), rejected' \in Counts
  PROVE  RuntimeTypeOK'
  <1>1. Hold(reason, told, held)
    BY DEF LatchFault
  <1>2. safetyStops' \in Counts /\ lastStopReason' \in Reasons /\ output' \in Outputs
    BY <1>1, HoldTypes
  <1> QED
    BY <1>2 DEF LatchFault, RuntimeTypeOK

(* So does the beginning of a wait.                                        *)
LEMMA WaitTypes ==
  ASSUME RuntimeTypeOK, NEW told \in Outputs, NEW held \in BOOLEAN,
         WaitForFeedback(told, held), rejected' \in Counts
  PROVE  RuntimeTypeOK'
  <1>1. CASE feedbackWaiting
    BY <1>1 DEF WaitForFeedback, RuntimeTypeOK
  <1>2. CASE ~feedbackWaiting
    <2>1. Hold("feedback", told, held) /\ interruptions' = Bump(interruptions)
      BY <1>2 DEF WaitForFeedback
    <2>2. "feedback" \in Reasons
      BY DEF Reasons
    <2>3. safetyStops' \in Counts /\ lastStopReason' \in Reasons /\ output' \in Outputs
      BY <2>1, <2>2, HoldTypes
    <2>4. interruptions' \in Counts
      BY <2>1, BumpInRange DEF RuntimeTypeOK
    <2> QED
      BY <1>2, <2>3, <2>4 DEF WaitForFeedback, RuntimeTypeOK
  <1> QED
    BY <1>1, <1>2

(* No public call and no passing of time takes a member out of its type.   *)
LEMMA ReadTypes ==
  ASSUME RuntimeTypeOK, NEW answer, NEW age, NEW health, NEW held \in BOOLEAN,
         NEW heldAgain \in BOOLEAN, Read(answer, age, health, held, heldAgain)
  PROVE  RuntimeTypeOK'
  <1>1. /\ "read" \in Reasons /\ "recovery" \in Reasons /\ output \in Outputs
        /\ rejected \in Counts /\ recoveries \in Counts
    BY DEF Reasons, RuntimeTypeOK
  <1>2. CASE \/ ReadQuietly(answer, age) \/ ReadStillWaits(answer, age, health)
    BY <1>2 DEF ReadQuietly, ReadStillWaits, runtimeVars, flags, counters, RuntimeTypeOK
  <1>3. CASE ReadFails(answer, health, held)
    BY <1>1, <1>3, LatchFaultTypes DEF ReadFails
  <1>4. CASE ReadLosesFeedback(answer, age, health, held)
    BY <1>1, <1>4, WaitTypes DEF ReadLosesFeedback
  <1>5. CASE ReadCannotRecover(answer, age, health, held, heldAgain)
    BY <1>1, <1>5, LatchFaultTypes DEF ReadCannotRecover
  <1>6. CASE ReadRecovers(answer, age, health, held)
    <2>1. recoveries' \in Counts
      BY <1>1, <1>6, BumpInRange DEF ReadRecovers
    <2>2. output' \in Outputs
      BY <1>1, <1>6 DEF ReadRecovers, AfterStop, Outputs
    <2> QED
      BY <1>6, <2>1, <2>2 DEF ReadRecovers, RuntimeTypeOK
  <1> QED
    BY <1>2, <1>3, <1>4, <1>5, <1>6 DEF Read

(* write(), path by path.                                                  *)
LEMMA WriteTypes ==
  ASSUME RuntimeTypeOK, NEW answer, NEW health, NEW held \in BOOLEAN,
         Write(answer, health, held)
  PROVE  RuntimeTypeOK'
  <1>1. /\ "write" \in Reasons /\ "motion" \in Outputs
        /\ rejected \in Counts /\ Bump(rejected) \in Counts
    BY BumpInRange DEF Reasons, Outputs, RuntimeTypeOK
  <1>2. CASE WriteRefused(answer)
    BY <1>1, <1>2 DEF WriteRefused, flags, RuntimeTypeOK
  <1>3. CASE WriteFails(answer, health, held)
    BY <1>1, <1>3, LatchFaultTypes DEF WriteFails
  <1>4. CASE WriteLosesFeedback(answer, health, held)
    BY <1>1, <1>4, WaitTypes DEF WriteLosesFeedback
  <1>5. CASE WriteAccepted(answer)
    <2>1. 0 \in Ages
      BY WatchdogAssumption DEF Ages
    <2>2. commandAge' \in Ages /\ output' \in Outputs
      BY <1>1, <1>5, <2>1 DEF WriteAccepted
    <2>3. watchdogLatched' \in BOOLEAN
      BY <1>5 DEF WriteAccepted
    <2> QED
      BY <1>5, <2>2, <2>3 DEF WriteAccepted, counters, RuntimeTypeOK
  <1> QED
    BY <1>2, <1>3, <1>4, <1>5 DEF Write

(* status().                                                               *)
LEMMA StatusTypes ==
  ASSUME RuntimeTypeOK, NEW health, NEW held \in BOOLEAN, Status(health, held)
  PROVE  RuntimeTypeOK'
  <1>1. "health" \in Reasons /\ output \in Outputs /\ rejected \in Counts
    BY DEF Reasons, RuntimeTypeOK
  <1>2. CASE UNCHANGED runtimeVars
    BY <1>2 DEF runtimeVars, flags, counters, RuntimeTypeOK
  <1>3. CASE WaitForFeedback(output, held) /\ UNCHANGED rejected
    BY <1>1, <1>3, WaitTypes
  <1>4. CASE LatchFault("health", output, held) /\ UNCHANGED rejected
    BY <1>1, <1>4, LatchFaultTypes
  <1> QED
    BY <1>2, <1>3, <1>4 DEF Status

(* enforceWatchdog().                                                      *)
LEMMA WatchdogTypes ==
  ASSUME RuntimeTypeOK, NEW held \in BOOLEAN, EnforceWatchdog(held)
  PROVE  RuntimeTypeOK'
  <1>1. "watchdog" \in Reasons /\ output \in Outputs /\ Bump(watchdogStops) \in Counts
    BY BumpInRange DEF Reasons, RuntimeTypeOK
  <1>2. safetyStops' \in Counts /\ lastStopReason' \in Reasons /\ output' \in Outputs
    BY <1>1, HoldTypes DEF EnforceWatchdog
  <1> QED
    BY <1>1, <1>2 DEF EnforceWatchdog, RuntimeTypeOK

(* stop().                                                                 *)
LEMMA StopTypes ==
  ASSUME RuntimeTypeOK, NEW driver_fault \in BOOLEAN, NEW held \in BOOLEAN,
         Stop(driver_fault, held)
  PROVE  RuntimeTypeOK'
  <1>1. "requested" \in Reasons /\ output \in Outputs
    BY DEF Reasons, RuntimeTypeOK
  <1>2. CASE UNCHANGED runtimeVars
    BY <1>2 DEF runtimeVars, flags, counters, RuntimeTypeOK
  <1>3. CASE LatchFault("requested", output, held) /\ UNCHANGED rejected
    BY <1>1, <1>3, LatchFaultTypes DEF RuntimeTypeOK
  <1>4. CASE ~driverFaultLatched /\ ~driver_fault
    <2>1. safetyStops' \in Counts /\ lastStopReason' \in Reasons /\ output' \in Outputs
      BY <1>1, <1>4, HoldTypes DEF Stop
    <2> QED
      BY <1>4, <2>1 DEF Stop, flags, RuntimeTypeOK
  <1> QED
    BY <1>2, <1>3, <1>4 DEF Stop

(* Constructor, destructor and crash.                                      *)
LEMMA LifecycleTypes ==
  ASSUME RuntimeTypeOK,
         \/ Construct \/ Crash \/ Tick
         \/ \E held \in BOOLEAN : ConstructFails(held) \/ Destroy(held)
  PROVE  RuntimeTypeOK'
  <1>1. 0 \in Counts /\ 0 \in Ages /\ "none" \in Reasons
    BY CountAssumption, WatchdogAssumption DEF Counts, Ages, Reasons
  <1>2. CASE Construct
    BY <1>1, <1>2 DEF Construct, RuntimeTypeOK
  <1>3. CASE Crash
    BY <1>3 DEF Crash, counters, RuntimeTypeOK
  <1>4. CASE Tick
    BY <1>4, WatchdogAssumption DEF Tick, flags, counters, RuntimeTypeOK, Ages
  <1>5. CASE \E held \in BOOLEAN : ConstructFails(held) \/ Destroy(held)
    BY <1>5 DEF ConstructFails, Destroy, AfterStop, flags, counters, RuntimeTypeOK, Outputs
  <1> QED
    BY <1>2, <1>3, <1>4, <1>5

(* Every method of the runtime keeps the types.                            *)
LEMMA TypeStep ==
  ASSUME RuntimeTypeOK, [Next]_runtimeVars
  PROVE  RuntimeTypeOK'
  <1>1. CASE UNCHANGED runtimeVars
    BY <1>1 DEF runtimeVars, flags, counters, RuntimeTypeOK
  <1>2. CASE Next
    BY <1>2, ReadTypes, WriteTypes, StatusTypes, WatchdogTypes, StopTypes,
       LifecycleTypes DEF Next
  <1> QED
    BY <1>1, <1>2

(* RuntimeTypeOK: flags, counters, reason, age and output of a runtime     *)
(* keep their types through any sequence of calls, restarts and crashes.   *)
THEOREM TypeCorrect == Spec => []RuntimeTypeOK
  <1>1. Init => RuntimeTypeOK
    <2>1. 0 \in Counts /\ 0 \in Ages
      BY CountAssumption, WatchdogAssumption DEF Counts, Ages
    <2>2. "none" \in Reasons /\ "hold" \in Outputs
      BY DEF Reasons, Outputs
    <2> QED
      BY <2>1, <2>2 DEF Init, RuntimeTypeOK
  <1>2. RuntimeTypeOK /\ [Next]_runtimeVars => RuntimeTypeOK'
    BY TypeStep
  <1> QED
    BY <1>1, <1>2, PTL DEF Spec

-----------------------------------------------------------------------------
(* A stop never leaves "motion" behind, whatever stopAll() answered.       *)
LEMMA HoldEndsMotion ==
  ASSUME NEW reason, NEW told, NEW held, Hold(reason, told, held)
  PROVE  output' # "motion"
  BY DEF Hold, AfterStop

(* HaltedIsNotMoving is inductive as it stands.                            *)
LEMMA HaltedStep ==
  ASSUME HaltedIsNotMoving, [Next]_runtimeVars
  PROVE  HaltedIsNotMoving'
  <1>1. CASE UNCHANGED runtimeVars
    BY <1>1 DEF runtimeVars, flags, HaltedIsNotMoving
  <1>2. CASE Construct
    BY <1>2 DEF Construct, HaltedIsNotMoving
  <1>3. CASE Crash \/ \E held \in BOOLEAN : ConstructFails(held) \/ Destroy(held)
    BY <1>3 DEF Crash, ConstructFails, Destroy, flags, HaltedIsNotMoving
  <1>4. CASE Tick
    BY <1>4 DEF Tick, flags, HaltedIsNotMoving
  <1>5. CASE \E held \in BOOLEAN : EnforceWatchdog(held)
    BY <1>5, HoldEndsMotion DEF EnforceWatchdog, HaltedIsNotMoving
  <1>6. ASSUME NEW reason, NEW told, NEW held, LatchFault(reason, told, held)
        PROVE  HaltedIsNotMoving'
    BY <1>6, HoldEndsMotion DEF LatchFault, HaltedIsNotMoving
  <1>7. ASSUME NEW told, NEW held, WaitForFeedback(told, held), active
        PROVE  HaltedIsNotMoving'
    BY <1>7, HoldEndsMotion DEF WaitForFeedback, HaltedIsNotMoving
  <1>8. CASE \E driver_fault, held \in BOOLEAN : Stop(driver_fault, held)
    <2> PICK driver_fault \in BOOLEAN, held \in BOOLEAN : Stop(driver_fault, held)
      BY <1>8
    <2>1. CASE UNCHANGED runtimeVars
      BY <1>1, <2>1
    <2>2. CASE Hold("requested", output, held)
      BY <2>2, HoldEndsMotion DEF HaltedIsNotMoving
    <2> QED
      BY <1>6, <2>1, <2>2 DEF Stop
  <1>9. ASSUME NEW answer, NEW age, NEW health, NEW held, NEW heldAgain,
               Read(answer, age, health, held, heldAgain)
        PROVE  HaltedIsNotMoving'
    <2>1. CASE UNCHANGED runtimeVars
      BY <1>1, <2>1
    <2>2. CASE ReadRecovers(answer, age, health, held)
      BY <2>2 DEF ReadRecovers, AfterStop, HaltedIsNotMoving
    <2> QED
      BY <1>6, <1>7, <1>9, <2>1, <2>2
      DEF Read, ReadQuietly, ReadFails, ReadLosesFeedback, ReadStillWaits, ReadCannotRecover
  <1>10. ASSUME NEW answer, NEW health, NEW held, Write(answer, health, held)
         PROVE  HaltedIsNotMoving'
    <2>1. CASE WriteRefused(answer)
      BY <2>1 DEF WriteRefused, flags, HaltedIsNotMoving
    <2>2. CASE WriteAccepted(answer)
      BY <2>2 DEF WriteAccepted, ReachesPlugin, HaltedIsNotMoving
    <2> QED
      BY <1>6, <1>7, <1>10, <2>1, <2>2 DEF Write, WriteFails, WriteLosesFeedback
  <1>11. ASSUME NEW health, NEW held, Status(health, held)
         PROVE  HaltedIsNotMoving'
    BY <1>1, <1>6, <1>7, <1>11 DEF Status
  <1> QED
    BY <1>1, <1>2, <1>3, <1>4, <1>5, <1>8, <1>9, <1>10, <1>11 DEF Next

(* HaltedIsNotMoving: no order of calls, restarts and crashes leaves a     *)
(* motion running behind a watchdog stop, a feedback wait or a fault.      *)
THEOREM HaltedHolds == Spec => []HaltedIsNotMoving
  <1>1. Init => HaltedIsNotMoving
    BY DEF Init, HaltedIsNotMoving
  <1> QED
    BY <1>1, HaltedStep, PTL DEF Spec

-----------------------------------------------------------------------------
(* Both callers of stopLocked() keep the counters in step with the flags.  *)
LEMMA FaultKeepsCounters ==
  ASSUME FeedbackCountersAgree, NEW reason, NEW told, NEW held,
         LatchFault(reason, told, held)
  PROVE  FeedbackCountersAgree'
  BY DEF LatchFault, FeedbackCountersAgree, Bump

(* The second of them: a wait that begins is counted, one that goes on is  *)
(* not.                                                                    *)
LEMMA WaitKeepsCounters ==
  ASSUME FeedbackCountersAgree, ~driverFaultLatched, NEW told, NEW held,
         WaitForFeedback(told, held)
  PROVE  FeedbackCountersAgree'
  BY DEF WaitForFeedback, FeedbackCountersAgree, Bump

(* Every call keeps them in step.                                          *)
LEMMA CountersStep ==
  ASSUME FeedbackCountersAgree, [Next]_runtimeVars
  PROVE  FeedbackCountersAgree'
  <1> USE DEF FeedbackCountersAgree, Bump
  <1>1. ASSUME UNCHANGED <<interruptions, recoveries, feedbackWaiting, driverFaultLatched>>
        PROVE  FeedbackCountersAgree'
    BY <1>1
  <1>2. CASE UNCHANGED runtimeVars
    BY <1>1, <1>2 DEF runtimeVars, flags, counters
  <1>3. CASE Construct
    BY <1>3 DEF Construct
  <1>4. CASE \/ Crash \/ Tick
             \/ \E held \in BOOLEAN : ConstructFails(held) \/ Destroy(held)
                                    \/ EnforceWatchdog(held)
    BY <1>1, <1>4
    DEF Crash, Tick, ConstructFails, Destroy, EnforceWatchdog, flags, counters
  <1>5. ASSUME NEW answer, NEW age, NEW health, NEW held, NEW heldAgain,
               Read(answer, age, health, held, heldAgain)
        PROVE  FeedbackCountersAgree'
    <2>1. CASE ReadRecovers(answer, age, health, held)
      BY <2>1 DEF ReadRecovers, Returning
    <2> QED
      BY <1>2, <1>5, <2>1, FaultKeepsCounters, WaitKeepsCounters
      DEF Read, ReadQuietly, ReadFails, ReadLosesFeedback, ReadStillWaits, ReadCannotRecover
  <1>6. ASSUME NEW answer, NEW health, NEW held, Write(answer, health, held)
        PROVE  FeedbackCountersAgree'
    <2>1. CASE WriteRefused(answer) \/ WriteAccepted(answer)
      BY <1>1, <2>1 DEF WriteRefused, WriteAccepted, flags, counters
    <2> QED
      BY <1>6, <2>1, FaultKeepsCounters, WaitKeepsCounters
      DEF Write, WriteFails, WriteLosesFeedback, ReachesPlugin
  <1>7. ASSUME NEW health, NEW held, Status(health, held)
        PROVE  FeedbackCountersAgree'
    BY <1>2, <1>7, FaultKeepsCounters, WaitKeepsCounters DEF Status
  <1>8. ASSUME NEW driver_fault, NEW held, Stop(driver_fault, held)
        PROVE  FeedbackCountersAgree'
    BY <1>1, <1>2, <1>8, FaultKeepsCounters DEF Stop, flags
  <1> QED
    BY <1>2, <1>3, <1>4, <1>5, <1>6, <1>7, <1>8 DEF Next

(* FeedbackCountersAgree: however many polls see one interruption, it is   *)
(* counted once, and recovered from at most once.                          *)
THEOREM CountersHold == Spec => []FeedbackCountersAgree
  <1>1. Init => FeedbackCountersAgree
    BY DEF Init, FeedbackCountersAgree
  <1> QED
    BY <1>1, CountersStep, PTL DEF Spec

-----------------------------------------------------------------------------
(* On a faulted runtime every call returns before it changes anything but  *)
(* the count of refusals.                                                  *)
LEMMA FrozenStep ==
  ASSUME active, driverFaultLatched, active', [Next]_runtimeVars
  PROVE  UNCHANGED <<flags, interruptions, recoveries, watchdogStops,
                     safetyStops, lastStopReason, output>>
  <1>1. CASE UNCHANGED runtimeVars
    BY <1>1 DEF runtimeVars, flags, counters
  <1>2. CASE Tick \/ \E driver_fault, held \in BOOLEAN : Stop(driver_fault, held)
    BY <1>1, <1>2 DEF Tick, Stop, counters, flags
  <1>3. CASE Next
    BY <1>1, <1>2, <1>3
    DEF Next, Construct, Crash, ConstructFails, Destroy, EnforceWatchdog, WatchdogDue,
        Status, Read, ReadQuietly, ReadFails, ReadLosesFeedback, ReadStillWaits, ReadCannotRecover,
        ReadRecovers, Returning, Write, WriteRefused, WriteFails, WriteLosesFeedback, WriteAccepted,
        ReachesPlugin
  <1> QED
    BY <1>1, <1>3

(* FaultFreezes: after the first fault no call changes the flags, the      *)
(* counters of stops, the reason or what the plugin was told.              *)
THEOREM FaultFreezesHolds == Spec => FaultFreezes
  <1>1. [Next]_runtimeVars =>
           [active /\ driverFaultLatched /\ active'
              => UNCHANGED <<flags, interruptions, recoveries, watchdogStops,
                             safetyStops, lastStopReason, output>>]_runtimeVars
    BY FrozenStep
  <1> QED
    BY <1>1, PTL DEF Spec, FaultFreezes

-----------------------------------------------------------------------------
(* The step simulation behind ImplementsGate, call by call.  The invariant *)
(* is needed where a stop leaves the gate where it is: a runtime that      *)
(* waits, holds or is faulted has no motion left to end.                   *)
LEMMA FaultSimulates ==
  ASSUME active, ~driverFaultLatched, NEW reason, NEW told, NEW held,
         LatchFault(reason, told, held)
  PROVE  Gate!Fault
  BY HoldEndsMotion DEF LatchFault, Gate!Fault

(* A wait that begins is an interruption of the gate; one that goes on is  *)
(* no step of it.                                                          *)
LEMMA WaitSimulates ==
  ASSUME active, ~driverFaultLatched, NEW told, NEW held, WaitForFeedback(told, held)
  PROVE  [Gate!Interrupt]_(Gate!gateVars)
  BY HoldEndsMotion DEF WaitForFeedback, Gate!Interrupt, Gate!gateVars

(* Every step of the runtime is one of the gate, or a stutter.             *)
LEMMA StepSimulates ==
  ASSUME HaltedIsNotMoving, [Next]_runtimeVars
  PROVE  [Gate!GateNext]_(Gate!gateVars)
  <1>1. ASSUME UNCHANGED <<flags, output>>
        PROVE  UNCHANGED Gate!gateVars
    BY <1>1 DEF Gate!gateVars, flags
  <1>2. CASE UNCHANGED runtimeVars
    BY <1>1, <1>2 DEF runtimeVars
  <1>3. CASE Construct
    BY <1>3 DEF Construct, Gate!GateNext, Gate!Open
  <1>4. CASE Crash \/ \E held \in BOOLEAN : ConstructFails(held) \/ Destroy(held)
    <2>1. CASE Crash
      BY <2>1 DEF Crash, Gate!GateNext, Gate!Lose
    <2>2. CASE \E held \in BOOLEAN : ConstructFails(held) \/ Destroy(held)
      BY <2>2 DEF ConstructFails, Destroy, AfterStop, Gate!GateNext, Gate!Close
    <2> QED
      BY <1>4, <2>1, <2>2
  <1>5. CASE Tick
    BY <1>1, <1>5 DEF Tick
  <1>6. CASE \E held \in BOOLEAN : EnforceWatchdog(held)
    BY <1>6, HoldEndsMotion DEF EnforceWatchdog, WatchdogDue, Gate!GateNext, Gate!Expire
  <1>7. CASE \E driver_fault, held \in BOOLEAN : Stop(driver_fault, held)
    <2> PICK driver_fault \in BOOLEAN, held \in BOOLEAN : Stop(driver_fault, held)
      BY <1>7
    <2>1. CASE UNCHANGED runtimeVars
      BY <1>1, <2>1 DEF runtimeVars
    <2>2. CASE ~driverFaultLatched /\ Hold("requested", output, held) /\ UNCHANGED flags
      <3>1. output' # "motion"
        BY <2>2, HoldEndsMotion
      <3> QED
        BY <2>2, <3>1
        DEF Stop, HaltedIsNotMoving, flags, Gate!GateNext, Gate!Halt, Gate!gateVars
    <2>3. CASE ~driverFaultLatched /\ LatchFault("requested", output, held)
      BY <2>3, FaultSimulates DEF Stop, Gate!GateNext
    <2> QED
      BY <2>1, <2>2, <2>3 DEF Stop
  <1>8. ASSUME NEW answer, NEW age, NEW health, NEW held, NEW heldAgain,
               Read(answer, age, health, held, heldAgain)
        PROVE  [Gate!GateNext]_(Gate!gateVars)
    <2>1. CASE UNCHANGED runtimeVars
      BY <1>1, <2>1 DEF runtimeVars
    <2>2. CASE ReadRecovers(answer, age, health, held)
      BY <1>8, <2>2
      DEF Read, ReadRecovers, Returning, AfterStop, Gate!GateNext, Gate!Resume
    <2> QED
      BY <1>8, <2>1, <2>2, FaultSimulates, WaitSimulates
      DEF Read, ReadQuietly, ReadFails, ReadLosesFeedback, ReadStillWaits,
          ReadCannotRecover, Returning, Gate!GateNext
  <1>9. ASSUME NEW answer, NEW health, NEW held, Write(answer, health, held)
        PROVE  [Gate!GateNext]_(Gate!gateVars)
    <2>1. CASE WriteRefused(answer)
      BY <1>1, <2>1 DEF WriteRefused
    <2>2. CASE WriteAccepted(answer)
      BY <1>9, <2>2 DEF Write, WriteAccepted, ReachesPlugin, Gate!GateNext, Gate!Accept
    <2> QED
      BY <1>9, <2>1, <2>2, FaultSimulates, WaitSimulates
      DEF Write, WriteFails, WriteLosesFeedback, ReachesPlugin, Gate!GateNext
  <1>10. ASSUME NEW health, NEW held, Status(health, held)
         PROVE  [Gate!GateNext]_(Gate!gateVars)
    <2>1. CASE UNCHANGED runtimeVars
      BY <1>1, <2>1 DEF runtimeVars
    <2> QED
      BY <1>10, <2>1, FaultSimulates, WaitSimulates DEF Status, Gate!GateNext
  <1> QED
    BY <1>2, <1>3, <1>4, <1>5, <1>6, <1>7, <1>8, <1>9, <1>10 DEF Next

(* ImplementsGate: every run of the runtime, seen through its flags and    *)
(* the last thing it told the plugin, is a run of the gate.                *)
THEOREM GateRefinement == Spec => ImplementsGate
  <1>1. Init => Gate!GateInit
    BY DEF Init, Gate!GateInit
  <1>2. HaltedIsNotMoving /\ [Next]_runtimeVars => [Gate!GateNext]_(Gate!gateVars)
    BY StepSimulates
  <1> QED
    BY <1>1, <1>2, HaltedHolds, PTL DEF Spec, ImplementsGate, Gate!GateSpec
=============================================================================
