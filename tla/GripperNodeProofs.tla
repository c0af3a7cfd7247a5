-------------------------- MODULE GripperNodeProofs --------------------------
(***************************************************************************)
(* Proofs about GripperRuntime, for every watchdog timeout and counter     *)
(* width and for a plugin that answers anything; then about GripperNode,   *)
(* for every set of grippers and every limit, with and without hc_safety,  *)
(* over crashes and restarts.                                              *)
(***************************************************************************)
EXTENDS GripperNode, SequenceTheorems, TLAPS

(* A counter stays in its range, whether it wraps or not.                  *)
LEMMA BumpInRange == ASSUME NEW n \in Counts PROVE Bump(n) \in Counts
  BY CountAssumption DEF Bump, Counts

(* stopLocked(), and what its callers leave alone, keeps the types.        *)
LEMMA StopAllTypes ==
  ASSUME GripperTypeOK, NEW reason \in Reasons, NEW fault \in BOOLEAN,
         NEW told \in Outputs, NEW held \in BOOLEAN, StopAll(reason, fault, told, held),
         watchdogLatched' \in BOOLEAN, watchdogStops' \in Counts,
         UNCHANGED <<active, abandoned, rejected, commandAge>>
  PROVE  GripperTypeOK'
  <1>1. driverFaultLatched' \in BOOLEAN
    BY DEF StopAll, GripperTypeOK
  <1>2. safetyStops' \in Counts /\ lastStopReason' \in Reasons
    BY BumpInRange DEF StopAll, GripperTypeOK
  <1>3. output' \in Outputs
    BY DEF StopAll, AfterStop, Outputs
  <1> QED
    BY <1>1, <1>2, <1>3 DEF GripperTypeOK

(* write(), path by path.                                                  *)
LEMMA WriteTypes ==
  ASSUME GripperTypeOK, NEW answer, NEW held \in BOOLEAN, Write(answer, held)
  PROVE  GripperTypeOK'
  <1>1. CASE WriteRefused(answer)
    <2>1. rejected' \in Counts
      BY <1>1, BumpInRange DEF WriteRefused, GripperTypeOK
    <2> QED
      BY <1>1, <2>1 DEF WriteRefused, GripperTypeOK
  <1>2. CASE WriteFails(answer, held)
    <2>1. "write" \in Reasons /\ "motion" \in Outputs
      BY DEF Reasons, Outputs
    <2> QED
      BY <1>2, <2>1, StopAllTypes DEF WriteFails, GripperTypeOK
  <1>3. CASE WriteAccepted(answer)
    <2>1. commandAge' \in 0 .. WatchdogTimeout + 1
      BY <1>3, WatchdogAssumption DEF WriteAccepted
    <2>2. output' \in Outputs /\ watchdogLatched' \in BOOLEAN
      BY <1>3 DEF WriteAccepted, Outputs
    <2> QED
      BY <1>3, <2>1, <2>2 DEF WriteAccepted, counters, GripperTypeOK
  <1> QED
    BY <1>1, <1>2, <1>3 DEF Write

(* The calls that do nothing or stop.                                      *)
LEMMA StoppingTypes ==
  ASSUME GripperTypeOK,
         \/ \E answer \in ReadAnswers, held \in BOOLEAN : Read(answer, held)
         \/ \E held \in BOOLEAN : EnforceWatchdog(held)
         \/ \E driver_fault, held \in BOOLEAN : Stop(driver_fault, held)
         \/ \E health \in HealthAnswers, held \in BOOLEAN : Status(health, held)
  PROVE  GripperTypeOK'
  <1>1. /\ {"read", "watchdog", "requested", "health"} \subseteq Reasons
        /\ output \in Outputs /\ Bump(watchdogStops) \in Counts
    BY BumpInRange DEF Reasons, GripperTypeOK
  <1>2. CASE UNCHANGED gripperVars
    BY <1>2 DEF gripperVars, counters, GripperTypeOK
  <1>3. CASE \E answer \in ReadAnswers, held \in BOOLEAN : Read(answer, held)
    BY <1>1, <1>2, <1>3, StopAllTypes DEF Read, GripperTypeOK
  <1>4. CASE \E held \in BOOLEAN : EnforceWatchdog(held)
    BY <1>1, <1>4, StopAllTypes DEF EnforceWatchdog, GripperTypeOK
  <1>5. CASE \E driver_fault, held \in BOOLEAN : Stop(driver_fault, held)
    BY <1>1, <1>5, StopAllTypes DEF Stop, GripperTypeOK
  <1>6. CASE \E health \in HealthAnswers, held \in BOOLEAN : Status(health, held)
    BY <1>1, <1>2, <1>6, StopAllTypes DEF Status, GripperTypeOK
  <1> QED
    BY <1>3, <1>4, <1>5, <1>6

(* Constructor, destructor and crash.                                      *)
LEMMA LifecycleTypes ==
  ASSUME GripperTypeOK,
         \/ Construct \/ Crash \/ Tick
         \/ \E held \in BOOLEAN : ConstructFails(held) \/ Destroy(held)
  PROVE  GripperTypeOK'
  <1>1. 0 \in Counts /\ "none" \in Reasons /\ 0 \in 0 .. WatchdogTimeout + 1
    BY CountAssumption, WatchdogAssumption DEF Counts, Reasons
  <1>2. CASE Construct
    BY <1>1, <1>2 DEF Construct, GripperTypeOK
  <1>3. CASE Crash
    BY <1>3 DEF Crash, counters, GripperTypeOK
  <1>4. CASE Tick
    <2>1. commandAge' \in 0 .. WatchdogTimeout + 1
      BY <1>4, WatchdogAssumption DEF Tick, GripperTypeOK
    <2> QED
      BY <1>4, <2>1 DEF Tick, counters, GripperTypeOK
  <1>5. CASE \E held \in BOOLEAN : ConstructFails(held) \/ Destroy(held)
    BY <1>5 DEF ConstructFails, Destroy, AfterStop, counters, GripperTypeOK, Outputs
  <1> QED
    BY <1>2, <1>3, <1>4, <1>5

(* GripperTypeOK: every member keeps its type.                             *)
THEOREM GripperTypeCorrect == Spec => []GripperTypeOK
  <1>1. Init => GripperTypeOK
    <2>1. 0 \in Counts /\ 0 \in 0 .. WatchdogTimeout + 1
      BY CountAssumption, WatchdogAssumption DEF Counts
    <2> QED
      BY <2>1 DEF Init, Reasons, Outputs, GripperTypeOK
  <1>2. GripperTypeOK /\ [Next]_gripperVars => GripperTypeOK'
    <2> SUFFICES ASSUME GripperTypeOK, [Next]_gripperVars
                 PROVE  GripperTypeOK'
      OBVIOUS
    <2>1. CASE UNCHANGED gripperVars
      BY <2>1 DEF gripperVars, counters, GripperTypeOK
    <2>2. CASE Next
      BY <2>2, WriteTypes, StoppingTypes, LifecycleTypes DEF Next
    <2> QED
      BY <2>1, <2>2
  <1> QED
    BY <1>1, <1>2, PTL DEF Spec

-----------------------------------------------------------------------------
(* A stop never leaves "motion" behind, whatever stopAll() answered.       *)
LEMMA StopAllEndsMotion ==
  ASSUME NEW reason, NEW fault, NEW told, NEW held, StopAll(reason, fault, told, held)
  PROVE  output' # "motion"
  BY DEF StopAll, AfterStop

(* Reading and polling never set anything in motion.                       *)
LEMMA ObservingIsStill ==
  ASSUME \/ \E answer, held : Read(answer, held)
         \/ \E health, held : Status(health, held)
         \/ \E held : EnforceWatchdog(held)
         \/ \E driver_fault, held : Stop(driver_fault, held)
  PROVE  output' # "motion" \/ UNCHANGED gripperVars
  BY StopAllEndsMotion DEF Read, Status, EnforceWatchdog, Stop

(* HaltedIsNotMoving is inductive as it stands.                            *)
LEMMA HaltedStep ==
  ASSUME HaltedIsNotMoving, [Next]_gripperVars
  PROVE  HaltedIsNotMoving'
  <1>1. CASE output' # "motion"
    BY <1>1 DEF HaltedIsNotMoving
  <1>2. CASE UNCHANGED gripperVars
    BY <1>2 DEF gripperVars, HaltedIsNotMoving
  <1>3. CASE Construct \/ Crash \/ \E held \in BOOLEAN : ConstructFails(held) \/ Destroy(held)
    BY <1>3 DEF Construct, Crash, ConstructFails, Destroy, HaltedIsNotMoving
  <1>4. CASE Tick
    BY <1>4 DEF Tick, HaltedIsNotMoving
  <1>5. ASSUME NEW answer, NEW held, Write(answer, held)
        PROVE  HaltedIsNotMoving'
    BY <1>5, StopAllEndsMotion
    DEF Write, WriteRefused, WriteFails, WriteAccepted, HaltedIsNotMoving
  <1> QED
    BY <1>1, <1>2, <1>3, <1>4, <1>5, ObservingIsStill DEF Next

(* HaltedIsNotMoving: no order of calls, restarts and crashes leaves a     *)
(* motion running behind a watchdog stop or a fault.                       *)
THEOREM GripperHaltedHolds == Spec => []HaltedIsNotMoving
  <1>1. Init => HaltedIsNotMoving
    BY DEF Init, HaltedIsNotMoving
  <1> QED
    BY <1>1, HaltedStep, PTL DEF Spec

-----------------------------------------------------------------------------
(* A stop is a fault, a halt, an expiry or, on a halted gate, a stutter.   *)
LEMMA StopSimulates ==
  ASSUME HaltedIsNotMoving, active, active', NEW reason, NEW fault \in BOOLEAN, NEW told,
         NEW held, StopAll(reason, fault, told, held),
         UNCHANGED watchdogLatched
  PROVE  [Gate!GateNext]_(Gate!gateVars)
  <1>1. output' # "motion"
    BY StopAllEndsMotion
  <1>2. CASE driverFaultLatched
    BY <1>1, <1>2 DEF StopAll, HaltedIsNotMoving, Gate!gateVars
  <1>3. CASE ~driverFaultLatched /\ fault
    BY <1>1, <1>3 DEF StopAll, Gate!GateNext, Gate!Fault
  <1>4. CASE ~driverFaultLatched /\ ~fault
    BY <1>1, <1>4 DEF StopAll, Gate!GateNext, Gate!Halt
  <1> QED
    BY <1>2, <1>3, <1>4

(* Every step of the runtime is one of the gate, or a stutter.             *)
LEMMA StepSimulates ==
  ASSUME HaltedIsNotMoving, [Next]_gripperVars
  PROVE  [Gate!GateNext]_(Gate!gateVars)
  <1>1. ASSUME UNCHANGED <<active, abandoned, watchdogLatched, driverFaultLatched, output>>
        PROVE  UNCHANGED Gate!gateVars
    BY <1>1 DEF Gate!gateVars
  <1>2. CASE Tick \/ UNCHANGED gripperVars
    BY <1>1, <1>2 DEF Tick, gripperVars
  <1>3. CASE Construct
    BY <1>3 DEF Construct, Gate!GateNext, Gate!Open
  <1>4. CASE Crash \/ \E held \in BOOLEAN : ConstructFails(held) \/ Destroy(held)
    <2>1. CASE Crash
      BY <2>1 DEF Crash, Gate!GateNext, Gate!Lose
    <2>2. CASE \E held \in BOOLEAN : ConstructFails(held) \/ Destroy(held)
      BY <2>2 DEF ConstructFails, Destroy, AfterStop, Gate!GateNext, Gate!Close
    <2> QED
      BY <1>4, <2>1, <2>2
  <1>5. CASE \E held \in BOOLEAN : EnforceWatchdog(held)
    <2> PICK held \in BOOLEAN : EnforceWatchdog(held)
      BY <1>5
    <2>1. output' # "motion"
      BY StopAllEndsMotion DEF EnforceWatchdog
    <2> QED
      BY <2>1 DEF EnforceWatchdog, WatchdogDue, StopAll, Gate!GateNext, Gate!Expire
  <1>6. CASE \E driver_fault, held \in BOOLEAN : Stop(driver_fault, held)
    <2> PICK driver_fault \in BOOLEAN, held \in BOOLEAN : Stop(driver_fault, held)
      BY <1>6
    <2>1. active /\ active' /\ StopAll("requested", driver_fault, output, held)
      BY DEF Stop
    <2>2. UNCHANGED watchdogLatched /\ driver_fault \in BOOLEAN
      BY DEF Stop
    <2> QED
      BY <2>1, <2>2, StopSimulates
  <1>7. ASSUME NEW answer, NEW held, Read(answer, held)
        PROVE  [Gate!GateNext]_(Gate!gateVars)
    BY <1>2, <1>7, StopSimulates DEF Read
  <1>8. ASSUME NEW health, NEW held, Status(health, held)
        PROVE  [Gate!GateNext]_(Gate!gateVars)
    BY <1>2, <1>8, StopSimulates DEF Status
  <1>9. ASSUME NEW answer, NEW held, Write(answer, held)
        PROVE  [Gate!GateNext]_(Gate!gateVars)
    <2>1. CASE WriteRefused(answer)
      BY <1>1, <2>1 DEF WriteRefused
    <2>2. CASE WriteFails(answer, held)
      BY <1>9, <2>2, StopSimulates DEF Write, WriteFails
    <2>3. CASE WriteAccepted(answer)
      BY <1>9, <2>3 DEF Write, WriteAccepted, Gate!GateNext, Gate!Accept
    <2> QED
      BY <1>9, <2>1, <2>2, <2>3 DEF Write
  <1> QED
    BY <1>2, <1>3, <1>4, <1>5, <1>6, <1>7, <1>8, <1>9 DEF Next

(* ImplementsGate: the gripper runtime is the same gate as DriverRuntime.  *)
THEOREM GripperGateRefinement == Spec => ImplementsGate
  <1>1. Init => Gate!GateInit
    BY DEF Init, Gate!GateInit
  <1>2. HaltedIsNotMoving /\ [Next]_gripperVars => [Gate!GateNext]_(Gate!gateVars)
    BY StepSimulates
  <1> QED
    BY <1>1, <1>2, GripperHaltedHolds, PTL DEF Spec, ImplementsGate, Gate!GateSpec

-----------------------------------------------------------------------------
(* A step of the node is a call of its runtime, a start or an end of the   *)
(* process, the passing of time, or leaves the runtime alone.              *)
LEMMA NodeStepUsesGripper ==
  ASSUME [NodeNext]_nodeVars
  PROVE  [Next]_gripperVars
  <1>1. CASE UNCHANGED nodeVars
    BY <1>1 DEF nodeVars
  <1>2. CASE \/ \E hc \in BOOLEAN : StartNode(hc)
             \/ \E held \in BOOLEAN : StartFails(held) \/ Shutdown(held)
             \/ NodeCrash
    BY <1>2 DEF StartNode, StartFails, Shutdown, NodeCrash, Next
  <1>3. CASE ControlTimer
    BY <1>3 DEF ControlTimer, ControlTick, Next
  <1>4. CASE HandlerStep
    <2>1. CASE \E held \in BOOLEAN : CallStop(held) \/ CallWatchdog(held)
      BY <2>1 DEF CallStop, CallWatchdog, Next
    <2>2. CASE \E health \in HealthAnswers, held \in BOOLEAN : CallEnable(health, held)
      BY <2>2 DEF CallEnable, Next
    <2> QED
      BY <1>4, <2>1, <2>2 DEF HandlerStep
  <1>5. CASE \E members \in SUBSET Grippers, age \in StampAges, answer \in WriteAnswers,
                held \in BOOLEAN : Command(members, age, answer, held)
    BY <1>5 DEF Command, Next
  <1>6. CASE \/ EmergencyStop \/ NodeTick
             \/ \E data \in BOOLEAN : OutputEnable(data)
             \/ \E health \in HealthAnswers, held \in BOOLEAN : DiagnosticsTick(health, held)
    BY <1>6 DEF EmergencyStop, NodeTick, OutputEnable, DiagnosticsTick, Next
  <1> QED
    BY <1>1, <1>2, <1>3, <1>4, <1>5, <1>6 DEF NodeNext

(* The runtime inside the node starts and steps as GripperRuntime does, so *)
(* what is proved of the one holds of the other.                           *)
LEMMA GripperInNode == NodeSpec => Spec
  <1>1. NodeInit => Init
    BY DEF NodeInit
  <1>2. [NodeNext]_nodeVars => [Next]_gripperVars
    BY NodeStepUsesGripper
  <1> QED
    BY <1>1, <1>2, PTL DEF NodeSpec, Spec

(* HaltedIsNotMoving, for the runtime inside the node.                     *)
THEOREM GripperHaltedInNode == NodeSpec => []HaltedIsNotMoving
  BY GripperInNode, GripperHaltedHolds, PTL

(* ImplementsGate: the node, with its crashes and restarts, never gets     *)
(* past the gate that both runtimes implement.                             *)
THEOREM GateInNode == NodeSpec => ImplementsGate
  BY GripperInNode, GripperGateRefinement, PTL

-----------------------------------------------------------------------------
(* What the handlers leave behind, and what making a call takes away.      *)
Pending == {<<>>, <<"stop">>, <<"watchdog">>, <<"enable">>,
            <<"stop", "watchdog">>, <<"stop", "enable">>}

Stopping(q) == q = <<"stop">> \/ q = <<"stop", "watchdog">> \/ q = <<"stop", "enable">>

CallNames == {"stop", "watchdog", "enable"}

(* Taking the first of two calls off, and putting a second behind one.     *)
LEMMA TwoCalls ==
  ASSUME NEW a \in CallNames, NEW b \in CallNames
  PROVE  /\ Head(<<a, b>>) = a /\ Tail(<<a, b>>) = <<b>>
         /\ <<a>> \o <<>> = <<a>> /\ <<a>> \o <<b>> = <<a, b>>
  <1>1. /\ <<a>> \in Seq(CallNames) /\ <<b>> \in Seq(CallNames) /\ <<a, b>> \in Seq(CallNames) /\ <<a, b>> # <<>>
        /\ Len(<<a>>) = 1 /\ Len(<<b>>) = 1 /\ Len(<<a, b>>) = 2
        /\ <<a>>[1] = a /\ <<b>>[1] = b /\ <<a, b>>[1] = a /\ <<a, b>>[2] = b
    OBVIOUS
  <1>2. /\ Tail(<<a, b>>) \in Seq(CallNames) /\ Len(Tail(<<a, b>>)) = 1
        /\ \A i \in 1 .. 1 : Tail(<<a, b>>)[i] = <<a, b>>[i + 1]
    BY <1>1, HeadTailProperties
  <1>3. Tail(<<a, b>>) = <<b>>
    <2>1. Tail(<<a, b>>)[1] = <<b>>[1]
      BY <1>1, <1>2
    <2>2. \A i \in 1 .. Len(Tail(<<a, b>>)) : Tail(<<a, b>>)[i] = <<b>>[i]
      BY <1>2, <2>1
    <2> QED
      BY <1>1, <1>2, <2>2, SeqEqual
  <1>4. <<a>> \o <<>> = <<a>>
    BY <1>1, ConcatEmptySeq
  <1>5. /\ <<a>> \o <<b>> \in Seq(CallNames) /\ Len(<<a>> \o <<b>>) = 2
        /\ (<<a>> \o <<b>>)[1] = a /\ (<<a>> \o <<b>>)[2] = b
    BY <1>1, ConcatProperties
  <1>6. <<a>> \o <<b>> = <<a, b>>
    <2>1. \A i \in 1 .. 2 : i = 1 \/ i = 2
      OBVIOUS
    <2>2. \A i \in 1 .. Len(<<a>> \o <<b>>) : (<<a>> \o <<b>>)[i] = <<a, b>>[i]
      BY <1>1, <1>5, <2>1
    <2> QED
      BY <1>1, <1>5, <2>2, SeqEqual
  <1> QED
    BY <1>3, <1>4, <1>6

(* A call leaves a shorter list, with no stop left in it, and the stop is  *)
(* the first to be made.                                                   *)
LEMMA PendingCalls ==
  ASSUME todo \in Pending, NEW call, Calling(call)
  PROVE  /\ todo' \in Pending /\ ~Stopping(todo') /\ driven' = {}
         /\ Stopping(todo) => call = "stop"
  <1>1. todo' = Tail(todo) /\ Head(todo) = call /\ todo # <<>> /\ driven' = {}
    BY DEF Calling
  <1>2. CASE todo = <<"stop">> \/ todo = <<"watchdog">> \/ todo = <<"enable">>
    <2>1. todo' = <<>>
      BY <1>1, <1>2
    <2>2. Stopping(todo) => call = "stop"
      BY <1>1, <1>2 DEF Stopping
    <2> QED
      BY <1>1, <2>1, <2>2 DEF Stopping, Pending
  <1>3. CASE todo = <<"stop", "watchdog">>
    <2>1. todo' = <<"watchdog">> /\ call = "stop"
      BY <1>1, <1>3, TwoCalls DEF CallNames
    <2>2. ~Stopping(todo') /\ todo' \in Pending
      BY <2>1 DEF Stopping, Pending
    <2> QED
      BY <1>1, <2>1, <2>2
  <1>4. CASE todo = <<"stop", "enable">>
    <2>1. todo' = <<"enable">> /\ call = "stop"
      BY <1>1, <1>4, TwoCalls DEF CallNames
    <2>2. ~Stopping(todo') /\ todo' \in Pending
      BY <2>1 DEF Stopping, Pending
    <2> QED
      BY <1>1, <2>1, <2>2
  <1> QED
    BY <1>1, <1>2, <1>3, <1>4 DEF Pending

(* An enable message leaves a stop to be made, and maybe an enable after.  *)
LEMMA EnableCalls ==
  ASSUME NEW data \in BOOLEAN, OutputEnable(data)
  PROVE  todo' \in Pending /\ Stopping(todo')
  <1>1. todo' = <<"stop">> \o <<>> \/ todo' = <<"stop">> \o <<"enable">>
    BY DEF OutputEnable
  <1>2. <<"stop">> \o <<>> = <<"stop">> /\ <<"stop">> \o <<"enable">> = <<"stop", "enable">>
    BY TwoCalls DEF CallNames
  <1> QED
    BY <1>1, <1>2 DEF Stopping, Pending

(* The inductive invariant: a process that does not exist has no memory,   *)
(* and a stopped one that has made its stop is still.                      *)
StillInv ==
    /\ todo \in Pending
    /\ ~active => ~stopped /\ driven = {} /\ todo = <<>>
    /\ stopped /\ ~Stopping(todo) => output # "motion"

(* Every step keeps it.                                                    *)
LEMMA StillStep ==
  ASSUME StillInv, [NodeNext]_nodeVars
  PROVE  StillInv'
  <1> USE DEF StillInv
  <1>1. CASE UNCHANGED nodeVars
    BY <1>1 DEF nodeVars, gripperVars
  <1>2. CASE \E hc \in BOOLEAN : StartNode(hc)
    BY <1>2 DEF StartNode, Construct
  <1>3. CASE \E held \in BOOLEAN : StartFails(held)
    BY <1>3 DEF StartFails, ConstructFails
  <1>4. CASE NodeCrash \/ \E held \in BOOLEAN : Shutdown(held)
    <2>1. ~stopped' /\ driven' = {} /\ todo' = <<>>
      BY <1>4 DEF NodeCrash, Shutdown, Forget
    <2> QED
      BY <2>1 DEF Pending
  <1>5. CASE ControlTimer
    <2> PICK answer \in ReadAnswers, age \in SampleAges, dated, held \in BOOLEAN :
           ControlTick(answer, age, dated, held)
      BY <1>5 DEF ControlTimer
    <2>1. /\ todo = <<>> /\ active /\ active' = active
          /\ FeedbackMissing \/ FeedbackPresent
          /\ output' # "motion" \/ output' = output
      BY ObservingIsStill DEF ControlTick, Idle, Read, gripperVars
    <2>2. CASE todo' = <<"stop", "watchdog">>
      BY <2>1, <2>2 DEF Stopping, Pending
    <2>3. CASE todo' = <<"watchdog">> /\ stopped' = stopped
      <3>1. todo' \in Pending /\ ~Stopping(todo)
        BY <2>1, <2>3 DEF Stopping, Pending
      <3> QED
        BY <2>1, <2>3, <3>1
    <2> QED
      BY <2>1, <2>2, <2>3 DEF FeedbackMissing, FeedbackPresent
  <1>6. CASE HandlerStep
    <2>1. ASSUME NEW held \in BOOLEAN, CallStop(held)
          PROVE  StillInv'
      <3>1. output' # "motion" /\ active' = active /\ active
        BY <2>1, StopAllEndsMotion DEF CallStop, Stop
      <3>2. todo' \in Pending
        BY <2>1, PendingCalls DEF CallStop
      <3> QED
        BY <3>1, <3>2
    <2>2. ASSUME NEW call, call # "stop", Calling(call), (stopped' => stopped),
                 active, active', output' # "motion" \/ output' = output
          PROVE  StillInv'
      <3>1. todo' \in Pending /\ ~Stopping(todo)
        BY <2>2, PendingCalls
      <3> QED
        BY <2>2, <3>1
    <2>3. todo # <<>> => active
      OBVIOUS
    <2>4. CASE \E held \in BOOLEAN : CallWatchdog(held)
      <3>1. /\ Calling("watchdog") /\ stopped' = stopped /\ active' = active
            /\ output' # "motion" \/ output' = output
        BY <2>4, ObservingIsStill DEF CallWatchdog, EnforceWatchdog, gripperVars
      <3>2. active
        BY <2>3, <3>1 DEF Calling
      <3> QED
        BY <2>2, <3>1, <3>2
    <2>5. CASE \E health \in HealthAnswers, held \in BOOLEAN : CallEnable(health, held)
      <3>1. /\ Calling("enable") /\ (stopped' => stopped) /\ active' = active
            /\ output' # "motion" \/ output' = output
        BY <2>5, ObservingIsStill DEF CallEnable, Status, gripperVars
      <3>2. active
        BY <2>3, <3>1 DEF Calling
      <3> QED
        BY <2>2, <3>1, <3>2
    <2> QED
      BY <1>6, <2>1, <2>4, <2>5 DEF HandlerStep
  <1>7. CASE \E members \in SUBSET Grippers, age \in StampAges, answer \in WriteAnswers,
                held \in BOOLEAN : Command(members, age, answer, held)
    <2>1. /\ ~stopped /\ stopped' = stopped /\ todo' = todo /\ active' = active /\ active
      BY <1>7 DEF Command, Listening, Write, WriteRefused, WriteFails, WriteAccepted
    <2> QED
      BY <2>1
  <1>8. CASE EmergencyStop \/ \E data \in BOOLEAN : OutputEnable(data)
    <2>1. active' = active /\ active
      BY <1>8 DEF EmergencyStop, OutputEnable, gripperVars
    <2>2. todo' \in Pending /\ Stopping(todo')
      BY <1>8, EnableCalls DEF EmergencyStop, Stopping, Pending
    <2> QED
      BY <2>1, <2>2
  <1>9. CASE \E health \in HealthAnswers, held \in BOOLEAN : DiagnosticsTick(health, held)
    <2>1. /\ active' = active /\ active /\ stopped' = stopped /\ todo' = todo
          /\ output' # "motion" \/ output' = output
      BY <1>9, ObservingIsStill DEF DiagnosticsTick, Status, gripperVars
    <2> QED
      BY <2>1
  <1>10. CASE NodeTick
    <2>1. /\ active' = active /\ active /\ stopped' = stopped /\ todo' = todo
          /\ output' = output
      BY <1>10 DEF NodeTick, Tick
    <2> QED
      BY <2>1
  <1> QED
    BY <1>1, <1>2, <1>3, <1>4, <1>5, <1>6, <1>7, <1>8, <1>9, <1>10 DEF NodeNext

(* Every behaviour keeps it.                                               *)
LEMMA StillHolds == NodeSpec => []StillInv
  <1>1. NodeInit => StillInv
    BY DEF NodeInit, StillInv, Pending
  <1> QED
    BY <1>1, StillStep, PTL DEF NodeSpec

(* StoppedIsStill: after the stop of a revocation no command of any client *)
(* sets the grippers of a stopped node in motion.                          *)
THEOREM GripperStoppedHolds == NodeSpec => []StoppedIsStill
  <1>1. StillInv => StoppedIsStill
    <2> SUFFICES ASSUME StillInv, stopped, \A i \in DOMAIN todo : todo[i] # "stop"
                 PROVE  output # "motion"
      BY DEF StoppedIsStill
    <2>1. ~Stopping(todo)
      BY DEF Stopping
    <2> QED
      BY <2>1 DEF StillInv
  <1> QED
    BY <1>1, StillHolds, PTL

-----------------------------------------------------------------------------
(* GripperNodeTypeOK step by step.                                         *)
LEMMA GripperNodeTypeStep ==
  ASSUME GripperNodeTypeOK, todo' \in Pending, [NodeNext]_nodeVars
  PROVE  GripperNodeTypeOK'
  <1> USE DEF GripperNodeTypeOK, Pending
  <1>0. /\ CommandMaxAge \in Nat \ {0} /\ Skew \in Nat
        /\ 0 \in 0 .. CommandMaxAge /\ CommandMaxAge \in 0 .. CommandMaxAge
        /\ CommandMaxAge \in StampAges
        /\ \A age \in StampAges : Older(age) \in StampAges
        /\ \A age \in 0 .. CommandMaxAge : Older(age) \in 0 .. CommandMaxAge
    BY GripperAssumption DEF StampAges, Older
  <1>1. CASE UNCHANGED nodeVars
    BY <1>1 DEF nodeVars, stampVars
  <1>2. CASE \/ \E hc \in BOOLEAN : StartNode(hc)
             \/ \E held \in BOOLEAN : StartFails(held)
    BY <1>2 DEF StartNode, StartFails, stampVars
  <1>3. CASE NodeCrash \/ \E held \in BOOLEAN : Shutdown(held)
    <2>1. Forget
      BY <1>3 DEF NodeCrash, Shutdown
    <2> QED
      BY <1>0, <2>1 DEF Forget, NoStamps
  <1>4. ASSUME Revoke \/ UNCHANGED <<stopped, stampVars>>, feedbackReady' \in BOOLEAN,
               driven' = {}, hcSafety' = hcSafety
        PROVE  GripperNodeTypeOK'
    BY <1>0, <1>4 DEF Revoke, stampVars
  <1>5. CASE ControlTimer
    BY <1>4, <1>5 DEF ControlTimer, ControlTick, FeedbackMissing, FeedbackPresent
  <1>6. CASE EmergencyStop \/ \E data \in BOOLEAN : OutputEnable(data)
    BY <1>4, <1>6 DEF EmergencyStop, OutputEnable
  <1>7. CASE \/ \E held \in BOOLEAN : CallStop(held) \/ CallWatchdog(held)
             \/ \E health \in HealthAnswers, held \in BOOLEAN : DiagnosticsTick(health, held)
    BY <1>4, <1>7 DEF CallStop, CallWatchdog, DiagnosticsTick, Calling
  <1>8. CASE \E health \in HealthAnswers, held \in BOOLEAN : CallEnable(health, held)
    <2>1. /\ stopped' \in BOOLEAN /\ driven' = {}
          /\ UNCHANGED <<hcSafety, feedbackReady, cutoffAge, stampAge>>
          /\ enabledAge' \in {0, enabledAge}
      BY <1>8 DEF CallEnable, Calling
    <2> QED
      BY <1>0, <2>1
  <1>9. ASSUME NEW members \in SUBSET Grippers, NEW age \in StampAges, NEW answer, NEW held,
               Command(members, age, answer, held)
        PROVE  GripperNodeTypeOK'
    <2>1. /\ UNCHANGED <<hcSafety, feedbackReady, stopped, cutoffAge, enabledAge>>
          /\ driven' \subseteq Grippers
      BY <1>9 DEF Command
    <2>2. stampAge' \in [Grippers -> StampAges]
      BY <1>9 DEF Command
    <2> QED
      BY <2>1, <2>2
  <1>10. CASE NodeTick
    <2>1. UNCHANGED <<hcSafety, feedbackReady, stopped>> /\ driven' = {}
      BY <1>10 DEF NodeTick
    <2>2. /\ cutoffAge' \in 0 .. CommandMaxAge /\ enabledAge' \in 0 .. CommandMaxAge
          /\ stampAge' \in [Grippers -> StampAges]
      BY <1>0, <1>10 DEF NodeTick
    <2> QED
      BY <2>1, <2>2
  <1> QED
    BY <1>1, <1>2, <1>3, <1>5, <1>6, <1>7, <1>8, <1>9, <1>10 DEF NodeNext, HandlerStep

(* GripperNodeTypeOK: in particular a revocation stops before it does      *)
(* anything else, and an enable comes last.                                *)
THEOREM GripperNodeTypeCorrect == NodeSpec => []GripperNodeTypeOK
  <1>1. NodeInit => GripperNodeTypeOK
    <2> SUFFICES ASSUME NodeInit PROVE GripperNodeTypeOK
      OBVIOUS
    <2>1. /\ cutoffAge \in 0 .. CommandMaxAge /\ enabledAge \in 0 .. CommandMaxAge
          /\ stampAge \in [Grippers -> StampAges]
      BY GripperAssumption DEF NodeInit, NoStamps, StampAges
    <2>2. /\ hcSafety \in BOOLEAN /\ feedbackReady \in BOOLEAN /\ stopped \in BOOLEAN
          /\ todo = <<>> /\ driven \subseteq Grippers
      BY Zenon DEF NodeInit
    <2> QED
      BY <2>1, <2>2 DEF GripperNodeTypeOK
  <1>2. GripperNodeTypeOK /\ StillInv' /\ [NodeNext]_nodeVars => GripperNodeTypeOK'
    BY GripperNodeTypeStep DEF StillInv
  <1> QED
    BY <1>1, <1>2, StillHolds, PTL DEF NodeSpec

-----------------------------------------------------------------------------
(* An enable is the last call of its handler.                              *)
Enabling(q) == q = <<"enable">> \/ q = <<"stop", "enable">>

LEMMA EnablingCalls ==
  ASSUME todo \in Pending, NEW call, Calling(call)
  PROVE  /\ Enabling(todo') => Enabling(todo)
         /\ call = "enable" => Enabling(todo) /\ ~Enabling(todo')
  <1>1. todo' = Tail(todo) /\ Head(todo) = call /\ todo # <<>>
    BY DEF Calling
  <1>2. CASE todo = <<"stop">> \/ todo = <<"watchdog">> \/ todo = <<"enable">>
    <2>1. todo' = <<>>
      BY <1>1, <1>2
    <2>2. ~Enabling(todo')
      BY <2>1 DEF Enabling
    <2>3. call = "enable" => todo = <<"enable">>
      BY <1>1, <1>2
    <2> QED
      BY <2>2, <2>3 DEF Enabling
  <1>3. CASE todo = <<"stop", "watchdog">>
    <2>1. todo' = <<"watchdog">> /\ call = "stop"
      BY <1>1, <1>3, TwoCalls DEF CallNames
    <2> QED
      BY <2>1 DEF Enabling
  <1>4. CASE todo = <<"stop", "enable">>
    <2>1. call = "stop"
      BY <1>1, <1>4, TwoCalls DEF CallNames
    <2> QED
      BY <1>4, <2>1 DEF Enabling
  <1> QED
    BY <1>1, <1>2, <1>3, <1>4 DEF Pending

(* The inductive invariant behind GivenSinceEnabled: a node that listens   *)
(* cuts off at its last enable, because the enable message itself revokes  *)
(* first, and so does every revocation of a stopped node.                  *)
EnabledInv ==
    /\ ~stopped => cutoffAge = enabledAge
    /\ Enabling(todo) => cutoffAge = 0
    /\ GivenSinceEnabled

(* Every step keeps it.                                                    *)
LEMMA EnabledStep ==
  ASSUME StillInv, EnabledInv, [NodeNext]_nodeVars
  PROVE  EnabledInv'
  <1> USE DEF EnabledInv
  <1>1. CASE UNCHANGED nodeVars
    BY <1>1 DEF nodeVars, stampVars, GivenSinceEnabled
  <1>2. CASE \/ \E hc \in BOOLEAN : StartNode(hc)
             \/ \E held \in BOOLEAN : StartFails(held)
    <2>1. driven' = {} /\ UNCHANGED <<stopped, cutoffAge, enabledAge, todo>>
      BY <1>2 DEF StartNode, StartFails, Construct, ConstructFails, StillInv, stampVars
    <2> QED
      BY <2>1 DEF GivenSinceEnabled
  <1>3. CASE NodeCrash \/ \E held \in BOOLEAN : Shutdown(held)
    <2>1. cutoffAge' = enabledAge' /\ todo' = <<>> /\ driven' = {}
      BY <1>3 DEF NodeCrash, Shutdown, Forget
    <2> QED
      BY <2>1 DEF GivenSinceEnabled, Enabling
  <1>4. CASE Revoke /\ driven' = {}
    BY <1>4 DEF Revoke, GivenSinceEnabled
  <1>5. CASE UNCHANGED <<stopped, cutoffAge, enabledAge>> /\ driven' = {} /\ ~Enabling(todo')
    BY <1>5 DEF GivenSinceEnabled
  <1>6. CASE ControlTimer
    <2>1. driven' = {} /\ (FeedbackMissing \/ FeedbackPresent)
      BY <1>6 DEF ControlTimer, ControlTick
    <2> QED
      BY <1>4, <1>5, <2>1 DEF FeedbackMissing, FeedbackPresent, stampVars, Enabling
  <1>7. CASE EmergencyStop \/ \E data \in BOOLEAN : OutputEnable(data)
    BY <1>4, <1>7 DEF EmergencyStop, OutputEnable
  <1>8. CASE \E held \in BOOLEAN : CallStop(held) \/ CallWatchdog(held)
    <2>1. /\ UNCHANGED <<stopped, cutoffAge, enabledAge>> /\ driven' = {}
          /\ \E call : Calling(call)
      BY <1>8 DEF CallStop, CallWatchdog, Calling, stampVars
    <2> QED
      BY <2>1, EnablingCalls DEF StillInv, GivenSinceEnabled
  <1>9. CASE \E health \in HealthAnswers, held \in BOOLEAN : CallEnable(health, held)
    <2>1. /\ Calling("enable") /\ driven' = {} /\ cutoffAge' = cutoffAge
          /\ stopped' = (stopped /\ driverFaultLatched')
          /\ enabledAge' = IF driverFaultLatched' THEN enabledAge ELSE 0
      BY <1>9 DEF CallEnable, Calling
    <2>2. cutoffAge = 0 /\ ~Enabling(todo')
      BY <2>1, EnablingCalls DEF StillInv
    <2>3. ~stopped' => cutoffAge' = enabledAge'
      BY <2>1, <2>2
    <2> QED
      BY <2>1, <2>2, <2>3 DEF GivenSinceEnabled
  <1>10. ASSUME NEW members \in SUBSET Grippers, NEW age \in StampAges, NEW answer, NEW held,
                Command(members, age, answer, held)
         PROVE  EnabledInv'
    <2>1. /\ ~stopped /\ driven' \subseteq members
          /\ UNCHANGED <<hcSafety, stopped, cutoffAge, enabledAge, todo>>
          /\ hcSafety => age < cutoffAge /\ \A g \in members : stampAge'[g] = age
      BY <1>10 DEF Command, Listening, CurrentStamp
    <2> QED
      BY <2>1 DEF GivenSinceEnabled
  <1>11. CASE \E health \in HealthAnswers, held \in BOOLEAN : DiagnosticsTick(health, held)
    BY <1>11 DEF DiagnosticsTick, stampVars, GivenSinceEnabled
  <1>12. CASE NodeTick
    <2>1. /\ cutoffAge' = Older(cutoffAge) /\ enabledAge' = Older(enabledAge)
          /\ UNCHANGED <<stopped, todo>> /\ driven' = {} /\ todo = <<>>
      BY <1>12 DEF NodeTick, Idle
    <2> QED
      BY <2>1 DEF GivenSinceEnabled, Enabling
  <1> QED
    BY <1>1, <1>2, <1>3, <1>6, <1>7, <1>8, <1>9, <1>10, <1>11, <1>12 DEF NodeNext, HandlerStep

(* GivenSinceEnabled: no command stamped while the node was stopped, or    *)
(* before, drives a gripper after the node is enabled.                     *)
THEOREM GivenSinceEnabledHolds == NodeSpec => []GivenSinceEnabled
  <1>1. NodeInit => EnabledInv
    BY DEF NodeInit, EnabledInv, Enabling, GivenSinceEnabled
  <1>2. EnabledInv => GivenSinceEnabled
    BY DEF EnabledInv
  <1> QED
    BY <1>1, <1>2, EnabledStep, StillHolds, PTL DEF NodeSpec

(* LockHolds: whatever enable messages follow, a node that is locked after *)
(* a fault stays locked as long as its process lives.                      *)
THEOREM LockHoldsAlways == NodeSpec => LockHolds
  <1>1. ASSUME StillInv, [NodeNext]_nodeVars
        PROVE  [hcSafety /\ Locked /\ active' => Locked']_nodeVars
    <2> SUFFICES ASSUME Locked, active' PROVE Locked' \/ UNCHANGED nodeVars
      OBVIOUS
    <2>0. stopped /\ driverFaultLatched /\ output # "motion" /\ active
      BY <1>1 DEF Locked, StillInv
    <2>1. driverFaultLatched'
      <3>1. \/ [Next]_gripperVars
        BY <1>1, NodeStepUsesGripper
      <3>2. ASSUME NEW answer, NEW held, Write(answer, held)
            PROVE  driverFaultLatched'
        BY <2>0, <3>2 DEF Write, WriteRefused, WriteFails, WriteAccepted
      <3> QED
        BY <2>0, <3>1, <3>2
        DEF Next, gripperVars, Construct, Crash, Tick, ConstructFails, Destroy, EnforceWatchdog,
            WatchdogDue, Stop, Read, Status, StopAll
    <2>2. output' # "motion"
      <3>1. [Next]_gripperVars
        BY <1>1, NodeStepUsesGripper
      <3>2. ASSUME NEW answer, NEW held, Write(answer, held)
            PROVE  output' # "motion"
        BY <2>0, <3>2 DEF Write, WriteRefused, WriteFails, WriteAccepted
      <3> QED
        BY <2>0, <3>1, <3>2, ObservingIsStill
        DEF Next, gripperVars, Construct, Crash, Tick, ConstructFails, Destroy
    <2>3. stopped'
      <3>1. CASE \E health \in HealthAnswers, held \in BOOLEAN : CallEnable(health, held)
        BY <2>0, <2>1, <3>1 DEF CallEnable
      <3>2. CASE \/ UNCHANGED nodeVars \/ ControlTimer \/ EmergencyStop \/ NodeTick
                 \/ \E data \in BOOLEAN : OutputEnable(data)
        BY <2>0, <3>2 DEF nodeVars, ControlTimer, ControlTick, FeedbackMissing, FeedbackPresent,
                          EmergencyStop, NodeTick, OutputEnable, Revoke
      <3>3. CASE \/ \E hc \in BOOLEAN : StartNode(hc)
                 \/ \E held \in BOOLEAN : StartFails(held) \/ Shutdown(held)
                 \/ NodeCrash
        BY <2>0, <3>3 DEF StartNode, StartFails, Shutdown, NodeCrash, Construct, ConstructFails,
                          Destroy, Crash
      <3>4. CASE \/ \E held \in BOOLEAN : CallStop(held) \/ CallWatchdog(held)
                 \/ \E health \in HealthAnswers, held \in BOOLEAN : DiagnosticsTick(health, held)
                 \/ \E members \in SUBSET Grippers, age \in StampAges, answer \in WriteAnswers,
                       held \in BOOLEAN : Command(members, age, answer, held)
        BY <2>0, <3>4 DEF CallStop, CallWatchdog, DiagnosticsTick, Command
      <3> QED
        BY <1>1, <3>1, <3>2, <3>3, <3>4 DEF NodeNext, HandlerStep
    <2> QED
      BY <2>1, <2>2, <2>3 DEF Locked
  <1> QED
    BY <1>1, StillHolds, PTL DEF NodeSpec, LockHolds
=============================================================================
