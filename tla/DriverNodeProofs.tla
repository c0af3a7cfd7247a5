-------------------------- MODULE DriverNodeProofs --------------------------
(***************************************************************************)
(* Proofs about DriverNode, for every set of joints, every grouping, every *)
(* limit, with and without hc_safety.                                      *)
(***************************************************************************)
EXTENDS DriverNode, DriverRuntimeProofs, SequenceTheorems

(* A step of the node is a call of its runtime, the passing of time, or    *)
(* leaves the runtime alone.                                               *)
LEMMA NodeStepUsesRuntime ==
  ASSUME [NodeNext]_nodeVars
  PROVE  [Next]_runtimeVars
  <1>1. CASE UNCHANGED nodeVars
    BY <1>1 DEF nodeVars
  <1>2. CASE ControlTimer
    BY <1>2 DEF ControlTimer, ControlTick, Next
  <1>3. CASE HandlerStep
    <2>1. CASE Flush
      BY <2>1 DEF Flush
    <2>2. CASE \E held \in BOOLEAN : CallStop(held) \/ CallWatchdog(held)
      BY <2>2 DEF CallStop, CallWatchdog, Next
    <2>3. CASE \E health \in PluginHealths, held \in BOOLEAN :
                  CallReady(health, held) \/ CallEnable(health, held)
      BY <2>3 DEF CallReady, CallEnable, Next
    <2>4. CASE \E command \in batch, answer \in WriteAnswers \ {"invalid"},
                  health \in PluginHealths, held \in BOOLEAN :
                  WriteGroup(command, answer, health, held)
      <3> PICK command \in batch, answer \in WriteAnswers \ {"invalid"},
               health \in PluginHealths, held \in BOOLEAN :
               WriteGroup(command, answer, health, held)
        BY <2>4
      <3>1. answer \in WriteAnswers /\ Write(answer, health, held)
        BY DEF WriteGroup
      <3> QED
        BY <3>1 DEF Next
    <2> QED
      BY <1>3, <2>1, <2>2, <2>3, <2>4 DEF HandlerStep
  <1>4. CASE \E members \in (SUBSET Joints) \ {{}}, age \in StampAges :
                CommandCallback(members, age)
    BY <1>4 DEF CommandCallback
  <1>5. CASE EmergencyStop \/ RosClockStarts \/ \E data \in BOOLEAN : OutputEnable(data)
    BY <1>5 DEF EmergencyStop, RosClockStarts, OutputEnable
  <1>6. CASE \E health \in PluginHealths, held \in BOOLEAN : PublishDiagnostics(health, held)
    BY <1>6 DEF PublishDiagnostics, Next
  <1>7. CASE NodeTick
    BY <1>7 DEF NodeTick, Next
  <1> QED
    BY <1>1, <1>2, <1>3, <1>4, <1>5, <1>6, <1>7 DEF NodeNext

(* UsesRuntime: the node does nothing to its runtime that DriverRuntime    *)
(* does not allow for.                                                     *)
THEOREM RuntimeInNode == NodeSpec => UsesRuntime
  <1>1. [NodeNext]_nodeVars => [Next]_runtimeVars
    BY NodeStepUsesRuntime
  <1> QED
    BY <1>1, PTL DEF NodeSpec, UsesRuntime

(* HaltedIsNotMoving, for the runtime inside the node, which may inherit a *)
(* motion from a process that crashed.                                     *)
THEOREM HaltedInNode == NodeSpec => []HaltedIsNotMoving
  <1>1. NodeInit => HaltedIsNotMoving
    BY DEF NodeInit, HaltedIsNotMoving
  <1>2. HaltedIsNotMoving /\ [NodeNext]_nodeVars => HaltedIsNotMoving'
    BY NodeStepUsesRuntime, HaltedStep
  <1> QED
    BY <1>1, <1>2, PTL DEF NodeSpec

(* FeedbackCountersAgree, for the runtime inside the node.                 *)
THEOREM CountersInNode == NodeSpec => []FeedbackCountersAgree
  <1>1. NodeInit => FeedbackCountersAgree
    BY DEF NodeInit, FeedbackCountersAgree
  <1>2. FeedbackCountersAgree /\ [NodeNext]_nodeVars => FeedbackCountersAgree'
    BY NodeStepUsesRuntime, CountersStep
  <1> QED
    BY <1>1, <1>2, PTL DEF NodeSpec

(* FaultFreezes, for the runtime inside the node: no handler that runs     *)
(* after the first fault changes more than the count of refusals.          *)
THEOREM FaultFreezesInNode == NodeSpec => FaultFreezes
  <1>1. [NodeNext]_nodeVars =>
           [active /\ driverFaultLatched /\ active'
              => UNCHANGED <<flags, interruptions, recoveries, watchdogStops,
                             safetyStops, lastStopReason, output>>]_runtimeVars
    BY NodeStepUsesRuntime, FrozenStep
  <1> QED
    BY <1>1, PTL DEF NodeSpec, FaultFreezes

(* The node finds the gate of MotionGate open, possibly on a motion that a *)
(* crashed process left, and from there on it takes the gate's steps only. *)
THEOREM GateInNode == NodeSpec => [][Gate!GateNext]_(Gate!gateVars)
  <1>1. HaltedIsNotMoving /\ [NodeNext]_nodeVars => [Gate!GateNext]_(Gate!gateVars)
    BY NodeStepUsesRuntime, StepSimulates
  <1> QED
    BY <1>1, HaltedInNode, PTL DEF NodeSpec

-----------------------------------------------------------------------------
(* The calls a handler still has to make are a sequence; what matters here *)
(* is which calls are in it.                                               *)
Among(call, q) == \E i \in DOMAIN q : q[i] = call

(* Of two sequences of calls, one after the other.                         *)
LEMMA ConcatAmong ==
  ASSUME NEW p \in Seq(Calls), NEW q \in Seq(Calls), NEW call
  PROVE  /\ p \o q \in Seq(Calls)
         /\ Among(call, p \o q) <=> Among(call, p) \/ Among(call, q)
  <1>1. /\ p \o q \in Seq(Calls) /\ Len(p \o q) = Len(p) + Len(q)
        /\ \A i \in 1 .. Len(p) + Len(q) :
              (p \o q)[i] = IF i <= Len(p) THEN p[i] ELSE q[i - Len(p)]
    BY ConcatProperties
  <1>2. /\ Len(p) \in Nat /\ DOMAIN p = 1 .. Len(p)
        /\ Len(q) \in Nat /\ DOMAIN q = 1 .. Len(q)
        /\ DOMAIN (p \o q) = 1 .. Len(p) + Len(q)
    BY <1>1, LenProperties
  <1>3. ASSUME NEW i \in DOMAIN q
        PROVE  i + Len(p) \in DOMAIN (p \o q) /\ (p \o q)[i + Len(p)] = q[i]
    BY <1>1, <1>2
  <1>4. ASSUME NEW i \in DOMAIN p
        PROVE  i \in DOMAIN (p \o q) /\ (p \o q)[i] = p[i]
    BY <1>1, <1>2
  <1>5. ASSUME NEW i \in DOMAIN (p \o q)
        PROVE  \/ i \in DOMAIN p /\ (p \o q)[i] = p[i]
               \/ i - Len(p) \in DOMAIN q /\ (p \o q)[i] = q[i - Len(p)]
    BY <1>1, <1>2
  <1> QED
    BY <1>1, <1>3, <1>4, <1>5 DEF Among

(* Of a single call, and of none.                                          *)
LEMMA OneCall ==
  ASSUME NEW call \in Calls, NEW other
  PROVE  /\ <<call>> \in Seq(Calls)
         /\ Among(other, <<call>>) <=> other = call
         /\ <<>> \in Seq(Calls) /\ ~Among(other, <<>>)
  BY DEF Among

(* Making the first call takes it out of todo, and nothing else.           *)
LEMMA CallingAmong ==
  ASSUME todo \in Seq(Calls), NEW call, Calling(call), NEW other
  PROVE  /\ todo' \in Seq(Calls)
         /\ Among(other, todo') => Among(other, todo)
         /\ Among(other, todo) => other = call \/ Among(other, todo')
  <1>1. todo # <<>> /\ todo' = Tail(todo) /\ Head(todo) = call
    BY DEF Calling
  <1>2. /\ todo' \in Seq(Calls) /\ Len(todo') = Len(todo) - 1
        /\ \A i \in 1 .. Len(todo') : todo'[i] = todo[i + 1]
    BY <1>1, HeadTailProperties
  <1>3. /\ Len(todo) \in Nat \ {0} /\ DOMAIN todo = 1 .. Len(todo)
        /\ DOMAIN todo' = 1 .. Len(todo')
    BY <1>1, <1>2, LenProperties, EmptySeq
  <1>4. todo[1] = call
    BY <1>1, <1>3
  <1>5. ASSUME NEW i \in DOMAIN todo'
        PROVE  i + 1 \in DOMAIN todo /\ todo'[i] = todo[i + 1]
    BY <1>2, <1>3
  <1>6. ASSUME NEW i \in DOMAIN todo, i # 1
        PROVE  i - 1 \in DOMAIN todo' /\ todo'[i - 1] = todo[i]
    <2>1. i - 1 \in 1 .. Len(todo')
      BY <1>2, <1>3, <1>6
    <2>2. todo'[i - 1] = todo[(i - 1) + 1]
      BY <1>2, <2>1
    <2> QED
      BY <1>3, <2>1, <2>2
  <1> QED
    BY <1>2, <1>4, <1>5, <1>6 DEF Among

(* What the handlers leave behind: a revocation always stops, and only a   *)
(* control tick flushes.                                                   *)
LEMMA ReadyAmong ==
  ASSUME NEW call
  PROVE  PublishReady \in Seq(Calls) /\ (Among(call, PublishReady) => call = "ready")
  <1>1. "ready" \in Calls
    BY DEF Calls
  <1> QED
    BY <1>1, OneCall DEF PublishReady

(* A revocation stops the robot, and flushes nothing itself.               *)
LEMMA RevokeAmong ==
  ASSUME NEW more \in Seq(Calls)
  PROVE  /\ RevokeCalls \in Seq(Calls)
         /\ Among("stop", RevokeCalls)
         /\ ~Among("flush", RevokeCalls)
         /\ RevokeCalls \o more \in Seq(Calls)
         /\ Among("stop", RevokeCalls \o more)
         /\ Among("flush", RevokeCalls \o more) <=> Among("flush", more)
  <1>1. "stop" \in Calls
    BY DEF Calls
  <1>2. /\ RevokeCalls \in Seq(Calls) /\ Among("stop", RevokeCalls)
        /\ ~Among("flush", RevokeCalls)
    <2>1. /\ <<"stop">> \in Seq(Calls) /\ Among("stop", <<"stop">>)
          /\ ~Among("flush", <<"stop">>)
      BY <1>1, OneCall
    <2>2. PublishReady \in Seq(Calls) /\ ~Among("flush", PublishReady)
      BY ReadyAmong
    <2> QED
      BY <2>1, <2>2, ConcatAmong DEF RevokeCalls
  <1> QED
    BY <1>2, ConcatAmong

(* A control tick stops nothing by itself, and flushes at its end if at    *)
(* all.                                                                    *)
LEMMA TickAmong ==
  ASSUME NEW last \in {<<>>, <<"flush">>}
  PROVE  /\ PublishReady \o <<"watchdog">> \in Seq(Calls)
         /\ ~Among("flush", PublishReady \o <<"watchdog">>)
         /\ ~Among("stop", PublishReady \o <<"watchdog">>)
         /\ <<"watchdog">> \o PublishReady \o last \in Seq(Calls)
         /\ ~Among("stop", <<"watchdog">> \o PublishReady \o last)
         /\ Among("flush", <<"watchdog">> \o PublishReady \o last) => last = <<"flush">>
  <1>1. "watchdog" \in Calls /\ "flush" \in Calls
    BY DEF Calls
  <1>2. /\ last \in Seq(Calls) /\ ~Among("stop", last)
        /\ Among("flush", last) => last = <<"flush">>
    <2>1. CASE last = <<>>
      BY <1>1, <2>1, OneCall
    <2>2. CASE last = <<"flush">>
      BY <1>1, <2>2, OneCall
    <2> QED
      BY <2>1, <2>2
  <1>3. /\ <<"watchdog">> \in Seq(Calls) /\ ~Among("stop", <<"watchdog">>)
        /\ ~Among("flush", <<"watchdog">>)
    BY <1>1, OneCall
  <1>4. /\ PublishReady \in Seq(Calls) /\ ~Among("stop", PublishReady)
        /\ ~Among("flush", PublishReady)
    BY ReadyAmong
  <1>5. /\ <<"watchdog">> \o PublishReady \in Seq(Calls)
        /\ ~Among("stop", <<"watchdog">> \o PublishReady)
        /\ ~Among("flush", <<"watchdog">> \o PublishReady)
    BY <1>3, <1>4, ConcatAmong
  <1>6. /\ PublishReady \o <<"watchdog">> \in Seq(Calls)
        /\ ~Among("flush", PublishReady \o <<"watchdog">>)
        /\ ~Among("stop", PublishReady \o <<"watchdog">>)
    BY <1>3, <1>4, ConcatAmong
  <1>7. /\ (<<"watchdog">> \o PublishReady) \o last \in Seq(Calls)
        /\ ~Among("stop", (<<"watchdog">> \o PublishReady) \o last)
        /\ Among("flush", (<<"watchdog">> \o PublishReady) \o last) => Among("flush", last)
    BY <1>2, <1>5, ConcatAmong
  <1> QED
    BY <1>2, <1>6, <1>7
-----------------------------------------------------------------------------
(* Reading, polling and the watchdog set nothing in motion; a stop ends a  *)
(* motion, also on a faulted runtime, which has none.                      *)
LEMMA ObservingIsStill ==
  ASSUME \/ \E answer, age, health, held, heldAgain :
               Read(answer, age, health, held, heldAgain)
         \/ \E health, held : Status(health, held)
         \/ \E held : EnforceWatchdog(held)
  PROVE  output' # "motion" \/ output' = output
  <1>1. ASSUME NEW reason, NEW told, NEW held, LatchFault(reason, told, held)
        PROVE  output' # "motion"
    BY <1>1, HoldEndsMotion DEF LatchFault
  <1>2. ASSUME NEW held, WaitForFeedback(output, held)
        PROVE  output' # "motion" \/ output' = output
    BY <1>2, HoldEndsMotion DEF WaitForFeedback
  <1>3. ASSUME NEW answer, NEW age, NEW health, NEW held, NEW heldAgain,
               Read(answer, age, health, held, heldAgain)
        PROVE  output' # "motion" \/ output' = output
    BY <1>1, <1>2, <1>3
    DEF Read, ReadQuietly, ReadFails, ReadLosesFeedback, ReadStillWaits, ReadCannotRecover,
        ReadRecovers, AfterStop, runtimeVars
  <1>4. ASSUME NEW health, NEW held, Status(health, held)
        PROVE  output' # "motion" \/ output' = output
    BY <1>1, <1>2, <1>4 DEF Status, runtimeVars
  <1>5. ASSUME NEW held, EnforceWatchdog(held)
        PROVE  output' # "motion"
    BY <1>5, HoldEndsMotion DEF EnforceWatchdog
  <1> QED
    BY <1>3, <1>4, <1>5

(* The stop of a revocation.                                               *)
LEMMA StopEndsMotion ==
  ASSUME HaltedIsNotMoving, NEW driver_fault, NEW held, Stop(driver_fault, held)
  PROVE  output' # "motion"
  BY HoldEndsMotion DEF Stop, LatchFault, HaltedIsNotMoving, runtimeVars

(* The inductive invariant: whatever could still carry a command to the    *)
(* plugin exists in a node with feedback that is not stopped, and a        *)
(* stopped node that has made its stop is still.                           *)
OnlyLive ==
    /\ todo \in Seq(Calls)
    /\ Among("flush", todo) \/ batch # {} => ~stopped /\ feedbackReady
    /\ pending # NothingPending => ~(HcSafety /\ stopped) /\ feedbackReady
    /\ driven # {} => feedbackReady
    /\ HcSafety /\ stopped /\ ~Among("stop", todo) => output # "motion"

(* controlTick() keeps it.                                                 *)
LEMMA ControlTickLive ==
  ASSUME OnlyLive, NEW answer, NEW age, NEW health, NEW held, NEW heldAgain,
         ControlTick(answer, age, health, held, heldAgain)
  PROVE  OnlyLive'
  <1>1. /\ ~Among("stop", todo) /\ batch = {} /\ batch' = {} /\ driven' = {}
        /\ FeedbackMissing(feedbackReady) \/ FeedbackMissing(TRUE) \/ FeedbackPresent
    <2>1. todo = <<>> /\ batch = {} /\ batch' = {} /\ driven' = {}
      BY DEF ControlTick, Idle
    <2>2. ~Among("stop", <<>>)
      BY DEF Among
    <2>3. FeedbackMissing(feedbackReady) \/ FeedbackMissing(TRUE) \/ FeedbackPresent
      BY DEF ControlTick
    <2> QED
      BY <2>1, <2>2, <2>3
  <1>2. output' # "motion" \/ output' = output
    BY ObservingIsStill DEF ControlTick
  <1>3. CASE FeedbackPresent
    <2> DEFINE last == IF stopped THEN <<>> ELSE <<"flush">>
    <2>1. last \in {<<>>, <<"flush">>} /\ todo' = <<"watchdog">> \o PublishReady \o last
      BY <1>3 DEF FeedbackPresent
    <2>2. /\ todo' \in Seq(Calls) /\ ~Among("stop", todo')
          /\ Among("flush", todo') => ~stopped
      <3> HIDE DEF last
      <3>1. /\ todo' \in Seq(Calls) /\ ~Among("stop", todo')
            /\ Among("flush", todo') => last = <<"flush">>
        BY <2>1, TickAmong
      <3>2. last = <<"flush">> => ~stopped
        BY DEF last
      <3> QED
        BY <3>1, <3>2
    <2>3. feedbackReady' /\ stopped' = stopped /\ pending' = pending
      BY <1>3 DEF FeedbackPresent, commandVars
    <2> QED
      BY <1>1, <1>2, <2>2, <2>3 DEF OnlyLive, NothingPending
  <1>4. ASSUME NEW revokes, FeedbackMissing(revokes)
        PROVE  OnlyLive'
    <2>1. pending' = NothingPending
      BY <1>4 DEF FeedbackMissing, Revoke
    <2>2. CASE todo' = RevokeCalls \o PublishReady \o <<"watchdog">>
      <3>1. "watchdog" \in Calls
        BY DEF Calls
      <3>2. <<"watchdog">> \in Seq(Calls) /\ ~Among("flush", <<"watchdog">>)
        BY <3>1, OneCall
      <3>3. /\ RevokeCalls \o PublishReady \in Seq(Calls)
            /\ Among("stop", RevokeCalls \o PublishReady)
            /\ ~Among("flush", RevokeCalls \o PublishReady)
        BY RevokeAmong, ReadyAmong
      <3>4. todo' \in Seq(Calls) /\ Among("stop", todo') /\ ~Among("flush", todo')
        BY <2>2, <3>2, <3>3, ConcatAmong
      <3> QED
        BY <1>1, <2>1, <3>4 DEF OnlyLive, NothingPending
    <2>3. CASE todo' = PublishReady \o <<"watchdog">> /\ stopped' = stopped
      <3>1. todo' \in Seq(Calls) /\ ~Among("stop", todo') /\ ~Among("flush", todo')
        BY <2>3, TickAmong
      <3> QED
        BY <1>1, <1>2, <2>1, <2>3, <3>1 DEF OnlyLive, NothingPending
    <2> QED
      BY <1>4, <2>2, <2>3 DEF FeedbackMissing
  <1> QED
    BY <1>1, <1>3, <1>4

(* Both subscriptions that revoke keep it.                                 *)
LEMMA RevocationLive ==
  ASSUME OnlyLive, EmergencyStop \/ \E data \in BOOLEAN : OutputEnable(data)
  PROVE  OnlyLive'
  <1>1. /\ batch' = {} /\ driven' = {} /\ pending' = NothingPending
    BY DEF EmergencyStop, OutputEnable, Idle, Revoke
  <1>2. todo' \in Seq(Calls) /\ Among("stop", todo') /\ ~Among("flush", todo')
    <2>1. "enable" \in Calls /\ "flush" # "enable"
      BY DEF Calls
    <2>2. /\ <<"enable">> \in Seq(Calls) /\ ~Among("flush", <<"enable">>)
          /\ <<>> \in Seq(Calls) /\ ~Among("flush", <<>>)
      BY <2>1, OneCall
    <2>3. \/ todo' = RevokeCalls
          \/ todo' = RevokeCalls \o <<>>
          \/ todo' = RevokeCalls \o <<"enable">>
      BY DEF EmergencyStop, OutputEnable
    <2>4. CASE todo' = RevokeCalls
      BY <2>2, <2>4, RevokeAmong
    <2>5. CASE todo' = RevokeCalls \o <<>>
      BY <2>2, <2>5, RevokeAmong
    <2>6. CASE todo' = RevokeCalls \o <<"enable">>
      BY <2>2, <2>6, RevokeAmong
    <2> QED
      BY <2>3, <2>4, <2>5, <2>6
  <1> QED
    BY <1>1, <1>2 DEF OnlyLive, NothingPending

(* The calls a handler has left keep it.                                   *)
LEMMA CallLive ==
  ASSUME OnlyLive, HaltedIsNotMoving,
         \/ Flush
         \/ \E held \in BOOLEAN : CallStop(held) \/ CallWatchdog(held)
         \/ \E health \in PluginHealths, held \in BOOLEAN :
               CallReady(health, held) \/ CallEnable(health, held)
  PROVE  OnlyLive'
  <1>1. ASSUME NEW call, Calling(call), NEW other
        PROVE  /\ todo' \in Seq(Calls) /\ driven' = {}
               /\ Among(other, todo') => Among(other, todo)
               /\ Among(other, todo) => other = call \/ Among(other, todo')
    BY <1>1, CallingAmong DEF OnlyLive, Calling
  <1>2. CASE Flush
    <2>1. /\ Calling("flush") /\ pending' = NothingPending
          /\ UNCHANGED <<stopped, feedbackReady, output>>
      BY <1>2 DEF Flush, switchVars, runtimeVars
    <2>2. Among("flush", todo)
      BY <2>1, CallingAmong DEF OnlyLive, Calling, Among
    <2> QED
      BY <1>1, <2>1, <2>2 DEF OnlyLive, NothingPending
  <1>3. CASE \E held \in BOOLEAN : CallStop(held)
    <2>1. /\ Calling("stop") /\ output' # "motion"
          /\ UNCHANGED <<stopped, feedbackReady, pending, batch>>
      BY <1>3, StopEndsMotion DEF CallStop, switchVars, commandVars
    <2> QED
      BY <1>1, <2>1 DEF OnlyLive, NothingPending
  <1>4. ASSUME NEW call, call # "stop", Calling(call), output' # "motion" \/ output' = output,
               stopped' => stopped, UNCHANGED <<feedbackReady, pending, batch>>
        PROVE  OnlyLive'
    BY <1>1, <1>4 DEF OnlyLive, NothingPending
  <1>5. CASE \E held \in BOOLEAN : CallWatchdog(held)
    BY <1>4, <1>5, ObservingIsStill DEF CallWatchdog, switchVars, commandVars, runtimeVars
  <1>6. CASE \E health \in PluginHealths, held \in BOOLEAN : CallReady(health, held)
    BY <1>4, <1>6, ObservingIsStill DEF CallReady, commandVars
  <1>7. CASE \E health \in PluginHealths, held \in BOOLEAN : CallEnable(health, held)
    BY <1>4, <1>7, ObservingIsStill DEF CallEnable, commandVars
  <1> QED
    BY <1>2, <1>3, <1>5, <1>6, <1>7

(* Every step of the node keeps OnlyLive.                                  *)
LEMMA LiveStep ==
  ASSUME OnlyLive, HaltedIsNotMoving, [NodeNext]_nodeVars
  PROVE  OnlyLive'
  <1> USE DEF NothingPending
  <1>1. CASE UNCHANGED nodeVars
    BY <1>1 DEF nodeVars, runtimeVars, switchVars, commandVars, handlerVars, OnlyLive
  <1>2. CASE ControlTimer
    BY <1>2, ControlTickLive DEF ControlTimer
  <1>3. CASE \E command \in batch, answer \in WriteAnswers \ {"invalid"},
                health \in PluginHealths, held \in BOOLEAN :
                WriteGroup(command, answer, health, held)
    <2>1. /\ batch # {} /\ batch' \subseteq batch
          /\ UNCHANGED <<stopped, feedbackReady, pending, todo>>
      BY <1>3 DEF WriteGroup, switchVars, commandVars
    <2> QED
      BY <2>1 DEF OnlyLive
  <1>4. CASE HandlerStep
    BY <1>3, <1>4, CallLive DEF HandlerStep
  <1>5. CASE \E members \in (SUBSET Joints) \ {{}}, age \in StampAges :
                CommandCallback(members, age)
    <2>1. /\ ~stopped /\ feedbackReady
          /\ UNCHANGED <<stopped, feedbackReady, todo, batch, output>> /\ driven' = {}
      BY <1>5 DEF CommandCallback, Listening, switchVars, handlerVars, runtimeVars
    <2> QED
      BY <2>1 DEF OnlyLive
  <1>6. CASE EmergencyStop \/ \E data \in BOOLEAN : OutputEnable(data)
    BY <1>6, RevocationLive
  <1>7. CASE \E health \in PluginHealths, held \in BOOLEAN : PublishDiagnostics(health, held)
    <2>1. /\ output' # "motion" \/ output' = output
          /\ UNCHANGED <<stopped, feedbackReady, pending, todo, batch>> /\ driven' = {}
      BY <1>7, ObservingIsStill DEF PublishDiagnostics, switchVars, commandVars, handlerVars
    <2> QED
      BY <2>1 DEF OnlyLive
  <1>8. CASE RosClockStarts
    BY <1>8 DEF RosClockStarts, runtimeVars, commandVars, handlerVars, OnlyLive
  <1>9. CASE NodeTick
    <2>1. /\ UNCHANGED <<stopped, feedbackReady, todo, output>> /\ driven' = {}
          /\ batch = {} => batch' = {}
      BY <1>9 DEF NodeTick, Tick, switchVars
    <2>2. pending = NothingPending => pending' = NothingPending
      BY <1>9 DEF NodeTick, Shorter
    <2> QED
      BY <2>1, <2>2 DEF OnlyLive
  <1> QED
    BY <1>1, <1>2, <1>4, <1>5, <1>6, <1>7, <1>8, <1>9 DEF NodeNext

(* It holds in every behaviour.                                            *)
LEMMA LiveHolds == NodeSpec => []OnlyLive
  <1>1. NodeInit => OnlyLive
    BY DEF NodeInit, OnlyLive, NothingPending, Among
  <1>2. OnlyLive /\ HaltedIsNotMoving /\ [NodeNext]_nodeVars => OnlyLive'
    BY LiveStep
  <1> QED
    BY <1>1, <1>2, HaltedInNode, PTL DEF NodeSpec

(* StoppedIsStill: with hc_safety, after the stop of a revocation, whoever *)
(* revoked, the robot holds and nothing is queued or on its way.           *)
THEOREM StoppedHolds == NodeSpec => []StoppedIsStill
  <1>1. OnlyLive => StoppedIsStill
    BY DEF OnlyLive, StoppedIsStill, Among
  <1> QED
    BY <1>1, LiveHolds, PTL

(* NoCommandWithoutFeedback: whatever the joints, groups and limits, no    *)
(* command survives a read that gave no sample.                            *)
THEOREM NoCommandHolds == NodeSpec => []NoCommandWithoutFeedback
  <1>1. OnlyLive => NoCommandWithoutFeedback
    BY DEF OnlyLive, NoCommandWithoutFeedback
  <1> QED
    BY <1>1, LiveHolds, PTL

-----------------------------------------------------------------------------
(* The switches, the ages and the queue keep their types in every step     *)
(* that keeps todo a sequence of calls.                                    *)
LEMMA AgeTypes ==
  ASSUME NEW age \in StampAges
  PROVE  /\ Older(age) \in StampAges /\ Validity(age) \in 0 .. CommandMaxAge
         /\ Validity(age) <= CommandMaxAge - age
  BY CommandAssumption DEF StampAges, Older, Validity

(* The calls that handlers leave behind are calls.                         *)
LEMMA QueueTypes ==
  ASSUME pending \in [Joints -> 0 .. CommandMaxAge], NEW g,
         NEW i \in Joints, pending[i] > 0, g = GroupOf[i]
  PROVE  [j \in Valid(g) |-> pending[j]] \in Commands
  <1>1. Valid(g) \in (SUBSET Joints) \ {{}}
    BY DEF Valid
  <1>2. [j \in Valid(g) |-> pending[j]] \in [Valid(g) -> 0 .. CommandMaxAge]
    BY <1>1
  <1> QED
    BY <1>1, <1>2 DEF Commands

(* Validities stay in their range as time passes.                          *)
LEMMA ShorterTypes ==
  ASSUME NEW command \in Commands
  PROVE  [j \in DOMAIN command |-> Shorter(command[j])] \in Commands
  <1>1. PICK members \in (SUBSET Joints) \ {{}} : command \in [members -> 0 .. CommandMaxAge]
    BY DEF Commands
  <1>2. \A j \in members : Shorter(command[j]) \in 0 .. CommandMaxAge
    BY <1>1, CommandAssumption DEF Shorter
  <1>3. [j \in DOMAIN command |-> Shorter(command[j])] \in [members -> 0 .. CommandMaxAge]
    BY <1>1, <1>2
  <1> QED
    BY <1>3 DEF Commands

(* Every step of the node keeps its types.                                 *)
LEMMA NodeTypeStep ==
  ASSUME NodeTypeOK, todo' \in Seq(Calls), [NodeNext]_nodeVars
  PROVE  NodeTypeOK'
  <1> USE DEF NodeTypeOK
  <1>0. /\ NothingPending \in [Joints -> 0 .. CommandMaxAge]
        /\ 0 \in 0 .. CommandMaxAge /\ {} \subseteq Commands
    BY CommandAssumption DEF NothingPending
  <1>1. CASE UNCHANGED nodeVars
    BY <1>1 DEF nodeVars, switchVars, commandVars, handlerVars
  <1>2. CASE Revoke /\ driven' = {} /\ UNCHANGED <<feedbackReady, ready, rosStarted, batch>>
    BY <1>0, <1>2 DEF Revoke
  <1>3. CASE ControlTimer
    <2>1. /\ feedbackReady' \in BOOLEAN /\ driven' = {}
          /\ UNCHANGED <<ready, rosStarted, batch>>
          /\ \/ UNCHANGED <<stopped, commandVars>>
             \/ Revoke
             \/ pending' = NothingPending /\ UNCHANGED <<stopped, cutoffAge, stampAge>>
      BY <1>3 DEF ControlTimer, ControlTick, FeedbackMissing, FeedbackPresent
    <2> QED
      BY <1>0, <2>1 DEF Revoke, commandVars
  <1>4. CASE Flush
    <2>1. \A command \in batch' : command \in Commands
      BY <1>4, QueueTypes DEF Flush
    <2>2. /\ pending' = NothingPending /\ driven' = {}
          /\ UNCHANGED <<switchVars, cutoffAge, stampAge>>
      BY <1>4 DEF Flush, Calling
    <2> QED
      BY <1>0, <2>1, <2>2 DEF switchVars
  <1>5. CASE \E held \in BOOLEAN : CallStop(held) \/ CallWatchdog(held)
    <2>1. driven' = {} /\ UNCHANGED <<switchVars, commandVars, batch>>
      BY <1>5 DEF CallStop, CallWatchdog, Calling
    <2> QED
      BY <1>0, <2>1 DEF switchVars, commandVars
  <1>6. CASE \E health \in PluginHealths, held \in BOOLEAN :
                CallReady(health, held) \/ CallEnable(health, held)
    <2>1. /\ driven' = {} /\ UNCHANGED <<feedbackReady, rosStarted, commandVars, batch>>
          /\ stopped' \in BOOLEAN /\ ready' \in BOOLEAN
      BY <1>6 DEF CallReady, CallEnable, Calling
    <2> QED
      BY <1>0, <2>1 DEF commandVars
  <1>7. CASE \E command \in batch, answer \in WriteAnswers \ {"invalid"},
                health \in PluginHealths, held \in BOOLEAN :
                WriteGroup(command, answer, health, held)
    <2>1. /\ batch' \subseteq batch /\ driven' \subseteq batch
          /\ UNCHANGED <<switchVars, commandVars>>
      BY <1>7 DEF WriteGroup
    <2> QED
      BY <2>1 DEF switchVars, commandVars
  <1>8. ASSUME NEW members \in (SUBSET Joints) \ {{}}, NEW age \in StampAges,
               CommandCallback(members, age)
        PROVE  NodeTypeOK'
    <2>1. /\ stampAge' \in [Joints -> StampAges]
          /\ pending' \in [Joints -> 0 .. CommandMaxAge]
      BY <1>8, AgeTypes DEF CommandCallback
    <2>2. driven' = {} /\ UNCHANGED <<switchVars, cutoffAge, batch>>
      BY <1>8 DEF CommandCallback, handlerVars
    <2> QED
      BY <1>0, <2>1, <2>2 DEF switchVars
  <1>9. CASE \/ EmergencyStop \/ \E data \in BOOLEAN : OutputEnable(data)
    BY <1>2, <1>9 DEF EmergencyStop, OutputEnable
  <1>10. CASE \/ RosClockStarts
              \/ \E health \in PluginHealths, held \in BOOLEAN : PublishDiagnostics(health, held)
    <2>1. /\ driven' = {} /\ rosStarted' \in BOOLEAN
          /\ UNCHANGED <<feedbackReady, stopped, ready, commandVars, batch>>
      BY <1>10 DEF RosClockStarts, PublishDiagnostics, switchVars, handlerVars
    <2> QED
      BY <1>0, <2>1 DEF commandVars
  <1>11. CASE NodeTick
    <2>1. driven' = {} /\ UNCHANGED switchVars
      BY <1>11 DEF NodeTick
    <2>2. cutoffAge' \in 0 .. CommandMaxAge
      BY <1>11, CommandAssumption DEF NodeTick, Older
    <2>3. stampAge' \in [Joints -> StampAges]
      BY <1>11, AgeTypes DEF NodeTick
    <2>4. pending' \in [Joints -> 0 .. CommandMaxAge]
      BY <1>11, CommandAssumption DEF NodeTick, Shorter
    <2>5. batch' \subseteq Commands
      BY <1>11, ShorterTypes DEF NodeTick
    <2> QED
      BY <1>0, <2>1, <2>2, <2>3, <2>4, <2>5 DEF switchVars
  <1> QED
    BY <1>1, <1>3, <1>4, <1>5, <1>6, <1>7, <1>8, <1>9, <1>10, <1>11
    DEF NodeNext, HandlerStep

(* NodeTypeOK: in particular no queued or written command is ever valid    *)
(* for longer than its maximum age.                                        *)
THEOREM NodeTypeCorrect == NodeSpec => []NodeTypeOK
  <1>1. NodeInit => NodeTypeOK
    <2> SUFFICES ASSUME NodeInit PROVE NodeTypeOK
      OBVIOUS
    <2>1. /\ feedbackReady \in BOOLEAN /\ stopped \in BOOLEAN
          /\ ready \in BOOLEAN /\ rosStarted \in BOOLEAN
          /\ batch \subseteq Commands /\ driven \subseteq Commands
      BY Zenon DEF NodeInit
    <2>2. /\ cutoffAge \in 0 .. CommandMaxAge
          /\ stampAge \in [Joints -> StampAges]
          /\ pending \in [Joints -> 0 .. CommandMaxAge]
      BY CommandAssumption DEF NodeInit, StampAges, NothingPending
    <2>3. todo \in Seq(Calls)
      BY DEF NodeInit
    <2> QED
      BY <2>1, <2>2, <2>3 DEF NodeTypeOK
  <1>2. NodeTypeOK /\ OnlyLive' /\ [NodeNext]_nodeVars => NodeTypeOK'
    BY NodeTypeStep DEF OnlyLive
  <1> QED
    BY <1>1, <1>2, LiveHolds, PTL DEF NodeSpec

-----------------------------------------------------------------------------
(* A target that is still valid after a tick: it is no longer valid than   *)
(* its older stamp allows, and the cutoff grew old with it.                *)
LEMMA AgedIsCurrent ==
  ASSUME NEW left \in 0 .. CommandMaxAge, NEW stamp \in Int, stamp <= CommandMaxAge,
         NEW cutoff \in 0 .. CommandMaxAge,
         Shorter(left) > 0, left <= CommandMaxAge - stamp
  PROVE  /\ Shorter(left) <= CommandMaxAge - Older(stamp)
         /\ stamp < cutoff => Older(stamp) < Older(cutoff)
  BY CommandAssumption DEF Shorter, Older

(* QueuedIsCurrent is inductive over well-typed states: the stamp and the  *)
(* cutoff grow old together, and a command is invalid before its stamp is  *)
(* too old to be compared.                                                 *)
LEMMA QueuedStep ==
  ASSUME NodeTypeOK, QueuedIsCurrent, [NodeNext]_nodeVars
  PROVE  QueuedIsCurrent'
  <1>0. /\ CommandMaxAge \in Nat \ {0} /\ Skew \in Nat /\ cutoffAge \in 0 .. CommandMaxAge
        /\ \A j \in Joints : /\ stampAge[j] \in Int /\ stampAge[j] <= CommandMaxAge
                             /\ pending[j] \in 0 .. CommandMaxAge
    BY CommandAssumption DEF NodeTypeOK, StampAges
  <1>1. CASE UNCHANGED commandVars
    BY <1>1 DEF commandVars, QueuedIsCurrent
  <1>2. CASE pending' = NothingPending
    BY <1>2 DEF QueuedIsCurrent, NothingPending
  <1>3. ASSUME NEW members \in (SUBSET Joints) \ {{}}, NEW age \in StampAges,
               CommandCallback(members, age)
        PROVE  QueuedIsCurrent'
    <2>1. \A j \in Joints : j \in members =>
              stampAge'[j] = age /\ pending'[j] = Validity(age)
      BY <1>3 DEF CommandCallback
    <2>2. \A j \in Joints : j \notin members =>
              stampAge'[j] = stampAge[j] /\ pending'[j] = pending[j]
      BY <1>3 DEF CommandCallback
    <2>3. cutoffAge' = cutoffAge /\ (HcSafety => age < cutoffAge)
      BY <1>3 DEF CommandCallback, AfterCutoff
    <2> QED
      BY <2>1, <2>2, <2>3, AgeTypes DEF QueuedIsCurrent
  <1>4. CASE NodeTick
    <2>1. /\ cutoffAge' = Older(cutoffAge)
          /\ \A j \in Joints : /\ stampAge'[j] = Older(stampAge[j])
                               /\ pending'[j] = Shorter(pending[j])
      BY <1>4 DEF NodeTick
    <2>2. ASSUME NEW j \in Joints, pending'[j] > 0
          PROVE  /\ HcSafety => stampAge'[j] < cutoffAge'
                 /\ pending'[j] <= CommandMaxAge - stampAge'[j]
      <3>1. Shorter(pending[j]) > 0 /\ pending[j] > 0
        BY <1>0, <2>1, <2>2 DEF Shorter
      <3>2. /\ HcSafety => stampAge[j] < cutoffAge
            /\ pending[j] <= CommandMaxAge - stampAge[j]
        BY <3>1 DEF QueuedIsCurrent
      <3> QED
        BY <1>0, <2>1, <3>1, <3>2, AgedIsCurrent
    <2> QED
      BY <2>2 DEF QueuedIsCurrent
  <1>5. CASE ControlTimer
    <2>1. UNCHANGED commandVars \/ pending' = NothingPending
      BY <1>5 DEF ControlTimer, ControlTick, FeedbackMissing, FeedbackPresent, Revoke, commandVars
    <2> QED
      BY <1>1, <1>2, <2>1
  <1>6. CASE Flush \/ EmergencyStop \/ \E data \in BOOLEAN : OutputEnable(data)
    BY <1>2, <1>6 DEF Flush, EmergencyStop, OutputEnable, Revoke
  <1>7. CASE \/ UNCHANGED nodeVars
             \/ RosClockStarts
             \/ \E held \in BOOLEAN : CallStop(held) \/ CallWatchdog(held)
             \/ \E health \in PluginHealths, held \in BOOLEAN :
                   \/ CallReady(health, held) \/ CallEnable(health, held)
                   \/ PublishDiagnostics(health, held)
    BY <1>1, <1>7 DEF nodeVars, RosClockStarts, CallStop, CallWatchdog, CallReady, CallEnable,
                      PublishDiagnostics
  <1>8. CASE \E command \in batch, answer \in WriteAnswers \ {"invalid"},
                health \in PluginHealths, held \in BOOLEAN :
                WriteGroup(command, answer, health, held)
    BY <1>1, <1>8 DEF WriteGroup
  <1> QED
    BY <1>3, <1>4, <1>5, <1>6, <1>7, <1>8 DEF NodeNext, HandlerStep

(* QueuedIsCurrent: what is queued is newer than the last revocation and   *)
(* no longer valid than its stamp allows.                                  *)
THEOREM QueuedHolds == NodeSpec => []QueuedIsCurrent
  <1>1. NodeInit => QueuedIsCurrent
    BY DEF NodeInit, QueuedIsCurrent, NothingPending
  <1> QED
    BY <1>1, QueuedStep, NodeTypeCorrect, PTL DEF NodeSpec

(* The same of what flushCommands() still has to write: revocations and    *)
(* commands wait until it has, and time shortens what it has left.         *)
BatchIsCurrent ==
    \A command \in batch : \A j \in DOMAIN command : command[j] > 0 =>
        /\ HcSafety => stampAge[j] < cutoffAge
        /\ command[j] <= CommandMaxAge - stampAge[j]

(* What a step does to the stamps, the batch and what was driven.          *)
LEMMA BatchSteps ==
  ASSUME [NodeNext]_nodeVars
  PROVE  \/ UNCHANGED <<cutoffAge, stampAge, batch>> /\ (driven' = {} \/ UNCHANGED driven)
         \/ batch' = {} /\ driven' = {}
         \/ Flush
         \/ \E command \in batch, answer \in WriteAnswers, health \in PluginHealths,
               held \in BOOLEAN : WriteGroup(command, answer, health, held)
         \/ NodeTick
  <1>1. CASE ControlTimer \/ EmergencyStop \/ \E data \in BOOLEAN : OutputEnable(data)
    BY <1>1 DEF ControlTimer, ControlTick, EmergencyStop, OutputEnable, Idle
  <1>2. CASE \E members \in (SUBSET Joints) \ {{}}, age \in StampAges :
                CommandCallback(members, age)
    BY <1>2 DEF CommandCallback, Idle, handlerVars
  <1>3. CASE \/ UNCHANGED nodeVars
             \/ RosClockStarts
             \/ \E held \in BOOLEAN : CallStop(held) \/ CallWatchdog(held)
             \/ \E health \in PluginHealths, held \in BOOLEAN :
                   \/ CallReady(health, held) \/ CallEnable(health, held)
                   \/ PublishDiagnostics(health, held)
    BY <1>3 DEF nodeVars, RosClockStarts, CallStop, CallWatchdog, CallReady, CallEnable,
                PublishDiagnostics, Calling, commandVars, handlerVars
  <1> QED
    BY <1>1, <1>2, <1>3 DEF NodeNext, HandlerStep

(* BatchIsCurrent follows from QueuedIsCurrent at the flush, and DrivenIs- *)
(* Recent from BatchIsCurrent at the write.                                *)
LEMMA BatchStep ==
  ASSUME NodeTypeOK, QueuedIsCurrent, BatchIsCurrent, DrivenIsRecent, [NodeNext]_nodeVars
  PROVE  BatchIsCurrent' /\ DrivenIsRecent'
  <1>0. /\ CommandMaxAge \in Nat \ {0} /\ cutoffAge \in 0 .. CommandMaxAge
        /\ \A j \in Joints : stampAge[j] \in Int /\ stampAge[j] <= CommandMaxAge
        /\ \A command \in batch :
              /\ DOMAIN command \subseteq Joints
              /\ \A j \in DOMAIN command : command[j] \in 0 .. CommandMaxAge
    BY CommandAssumption DEF NodeTypeOK, StampAges, Commands
  <1>1. CASE UNCHANGED <<cutoffAge, stampAge, batch>> /\ (driven' = {} \/ UNCHANGED driven)
    BY <1>1 DEF BatchIsCurrent, DrivenIsRecent
  <1>2. CASE batch' = {} /\ driven' = {}
    BY <1>2 DEF BatchIsCurrent, DrivenIsRecent
  <1>3. CASE Flush
    <2>1. driven' = {} /\ UNCHANGED <<cutoffAge, stampAge>>
      BY <1>3 DEF Flush, Calling
    <2>2. ASSUME NEW command \in batch', NEW j \in DOMAIN command, command[j] > 0
          PROVE  /\ HcSafety => stampAge[j] < cutoffAge
                 /\ command[j] <= CommandMaxAge - stampAge[j]
      <3>1. PICK g : command = [i \in Valid(g) |-> pending[i]]
        BY <1>3 DEF Flush
      <3>2. j \in Joints /\ command[j] = pending[j]
        BY <3>1 DEF Valid
      <3> QED
        BY <2>2, <3>2 DEF QueuedIsCurrent
    <2> QED
      BY <2>1, <2>2 DEF BatchIsCurrent, DrivenIsRecent
  <1>4. ASSUME NEW command \in batch, NEW answer \in WriteAnswers, NEW health, NEW held,
               WriteGroup(command, answer, health, held)
        PROVE  BatchIsCurrent' /\ DrivenIsRecent'
    <2>1. batch' \subseteq batch /\ UNCHANGED <<cutoffAge, stampAge>>
      BY <1>4 DEF WriteGroup, commandVars
    <2>2. driven' # {} => driven' = {command} /\ ~Expired(command)
      <3> HAVE driven' # {}
      <3> QED
        BY <1>4 DEF WriteGroup
    <2>3. ASSUME ~Expired(command), NEW j \in DOMAIN command
          PROVE  stampAge[j] < CommandMaxAge /\ (HcSafety => stampAge[j] < cutoffAge)
      <3>1. command[j] > 0 /\ j \in Joints /\ command[j] \in Nat
        BY <1>0, <2>3 DEF Expired
      <3> QED
        BY <1>0, <3>1 DEF BatchIsCurrent
    <2> QED
      BY <2>1, <2>2, <2>3 DEF BatchIsCurrent, DrivenIsRecent
  <1>5. CASE NodeTick
    <2>1. /\ driven' = {} /\ cutoffAge' = Older(cutoffAge)
          /\ \A j \in Joints : stampAge'[j] = Older(stampAge[j])
      BY <1>5 DEF NodeTick
    <2>2. ASSUME NEW command \in batch',
                 NEW j \in DOMAIN command, command[j] > 0
          PROVE  /\ HcSafety => stampAge'[j] < cutoffAge'
                 /\ command[j] <= CommandMaxAge - stampAge'[j]
      <3>1. PICK old \in batch : command = [i \in DOMAIN old |-> Shorter(old[i])]
        BY <1>5 DEF NodeTick
      <3>2. /\ j \in Joints /\ j \in DOMAIN old /\ old[j] \in 0 .. CommandMaxAge
            /\ command[j] = Shorter(old[j])
        BY <1>0, <3>1
      <3>3. Shorter(old[j]) > 0 /\ old[j] > 0
        BY <2>2, <3>2 DEF Shorter
      <3>4. /\ HcSafety => stampAge[j] < cutoffAge
            /\ old[j] <= CommandMaxAge - stampAge[j]
        BY <3>2, <3>3 DEF BatchIsCurrent
      <3> QED
        BY <1>0, <2>1, <3>2, <3>3, <3>4, AgedIsCurrent
    <2> QED
      BY <2>1, <2>2 DEF BatchIsCurrent, DrivenIsRecent
  <1> QED
    BY <1>1, <1>2, <1>3, <1>4, <1>5, BatchSteps

(* DrivenIsRecent: whatever the joints, the groups and the time the writes *)
(* take, what the plugin accepts is newer than the last revocation and     *)
(* than the maximum age, in every joint.                                   *)
THEOREM DrivenIsRecentHolds == NodeSpec => []DrivenIsRecent
  <1>1. NodeInit => BatchIsCurrent /\ DrivenIsRecent
    BY DEF NodeInit, BatchIsCurrent, DrivenIsRecent
  <1>2. NodeTypeOK /\ QueuedIsCurrent /\ BatchIsCurrent /\ DrivenIsRecent /\ [NodeNext]_nodeVars
          => BatchIsCurrent' /\ DrivenIsRecent'
    BY BatchStep
  <1> QED
    BY <1>1, <1>2, QueuedHolds, NodeTypeCorrect, PTL DEF NodeSpec

-----------------------------------------------------------------------------
(* Strengthening of ReadyIsHonest: a ready that is no longer true will be  *)
(* retracted by the handler that made it untrue.                           *)
Retracted ==
    HcSafety /\ ready /\ (stopped \/ ~feedbackReady) => Among("ready", todo)

(* Every handler that can make a ready untrue publishes it again.          *)
LEMMA ReadyCalls ==
  ASSUME HcSafety, NEW last \in {<<>>, <<"flush">>}, NEW enable \in {<<>>, <<"enable">>}
  PROVE  /\ Among("ready", PublishReady \o <<"watchdog">>)
         /\ Among("ready", RevokeCalls) /\ Among("ready", RevokeCalls \o enable)
         /\ Among("ready", RevokeCalls \o PublishReady \o <<"watchdog">>)
         /\ Among("ready", <<"watchdog">> \o PublishReady \o last)
  <1>1. /\ "ready" \in Calls /\ "watchdog" \in Calls /\ "flush" \in Calls
        /\ "enable" \in Calls /\ "stop" \in Calls
    BY DEF Calls
  <1>2. PublishReady \in Seq(Calls) /\ Among("ready", PublishReady)
    BY <1>1, OneCall DEF PublishReady
  <1>3. <<"watchdog">> \in Seq(Calls) /\ <<"stop">> \in Seq(Calls)
    BY <1>1, OneCall
  <1>4. last \in Seq(Calls) /\ enable \in Seq(Calls)
    BY <1>1, OneCall
  <1>5. RevokeCalls \in Seq(Calls) /\ Among("ready", RevokeCalls)
    BY <1>2, <1>3, ConcatAmong DEF RevokeCalls
  <1>6. RevokeCalls \o PublishReady \in Seq(Calls) /\ Among("ready", RevokeCalls \o PublishReady)
    BY <1>2, <1>5, ConcatAmong
  <1>7. /\ <<"watchdog">> \o PublishReady \in Seq(Calls)
        /\ Among("ready", <<"watchdog">> \o PublishReady)
    BY <1>2, <1>3, ConcatAmong
  <1>8. Among("ready", PublishReady \o <<"watchdog">>)
    BY <1>2, <1>3, ConcatAmong
  <1>9. Among("ready", RevokeCalls \o enable)
    BY <1>4, <1>5, ConcatAmong
  <1>10. Among("ready", (RevokeCalls \o PublishReady) \o <<"watchdog">>)
    BY <1>3, <1>6, ConcatAmong
  <1>11. Among("ready", (<<"watchdog">> \o PublishReady) \o last)
    BY <1>4, <1>7, ConcatAmong
  <1> QED
    BY <1>5, <1>8, <1>9, <1>10, <1>11

(* Every step of the node keeps Retracted.                                 *)
LEMMA RetractedStep ==
  ASSUME todo \in Seq(Calls), Retracted, [NodeNext]_nodeVars
  PROVE  Retracted'
  <1>1. CASE UNCHANGED <<ready, stopped, feedbackReady, todo>>
    BY <1>1 DEF Retracted, Among
  <1>2. CASE ControlTimer
    <2>1. PICK last \in {<<>>, <<"flush">>} :
             \/ todo' = PublishReady \o <<"watchdog">>
             \/ todo' = RevokeCalls \o PublishReady \o <<"watchdog">>
             \/ todo' = <<"watchdog">> \o PublishReady \o last
      BY <1>2 DEF ControlTimer, ControlTick, FeedbackMissing, FeedbackPresent
    <2>2. HcSafety => Among("ready", todo')
      BY <2>1, ReadyCalls
    <2> QED
      BY <2>2 DEF Retracted
  <1>3. CASE EmergencyStop \/ \E data \in BOOLEAN : OutputEnable(data)
    <2>1. PICK enable \in {<<>>, <<"enable">>} :
             HcSafety /\ (todo' = RevokeCalls \/ todo' = RevokeCalls \o enable)
      BY <1>3 DEF EmergencyStop, OutputEnable
    <2>2. Among("ready", todo')
      BY <2>1, ReadyCalls
    <2> QED
      BY <2>2 DEF Retracted
  <1>4. ASSUME NEW call, call # "ready", Calling(call), ready' = ready, stopped' => stopped,
               feedbackReady' = feedbackReady
        PROVE  Retracted'
    <2>1. Among("ready", todo) => Among("ready", todo')
      BY <1>4, CallingAmong
    <2> QED
      BY <1>4, <2>1 DEF Retracted
  <1>5. CASE \E held \in BOOLEAN : CallStop(held) \/ CallWatchdog(held)
    <2>1. /\ Calling("stop") \/ Calling("watchdog")
          /\ UNCHANGED <<ready, stopped, feedbackReady>>
      BY <1>5 DEF CallStop, CallWatchdog, switchVars
    <2> QED
      BY <1>4, <2>1
  <1>6. CASE \E health \in PluginHealths, held \in BOOLEAN : CallReady(health, held)
    <2>1. /\ ready' => feedbackReady /\ ~stopped
          /\ feedbackReady' = feedbackReady /\ stopped' = stopped
      BY <1>6, Zenon DEF CallReady
    <2> QED
      BY <2>1 DEF Retracted
  <1>7. CASE \E health \in PluginHealths, held \in BOOLEAN : CallEnable(health, held)
    <2>1. /\ Calling("enable") /\ (stopped' => stopped)
          /\ UNCHANGED <<ready, feedbackReady>>
      BY <1>7 DEF CallEnable
    <2> QED
      BY <1>4, <2>1
  <1>8. CASE Flush
    <2>1. Calling("flush") /\ UNCHANGED <<ready, stopped, feedbackReady>>
      BY <1>8 DEF Flush, switchVars
    <2> QED
      BY <1>4, <2>1
  <1>9. CASE \E command \in batch, answer \in WriteAnswers \ {"invalid"},
                health \in PluginHealths, held \in BOOLEAN :
                WriteGroup(command, answer, health, held)
    BY <1>1, <1>9 DEF WriteGroup, switchVars
  <1>10. CASE \/ UNCHANGED nodeVars \/ NodeTick \/ RosClockStarts
              \/ \E members \in (SUBSET Joints) \ {{}}, age \in StampAges :
                    CommandCallback(members, age)
              \/ \E health \in PluginHealths, held \in BOOLEAN : PublishDiagnostics(health, held)
    BY <1>1, <1>10 DEF nodeVars, NodeTick, RosClockStarts, CommandCallback, PublishDiagnostics,
                       switchVars, handlerVars
  <1> QED
    BY <1>2, <1>3, <1>5, <1>6, <1>7, <1>8, <1>9, <1>10 DEF NodeNext, HandlerStep

(* ReadyIsHonest: between handlers no stopped or blind node claims to be   *)
(* ready.                                                                  *)
THEOREM ReadyHolds == NodeSpec => []ReadyIsHonest
  <1>1. NodeInit => Retracted
    BY DEF NodeInit, Retracted
  <1>2. OnlyLive /\ Retracted /\ [NodeNext]_nodeVars => Retracted'
    BY RetractedStep DEF OnlyLive
  <1>3. Retracted => ReadyIsHonest
    BY DEF Retracted, ReadyIsHonest, Idle, Among
  <1> QED
    BY <1>1, <1>2, <1>3, LiveHolds, PTL DEF NodeSpec
-----------------------------------------------------------------------------
(* A node that a fault has stopped, and that has said so.                  *)
Locked == HcSafety /\ active /\ driverFaultLatched /\ stopped /\ ~ready

(* Calls neither make nor destroy a runtime.                               *)
LEMMA CallsKeepActive ==
  ASSUME \/ \E answer, age, health, held, heldAgain :
               Read(answer, age, health, held, heldAgain)
         \/ \E answer, health, held : Write(answer, health, held)
         \/ \E health, held : Status(health, held)
         \/ \E held : EnforceWatchdog(held)
         \/ \E driver_fault, held : Stop(driver_fault, held)
         \/ Tick \/ UNCHANGED runtimeVars
  PROVE  active' = active
  <1>1. ASSUME NEW reason, NEW told, NEW held, LatchFault(reason, told, held)
        PROVE  active' = active
    BY <1>1 DEF LatchFault
  <1>2. ASSUME NEW told, NEW held, WaitForFeedback(told, held)
        PROVE  active' = active
    BY <1>2 DEF WaitForFeedback
  <1>3. CASE UNCHANGED runtimeVars \/ Tick
    BY <1>3 DEF runtimeVars, flags, Tick
  <1>4. ASSUME NEW answer, NEW age, NEW health, NEW held, NEW heldAgain,
               Read(answer, age, health, held, heldAgain)
        PROVE  active' = active
    BY <1>1, <1>2, <1>3, <1>4
    DEF Read, ReadQuietly, ReadFails, ReadLosesFeedback, ReadStillWaits, ReadCannotRecover,
        ReadRecovers
  <1>5. ASSUME NEW answer, NEW health, NEW held, Write(answer, health, held)
        PROVE  active' = active
    BY <1>1, <1>2, <1>5
    DEF Write, WriteRefused, WriteFails, WriteLosesFeedback, WriteAccepted, flags
  <1>6. ASSUME NEW health, NEW held, Status(health, held)
        PROVE  active' = active
    BY <1>1, <1>2, <1>3, <1>6 DEF Status
  <1>7. ASSUME NEW held, EnforceWatchdog(held)
        PROVE  active' = active
    BY <1>7 DEF EnforceWatchdog
  <1>8. ASSUME NEW driver_fault, NEW held, Stop(driver_fault, held)
        PROVE  active' = active
    BY <1>1, <1>3, <1>8 DEF Stop, flags
  <1> QED
    BY <1>3, <1>4, <1>5, <1>6, <1>7, <1>8

(* A node has one runtime as long as it lives.                             *)
LEMMA NodeKeepsRuntime ==
  ASSUME [NodeNext]_nodeVars
  PROVE  active' = active
  <1>1. CASE UNCHANGED nodeVars \/ RosClockStarts \/ EmergencyStop
             \/ \E data \in BOOLEAN : OutputEnable(data)
    BY <1>1, CallsKeepActive DEF nodeVars, RosClockStarts, EmergencyStop, OutputEnable
  <1>2. CASE \E members \in (SUBSET Joints) \ {{}}, age \in StampAges :
                CommandCallback(members, age)
    BY <1>2, CallsKeepActive DEF CommandCallback
  <1>3. CASE ControlTimer
    BY <1>3, CallsKeepActive DEF ControlTimer, ControlTick
  <1>4. CASE NodeTick
    BY <1>4, CallsKeepActive DEF NodeTick
  <1>5. CASE \E health \in PluginHealths, held \in BOOLEAN : PublishDiagnostics(health, held)
    BY <1>5, CallsKeepActive DEF PublishDiagnostics
  <1>6. CASE HandlerStep
    <2>1. CASE Flush
      BY <2>1, CallsKeepActive DEF Flush
    <2>2. CASE \E held \in BOOLEAN : CallStop(held) \/ CallWatchdog(held)
      BY <2>2, CallsKeepActive DEF CallStop, CallWatchdog
    <2>3. CASE \E health \in PluginHealths, held \in BOOLEAN :
                  CallReady(health, held) \/ CallEnable(health, held)
      BY <2>3, CallsKeepActive DEF CallReady, CallEnable
    <2>4. CASE \E command \in batch, answer \in WriteAnswers \ {"invalid"},
                  health \in PluginHealths, held \in BOOLEAN :
                  WriteGroup(command, answer, health, held)
      <3>1. \E answer, health, held : Write(answer, health, held)
        BY <2>4 DEF WriteGroup
      <3> QED
        BY <3>1, CallsKeepActive
    <2> QED
      BY <1>6, <2>1, <2>2, <2>3, <2>4 DEF HandlerStep
  <1> QED
    BY <1>1, <1>2, <1>3, <1>4, <1>5, <1>6 DEF NodeNext

(* No step of the node unlocks it.                                         *)
LEMMA LockedStep ==
  ASSUME Locked, [NodeNext]_nodeVars
  PROVE  Locked'
  <1> USE DEF Locked
  <1>1. active' /\ driverFaultLatched'
    <2>1. [Next]_runtimeVars
      BY NodeStepUsesRuntime
    <2>2. active'
      BY NodeKeepsRuntime
    <2> QED
      BY <2>1, <2>2, FrozenStep DEF flags
  <1>2. ASSUME stopped' = stopped, ready' = ready
        PROVE  Locked'
    BY <1>1, <1>2
  <1>3. ASSUME NEW health, NEW held, CallReady(health, held)
        PROVE  Locked'
    <2>1. stopped' = stopped /\ (ready' => ~stopped)
      BY <1>3, Zenon DEF CallReady
    <2> QED
      BY <1>1, <2>1
  <1>4. ASSUME NEW health, NEW held, CallEnable(health, held)
        PROVE  Locked'
    <2>1. (stopped /\ driverFaultLatched' => stopped') /\ ready' = ready
      BY <1>4, Zenon DEF CallEnable
    <2> QED
      BY <1>1, <2>1
  <1>5. CASE ControlTimer
    <2>1. ready' = ready /\ (stopped => stopped')
      BY <1>5, Zenon DEF ControlTimer, ControlTick, FeedbackMissing, FeedbackPresent, Revoke
    <2> QED
      BY <1>1, <2>1
  <1>6. CASE EmergencyStop \/ \E data \in BOOLEAN : OutputEnable(data)
    BY <1>1, <1>6 DEF EmergencyStop, OutputEnable, Revoke
  <1>7. CASE HandlerStep
    <2>1. CASE Flush \/ \E held \in BOOLEAN : CallStop(held) \/ CallWatchdog(held)
      BY <1>2, <2>1 DEF Flush, CallStop, CallWatchdog, switchVars
    <2>2. CASE \E command \in batch, answer \in WriteAnswers \ {"invalid"},
                  health \in PluginHealths, held \in BOOLEAN :
                  WriteGroup(command, answer, health, held)
      BY <1>2, <2>2 DEF WriteGroup, switchVars
    <2> QED
      BY <1>3, <1>4, <1>7, <2>1, <2>2 DEF HandlerStep
  <1>8. CASE \/ UNCHANGED nodeVars \/ NodeTick \/ RosClockStarts
             \/ \E members \in (SUBSET Joints) \ {{}}, age \in StampAges :
                   CommandCallback(members, age)
             \/ \E health \in PluginHealths, held \in BOOLEAN : PublishDiagnostics(health, held)
    BY <1>2, <1>8 DEF nodeVars, NodeTick, RosClockStarts, CommandCallback, PublishDiagnostics,
                      switchVars
  <1> QED
    BY <1>5, <1>6, <1>7, <1>8 DEF NodeNext

(* The end that FaultLocks speaks of is one for good: once a fault has     *)
(* stopped the node, and the ready topic was corrected, no order of enable *)
(* messages, feedback and commands makes it go, claim to be ready or move, *)
(* and nothing waits in its queue any more when its stop was made.         *)
THEOREM LockedForGood ==
  NodeSpec => [](Locked => [](stopped /\ ~ready /\ output # "motion"))
  <1>1. Locked /\ [NodeNext]_nodeVars => Locked'
    BY LockedStep
  <1>2. Locked /\ HaltedIsNotMoving => stopped /\ ~ready /\ output # "motion"
    BY DEF Locked, HaltedIsNotMoving
  <1> QED
    BY <1>1, <1>2, HaltedInNode, PTL DEF NodeSpec
=============================================================================
