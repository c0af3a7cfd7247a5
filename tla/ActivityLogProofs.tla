-------------------------- MODULE ActivityLogProofs --------------------------
(***************************************************************************)
(* Proofs about ActivityLog, for every threshold, timeout, log period and  *)
(* length of a path.                                                       *)
(***************************************************************************)
EXTENDS ActivityLog, SequenceTheorems, TLAPS

Words == States \union {"unknown"}

Entry == [state : States, logged : Words, changes : Nat, path : Seq(States), age : 0 .. LogPeriod]

(* The entry of a topic that was never observed.                           *)
Fresh == [state |-> "", logged |-> "unknown", changes |-> 0, path |-> <<>>, age |-> LogPeriod]

(* The inductive invariants.  A topic without a state is about to get one. *)
EntriesInv ==
    /\ log \in [Topics -> Entry]
    /\ \A t \in Topics : Len(log[t].path) <= MaxPath
    /\ haveSample \in BOOLEAN /\ moving \in BOOLEAN
    /\ anchor \in Positions \union {0}
    /\ changeAge \in 0 .. Quiet /\ commandAge \in 0 .. LongAgo /\ pollAge \in 0 .. MaxPollGap
    /\ resting \subseteq Positions
    /\ haveSample => log["measured"].state # ""
    /\ commandAge <= CommandTimeout => log["commands"].state # ""

(* What a group called stationary was sampled at lies around the anchor.   *)
RestingInv ==
    /\ ~haveSample => resting = {}
    /\ \A p \in resting : Distance(p, anchor) < Threshold

-----------------------------------------------------------------------------
(* An observed state keeps the entry's type and the bound of its path.     *)
LEMMA ObservedType ==
  ASSUME NEW entry \in Entry, Len(entry.path) <= MaxPath, NEW state \in States
  PROVE  /\ observed(entry, state) \in Entry
         /\ Len(observed(entry, state).path) <= MaxPath
         /\ observed(entry, state).state = state
         /\ observed(entry, state).age = entry.age
  <1>1. CASE state = entry.state
    BY <1>1 DEF observed, Entry
  <1>2. CASE state # entry.state
    <2> DEFINE path == IF Len(entry.path) < MaxPath THEN Append(entry.path, state)
                       ELSE [entry.path EXCEPT ![MaxPath] = state]
    <2>1. MaxPath \in Nat \ {0} /\ entry.path \in Seq(States) /\ Len(entry.path) \in Nat
      BY ActivityAssumption DEF Entry
    <2>2. Len(entry.path) < MaxPath => path \in Seq(States) /\ Len(path) <= MaxPath
      <3>1. /\ Append(entry.path, state) \in Seq(States)
            /\ Len(Append(entry.path, state)) = Len(entry.path) + 1
        BY <2>1, AppendProperties
      <3> QED
        BY <2>1, <3>1
    <2>3. ~(Len(entry.path) < MaxPath) => path \in Seq(States) /\ Len(path) <= MaxPath
      <3>1. SUFFICES ASSUME ~(Len(entry.path) < MaxPath)
                     PROVE  path \in Seq(States) /\ Len(path) <= MaxPath
        OBVIOUS
      <3>2. MaxPath \in 1 .. Len(entry.path)
        BY <2>1, <3>1
      <3>3. /\ [entry.path EXCEPT ![MaxPath] = state] \in Seq(States)
            /\ Len([entry.path EXCEPT ![MaxPath] = state]) = Len(entry.path)
        BY <2>1, <3>2, ExceptSeq
      <3> QED
        BY <3>1, <3>3
    <2>4. path \in Seq(States) /\ Len(path) <= MaxPath
      BY <2>2, <2>3
    <2>5. observed(entry, state) = Changed(entry, state, path)
      BY <1>2 DEF observed
    <2> HIDE DEF path
    <2> QED
      BY <2>4, <2>5 DEF Entry, Changed
  <1> QED
    BY <1>1, <1>2

(* A report keeps the type, the bound and the state.                       *)
LEMMA PolledType ==
  ASSUME NEW entry \in Entry, Len(entry.path) <= MaxPath
  PROVE  /\ polled(entry) \in Entry
         /\ Len(polled(entry).path) <= MaxPath
         /\ polled(entry).state = entry.state
  <1>1. MaxPath \in Nat /\ LogPeriod \in Nat /\ <<>> \in Seq(States) /\ Len(<<>>) = 0
    BY ActivityAssumption
  <1> QED
    BY <1>1 DEF polled, Cleared, Entry, Words

(* The four numbers and their limits.                                      *)
LEMMA Limits ==
  /\ Threshold \in Nat \ {0} /\ Quiet \in Nat \ {0} /\ LogPeriod \in Nat \ {0}
  /\ CommandTimeout \in Nat /\ MaxPollGap \in Nat /\ Positions \subseteq Int
  /\ LongAgo \in Nat /\ LongAgo = CommandTimeout + MaxPollGap + 1
  BY ActivityAssumption DEF LongAgo

(* A handler that observes a state of one topic.                           *)
LEMMA ObserveKeepsEntries ==
  ASSUME EntriesInv, NEW topic \in Topics, NEW state \in States \ {""}, Observe(topic, state)
  PROVE  /\ log' \in [Topics -> Entry]
         /\ \A t \in Topics : Len(log'[t].path) <= MaxPath
         /\ log'[topic].state = state
         /\ \A t \in Topics \ {topic} : log'[t] = log[t]
  <1>1. log' = [log EXCEPT ![topic] = observed(log[topic], state)]
    BY DEF Observe
  <1>2. /\ observed(log[topic], state) \in Entry
        /\ Len(observed(log[topic], state).path) <= MaxPath
        /\ observed(log[topic], state).state = state
    BY ObservedType DEF EntriesInv
  <1> QED
    BY <1>1, <1>2 DEF EntriesInv

(* The passing of time in an entry.                                        *)
LEMMA AgedType ==
  ASSUME NEW entry \in Entry, NEW age \in 0 .. LogPeriod
  PROVE  /\ [entry EXCEPT !.age = age] \in Entry
         /\ [entry EXCEPT !.age = age].path = entry.path
         /\ [entry EXCEPT !.age = age].state = entry.state
  BY DEF Entry

(* The state that poll() observes is never the empty one.                  *)
LEMMA SeenState ==
  ASSUME EntriesInv, NEW topic \in Topics
  PROVE  Seen(topic) \in States \ {""}
  <1>1. log[topic].state \in States
    BY DEF EntriesInv, Entry
  <1>2. CASE Silent(topic)
    BY <1>2 DEF Seen, Silence, States
  <1>3. CASE ~Silent(topic) /\ topic = "commands"
    <2>1. commandAge <= CommandTimeout
      <3>1. ~(commandAge > CommandTimeout)
        BY <1>3 DEF Silent
      <3>2. commandAge \in 0 .. LongAgo
        BY DEF EntriesInv
      <3> QED
        BY <3>1, <3>2, Limits
    <2> QED
      BY <1>1, <1>3, <2>1 DEF Seen, EntriesInv
  <1>4. CASE ~Silent(topic) /\ topic = "measured"
    BY <1>1, <1>4 DEF Seen, Silent, EntriesInv
  <1> QED
    BY <1>2, <1>3, <1>4 DEF Topics

(* Every step keeps the types and the bound.                               *)
LEMMA EntriesStep ==
  ASSUME EntriesInv, [ActivityNext]_activityVars
  PROVE  EntriesInv'
  <1>a. log \in [Topics -> Entry] /\ (\A t \in Topics : Len(log[t].path) <= MaxPath)
    BY DEF EntriesInv
  <1>b. /\ haveSample \in BOOLEAN /\ moving \in BOOLEAN
        /\ anchor \in Positions \union {0} /\ resting \subseteq Positions
    BY DEF EntriesInv
  <1>c. changeAge \in 0 .. Quiet /\ commandAge \in 0 .. LongAgo /\ pollAge \in 0 .. MaxPollGap
    BY DEF EntriesInv
  <1>d. /\ haveSample => log["measured"].state # ""
        /\ commandAge <= CommandTimeout => log["commands"].state # ""
    BY DEF EntriesInv
  <1>e. 0 \in 0 .. Quiet /\ 0 \in 0 .. LongAgo /\ 0 \in 0 .. MaxPollGap
    BY Limits
  <1>f. "measured" \in Topics /\ "commands" \in Topics /\ "measured" # "commands"
    BY DEF Topics
  <1>1. CASE UNCHANGED activityVars
    BY <1>1 DEF activityVars, sampleVars, EntriesInv
  <1>2. CASE unavailable
    <2>1. /\ log' \in [Topics -> Entry]
          /\ \A t \in Topics : Len(log'[t].path) <= MaxPath
          /\ \A t \in Topics \ {"measured"} : log'[t] = log[t]
      BY <1>2, <1>f, ObserveKeepsEntries DEF unavailable, States
    <2>2. /\ haveSample' = FALSE /\ moving' = FALSE /\ resting' = {}
          /\ UNCHANGED <<anchor, changeAge, commandAge, pollAge>>
      BY <1>2 DEF unavailable
    <2> QED
      BY <1>b, <1>c, <1>d, <1>f, <2>1, <2>2 DEF EntriesInv
  <1>3. CASE \E position \in Positions : sample(position)
    <2> PICK position \in Positions : sample(position)
      BY <1>3
    <2> DEFINE state == IF moving' THEN "moving" ELSE "stationary"
    <2>1. /\ log' \in [Topics -> Entry]
          /\ \A t \in Topics : Len(log'[t].path) <= MaxPath
          /\ log'["measured"].state = state
          /\ \A t \in Topics \ {"measured"} : log'[t] = log[t]
      BY <1>f, ObserveKeepsEntries DEF sample, States
    <2>2. haveSample' = TRUE /\ moving' \in BOOLEAN
      BY DEF sample
    <2>3. anchor' \in Positions \union {0}
      BY <1>b DEF sample, Anchored
    <2>4. changeAge' \in 0 .. Quiet /\ commandAge' = commandAge /\ pollAge' = pollAge
      BY <1>c, <1>e DEF sample
    <2>5. resting' \subseteq Positions
      BY <1>b DEF sample
    <2>6. log'["measured"].state # "" /\ log'["commands"] = log["commands"]
      BY <1>f, <2>1
    <2> QED
      BY <1>c, <1>d, <2>1, <2>2, <2>3, <2>4, <2>5, <2>6 DEF EntriesInv
  <1>4. CASE acceptedCommand
    <2>1. /\ log' \in [Topics -> Entry]
          /\ \A t \in Topics : Len(log'[t].path) <= MaxPath
          /\ log'["commands"].state = "receiving"
          /\ \A t \in Topics \ {"commands"} : log'[t] = log[t]
      BY <1>4, <1>f, ObserveKeepsEntries DEF acceptedCommand, States
    <2>2. UNCHANGED <<anchor, haveSample, moving, changeAge, resting, pollAge>> /\ commandAge' = 0
      BY <1>4 DEF acceptedCommand, sampleVars
    <2>3. log'["measured"] = log["measured"] /\ log'["commands"].state # ""
      BY <1>f, <2>1
    <2> QED
      BY <1>b, <1>c, <1>d, <1>e, <2>1, <2>2, <2>3 DEF EntriesInv
  <1>5. CASE poll
    <2>1. \A t \in Topics : Seen(t) \in States \ {""}
      BY SeenState
    <2>2. \A t \in Topics :
              /\ observed(log[t], Seen(t)) \in Entry
              /\ Len(observed(log[t], Seen(t)).path) <= MaxPath
              /\ observed(log[t], Seen(t)).state = Seen(t)
      BY <1>a, <2>1, ObservedType
    <2>3. \A t \in Topics :
              /\ polled(observed(log[t], Seen(t))) \in Entry
              /\ Len(polled(observed(log[t], Seen(t))).path) <= MaxPath
              /\ polled(observed(log[t], Seen(t))).state = Seen(t)
      BY <2>2, PolledType
    <2>4. log' = [t \in Topics |-> polled(observed(log[t], Seen(t)))]
      BY <1>5 DEF poll
    <2>5. /\ log' \in [Topics -> Entry]
          /\ \A t \in Topics : Len(log'[t].path) <= MaxPath /\ log'[t].state # ""
      BY <2>1, <2>3, <2>4
    <2>6. UNCHANGED <<anchor, haveSample, moving, changeAge, resting, commandAge>> /\ pollAge' = 0
      BY <1>5 DEF poll, sampleVars
    <2>7. log'["measured"].state # "" /\ log'["commands"].state # ""
      BY <1>f, <2>5
    <2> QED
      BY <1>b, <1>c, <1>e, <2>5, <2>6, <2>7 DEF EntriesInv
  <1>6. CASE ActivityTick
    <2>1. \A t \in Topics : Elapsed(log[t].age, LogPeriod) \in 0 .. LogPeriod
      <3> TAKE t \in Topics
      <3>1. log[t].age \in 0 .. LogPeriod
        BY <1>a DEF Entry
      <3> QED
        BY <3>1, Limits DEF Elapsed
    <2>2. \A t \in Topics : log'[t] = [log[t] EXCEPT !.age = Elapsed(log[t].age, LogPeriod)]
      BY <1>6 DEF ActivityTick
    <2>3. \A t \in Topics :
              log'[t] \in Entry /\ log'[t].path = log[t].path /\ log'[t].state = log[t].state
      <3> TAKE t \in Topics
      <3> DEFINE age == Elapsed(log[t].age, LogPeriod)
      <3>1. log[t] \in Entry /\ age \in 0 .. LogPeriod
        BY <1>a, <2>1
      <3>2. log'[t] = [log[t] EXCEPT !.age = age]
        BY <2>2
      <3> HIDE DEF age
      <3>3. /\ [log[t] EXCEPT !.age = age] \in Entry
            /\ [log[t] EXCEPT !.age = age].path = log[t].path
            /\ [log[t] EXCEPT !.age = age].state = log[t].state
        BY <3>1, AgedType
      <3> QED
        BY <3>2, <3>3
    <2>4. log' \in [Topics -> Entry]
      <3>1. log' = [t \in Topics |-> log'[t]]
        BY <1>6 DEF ActivityTick
      <3> QED
        BY <2>3, <3>1
    <2>5. UNCHANGED <<anchor, haveSample, moving, resting>>
      BY <1>6 DEF ActivityTick
    <2>6. changeAge' \in 0 .. Quiet
      BY <1>6, <1>c, Limits DEF ActivityTick, Elapsed
    <2>7. commandAge' \in 0 .. LongAgo /\ commandAge <= commandAge'
      BY <1>6, <1>c, Limits DEF ActivityTick, Elapsed
    <2>8. pollAge' \in 0 .. MaxPollGap
      BY <1>6, <1>c, Limits DEF ActivityTick
    <2>9. commandAge' <= CommandTimeout => commandAge <= CommandTimeout
      BY <1>c, <2>7, Limits
    <2>10. /\ haveSample' => log'["measured"].state # ""
           /\ commandAge' <= CommandTimeout => log'["commands"].state # ""
      BY <1>d, <1>f, <2>3, <2>5, <2>9
    <2>11. \A t \in Topics : Len(log'[t].path) <= MaxPath
      BY <1>a, <2>3
    <2> QED
      BY <1>b, <2>4, <2>5, <2>6, <2>7, <2>8, <2>10, <2>11 DEF EntriesInv
  <1> QED
    BY <1>1, <1>2, <1>3, <1>4, <1>5, <1>6 DEF ActivityNext

(* Every behaviour keeps them.                                             *)
LEMMA EntriesHold == ActivitySpec => []EntriesInv
  <1>1. ActivityInit => EntriesInv
    <2> SUFFICES ASSUME ActivityInit PROVE EntriesInv
      OBVIOUS
    <2>1. <<>> \in Seq(States) /\ Len(<<>>) = 0 /\ MaxPath \in Nat
      BY ActivityAssumption
    <2>2. [state |-> "", logged |-> "unknown", changes |-> 0, path |-> <<>>, age |-> LogPeriod]
              \in Entry
      BY <2>1, Limits DEF Entry, States, Words
    <2>3. log \in [Topics -> Entry] /\ (\A t \in Topics : Len(log[t].path) <= MaxPath)
      <3>1. log = [t \in Topics |-> [state |-> "", logged |-> "unknown", changes |-> 0,
                                     path |-> <<>>, age |-> LogPeriod]]
        BY DEF ActivityInit
      <3>2. log \in [Topics -> Entry]
        BY <2>2, <3>1
      <3>3. \A t \in Topics : log[t].path = <<>>
        BY <3>1
      <3> QED
        BY <2>1, <3>2, <3>3
    <2>4. ~haveSample /\ moving = FALSE /\ anchor = 0 /\ resting = {}
          /\ haveSample = FALSE
      BY DEF ActivityInit
    <2>5. /\ changeAge \in 0 .. Quiet /\ commandAge \in 0 .. LongAgo /\ pollAge \in 0 .. MaxPollGap
          /\ ~(commandAge <= CommandTimeout)
      <3>1. changeAge = Quiet /\ commandAge = LongAgo /\ pollAge = 0
        BY DEF ActivityInit
      <3> QED
        BY <3>1, Limits
    <2> QED
      BY <2>3, <2>4, <2>5 DEF EntriesInv
  <1>2. EntriesInv /\ [ActivityNext]_activityVars => EntriesInv'
    BY EntriesStep
  <1> QED
    BY <1>1, <1>2, PTL DEF ActivitySpec

(* ActivityTypeOK: among others, a path never outgrows its bound, however  *)
(* often a state flaps between two messages.                               *)
THEOREM ActivityTypeCorrect == ActivitySpec => []ActivityTypeOK
  <1>1. ASSUME EntriesInv PROVE ActivityTypeOK
    <2>1. \A t \in Topics : log[t].path \in BoundedSeq(States, MaxPath)
      <3> TAKE t \in Topics
      <3> DEFINE n == Len(log[t].path)
      <3>1. log[t].path \in Seq(States) /\ n <= MaxPath /\ MaxPath \in Nat
        BY <1>1, ActivityAssumption DEF EntriesInv, Entry
      <3>2. log[t].path \in [1 .. n -> States] /\ n \in Nat
        BY <3>1, LenProperties
      <3>3. n \in 0 .. MaxPath
        BY <3>1, <3>2
      <3> HIDE DEF n
      <3> QED
        BY <3>2, <3>3 DEF BoundedSeq, SeqOf
    <2> DEFINE Bounded == [state : States, logged : Words, changes : Nat,
                           path : BoundedSeq(States, MaxPath), age : 0 .. LogPeriod]
    <2>2. \A t \in Topics : log[t] \in Bounded
      <3>1. \A t \in Topics : log[t] \in Entry
        BY <1>1 DEF EntriesInv
      <3> QED
        BY <3>1, <2>1 DEF Entry
    <2>3. log \in [Topics -> Bounded]
      BY <1>1, <2>2 DEF EntriesInv
    <2> QED
      BY <1>1, <2>3 DEF EntriesInv, ActivityTypeOK, Words
  <1> QED
    BY <1>1, EntriesHold, PTL

-----------------------------------------------------------------------------
(* DriftIsBounded: whatever a group called stationary was sampled at lies  *)
(* within twice the threshold, however slowly it creeps.                   *)
THEOREM DriftHolds == ActivitySpec => []DriftIsBounded
  <1>1. ActivityInit => RestingInv
    BY DEF ActivityInit, RestingInv
  <1>2. ASSUME EntriesInv, RestingInv, [ActivityNext]_activityVars
        PROVE  RestingInv'
    <2>1. CASE UNCHANGED activityVars
      BY <1>2, <2>1 DEF activityVars, sampleVars, RestingInv, Distance
    <2>2. CASE unavailable
      BY <2>2 DEF unavailable, RestingInv
    <2>3. CASE \E position \in Positions : sample(position)
      <3> PICK position \in Positions : sample(position)
        BY <2>3
      <3>1. haveSample' /\ (moving' => resting' = {})
        BY DEF sample
      <3>2. Distance(position, position) < Threshold
        BY Limits DEF Distance
      <3>3. ~moving' => \A p \in resting' : Distance(p, anchor') < Threshold
        <4> SUFFICES ASSUME ~moving' PROVE \A p \in resting' : Distance(p, anchor') < Threshold
          OBVIOUS
        <4>1. ~Moved(position) /\ resting' = resting \union {position}
          BY DEF sample
        <4>2. CASE haveSample
          <5>1. anchor' = anchor
            BY <4>1, <4>2 DEF sample, Anchored
          <5>2. Distance(position, anchor) < Threshold
            <6>1. position \in Int /\ anchor \in Int
              <7>1. anchor \in Positions \union {0}
                BY <1>2 DEF EntriesInv
              <7>2. Positions \subseteq Int
                BY Limits
              <7> QED
                BY <7>1, <7>2
            <6>2. ~(Distance(position, anchor) >= Threshold)
              BY <4>1, <4>2 DEF Moved
            <6> QED
              BY <6>1, <6>2, Limits DEF Distance
          <5> QED
            BY <1>2, <4>1, <5>1, <5>2 DEF RestingInv
        <4>3. CASE ~haveSample
          <5>1. anchor' = position /\ resting' = {position}
            BY <1>2, <4>1, <4>3 DEF sample, Anchored, RestingInv
          <5> QED
            BY <3>2, <5>1
        <4> QED
          BY <4>2, <4>3
      <3>4. \A p \in resting' : Distance(p, anchor') < Threshold
        BY <3>1, <3>3
      <3> QED
        BY <3>1, <3>4 DEF RestingInv, Distance
    <2>4. CASE acceptedCommand \/ poll \/ ActivityTick
      <3>1. UNCHANGED <<haveSample, resting, anchor>>
        BY <2>4 DEF acceptedCommand, poll, ActivityTick, sampleVars
      <3> QED
        BY <1>2, <3>1 DEF RestingInv, Distance
    <2> QED
      BY <1>2, <2>1, <2>2, <2>3, <2>4 DEF ActivityNext
  <1>3. ASSUME EntriesInv, RestingInv PROVE DriftIsBounded
    <2> SUFFICES ASSUME NEW p \in resting, NEW q \in resting
                 PROVE  Distance(p, q) < 2 * Threshold
      BY DEF DriftIsBounded
    <2>1. p \in Int /\ q \in Int /\ anchor \in Int
      <3>1. anchor \in Positions \union {0} /\ resting \subseteq Positions
        BY <1>3 DEF EntriesInv
      <3>2. Positions \subseteq Int
        BY Limits
      <3> QED
        BY <3>1, <3>2
    <2>2. Distance(p, anchor) < Threshold /\ Distance(q, anchor) < Threshold
      BY <1>3 DEF RestingInv
    <2> QED
      BY <2>1, <2>2, Limits DEF Distance
  <1> QED
    BY <1>1, <1>2, <1>3, EntriesHold, PTL DEF ActivitySpec

(* ReceivingIsRecent: a group is called receiving no longer than the       *)
(* timeout after its last command, as far as a poll could tell.            *)
THEOREM ReceivingHolds == ActivitySpec => []ReceivingIsRecent
  <1>1. ActivityInit => ReceivingIsRecent
    <2> SUFFICES ASSUME ActivityInit PROVE ReceivingIsRecent
      OBVIOUS
    <2>1. log = [t \in Topics |-> Fresh]
      BY DEF ActivityInit, Fresh
    <2>2. log["commands"] = Fresh
      BY <2>1 DEF Topics
    <2>3. Fresh.state = ""
      BY DEF Fresh
    <2> QED
      BY <2>2, <2>3 DEF ReceivingIsRecent
  <1>2. ASSUME EntriesInv, EntriesInv', ReceivingIsRecent, [ActivityNext]_activityVars
        PROVE  ReceivingIsRecent'
    <2>a. /\ commandAge \in 0 .. LongAgo /\ pollAge \in 0 .. MaxPollGap
          /\ log \in [Topics -> Entry] /\ "commands" \in Topics
      BY <1>2 DEF EntriesInv, Topics
    <2>1. CASE UNCHANGED activityVars
      BY <1>2, <2>1 DEF activityVars, ReceivingIsRecent
    <2>2. CASE unavailable \/ \E position \in Positions : sample(position)
      <3>1. UNCHANGED <<commandAge, pollAge>>
        BY <2>2 DEF unavailable, sample
      <3>2. log'["commands"] = log["commands"]
        BY <2>2, <2>a DEF unavailable, sample, Observe
      <3> QED
        BY <1>2, <3>1, <3>2 DEF ReceivingIsRecent
    <2>3. CASE acceptedCommand
      <3>1. commandAge' = 0 /\ pollAge' = pollAge
        BY <2>3 DEF acceptedCommand
      <3> QED
        BY <2>a, <3>1, Limits DEF ReceivingIsRecent
    <2>4. CASE poll
      <3>1. commandAge' = commandAge /\ pollAge' = 0
        BY <2>4 DEF poll
      <3>2. log'["commands"].state = Seen("commands")
        <4>1. log'["commands"] = polled(observed(log["commands"], Seen("commands")))
          BY <2>4, <2>a DEF poll
        <4>2. log["commands"] \in Entry /\ Len(log["commands"].path) <= MaxPath
          BY <1>2, <2>a DEF EntriesInv
        <4>3. Seen("commands") \in States
          BY <1>2, <2>a, SeenState
        <4> QED
          BY <4>1, <4>2, <4>3, ObservedType, PolledType
      <3>3. commandAge > CommandTimeout => Seen("commands") = "stopped"
        BY DEF Seen, Silent, Silence
      <3> QED
        BY <2>a, <3>1, <3>2, <3>3, Limits DEF ReceivingIsRecent
    <2>5. CASE ActivityTick
      <3>1. log'["commands"].state = log["commands"].state
        <4>1. log["commands"] \in Entry /\ log["commands"].age \in 0 .. LogPeriod
          BY <2>a DEF Entry
        <4> DEFINE age == Elapsed(log["commands"].age, LogPeriod)
        <4>2. age \in 0 .. LogPeriod
          BY <4>1, Limits DEF Elapsed
        <4>3. log'["commands"] = [log["commands"] EXCEPT !.age = age]
          BY <2>5, <2>a DEF ActivityTick
        <4> HIDE DEF age
        <4>4. [log["commands"] EXCEPT !.age = age].state = log["commands"].state
          BY <4>1, <4>2, AgedType
        <4> QED
          BY <4>3, <4>4
      <3>2. pollAge' = pollAge + 1 /\ commandAge' <= commandAge + 1 /\ commandAge' \in Int
        BY <2>5, <2>a, Limits DEF ActivityTick, Elapsed
      <3> QED
        BY <1>2, <2>a, <3>1, <3>2, Limits DEF ReceivingIsRecent
    <2> QED
      BY <1>2, <2>1, <2>2, <2>3, <2>4, <2>5 DEF ActivityNext
  <1> QED
    BY <1>1, <1>2, EntriesHold, PTL DEF ActivitySpec

-----------------------------------------------------------------------------
(* What a path is of the changes it stands for.                            *)
Summary(all) ==
    IF Len(all) <= MaxPath THEN all ELSE Append(SubSeq(all, 1, MaxPath - 1), Last(all))

(* An entry summarises the states the history has of it; the inductive     *)
(* form of PathSummarises.                                                 *)
Summarises(entry, states) ==
    /\ entry.logged = Head(states)
    /\ entry.changes = Len(Tail(states))
    /\ entry.path = Summary(Tail(states))
    /\ entry.state = Last(states) \/ (entry.state = "" /\ Last(states) = "unknown")

ToldInv ==
    /\ told \in [Topics -> Seq(Words)]
    /\ \A t \in Topics : told[t] # <<>> /\ Summarises(log[t], told[t])

(* One more change makes the summary one longer, or replaces its end.      *)
LEMMA SummaryGrows ==
  ASSUME NEW all \in Seq(Words), NEW state \in Words
  PROVE  Summary(Append(all, state)) =
             IF Len(Summary(all)) < MaxPath THEN Append(Summary(all), state)
             ELSE [Summary(all) EXCEPT ![MaxPath] = state]
  <1> DEFINE more == Append(all, state)
  <1> DEFINE path == Summary(all)
  <1>1. MaxPath \in Nat \ {0} /\ Len(all) \in Nat
    BY ActivityAssumption
  <1>2. /\ more \in Seq(Words) /\ Len(more) = Len(all) + 1
        /\ (\A i \in 1 .. Len(all) : more[i] = all[i]) /\ more[Len(all) + 1] = state
    BY AppendProperties
  <1> HIDE DEF more
  <1>3. CASE Len(all) < MaxPath
    <2>1. path = all /\ Len(more) <= MaxPath
      BY <1>1, <1>2, <1>3 DEF Summary
    <2>2. Summary(more) = more
      BY <2>1 DEF Summary
    <2> QED
      BY <1>3, <2>1, <2>2 DEF more
  <1>4. CASE ~(Len(all) < MaxPath)
    <2> DEFINE start == SubSeq(all, 1, MaxPath - 1)
    <2> DEFINE begin == SubSeq(more, 1, MaxPath - 1)
    <2>1. MaxPath - 1 \in Int /\ 1 \in Int /\ MaxPath - 1 <= Len(all)
      BY <1>1, <1>4
    <2>2. (\A i \in 1 .. Len(all) : all[i] \in Words)
          /\ (\A i \in 1 .. MaxPath - 1 : i \in 1 .. Len(all))
      BY <1>1, <2>1, ElementOfSeq
    <2>3. /\ start \in Seq(Words) /\ Len(start) = MaxPath - 1
          /\ \A i \in 1 .. MaxPath - 1 : start[i] = all[i]
      BY <1>1, <2>1, <2>2, SubSeqProperties
    <2>4. \A i \in 1 .. MaxPath - 1 : more[i] \in Words /\ more[i] = all[i]
      BY <1>2, <2>2
    <2>5. /\ begin \in Seq(Words) /\ Len(begin) = MaxPath - 1
          /\ \A i \in 1 .. MaxPath - 1 : begin[i] = all[i]
      BY <1>1, <2>1, <2>4, SubSeqProperties
    <2> HIDE DEF start, begin
    <2>6. Summary(more) = Append(begin, state)
      BY <1>1, <1>2, <1>4 DEF Summary, Last, begin
    <2>7. /\ Summary(more) \in Seq(Words) /\ Len(Summary(more)) = MaxPath
          /\ (\A i \in 1 .. MaxPath - 1 : Summary(more)[i] = all[i])
          /\ Summary(more)[MaxPath] = state
      BY <1>1, <2>5, <2>6, AppendProperties
    <2>8. /\ path \in Seq(Words) /\ Len(path) = MaxPath
          /\ \A i \in 1 .. MaxPath - 1 : path[i] = all[i]
      <3>1. CASE Len(all) = MaxPath
        BY <1>1, <2>2, <3>1 DEF Summary
      <3>2. CASE Len(all) # MaxPath
        <4>1. path = Append(start, Last(all))
          BY <1>1, <1>4, <3>2 DEF Summary, start
        <4>2. Last(all) \in Words
          BY <1>1, <1>4, <2>2 DEF Last
        <4> HIDE DEF path
        <4> QED
          BY <1>1, <2>3, <4>1, <4>2, AppendProperties
      <3> QED
        BY <3>1, <3>2
    <2> HIDE DEF path
    <2>9. MaxPath \in 1 .. Len(path)
      BY <1>1, <2>8
    <2>10. /\ [path EXCEPT ![MaxPath] = state] \in Seq(Words)
           /\ Len([path EXCEPT ![MaxPath] = state]) = MaxPath
           /\ \A i \in 1 .. MaxPath : [path EXCEPT ![MaxPath] = state][i] =
                                          IF i = MaxPath THEN state ELSE path[i]
      BY <2>8, <2>9, ExceptSeq
    <2>11. \A i \in 1 .. MaxPath : Summary(more)[i] = [path EXCEPT ![MaxPath] = state][i]
      <3> TAKE i \in 1 .. MaxPath
      <3>1. CASE i = MaxPath
        BY <2>7, <2>10, <3>1
      <3>2. CASE i # MaxPath
        <4>1. i \in 1 .. MaxPath - 1
          BY <1>1, <3>2
        <4> QED
          BY <2>7, <2>8, <2>10, <3>2, <4>1
      <3> QED
        BY <3>1, <3>2
    <2>12. Summary(more) = [path EXCEPT ![MaxPath] = state]
      BY <2>7, <2>10, <2>11, SeqEqual
    <2>13. ~(Len(path) < MaxPath)
      BY <1>1, <2>8
    <2> QED
      BY <2>12, <2>13 DEF path, more
  <1> QED
    BY <1>3, <1>4
(* What a state more makes of the states before it.                        *)
LEMMA Appended ==
  ASSUME NEW all \in Seq(Words), NEW state \in Words
  PROVE  /\ Append(all, state) \in Seq(Words) /\ Append(all, state) # <<>>
         /\ Len(Append(all, state)) = Len(all) + 1
         /\ Append(all, state)[Len(all) + 1] = state
  <1>1. /\ Append(all, state) \in Seq(Words) /\ Len(Append(all, state)) = Len(all) + 1
        /\ Append(all, state)[Len(all) + 1] = state
    BY AppendProperties
  <1>2. Len(all) \in Nat /\ Len(<<>>) = 0
    BY LenProperties, EmptySeq
  <1> QED
    BY <1>1, <1>2

(* An observed state is one more change, or none.                          *)
LEMMA ObservedTold ==
  ASSUME NEW entry \in Entry, NEW states \in Seq(Words), states # <<>>,
         Summarises(entry, states), NEW state \in States \ {""}
  PROVE  /\ Noted(states, state) \in Seq(Words) /\ Noted(states, state) # <<>>
         /\ Summarises(observed(entry, state), Noted(states, state))
  <1>1. Len(states) \in Nat \ {0} /\ state \in Words /\ state # "unknown" /\ state # ""
    BY EmptySeq DEF Words, States
  <1>2. CASE state = Last(states)
    <2>1. entry.state = state
      BY <1>1, <1>2 DEF Summarises
    <2> QED
      BY <1>2, <2>1 DEF Noted, observed
  <1>3. CASE state # Last(states)
    <2> DEFINE more == Append(states, state)
    <2>1. /\ more \in Seq(Words) /\ more # <<>> /\ Len(more) = Len(states) + 1
          /\ more[Len(states) + 1] = state
      BY <1>1, Appended
    <2>2. Noted(states, state) = more
      BY <1>3 DEF Noted
    <2>3. Last(more) = state
      BY <2>1 DEF Last
    <2>4. Tail(states) \in Seq(Words) /\ Len(Tail(states)) = Len(states) - 1
      BY HeadTailProperties
    <2>5. Head(more) = Head(states) /\ Tail(more) = Append(Tail(states), state)
      BY <1>1, HeadTailAppend
    <2>6. Len(Tail(more)) = Len(Tail(states)) + 1
      <3>1. Len(Append(Tail(states), state)) = Len(Tail(states)) + 1
        BY <1>1, <2>4, AppendProperties
      <3> HIDE DEF more
      <3> QED
        BY <2>5, <3>1
    <2> HIDE DEF more
    <2>7. state # entry.state
      BY <1>1, <1>3 DEF Summarises
    <2> DEFINE path == IF Len(entry.path) < MaxPath THEN Append(entry.path, state)
                       ELSE [entry.path EXCEPT ![MaxPath] = state]
    <2>8. observed(entry, state) = Changed(entry, state, path)
      BY <2>7 DEF observed
    <2>9. entry.path = Summary(Tail(states))
      BY DEF Summarises
    <2>10. path = Summary(Tail(more))
      BY <1>1, <2>4, <2>5, <2>9, SummaryGrows
    <2>11. entry.logged = Head(states) /\ entry.changes = Len(Tail(states))
      BY DEF Summarises
    <2> HIDE DEF path
    <2>12. Changed(entry, state, path).path = path
      BY DEF Changed
    <2>13. /\ Changed(entry, state, path).state = state
           /\ Changed(entry, state, path).logged = entry.logged
           /\ Changed(entry, state, path).changes = entry.changes + 1
      BY DEF Changed
    <2>14. Summarises(Changed(entry, state, path), more)
      BY <2>3, <2>5, <2>6, <2>10, <2>11, <2>12, <2>13 DEF Summarises
    <2> QED
      BY <2>1, <2>2, <2>8, <2>14
  <1> QED
    BY <1>2, <1>3

(* A message starts the history over from the state that it ends with.     *)
LEMMA ReportedTold ==
  ASSUME NEW entry \in Entry, Reported(entry)
  PROVE  /\ <<entry.state>> \in Seq(Words) /\ <<entry.state>> # <<>>
         /\ Summarises(polled(entry), <<entry.state>>)
  <1> DEFINE one == <<entry.state>>
  <1>1. entry.state \in Words /\ MaxPath \in Nat
    BY ActivityAssumption DEF Entry, Words
  <1>2. one \in Seq(Words) /\ one # <<>> /\ Len(one) = 1 /\ one[1] = entry.state
    BY <1>1
  <1>3. Head(one) = entry.state /\ Last(one) = entry.state
    BY <1>2 DEF Last
  <1>4. Tail(one) = <<>> /\ Len(Tail(one)) = 0
    BY <1>2, HeadTailProperties, EmptySeq
  <1>5. Summary(Tail(one)) = <<>>
    BY <1>1, <1>4 DEF Summary
  <1> HIDE DEF one
  <1>6. Summarises(polled(entry), one)
    BY <1>3, <1>4, <1>5 DEF Summarises, polled, Cleared
  <1> QED
    BY <1>2, <1>6 DEF one

(* A handler that observes a state of one topic.                           *)
LEMMA ObserveKeepsTold ==
  ASSUME EntriesInv, ToldInv, NEW topic \in Topics, NEW state \in States \ {""},
         Observe(topic, state)
  PROVE  ToldInv'
  <1>1. log \in [Topics -> Entry] /\ told \in [Topics -> Seq(Words)]
    BY DEF EntriesInv, ToldInv
  <1>2. \A t \in Topics : told[t] # <<>> /\ Summarises(log[t], told[t])
    BY DEF ToldInv
  <1>3. /\ log' = [log EXCEPT ![topic] = observed(log[topic], state)]
        /\ told' = [told EXCEPT ![topic] = Noted(told[topic], state)]
    BY DEF Observe
  <1>4. /\ Noted(told[topic], state) \in Seq(Words) /\ Noted(told[topic], state) # <<>>
        /\ Summarises(observed(log[topic], state), Noted(told[topic], state))
    BY <1>1, <1>2, ObservedTold
  <1>5. /\ log'[topic] = observed(log[topic], state)
        /\ told'[topic] = Noted(told[topic], state)
        /\ \A t \in Topics \ {topic} : log'[t] = log[t] /\ told'[t] = told[t]
    BY <1>1, <1>3
  <1>6. told' \in [Topics -> Seq(Words)]
    BY <1>1, <1>3, <1>4
  <1>7. \A t \in Topics : told'[t] # <<>> /\ Summarises(log'[t], told'[t])
    <2> TAKE t \in Topics
    <2>1. CASE t = topic
      BY <1>4, <1>5, <2>1
    <2>2. CASE t # topic
      BY <1>2, <1>5, <2>2
    <2> QED
      BY <2>1, <2>2
  <1> QED
    BY <1>6, <1>7 DEF ToldInv

(* Every step keeps the summaries.                                         *)
LEMMA ToldStep ==
  ASSUME EntriesInv, ToldInv, [ActivityNext]_activityVars
  PROVE  ToldInv'
  <1>1. log \in [Topics -> Entry] /\ told \in [Topics -> Seq(Words)]
    BY DEF EntriesInv, ToldInv
  <1>2. \A t \in Topics : told[t] # <<>> /\ Summarises(log[t], told[t])
    BY DEF ToldInv
  <1>3. CASE UNCHANGED activityVars
    BY <1>3 DEF activityVars, ToldInv
  <1>4. CASE unavailable
    BY <1>4, ObserveKeepsTold DEF unavailable, Topics, States
  <1>5. CASE \E position \in Positions : sample(position)
    <2> PICK position \in Positions : sample(position)
      BY <1>5
    <2> DEFINE state == IF moving' THEN "moving" ELSE "stationary"
    <2>1. Observe("measured", state)
      BY DEF sample
    <2>2. state \in States \ {""} /\ "measured" \in Topics
      BY DEF States, Topics
    <2> HIDE DEF state
    <2> QED
      BY <2>1, <2>2, ObserveKeepsTold
  <1>6. CASE acceptedCommand
    BY <1>6, ObserveKeepsTold DEF acceptedCommand, Topics, States
  <1>7. CASE poll
    <2> DEFINE entry(t) == observed(log[t], Seen(t))
    <2> DEFINE states(t) == IF Reported(entry(t)) THEN <<Seen(t)>> ELSE Noted(told[t], Seen(t))
    <2>1. log' = [t \in Topics |-> polled(entry(t))] /\ told' = [t \in Topics |-> states(t)]
      BY <1>7 DEF poll
    <2>2. ASSUME NEW t \in Topics
          PROVE  states(t) \in Seq(Words) /\ states(t) # <<>>
                 /\ Summarises(polled(entry(t)), states(t))
      <3>1. Seen(t) \in States \ {""} /\ log[t] \in Entry /\ Len(log[t].path) <= MaxPath
        BY <1>1, SeenState DEF EntriesInv
      <3>2. entry(t) \in Entry /\ entry(t).state = Seen(t)
        BY <3>1, ObservedType
      <3>3. CASE Reported(entry(t))
        <4>1. states(t) = <<entry(t).state>>
          BY <3>2, <3>3
        <4> HIDE DEF entry, states
        <4> QED
          BY <3>2, <3>3, <4>1, ReportedTold
      <3>4. CASE ~Reported(entry(t))
        <4>1. /\ Noted(told[t], Seen(t)) \in Seq(Words) /\ Noted(told[t], Seen(t)) # <<>>
              /\ Summarises(entry(t), Noted(told[t], Seen(t)))
          BY <1>1, <1>2, <3>1, ObservedTold
        <4>2. states(t) = Noted(told[t], Seen(t))
          BY <3>4
        <4> HIDE DEF entry, states
        <4>3. polled(entry(t)) = entry(t)
          BY <3>4 DEF polled
        <4> QED
          BY <4>1, <4>2, <4>3
      <3> QED
        BY <3>3, <3>4
    <2> HIDE DEF entry, states
    <2>3. told' \in [Topics -> Seq(Words)]
      BY <2>1, <2>2
    <2>4. \A t \in Topics : told'[t] # <<>> /\ Summarises(log'[t], told'[t])
      BY <2>1, <2>2
    <2> QED
      BY <2>3, <2>4 DEF ToldInv
  <1>8. CASE ActivityTick
    <2>1. told' = told
      BY <1>8 DEF ActivityTick
    <2>2. \A t \in Topics : log'[t] = [log[t] EXCEPT !.age = Elapsed(log[t].age, LogPeriod)]
      BY <1>8 DEF ActivityTick
    <2>3. ASSUME NEW t \in Topics PROVE Summarises(log'[t], told'[t])
      <3> DEFINE age == Elapsed(log[t].age, LogPeriod)
      <3>1. log[t] \in Entry /\ Summarises(log[t], told[t])
        BY <1>1, <1>2
      <3>2. log'[t] = [log[t] EXCEPT !.age = age]
        BY <2>2
      <3> HIDE DEF age
      <3>3. /\ log'[t].state = log[t].state /\ log'[t].logged = log[t].logged
            /\ log'[t].changes = log[t].changes /\ log'[t].path = log[t].path
        BY <3>1, <3>2 DEF Entry
      <3> QED
        BY <2>1, <3>1, <3>3 DEF Summarises
    <2> QED
      BY <1>1, <1>2, <2>1, <2>3 DEF ToldInv
  <1> QED
    BY <1>3, <1>4, <1>5, <1>6, <1>7, <1>8 DEF ActivityNext

(* PathSummarises: a message counts every change since the last one, lists *)
(* the first in order and always the last, however many there were.        *)
THEOREM PathHolds == ActivitySpec => []PathSummarises
  <1>1. ActivityInit => ToldInv
    <2> SUFFICES ASSUME ActivityInit PROVE ToldInv
      OBVIOUS
    <2> DEFINE one == <<"unknown">>
    <2>1. log = [t \in Topics |-> Fresh] /\ told = [t \in Topics |-> one]
      BY DEF ActivityInit, Fresh
    <2>2. one \in Seq(Words) /\ one # <<>> /\ Len(one) = 1 /\ one[1] = "unknown"
      BY DEF Words
    <2>3. Head(one) = "unknown" /\ Last(one) = "unknown"
      BY <2>2 DEF Last
    <2>4. Tail(one) = <<>> /\ Len(Tail(one)) = 0 /\ MaxPath \in Nat
      BY <2>2, HeadTailProperties, EmptySeq, ActivityAssumption
    <2>5. Summary(Tail(one)) = <<>>
      BY <2>4 DEF Summary
    <2> HIDE DEF one
    <2>6. Summarises(Fresh, one)
      BY <2>3, <2>4, <2>5 DEF Summarises, Fresh
    <2> QED
      BY <2>1, <2>2, <2>6 DEF ToldInv
  <1>2. EntriesInv /\ ToldInv /\ [ActivityNext]_activityVars => ToldInv'
    BY ToldStep
  <1>3. ToldInv => PathSummarises
    BY DEF ToldInv, Summarises, Summary, PathSummarises
  <1> QED
    BY <1>1, <1>2, <1>3, EntriesHold, PTL DEF ActivitySpec
=============================================================================
