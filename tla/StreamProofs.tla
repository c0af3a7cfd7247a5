-------------------------------- MODULE StreamProofs --------------------------------
(***************************************************************************)
(* Proofs about the two streams of stamped messages: of feedback           *)
(* (SampleStream) for every maximum age, skew, source lead and every       *)
(* amount and order of clock steps, delays, repeats and losses, and of     *)
(* commands (CommandStream) for every set of joints and every order of     *)
(* revocations besides.                                                    *)
(***************************************************************************)
EXTENDS CommandStream, TLAPS

(* The feedback stream.                                                    *)

(* accept() keeps the members of a SampleTimestamp natural numbers.        *)
LEMMA AcceptTypes ==
  ASSUME NEW t \in [lastStamp : Nat, lastRosNow : Nat],
         NEW stamp \in Nat, NEW rosNow \in Nat
  PROVE  accept(t, stamp, rosNow) \in [lastStamp : Nat, lastRosNow : Nat]
  BY DEF accept, LastStamp

(* The steady-clock time of an accepted sample is an integer, and not in   *)
(* the future.                                                             *)
LEMMA SampledTypes ==
  ASSUME NEW stamp \in Nat, NEW rosNow \in Nat, NEW received \in Nat
  PROVE  /\ sampled(stamp, rosNow, received) \in Int
         /\ sampled(stamp, rosNow, received) <= received
  BY DEF sampled

(* Every step keeps the types of the stream.                               *)
LEMMA StreamTypeStep ==
  ASSUME StreamTypeOK, [StreamNext]_streamVars
  PROVE  StreamTypeOK'
  <1> USE DEF StreamTypeOK
  <1>1. CASE UNCHANGED streamVars
    BY <1>1 DEF streamVars
  <1>2. ASSUME NEW stamp \in {0, ros + lead}, Take(stamp)
        PROVE  StreamTypeOK'
    <2>1. [stamp |-> stamp, taken |-> now] \in Samples
      BY <1>2, StreamAssumption DEF Samples
    <2> QED
      BY <1>2, <2>1 DEF Take
  <1>3. ASSUME NEW m \in sent, Deliver(m)
        PROVE  StreamTypeOK'
    <2>1. m.stamp \in Nat /\ m.taken \in Nat
      BY DEF Samples
    <2>2. ts' \in [lastStamp : Nat, lastRosNow : Nat]
      BY <1>3, <2>1, AcceptTypes DEF Deliver
    <2>3. /\ sample' \in [stamp : Nat, taken : Nat, sampled : Int]
          /\ sample'.sampled <= now
      BY <1>3, <2>1, SampledTypes DEF Deliver
    <2> QED
      BY <1>3, <2>2, <2>3 DEF Deliver
  <1>4. CASE Advance
    BY <1>4 DEF Advance
  <1>5. ASSUME NEW step \in ForwardSteps, StepForward(step)
        PROVE  StreamTypeOK'
    BY <1>5, StreamAssumption DEF StepForward
  <1>6. ASSUME NEW step \in BackSteps, StepBack(step)
        PROVE  StreamTypeOK'
    <2>1. step \in Nat /\ MaxBack \in Nat
      BY StreamAssumption
    <2> QED
      BY <1>6, <2>1 DEF StepBack
  <1> QED
    BY <1>1, <1>2, <1>3, <1>4, <1>5, <1>6 DEF StreamNext

(* StreamTypeOK: no accepted sample is ever dated after now.               *)
THEOREM StreamTypeCorrect == StreamSpec => []StreamTypeOK
  <1>1. StreamInit => StreamTypeOK
    BY StreamAssumption DEF StreamInit, StreamTypeOK, NeverAccepted, NoSample
  <1> QED
    BY <1>1, StreamTypeStep, PTL DEF StreamSpec

-----------------------------------------------------------------------------
(* Strengthening of AgeIsHonest: every stamp under way is bounded by the   *)
(* moment its sample was taken, the lead and the distance of the two       *)
(* clocks, a distance that only a backward step can shrink.                *)
StampBounded(m) == m.stamp = 0 \/ m.stamp - m.taken - lead <= ros - now + back

HonestInv == AgeIsHonest /\ \A m \in sent : StampBounded(m)

(* Every step keeps the bound, for the accepted sample and for those on    *)
(* their way.                                                              *)
LEMMA HonestStep ==
  ASSUME StreamTypeOK, HonestInv, [StreamNext]_streamVars
  PROVE  HonestInv'
  <1> USE DEF HonestInv, StampBounded, AgeIsHonest
  <1>0. /\ now \in Nat /\ ros \in Nat /\ back \in Nat /\ lead \in Nat
        /\ \A m \in sent : m.stamp \in Nat /\ m.taken \in Nat
        /\ sample.sampled \in Int /\ sample.taken \in Nat
    BY StreamAssumption DEF StreamTypeOK, Samples
  <1>1. CASE UNCHANGED streamVars
    BY <1>1 DEF streamVars
  <1>2. ASSUME NEW stamp \in {0, ros + lead}, Take(stamp)
        PROVE  HonestInv'
    BY <1>0, <1>2 DEF Take
  <1>3. ASSUME NEW m \in sent, Deliver(m)
        PROVE  HonestInv'
    <2>1. CASE ~accepts(ts, m.stamp, ros)
      BY <1>3, <2>1 DEF Deliver
    <2>2. CASE accepts(ts, m.stamp, ros)
      <3>1. m.stamp \in Nat /\ m.taken \in Nat /\ m.stamp # 0
        BY <1>0, <2>2 DEF accepts
      <3>2. sampled(m.stamp, ros, now) <= m.taken + lead + back
        BY <1>0, <1>3, <3>1 DEF sampled
      <3>3. sample'.sampled <= sample'.taken + lead + back
        BY <1>3, <2>2, <3>2 DEF Deliver
      <3> QED
        BY <1>3, <3>3 DEF Deliver
    <2> QED
      BY <2>1, <2>2
  <1>4. CASE Advance
    BY <1>0, <1>4 DEF Advance
  <1>5. ASSUME NEW step \in ForwardSteps, StepForward(step)
        PROVE  HonestInv'
    BY <1>0, <1>5, StreamAssumption DEF StepForward
  <1>6. ASSUME NEW step \in BackSteps, StepBack(step)
        PROVE  HonestInv'
    BY <1>0, <1>6, StreamAssumption DEF StepBack
  <1> QED
    BY <1>1, <1>2, <1>3, <1>4, <1>5, <1>6 DEF StreamNext

(* AgeIsHonest: an accepted sample never looks younger than it is by more  *)
(* than the source's lead and what the ROS clock was set back.             *)
THEOREM AgeIsHonestHolds == StreamSpec => []AgeIsHonest
  <1>1. StreamInit => HonestInv
    BY DEF StreamInit, HonestInv, AgeIsHonest
  <1>2. HonestInv => AgeIsHonest
    BY DEF HonestInv
  <1> QED
    BY <1>1, <1>2, HonestStep, StreamTypeCorrect, PTL DEF StreamSpec

-----------------------------------------------------------------------------
(* While the ROS clock was never set back, the object remembers the stamp  *)
(* of the accepted sample and a clock that is not ahead of the present.    *)
OrderInv == back = 0 => ts.lastRosNow <= ros /\ ts.lastStamp = sample.stamp

(* Every step keeps the order, and only a later stamp replaces the sample. *)
LEMMA OrderStep ==
  ASSUME StreamTypeOK, OrderInv, [StreamNext]_streamVars
  PROVE  /\ OrderInv'
         /\ back' = 0 /\ sample' # sample => sample'.stamp > sample.stamp
  <1> USE DEF OrderInv
  <1>0. /\ now \in Nat /\ ros \in Nat /\ back \in Nat
        /\ ts \in [lastStamp : Nat, lastRosNow : Nat]
        /\ \A m \in sent : m.stamp \in Nat
    BY StreamAssumption DEF StreamTypeOK, Samples
  <1>1. CASE UNCHANGED streamVars
    BY <1>1 DEF streamVars
  <1>2. ASSUME NEW stamp \in {0, ros + lead}, Take(stamp)
        PROVE  OrderInv' /\ sample' = sample
    BY <1>2 DEF Take
  <1>3. ASSUME NEW m \in sent, Deliver(m)
        PROVE  /\ OrderInv'
               /\ back' = 0 /\ sample' # sample => sample'.stamp > sample.stamp
    <2>1. back = 0 => LastStamp(ts, ros) = sample.stamp
      BY <1>0 DEF LastStamp
    <2>2. ts'.lastRosNow = ros /\ ros' = ros /\ back' = back
      BY <1>3 DEF Deliver, accept
    <2>3. CASE accepts(ts, m.stamp, ros)
      <3>1. sample'.stamp = m.stamp /\ ts'.lastStamp = m.stamp
        BY <1>3, <2>3 DEF Deliver, accept
      <3>2. back = 0 => m.stamp > sample.stamp
        BY <2>1, <2>3 DEF accepts
      <3> QED
        BY <1>0, <2>2, <3>1, <3>2
    <2>4. CASE ~accepts(ts, m.stamp, ros)
      BY <1>0, <1>3, <2>1, <2>2, <2>4 DEF Deliver, accept
    <2> QED
      BY <2>3, <2>4
  <1>4. CASE Advance
    BY <1>0, <1>4 DEF Advance
  <1>5. ASSUME NEW step \in ForwardSteps, StepForward(step)
        PROVE  OrderInv' /\ sample' = sample
    BY <1>0, <1>5, StreamAssumption DEF StepForward
  <1>6. ASSUME NEW step \in BackSteps, StepBack(step)
        PROVE  OrderInv' /\ sample' = sample
    BY <1>0, <1>6, StreamAssumption DEF StepBack
  <1> QED
    BY <1>1, <1>2, <1>3, <1>4, <1>5, <1>6 DEF StreamNext, Advance

(* StampsIncrease: without a backward step, accepted stamps only grow, so  *)
(* nothing repeated, frozen or reordered ever replaces what was accepted.  *)
THEOREM StampsIncreaseHolds == StreamSpec => StampsIncrease
  <1>1. StreamInit => OrderInv
    BY DEF StreamInit, OrderInv, NeverAccepted, NoSample
  <1>2. StreamTypeOK /\ OrderInv /\ [StreamNext]_streamVars
          => OrderInv' /\ [back' = 0 /\ sample' # sample
                             => sample'.stamp > sample.stamp]_streamVars
    BY OrderStep
  <1> QED
    BY <1>1, <1>2, StreamTypeCorrect, PTL DEF StreamSpec, StampsIncrease
-----------------------------------------------------------------------------
(* The command stream.                                                     *)

(* The constants of the stream, as the provers need them.                  *)
LEMMA StreamConstants ==
  /\ Leads \subseteq Nat /\ MaxBack \in Nat /\ ForwardSteps \subseteq Nat
  /\ BackSteps \subseteq Nat /\ MaxAge \in Nat \ {0} /\ Skew \in Nat
  BY StreamAssumption, AgeAssumption, SkewAssumption

(* The numbers of a well-typed state.                                      *)
LEMMA CommandNumbers ==
  ASSUME CommandTypeOK
  PROVE  /\ now \in Nat /\ ros \in Nat /\ back \in Nat /\ lead \in Nat
         /\ cutoff \in Nat /\ revokedAt \in Int /\ -1 <= revokedAt /\ revokedAt <= now
         /\ \A m \in sent : m.stamp \in Nat /\ m.taken \in Nat
         /\ \A j \in Joints : /\ heardAt[j] \in Nat /\ heardAt[j] <= now
                              /\ ts[j].lastStamp \in Nat /\ ts[j].lastRosNow \in Nat
                              /\ sample[j].taken \in Nat
  BY StreamConstants DEF CommandTypeOK, Samples

-----------------------------------------------------------------------------
(* Every step keeps the types of the command stream.                       *)
LEMMA CommandTypeStep ==
  ASSUME CommandTypeOK, [CommandNext]_commandVars
  PROVE  CommandTypeOK'
  <1> USE DEF CommandTypeOK
  <1>0. NoSample \in [stamp : Nat, taken : Nat, sampled : Int] /\ NoSample.sampled = 0
    BY DEF NoSample
  <1>1. CASE UNCHANGED commandVars
    BY <1>1 DEF commandVars, streamVars, cutoffVars
  <1>2. ASSUME NEW stamp \in {0, ros + lead}, Take(stamp), UNCHANGED <<cutoffVars, heardAt>>
        PROVE  CommandTypeOK'
    <2>1. [stamp |-> stamp, taken |-> now] \in Samples
      BY <1>2, StreamConstants DEF Samples
    <2> QED
      BY <1>2, <2>1 DEF Take, cutoffVars
  <1>3. ASSUME Advance, UNCHANGED <<cutoffVars, heardAt>>
        PROVE  CommandTypeOK'
    BY <1>3 DEF Advance, cutoffVars
  <1>4. ASSUME NEW step \in ForwardSteps, StepForward(step), UNCHANGED <<cutoffVars, heardAt>>
        PROVE  CommandTypeOK'
    BY <1>4, StreamConstants DEF StepForward, cutoffVars
  <1>5. ASSUME NEW step \in BackSteps, StepBack(step), UNCHANGED <<cutoffVars, heardAt>>
        PROVE  CommandTypeOK'
    <2>1. step \in Nat /\ MaxBack \in Nat
      BY StreamConstants
    <2> QED
      BY <1>5, <2>1 DEF StepBack, cutoffVars
  <1>6. ASSUME NEW m \in sent, NEW members \in SUBSET Joints, CommandCallback(m, members)
        PROVE  CommandTypeOK'
    <2>1. m.stamp \in Nat /\ m.taken \in Nat
      BY DEF Samples
    <2>2. ts' \in [Joints -> [lastStamp : Nat, lastRosNow : Nat]]
      BY <1>6, <2>1, AcceptTypes DEF CommandCallback
    <2>3. /\ sample' \in [Joints -> [stamp : Nat, taken : Nat, sampled : Int]]
          /\ \A j \in Joints : sample'[j].sampled <= now
      BY <1>6, <2>1, SampledTypes DEF CommandCallback
    <2>4. heardAt' \in [Joints -> 0 .. now]
      BY <1>6 DEF CommandCallback
    <2> QED
      BY <1>6, <2>2, <2>3, <2>4 DEF CommandCallback, cutoffVars
  <1>7. ASSUME NEW enabled \in BOOLEAN, Revoke(enabled)
        PROVE  CommandTypeOK'
    BY <1>0, <1>7 DEF Revoke, NothingPending, Cutoff
  <1>8. CASE Flush
    BY <1>0, <1>8 DEF Flush, NothingPending, cutoffVars
  <1> QED
    BY <1>1, <1>2, <1>3, <1>4, <1>5, <1>6, <1>7, <1>8 DEF CommandNext, ClockStep

(* CommandTypeOK: no pending command is ever dated after now, so none is   *)
(* valid for longer than its maximum age.                                  *)
THEOREM CommandTypeCorrect == CommandSpec => []CommandTypeOK
  <1>1. CommandInit => CommandTypeOK
    <2> SUFFICES ASSUME CommandInit PROVE CommandTypeOK
      OBVIOUS
    <2>1. now \in Nat /\ ros \in Nat /\ back \in 0 .. MaxBack /\ cutoff \in Nat
      BY StreamConstants DEF CommandInit
    <2>5. lead \in Leads /\ sent \subseteq Samples /\ stopped \in BOOLEAN
      BY Zenon DEF CommandInit
    <2>2. revokedAt \in -1 .. now
      BY DEF CommandInit
    <2>3. heardAt \in [Joints -> 0 .. now] /\ ts \in [Joints -> [lastStamp : Nat, lastRosNow : Nat]]
      BY DEF CommandInit, NeverAccepted
    <2>4. /\ sample \in [Joints -> [stamp : Nat, taken : Nat, sampled : Int]]
          /\ \A j \in Joints : sample[j].sampled <= now
      BY DEF CommandInit, NothingPending, NoSample
    <2> QED
      BY <2>1, <2>2, <2>3, <2>4, <2>5 DEF CommandTypeOK
  <1> QED
    BY <1>1, CommandTypeStep, PTL DEF CommandSpec

-----------------------------------------------------------------------------
(* The inductive invariant.  Offset, the distance of the two clocks made   *)
(* up for what the ROS clock was set back, never shrinks; every stamp and  *)
(* the cutoff are bounded by the Offset of the moment they were made.      *)
Offset == ros - now + back

StampsBounded ==
    \A m \in sent : m.taken <= now /\ (m.stamp = 0 \/ m.stamp - m.taken - lead <= Offset)

CutoffBounded ==
    /\ revokedAt = -1 => cutoff = 0
    /\ revokedAt >= 0 => cutoff - revokedAt <= Offset

(* What was taken before the revocation is bounded by the cutoff.          *)
CutoffSeparates ==
    \A m \in sent : m.taken < revokedAt
        => m.stamp = 0 \/ m.stamp - m.taken - lead <= cutoff - revokedAt + back

MemoryBounded ==
    \A j \in Joints : ts[j].lastStamp = 0 \/ ts[j].lastStamp - heardAt[j] - lead <= Offset

CutoffInv ==
    /\ Offset >= 0
    /\ StampsBounded /\ CutoffBounded /\ CutoffSeparates /\ MemoryBounded
    /\ RevokedIsGone

(* Steps of the clocks and of the senders: what they leave alone, and that *)
(* the Offset does not shrink.                                             *)
LEMMA ClockStepFacts ==
  ASSUME CommandTypeOK, ClockStep, UNCHANGED <<cutoffVars, heardAt>>
  PROVE  /\ Offset' \in Int /\ Offset' >= Offset /\ back' \in Nat /\ back' >= back
         /\ now' \in Nat /\ now' >= now
         /\ UNCHANGED <<lead, ts, sample, cutoff, revokedAt, stopped, heardAt>>
         /\ \/ sent' = sent
            \/ /\ UNCHANGED <<now, ros, back>>
               /\ \E stamp \in {0, ros + lead} :
                     sent' = sent \union {[stamp |-> stamp, taken |-> now]}
  <1>0. now \in Nat /\ ros \in Nat /\ back \in Nat /\ lead \in Nat
    BY CommandNumbers
  <1>1. ASSUME NEW stamp \in {0, ros + lead}, Take(stamp)
        PROVE  /\ Offset' = Offset /\ UNCHANGED <<now, ros, back, lead, ts, sample>>
               /\ sent' = sent \union {[stamp |-> stamp, taken |-> now]}
    BY <1>1 DEF Take, Offset
  <1>2. CASE Advance
    BY <1>0, <1>2 DEF Advance, Offset, cutoffVars
  <1>3. ASSUME NEW step \in ForwardSteps, StepForward(step)
        PROVE  /\ Offset' = Offset + step /\ step \in Nat
               /\ UNCHANGED <<now, back, lead, ts, sample, sent>>
    BY <1>0, <1>3, StreamConstants DEF StepForward, Offset
  <1>4. ASSUME NEW step \in BackSteps, StepBack(step)
        PROVE  /\ Offset' = Offset /\ step \in Nat /\ back' = back + step
               /\ UNCHANGED <<now, lead, ts, sample, sent>>
    <2>1. step \in Nat
      BY StreamConstants
    <2> QED
      BY <1>0, <1>4, <2>1 DEF StepBack, Offset
  <1>5. Offset \in Int
    BY <1>0 DEF Offset
  <1>6. CASE \E stamp \in {0, ros + lead} : Take(stamp)
    BY <1>0, <1>1, <1>5, <1>6 DEF cutoffVars
  <1>7. CASE \E step \in ForwardSteps : StepForward(step)
    BY <1>0, <1>3, <1>5, <1>7 DEF cutoffVars
  <1>8. CASE \E step \in BackSteps : StepBack(step)
    BY <1>0, <1>4, <1>5, <1>8 DEF cutoffVars
  <1> QED
    BY <1>2, <1>6, <1>7, <1>8 DEF ClockStep

(* The clocks and the senders keep the invariant.                          *)
LEMMA CutoffClockStep ==
  ASSUME CommandTypeOK, CutoffInv, ClockStep, UNCHANGED <<cutoffVars, heardAt>>
  PROVE  CutoffInv'
  <1>0. /\ now \in Nat /\ ros \in Nat /\ back \in Nat /\ lead \in Nat
        /\ cutoff \in Nat /\ revokedAt \in Int /\ revokedAt <= now
        /\ \A m \in sent : m.stamp \in Nat /\ m.taken \in Nat
        /\ \A j \in Joints : /\ heardAt[j] \in Nat /\ ts[j].lastStamp \in Nat
                             /\ sample[j].taken \in Nat
    BY CommandNumbers
  <1>1. Offset \in Int
    BY <1>0 DEF Offset
  <1>2. /\ Offset' \in Int /\ Offset' >= Offset /\ back' \in Nat /\ back' >= back
        /\ now' \in Nat /\ now' >= now
        /\ UNCHANGED <<lead, ts, sample, cutoff, revokedAt, stopped, heardAt>>
        /\ \/ sent' = sent
           \/ /\ UNCHANGED <<now, ros, back>>
              /\ \E stamp \in {0, ros + lead} :
                    sent' = sent \union {[stamp |-> stamp, taken |-> now]}
    BY ClockStepFacts
  <1>3. Offset' >= 0 /\ CutoffBounded' /\ MemoryBounded' /\ RevokedIsGone'
    BY <1>0, <1>1, <1>2 DEF CutoffInv, CutoffBounded, MemoryBounded, RevokedIsGone
  <1>4. StampsBounded' /\ CutoffSeparates'
    <2>1. CASE sent' = sent
      BY <1>0, <1>1, <1>2, <2>1 DEF CutoffInv, StampsBounded, CutoffSeparates
    <2>2. ASSUME NEW stamp \in {0, ros + lead}, UNCHANGED <<now, ros, back>>,
                 sent' = sent \union {[stamp |-> stamp, taken |-> now]}
          PROVE  StampsBounded' /\ CutoffSeparates'
      <3>1. Offset = ros - now + back /\ Offset' = Offset
        BY <1>2, <2>2 DEF Offset
      <3> QED
        BY <1>0, <1>1, <1>2, <2>2, <3>1 DEF CutoffInv, StampsBounded, CutoffSeparates
    <2> QED
      BY <1>2, <2>1, <2>2
  <1> QED
    BY <1>3, <1>4 DEF CutoffInv

(* Every step keeps the bounds on stamps and cutoff.                       *)
LEMMA CutoffStep ==
  ASSUME CommandTypeOK, CutoffInv, [CommandNext]_commandVars
  PROVE  CutoffInv'
  <1>0. /\ now \in Nat /\ ros \in Nat /\ back \in Nat /\ lead \in Nat
        /\ cutoff \in Nat /\ revokedAt \in Int /\ revokedAt <= now
        /\ \A m \in sent : m.stamp \in Nat /\ m.taken \in Nat
        /\ \A j \in Joints : /\ heardAt[j] \in Nat /\ ts[j].lastStamp \in Nat
                             /\ sample[j].taken \in Nat
    BY CommandNumbers
  <1>1. CASE UNCHANGED commandVars
    BY <1>1 DEF commandVars, streamVars, cutoffVars, CutoffInv, Offset, StampsBounded,
                CutoffBounded, CutoffSeparates, MemoryBounded, RevokedIsGone
  <1>2. CASE ClockStep /\ UNCHANGED <<cutoffVars, heardAt>>
    BY <1>2, CutoffClockStep
  <1>3. ASSUME NEW m \in sent, NEW members \in SUBSET Joints, CommandCallback(m, members)
        PROVE  CutoffInv'
    <2>1. UNCHANGED <<now, ros, back, lead, sent, cutoff, revokedAt>>
      BY <1>3 DEF CommandCallback, cutoffVars
    <2>2. /\ Offset' = Offset /\ Offset \in Int /\ Offset >= 0
          /\ StampsBounded' /\ CutoffBounded' /\ CutoffSeparates'
      BY <1>0, <2>1 DEF CutoffInv, Offset, StampsBounded, CutoffBounded, CutoffSeparates
    <2>3. /\ m.stamp \in Nat /\ m.taken \in Nat /\ m.taken <= now
          /\ m.stamp > cutoff /\ m.stamp # 0
          /\ m.stamp - m.taken - lead <= Offset
      BY <1>0, <1>3 DEF CommandCallback, Heard, CutoffInv, StampsBounded
    <2>4. revokedAt <= m.taken + lead + back
      BY <1>0, <2>3 DEF CutoffInv, CutoffSeparates
    <2>5. \A j \in Joints : j \in members =>
              /\ ts'[j].lastStamp = m.stamp /\ heardAt'[j] = now
              /\ sample'[j].taken = m.taken
      BY <1>3 DEF CommandCallback, Heard, accept
    <2>6. \A j \in Joints : j \notin members =>
              ts'[j] = ts[j] /\ heardAt'[j] = heardAt[j] /\ sample'[j] = sample[j]
      BY <1>3 DEF CommandCallback
    <2>7. MemoryBounded'
      BY <1>0, <2>1, <2>2, <2>3, <2>5, <2>6 DEF CutoffInv, MemoryBounded
    <2>8. RevokedIsGone'
      BY <1>0, <2>1, <2>4, <2>5, <2>6 DEF CutoffInv, RevokedIsGone
    <2> QED
      BY <2>2, <2>7, <2>8 DEF CutoffInv
  <1>4. ASSUME NEW enabled \in BOOLEAN, Revoke(enabled)
        PROVE  CutoffInv'
    <2>1. /\ UNCHANGED <<now, ros, back, lead, sent, ts, heardAt>>
          /\ cutoff' = ros /\ revokedAt' = now
          /\ \A j \in Joints : sample'[j] = NoSample
      BY <1>4 DEF Revoke, Cutoff, NothingPending
    <2>2. Offset' = Offset /\ Offset = ros - now + back
      BY <2>1 DEF Offset
    <2> QED
      BY <1>0, <2>1, <2>2 DEF CutoffInv, StampsBounded, CutoffBounded, CutoffSeparates,
                              MemoryBounded, RevokedIsGone
  <1>5. CASE Flush
    <2>1. /\ UNCHANGED <<now, ros, back, lead, sent, ts, cutoff, revokedAt, heardAt>>
          /\ \A j \in Joints : sample'[j] = NoSample
      BY <1>5 DEF Flush, cutoffVars, NothingPending
    <2> QED
      BY <2>1 DEF CutoffInv, Offset, StampsBounded, CutoffBounded, CutoffSeparates,
                  MemoryBounded, RevokedIsGone
  <1> QED
    BY <1>1, <1>2, <1>3, <1>4, <1>5 DEF CommandNext

(* They hold in every behaviour.                                           *)
LEMMA CutoffInvariant == CommandSpec => []CutoffInv
  <1>1. CommandInit => CutoffInv
    BY StreamConstants DEF CommandInit, CutoffInv, Offset, StampsBounded, CutoffBounded,
         CutoffSeparates, MemoryBounded, RevokedIsGone, NothingPending, NeverAccepted
  <1> QED
    BY <1>1, CutoffStep, CommandTypeCorrect, PTL DEF CommandSpec

(* RevokedIsGone: nothing given before the last revocation is queued after *)
(* it, up to the lead of the sender's clock and what the ROS clock was set *)
(* back.                                                                   *)
THEOREM RevokedIsGoneHolds == CommandSpec => []RevokedIsGone
  <1>1. CutoffInv => RevokedIsGone
    BY DEF CutoffInv
  <1> QED
    BY <1>1, CutoffInvariant, PTL

(* FreshIsHeard: an enabled node accepts a fresh command as soon as the    *)
(* clock has run for as long as it was set back.                           *)
THEOREM FreshIsHeardHolds == CommandSpec => []FreshIsHeard
  <1>1. ASSUME CommandTypeOK, CutoffInv
        PROVE  FreshIsHeard
    <2> SUFFICES ASSUME ~stopped, lead <= Skew, now > revokedAt + back,
                        \A j \in Joints : now > heardAt[j] + back
                 PROVE  Heard(Joints, ros + lead)
      BY DEF FreshIsHeard
    <2>0. /\ now \in Nat /\ ros \in Nat /\ back \in Nat /\ lead \in Nat
          /\ cutoff \in Nat /\ revokedAt \in Int /\ revokedAt >= -1
          /\ \A j \in Joints : /\ heardAt[j] \in Nat /\ ts[j].lastStamp \in Nat
                               /\ ts[j].lastRosNow \in Nat
      BY <1>1, CommandNumbers
    <2>1. Offset = ros - now + back /\ Offset >= 0
      BY <1>1 DEF Offset, CutoffInv
    <2>2. now > back
      <3>1. PICK j \in Joints : TRUE
        BY JointAssumption
      <3> QED
        BY <2>0, <3>1
    <2>3. ros > 0
      BY <2>0, <2>1, <2>2
    <2>4. ros + lead > cutoff
      <3>1. CASE revokedAt = -1
        BY <1>1, <2>0, <2>3, <3>1 DEF CutoffInv, CutoffBounded
      <3>2. CASE revokedAt >= 0
        BY <1>1, <2>0, <2>1, <3>2 DEF CutoffInv, CutoffBounded
      <3> QED
        BY <2>0, <3>1, <3>2
    <2>5. \A j \in Joints : ros + lead > ts[j].lastStamp
      BY <1>1, <2>0, <2>1, <2>3 DEF CutoffInv, MemoryBounded
    <2>6. \A j \in Joints : ros + lead > LastStamp(ts[j], ros)
      BY <2>0, <2>3, <2>5 DEF LastStamp
    <2>7. \A j \in Joints : accepts(ts[j], ros + lead, ros)
      BY <2>0, <2>3, <2>6, StreamConstants DEF accepts
    <2> QED
      BY <2>4, <2>7 DEF Heard
  <1> QED
    BY <1>1, CutoffInvariant, CommandTypeCorrect, PTL
=============================================================================
