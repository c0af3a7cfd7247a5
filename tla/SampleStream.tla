--------------------------- MODULE SampleStream ----------------------------
(***************************************************************************)
(* One source stream in front of a SampleTimestamp: a source that stamps   *)
(* its samples with a ROS clock (perhaps ahead by a constant lead), a      *)
(* network that delays, loses, repeats and reorders them, a ROS clock that *)
(* may be stepped, and the steady clock on which ages are kept.  A source  *)
(* that freezes and keeps sending its last sample is a network that        *)
(* repeats it.                                                             *)
(***************************************************************************)
EXTENDS SampleTimestamp, FiniteSets

CONSTANTS
    MaxTime,        \* bound on the steady clock
    MaxRos,         \* bound on the ROS clock
    MaxSent,        \* bound on the number of samples sent
    Leads,          \* how far the source's clock may be ahead
    ForwardSteps,   \* by how much the ROS clock may be set forward
    BackSteps,      \* by how much it may be set back
    MaxBack         \* bound on all it is set back together

ASSUME StreamAssumption ==
    /\ MaxTime \in Nat /\ MaxRos \in Nat /\ MaxSent \in Nat
    /\ Leads \subseteq Nat /\ Leads # {}
    /\ ForwardSteps \subseteq Nat /\ BackSteps \subseteq Nat /\ MaxBack \in Nat

VARIABLES
    now,            \* the steady clock
    ros,            \* the ROS clock
    back,           \* by how much the ROS clock was set back so far
    lead,           \* of the source's clock over the ROS clock
    sent,           \* samples that are, or were, on their way
    ts,             \* the SampleTimestamp object
    sample          \* the latest accepted sample

streamVars == <<now, ros, back, lead, sent, ts, sample>>

Samples == [stamp : Nat, taken : Nat]
NoSample == [stamp |-> 0, taken |-> 0, sampled |-> 0]

StreamInit ==
    /\ now = 0 /\ ros = 0 /\ back = 0
    /\ lead \in Leads
    /\ sent = {}
    /\ ts = NeverAccepted
    /\ sample = NoSample

(* The source takes a sample; a source without a clock stamps it zero.     *)
Take(stamp) ==
    /\ Cardinality(sent) < MaxSent
    /\ sent' = sent \union {[stamp |-> stamp, taken |-> now]}
    /\ UNCHANGED <<now, ros, back, lead, ts, sample>>

(* stateCallback, reduced to what it does with a well-formed message.      *)
Deliver(m) ==
    /\ ts' = accept(ts, m.stamp, ros)
    /\ sample' = IF accepts(ts, m.stamp, ros)
                 THEN [stamp |-> m.stamp, taken |-> m.taken,
                       sampled |-> sampled(m.stamp, ros, now)]
                 ELSE sample
    /\ UNCHANGED <<now, ros, back, lead, sent>>

Advance ==
    /\ now < MaxTime /\ ros < MaxRos
    /\ now' = now + 1 /\ ros' = ros + 1
    /\ UNCHANGED <<back, lead, sent, ts, sample>>

StepForward(step) ==
    /\ ros + step <= MaxRos
    /\ ros' = ros + step
    /\ UNCHANGED <<now, back, lead, sent, ts, sample>>

StepBack(step) ==
    /\ step <= ros /\ back + step <= MaxBack
    /\ ros' = ros - step
    /\ back' = back + step
    /\ UNCHANGED <<now, lead, sent, ts, sample>>

StreamNext ==
    \/ \E stamp \in {0, ros + lead} : Take(stamp)
    \/ \E m \in sent : Deliver(m)
    \/ Advance
    \/ \E step \in ForwardSteps : StepForward(step)
    \/ \E step \in BackSteps : StepBack(step)

StreamSpec == StreamInit /\ [][StreamNext]_streamVars

-----------------------------------------------------------------------------
(* Types; and no sample is ever given a time after now, which read() and   *)
(* stateFreshLocked() would take for a sample that is not there.           *)
StreamTypeOK ==
    /\ now \in Nat /\ ros \in Nat /\ back \in 0 .. MaxBack /\ lead \in Leads
    /\ sent \subseteq Samples
    /\ ts \in [lastStamp : Nat, lastRosNow : Nat]
    /\ sample \in [stamp : Nat, taken : Nat, sampled : Int]
    /\ sample.sampled <= now

(* Whatever the network does and however the ROS clock is set, an accepted *)
(* sample is given a steady-clock time later than the moment it was taken  *)
(* by no more than the lead of the source's clock and what the ROS clock   *)
(* was set back: feedback and commands never look younger than that.       *)
AgeIsHonest ==
    sample # NoSample => sample.sampled <= sample.taken + lead + back

(* Until the ROS clock is set back, a repeated, frozen or reordered sample *)
(* never replaces the accepted one.                                        *)
StampsIncrease ==
    [][back' = 0 /\ sample' # sample => sample'.stamp > sample.stamp]_streamVars

(* A sample that was accepted and comes again never refreshes its own age  *)
(* (sample_timestamp.hpp:10: "do not let repeated source samples refresh   *)
(* their age").                                                            *)
RepeatsNeverRefresh ==
    [][sample'.sampled # sample.sampled
        => <<sample'.stamp, sample'.taken>> # <<sample.stamp, sample.taken>>]_streamVars
=============================================================================
