--------------------------- MODULE CommandStream ---------------------------
(***************************************************************************)
(* The command stream of HumanoidDriverRuntimeNode with hc_safety, on the  *)
(* clocks and the network of SampleStream: the stamps of each joint, the   *)
(* cutoff of the last revocation, and a ROS clock that may be stepped at   *)
(* any time.  DriverNode, whose stamps are ages, has no such clock.        *)
(*                                                                         *)
(* ts and sample are functions here: the SampleTimestamp of each joint and *)
(* its pending command.  A message that is refused changes nothing, unlike *)
(* one that SampleStream delivers: the members are updated in a copy.      *)
(* Feedback is present; when it is lost the node revokes.                  *)
(***************************************************************************)
EXTENDS SampleStream

CONSTANT Joints

ASSUME JointAssumption == Joints # {}

VARIABLES
    stopped,        \* stopped_
    cutoff,         \* command_cutoff_
    revokedAt,      \* history: when that was, on the steady clock; or -1
    heardAt         \* history: when each joint's last command was accepted

cutoffVars == <<stopped, cutoff, revokedAt>>
commandVars == <<streamVars, cutoffVars, heardAt>>

NothingPending == [j \in Joints |-> NoSample]

CommandInit ==
    /\ now = 0 /\ ros = 0 /\ back = 0
    /\ lead \in Leads
    /\ sent = {}
    /\ ts = [j \in Joints |-> NeverAccepted]
    /\ sample = NothingPending
    /\ stopped = FALSE
    /\ cutoff = 0 /\ revokedAt = -1
    /\ heardAt = [j \in Joints |-> 0]

(* commandCallback(): what a stamp must pass; and a form that relies on    *)
(* stopped_ alone.                                                         *)
Heard_NoCutoff(members, stamp) ==
    /\ ~stopped
    /\ \A j \in members : accepts(ts[j], stamp, ros)

Heard(members, stamp) ==
    /\ ~stopped
    /\ stamp > cutoff
    /\ \A j \in members : accepts(ts[j], stamp, ros)

CommandCallback(m, members) ==
    /\ Heard(members, m.stamp)
    /\ ts' = [j \in Joints |->
           IF j \in members THEN accept(ts[j], m.stamp, ros) ELSE ts[j]]
    /\ sample' = [j \in Joints |->
           IF j \in members
           THEN [stamp |-> m.stamp, taken |-> m.taken, sampled |-> sampled(m.stamp, ros, now)]
           ELSE sample[j]]
    /\ heardAt' = [j \in Joints |-> IF j \in members THEN now ELSE heardAt[j]]
    /\ UNCHANGED <<now, ros, back, lead, sent, cutoffVars>>

(* revoke(true), by an emergency stop, a loss of feedback or an enable     *)
(* message, after which only the latter may start the node again; and a    *)
(* cutoff that leaves room for the stamps that may lie in the future.      *)
Cutoff_Skewed == ros + Skew
Cutoff == ros

Revoke(enabled) ==
    /\ sample' = NothingPending
    /\ cutoff' = Cutoff /\ revokedAt' = now
    /\ stopped' = ~enabled
    /\ UNCHANGED <<now, ros, back, lead, sent, ts, heardAt>>

(* flushCommands() empties the queue.                                      *)
Flush ==
    /\ ~stopped
    /\ sample' = NothingPending
    /\ UNCHANGED <<now, ros, back, lead, sent, ts, cutoffVars, heardAt>>

ClockStep ==
    \/ \E stamp \in {0, ros + lead} : Take(stamp)
    \/ Advance
    \/ \E step \in ForwardSteps : StepForward(step)
    \/ \E step \in BackSteps : StepBack(step)

CommandNext ==
    \/ ClockStep /\ UNCHANGED <<cutoffVars, heardAt>>
    \/ \E m \in sent, members \in (SUBSET Joints) \ {{}} : CommandCallback(m, members)
    \/ \E enabled \in BOOLEAN : Revoke(enabled)
    \/ Flush

CommandSpec == CommandInit /\ [][CommandNext]_commandVars

-----------------------------------------------------------------------------
(* Types; a pending command is never dated after now, which would extend   *)
(* its validity.                                                           *)
CommandTypeOK ==
    /\ now \in Nat /\ ros \in Nat /\ back \in 0 .. MaxBack /\ lead \in Leads
    /\ sent \subseteq Samples
    /\ ts \in [Joints -> [lastStamp : Nat, lastRosNow : Nat]]
    /\ sample \in [Joints -> [stamp : Nat, taken : Nat, sampled : Int]]
    /\ \A j \in Joints : sample[j].sampled <= now
    /\ stopped \in BOOLEAN /\ cutoff \in Nat
    /\ revokedAt \in -1 .. now
    /\ heardAt \in [Joints -> 0 .. now]

(* A command that was given before the last revocation is not queued after *)
(* it, except for one given within the lead of the sender's clock, plus    *)
(* what the ROS clock was set back: however late, repeated or reordered it *)
(* arrives, the cutoff keeps it out although the node was enabled again.   *)
RevokedIsGone ==
    \A j \in Joints : sample[j] # NoSample => revokedAt <= sample[j].taken + lead + back

(* The cutoff and the stamps of earlier commands do not deafen a node that *)
(* was enabled: once the clock has run for as long as it was set back, a   *)
(* command given now and delivered at once is accepted, for any joints.    *)
FreshIsHeard ==
    /\ ~stopped /\ lead <= Skew
    /\ now > revokedAt + back
    /\ \A j \in Joints : now > heardAt[j] + back
    => Heard(Joints, ros + lead)
=============================================================================
