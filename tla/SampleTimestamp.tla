-------------------------- MODULE SampleTimestamp --------------------------
(***************************************************************************)
(* SampleTimestamp::accept (sample_timestamp.hpp) as functions of the      *)
(* object's two members, the stamp and the two clocks.  One object guards  *)
(* one source stream: a vendor JointState topic, or one commanded joint.   *)
(***************************************************************************)
EXTENDS Integers

CONSTANTS
    MaxAge,         \* max_age, in ticks
    Skew            \* how far in the future a stamp may lie (50 ms)

ASSUME AgeAssumption == MaxAge \in Nat \ {0}
ASSUME SkewAssumption == Skew \in Nat

NeverAccepted == [lastStamp |-> 0, lastRosNow |-> 0]

(* A ROS clock that went back, even by one step, makes the stream new.     *)
LastStamp(ts, rosNow) == IF rosNow < ts.lastRosNow THEN 0 ELSE ts.lastStamp

(* Without the test of stamp <= last_stamp_.                               *)
accepts_Repeated(ts, stamp, rosNow) ==
    /\ stamp > 0 /\ rosNow >= 0
    /\ rosNow - stamp < MaxAge
    /\ rosNow - stamp >= -Skew

accepts(ts, stamp, rosNow) ==
    /\ stamp > 0 /\ rosNow >= 0
    /\ stamp > LastStamp(ts, rosNow)
    /\ rosNow - stamp < MaxAge
    /\ rosNow - stamp >= -Skew

(* The members afterwards; the clock is remembered on a rejection too.     *)
accept(ts, stamp, rosNow) ==
    [lastStamp |-> IF accepts(ts, stamp, rosNow) THEN stamp ELSE LastStamp(ts, rosNow),
     lastRosNow |-> rosNow]

(* A sample dated by its arrival.                                          *)
sampled_AtReceipt(stamp, rosNow, received) == received

(* The steady-clock time an accepted sample is given: transport age is     *)
(* preserved, a stamp from the future counts as taken on receipt.          *)
sampled(stamp, rosNow, received) ==
    IF rosNow > stamp THEN received - (rosNow - stamp) ELSE received
=============================================================================
