----------------------------- MODULE MotionGate -----------------------------
(***************************************************************************)
(* What DriverRuntime and GripperRuntime promise to the nodes that own     *)
(* them, without time, plugins or counters: a gate in front of the robot.  *)
(*                                                                         *)
(*   "off"      no runtime object exists; the last one stopped the robot   *)
(*   "lost"     no runtime object exists; the last one's process died      *)
(*   "live"     commands pass and the watchdog is armed                    *)
(*   "idle"     the robot was told to hold; the next command passes        *)
(*   "waiting"  feedback is missing; no command passes                     *)
(*   "faulted"  a fault is latched; only a restart opens the gate again    *)
(*                                                                         *)
(* "moving" says that the last thing the plugin was told is a motion.      *)
(***************************************************************************)

VARIABLES gate, moving

gateVars == <<gate, moving>>

GateStates == {"off", "lost", "live", "idle", "waiting", "faulted"}

GateInit == gate = "off" /\ moving = FALSE

(* A new runtime may inherit a motion that a crashed one left behind.      *)
Open == gate \in {"off", "lost"} /\ gate' = "live" /\ UNCHANGED moving

Accept == gate \in {"live", "idle"} /\ gate' = "live" /\ moving' = TRUE

Halt == gate \in {"live", "idle"} /\ UNCHANGED gate /\ moving' = FALSE

Expire == gate = "live" /\ gate' = "idle" /\ moving' = FALSE

Interrupt == gate \in {"live", "idle"} /\ gate' = "waiting" /\ moving' = FALSE

(* Feedback that returns never goes straight back to "live".               *)
Resume == gate = "waiting" /\ gate' = "idle" /\ moving' = FALSE

Fault == gate \in {"live", "idle", "waiting"} /\ gate' = "faulted" /\ moving' = FALSE

(* The destructor, and a constructor that fails, stop the robot.           *)
Close == gate' = "off" /\ moving' = FALSE

(* A process that dies stops nothing.                                      *)
Lose == gate \notin {"off", "lost"} /\ gate' = "lost" /\ UNCHANGED moving

GateNext == \/ Open \/ Accept \/ Halt \/ Expire
            \/ Interrupt \/ Resume \/ Fault \/ Close \/ Lose

GateSpec == GateInit /\ [][GateNext]_gateVars
=============================================================================
