----------------------------- MODULE LazyMotion -----------------------------
(***************************************************************************)
(* advanceLocked() and integrateLocked() of MockRobotDriver                *)
(* (src/mock_robot_driver.cpp): how the motion that was recorded at the    *)
(* last call is caught up with the clock.                                  *)
(*                                                                         *)
(* A motion is a record: speed is velocity_limit_rad_s_, per tick and 0    *)
(* when infinite; positions and target are positions_ and                  *)
(* target_positions_ at last_update_, which is time 0; pending is          *)
(* pending_targets_, a sequence of [due, positions], the oldest first.     *)
(***************************************************************************)
EXTENDS Integers, Sequences

CONSTANT Joints

Unlimited == 0

(* integrateLocked() for a joint: at most speed per tick, and no overshoot *)
(* (also in a form that stops one step early).  An end that lies before    *)
(* last_update_ only sets the clock back.                                  *)
Clamp(step, limit) == IF step > limit THEN limit ELSE IF step < -limit THEN -limit ELSE step

Toward == [way \in Nat |-> [from \in Int |-> [to \in Int |-> from + Clamp(to - from, way)]]]

integrate_Short(speed, from, to, elapsed) ==
    IF elapsed < 0 THEN from
    ELSE IF speed = Unlimited THEN to
    ELSE [j \in Joints |->
             IF to[j] - from[j] \in -speed .. speed THEN from[j]
             ELSE Toward[speed * elapsed][from[j]][to[j]]]

integrate(speed, from, to, elapsed) ==
    IF elapsed < 0 THEN from
    ELSE IF speed = Unlimited THEN to
    ELSE [j \in Joints |-> Toward[speed * elapsed][from[j]][to[j]]]

(* How many commands the loop takes from the queue: it stops at the first  *)
(* that is not due.                                                        *)
DueBy(pending, now) ==
    CHOOSE n \in 0 .. Len(pending) :
        /\ \A i \in 1 .. n : pending[i].due <= now
        /\ n < Len(pending) => pending[n + 1].due > now

(* The target after n commands, and the time since when.                   *)
InForce(motion, n) == IF n = 0 THEN motion.target ELSE motion.pending[n].positions
Since(motion, n) == IF n = 0 THEN 0 ELSE motion.pending[n].due

(* Where the joints are at that time: the loop first moves them towards    *)
(* the target before.  (Also with the target switched first.)              *)
reached_TooSoon(motion) ==
    LET at[n \in 0 .. Len(motion.pending)] ==
            IF n = 0 THEN motion.positions
            ELSE integrate(motion.speed, at[n - 1], InForce(motion, n),
                           Since(motion, n) - Since(motion, n - 1))
    IN  at

reached(motion) ==
    LET at[n \in 0 .. Len(motion.pending)] ==
            IF n = 0 THEN motion.positions
            ELSE integrate(motion.speed, at[n - 1], InForce(motion, n - 1),
                           Since(motion, n) - Since(motion, n - 1))
    IN  at

(* advanceLocked(now): the due commands one by one, then the rest of the   *)
(* time; what still waits is on the new time scale.                        *)
arrived(motion, n, now) ==
    integrate(motion.speed, reached(motion)[n], InForce(motion, n), now - Since(motion, n))

advanced(motion, now) ==
    LET n == DueBy(motion.pending, now)
    IN  [speed |-> motion.speed,
         positions |-> arrived(motion, n, now),
         target |-> InForce(motion, n),
         pending |-> [i \in 1 .. Len(motion.pending) - n |->
                         [due |-> motion.pending[n + i].due - now,
                          positions |-> motion.pending[n + i].positions]]]
=============================================================================
