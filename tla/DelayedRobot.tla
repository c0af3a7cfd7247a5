---------------------------- MODULE DelayedRobot ----------------------------
(***************************************************************************)
(* What MockRobotDriver simulates: a robot that starts to follow a command *)
(* latency ticks after it was given, at a limited speed or at once, and    *)
(* that stays where it is when it is stopped.  A command to some joints    *)
(* leaves the others to what they were told last.  Nobody has to look at   *)
(* it for it to move, and looking at it changes nothing; but starting over *)
(* puts a robot with a speed limit somewhere else.                         *)
(***************************************************************************)
EXTENDS Integers

CONSTANTS
    Joints,
    Positions,          \* a range of integers
    Speeds,             \* largest step of a tick; Unlimited for a jump
    Latencies

VARIABLES
    position,           \* where each joint is now
    goal,               \* what each joint will be following in d ticks
    wanted,             \* what each joint was last told
    restarted,          \* whether the robot was just started over
    speed,
    latency

robotVars == <<position, goal, wanted, restarted, speed, latency>>

Unlimited == 0
Horizon == CHOOSE m \in Latencies : \A l \in Latencies : l <= m
Always(target) == [d \in 0 .. Horizon |-> target]

(* One tick towards a target, with a speed limit.                          *)
Nearer(from, to) ==
    IF from < to THEN (IF to - from < speed THEN to ELSE from + speed)
    ELSE (IF from - to < speed THEN to ELSE from - speed)

Follow(from, target) ==
    IF speed = Unlimited THEN target ELSE [j \in Joints |-> Nearer(from[j], target[j])]

(* What is followed when a target waits for the latency, and a tick later. *)
Then(course, target) == [d \in 0 .. Horizon |-> IF d >= latency THEN target ELSE course[d]]
Later(course) == [d \in 0 .. Horizon |-> course[IF d < Horizon THEN d + 1 ELSE d]]

(* A robot without a speed limit is where it is told to be.                *)
Settle(from, target) == IF speed = Unlimited THEN target ELSE from

-----------------------------------------------------------------------------
RobotInit ==
    /\ position \in [Joints -> Positions] /\ goal = Always(position) /\ wanted = position
    /\ restarted = FALSE
    /\ speed \in Speeds /\ latency \in Latencies

(* A robot at rest may be set up anew.                                     *)
Setup ==
    /\ wanted = position /\ goal = Always(position) /\ ~restarted'
    /\ wanted' = position'
    /\ position' \in [Joints -> Positions] /\ goal' = Always(position')
    /\ speed' \in Speeds /\ latency' \in Latencies

(* After the latency, the joints of the command follow it.                 *)
Command(command) ==
    /\ wanted' = [j \in Joints |-> IF j \in DOMAIN command THEN command[j] ELSE wanted[j]]
    /\ goal' = Then(goal, wanted')
    /\ position' = Settle(position, goal'[0])
    /\ UNCHANGED <<speed, latency>> /\ ~restarted'

Stop ==
    /\ wanted' = position /\ goal' = Always(position)
    /\ UNCHANGED <<position, speed, latency>> /\ ~restarted'

Tick ==
    /\ UNCHANGED <<wanted, speed, latency>> /\ ~restarted'
    /\ goal' = Later(goal)
    /\ position' = Settle(Follow(position, goal[0]), goal'[0])

Look == UNCHANGED <<position, goal, wanted, speed, latency>> /\ ~restarted'

(* What the robot has been told stays as it is.                            *)
StartOver ==
    /\ restarted'
    /\ position' \in [Joints -> Positions]
    /\ speed = Unlimited => position' = position
    /\ UNCHANGED <<goal, wanted, speed, latency>>

-----------------------------------------------------------------------------
RobotNext ==
    \/ Setup \/ Stop \/ Tick \/ Look \/ StartOver
    \/ \E members \in SUBSET Joints : \E command \in [members -> Positions] : Command(command)

RobotSpec == RobotInit /\ [][RobotNext]_robotVars
=============================================================================
