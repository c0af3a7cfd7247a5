-------------------------- MODULE MockRobotDriver --------------------------
(***************************************************************************)
(* MockRobotDriver (src/mock_robot_driver.cpp): a plugin that simulates a  *)
(* robot with latency, a speed limit and injected failures.                *)
(*                                                                         *)
(* The simulation is lazy: nothing moves between two calls, and a call     *)
(* first catches up with the clock through the commands that became due.   *)
(* Times are relative to last_update_.  Every method holds mutex_ and is   *)
(* one action; a call that only returns an error is none, among them every *)
(* write under inject_write_failure_.  Velocities, the constant position   *)
(* error and the two counts are left out.                                  *)
(*                                                                         *)
(* startJointStream() sets last_update_ to now without catching up, so a   *)
(* second call during a motion loses what it had covered, and leaves       *)
(* commands in the queue that were due before last_update_.                *)
(***************************************************************************)
EXTENDS Integers, Sequences, LazyMotion

CONSTANTS
    Positions,          \* positions considered, a range of integers
    Targets,            \* those of them that are commanded
    Speeds,             \* velocity_limit_rad_s, per tick; 0 when infinite
    Latencies,          \* latency_s, in ticks
    MaxPending,         \* bound on commands that wait
    MaxLag              \* bound on the time between two calls, and on how
                        \* long a command is overdue

ASSUME MockAssumption ==
    /\ Positions \subseteq Int /\ \A p, q \in Positions : p .. q \subseteq Positions
    /\ Targets \subseteq Positions
    /\ Speeds \subseteq Nat /\ Unlimited \in Speeds
    /\ Latencies \subseteq Nat /\ 0 \in Latencies
    /\ \E longest \in Latencies : \A l \in Latencies : l <= longest
    /\ MaxPending \in Nat /\ MaxLag \in Nat

VARIABLES
    configured, connected, active, streaming, stopped,
    disconnectInjected, \* inject_disconnect_
    speed,              \* velocity_limit_rad_s_
    latency,            \* latency_seconds_
    positions,          \* positions_, at last_update_
    target,             \* target_positions_, at last_update_
    pending,            \* pending_targets_: [due, positions], oldest first
    lag,                \* now - last_update_
    wanted,             \* what each joint was last commanded, or held at
    restarted           \* whether the last call started a running stream

phaseVars == <<configured, connected, active, streaming, stopped>>
limitVars == <<speed, latency>>
motionVars == <<positions, target, pending, lag, wanted>>
mockVars == <<phaseVars, disconnectInjected, limitVars, motionVars, restarted>>

Poses == [Joints -> Positions]

communicationAvailable == connected /\ ~disconnectInjected

-----------------------------------------------------------------------------
motion == [speed |-> speed, positions |-> positions, target |-> target, pending |-> pending]

(* advanceLocked(now()), the first call of every method that moves.        *)
Advance ==
    LET now == advanced(motion, lag)
    IN  /\ lag' = 0 /\ UNCHANGED wanted
        /\ positions' = now.positions /\ target' = now.target /\ pending' = now.pending

(* Advance, then hold; and a form that leaves commands in the queue.       *)
AdvanceAndHold_KeepsQueue ==
    /\ positions' = advanced(motion, lag).positions
    /\ target' = positions' /\ wanted' = positions'
    /\ pending' = advanced(motion, lag).pending
    /\ lag' = 0

AdvanceAndHold ==
    /\ positions' = advanced(motion, lag).positions
    /\ target' = positions' /\ wanted' = positions'
    /\ pending' = <<>>
    /\ lag' = 0

-----------------------------------------------------------------------------
MockInit ==
    /\ configured = FALSE /\ connected = FALSE /\ active = FALSE /\ streaming = FALSE
    /\ stopped = TRUE
    /\ disconnectInjected = FALSE
    /\ speed = Unlimited /\ latency = 0
    /\ positions \in {[j \in Joints |-> p] : p \in Targets} /\ target = positions
    /\ wanted = positions
    /\ pending = <<>> /\ lag = 0
    /\ restarted = FALSE

Parsed(limit, delay, noConnection) ==
    /\ speed' = limit /\ latency' = delay
    /\ disconnectInjected' = noConnection

configure(initial, limit, delay, noConnection) ==
    /\ ~connected /\ ~active
    /\ Parsed(limit, delay, noConnection)
    /\ positions' = [j \in Joints |-> initial] /\ target' = positions' /\ wanted' = positions'
    /\ pending' = <<>> /\ lag' = 0
    /\ configured' = TRUE /\ streaming' = FALSE /\ stopped' = TRUE
    /\ restarted' = FALSE
    /\ UNCHANGED <<connected, active>>

(* A bad parameter: those that were parsed before it count.                *)
ConfigureFails(limit, delay, noConnection) ==
    /\ ~connected /\ ~active
    /\ Parsed(limit, delay, noConnection)
    /\ restarted' = FALSE
    /\ UNCHANGED <<phaseVars, motionVars>>

connect ==
    /\ configured /\ ~active /\ ~disconnectInjected
    /\ connected' = TRUE
    /\ lag' = 0
    /\ restarted' = FALSE
    /\ UNCHANGED <<configured, active, streaming, stopped, disconnectInjected, limitVars,
                   positions, target, pending, wanted>>

disconnect ==
    /\ ~active
    /\ connected' = FALSE /\ streaming' = FALSE /\ stopped' = TRUE
    /\ pending' = <<>>
    /\ restarted' = FALSE
    /\ UNCHANGED <<configured, active, disconnectInjected, limitVars, positions, target,
                   lag, wanted>>

activate ==
    /\ ~active /\ communicationAvailable
    /\ active' = TRUE /\ stopped' = TRUE
    /\ lag' = 0
    /\ restarted' = FALSE
    /\ UNCHANGED <<configured, connected, streaming, disconnectInjected, limitVars,
                   positions, target, pending, wanted>>

deactivate ==
    /\ active
    /\ AdvanceAndHold
    /\ active' = FALSE /\ streaming' = FALSE /\ stopped' = TRUE
    /\ restarted' = FALSE
    /\ UNCHANGED <<configured, connected, disconnectInjected, limitVars>>

startJointStream ==
    /\ active /\ communicationAvailable
    /\ \A i \in DOMAIN pending : pending[i].due - lag >= -MaxLag
    /\ streaming' = TRUE
    /\ lag' = 0
    /\ pending' = [i \in DOMAIN pending |-> [pending[i] EXCEPT !.due = @ - lag]]
    /\ restarted' = streaming
    /\ UNCHANGED <<configured, connected, active, stopped, disconnectInjected, limitVars,
                   positions, target, wanted>>

stopJointStream ==
    /\ AdvanceAndHold
    /\ streaming' = FALSE /\ stopped' = TRUE
    /\ restarted' = FALSE
    /\ UNCHANGED <<configured, connected, active, disconnectInjected, limitVars>>

readJointState ==
    /\ active /\ streaming /\ communicationAvailable
    /\ Advance
    /\ restarted' = FALSE
    /\ UNCHANGED <<phaseVars, disconnectInjected, limitVars>>

(* The target a command changes: the newest one, not the one in force.     *)
newest_InForce(now) == now.target
newest(now) == InForce(now, Len(now.pending))

(* valid: every joint of the command is known and named once.              *)
writeJointCommand(command, valid) ==
    /\ active /\ streaming /\ communicationAvailable
    /\ LET now == advanced(motion, lag)
           next == [due |-> latency,
                    positions |-> [j \in Joints |->
                        IF j \in DOMAIN command THEN command[j] ELSE newest(now)[j]]]
       IN  /\ positions' = now.positions
           /\ target' = now.target
           /\ pending' = IF valid THEN Append(now.pending, next) ELSE now.pending
    /\ Len(pending') <= MaxPending
    /\ lag' = 0
    /\ wanted' = [j \in Joints |->
           IF valid /\ j \in DOMAIN command THEN command[j] ELSE wanted[j]]
    /\ stopped' = (stopped /\ ~valid)
    /\ restarted' = FALSE
    /\ UNCHANGED <<configured, connected, active, streaming, disconnectInjected, limitVars>>

stopAll ==
    /\ IF configured THEN AdvanceAndHold ELSE UNCHANGED motionVars
    /\ stopped' = TRUE
    /\ restarted' = FALSE
    /\ UNCHANGED <<configured, connected, active, streaming, disconnectInjected, limitVars>>

setDisconnectInjected(enabled) ==
    /\ disconnectInjected' = enabled
    /\ restarted' = FALSE
    /\ UNCHANGED <<phaseVars, limitVars, motionVars>>

MockTick ==
    /\ streaming /\ lag < MaxLag
    /\ lag' = lag + 1
    /\ restarted' = FALSE
    /\ UNCHANGED <<phaseVars, disconnectInjected, limitVars, positions, target, pending, wanted>>

-----------------------------------------------------------------------------
MockCommands ==
    {[j \in members |-> p] : members \in (SUBSET Joints) \ {{}}, p \in Targets}

MockNext ==
    \/ \E limit \in Speeds, delay \in Latencies, noConnection \in BOOLEAN :
          \/ \E initial \in Targets : configure(initial, limit, delay, noConnection)
          \/ ConfigureFails(limit, delay, noConnection)
    \/ connect \/ disconnect \/ activate \/ deactivate
    \/ startJointStream \/ stopJointStream
    \/ readJointState
    \/ \E command \in MockCommands : writeJointCommand(command, TRUE)
    \/ writeJointCommand(<<>>, FALSE)
    \/ stopAll
    \/ \E enabled \in BOOLEAN : setDisconnectInjected(enabled)
    \/ MockTick

MockSpec == MockInit /\ [][MockNext]_mockVars

(* Time passes, and the control tick reads.                                *)
FairMockSpec == MockSpec /\ SF_mockVars(MockTick) /\ SF_mockVars(readJointState)

-----------------------------------------------------------------------------
(* Types; commands wait in the order in which they become due, none longer *)
(* than the latency.                                                       *)
MockTypeOK ==
    /\ configured \in BOOLEAN /\ connected \in BOOLEAN /\ active \in BOOLEAN
    /\ streaming \in BOOLEAN /\ stopped \in BOOLEAN
    /\ (streaming => active) /\ (active => connected) /\ (connected => configured)
    /\ disconnectInjected \in BOOLEAN
    /\ speed \in Speeds /\ latency \in Latencies
    /\ positions \in Poses /\ target \in Poses
    /\ wanted \in Poses
    /\ pending \in Seq([due : -MaxLag .. latency, positions : Poses])
    /\ \A i, k \in DOMAIN pending : i < k => pending[i].due <= pending[k].due
    /\ lag \in 0 .. MaxLag
    /\ restarted \in BOOLEAN

(* A robot that was stopped, or whose stream is not running, is at rest:   *)
(* no command that was waiting or under way is carried out afterwards,     *)
(* whatever order of lifecycle calls follows.                              *)
StoppedIsAtRest == stopped \/ ~streaming => pending = <<>> /\ target = positions

(* The robot as it is now, had somebody just looked.                       *)
Place == arrived(motion, DueBy(pending, lag), lag)
Following(d) == InForce(motion, DueBy(pending, lag + d))
Horizon == CHOOSE m \in Latencies : \A l \in Latencies : l <= m

Robot == INSTANCE DelayedRobot WITH
    position <- Place, goal <- [d \in 0 .. Horizon |-> Following(d)]

(* The lazy simulation is a robot that moves by itself: when and how often *)
(* it is read, polled or sent bad commands has no influence on its motion, *)
(* and a command to some joints leaves the others to their latest one.     *)
(* Only a second start of a running stream disturbs it, and that neither   *)
(* loses a command nor makes one take effect earlier or later.             *)
ImplementsRobot == Robot!RobotSpec

(* The last place each joint was told to be at is where the queue ends,    *)
(* for the joints that later commands did not name too.                    *)
Final == InForce(motion, Len(pending))
NewestWins == Final = wanted

(* Left alone, the robot arrives where it was last told to be and stays    *)
(* there, however the ticks and the reads alternate, unless the stream is  *)
(* started over and over.                                                  *)
TargetReached ==
    <>[](streaming /\ communicationAvailable) /\ <>[][FALSE]_wanted /\ <>[]~restarted
        => <>[](positions = wanted)
=============================================================================
