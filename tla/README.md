# A formal model of humanoid_driver_runtime

`humanoid_driver_runtime` is a ROS 2 package that stands between the
controllers of a humanoid robot and its hardware drivers. It owns one hardware
plugin, decides which commands may reach it, and ends the robot's motion when
commands stop, feedback is lost, or the hardware reports a failure. This
directory holds TLA+ specifications of that program, the TLC configurations
that check them on small instances, and TLAPS proofs of what matters most about
them for every value of the constants.

Every definition is written from the C++ under `src/` and `include/`;
`PROJECT.json` maps each to the lines it models. Run a check with
`tlc -config MC_DriverNode.cfg MC_DriverNode`, a proof with
`tlapm DriverRuntimeProofs.tla`.

1. [Inventory](#1-inventory)
2. [Modules](#2-modules)
3. [From code to model](#3-from-code-to-model)
4. [Runs](#4-runs)
5. [Fairness](#5-fairness)
6. [Proofs](#6-proofs)
7. [Where the code and its documents disagree](#7-where-the-code-and-its-documents-disagree)
8. [What is not modelled](#8-what-is-not-modelled)
9. [Plan](#9-plan)

## 1. Inventory

```
 vendor driver --JointState--> RosTopicRobotDriver (plugin) <--commands-- DriverRuntime
                                     |  samples, health           ^   read/write/stop/
                                     +----------------------------+   enforceWatchdog/status
                                                                  |
 controllers --JointCommand--> HumanoidDriverRuntimeNode ---------+
 safety ------stop, enable-->        |  control timer, diagnostics timer
                                     +--> JointState, diagnostics, hardware ready

 GripperCommand, stop, enable --> HumanoidGripperRuntimeNode --> GripperRuntime --> gripper plugin
```

| Component | State | Operations | What makes it correct |
|---|---|---|---|
| **DriverRuntime** (`driver_runtime.cpp`) | latches `watchdog_latched_`, `driver_fault_latched_`, `feedback_waiting_`; five counters; the last stop's reason; the time of the last command; the plugin | constructor (configure, connect, start), `read`, `write`, `enforceWatchdog`, `stop`, `status`, destructor. One mutex, held through each method, calls to the plugin included | no motion behind a latch; a fault is final; recovery leaves the robot holding; a motion nobody renews ends; an interruption is counted once |
| **SampleTimestamp** (`sample_timestamp.hpp`) | last accepted stamp, last ROS time | `accept` | repeated, frozen, old and future samples do not refresh an age; transport delay stays in the age |
| **HumanoidDriverRuntimeNode** | `feedback_ready_`, `stopped_`, `command_cutoff_`, a pending command and a `SampleTimestamp` per joint, the latched ready topic, the activity log | control tick, command callback, flush by group, emergency stop, output enable, diagnostics, ready | a stop holds until an enable; no target is driven after its deadline, nor one older than a revocation; "ready" is never claimed by a node that is stopped or blind |
| **RosTopicRobotDriver** | whether feedback came, the latest sample, its `SampleTimestamp`, startup deadline, lifecycle flags, last command targets | lifecycle calls, state callback, `readJointState`, `writeJointCommand`, `stopAll`, `health` | silence makes the runtime wait and is no fault; motion does not outlive feedback; a wait ends when feedback returns; what it remembers to have sent is what it sent |
| **GripperRuntime** (`gripper_runtime.cpp`) | as DriverRuntime, without the feedback wait; three counters | as DriverRuntime | as DriverRuntime |
| **HumanoidGripperRuntimeNode** | `feedback_ready_`, `stopped_`, `command_cutoff_`, a stamp per gripper | control tick, command (written at once, not queued), stop, enable, diagnostics | stops hold; no command from while it was stopped drives after an enable; a motion nobody sees ends |
| **MockRobotDriver** (`mock_robot_driver.cpp`) | lifecycle flags, simulated positions and targets, a latency queue, injected faults | the plugin interface; every call first catches up with the clock | a command accepted before a stop is not carried out after it; how often it is looked at does not change where it goes; a command to some joints leaves the others to their latest one |
| **JointActivityLog** (`activity_log.hpp`) | per group, for what it was measured to do and for what it was told: a state, a path of at most 8 states, a count of changes, the time of the last message | `sample` and `unavailable` from the control tick, `acceptedCommand` from a flush, `poll` from the diagnostics timer | a message accounts for every change; slow drift is movement; a silence is noticed; at most one message a second, and none held back for ever |
| **DiagnosticsRuntime** | none | formats a status | - |

**How they interact.** `rclcpp::spin` runs a node's handlers one at a time, and
each handler makes several calls to its runtime. The ROS topic plugin's
subscription lives in the same executor, so feedback arrives between handlers.
The plugin is code the runtime does not control: it may answer anything, throw,
and change its answer between two calls of one method (`health()` after
`readJointState()`).

**What is hard.**

- `status()` looks like a query, but it stops the robot and changes the latches.
  The diagnostics timer and every publication of the ready topic call it.
- Three latches, a stop and five counters, changed by five methods in any order.
- A command is looked at on receipt, waits in the queue, is grouped, and is
  written after the writes of other groups: four moments for its deadline, for a
  revocation and for a loss of feedback to fall between.
- Two clocks. Validity is kept on the steady clock, stamps are on the ROS clock,
  which can be simulated, not yet started, or set back.
- Two limits on the age of feedback, with two comparisons: the plugin's
  `state_timeout` (`<=`) and the runtime's `feedback_max_age` (`<`).
- A process that crashes leaves a robot that carries on with its last command.
- A command to one joint is published for its whole group, the others filled in
  from memory. A publication can fail after some of its groups, and a stop that
  does is not told to anybody.
- The mock moves only when it is called, and must behave as if it moved by itself.

`PROJECT.json` lists each hazard at its line, with the properties that address it.

## 2. Modules

| Module | Models | Extends |
|---|---|---|
| `MotionGate` | the abstract specification: what a runtime promises, as a gate that is off, lost, live, idle, waiting or faulted | - |
| `DriverRuntime` | `driver_runtime.cpp`, over a plugin that answers anything | `Integers` |
| `SampleTimestamp` | `sample_timestamp.hpp`, as functions | `Integers` |
| `SampleStream` | a source, a network and two clocks around a `SampleTimestamp` | `SampleTimestamp` |
| `CommandStream` | the command stream of the driver node with `hc_safety`, on stamps, a network and two clocks | `SampleStream` |
| `DriverNode` | `humanoid_driver_runtime_node.cpp` around its runtime | `DriverRuntime` |
| `DriverNodeHistory` | `DriverNode` with two history variables on interruptions of feedback | `DriverNode` |
| `RosTopicNode` | the node with the built-in ROS topic plugin instead of an arbitrary one: ages of feedback | `DriverNodeHistory` |
| `RosTopicOutput` | the runtime with the ROS topic plugin: what is published to which group | `DriverRuntime` |
| `GripperRuntime` | `gripper_runtime.cpp`, over a plugin that answers anything | `Integers` |
| `GripperNode` | `humanoid_gripper_runtime_node.cpp` around its runtime, from process to process | `GripperRuntime` |
| `DelayedRobot` | an abstract specification: a robot with latency and a speed limit that moves by itself | `Integers` |
| `LazyMotion` | how the mock catches up with the clock, as functions of a motion record | `Integers`, `Sequences` |
| `MockRobotDriver` | `mock_robot_driver.cpp`, a lazy simulation | `LazyMotion` |
| `ActivityLog` | `activity_log.hpp` | `SequencesExt` |
| `*Proofs` | theorems about the module they are named after (`StreamProofs` about `SampleStream` and `CommandStream`, `GripperNodeProofs` about both gripper modules) | the module, `TLAPS` |
| `MC_*` | constants for TLC | the module |

`DriverRuntime` and `GripperRuntime` both implement `MotionGate` through a
refinement mapping; it is a PROPERTY of the runs `runtime` and `gripper_node`
and a theorem of each. `MockRobotDriver` implements `DelayedRobot`: the mapping
catches up with the clock, so that reading the mock maps to a stutter. The gate
tells a runtime that ended by itself (`"off"`) from a process that died
(`"lost"`): `Lose` leaves a motion behind, while `Close` ends it, so that a
destructor, and a constructor that fails, must tell the robot to stop. The
runtimes carry a history variable for this, `abandoned`. The mapping of the mock
has two, `wanted` (below) and `restarted`.

Composition is by conjunction: an action of a node conjoins the action of the runtime for
the call it makes, so that every step of the node is a step of the runtime or
leaves it alone. That is a theorem too (`RuntimeInNode`), and carries what is
proved of the runtime over to the node.

Each module also defines plausible bugs of the code as operators
(`Listening_Stopped`, `Expired_ByNewest`, ...), beside the definition they
distort. Nothing uses them: replacing the definition by one of them breaks the
property that `PROJECT.json` names, which shows that the property depends on
that piece of code.

## 3. From code to model

**DriverRuntime.** One action per public method (`Read`, `Write`,
`EnforceWatchdog`, `Stop`, `Status`), because each holds `mutex_` throughout;
`Construct`, `ConstructFails` (a lifecycle call of the plugin failed: the plugin
is told to stop and no object exists), `Destroy`, and `Crash`, after which no
destructor runs. What the
plugin answers to the calls of a method are parameters of its action: the read
or write result, the health, and `held`, whether `stopAll()` succeeded (twice in
`read()`, which may stop twice). `Stop` has the parameter `driver_fault` of the
method, by which a caller can latch a fault; the nodes always pass FALSE. `WriteAnswers` and `ReadAnswers` include what
the runtime finds itself (an expired deadline, an invalid command, an invalid
sample) and stand for exceptions as well: the code treats them like a failure.

`output` is not a member of the class. It is what the plugin was last told:
`"motion"` after an accepted command, `"hold"` after a successful `stopAll()`,
`"unheld"` after one that failed. The code discards that answer in every stop
but the one of a recovery, so it is a third value and not a violation; the
properties speak of `"motion"`, a robot that nobody has tried to stop; what is
left of a stop that failed is the subject of `RosTopicOutput`. A stop
that failed is not retried as such (behind a latched fault the driver runtime
stops nothing again), and the model shows that as it is. A write that failed leaves a robot that may have moved, so it
counts as told before it is stopped.

Counters are `uint64_t`; the model has them wrap at `MaxCount`. Time is the age
of the last command, which stops growing just above the timeout because the
code compares it with nothing else.

**SampleTimestamp, SampleStream.** `accept` is a function of the two members.
The stream gives it stamps out of a set of samples that are never removed, which
is delay, loss, repetition and reordering in one, and steps the ROS clock
forward and back. A sample carries the steady time it was really taken, which
the code cannot see and the property compares with what the code computes. Int64
nanoseconds become ticks; no sum in the code comes near the width for a clock
that is one.

**DriverNode.** Each handler is a first action with its own effects, which
leaves in `todo` the calls to the runtime it still has to make; each of those is
an action, since each takes the mutex and gets its own answers. `Idle` (nothing
left to do) guards every first action: the executor runs one handler at a time.
`flushCommands()` turns `pending` into `batch`, one command per group of those
joints that are still valid, and `WriteGroup` takes them one at a time, with
time passing in between, because each write looks at the clock again. `batch`
is a set: the code's order of groups is fixed, the model's is any.

Stamps are ages, since the code compares a stamp only with the last stamp, the
cutoff and the maximum age. `pending[j]` is the time the command stays valid,
0 for none. `CommandCallback` stands for a well-formed message; the others are
dropped whole. While `rosStarted` is FALSE a simulated ROS clock has not passed
the age of every fresh sample, so that a control tick may or may not be able to
date the one it read; the ROS clock does not go back in this module.

`driven` is the command that the plugin accepted in the last step, for the
properties to look at.

**RosTopicNode.** The plugin's answers become functions of its state:
`readJointState`, `writeJointCommand`, `stopAll`, `topicHealth`, and the action
`StateCallback`. The node's actions are those of `DriverNode` with these answers
put in for the arbitrary ones. `later`, 0 or 1, is the tick that may pass
between a method's first look at the feedback and the health it asks for, and
for a `status()` between the start of its handler and the health it asks for.
Ticks are bounded by `ControlPeriod` between two control ticks; the plugin is
configured and streaming, and publishing succeeds.

**CommandStream.** Here stamps are stamps: messages with the ROS time at which
they were given are delivered at any later time, any number of times, to the
`SampleTimestamp` of each joint they name, and compared with the cutoff. The ROS
clock is stepped both ways, which `DriverNode` with its ages cannot express. A
refused message changes nothing, since the code works on a copy of the members.
A revocation and the enable that may follow it are one action. `revokedAt`,
`heardAt` and the `taken` of a command are on the steady clock and are seen by
the properties only.

**RosTopicOutput.** The methods of the runtime are those of `DriverRuntime`,
conjoined with what `RosTopicRobotDriver` does in the same call. `told` is the
last vendor position each joint was sent and `targets` is `position_targets_`.
`done`, a parameter of every publication, is the set of groups it reached: all of
them, or those before the group whose publisher failed. `partial` remembers that
some groups got a message and others did not, and whether it was a command.
Logical and vendor positions are converted as the code does, with any scale but 0
and an offset per joint. The numbers are integers: the logical unit is one so
fine that every scale, a ratio of the two units, and every offset is a whole
number of it. A measured position is then converted exactly, while a commanded
one may lie between two of the vendor's, and the division of `toVendor` rounds
it. So no property assumes that converting there and back is the identity, which
it is in one direction only. Commands have the positions `LogicalTargets`. Ages are left to `RosTopicNode`: feedback is
fresh or not, and may become stale between two looks of a call (`lapses`).

**GripperRuntime, GripperNode.** As above. They differ where the code does: a
missing sample is no event for the gripper runtime; stamps are looked at with
`hc_safety` only; a command is written by the handler that receives it; a stop
on a faulted runtime is carried out again and counted again. `GripperNode` also
has what `DriverNode` leaves out: a process starts (`StartNode`), fails to
(`StartFails`), shuts down between two handlers (`Shutdown`) and dies, possibly
in the middle of a handler (`NodeCrash`). Each one reads `hc_safety` anew, and
remembers neither the stop nor the stamps of the one before.

**MockRobotDriver.** One action per call that changes something. Times are
relative to `last_update_`: `lag` is how far behind the simulation is, `due` of a
waiting command how far ahead it lies. `advanced` (`LazyMotion`) is
`advanceLocked()`: `DueBy` says how many commands its loop takes, and the
recursive function `reached(motion)` where the joints are after each of them,
the motion up to a command's due time being towards the target before it. They
take a record of the motion's members, so that it can be reasoned about apart
from the state: catching up to one time and then to a later one is catching up
to the later one. `startJointStream` may be called while the stream runs, as the
code allows: it sets the clock of the simulation to now without catching up, so
that the motion since the last call is lost, and commands may be left in the
queue that were due before that clock. They are carried out at the next call, and
`integrate` skips the negative time as the code does. `wanted` is a history
variable: where each joint was last told to be, by a command or by a hold;
`restarted` is TRUE after such a second start. The pose of an injected
position error, velocities, the counts and `inject_write_failure_` (which turns a
write into an error without effect) are left out.

**ActivityLog.** One group with one position: groups share nothing, and among
the joints of a group only the largest change counts. `told` is a history
variable, all states since the last message, which the code keeps only the path
of; `resting` is the set of positions sampled while the group is called
stationary. Positions are multiples of half the movement threshold.

**Left out of all of them:** log lines, message formatting, parameter parsing,
and the publication of joint and gripper states (with `last_published_sample_`
and `last_sample_`, which nothing else reads).

## 4. Runs

| Run | System | Checks |
|---|---|---|
| `runtime` | DriverRuntime alone: all calls in all orders, restarts, crashes, a plugin with every health the code tells apart | types, `HaltedIsNotMoving`, `FeedbackCountersAgree`, `FaultFreezes`, refinement of `MotionGate` |
| `stream` | two samples in flight, ROS clock stepped forward by 1 and back by up to 2 | `AgeIsHonest`, `StampsIncrease` |
| `stream_back` | one step back of one tick | a violation: a repeated sample refreshes its age |
| `node` | with `hc_safety`, two joints in one group, any plugin, under fairness | `DrivenIsRecent`, `NoCommandWithoutFeedback`, `QueuedIsCurrent`, `StoppedIsStill`, `ReadyIsHonest`, `FaultLocks`, `MotionIsRenewedOrEnds` |
| `topic` | the ROS topic plugin, two joints in two groups, feedback of every age, under fairness | types of runtime, node and plugin, `SilenceIsNotAFault`, `MotionHasFeedback`, `MotionIsRenewed`, `FeedbackRecovers` |
| `topic_lost`, `topic_old` | the same with one joint and a runtime limit above the plugin's | two violations, see section 7 |
| `commands` | commands for two joints, revocations and enables, ROS clock stepped forward and back by 1 | `RevokedIsGone`, `FreshIsHeard` |
| `gripper_node` | two grippers, processes with and without `hc_safety`, crashes and restarts, under fairness | `StoppedIsStill`, refinement of `MotionGate`, `GivenSinceEnabled`, `LockHolds`, `FaultLocks`, `BlindMotionEnds`, `MotionIsRenewedOrEnds` |
| `output` | three joints in two groups, one of them reversed, geared and shifted, with one topic for all and with one per group, publications that fail anywhere | `Remembered`, `TornIsHalted`, `OthersPreserved`, `RecoveryHoldsHere` |
| `mock` | two joints, travels of two ticks, commands that wait, lifecycle calls in any order and streams started twice, under fairness | `StoppedIsAtRest`, `NewestWins`, refinement of `DelayedRobot`, `TargetReached` |
| `activity` | a group sampled, commanded, lost and polled in any order, under fairness | `PathSummarises`, `DriftIsBounded`, `ReceivingIsRecent`, `ChangesAreReported` |

The type invariants of the other modules are proved (section 6) and in no run.

What the less obvious properties ask:

- `FaultLocks`: a fault that latches while the node has feedback ends with the
  node stopped and still, whatever enable messages follow: for ever in the
  driver node, which then is not ready either, and for as long as the process
  lives in the gripper node, where `LockHolds` adds that no step undoes it. A
  fault that latches when feedback is missing already is left out: nothing
  revokes then, and the latch alone keeps the robot still.
- `MotionHasFeedback`: without looking at commands, it bounds the age of the
  feedback behind a motion by the stricter limit and one control period. The one
  exception is a motion inherited from a crashed process: until the first stop or
  the first sample, the new node does not know of it.
- `MotionIsRenewed`: when a control tick has ended and no time has passed since,
  no motion is left whose last command is older than the watchdog timeout. It is
  what the tick as a whole achieves: it calls `enforceWatchdog()` on each of its
  three ways out, after a revocation or before the ready topic and the flush, and
  what follows must not bring an old motion back. `MotionIsRenewedOrEnds` is the
  liveness it leads to.
- `SilenceIsNotAFault`: `health()` is asked after the read or write that failed,
  when the feedback may have become stale or run out of its grace in between;
  none of these orders may look like a hardware failure.
- `DrivenIsRecent` speaks of stamps, where the code, once a target is queued,
  only has the time until which it is valid, a number computed on receipt on
  another clock. It must agree with the stamp however long the target waited in
  the queue and behind the writes of other groups, and for each joint of a group
  by itself.
- `GivenSinceEnabled` compares what drives with the last enable, of which the code
  keeps no time (`enabledAge` is a history variable). That the cutoff serves for
  it needs every revocation to move it, also that of a node which is stopped
  already, and the enable message to revoke before it enables; stamps of several
  grippers in one message are accepted together or not at all.
- `RevokedIsGone`: stamps may lie in the future, so a command given before a
  revocation can carry a later stamp than the cutoff. It can by the lead of its
  sender's clock and by what the ROS clock was set back, and by no more, however
  late it arrives.
- `FreshIsHeard` is the other side: a cutoff or a last stamp that lies in the
  future after a step back does not leave the node deaf for longer than the step.
- `TornIsHalted`: a command that reached only some groups is never followed by
  another command. The runtime faults, or it waits for feedback, and then it
  needs a hold that reaches all groups before it goes on.
- `Remembered`, `OthersPreserved`: no joint moves by a command that does not name
  it, through conversions in both directions, returning feedback and restarts.
  There is one exception, which `OthersPreserved` spells out: after a hold that
  reached only some groups, a command sends the other joints of its group back to
  the targets remembered from before that hold, and nowhere else (section 7).
  After a command that reached only some groups nothing is sent at all but holds.
- `RecoveryHoldsHere`: a recovery has told every joint to stay where it was just
  measured, also when the plugin thought it was stopped already.
- `NewestWins`: a command to some joints keeps the others on the way to the
  latest target they were given, which may still wait in the queue. The robot of
  `ImplementsRobot` completes a command from the same `wanted`, and follows it
  after exactly the latency. The one thing it may do that a real robot would not
  is `StartOver`, a jump by which a second start of a running stream loses motion;
  what the joints were told, and when it takes effect, has to survive that.
- `PathSummarises`: what a message says (first state, the first seven changes in
  order, the last one, the count) is true of all that happened since the message
  before, however much that was.
- `DriftIsBounded`: samples of a group that is called stationary lie within twice
  the threshold, however the anchor was moved, lost and set.

**Bounds.** They are the constants of the `.cfg` files; nothing else is cut off.

- `WatchdogTimeout` 1 or 2 and ages up to one above it: below, at and above the
  timeout all occur. The age saturates, so runs of any length are covered.
- `FeedbackMaxAge` 1 to 3: samples of age -1 (from the future), fresh, and at
  the limit. In `topic` it equals `StateTimeout`, so that the runtime's `<` and
  the plugin's `<=` disagree about a sample of that age; in `topic_lost` and
  `topic_old` it is above it, so that the plugin notices a loss first.
- `CommandMaxAge` 2: a command can be new, old, and expire in the queue or
  between two writes, and two joints of a group can differ in that. `Skew` 1 in
  `topic` and `gripper_node` adds commands from the future; `node` has `Skew` 0. That a stamp from
  the future does not extend the validity is in `TopicTypeOK`.
- `MaxCount` 2 in `runtime`: every counter wraps several times, which 64 bits
  never would in a test. Where no property reads a counter it is 0, so that
  counters do not multiply states.
- `PluginHealths`: in `runtime`, one health for each way in which the code can
  classify one (seven); in `node` three, in order, no feedback, failed, the
  three things the runtime does about a health.
- Two joints suffice for a node: its code treats joints alike and they meet only
  in a group's command, which two joints in one group (`node`) and two groups
  (`topic`) cover.
- `stream`: `MaxTime` 4, `MaxRos` 6, `MaxSent` 2; two samples are what reordering
  needs, and time goes past `MaxAge` 3. `commands`: `MaxTime` 3 and `MaxRos` 4,
  enough for a command that waits out a revocation and a step back of 1.
- `output`: `VendorPositions` and `LogicalTargets` {0, 1}, so that a measured and
  a remembered target differ; a joint with scale -2 and offset 2, so that a wrong
  conversion shows and one of the targets is rounded; three joints, so that a joint nobody
  named exists in a group that is published and a group that is not.
- `mock`: `Positions` 0 to 2 at a speed of 1 or none, so that a travel takes two
  ticks; `Latencies` 0 and 2, `MaxPending` 2 commands, and `MaxLag` 2 ticks
  between two calls: both commands may become due within one catching up.
  `MaxLag` also bounds how long a command can be overdue after a second start.
- `activity`: drift by two thresholds (`Positions` 0 to 4, `Threshold` 2), paths
  of `MaxPath` 2 with up to `MaxChanges` 4 changes, so that they overflow twice,
  and a report every second poll.

Distinct states: `runtime` 44646, `node` 39592, `topic` 246380, `gripper_node`
16819, `output` 165646, `mock` 70456; each run ends within two minutes.

Deadlock is checked everywhere but in `stream`, `stream_back` and `commands`,
whose bounded clocks end.

## 5. Fairness

- `WF(HandlerStep)`: a handler that was started is finished. It is straight-line
  code, and the executor runs no other handler meanwhile.
- `SF(ControlTimer)`, strong because other handlers disable and enable it again
  and again: the executor serves a timer that stays due even when subscriptions
  are always ready, since one round of waiting collects every ready callback.
- `SF(NodeTick)`: time goes on. The watchdog gets no fairness of its own: the
  control tick calls it, and one that forgot to would show in `node`.
- In `topic`, `SF(StateCallback(0))`: the vendor driver does not stay
  silent for ever. Without it a wait has no reason to end.
- In `mock`, `SF(MockTick)` and `SF(readJointState)`: time goes on, and the
  control tick reads. Lifecycle calls may disable both; `TargetReached` is about
  runs in which they stop doing so, and in which the stream is not started over
  and over, which would take back every motion.
- In `activity`, `WF(poll)` and `WF(ActivityTick)`: the diagnostics timer and the
  time. The timer's default rate is ten times that of the messages.

No fairness is assumed of any command, stop, enable, start of a process or
plugin answer.

## 6. Proofs

TLAPS checks these for every value of the constants that their named
assumptions allow (timeouts positive, `MaxCount` any natural number,
`PluginHealths` any set of healths, joints and groups any sets, `HcSafety`
either value, scales any integers but 0, offsets any integers, positions of the mock any
interval of integers, latencies and speeds any natural numbers). Two assumptions
say that a concrete plugin's answers are among the arbitrary ones:
`PluginAssumption` in `RosTopicNode` and `OutputHealthAssumption` in
`RosTopicOutput`.

**`DriverRuntimeProofs`.** `TypeCorrect`, then `HaltedHolds`, whose invariant
`HaltedIsNotMoving` is inductive as it stands. Every stop goes through `Hold`,
which never leaves `output` at `"motion"` (lemma `HoldEndsMotion`); the only
action that sets it to that, `WriteAccepted`, is behind the tests of two of the
flags and clears the third. `CountersHold` adds `FeedbackCountersAgree`,
inductive too: the counters differ by the open interruption, modulo wrapping.
`FaultFreezesHolds` is an action property from the guards. `GateRefinement` maps
every action to a step of `MotionGate` or a stutter; it needs
`HaltedIsNotMoving`, because a stop on a runtime that waits changes nothing in
the gate only if there is no motion left to end. A constructor that fails maps to
`Close`, whose motion ends, because it stops the plugin on its way out.

**`DriverNodeProofs`.** `RuntimeInNode`: `NodeSpec` implies `[][Next]` of the
runtime. `HaltedInNode` from it. `StoppedHolds` and `NoCommandHolds` need a
strengthening, `OnlyLive`, which says what the rest of a running handler can
still do: whatever could carry a command to the plugin (a `"flush"` among the
calls left, a command in `batch`, a pending one) exists only in a node with
feedback that is not stopped, and a stopped node with no `"stop"` left to make
is still. The lemmas on `Among(call, q)` say
how taking a call from a queue, and appending calls, changes what is in it.
`NodeTypeCorrect` gives the ranges of validity and stamps, from which
`QueuedHolds` follows: a stamp and the cutoff grow old
together, and a command becomes invalid before its stamp is too old to be
compared. `DrivenIsRecentHolds` carries that on to the write. Its strengthening
`BatchIsCurrent` says that a joint of a command on its way is valid for no longer
than its stamp leaves it, and was stamped after the last revocation: no new
stamp can be taken between the flush and the writes, and no revocation either,
since one handler runs at a time. `ReadyHolds` is strengthened by `Retracted`: while an announced ready
is not true, a `"ready"` is among the calls left to make. What is proved of the
runtime is carried over: `CountersInNode`, `FaultFreezesInNode`, and
`GateInNode`, which is about steps only, since the node starts like a process
after a crash, with a robot that may still move. `LockedForGood` is the safety
half of `FaultLocks`: `Locked` (with `hc_safety`, a fault, a stop, and a ready
topic corrected) is kept by every step, because an enable takes effect only
after a status that finds no fault (lemma `LockedStep`); in it nothing moves and
nothing is announced. That the node gets there is liveness, and left to the run.

**`RosTopicNodeProofs`.** `ImplementsDriverNode`: with every answer of the
built-in plugin in place of an arbitrary one, each step of `RosTopicNode` is a
step of `DriverNode` or leaves it alone, so all of `DriverNodeProofs` holds here
(and with it `TopicTypeCorrect`). `SilenceHolds` rests on the lemma
`AnswersAgree`: what a call saw as too old, every later look at it does too, so
`health()` never turns silence into an error. A write that finds no state at all
would be one; `FeedbackKept` with `OnlyLive` shows that no command is on its way
then. `FeedbackKept` relates, in every state of a handler, the age of the feedback
to the time since the last control tick, and the age of the last accepted stamp to
the age of the feedback, so that an older sample that comes late cannot lengthen
it; `MotionHolds` follows. Both are proved for all timeouts, with the control
period as the only assumption on scheduling. `RenewedHolds` is about
`MotionIsRenewed`; its strengthening `WatchdogComes` says that a motion older
than the timeout has a `"watchdog"` among the calls left to make, unless time
has passed since the last control tick: an accepted write makes the motion new,
and no other call starts one. `FreshFeedbackRecovers` is the step behind the liveness property
`FeedbackRecovers`: a control tick that finds feedback fresh enough for both
limits ends the wait, whichever answers the plugin gives in it; what fairness
adds is only that such a tick comes.

**`StreamProofs`**, for the two modules with stamps and clocks. For samples:
`StreamTypeCorrect`; `AgeIsHonestHolds`, strengthened by a relation that every
sample on its way satisfies (its stamp is at most its own steady time plus the
drift of the ROS clock then) and by the drift itself, which decreases only by
steps back; `StampsIncreaseHolds`, which needs that `ts.lastStamp` and the
accepted sample agree, and that the ROS time remembered is not ahead while
nothing was set back. For commands: `CommandTypeCorrect`, then `CutoffInv`.
`Offset`, the distance of the two clocks made up for what the ROS clock was set
back, never shrinks; every stamp on its way, every stamp remembered and the
cutoff are bounded by what it was when they were made, and a stamp from before
the last revocation by the cutoff (`CutoffSeparates`). `RevokedIsGoneHolds` is one
of its conjuncts, `FreshIsHeardHolds` compares the bounds with `Offset` now.

**`RosTopicOutputProofs`.** `OutputImplementsRuntime`: each action, whatever it
published and however far it came, is an action of `DriverRuntime` with some of
the answers that allows for, so that the gate (`OutputIsGate`) and the runtime's
theorems hold for it. `OutputTypeCorrect` needs `Sendable`, that a remembered
target is an integer for every joint it names; that what is sent keeps its
type through the conversions follows, division included. `TornHolds`: a publication of a command that stops
half-way is a failed write, and the runtime leaves `feedbackWaiting` only by a
complete hold. `RememberedHolds` rests on `TargetsInv`, which says which joints
the driver remembers and that `told` is the conversion of `targets` for each.
Nothing in it needs the conversions to be inverse. `OthersPreservedHolds` uses it
for the joints a message is filled up with, and `TornHolds` to exclude a command
after one that was torn. `RecoveryHolds` does need that a measured position
comes back unchanged from both conversions (lemma `Conversions`, for every
scale), and that only `ReadRecovers` ends a wait (`WaitEnds`).

**`GripperNodeProofs`**, for both gripper modules. Types, `GripperHaltedHolds`,
`GripperGateRefinement` along the lines of `DriverRuntimeProofs`; then the same
in the node (`GripperHaltedInNode`, `GateInNode`), through crashes and restarts,
and of the node itself its types, `GripperStoppedHolds`, `GivenSinceEnabledHolds`
and `LockHoldsAlways`. `EnabledInv` relates the cutoff, the last enable and the
enable a handler still has to make: while a node listens the two times are the
same, and while an enable is to come the cutoff is now. The type invariant enumerates which calls a handler can
have left, which is what makes the others inductive.

**`ActivityLogProofs`.** `ActivityTypeCorrect` from `EntriesInv`. `DriftHolds`
rests on `RestingInv`: all positions of a resting group are within the threshold
of its anchor. `ReceivingHolds` needs that an entry which was ever observed has a
state. `PathHolds`, for every length of a path, rests on `ToldInv`, which relates
an entry to the list of all states since its last message; the lemma
`SummaryGrows` says what appending a state does to the summary of a list.

**`MockRobotDriverProofs`.** The lazy simulation against the robot that moves by
itself, for queues of every length. What the loop of `advanceLocked()` computes
is an induction over the queue. No induction rule of the library can be used
(each takes an operator), but the least natural number of a set can be named,
from the well-foundedness of `<`: so the induction is a proof that there is no
least counterexample. On it rest that `reached` stays within the positions, and
the lemma `AdvancedTwice`: catching up at one time and again at a later one is
catching up once. With it the refinement `RobotImplemented` goes step by step. A
read changes nothing of the mapped robot; a tick moves it one step towards the
goal in force; a command changes the goal from the time on at which it becomes
due, for the joints it names, and leaves the rest to `wanted`; a hold makes every goal the place it is at. The mapping looks into the
future of the queue, up to the longest latency, and `DueBy` is shown unique to
reason about it. The theorem is proved over an invariant of three conjuncts
(`MockInvariant`): types, with the order of the queue (`TypesHold`), a stopped
robot at rest (`RestHolds`) and the end of the queue (`NewestHolds`).

**Only model-checked:** the liveness properties, since TLAPS does not reason about
fairness: `MotionIsRenewedOrEnds` and `FaultLocks` of both nodes,
`FeedbackRecovers`, `BlindMotionEnds`, `TargetReached` and `ChangesAreReported`.
Every other property of a passing run is a theorem too. The steps behind some of
them are proved, see `LockedForGood`, `RenewedHolds` and `FreshFeedbackRecovers`.
Where a property is in a run and in a theorem,
the theorem covers what the run's bounds leave out: `node`, for example, runs
with `hc_safety` and one group, and `DrivenIsRecentHolds` and `NoCommandHolds` hold
without it and for any groups.

## 7. Where the code and its documents disagree

- **A loss that `status()` notices first is not locked** (`topic_lost`).
  `docs/hc-integration.md` says that with `hc_safety` a loss of feedback revokes
  commands and locks the stop until an explicit enable. The code revokes when
  `read()` fails in the control tick. When `publishDiagnostics()` or
  `publishReady()` polls `status()` after feedback has become stale and fresh
  feedback comes before the next control tick, the runtime waits and recovers,
  the node never stops, and commands drive the robot without an enable.
- **A target older than the interruption is driven after it** (`topic_old`). The
  README promises that motion after a recovery uses new commands only. In the
  same situation `pending_commands_` is not cleared, and the control tick whose
  read recovers flushes it.
- **A ROS clock set back lets a repeated sample refresh its age**
  (`stream_back`), against the comment in `sample_timestamp.hpp`. `AgeIsHonest`
  says how far that can go: by what the clock was set back, and no further.

In the first two the robot does hold in between, and the targets are still
within their maximum age.

Two more were met and have no run of their own. `publishCommandLocked()` says
that a group's message preserves the other joints of the group, and the exception
in `OthersPreserved`, `partial = "hold"`, is where it does not: a stop that fails
after one group was published has held that group, but `position_targets_` still
has the targets from before the stop, since it is written only when every group
was reached, and `stopLocked()` discards the answer. Nothing refuses the next
command after a watchdog stop, and a command to one joint of that group sends the
others their old targets. The property says that this is all that can happen.

`docs/adding_ros_topic_robot.md:74` calls a stream that is silent for longer than
`startup_grace_s`, or than `state_timeout_s`, a fault: a communication error that
makes the platform stop. The code stops too, but it waits, and goes on when
feedback comes. So say `README.md:29-32` and the test
`FirstCompleteFeedbackCanArriveAfterStartupGrace`; `SilenceIsNotAFault` and
`FeedbackRecovers` follow those and the code.

## 8. What is not modelled

- `DiagnosticsRuntime`: formats a status; nothing to get wrong over time.
- Parameters, launch files, plugin description: read before anything runs.
- The lifecycle calls of the ROS topic plugin in an order `DriverRuntime` does
  not make. The constructor's, each of which may fail, and the destructor's are
  in `DriverRuntime` and `RosTopicOutput`.
- Publication of states (`last_published_sample_`, `last_sample_`): what is
  published has no influence on what is commanded.
- The throttled log of feedback interruptions in `publishDiagnostics()`. It reads
  the two counters `FeedbackCountersAgree` is about and changes nothing but its
  own two members.
- Floating-point numbers. Of the conversions of `RosTopicRobotDriver` the division
  is rounded and the multiplication is exact; in the code both round, in the last
  of 53 bits.
- In `RosTopicNode`, more than one tick inside a handler outside the writes: a
  status sees the feedback at most one tick older than its handler began.
- Limits of joint positions: validation by limits is a plugin or runtime answer
  (`"invalid"`).
- Velocities, the constant position error, the counts and the injected write
  failure of the mock.
- A crash of the driver node inside `DriverNode`: its start state has what a
  crash leaves behind, a robot that may still move; the crash itself is in
  `DriverRuntime`, `RosTopicOutput` and, for the grippers, in `GripperNode`.

## 9. Plan

The most important behaviour came first: runtime, stamps, node, node with its
plugin, grippers; then what the plugins do with a command, the command stream on
two clocks, and the activity log. What would come next:

1. The abstract robot under the runtime: `DelayedRobot` as the plugin of
   `DriverRuntime`, so that a stop of the runtime is a robot at rest.
2. The log of feedback interruptions: that its last message agrees with the
   counters in the end.
3. Positions in `RosTopicNode`, which would join it with `RosTopicOutput`: today
   one has ages and no positions, the other positions and no ages.
4. Processes in `DriverNode` as in `GripperNode`.
