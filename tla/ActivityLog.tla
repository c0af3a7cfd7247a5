---------------------------- MODULE ActivityLog ----------------------------
(***************************************************************************)
(* JointActivityLog and ActivityTransition (activity_log.hpp): the summary *)
(* that HumanoidDriverRuntimeNode logs of what each group of joints was    *)
(* told and of what it was measured to do.  One group with one position is *)
(* modelled: the groups share nothing, and the largest change among the    *)
(* joints of a group is what counts.                                       *)
(*                                                                         *)
(* The node calls sample() or unavailable() in its control tick,           *)
(* acceptedCommand() when it flushes, and poll() in its diagnostics timer. *)
(***************************************************************************)
EXTENDS Integers, SequencesExt

CONSTANTS
    Positions,          \* integers, in parts of the movement threshold
    Threshold,          \* 0.005
    Quiet,              \* 500 ms, in ticks
    LogPeriod,          \* 1 s, in ticks
    CommandTimeout,     \* command_timeout_, in ticks
    MaxPath,            \* entries of a path, 8 in the code
    MaxChanges,         \* bound on the changes between two messages
    MaxPollGap          \* bound on the time between two polls

ASSUME ActivityAssumption ==
    /\ Positions \subseteq Int /\ Threshold \in Nat \ {0} /\ Quiet \in Nat \ {0}
    /\ LogPeriod \in Nat \ {0} /\ CommandTimeout \in Nat
    /\ MaxPath \in Nat \ {0} /\ MaxChanges \in Nat /\ MaxPollGap \in Nat

VARIABLES
    log,                \* the transitions: measured and commands
    anchor, haveSample, moving,
    changeAge,          \* now - last_change, up to Quiet
    commandAge,         \* now - last_command; beyond the timeout without one
    pollAge,            \* time since poll() was last called
    told,               \* history: the states since the last message, and its own
    resting             \* history: the positions sampled while stationary

sampleVars == <<anchor, haveSample, moving, changeAge, resting>>
activityVars == <<log, told, sampleVars, commandAge, pollAge>>

Topics == {"measured", "commands"}
States == {"", "unavailable", "stationary", "moving", "receiving", "stopped"}
LongAgo == CommandTimeout + MaxPollGap + 1

Distance(p, q) == IF p < q THEN q - p ELSE p - q

-----------------------------------------------------------------------------
(* ActivityTransition::observe(): a change makes the path longer, until it *)
(* is full (also in a form that leaves a full one as it is).               *)
Changed(entry, state, path) ==
    [state |-> state, logged |-> entry.logged, changes |-> entry.changes + 1,
     path |-> path, age |-> entry.age]

observed_Full(entry, state) ==
    IF state = entry.state THEN entry
    ELSE Changed(entry, state, IF Len(entry.path) < MaxPath THEN Append(entry.path, state)
                               ELSE entry.path)

observed(entry, state) ==
    IF state = entry.state THEN entry
    ELSE Changed(entry, state, IF Len(entry.path) < MaxPath THEN Append(entry.path, state)
                               ELSE [entry.path EXCEPT ![MaxPath] = state])

(* ActivityTransition::poll(), and a form in which every call renews the   *)
(* time of the last message.                                               *)
Reported(entry) == entry.changes # 0 /\ entry.age >= LogPeriod

Cleared(entry) ==
    [state |-> entry.state, logged |-> entry.state, changes |-> 0, path |-> <<>>, age |-> 0]

polled_Renewed(entry) ==
    IF Reported(entry) THEN Cleared(entry) ELSE [entry EXCEPT !.age = 0]

polled(entry) == IF Reported(entry) THEN Cleared(entry) ELSE entry

(* What the history remembers of an observed state.                        *)
Noted(states, state) == IF state = Last(states) THEN states ELSE Append(states, state)

Observe(topic, state) ==
    /\ log' = [log EXCEPT ![topic] = observed(@, state)]
    /\ log'[topic].changes <= MaxChanges
    /\ told' = [told EXCEPT ![topic] = Noted(@, state)]

-----------------------------------------------------------------------------
ActivityInit ==
    /\ log = [t \in Topics |-> [state |-> "", logged |-> "unknown", changes |-> 0,
                                path |-> <<>>, age |-> LogPeriod]]
    /\ told = [t \in Topics |-> <<"unknown">>]
    /\ anchor = 0 /\ haveSample = FALSE /\ moving = FALSE /\ changeAge = Quiet
    /\ resting = {}
    /\ commandAge = LongAgo
    /\ pollAge = 0

(* unavailable(), and sample() without a finite position of every joint.   *)
unavailable ==
    /\ Observe("measured", "unavailable")
    /\ haveSample' = FALSE /\ moving' = FALSE /\ resting' = {}
    /\ UNCHANGED <<anchor, changeAge, commandAge, pollAge>>

Moved(position) == haveSample /\ Distance(position, anchor) >= Threshold

(* The anchor moves along with every sample.                               *)
Anchored_Always(position) == position

Anchored(position) == IF ~haveSample \/ Moved(position) THEN position ELSE anchor

sample(position) ==
    /\ anchor' = Anchored(position)
    /\ changeAge' = IF Moved(position) THEN 0 ELSE changeAge
    /\ moving' = (Moved(position) \/ (haveSample /\ moving /\ changeAge < Quiet))
    /\ haveSample' = TRUE
    /\ Observe("measured", IF moving' THEN "moving" ELSE "stationary")
    /\ resting' = IF moving' THEN {} ELSE resting \union {position}
    /\ UNCHANGED <<commandAge, pollAge>>

acceptedCommand ==
    /\ Observe("commands", "receiving")
    /\ commandAge' = 0
    /\ UNCHANGED <<sampleVars, pollAge>>

(* The state poll() gives a topic before it reports; and a form in which a *)
(* silence counts when something else is to be reported.                   *)
Silent(topic) ==
    \/ topic = "commands" /\ commandAge > CommandTimeout
    \/ topic = "measured" /\ ~haveSample

Silence(topic) == IF topic = "commands" THEN "stopped" ELSE "unavailable"

Seen_WhenReported(topic) ==
    IF Silent(topic) /\ Reported(log[topic]) THEN Silence(topic) ELSE log[topic].state

Seen(topic) == IF Silent(topic) THEN Silence(topic) ELSE log[topic].state

poll ==
    /\ log' = [t \in Topics |-> polled(observed(log[t], Seen(t)))]
    /\ told' = [t \in Topics |->
           IF Reported(observed(log[t], Seen(t))) THEN <<Seen(t)>> ELSE Noted(told[t], Seen(t))]
    /\ pollAge' = 0
    /\ UNCHANGED <<sampleVars, commandAge>>

Elapsed(age, limit) == IF age < limit THEN age + 1 ELSE age

ActivityTick ==
    /\ pollAge < MaxPollGap
    /\ log' = [t \in Topics |-> [log[t] EXCEPT !.age = Elapsed(@, LogPeriod)]]
    /\ changeAge' = Elapsed(changeAge, Quiet)
    /\ commandAge' = Elapsed(commandAge, LongAgo)
    /\ pollAge' = pollAge + 1
    /\ UNCHANGED <<told, anchor, haveSample, moving, resting>>

ActivityNext ==
    \/ unavailable
    \/ \E position \in Positions : sample(position)
    \/ acceptedCommand
    \/ poll
    \/ ActivityTick

(* The diagnostics timer runs and time passes.                             *)
ActivitySpec == ActivityInit /\ [][ActivityNext]_activityVars
                             /\ WF_activityVars(poll) /\ WF_activityVars(ActivityTick)

-----------------------------------------------------------------------------
(* Types; a path never outgrows its bound, however often a state flaps.    *)
ActivityTypeOK ==
    /\ log \in [Topics -> [state : States, logged : States \union {"unknown"},
                           changes : Nat, path : BoundedSeq(States, MaxPath),
                           age : 0 .. LogPeriod]]
    /\ anchor \in Positions \union {0} /\ haveSample \in BOOLEAN /\ moving \in BOOLEAN
    /\ changeAge \in 0 .. Quiet /\ commandAge \in 0 .. LongAgo /\ pollAge \in 0 .. MaxPollGap
    /\ resting \subseteq Positions

(* A message says how a topic got from the state the last message ended    *)
(* with to its present one: every change is counted, the first are listed  *)
(* in order, and the last one is listed however many there were.           *)
PathSummarises ==
    \A t \in Topics :
        LET all == Tail(told[t])
        IN  /\ log[t].logged = Head(told[t])
            /\ log[t].changes = Len(all)
            /\ log[t].path = IF Len(all) <= MaxPath THEN all
                             ELSE Append(SubSeq(all, 1, MaxPath - 1), Last(all))

(* Slow motion is not lost: while a group is called stationary its samples *)
(* lie within twice the threshold of each other, however small each step.  *)
DriftIsBounded == \A p, q \in resting : Distance(p, q) < 2 * Threshold

(* A group is called receiving no longer than the timeout after its last   *)
(* command, as far as a poll could tell.                                   *)
ReceivingIsRecent ==
    log["commands"].state = "receiving" => commandAge <= CommandTimeout + pollAge

(* Every change is reported, however often the log is polled and however   *)
(* fast the states change.                                                 *)
ChangesAreReported == \A t \in Topics : []<>(log[t].changes = 0)
=============================================================================
