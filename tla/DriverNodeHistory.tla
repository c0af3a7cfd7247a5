------------------------- MODULE DriverNodeHistory -------------------------
(***************************************************************************)
(* DriverNode with two history variables about interruptions of feedback,  *)
(* in whichever call to the runtime they were noticed: read(), or a        *)
(* status() polled for diagnostics or for the ready topic.                 *)
(***************************************************************************)
EXTENDS DriverNode

VARIABLES
    lost,           \* feedback was lost, and output not enabled since
    overtaken       \* joints whose newest command precedes the interruption

historyVars == <<nodeVars, lost, overtaken>>

Interrupted == ~feedbackWaiting /\ feedbackWaiting'

Queued == {j \in Joints : pending[j] > 0} \union UNION {DOMAIN command : command \in batch}

HistoryInit == NodeInit /\ lost = FALSE /\ overtaken = {}

Remember ==
    /\ lost' = (\/ Interrupted /\ feedbackReady
                \/ lost /\ ~(stopped /\ ~stopped'))
    /\ overtaken' = IF Interrupted THEN Queued
                    ELSE {j \in overtaken : stampAge'[j] >= stampAge[j]}

-----------------------------------------------------------------------------
(* "Loss of feedback revokes commands and locks the stop; after recovery,  *)
(* an explicit enable and newly stamped targets are required"              *)
(* (docs/hc-integration.md:5): with hc_safety nothing is driven between a  *)
(* loss of feedback and an enable.                                         *)
LossNeedsEnable == lost => driven = {}

(* "Motion that follows uses newly received commands and does not replay   *)
(* old targets" (README.md): no command received before an interruption is *)
(* driven after it.                                                        *)
OldTargetsNotReplayed ==
    \A command \in driven : DOMAIN command \intersect overtaken = {}
=============================================================================
