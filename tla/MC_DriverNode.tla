---------------------------- MODULE MC_DriverNode ----------------------------
(* Values for model-checking DriverNode.                                   *)
EXTENDS DriverNode

CONSTANTS j1, j2

OneGroup == [j \in Joints |-> "arm"]

health(level, connected, communicationOk) ==
    [level |-> level, connected |-> connected, active |-> TRUE,
     communicationOk |-> communicationOk]

(* In order, feedback, no feedback, and a hardware failure.                *)
FewHealths == {health("ok", TRUE, TRUE), health("stale", TRUE, FALSE),
               health("error", TRUE, TRUE)}
=============================================================================
