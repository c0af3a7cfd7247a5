-------------------------- MODULE MC_DriverRuntime --------------------------
(* Values for model-checking DriverRuntime: one answer of health() for     *)
(* each way the code can classify it.                                      *)
EXTENDS DriverRuntime

health(level, connected, isActive, communicationOk) ==
    [level |-> level, connected |-> connected, active |-> isActive,
     communicationOk |-> communicationOk]

SomeHealths == {
    health("ok", TRUE, TRUE, TRUE),
    health("warning", TRUE, TRUE, FALSE),    \* fails status() and recovery
    health("ok", FALSE, TRUE, TRUE),         \* passes status(), fails recovery
    health("stale", TRUE, TRUE, FALSE),      \* feedback unavailable
    health("stale", FALSE, TRUE, FALSE),     \* stale, but a hardware failure
    health("error", TRUE, TRUE, TRUE),
    health("threw", TRUE, TRUE, TRUE)}
=============================================================================
