--------------------------- MODULE MC_ActivityLog ---------------------------
(* Values for model-checking ActivityLog.                                  *)
EXTENDS ActivityLog
=============================================================================
