-------------------------- MODULE MC_CommandStream --------------------------
(* CommandStream with two named joints.                                    *)
EXTENDS CommandStream

CONSTANTS j1, j2
=============================================================================
