--------------------------- MODULE MC_GripperNode ---------------------------
(* GripperNode with named grippers.                                        *)
EXTENDS GripperNode

CONSTANTS left, right
=============================================================================
