-------------------------- MODULE MC_RosTopicOutput --------------------------
(* Values for model-checking RosTopicOutput: two groups, one with a joint  *)
(* that is reversed, geared and shifted, so that one target lies between   *)
(* two of its vendor's positions.                                          *)
EXTENDS RosTopicOutput

CONSTANTS a, b, c

TwoGroups == [j \in Joints |-> IF j = c THEN "right" ELSE "left"]
Reversed == [j \in Joints |-> IF j = b THEN -2 ELSE 1]
Shifted == [j \in Joints |-> IF j = b THEN 2 ELSE 0]
=============================================================================
