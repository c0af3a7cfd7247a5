--------------------------- MODULE MC_RosTopicNode ---------------------------
(* Values for model-checking RosTopicNode.                                 *)
EXTENDS RosTopicNode

CONSTANTS j1, j2

OneGroup == [j \in Joints |-> "arm"]
TwoGroups == [j \in Joints |-> IF j = j1 THEN "left" ELSE "right"]
=============================================================================
