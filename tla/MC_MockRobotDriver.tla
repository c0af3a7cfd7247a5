------------------------- MODULE MC_MockRobotDriver -------------------------
(* MockRobotDriver with two named joints.                                  *)
EXTENDS MockRobotDriver

CONSTANTS j1, j2
=============================================================================
