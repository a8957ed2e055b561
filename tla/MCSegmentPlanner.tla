-------------------------- MODULE MCSegmentPlanner --------------------------
(***************************************************************************)
(* The planner on every file size up to 13 bytes (with 0 and -1, unknown)  *)
(* and every connection count up to 6 (with 0 and -1, which it clamps):    *)
(* fewer bytes than connections, exact multiples and every remainder.      *)
(***************************************************************************)
EXTENDS SegmentPlanner

MCFileSizes == -1..13
MCConnections == -1..6
=============================================================================
