----------------------------- MODULE MCBroadcast -----------------------------
(***************************************************************************)
(* Broadcast for TLC: a broadcast to two targets and one to a single target.  *)
(***************************************************************************)
EXTENDS Broadcast

JobsOfMC == 1..2
TargetsOfMC == <<2, 1>>
=============================================================================
