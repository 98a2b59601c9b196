----------------------------- MODULE MCHandBrake -----------------------------
(* HandBrakeSpec with two or three interchangeable lanes.                       *)
EXTENDS HandBrakeSpec, TLC

LaneSymmetry == Permutations(Lane)
==============================================================================
