------------------------------ MODULE MCHaproxy ------------------------------
(***************************************************************************)
(* HaproxyApply for TLC: of the files only the pulled ones, a and b, are   *)
(* alike.                                                                  *)
(***************************************************************************)
EXTENDS HaproxyApply, TLC

CONSTANTS a, b, c

PulledAlike == Permutations({a, b})

\* Bound: what may happen in one history.
FewTogether == requests + faults + pulls <= 5
=============================================================================
