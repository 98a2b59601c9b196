-------------------------------- MODULE Lanes --------------------------------
(***************************************************************************)
(* The lanes table of internal/taskmaster/db, as far as scheduling and the *)
(* hand brake share it: which lanes there are and which are paused.  The   *)
(* paused_by column only labels the row and is left out.                   *)
(***************************************************************************)

CONSTANT Lane

VARIABLE lanePaused     \* lanes whose paused column is set

\* One UPDATE; the lane endpoints and the brake both use it.
SetLanePaused(l, p) ==
    lanePaused' = IF p THEN lanePaused \cup {l} ELSE lanePaused \ {l}
==============================================================================
