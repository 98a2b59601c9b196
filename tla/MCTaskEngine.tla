----------------------------- MODULE MCTaskEngine ----------------------------
(* Small instances of TaskEngine: all tasks share one lane.                 *)
EXTENDS TaskEngine

CONSTANTS wide      \* the width of every lane

OneLane == [t \in Task |-> CHOOSE l \in Lane : TRUE]
EveryWidth == [l \in Lane |-> wide]
NoRank == [t \in Shell |-> 0]
==============================================================================
