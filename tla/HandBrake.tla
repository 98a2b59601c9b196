------------------------------ MODULE HandBrake ------------------------------
(***************************************************************************)
(* The durable hand brake: lane pause flags, the two settings rows it      *)
(* persists, the in-memory gate (worker.BrakeGate) and the two handlers of *)
(* coordinator/handlers_control.go.  The handlers exclude one another      *)
(* (brakeMu), but every database call in them is a step of its own that    *)
(* other requests, the worker and a crash can fall between.                *)
(*                                                                         *)
(* TaskEngine composes these actions with the worker; HandBrakeSpec checks *)
(* the brake alone, against operators who pause and resume lanes, database *)
(* errors and crashes.                                                     *)
(***************************************************************************)
EXTENDS Lanes

VARIABLES
    restoreSet,     \* settings row brake_paused_lanes
    savedBrake,     \* settings row brake_engaged
    gate,           \* BrakeGate.engaged, in memory
    brakePc,        \* where the running handler is; "idle": none runs
    brakeTodo,      \* lanes the handler has still to pause or unpause
    brakeDid        \* pausedByBrake, in the handler's memory

brakeVars ==
    <<lanePaused, restoreSet, savedBrake, gate, brakePc, brakeTodo, brakeDid>>

BrakePcs ==
    {"idle", "pausing", "recorded", "sweeping", "engaging",
     "unpausing", "cleared", "releasing"}

BrakeType ==
    /\ lanePaused \subseteq Lane
    /\ restoreSet \subseteq Lane
    /\ savedBrake \in BOOLEAN
    /\ gate \in BOOLEAN
    /\ brakePc \in BrakePcs
    /\ brakeTodo \subseteq Lane
    /\ brakeDid \subseteq Lane
    /\ brakeTodo # {} => brakePc \in {"pausing", "unpausing"}
    /\ brakeDid # {} => brakePc = "pausing"

BrakeInit ==
    /\ lanePaused = {}
    /\ restoreSet = {}
    /\ savedBrake = FALSE
    /\ gate = FALSE
    /\ brakePc = "idle"
    /\ brakeTodo = {}
    /\ brakeDid = {}

------------------------------------------------------------------------------
(* handleEngageBrake                                                        *)

\* Without the guard a second engage finds every lane paused already.
EngageAgain ==
    /\ brakePc = "idle"
    /\ brakePc' = "pausing"
    /\ brakeTodo' = Lane \ lanePaused
    /\ brakeDid' = {}
    /\ UNCHANGED <<lanePaused, restoreSet, savedBrake, gate>>

\* An engaged brake is left alone; otherwise the lanes to pause are read once.
EngageBrake ==
    /\ brakePc = "idle"
    /\ ~gate
    /\ brakePc' = "pausing"
    /\ brakeTodo' = Lane \ lanePaused
    /\ brakeDid' = {}
    /\ UNCHANGED <<lanePaused, restoreSet, savedBrake, gate>>

EngagePause(l) ==
    /\ brakePc = "pausing"
    /\ l \in brakeTodo
    /\ SetLanePaused(l, TRUE)
    /\ brakeTodo' = brakeTodo \ {l}
    /\ brakeDid' = brakeDid \cup {l}
    /\ UNCHANGED <<restoreSet, savedBrake, gate, brakePc>>

EngageRecord ==
    /\ brakePc = "pausing"
    /\ brakeTodo = {}
    /\ restoreSet' = brakeDid
    /\ brakeDid' = {}
    /\ brakePc' = "recorded"
    /\ UNCHANGED <<lanePaused, savedBrake, gate, brakeTodo>>

\* ListRunningExecutionIDs; TaskEngine holds the list.
EngageSweep ==
    /\ brakePc = "recorded"
    /\ brakePc' = "sweeping"
    /\ UNCHANGED <<lanePaused, restoreSet, savedBrake, gate, brakeTodo, brakeDid>>

EngageSave ==
    /\ brakePc = "sweeping"
    /\ savedBrake' = TRUE
    /\ brakePc' = "engaging"
    /\ UNCHANGED <<lanePaused, restoreSet, gate, brakeTodo, brakeDid>>

EngageGate ==
    /\ brakePc = "engaging"
    /\ gate' = TRUE
    /\ brakePc' = "idle"
    /\ UNCHANGED <<lanePaused, restoreSet, savedBrake, brakeTodo, brakeDid>>

------------------------------------------------------------------------------
(* handleReleaseBrake: it runs whether or not the brake is engaged.         *)

ReleaseBrake ==
    /\ brakePc = "idle"
    /\ brakePc' = "unpausing"
    /\ brakeTodo' = restoreSet
    /\ UNCHANGED <<lanePaused, restoreSet, savedBrake, gate, brakeDid>>

ReleaseUnpause(l) ==
    /\ brakePc = "unpausing"
    /\ l \in brakeTodo
    /\ SetLanePaused(l, FALSE)
    /\ brakeTodo' = brakeTodo \ {l}
    /\ UNCHANGED <<restoreSet, savedBrake, gate, brakePc, brakeDid>>

ReleaseClear ==
    /\ brakePc = "unpausing"
    /\ brakeTodo = {}
    /\ restoreSet' = {}
    /\ brakePc' = "cleared"
    /\ UNCHANGED <<lanePaused, savedBrake, gate, brakeTodo, brakeDid>>

ReleaseSave ==
    /\ brakePc = "cleared"
    /\ savedBrake' = FALSE
    /\ brakePc' = "releasing"
    /\ UNCHANGED <<lanePaused, restoreSet, gate, brakeTodo, brakeDid>>

ReleaseGate ==
    /\ brakePc = "releasing"
    /\ gate' = FALSE
    /\ brakePc' = "idle"
    /\ UNCHANGED <<lanePaused, restoreSet, savedBrake, brakeTodo, brakeDid>>

BrakeRelease ==
    \/ ReleaseBrake \/ ReleaseClear \/ ReleaseSave \/ ReleaseGate
    \/ \E l \in Lane : ReleaseUnpause(l)

------------------------------------------------------------------------------
(* Around the handlers                                                      *)

\* handlePauseLane and handleResumeLane: nothing asks whether the brake acts.
PauseLane(l) ==
    /\ SetLanePaused(l, TRUE)
    /\ UNCHANGED <<restoreSet, savedBrake, gate, brakePc, brakeTodo, brakeDid>>

ResumeLane(l) ==
    /\ SetLanePaused(l, FALSE)
    /\ UNCHANGED <<restoreSet, savedBrake, gate, brakePc, brakeTodo, brakeDid>>

\* A handler returns 500 at its first failing database call, keeping what it
\* has written; a process that dies leaves the same rows behind.  The gate
\* changes only after the last call.
DropBrakeHandler ==
    /\ brakePc' = "idle"
    /\ brakeTodo' = {}
    /\ brakeDid' = {}
    /\ UNCHANGED <<lanePaused, restoreSet, savedBrake>>

BrakeCallFails ==
    /\ brakePc \notin {"idle", "engaging", "releasing"}
    /\ DropBrakeHandler
    /\ UNCHANGED gate

\* The bug of booting with the zero value of the gate.
BootWithGateOpen ==
    /\ DropBrakeHandler
    /\ gate' = FALSE

\* A new process: no handler, and the gate is what engine.Open read.
BootBrake ==
    /\ DropBrakeHandler
    /\ gate' = savedBrake
==============================================================================
