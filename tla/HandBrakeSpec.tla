---------------------------- MODULE HandBrakeSpec ----------------------------
(***************************************************************************)
(* The hand brake on its own: its two handlers against the lane endpoints, *)
(* failing database calls and restarts.  What the sweep cancels is         *)
(* TaskEngine's business; here it is only a step of the handler.           *)
(***************************************************************************)
EXTENDS HandBrake, Naturals

CONSTANTS
    MaxFaults           \* bound: failed calls and restarts together

ASSUME BrakeAssumption == MaxFaults \in Nat

VARIABLES
    byOperator,     \* history: lanes paused by the lane endpoint, not resumed since
    overridden,     \* history: those of them last paused while the brake acted
    latched,        \* history: engaged was answered, no release has begun since
    faults          \* history: failed calls and restarts so far

vars == <<lanePaused, restoreSet, savedBrake, gate, brakePc, brakeTodo, brakeDid,
          byOperator, overridden, latched, faults>>

Init ==
    /\ BrakeInit
    /\ byOperator = {}
    /\ overridden = {}
    /\ latched = FALSE
    /\ faults = 0

EngageStep ==
    \/ EngageBrake \/ EngageRecord \/ EngageSweep \/ EngageSave
    \/ \E l \in Lane : EngagePause(l)

Engage ==
    /\ EngageStep
    /\ UNCHANGED <<byOperator, overridden, latched, faults>>

Engaged ==
    /\ EngageGate
    /\ latched' = TRUE
    /\ UNCHANGED <<byOperator, overridden, faults>>

Release ==
    /\ BrakeRelease
    /\ latched' = FALSE
    /\ UNCHANGED <<byOperator, overridden, faults>>

OperatorPauses(l) ==
    /\ PauseLane(l)
    /\ byOperator' = byOperator \cup {l}
    /\ overridden' = IF brakePc = "idle" /\ ~gate
                     THEN overridden \ {l}
                     ELSE overridden \cup {l}
    /\ UNCHANGED <<latched, faults>>

OperatorResumes(l) ==
    /\ ResumeLane(l)
    /\ byOperator' = byOperator \ {l}
    /\ overridden' = overridden \ {l}
    /\ UNCHANGED <<latched, faults>>

Fault ==
    /\ faults < MaxFaults
    /\ faults' = faults + 1
    /\ BrakeCallFails \/ BootBrake
    /\ UNCHANGED <<byOperator, overridden, latched>>

Next ==
    \/ Engage \/ Engaged \/ Release \/ Fault
    \/ \E l \in Lane : OperatorPauses(l) \/ OperatorResumes(l)

Spec == Init /\ [][Next]_vars

------------------------------------------------------------------------------
(* Properties                                                               *)

\* Types of the brake's own state and of the history variables.
TypeOK ==
    /\ BrakeType
    /\ byOperator \subseteq Lane
    /\ overridden \subseteq Lane
    /\ latched \in BOOLEAN
    /\ faults \in 0..MaxFaults

\* "It latches" and "survives an unclean restart": once an engage was
\* answered, the gate stays shut through failed calls and restarts until a
\* release begins, and whenever no handler runs, the gate in memory and the
\* setting a restart would read agree.
BrakeDurable ==
    /\ latched => gate /\ savedBrake
    /\ brakePc = "idle" => (gate <=> savedBrake)

\* As long as no call has failed, an answered release leaves no lane paused
\* that no operator has paused, and resumes no lane an operator has paused,
\* except those that were paused while the brake acted.
ReleaseRestores ==
    [][ReleaseGate /\ faults = 0 =>
          /\ lanePaused \subseteq byOperator
          /\ byOperator \ lanePaused \subseteq overridden]_vars
==============================================================================
