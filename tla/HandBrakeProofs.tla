--------------------------- MODULE HandBrakeProofs ---------------------------
(***************************************************************************)
(* The hand brake, proved for every set of lanes and every bound on the    *)
(* faults: its types, that an engaged brake stays engaged (BrakeDurable),  *)
(* and that a release restores the pause state (ReleaseRestores).          *)
(***************************************************************************)
EXTENDS HandBrakeSpec, TLAPS

\* The setting and the gate at each place of the two handlers.  An engage
\* writes the setting, then the gate; a release clears them in that order.
GateInv ==
    /\ latched => brakePc = "idle" /\ gate
    /\ brakePc \in {"idle", "unpausing", "cleared"} => (gate <=> savedBrake)
    /\ brakePc \in {"pausing", "recorded", "sweeping"} => ~gate /\ ~savedBrake
    /\ brakePc = "engaging" => ~gate /\ savedBrake
    /\ brakePc = "releasing" => ~savedBrake

\* The lanes that the brake has paused, and has still to unpause.
Owed == IF brakePc = "unpausing" THEN brakeTodo ELSE restoreSet \cup brakeDid

\* A lane is paused because an operator or the brake paused it; the brake
\* owes nothing for the lanes operators paused before it acted, and nothing
\* at all when it is released.
RestoreInv ==
    /\ lanePaused \subseteq byOperator \cup Owed
    /\ byOperator \subseteq lanePaused \cup overridden
    /\ Owed \cap byOperator \subseteq overridden
    /\ brakePc = "pausing" =>
           brakeTodo \cap byOperator \subseteq overridden /\ restoreSet = {}
    /\ brakePc \in {"cleared", "releasing"} => restoreSet = {}
    /\ brakePc = "idle" /\ ~gate => restoreSet = {}

------------------------------------------------------------------------------
(* Types                                                                    *)

\* A database without brake rows, and the gate open.
LEMMA BrakeTypeInitial == BrakeInit => BrakeType
BY DEF BrakeInit, BrakeType, BrakePcs

\* The engage handler.
LEMMA EngageTypes ==
    ASSUME BrakeType,
           \/ EngageBrake \/ EngageRecord \/ EngageSweep \/ EngageSave \/ EngageGate
           \/ \E l \in Lane : EngagePause(l)
    PROVE  BrakeType'
<1> USE DEF BrakeType, BrakePcs
<1>1. CASE EngageBrake
  BY <1>1 DEF EngageBrake
<1>2. CASE EngageRecord
  BY <1>2 DEF EngageRecord
<1>3. CASE EngageSweep
  BY <1>3 DEF EngageSweep
<1>4. CASE EngageSave
  BY <1>4 DEF EngageSave
<1>5. CASE EngageGate
  BY <1>5 DEF EngageGate
<1>6. ASSUME NEW l \in Lane, EngagePause(l)
      PROVE  BrakeType'
  BY <1>6 DEF EngagePause, SetLanePaused
<1> QED
  BY <1>1, <1>2, <1>3, <1>4, <1>5, <1>6

\* The release handler.
LEMMA ReleaseTypes ==
    ASSUME BrakeType, BrakeRelease
    PROVE  BrakeType'
<1> USE DEF BrakeType, BrakePcs
<1>1. CASE ReleaseBrake
  BY <1>1 DEF ReleaseBrake
<1>2. CASE ReleaseClear
  BY <1>2 DEF ReleaseClear
<1>3. CASE ReleaseSave
  BY <1>3 DEF ReleaseSave
<1>4. CASE ReleaseGate
  BY <1>4 DEF ReleaseGate
<1>5. ASSUME NEW l \in Lane, ReleaseUnpause(l)
      PROVE  BrakeType'
  BY <1>5 DEF ReleaseUnpause, SetLanePaused
<1> QED
  BY <1>1, <1>2, <1>3, <1>4, <1>5 DEF BrakeRelease

\* Operators, failing calls, and a process that dies or boots.
LEMMA AroundTypes ==
    ASSUME BrakeType,
           \/ BrakeCallFails \/ BootBrake \/ (DropBrakeHandler /\ gate' = FALSE)
           \/ \E l \in Lane : PauseLane(l) \/ ResumeLane(l)
    PROVE  BrakeType'
<1> USE DEF BrakeType, BrakePcs
<1>1. CASE BrakeCallFails
  BY <1>1 DEF BrakeCallFails, DropBrakeHandler
<1>2. CASE BootBrake
  BY <1>2 DEF BootBrake, DropBrakeHandler
<1>3. CASE DropBrakeHandler /\ gate' = FALSE
  BY <1>3 DEF DropBrakeHandler
<1>4. ASSUME NEW l \in Lane, PauseLane(l)
      PROVE  BrakeType'
  BY <1>4 DEF PauseLane, SetLanePaused
<1>5. ASSUME NEW l \in Lane, ResumeLane(l)
      PROVE  BrakeType'
  BY <1>5 DEF ResumeLane, SetLanePaused
<1> QED
  BY <1>1, <1>2, <1>3, <1>4, <1>5

\* Every step keeps every variable in its type.
LEMMA TypeStep == TypeOK /\ [Next]_vars => TypeOK'
<1> SUFFICES ASSUME TypeOK, [Next]_vars
             PROVE  TypeOK'
  OBVIOUS
<1> USE DEF TypeOK
<1>1. CASE Engage
  BY <1>1, EngageTypes DEF Engage, EngageStep
<1>2. CASE Engaged
  BY <1>2, EngageTypes DEF Engaged
<1>3. CASE Release
  BY <1>3, ReleaseTypes DEF Release
<1>4. CASE Fault
  <2>1. faults' \in 0..MaxFaults
    BY <1>4, BrakeAssumption DEF BrakeAssumption, Fault
  <2> QED
    BY <1>4, <2>1, AroundTypes DEF Fault
<1>5. ASSUME NEW l \in Lane, OperatorPauses(l)
      PROVE  TypeOK'
  BY <1>5, AroundTypes DEF OperatorPauses
<1>6. ASSUME NEW l \in Lane, OperatorResumes(l)
      PROVE  TypeOK'
  BY <1>6, AroundTypes DEF OperatorResumes
<1>7. CASE UNCHANGED vars
  BY <1>7 DEF vars, BrakeType
<1> QED
  BY <1>1, <1>2, <1>3, <1>4, <1>5, <1>6, <1>7 DEF Next

\* Type correctness of the brake, its settings rows and its handlers.
THEOREM TypeCorrect == Spec => []TypeOK
<1>1. Init => TypeOK
  <2> SUFFICES ASSUME Init
               PROVE  TypeOK
    OBVIOUS
  <2>1. BrakeType
    BY BrakeTypeInitial DEF Init
  <2>2. faults \in 0..MaxFaults
    BY BrakeAssumption DEF BrakeAssumption, Init
  <2> QED
    BY <2>1, <2>2 DEF Init, TypeOK
<1> QED
  BY <1>1, TypeStep, PTL DEF Spec

------------------------------------------------------------------------------
(* The latch                                                                *)

\* No step of a handler, of an operator or of a fault parts gate and setting.
LEMMA GateStep == TypeOK /\ GateInv /\ [Next]_vars => GateInv'
<1> SUFFICES ASSUME TypeOK, GateInv, [Next]_vars
             PROVE  GateInv'
  OBVIOUS
<1> USE DEF GateInv, TypeOK, BrakeType
<1>1. CASE Engage
  <2>1. CASE EngageBrake
    BY <1>1, <2>1 DEF Engage, EngageBrake
  <2>2. ASSUME NEW l \in Lane, EngagePause(l)
        PROVE  GateInv'
    BY <1>1, <2>2 DEF Engage, EngagePause
  <2>3. CASE EngageRecord
    BY <1>1, <2>3 DEF Engage, EngageRecord
  <2>4. CASE EngageSweep
    BY <1>1, <2>4 DEF Engage, EngageSweep
  <2>5. CASE EngageSave
    BY <1>1, <2>5 DEF Engage, EngageSave
  <2> QED
    BY <1>1, <2>1, <2>2, <2>3, <2>4, <2>5 DEF Engage, EngageStep
<1>2. CASE Engaged
  BY <1>2 DEF Engaged, EngageGate
<1>3. CASE Release
  <2>1. CASE ReleaseBrake
    BY <1>3, <2>1 DEF Release, ReleaseBrake
  <2>2. ASSUME NEW l \in Lane, ReleaseUnpause(l)
        PROVE  GateInv'
    BY <1>3, <2>2 DEF Release, ReleaseUnpause
  <2>3. CASE ReleaseClear
    BY <1>3, <2>3 DEF Release, ReleaseClear
  <2>4. CASE ReleaseSave
    BY <1>3, <2>4 DEF Release, ReleaseSave
  <2>5. CASE ReleaseGate
    BY <1>3, <2>5 DEF Release, ReleaseGate
  <2> QED
    BY <1>3, <2>1, <2>2, <2>3, <2>4, <2>5 DEF Release, BrakeRelease
<1>4. CASE Fault
  <2>1. CASE BrakeCallFails
    BY <1>4, <2>1 DEF Fault, BrakeCallFails, DropBrakeHandler, BrakePcs
  <2>2. CASE BootBrake
    BY <1>4, <2>2 DEF Fault, BootBrake, DropBrakeHandler
  <2> QED
    BY <1>4, <2>1, <2>2 DEF Fault
<1>5. ASSUME NEW l \in Lane, OperatorPauses(l)
      PROVE  GateInv'
  BY <1>5 DEF OperatorPauses, PauseLane
<1>6. ASSUME NEW l \in Lane, OperatorResumes(l)
      PROVE  GateInv'
  BY <1>6 DEF OperatorResumes, ResumeLane
<1>7. CASE UNCHANGED vars
  BY <1>7 DEF vars
<1> QED
  BY <1>1, <1>2, <1>3, <1>4, <1>5, <1>6, <1>7 DEF Next

\* Once an engage is answered the gate stays shut, in memory and in the
\* settings, through any number of failed calls and restarts, until a release
\* begins.
THEOREM BrakeIsDurable == Spec => []BrakeDurable
<1>1. Init => GateInv
  BY DEF Init, BrakeInit, GateInv
<1>2. GateInv => BrakeDurable
  BY DEF GateInv, BrakeDurable
<1> QED
  BY <1>1, <1>2, GateStep, TypeCorrect, PTL DEF Spec

------------------------------------------------------------------------------
(* The release                                                              *)

\* Until a call fails, every step keeps the books of who paused what.
LEMMA RestoreStep ==
    TypeOK /\ GateInv /\ (faults = 0 => RestoreInv) /\ [Next]_vars
        => (faults = 0 => RestoreInv)'
<1> SUFFICES ASSUME TypeOK, GateInv, faults = 0 => RestoreInv, [Next]_vars,
                    faults' = 0
             PROVE  RestoreInv'
  OBVIOUS
<1>0. faults = 0 /\ RestoreInv
  <2>1. faults = 0
    BY DEF Next, Engage, Engaged, Release, Fault, OperatorPauses, OperatorResumes, TypeOK, vars
  <2> QED
    BY <2>1
<1> USE <1>0 DEF RestoreInv, Owed, TypeOK, BrakeType
<1>1. CASE Engage
  <2>1. CASE EngageBrake
    BY <1>1, <2>1 DEF Engage, EngageBrake
  <2>2. ASSUME NEW l \in Lane, EngagePause(l)
        PROVE  RestoreInv'
    BY <1>1, <2>2 DEF Engage, EngagePause, SetLanePaused
  <2>3. CASE EngageRecord
    BY <1>1, <2>3 DEF Engage, EngageRecord
  <2>4. CASE EngageSweep
    BY <1>1, <2>4 DEF Engage, EngageSweep
  <2>5. CASE EngageSave
    BY <1>1, <2>5 DEF Engage, EngageSave
  <2> QED
    BY <1>1, <2>1, <2>2, <2>3, <2>4, <2>5 DEF Engage, EngageStep
<1>2. CASE Engaged
  BY <1>2 DEF Engaged, EngageGate
<1>3. CASE Release
  <2>1. CASE ReleaseBrake
    BY <1>3, <2>1 DEF Release, ReleaseBrake
  <2>2. ASSUME NEW l \in Lane, ReleaseUnpause(l)
        PROVE  RestoreInv'
    BY <1>3, <2>2 DEF Release, ReleaseUnpause, SetLanePaused
  <2>3. CASE ReleaseClear
    BY <1>3, <2>3 DEF Release, ReleaseClear
  <2>4. CASE ReleaseSave
    BY <1>3, <2>4 DEF Release, ReleaseSave
  <2>5. CASE ReleaseGate
    BY <1>3, <2>5 DEF Release, ReleaseGate
  <2> QED
    BY <1>3, <2>1, <2>2, <2>3, <2>4, <2>5 DEF Release, BrakeRelease
<1>4. ~Fault
  BY <1>0 DEF Fault, TypeOK
<1>5. ASSUME NEW l \in Lane, OperatorPauses(l)
      PROVE  RestoreInv'
  BY <1>5 DEF OperatorPauses, PauseLane, SetLanePaused
<1>6. ASSUME NEW l \in Lane, OperatorResumes(l)
      PROVE  RestoreInv'
  BY <1>6 DEF OperatorResumes, ResumeLane, SetLanePaused
<1>7. CASE UNCHANGED vars
  BY <1>7 DEF vars
<1> QED
  BY <1>1, <1>2, <1>3, <1>4, <1>5, <1>6, <1>7 DEF Next

\* Until a call fails, an answered release leaves exactly those lanes paused
\* that operators have paused and not resumed, but for the lanes they paused
\* while the brake acted.
THEOREM ReleaseIsExact == Spec => ReleaseRestores
<1>1. Init => GateInv /\ RestoreInv
  BY DEF Init, BrakeInit, GateInv, RestoreInv, Owed
<1>2. TypeOK /\ (faults = 0 => RestoreInv) /\ [Next]_vars
          => [ReleaseGate /\ faults = 0 =>
                 /\ lanePaused \subseteq byOperator
                 /\ byOperator \ lanePaused \subseteq overridden]_vars
  BY DEF RestoreInv, Owed, TypeOK, BrakeType, ReleaseGate
<1> QED
  BY <1>1, <1>2, GateStep, RestoreStep, TypeCorrect, PTL DEF Spec, ReleaseRestores
==============================================================================
