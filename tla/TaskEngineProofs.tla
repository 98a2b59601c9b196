-------------------------- MODULE TaskEngineProofs ---------------------------
(***************************************************************************)
(* The task engine, proved for every set of tasks and lanes, every width   *)
(* and every bound.  No two executions of one task are ever in the         *)
(* worker's hands at once (OneRunnerPerTask): the invariant it takes says  *)
(* who holds which lock, and when.  A one-shot job runs only under a row   *)
(* that says so (JobRunsUnderItsRow), and a cancel that is answered "not   *)
(* running" left nothing queued or running behind (CancelMissesNothing).   *)
(*                                                                         *)
(* The third part keeps the books: the engine implements the ledger        *)
(* (KeepsLedger), a close that is the first stop leaves nothing open,      *)
(* uncounted or locked (CleanClose), and the hand brake's sweep reaches    *)
(* everything it listed (SweepMissesNothing).                              *)
(*                                                                         *)
(* The last part is about the queue: without reruns, jobs of a lane start  *)
(* in the order they were submitted (QueueOrder).                          *)
(***************************************************************************)
EXTENDS TaskEngine, FiniteSetTheorems, TLAPS

-----------------------------------------------------------------------------
\* What every operation of the database keeps, whoever calls it and when: the
\* types of the tables, and two facts about execution rows.

\* Ids beyond the counter are unused, and a row belongs to a task that still
\* has its own row (the foreign key with ON DELETE CASCADE).
RowsInv ==
    /\ \A e \in Exec : e >= nextExec => execTask[e] = NoTask /\ status[e] = "none"
    /\ \A e \in Exec : status[e] # "none" => execTask[e] \in exists

StoreInv == StoreType /\ RowsInv

\* A new database is consistent.
LEMMA StoreInitial == StoreInit => StoreInv
<1> SUFFICES ASSUME StoreInit
             PROVE  StoreInv
  OBVIOUS
<1>1. StoreType
  <2>1. position \in [Task -> Nat]
    BY StoreAssumption DEF StoreAssumption, StoreInit, Task
  <2>2. nextExec \in 1..(MaxExecs + 1)
    BY StoreAssumption DEF StoreAssumption, StoreInit
  <2> QED
    BY <2>1, <2>2 DEF StoreInit, StoreType, Task, Status
<1>2. RowsInv
  BY DEF StoreInit, RowsInv
<1> QED
  BY <1>1, <1>2 DEF StoreInv

------------------------------------------------------------------------------
(* Inserts                                                                  *)

\* The worker and up-next append a row for a task that exists.
LEMMA EnqueueKeeps ==
    ASSUME NEW t \in Task, StoreInv, EnqueueTask(t)
    PROVE  StoreInv'
BY StoreAssumption
   DEF StoreAssumption, StoreInv, StoreType, RowsInv, EnqueueTask, InsertPending,
       Exec, Status

\* So does a rerun.
LEMMA RerunKeeps ==
    ASSUME NEW t \in Task, StoreInv, RerunTask(t)
    PROVE  StoreInv'
BY StoreAssumption
   DEF StoreAssumption, StoreInv, StoreType, RowsInv, RerunTask, InsertPending,
       Exec, Status

\* A submission inserts the task with its first row.
LEMMA SubmitKeeps ==
    ASSUME NEW t \in Task, StoreInv, SubmitFuncTask(t)
    PROVE  StoreInv'
BY StoreAssumption
   DEF StoreAssumption, StoreInv, StoreType, RowsInv, SubmitFuncTask, InsertPending,
       Exec, Status, Task

------------------------------------------------------------------------------
(* Updates of a row                                                         *)

\* onStart's update revives no deleted row.
LEMMA StartKeeps ==
    ASSUME NEW e \in Exec, StoreInv, StartExecution(e)
    PROVE  StoreInv'
BY DEF StoreInv, StoreType, RowsInv, StartExecution, Status

\* The pid column is written on existing rows.
LEMMA SetPIDKeeps ==
    ASSUME NEW e \in Exec, StoreInv, SetExecutionPID(e)
    PROVE  StoreInv'
BY DEF StoreInv, StoreType, RowsInv, SetExecutionPID

\* A claim changes a pending row or nothing.
LEMMA ClaimKeeps ==
    ASSUME NEW e \in Exec, StoreInv, ClaimFuncExecution(e)
    PROVE  StoreInv'
BY DEF StoreInv, StoreType, RowsInv, ClaimFuncExecution, Status

\* Writing a result revives no deleted row either.
LEMMA FinishKeeps ==
    ASSUME NEW e \in Exec, NEW s \in Terminal, StoreInv, FinishExecution(e, s)
    PROVE  StoreInv'
BY DEF StoreInv, StoreType, RowsInv, FinishExecution, Status

\* A metric is counted even when its execution is gone, and harms no row.
LEMMA RecordMetricKeeps ==
    ASSUME NEW e, StoreInv, RecordMetric(e)
    PROVE  StoreInv'
<1>1. metrics' \in [Exec -> Nat]
  <2>1. CASE e \in Exec
    BY <2>1 DEF StoreInv, StoreType, RecordMetric
  <2>2. CASE e \notin Exec
    BY <2>2 DEF StoreInv, StoreType, RecordMetric
  <2> QED
    BY <2>1, <2>2
<1> QED
  BY <1>1 DEF StoreInv, StoreType, RowsInv, RecordMetric

\* Canceling a queued row and counting it is one consistent step.
LEMMA CancelKeeps ==
    ASSUME NEW e \in Exec, StoreInv, CancelPendingFuncExecution(e)
    PROVE  StoreInv'
<1>1. CASE CancelsRow(e)
  BY <1>1 DEF StoreInv, StoreType, RowsInv, CancelPendingFuncExecution, CancelsRow,
              Status, Terminal
<1>2. CASE ~CancelsRow(e)
  BY <1>2 DEF StoreInv, StoreType, RowsInv, CancelPendingFuncExecution
<1> QED
  BY <1>1, <1>2

------------------------------------------------------------------------------
(* The brake's variables                                                    *)

\* What the engine takes from the brake's module keeps the brake's types.
LEMMA BrakeKeeps ==
    ASSUME BrakeType,
           \/ EngageBrake \/ EngageRecord \/ EngageSweep \/ EngageSave \/ EngageGate
           \/ \E l \in Lane : EngagePause(l)
           \/ BrakeRelease
           \/ BootBrake
           \/ DropBrakeHandler /\ gate' = FALSE
    PROVE  BrakeType'
<1> USE DEF BrakeType, BrakePcs
<1>1. CASE EngageBrake \/ EngageRecord \/ EngageSweep \/ EngageSave \/ EngageGate
  BY <1>1 DEF EngageBrake, EngageRecord, EngageSweep, EngageSave, EngageGate
<1>2. CASE ReleaseBrake \/ ReleaseClear \/ ReleaseSave \/ ReleaseGate
  BY <1>2 DEF ReleaseBrake, ReleaseClear, ReleaseSave, ReleaseGate
<1>3. ASSUME NEW l \in Lane, EngagePause(l) \/ ReleaseUnpause(l)
      PROVE  BrakeType'
  BY <1>3 DEF EngagePause, ReleaseUnpause, SetLanePaused
<1>4. CASE BootBrake \/ (DropBrakeHandler /\ gate' = FALSE)
  BY <1>4 DEF BootBrake, DropBrakeHandler
<1> QED
  BY <1>1, <1>2, <1>3, <1>4 DEF BrakeRelease

------------------------------------------------------------------------------
(* Tasks and locks                                                          *)

\* Deleting a shell task takes its rows along.
LEMMA DeleteTaskKeeps ==
    ASSUME NEW t \in Task, StoreInv, DeleteTask(t)
    PROVE  StoreInv'
BY DEF StoreInv, StoreType, RowsInv, DeleteTask, WithoutRows, Status

\* Removal and pruning take tasks, rows and locks in one transaction.
LEMMA DeleteTaskRowsKeeps ==
    ASSUME NEW T \in SUBSET Task, StoreInv, DeleteTaskRows(T)
    PROVE  StoreInv'
BY DEF StoreInv, StoreType, RowsInv, DeleteTaskRows, WithoutRows, Status

\* Pausing touches no row.
LEMMA SetTaskPausedKeeps ==
    ASSUME NEW t \in Task, NEW p \in BOOLEAN, StoreInv, SetTaskPaused(t, p)
    PROVE  StoreInv'
BY DEF StoreInv, StoreType, RowsInv, SetTaskPaused

\* Taking, releasing and expiring a lock touch no row.
LEMMA SetLockKeeps ==
    ASSUME NEW t, NEW v \in {"free", "held", "expired"}, StoreInv, SetLock(t, v)
    PROVE  StoreInv'
BY DEF StoreInv, StoreType, RowsInv, SetLock

\* Nor does the cleanup of expired locks.
LEMMA CleanupKeeps ==
    ASSUME StoreInv, CleanupExpiredLocks
    PROVE  StoreInv'
BY DEF StoreInv, StoreType, RowsInv, CleanupExpiredLocks

-----------------------------------------------------------------------------

\* The program counters and the lock that poll holds belong together; where
\* the process sleeps nothing runs.
PlaceInv ==
    /\ pollTask # NoTask <=> pollPc \in {"locked", "creating"}
    /\ mode \in {"draining", "down", "booting"} => pollPc = "idle"
    /\ mode \in {"down", "booting"} => \A e \in Exec : ~Live(e)
    /\ mode # "booting" => orphanPc = "next"

\* A job that is, or that poll saw, has been submitted: it has had a row.  As
\* its id is not used again, a removed job never comes back.
SubmittedInv ==
    \A t \in Func :
        t \in exists \cup snap \cup toRun \cup {pollTask}
            => \E e \in Exec : execTask[e] = t

\* Runners work on rows that exist or existed, one at most for a task, and as
\* long as the task itself exists its lock is held: removing a task frees the
\* lock under a runner, but then no poll can launch the task again.
RunnerInv ==
    /\ \A e \in Exec : Live(e) => e < nextExec /\ execTask[e] \in Task
    /\ \A e \in Exec : Live(e) /\ execTask[e] \in exists => lock[execTask[e]] = "held"
    /\ OneRunnerPerTask

\* The same for the task poll is about to launch: nobody else has it.
PollInv ==
    pollTask \in exists =>
        /\ lock[pollTask] = "held"
        /\ \A e \in Exec : Live(e) => execTask[e] # pollTask

\* A runner records a verdict only after it has reached one.
VerdictInv == \A e \in Exec : runner[e] = "ended" => outcome[e] \in Terminal

\* The part of the invariant that is about types and single rows, the part
\* about locks, and the whole.
DataInv == TypeOK /\ RowsInv /\ VerdictInv
LockInv == PlaceInv /\ SubmittedInv /\ RunnerInv /\ PollInv
IInv == DataInv /\ LockInv

------------------------------------------------------------------------------
(* Types                                                                    *)

\* A group of variables that a step leaves alone keeps its type.
LEMMA Frames ==
    /\ StoreInv /\ UNCHANGED storeVars => StoreInv'
    /\ BrakeType /\ UNCHANGED brakeVars => BrakeType'
    /\ RunType /\ UNCHANGED runVars => RunType'
    /\ PollType /\ UNCHANGED pollVars => PollType'
    /\ BootType /\ UNCHANGED bootVars => BootType'
<1>1. StoreInv /\ UNCHANGED storeVars => StoreInv'
  BY DEF StoreInv, StoreType, RowsInv, storeVars
<1>2. BrakeType /\ UNCHANGED brakeVars => BrakeType'
  BY DEF BrakeType, brakeVars
<1>3. RunType /\ UNCHANGED runVars => RunType'
  BY DEF RunType, runVars
<1>4. PollType /\ UNCHANGED pollVars => PollType'
  BY DEF PollType, pollVars
<1>5. BootType /\ UNCHANGED bootVars => BootType'
  BY DEF BootType, bootVars
<1> QED
  BY <1>1, <1>2, <1>3, <1>4, <1>5

\* What a runner's step does outside the store: it moves, and it leaves the
\* brake, the poll and the process alone.
LEMMA RunFrame ==
    ASSUME DataInv, StoreInv', RunType', VerdictInv', UNCHANGED RestOfRun
    PROVE  DataInv'
BY Frames DEF DataInv, TypeOK, StoreInv, RestOfRun

\* Each step of a runner keeps the types, and writes only verdicts.
LEMMA RunTypes ==
    ASSUME NEW e \in Exec, DataInv, Run(e)
    PROVE  DataInv'
<1>0. StoreInv /\ RunType /\ VerdictInv
  BY DEF DataInv, TypeOK, StoreInv
<1> USE DEF RunType, VerdictInv, RunnerPcs, ShellPcs, FuncPcs, At, Goto
<1>1. CASE RunRegister(e)
  BY <1>0, <1>1, Frames, RunFrame DEF RunRegister
<1>2. CASE RunAdmit(e)
  BY <1>0, <1>2, Frames, RunFrame DEF RunAdmit
<1>3. CASE RunBrakeShell(e)
  <2>1. StoreInv'
    BY <1>0, <1>3, FinishKeeps DEF RunBrakeShell, Terminal
  <2> QED
    BY <1>0, <1>3, <2>1, RunFrame DEF RunBrakeShell
<1>4. CASE RunBrakeFunc(e)
  <2>1. StoreInv'
    BY <1>0, <1>4, CancelKeeps DEF RunBrakeFunc
  <2> QED
    BY <1>0, <1>4, <2>1, RunFrame DEF RunBrakeFunc
<1>5. CASE RunStart(e)
  BY <1>0, <1>5, Frames, RunFrame DEF RunStart
<1>6. CASE RunStartFails(e)
  BY <1>0, <1>6, Frames, RunFrame DEF RunStartFails
<1>7. CASE RunMark(e)
  <2>1. StoreInv'
    BY <1>0, <1>7, StartKeeps DEF RunMark
  <2> QED
    BY <1>0, <1>7, <2>1, RunFrame DEF RunMark
<1>8. CASE RunPersistPid(e)
  <2>1. StoreInv'
    BY <1>0, <1>8, SetPIDKeeps DEF RunPersistPid
  <2> QED
    BY <1>0, <1>8, <2>1, RunFrame DEF RunPersistPid
<1>9. CASE RunLeaveQueued(e)
  BY <1>0, <1>9, Frames, RunFrame DEF RunLeaveQueued
<1>10. CASE RunToClaim(e)
  BY <1>0, <1>10, Frames, RunFrame DEF RunToClaim
<1>11. CASE RunClaim(e)
  <2>1. StoreInv'
    BY <1>0, <1>11, ClaimKeeps DEF RunClaim
  <2> QED
    BY <1>0, <1>11, <2>1, RunFrame DEF RunClaim
<1>12. CASE RunRefuse(e)
  BY <1>0, <1>12, Frames, RunFrame DEF RunRefuse, Terminal
<1>13. CASE RunBody(e)
  BY <1>0, <1>13, Frames, RunFrame DEF RunBody
<1>14. CASE RunExit(e)
  BY <1>0, <1>14, Frames, RunFrame DEF RunExit
<1>15. CASE RunDecide(e)
  BY <1>0, <1>15, Frames, RunFrame DEF RunDecide, Terminal
<1>16. CASE RunFinish(e)
  <2>1. StoreInv'
    BY <1>0, <1>16, FinishKeeps DEF RunFinish
  <2> QED
    BY <1>0, <1>16, <2>1, RunFrame DEF RunFinish
<1>17. CASE RunMeter(e)
  <2>1. StoreInv'
    BY <1>0, <1>17, RecordMetricKeeps DEF RunMeter
  <2> QED
    BY <1>0, <1>17, <2>1, RunFrame DEF RunMeter
<1>18. CASE RunRelease(e)
  <2>1. StoreInv'
    BY <1>0, <1>18, SetLockKeeps DEF RunRelease, ReleaseLock
  <2> QED
    BY <1>0, <1>18, <2>1, RunFrame DEF RunRelease
<1> QED
  BY <1>1, <1>2, <1>3, <1>4, <1>5, <1>6, <1>7, <1>8, <1>9, <1>10, <1>11, <1>12,
     <1>13, <1>14, <1>15, <1>16, <1>17, <1>18 DEF Run

\* The same for a step of poll that leaves the runners alone ...
LEMMA PollFrame ==
    ASSUME DataInv, StoreInv', PollType', UNCHANGED <<runVars, RestOfPoll>>
    PROVE  DataInv'
BY Frames DEF DataInv, TypeOK, StoreInv, RestOfPoll, VerdictInv, runVars

\* ... and for the two that spawn one.
LEMMA SpawnTypes ==
    ASSUME NEW e, DataInv, StoreInv', Spawn(e),
           UNCHANGED <<snap, snapPos, lanesLeft, toRun, RestOfPoll>>
    PROVE  DataInv'
<1>1. RunType' /\ VerdictInv'
  BY DEF DataInv, TypeOK, RunType, VerdictInv, Spawn, RunnerPcs
<1>2. PollType'
  BY DEF DataInv, TypeOK, PollType, Spawn
<1> QED
  BY <1>1, <1>2, Frames DEF DataInv, TypeOK, StoreInv, RestOfPoll

\* Each step of poll keeps the types.
LEMMA PollTypes ==
    ASSUME DataInv, Poll
    PROVE  DataInv'
<1>0. StoreInv /\ PollType
  BY DEF DataInv, TypeOK, StoreInv
<1> USE DEF PollType
<1>1. CASE PollStart
  <2>1. StoreInv'
    BY <1>0, <1>1, CleanupKeeps DEF PollStart
  <2> QED
    BY <1>0, <1>1, <2>1, PollFrame DEF PollStart
<1>2. CASE PollSnapshot
  <2>1. snap' \subseteq Task
    BY <1>0, <1>2 DEF PollSnapshot, EligibleTasks, StoreInv, StoreType
  <2>2. snapPos' \in [Task -> Nat]
    BY <1>0, <1>2 DEF PollSnapshot, StoreInv, StoreType
  <2> QED
    BY <1>0, <1>2, <2>1, <2>2, Frames, PollFrame DEF PollSnapshot
<1>3. CASE PollEnd
  BY <1>0, <1>3, Frames, PollFrame DEF PollEnd, NoPos
<1>4. ASSUME NEW l \in Lane, PollLane(l)
      PROVE  DataInv'
  <2>1. toRun' \subseteq Task
    BY <1>0, <1>4 DEF PollLane, FirstOf
  <2> QED
    BY <1>0, <1>4, <2>1, Frames, PollFrame DEF PollLane
<1>5. ASSUME NEW t \in Task, PollLock(t)
      PROVE  DataInv'
  <2>1. StoreInv'
    BY <1>0, <1>5, SetLockKeeps, Frames DEF PollLock, AcquireLock
  <2> QED
    BY <1>0, <1>5, <2>1, PollFrame DEF PollLock
<1>6. ASSUME NEW t \in Task, PollLookup(t)
      PROVE  DataInv'
  <2>1. StoreInv'
    BY <1>0, <1>6, Frames DEF PollLookup
  <2>2. CASE \E e \in Exec : Spawn(e)
    BY <1>6, <2>1, <2>2, SpawnTypes DEF PollLookup
  <2>3. CASE pollPc' = "creating" /\ UNCHANGED <<pollTask, runVars>>
    BY <1>0, <1>6, <2>1, <2>3, PollFrame DEF PollLookup
  <2> QED
    BY <1>6, <2>2, <2>3 DEF PollLookup
<1>7. ASSUME NEW t \in Task, PollCreate(t)
      PROVE  DataInv'
  <2>1. StoreInv'
    BY <1>0, <1>7, EnqueueKeeps DEF PollCreate, CreateExecution
  <2> QED
    BY <1>7, <2>1, SpawnTypes DEF PollCreate
<1>8. ASSUME NEW t \in Task, PollCreateFails(t)
      PROVE  DataInv'
  <2>1. StoreInv'
    BY <1>0, <1>8, SetLockKeeps DEF PollCreateFails, ReleaseLock
  <2> QED
    BY <1>0, <1>8, <2>1, PollFrame DEF PollCreateFails
<1> QED
  BY <1>1, <1>2, <1>3, <1>4, <1>5, <1>6, <1>7, <1>8 DEF Poll

\* What a request does outside the store and its own place in it.
LEMMA ClientFrame ==
    ASSUME DataInv, StoreInv', cancelling' \subseteq Exec, UNCHANGED RestOfClient
    PROVE  DataInv'
BY Frames DEF DataInv, TypeOK, StoreInv, RestOfClient, VerdictInv, runVars

\* Each step of a request keeps the types.
LEMMA ClientTypes ==
    ASSUME DataInv, Client
    PROVE  DataInv'
<1>0. StoreInv /\ cancelling \subseteq Exec
  BY DEF DataInv, TypeOK, StoreInv
<1>1. ASSUME NEW t \in Task, UpNext(t)
      PROVE  DataInv'
  BY <1>0, <1>1, EnqueueKeeps, ClientFrame DEF UpNext
<1>2. ASSUME NEW t \in Task, Submit(t)
      PROVE  DataInv'
  BY <1>0, <1>2, SubmitKeeps, ClientFrame DEF Submit
<1>3. ASSUME NEW t \in Task, Rerun(t)
      PROVE  DataInv'
  BY <1>0, <1>3, RerunKeeps, ClientFrame DEF Rerun
<1>4. ASSUME NEW t \in Task, Remove(t)
      PROVE  DataInv'
  BY <1>0, <1>4, DeleteTaskRowsKeeps, ClientFrame DEF Remove, RemoveIdleTask
<1>5. ASSUME NEW t \in Task, Delete(t)
      PROVE  DataInv'
  BY <1>0, <1>5, DeleteTaskKeeps, ClientFrame DEF Delete
<1>6. ASSUME NEW t \in Task, NEW p \in BOOLEAN, PauseTask(t, p)
      PROVE  DataInv'
  BY <1>0, <1>6, SetTaskPausedKeeps, ClientFrame DEF PauseTask
<1>7. ASSUME NEW l \in Lane, Prune(l)
      PROVE  DataInv'
  <2>1. PICK old \in SUBSET Func : DeleteTaskRows(old)
    BY <1>7 DEF Prune, PruneOwnedLane
  <2>2. old \in SUBSET Task
    BY DEF Task
  <2> QED
    BY <1>0, <1>7, <2>1, <2>2, DeleteTaskRowsKeeps, ClientFrame DEF Prune
<1>8. ASSUME NEW e \in Exec, CancelInStore(e)
      PROVE  DataInv'
  BY <1>0, <1>8, CancelKeeps, ClientFrame DEF CancelInStore
<1>9. ASSUME NEW e \in Exec, CancelInRegistry(e)
      PROVE  DataInv'
  <2>1. RunType' /\ VerdictInv'
    BY <1>9 DEF CancelInRegistry, RegistryCancel, DataInv, TypeOK, RunType, VerdictInv
  <2> QED
    BY <1>0, <1>9, <2>1, Frames DEF CancelInRegistry, DataInv, TypeOK, StoreInv
<1> QED
  BY <1>1, <1>2, <1>3, <1>4, <1>5, <1>6, <1>7, <1>8, <1>9 DEF Client

\* Each step of the brake's handlers keeps the types.
LEMMA BrakeTypes ==
    ASSUME DataInv, BrakeHandler
    PROVE  DataInv'
<1>0. /\ StoreInv /\ BrakeType /\ RunType /\ PollType /\ BootType
      /\ cancelling \subseteq Exec /\ sweep \subseteq Exec
      /\ engages \in 0..MaxEngages /\ VerdictInv
  BY DEF DataInv, TypeOK, StoreInv
<1>1. ASSUME BrakeType', RunType', sweep' \subseteq Exec, engages' \in 0..MaxEngages,
             UNCHANGED RestOfBrake
      PROVE  DataInv'
  BY <1>0, <1>1, Frames DEF DataInv, TypeOK, StoreInv, RestOfBrake, VerdictInv
<1>2. CASE BrakeEngage
  <2>1. engages' \in 0..MaxEngages
    BY <1>0, <1>2, EngineAssumption DEF EngineAssumption, BrakeEngage
  <2>2. BrakeType'
    BY <1>0, <1>2, BrakeKeeps DEF BrakeEngage
  <2> QED
    BY <1>0, <1>1, <1>2, <2>1, <2>2 DEF BrakeEngage, RestOfBrake, RunType
<1>3. CASE BrakeListRunning
  <2>1. BrakeType'
    BY <1>0, <1>3, BrakeKeeps DEF BrakeListRunning
  <2> QED
    BY <1>0, <1>1, <1>3, <2>1 DEF BrakeListRunning, RunningExecutions, RestOfBrake, RunType
<1>4. CASE BrakeEngageOn
  <2>1. BrakeType'
    BY <1>0, <1>4, BrakeKeeps DEF BrakeEngageOn
  <2> QED
    BY <1>0, <1>1, <1>4, <2>1 DEF BrakeEngageOn, RestOfBrake, RunType
<1>5. CASE BrakeReleaseOn
  <2>1. BrakeType'
    BY <1>0, <1>5, BrakeKeeps DEF BrakeReleaseOn
  <2> QED
    BY <1>0, <1>1, <1>5, <2>1 DEF BrakeReleaseOn, RestOfBrake, RunType
<1>6. ASSUME NEW e \in Exec, BrakeCancel(e)
      PROVE  DataInv'
  <2>1. RunType'
    BY <1>0, <1>6 DEF BrakeCancel, RegistryCancel, RestOfBrake, RunType
  <2> QED
    BY <1>0, <1>1, <1>6, <2>1, Frames DEF BrakeCancel
<1> QED
  BY <1>2, <1>3, <1>4, <1>5, <1>6 DEF BrakeHandler

\* Each step of closing, crashing and booting keeps the types.
LEMMA ProcessTypes ==
    ASSUME DataInv, Process
    PROVE  DataInv'
<1>0. /\ StoreInv /\ BrakeType /\ RunType /\ PollType /\ BootType
      /\ cancelling \subseteq Exec /\ sweep \subseteq Exec
      /\ engages \in 0..MaxEngages /\ VerdictInv
  BY DEF DataInv, TypeOK, StoreInv
<1>1. ASSUME StoreInv', BrakeType', BootType', UNCHANGED RestOfBoot
      PROVE  DataInv'
  BY <1>0, <1>1, Frames DEF DataInv, TypeOK, StoreInv, RestOfBoot, VerdictInv, runVars
<1>2. stops < MaxStops => stops + 1 \in 0..MaxStops
  BY <1>0, EngineAssumption DEF EngineAssumption, BootType
<1> USE DEF BootType
<1>3. CASE BeginClose
  BY <1>0, <1>1, <1>2, <1>3, Frames DEF BeginClose, RestOfBoot
<1>4. CASE StopPolling
  BY <1>0, <1>1, <1>4, Frames DEF StopPolling, RestOfBoot
<1>5. CASE Closed
  BY <1>0, <1>1, <1>5, Frames DEF Closed, RestOfBoot
<1>6. CASE Crash
  <2>1. StoreInv' /\ BrakeType'
    BY <1>0, <1>6, Frames, BrakeKeeps DEF Crash
  <2>2. RunType' /\ VerdictInv'
    BY <1>0, <1>6 DEF Crash, RunType, VerdictInv, RunnerPcs
  <2>3. PollType'
    BY <1>6 DEF Crash, PollType, NoPos
  <2>4. BootType'
    BY <1>0, <1>2, <1>6, StoreAssumption DEF StoreAssumption, Crash
  <2> QED
    BY <1>0, <1>6, <2>1, <2>2, <2>3, <2>4 DEF Crash, DataInv, TypeOK, StoreInv
<1>7. CASE Boot
  BY <1>0, <1>1, <1>7, Frames DEF Boot, RunningExecutions
<1>8. ASSUME NEW e \in Exec, OrphanSkip(e)
      PROVE  DataInv'
  BY <1>0, <1>1, <1>8, Frames DEF OrphanSkip
<1>9. ASSUME NEW e \in Exec, OrphanFinish(e)
      PROVE  DataInv'
  <2>1. StoreInv'
    BY <1>0, <1>9, FinishKeeps DEF OrphanFinish, Terminal
  <2>2. e \in 0..MaxExecs
    BY StoreAssumption DEF StoreAssumption, Exec
  <2> QED
    BY <1>0, <1>1, <1>9, <2>1, <2>2, Frames DEF OrphanFinish
<1>10. CASE OrphanMeter
  <2>1. StoreInv'
    BY <1>0, <1>10, RecordMetricKeeps DEF OrphanMeter
  <2> QED
    BY <1>0, <1>1, <1>10, <2>1, Frames DEF OrphanMeter
<1>11. CASE OrphanRelease
  <2>1. StoreInv'
    BY <1>0, <1>11, SetLockKeeps DEF OrphanRelease, ReleaseLock
  <2>2. 0 \in 0..MaxExecs
    BY StoreAssumption DEF StoreAssumption
  <2> QED
    BY <1>0, <1>1, <1>11, <2>1, <2>2, Frames DEF OrphanRelease
<1>12. CASE Serve
  <2>1. StoreInv' /\ BrakeType'
    BY <1>0, <1>12, Frames, BrakeKeeps DEF Serve
  <2> QED
    BY <1>0, <1>1, <1>12, <2>1 DEF Serve
<1>13. ASSUME NEW e \in Exec, SurvivorExits(e)
       PROVE  DataInv'
  <2>1. RunType' /\ VerdictInv'
    BY <1>0, <1>13 DEF SurvivorExits, RunType, VerdictInv
  <2> QED
    BY <1>0, <1>13, <2>1, Frames, RunFrame DEF SurvivorExits
<1> QED
  BY <1>3, <1>4, <1>5, <1>6, <1>7, <1>8, <1>9, <1>10, <1>11, <1>12, <1>13
     DEF Process, ReconcileOrphans

\* A lock that runs out changes one row of task_locks.
LEMMA ExpireTypes ==
    ASSUME NEW t \in Task, DataInv, ExpireLock(t)
    PROVE  DataInv'
<1>1. StoreInv'
  BY SetLockKeeps DEF ExpireLock, LockExpires, DataInv, TypeOK, StoreInv
<1> QED
  BY <1>1, Frames, RunFrame DEF ExpireLock, DataInv, TypeOK, VerdictInv, runVars

\* Every step of the engine keeps the types.
LEMMA TypeStep == DataInv /\ [Next]_vars => DataInv'
<1>1. ASSUME DataInv, UNCHANGED vars
      PROVE  DataInv'
  BY <1>1, Frames DEF DataInv, TypeOK, StoreInv, VerdictInv, vars, runVars
<1> QED
  BY <1>1, PollTypes, ClientTypes, BrakeTypes, ProcessTypes, RunTypes, ExpireTypes
     DEF Next

\* The engine starts with well-typed tables and an idle process.
LEMMA TypeInitial == Init => DataInv
<1> SUFFICES ASSUME Init
             PROVE  DataInv
  OBVIOUS
<1>1. StoreInv /\ BrakeType
  BY StoreInitial DEF Init, BrakeInit, BrakeType, BrakePcs
<1>2. RunType /\ PollType /\ VerdictInv
  BY DEF Init, RunType, RunnerPcs, PollType, NoPos, VerdictInv
<1>3. BootType /\ engages \in 0..MaxEngages
  BY StoreAssumption, EngineAssumption DEF StoreAssumption, EngineAssumption, Init, BootType
<1> QED
  BY <1>1, <1>2, <1>3 DEF Init, DataInv, TypeOK, StoreInv

\* Type correctness of the whole engine: of its tables, of the goroutines'
\* positions and verdicts, of the poll's lists, of the brake and of the boot.
THEOREM TypeCorrect == Spec => []TypeOK
<1>1. DataInv => TypeOK
  BY DEF DataInv
<1> QED
  BY <1>1, TypeInitial, TypeStep, PTL DEF Spec

------------------------------------------------------------------------------
(* Locks: the steps that do not matter                                      *)

\* A step that moves no lock, no poll and no task, opens no row, and neither
\* starts nor ends a runner.
Quiet ==
    /\ UNCHANGED <<exists, execTask, nextExec, lock>>
    /\ UNCHANGED <<pollPc, pollTask, snap, toRun, mode, orphanPc>>
    /\ \A e \in Exec : Live(e)' <=> Live(e)

\* Such a step cannot disturb who holds which lock.
LEMMA QuietKeeps ==
    ASSUME LockInv, Quiet
    PROVE  LockInv'
<1>1. PlaceInv'
  BY DEF LockInv, PlaceInv, Quiet
<1>2. SubmittedInv'
  BY DEF LockInv, SubmittedInv, Quiet
<1>3. RunnerInv'
  BY DEF LockInv, RunnerInv, OneRunnerPerTask, Quiet
<1>4. PollInv'
  BY DEF LockInv, PollInv, Quiet
<1> QED
  BY <1>1, <1>2, <1>3, <1>4 DEF LockInv

\* A runner matters to the locks only where it is spawned and where it ends.
LEMMA RunIsQuiet ==
    ASSUME NEW e \in Exec, DataInv, Run(e), ~RunRelease(e)
    PROVE  Quiet
<1>0. runner \in [Exec -> RunnerPcs]
  BY DEF DataInv, TypeOK, RunType
<1>1. ASSUME NEW pc, At(e, pc), pc # "idle", NEW qc, Goto(e, qc), qc # "idle"
      PROVE  \A f \in Exec : Live(f)' <=> Live(f)
  BY <1>0, <1>1 DEF At, Goto, Live
<1> USE <1>1 DEF Quiet, RestOfRun, pollVars, bootVars, storeVars
<1>2. CASE RunRegister(e)
  BY <1>2 DEF RunRegister
<1>3. CASE RunAdmit(e)
  BY <1>3 DEF RunAdmit
<1>4. CASE RunBrakeShell(e)
  BY <1>4 DEF RunBrakeShell, FinishExecution
<1>5. CASE RunBrakeFunc(e)
  BY <1>5 DEF RunBrakeFunc, CancelPendingFuncExecution
<1>6. CASE RunStart(e)
  BY <1>6 DEF RunStart
<1>7. CASE RunStartFails(e)
  BY <1>7 DEF RunStartFails
<1>8. CASE RunMark(e)
  BY <1>8 DEF RunMark, StartExecution
<1>9. CASE RunPersistPid(e)
  BY <1>9 DEF RunPersistPid, SetExecutionPID
<1>10. CASE RunLeaveQueued(e)
  BY <1>10 DEF RunLeaveQueued
<1>11. CASE RunToClaim(e)
  BY <1>11 DEF RunToClaim
<1>12. CASE RunClaim(e)
  BY <1>12 DEF RunClaim, ClaimFuncExecution
<1>13. CASE RunRefuse(e)
  BY <1>13 DEF RunRefuse
<1>14. CASE RunBody(e)
  BY <1>14 DEF RunBody
<1>15. CASE RunExit(e)
  BY <1>15 DEF RunExit
<1>16. CASE RunDecide(e)
  BY <1>16 DEF RunDecide
<1>17. CASE RunFinish(e)
  BY <1>17 DEF RunFinish, FinishExecution
<1>18. CASE RunMeter(e)
  BY <1>18 DEF RunMeter, RecordMetric
<1> QED
  BY <1>2, <1>3, <1>4, <1>5, <1>6, <1>7, <1>8, <1>9, <1>10, <1>11, <1>12, <1>13,
     <1>14, <1>15, <1>16, <1>17, <1>18 DEF Run

\* Neither does the brake, which cancels and pauses but launches nothing.
LEMMA BrakeIsQuiet ==
    ASSUME BrakeHandler
    PROVE  Quiet
BY DEF BrakeHandler, BrakeEngage, BrakeListRunning, BrakeEngageOn, BrakeReleaseOn,
       BrakeCancel, RestOfBrake, Quiet, storeVars, pollVars, bootVars, Live

\* Canceling and pausing a task leave the locks alone too.
LEMMA RequestIsQuiet ==
    ASSUME \/ \E t \in Task, p \in BOOLEAN : PauseTask(t, p)
           \/ \E e \in Exec : CancelInStore(e) \/ CancelInRegistry(e)
    PROVE  Quiet
<1> USE DEF RestOfClient, Quiet, storeVars, pollVars, bootVars, runVars, Live
<1>1. ASSUME NEW t \in Task, NEW p \in BOOLEAN, PauseTask(t, p)
      PROVE  Quiet
  BY <1>1 DEF PauseTask, SetTaskPaused
<1>2. ASSUME NEW e \in Exec, CancelInStore(e)
      PROVE  Quiet
  BY <1>2 DEF CancelInStore, CancelPendingFuncExecution
<1>3. ASSUME NEW e \in Exec, CancelInRegistry(e)
      PROVE  Quiet
  BY <1>3 DEF CancelInRegistry
<1> QED
  BY <1>1, <1>2, <1>3

------------------------------------------------------------------------------
(* Locks: the steps that do                                                 *)

\* The part of the types that the arguments about locks use.
LEMMA Basics ==
    ASSUME DataInv
    PROVE  /\ NoTask \notin Task /\ Func \subseteq Task
           /\ exists \subseteq Task /\ pollTask \in Task \cup {NoTask}
           /\ lock \in [Task -> {"free", "held", "expired"}]
           /\ execTask \in [Exec -> Task \cup {NoTask}]
           /\ runner \in [Exec -> RunnerPcs]
           /\ nextExec \in Nat /\ Exec \subseteq Nat
BY StoreAssumption DEF StoreAssumption, DataInv, TypeOK, StoreType, PollType, RunType,
                       Task, Exec

\* A new row takes an id that no runner has and that was nobody's before.
LEMMA InsertAppends ==
    ASSUME DataInv, NEW t \in Task, InsertPending(t)
    PROVE  /\ nextExec \in Exec /\ nextExec' = nextExec + 1
           /\ execTask[nextExec] = NoTask /\ execTask'[nextExec] = t
           /\ \A e \in Exec : e # nextExec => execTask'[e] = execTask[e]
<1>1. nextExec \in Exec
  BY StoreAssumption DEF StoreAssumption, DataInv, TypeOK, StoreType, InsertPending, Exec
<1>2. execTask[nextExec] = NoTask
  BY <1>1, Basics DEF DataInv, RowsInv
<1> QED
  BY <1>1, <1>2, Basics DEF InsertPending

\* A row appended to a task that exists, or that comes into being with it,
\* disturbs no lock: a new job was never in anybody's hands.
LEMMA InsertLocks ==
    ASSUME DataInv, LockInv, NEW t \in Task, InsertPending(t),
           \/ t \in exists /\ exists' = exists
           \/ (\A e \in Exec : execTask[e] # t) /\ t \in Func /\ exists' = exists \cup {t},
           UNCHANGED <<lock, runner, pollPc, pollTask, snap, toRun, mode, orphanPc>>
    PROVE  LockInv'
<1>0. /\ nextExec \in Exec /\ nextExec' = nextExec + 1
      /\ execTask[nextExec] = NoTask /\ execTask'[nextExec] = t
      /\ \A e \in Exec : e # nextExec => execTask'[e] = execTask[e]
  BY InsertAppends
<1>1. PlaceInv'
  BY DEF LockInv, PlaceInv, Live
<1>2. SubmittedInv'
  BY <1>0, Basics DEF LockInv, SubmittedInv
<1>3. \A e \in Exec : Live(e) => e < nextExec /\ execTask'[e] = execTask[e]
  BY <1>0, Basics DEF LockInv, RunnerInv
<1>4. \A e \in Exec : Live(e) /\ execTask[e] \in exists' => execTask[e] \in exists
  BY <1>0
<1>5. RunnerInv'
  BY <1>0, <1>3, <1>4, Basics DEF LockInv, RunnerInv, OneRunnerPerTask, Live
<1>6. pollTask \in exists' => pollTask \in exists
  BY Basics DEF LockInv, SubmittedInv
<1>7. PollInv'
  BY <1>3, <1>6 DEF LockInv, PollInv, Live
<1> QED
  BY <1>1, <1>2, <1>5, <1>7 DEF LockInv

\* Removing tasks, with or without their locks, disturbs no task that stays.
LEMMA RemovalLocks ==
    ASSUME DataInv, LockInv, NEW T, exists' = exists \ T,
           \A t \in exists' : lock'[t] = lock[t],
           UNCHANGED <<execTask, nextExec, runner, pollPc, pollTask, snap, toRun, mode,
                       orphanPc>>
    PROVE  LockInv'
<1>1. PlaceInv'
  BY DEF LockInv, PlaceInv, Live
<1>2. SubmittedInv'
  BY DEF LockInv, SubmittedInv
<1>3. RunnerInv'
  BY DEF LockInv, RunnerInv, OneRunnerPerTask, Live
<1>4. PollInv'
  BY DEF LockInv, PollInv, Live
<1> QED
  BY <1>1, <1>2, <1>3, <1>4 DEF LockInv

\* The client requests keep the lock discipline.
LEMMA ClientLocks ==
    ASSUME DataInv, LockInv, Client
    PROVE  LockInv'
<1> USE DEF RestOfClient, runVars, pollVars, bootVars
<1>1. ASSUME NEW t \in Task, UpNext(t)
      PROVE  LockInv'
  BY <1>1, InsertLocks DEF UpNext, EnqueueTask
<1>2. ASSUME NEW t \in Task, Submit(t)
      PROVE  LockInv'
  BY <1>2, InsertLocks DEF Submit, SubmitFuncTask
<1>3. ASSUME NEW t \in Task, Rerun(t)
      PROVE  LockInv'
  BY <1>3, InsertLocks DEF Rerun, RerunTask
<1>4. ASSUME NEW T \in SUBSET Task, DeleteTaskRows(T), UNCHANGED RestOfClient
      PROVE  LockInv'
  <2>1. \A t \in exists' : lock'[t] = lock[t]
    BY <1>4, Basics DEF DeleteTaskRows
  <2> QED
    BY <1>4, <2>1, RemovalLocks DEF DeleteTaskRows
<1>5. ASSUME NEW t \in Task, Remove(t)
      PROVE  LockInv'
  BY <1>4, <1>5 DEF Remove, RemoveIdleTask
<1>6. ASSUME NEW t \in Task, Delete(t)
      PROVE  LockInv'
  BY <1>6, RemovalLocks DEF Delete, DeleteTask
<1>7. ASSUME NEW l \in Lane, Prune(l)
      PROVE  LockInv'
  <2>1. PICK old \in SUBSET Func : DeleteTaskRows(old)
    BY <1>7 DEF Prune, PruneOwnedLane
  <2> QED
    BY <1>4, <1>7, <2>1, Basics DEF Prune
<1> QED
  BY <1>1, <1>2, <1>3, <1>5, <1>6, <1>7, RequestIsQuiet, QuietKeeps DEF Client

\* The end of a runner frees its own lock: nobody else's runner or poll holds
\* a lock of that task, although all locks carry one worker id.
LEMMA ReleaseLocks ==
    ASSUME NEW e \in Exec, DataInv, LockInv, RunRelease(e)
    PROVE  LockInv'
<1> USE DEF RunRelease, ReleaseLock, SetLock, RestOfRun, pollVars, bootVars, Live, At, Goto
<1>0. Live(e) /\ \A f \in Exec : Live(f)' <=> Live(f) /\ f # e
  BY Basics
<1>1. \A t \in Task : t # execTask[e] => lock'[t] = lock[t]
  BY Basics
<1>2. PlaceInv'
  BY <1>0 DEF LockInv, PlaceInv
<1>3. SubmittedInv'
  BY DEF LockInv, SubmittedInv
<1>4. RunnerInv'
  BY <1>0, <1>1, Basics DEF LockInv, RunnerInv, OneRunnerPerTask
<1>5. PollInv'
  BY <1>0, <1>1, Basics DEF LockInv, PollInv
<1> QED
  BY <1>2, <1>3, <1>4, <1>5 DEF LockInv

\* Only a lock without an owner runs out.
LEMMA ExpireLocks ==
    ASSUME NEW t \in Task, DataInv, LockInv, ExpireLock(t)
    PROVE  LockInv'
<1> USE DEF ExpireLock, LockExpires, SetLock, RestOfRun, pollVars, bootVars, runVars
<1>1. \A u \in Task : u # t => lock'[u] = lock[u]
  BY Basics
<1>2. PlaceInv' /\ SubmittedInv'
  BY DEF LockInv, PlaceInv, SubmittedInv, Live
<1>3. RunnerInv'
  BY <1>1, Basics DEF LockInv, RunnerInv, OneRunnerPerTask, Live
<1>4. PollInv'
  BY <1>1, Basics DEF LockInv, PollInv, Live
<1> QED
  BY <1>2, <1>3, <1>4 DEF LockInv

\* Poll launches a task only under its lock, and spawns its runner on a row
\* of a task that exists.
LEMMA SpawnLocks ==
    ASSUME NEW t \in Task, NEW e \in Exec, DataInv, LockInv,
           pollPc \in {"locked", "creating"}, pollTask = t, t \in exists,
           Spawn(e), exists' = exists, lock' = lock,
           nextExec' \in {nextExec, nextExec + 1},
           \A f \in Exec : f # e => execTask'[f] = execTask[f],
           execTask[e] \in {t, NoTask}, execTask'[e] = t, e < nextExec', ~Live(e),
           UNCHANGED <<snap, toRun, mode, orphanPc>>
    PROVE  LockInv'
<1> USE DEF Spawn, Live
<1>0. \A f \in Exec : Live(f)' <=> Live(f) \/ f = e
  BY Basics
<1>1. PlaceInv'
  BY <1>0, Basics DEF LockInv, PlaceInv
<1>2. SubmittedInv'
  BY Basics DEF LockInv, SubmittedInv
<1>3. \A f \in Exec : Live(f) => execTask'[f] = execTask[f] /\ execTask[f] # t
  BY DEF LockInv, PollInv
<1>4. \A f \in Exec : f < nextExec => f < nextExec'
  BY Basics
<1>5. RunnerInv'
  BY <1>0, <1>3, <1>4, Basics DEF LockInv, RunnerInv, PollInv, OneRunnerPerTask
<1>6. PollInv'
  BY Basics DEF PollInv
<1> QED
  BY <1>1, <1>2, <1>5, <1>6 DEF LockInv

\* Each step of poll keeps the lock discipline, however stale its list is.
LEMMA PollLocks ==
    ASSUME DataInv, LockInv, Poll
    PROVE  LockInv'
<1> USE DEF RestOfPoll, runVars, bootVars
<1>1. CASE PollStart
  <2>1. \A t \in Task : lock[t] = "held" => lock'[t] = "held"
    BY <1>1 DEF PollStart, CleanupExpiredLocks
  <2>2. PlaceInv' /\ SubmittedInv'
    BY <1>1 DEF PollStart, CleanupExpiredLocks, Polling, LockInv, PlaceInv, SubmittedInv, Live
  <2>3. RunnerInv' /\ PollInv'
    BY <1>1, <2>1, Basics
       DEF PollStart, CleanupExpiredLocks, LockInv, RunnerInv, PollInv, OneRunnerPerTask, Live
  <2> QED
    BY <2>2, <2>3 DEF LockInv
<1>2. CASE PollSnapshot
  <2>1. snap' \subseteq exists /\ UNCHANGED <<exists, execTask, nextExec, lock, runner>>
    BY <1>2 DEF PollSnapshot, EligibleTasks, storeVars
  <2>2. PlaceInv' /\ SubmittedInv'
    BY <1>2, <2>1 DEF PollSnapshot, LockInv, PlaceInv, SubmittedInv, Live
  <2>3. RunnerInv' /\ PollInv'
    BY <1>2, <2>1 DEF PollSnapshot, LockInv, RunnerInv, PollInv, OneRunnerPerTask, Live
  <2> QED
    BY <2>2, <2>3 DEF LockInv
<1>3. CASE PollEnd
  BY <1>3 DEF PollEnd, storeVars, LockInv, PlaceInv, SubmittedInv, RunnerInv, PollInv,
              OneRunnerPerTask, Live
<1>4. ASSUME NEW l \in Lane, PollLane(l)
      PROVE  LockInv'
  <2>1. toRun' \subseteq snap /\ UNCHANGED <<exists, execTask, nextExec, lock, runner>>
    BY <1>4 DEF PollLane, FirstOf, storeVars
  <2>2. PlaceInv' /\ SubmittedInv'
    BY <1>4, <2>1 DEF PollLane, LockInv, PlaceInv, SubmittedInv, Live
  <2>3. RunnerInv' /\ PollInv'
    BY <1>4, <2>1 DEF PollLane, LockInv, RunnerInv, PollInv, OneRunnerPerTask, Live
  <2> QED
    BY <2>2, <2>3 DEF LockInv
<1>5. ASSUME NEW t \in Task, PollLock(t)
      PROVE  LockInv'
  <2>1. CASE ~LockIsFree(t) /\ UNCHANGED <<pollPc, pollTask, storeVars>>
    BY <1>5, <2>1 DEF PollLock, storeVars, LockInv, PlaceInv, SubmittedInv, RunnerInv,
                      PollInv, OneRunnerPerTask, Live
  <2>2. CASE AcquireLock(t) /\ pollPc' = "locked" /\ pollTask' = t
    <3>1. lock[t] = "free" /\ lock'[t] = "held" /\ \A u \in Task : u # t => lock'[u] = lock[u]
      BY <2>2, Basics DEF AcquireLock, LockIsFree, SetLock
    <3>2. UNCHANGED <<exists, execTask, nextExec, runner>>
      BY <1>5, <2>2 DEF PollLock, AcquireLock, SetLock
    <3>3. PlaceInv' /\ SubmittedInv'
      BY <1>5, <2>2, <3>2, Basics DEF PollLock, LockInv, PlaceInv, SubmittedInv, Live
    <3>4. RunnerInv'
      BY <3>1, <3>2, Basics DEF LockInv, RunnerInv, OneRunnerPerTask, Live
    <3>5. PollInv'
      BY <2>2, <3>1, <3>2, Basics DEF LockInv, RunnerInv, PollInv, Live
    <3> QED
      BY <3>3, <3>4, <3>5 DEF LockInv
  <2> QED
    BY <1>5, <2>1, <2>2 DEF PollLock
<1>6. ASSUME NEW t \in Task, PollLookup(t)
      PROVE  LockInv'
  <2>1. UNCHANGED <<exists, execTask, nextExec, lock>>
    BY <1>6 DEF PollLookup, storeVars
  <2>2. ASSUME NEW e \in Exec, IsOldest(e, PendingOf(t)), Spawn(e)
        PROVE  LockInv'
    <3>1. execTask[e] = t /\ status[e] # "none"
      BY <2>2 DEF IsOldest, PendingOf, RowsOf
    <3>2. t \in exists /\ e < nextExec
      BY <3>1, Basics DEF DataInv, RowsInv
    <3>3. ~Live(e)
      BY <1>6, <3>1, <3>2 DEF PollLookup, LockInv, PollInv
    <3> QED
      BY <1>6, <2>1, <2>2, <3>1, <3>2, <3>3, Basics, SpawnLocks DEF PollLookup
  <2>3. CASE pollPc' = "creating" /\ UNCHANGED <<pollTask, runVars>>
    BY <1>6, <2>1, <2>3 DEF PollLookup, LockInv, PlaceInv, SubmittedInv, RunnerInv,
                            PollInv, OneRunnerPerTask, Live
  <2> QED
    BY <1>6, <2>2, <2>3 DEF PollLookup
<1>7. ASSUME NEW t \in Task, PollCreate(t)
      PROVE  LockInv'
  <2>1. /\ nextExec \in Exec /\ nextExec' = nextExec + 1
        /\ execTask[nextExec] = NoTask /\ execTask'[nextExec] = t
        /\ \A e \in Exec : e # nextExec => execTask'[e] = execTask[e]
    BY <1>7, InsertAppends DEF PollCreate, CreateExecution, EnqueueTask
  <2>2. ~Live(nextExec)
    BY <2>1, Basics DEF LockInv, RunnerInv
  <2> QED
    BY <1>7, <2>1, <2>2, Basics, SpawnLocks DEF PollCreate, CreateExecution, EnqueueTask
<1>8. ASSUME NEW t \in Task, PollCreateFails(t)
      PROVE  LockInv'
  <2>1. \A u \in Task : u # t => lock'[u] = lock[u]
    BY <1>8, Basics DEF PollCreateFails, ReleaseLock, SetLock
  <2>2. UNCHANGED <<exists, execTask, nextExec, runner>>
    BY <1>8 DEF PollCreateFails, ReleaseLock, SetLock
  <2>3. PlaceInv' /\ SubmittedInv'
    BY <1>8, <2>2, Basics DEF PollCreateFails, LockInv, PlaceInv, SubmittedInv, Live
  <2>4. RunnerInv'
    BY <1>8, <2>1, <2>2, Basics
       DEF PollCreateFails, LockInv, RunnerInv, PollInv, OneRunnerPerTask, Live
  <2>5. PollInv'
    BY <1>8, <2>2, Basics DEF PollCreateFails, PollInv
  <2> QED
    BY <2>3, <2>4, <2>5 DEF LockInv
<1> QED
  BY <1>1, <1>2, <1>3, <1>4, <1>5, <1>6, <1>7, <1>8 DEF Poll

\* Closing waits for the runners, a crash takes them all; the boot cleans up
\* before anything runs, so it can free no lock that somebody holds.
LEMMA ProcessLocks ==
    ASSUME DataInv, LockInv, Process
    PROVE  LockInv'
<1> USE DEF RestOfBoot, runVars, pollVars, storeVars
<1>1. CASE BeginClose \/ StopPolling \/ Closed \/ Boot \/ Serve
  BY <1>1 DEF BeginClose, StopPolling, Closed, Boot, Serve, LockInv, PlaceInv, SubmittedInv,
              RunnerInv, PollInv, OneRunnerPerTask, Live
<1>2. CASE Crash
  <2>1. \A e \in Exec : ~Live(e)'
    BY <1>2 DEF Crash, Live
  <2> QED
    BY <1>2, <2>1, Basics DEF Crash, LockInv, PlaceInv, SubmittedInv, RunnerInv, PollInv,
                              OneRunnerPerTask
<1>3. ASSUME mode = "booting", mode' = mode, UNCHANGED <<exists, execTask, nextExec>>,
             UNCHANGED <<runVars, pollVars>>
      PROVE  LockInv'
  <2>1. pollTask \notin exists /\ \A e \in Exec : ~Live(e)
    BY <1>3, Basics DEF LockInv, PlaceInv
  <2> QED
    BY <1>3, <2>1 DEF LockInv, PlaceInv, SubmittedInv, RunnerInv, PollInv,
                      OneRunnerPerTask, Live
<1>4. ASSUME NEW e \in Exec, OrphanSkip(e)
      PROVE  LockInv'
  BY <1>3, <1>4 DEF OrphanSkip
<1>5. ASSUME NEW e \in Exec, OrphanFinish(e)
      PROVE  LockInv'
  BY <1>3, <1>5 DEF OrphanFinish, FinishExecution
<1>6. CASE OrphanMeter
  <2>1. mode = "booting"
    BY <1>6 DEF OrphanMeter, LockInv, PlaceInv
  <2> QED
    BY <1>3, <1>6, <2>1 DEF OrphanMeter, RecordMetric
<1>7. CASE OrphanRelease
  <2>1. mode = "booting"
    BY <1>7 DEF OrphanRelease, LockInv, PlaceInv
  <2> QED
    BY <1>3, <1>7, <2>1 DEF OrphanRelease, ReleaseLock, SetLock
<1>8. ASSUME NEW e \in Exec, SurvivorExits(e)
      PROVE  LockInv'
  <2>1. Quiet
    BY <1>8 DEF SurvivorExits, RestOfRun, bootVars, Quiet, Live
  <2> QED
    BY <2>1, QuietKeeps
<1> QED
  BY <1>1, <1>2, <1>4, <1>5, <1>6, <1>7, <1>8 DEF Process, ReconcileOrphans

------------------------------------------------------------------------------
(* The theorem                                                              *)

\* The engine starts with no lock, no runner and no poll.
LEMMA LockInitial == Init => LockInv
BY StoreAssumption DEF StoreAssumption, Init, StoreInit, LockInv, PlaceInv, SubmittedInv,
                       RunnerInv, PollInv, OneRunnerPerTask, Live, Task

\* Every step keeps the lock discipline.
LEMMA LockStep == DataInv /\ LockInv /\ [Next]_vars => LockInv'
<1> SUFFICES ASSUME DataInv, LockInv, [Next]_vars
             PROVE  LockInv'
  OBVIOUS
<1>1. CASE UNCHANGED vars
  <2>1. Quiet
    BY <1>1 DEF vars, storeVars, runVars, pollVars, bootVars, Quiet, Live
  <2> QED
    BY <2>1, QuietKeeps
<1>2. ASSUME NEW e \in Exec, Run(e)
      PROVE  LockInv'
  BY <1>2, RunIsQuiet, QuietKeeps, ReleaseLocks
<1> QED
  BY <1>1, <1>2, PollLocks, ClientLocks, BrakeIsQuiet, QuietKeeps, ProcessLocks,
     ExpireLocks DEF Next

\* IInv is inductive, so it holds in every state the engine can reach.
THEOREM Invariant == Spec => []IInv
<1>1. Init => IInv
  BY TypeInitial, LockInitial DEF IInv
<1>2. IInv /\ [Next]_vars => IInv'
  BY TypeStep, LockStep DEF IInv
<1> QED
  BY <1>1, <1>2, PTL DEF Spec

\* The task lock does its job for any number of tasks, lanes, executions,
\* closes, crashes and requests: no task is ever run twice at once.
THEOREM TasksRunOnce == Spec => []OneRunnerPerTask
<1>1. IInv => OneRunnerPerTask
  BY DEF IInv, LockInv, RunnerInv
<1> QED
  BY <1>1, Invariant, PTL

------------------------------------------------------------------------------
(* One-shot jobs and their rows                                             *)

\* The places between a job's claim and the writing of its result.
Working == {"claimed", "running", "exited", "ended"}

\* The process may have runners.
Awake == {"up", "closing", "draining"}

\* Only commands pass through onStart, and only commands get a pid.
CommandInv ==
    /\ \A e \in Exec : runner[e] \in ShellPcs => IsShell(e)
    /\ \A e \in pidKnown : e < nextExec /\ ~IsFunc(e)

\* A job is worked on if and only if its row is "running"; while the process
\* boots, the boot has such a row still on its list.
RowInv ==
    \A e \in Exec : IsFunc(e) =>
        /\ runner[e] \in Working => status[e] = "running"
        /\ status[e] = "running" /\ mode \in Awake => runner[e] \in Working
        /\ status[e] = "running" /\ mode = "booting" => e \in orphans

\* Past its database half a cancel leaves no pending job.
CancelInv ==
    /\ cancelling # {} => mode = "up"
    /\ \A e \in cancelling : e < nextExec /\ (IsFunc(e) => status[e] # "pending")

JobInv == CommandInv /\ RowInv /\ CancelInv

------------------------------------------------------------------------------
(* What a step may do to an execution                                       *)

\* It is a command's; or row and work stay what they are; or it is dropped
\* without becoming pending; or a runner claims it.
Settled(e) ==
    \/ IsShell(e)
    \/ /\ status'[e] = status[e]
       /\ runner'[e] = runner[e] \/ (runner[e] \in Working /\ runner'[e] \in Working)
    \/ /\ runner'[e] \notin Working \cup ShellPcs
       /\ status'[e] # "running"
       /\ status'[e] = "pending" => status[e] = "pending"
    \/ /\ runner'[e] = "claimed" /\ status'[e] = "running"
       /\ mode \in Awake

\* Every execution that has an id is settled, and a new one is only queued.
RowsSettle ==
    /\ nextExec <= nextExec'
    /\ \A e \in Exec : e < nextExec => execTask'[e] = execTask[e] /\ Settled(e)
    /\ \A e \in Exec : e >= nextExec =>
           status'[e] # "running" /\ runner'[e] \notin Working \cup ShellPcs
    /\ \A e \in cancelling' \ cancelling :
           e < nextExec /\ (IsFunc(e) => status'[e] # "pending")
    /\ \A e \in pidKnown' \ pidKnown : e < nextExec /\ IsShell(e)

\* The process neither dies nor boots.
SameLife ==
    /\ mode' \in Awake <=> mode \in Awake
    /\ mode' = "booting" <=> mode = "booting"
    /\ orphans' = orphans
    /\ cancelling' # {} => mode' = "up"

\* The part of the types and of the lock invariant used below.
LEMMA JobBasics ==
    ASSUME IInv
    PROVE  /\ Shell \cap Func = {} /\ Shell \subseteq Task /\ Func \subseteq Task
           /\ Exec \subseteq Nat /\ nextExec \in Nat
           /\ execTask \in [Exec -> Task \cup {NoTask}] /\ NoTask \notin Task
           /\ runner \in [Exec -> RunnerPcs] /\ status \in [Exec -> Status]
           /\ pidKnown \subseteq Exec /\ cancelling \subseteq Exec
           /\ \A e \in Exec : e >= nextExec => runner[e] = "idle" /\ status[e] = "none"
           /\ \A e \in Exec : Live(e) => e < nextExec /\ mode \in Awake
           /\ mode \in Awake \cup {"down", "booting"}
<1>1. /\ status \in [Exec -> Status] /\ pidKnown \subseteq Exec /\ cancelling \subseteq Exec
      /\ mode \in Awake \cup {"down", "booting"}
  BY DEF IInv, DataInv, TypeOK, StoreType, BootType, Awake
<1>2. \A e \in Exec : Live(e) => e < nextExec
  BY DEF IInv, LockInv, RunnerInv
<1>3. \A e \in Exec : e >= nextExec => runner[e] = "idle" /\ status[e] = "none"
  BY <1>2, Basics DEF IInv, DataInv, RowsInv, Live
<1>4. \A e \in Exec : Live(e) => mode \in Awake
  BY <1>1 DEF IInv, LockInv, PlaceInv
<1> QED
  BY <1>1, <1>2, <1>3, <1>4, Basics, StoreAssumption DEF StoreAssumption, IInv, Task

\* Settled rows in a process that lives on keep the invariant.
LEMMA SettledKeeps ==
    ASSUME IInv, IInv', JobInv, RowsSettle, SameLife
    PROVE  JobInv'
<1>1. \A e \in Exec : e < nextExec =>
          /\ execTask'[e] = execTask[e] /\ (IsFunc(e)' <=> IsFunc(e))
          /\ IsShell(e)' <=> IsShell(e)
  BY DEF RowsSettle, IsFunc, IsShell
<1>2. \A e \in Exec : IsShell(e) => ~IsFunc(e)
  BY JobBasics DEF IsShell, IsFunc
<1>3. CommandInv'
  <2>1. ASSUME NEW e \in Exec, runner'[e] \in ShellPcs
        PROVE  IsShell(e)'
    <3>1. e < nextExec
      BY <2>1, JobBasics DEF RowsSettle
    <3> QED
      BY <2>1, <3>1, <1>1 DEF RowsSettle, Settled, JobInv, CommandInv, Working, ShellPcs
  <2>2. ASSUME NEW e \in pidKnown'
        PROVE  e < nextExec' /\ ~IsFunc(e)'
    <3>1. e \in Exec /\ e < nextExec /\ ~IsFunc(e)
      BY <1>2, JobBasics, IInv' DEF RowsSettle, JobInv, CommandInv, IInv, DataInv, TypeOK, StoreType
    <3>2. nextExec' \in Nat
      BY Basics DEF IInv, DataInv, TypeOK, StoreType
    <3> QED
      BY <3>1, <3>2, <1>1, JobBasics DEF RowsSettle
  <2> QED
    BY <2>1, <2>2 DEF CommandInv
<1>4. RowInv'
  <2> SUFFICES ASSUME NEW e \in Exec, IsFunc(e)'
               PROVE  /\ runner'[e] \in Working => status'[e] = "running"
                      /\ status'[e] = "running" /\ mode' \in Awake => runner'[e] \in Working
                      /\ status'[e] = "running" /\ mode' = "booting" => e \in orphans'
    BY DEF RowInv
  <2>1. CASE e >= nextExec
    BY <2>1 DEF RowsSettle
  <2>2. CASE e < nextExec
    BY <2>2, <1>1, <1>2 DEF RowsSettle, Settled, SameLife, JobInv, RowInv, Working, Awake
  <2> QED
    BY <2>1, <2>2, JobBasics
<1>5. CancelInv'
  <2>1. ASSUME NEW e \in cancelling'
        PROVE  e < nextExec' /\ (IsFunc(e)' => status'[e] # "pending")
    <3>1. e \in Exec /\ e < nextExec
      BY <2>1, JobBasics, IInv' DEF RowsSettle, JobInv, CancelInv, IInv, DataInv, TypeOK
    <3>2. nextExec' \in Nat
      BY DEF IInv, DataInv, TypeOK, StoreType
    <3>3. IsFunc(e) => status'[e] # "pending"
      BY <3>1, <1>2 DEF RowsSettle, Settled, JobInv, CancelInv
    <3> QED
      BY <3>1, <3>2, <3>3, <1>1, JobBasics DEF RowsSettle
  <2> QED
    BY <2>1 DEF CancelInv, SameLife
<1> QED
  BY <1>3, <1>4, <1>5 DEF JobInv

------------------------------------------------------------------------------
(* The runners                                                              *)

\* A runner settles its own execution and touches no other.
LEMMA RunSettles ==
    ASSUME NEW e \in Exec, IInv, JobInv, Run(e)
    PROVE  RowsSettle /\ SameLife
<1>0. /\ Live(e) /\ e < nextExec /\ mode \in Awake
      /\ IsShell(e) \/ (IsFunc(e) /\ ~IsShell(e))
  <2>1. Live(e)
    BY DEF Run, RunRegister, RunAdmit, RunBrakeShell, RunBrakeFunc, RunStart, RunStartFails,
           RunMark, RunPersistPid, RunLeaveQueued, RunToClaim, RunClaim, RunRefuse, RunBody,
           RunExit, RunDecide, RunFinish, RunMeter, RunRelease, At, Live
  <2>2. execTask[e] \in Task
    BY <2>1 DEF IInv, LockInv, RunnerInv
  <2> QED
    BY <2>1, <2>2, JobBasics DEF Task, IsShell, IsFunc
<1>1. IsFunc(e) =>
          /\ runner[e] \in Working <=> status[e] = "running"
          /\ runner[e] \notin ShellPcs
  BY <1>0, JobBasics DEF JobInv, RowInv, CommandInv, IsFunc, IsShell
<1>2. ASSUME UNCHANGED <<execTask, nextExec, mode, orphans, cancelling>>, Settled(e),
             \A f \in Exec : f # e => runner'[f] = runner[f] /\ status'[f] = status[f],
             pidKnown' = pidKnown \/ (IsShell(e) /\ pidKnown' = pidKnown \cup {e})
      PROVE  RowsSettle /\ SameLife
  <2>1. \A f \in Exec : f < nextExec => Settled(f)
    BY <1>2 DEF Settled
  <2>2. \A f \in Exec : f >= nextExec =>
            status'[f] # "running" /\ runner'[f] \notin Working \cup ShellPcs
    BY <1>0, <1>2, JobBasics DEF Working, ShellPcs
  <2>3. SameLife
    BY <1>2 DEF SameLife, JobInv, CancelInv
  <2> QED
    BY <1>0, <1>2, <2>1, <2>2, <2>3, JobBasics DEF RowsSettle
<1>3. ASSUME NEW pc, Goto(e, pc)
      PROVE  runner'[e] = pc /\ \A f \in Exec : f # e => runner'[f] = runner[f]
  BY <1>3, JobBasics DEF Goto
<1> USE DEF RestOfRun, storeVars, bootVars, At, Working, ShellPcs
<1>4. CASE RunRegister(e)
  BY <1>0, <1>1, <1>2, <1>3, <1>4 DEF RunRegister, Settled
<1>5. CASE RunAdmit(e)
  BY <1>0, <1>1, <1>2, <1>3, <1>5 DEF RunAdmit, Settled
<1>6. CASE RunBrakeShell(e)
  BY <1>2, <1>3, <1>6, JobBasics DEF RunBrakeShell, FinishExecution, Settled
<1>7. CASE RunBrakeFunc(e)
  BY <1>1, <1>2, <1>3, <1>7, JobBasics
     DEF RunBrakeFunc, CancelPendingFuncExecution, CancelsRow, Settled
<1>8. CASE RunStart(e)
  BY <1>2, <1>3, <1>8 DEF RunStart, Settled
<1>9. CASE RunStartFails(e)
  BY <1>2, <1>3, <1>9 DEF RunStartFails, Settled
<1>10. CASE RunMark(e)
  BY <1>0, <1>1, <1>2, <1>3, <1>10, JobBasics DEF RunMark, StartExecution, Settled
<1>11. CASE RunPersistPid(e)
  BY <1>0, <1>1, <1>2, <1>3, <1>11 DEF RunPersistPid, SetExecutionPID, Settled
<1>12. CASE RunLeaveQueued(e)
  BY <1>1, <1>2, <1>3, <1>12 DEF RunLeaveQueued, Settled
<1>13. CASE RunToClaim(e)
  BY <1>1, <1>2, <1>3, <1>13 DEF RunToClaim, Settled
<1>14. CASE RunClaim(e)
  BY <1>0, <1>1, <1>2, <1>3, <1>14, JobBasics DEF RunClaim, ClaimFuncExecution, Settled
<1>15. CASE RunRefuse(e)
  BY <1>2, <1>3, <1>15 DEF RunRefuse, Settled
<1>16. CASE RunBody(e)
  BY <1>2, <1>3, <1>16 DEF RunBody, Settled
<1>17. CASE RunExit(e)
  BY <1>2, <1>3, <1>17 DEF RunExit, Settled
<1>18. CASE RunDecide(e)
  BY <1>2, <1>3, <1>18 DEF RunDecide, Settled
<1>19. CASE RunFinish(e)
  <2>1. outcome[e] \in Terminal
    BY <1>19 DEF RunFinish, IInv, DataInv, VerdictInv
  <2> QED
    BY <1>0, <1>2, <1>3, <1>19, <2>1, JobBasics DEF RunFinish, FinishExecution, Settled, Terminal
<1>20. CASE RunMeter(e)
  BY <1>0, <1>1, <1>2, <1>3, <1>20 DEF RunMeter, RecordMetric, Settled
<1>21. CASE RunRelease(e)
  BY <1>0, <1>1, <1>2, <1>3, <1>21 DEF RunRelease, ReleaseLock, SetLock, Settled
<1> QED
  BY <1>4, <1>5, <1>6, <1>7, <1>8, <1>9, <1>10, <1>11, <1>12, <1>13, <1>14, <1>15, <1>16,
     <1>17, <1>18, <1>19, <1>20, <1>21 DEF Run

------------------------------------------------------------------------------
(* Polls and requests                                                       *)

\* A new row is pending, and the others stay what they are.
LEMMA InsertSettles ==
    ASSUME IInv, JobInv, NEW t \in Task, InsertPending(t),
           runner' = runner \/ runner' = [runner EXCEPT ![nextExec] = "spawned"],
           UNCHANGED <<pidKnown, cancelling, mode, orphans>>
    PROVE  RowsSettle /\ SameLife
<1>1. DataInv
  BY DEF IInv
<1>2. /\ nextExec \in Exec /\ nextExec' = nextExec + 1
      /\ \A e \in Exec : e # nextExec => execTask'[e] = execTask[e] /\ status'[e] = status[e]
      /\ status'[nextExec] = "pending"
  BY <1>1, InsertAppends, JobBasics DEF InsertPending
<1>3. /\ \A e \in Exec : e # nextExec => runner'[e] = runner[e]
      /\ runner'[nextExec] \in {"idle", "spawned"}
  BY <1>2, JobBasics
<1>4. \A e \in Exec : e < nextExec => execTask'[e] = execTask[e] /\ Settled(e)
  BY <1>2, <1>3, JobBasics DEF Settled
<1>5. \A e \in Exec : e >= nextExec =>
          status'[e] # "running" /\ runner'[e] \notin Working \cup ShellPcs
  BY <1>2, <1>3, JobBasics DEF Working, ShellPcs
<1> QED
  BY <1>2, <1>4, <1>5, JobBasics DEF RowsSettle, SameLife, JobInv, CancelInv

\* Nothing happens to any execution.
LEMMA StillSettles ==
    ASSUME IInv, JobInv, cancelling' \subseteq cancelling,
           UNCHANGED <<execTask, nextExec, status, pidKnown, runner, orphans>>,
           mode' = mode \/ (mode \in Awake /\ mode' \in Awake /\ cancelling' = {})
    PROVE  RowsSettle /\ SameLife
<1>1. \A e \in Exec : e >= nextExec =>
          status'[e] # "running" /\ runner'[e] \notin Working \cup ShellPcs
  BY JobBasics DEF Working, ShellPcs
<1> QED
  BY <1>1, JobBasics DEF RowsSettle, Settled, SameLife, JobInv, CancelInv, Awake

\* Rows that go with their task were nobody's job at work.
LEMMA RemovalSettles ==
    ASSUME IInv, JobInv, NEW T \in SUBSET Task, status' = WithoutRows(T),
           \A t \in T \cap Func : RunningOf(t) = {},
           UNCHANGED <<execTask, nextExec, pidKnown, runner, cancelling, mode, orphans>>
    PROVE  RowsSettle /\ SameLife
<1>1. \A e \in Exec : status'[e] = IF execTask[e] \in T THEN "none" ELSE status[e]
  BY DEF WithoutRows
<1>2. ASSUME NEW e \in Exec, execTask[e] \in T
      PROVE  Settled(e)
  <2>1. CASE IsShell(e)
    BY <2>1 DEF Settled
  <2>2. CASE IsFunc(e) /\ ~IsShell(e)
    <3>1. status[e] # "running"
      BY <1>2, <2>2 DEF RunningOf, RowsOf, IsFunc
    <3>2. runner[e] \notin Working \cup ShellPcs
      BY <2>2, <3>1 DEF JobInv, RowInv, CommandInv
    <3> QED
      BY <1>1, <1>2, <3>2 DEF Settled
  <2> QED
    BY <1>2, <2>1, <2>2, JobBasics DEF IsShell, IsFunc, Task
<1>3. \A e \in Exec : execTask[e] \notin T => Settled(e)
  BY <1>1 DEF Settled
<1>4. \A e \in Exec : e >= nextExec =>
          status'[e] # "running" /\ runner'[e] \notin Working \cup ShellPcs
  BY <1>1, JobBasics DEF Working, ShellPcs
<1> QED
  BY <1>2, <1>3, <1>4, JobBasics DEF RowsSettle, SameLife, JobInv, CancelInv

\* Poll spawns runners on rows that are pending, and new ones.
LEMMA PollSettles ==
    ASSUME IInv, JobInv, Poll
    PROVE  RowsSettle /\ SameLife
<1> USE DEF RestOfPoll, runVars, bootVars, storeVars
<1>1. CASE PollStart \/ PollSnapshot \/ PollEnd
  BY <1>1, StillSettles DEF PollStart, CleanupExpiredLocks, PollSnapshot, PollEnd
<1>2. ASSUME NEW l \in Lane, PollLane(l)
      PROVE  RowsSettle /\ SameLife
  BY <1>2, StillSettles DEF PollLane
<1>3. ASSUME NEW t \in Task, PollLock(t) \/ PollCreateFails(t)
      PROVE  RowsSettle /\ SameLife
  BY <1>3, StillSettles DEF PollLock, PollCreateFails, AcquireLock, ReleaseLock, SetLock
<1>4. ASSUME NEW t \in Task, PollLookup(t)
      PROVE  RowsSettle /\ SameLife
  <2>1. CASE UNCHANGED runVars
    BY <1>4, <2>1, StillSettles DEF PollLookup
  <2>2. ASSUME NEW e \in Exec, IsOldest(e, PendingOf(t)), Spawn(e)
        PROVE  RowsSettle /\ SameLife
    <3>1. status[e] = "pending" /\ e < nextExec
      BY <2>2, JobBasics DEF IsOldest, PendingOf
    <3>2. \A f \in Exec : runner'[f] = IF f = e THEN "spawned" ELSE runner[f]
      BY <2>2, JobBasics DEF Spawn
    <3>3. \A f \in Exec : Settled(f)
      BY <1>4, <3>1, <3>2 DEF PollLookup, Settled, Working, ShellPcs
    <3>4. \A f \in Exec : f >= nextExec =>
              status'[f] # "running" /\ runner'[f] \notin Working \cup ShellPcs
      BY <1>4, <3>1, <3>2, JobBasics DEF PollLookup, Working, ShellPcs
    <3> QED
      BY <1>4, <3>3, <3>4, JobBasics
         DEF PollLookup, RowsSettle, SameLife, JobInv, CancelInv
  <2> QED
    BY <1>4, <2>1, <2>2 DEF PollLookup
<1>5. ASSUME NEW t \in Task, PollCreate(t)
      PROVE  RowsSettle /\ SameLife
  BY <1>5, InsertSettles DEF PollCreate, CreateExecution, EnqueueTask, Spawn
<1> QED
  BY <1>1, <1>2, <1>3, <1>4, <1>5 DEF Poll

\* No request touches a job at work but through the registry.
LEMMA ClientSettles ==
    ASSUME IInv, JobInv, Client
    PROVE  RowsSettle /\ SameLife
<1> USE DEF RestOfClient, runVars, bootVars
<1>1. ASSUME NEW t \in Task, UpNext(t) \/ Submit(t) \/ Rerun(t)
      PROVE  RowsSettle /\ SameLife
  BY <1>1, InsertSettles
     DEF UpNext, EnqueueTask, Submit, SubmitFuncTask, Rerun, RerunTask
<1>2. ASSUME NEW t \in Task, Remove(t)
      PROVE  RowsSettle /\ SameLife
  BY <1>2, RemovalSettles DEF Remove, RemoveIdleTask, DeleteTaskRows
<1>3. ASSUME NEW t \in Task, Delete(t)
      PROVE  RowsSettle /\ SameLife
  BY <1>3, RemovalSettles, JobBasics DEF Delete, DeleteTask
<1>4. ASSUME NEW l \in Lane, Prune(l)
      PROVE  RowsSettle /\ SameLife
  <2>1. PICK old \in SUBSET Func : PruneOwnedLane(l, old)
    BY <1>4 DEF Prune
  <2>2. \A t \in old : RunningOf(t) = {}
    BY <2>1 DEF PruneOwnedLane
  <2> QED
    BY <1>4, <2>1, <2>2, RemovalSettles, JobBasics DEF Prune, PruneOwnedLane, DeleteTaskRows
<1>5. ASSUME NEW t \in Task, NEW p \in BOOLEAN, PauseTask(t, p)
      PROVE  RowsSettle /\ SameLife
  BY <1>5, StillSettles DEF PauseTask, SetTaskPaused
<1>6. ASSUME NEW e \in Exec, CancelInStore(e)
      PROVE  RowsSettle /\ SameLife
  <2>1. \A f \in Exec : Settled(f)
    <3>1. CASE CancelsRow(e)
      <4>1. \A f \in Exec : status'[f] = IF f = e THEN "canceled" ELSE status[f]
        BY <1>6, <3>1, JobBasics DEF CancelInStore, CancelPendingFuncExecution
      <4>2. runner[e] \notin Working \cup ShellPcs
        BY <3>1, JobBasics DEF CancelsRow, JobInv, RowInv, CommandInv, IsFunc, IsShell
      <4> QED
        BY <1>6, <4>1, <4>2 DEF CancelInStore, Settled
    <3>2. CASE ~CancelsRow(e)
      BY <1>6, <3>2 DEF CancelInStore, CancelPendingFuncExecution, Settled
    <3> QED
      BY <3>1, <3>2
  <2>2. \A f \in Exec : f >= nextExec =>
            status'[f] # "running" /\ runner'[f] \notin Working \cup ShellPcs
    BY <1>6, JobBasics DEF CancelInStore, CancelPendingFuncExecution, CancelsRow, Working, ShellPcs
  <2>3. IsFunc(e) => status'[e] # "pending"
    BY <1>6, JobBasics DEF CancelInStore, CancelPendingFuncExecution, CancelsRow, IsFunc
  <2> QED
    BY <1>6, <2>1, <2>2, <2>3, JobBasics
       DEF CancelInStore, CancelPendingFuncExecution, Serving, RowsSettle, SameLife
<1>7. ASSUME NEW e \in Exec, CancelInRegistry(e)
      PROVE  RowsSettle /\ SameLife
  BY <1>7, StillSettles DEF CancelInRegistry, storeVars
<1> QED
  BY <1>1, <1>2, <1>3, <1>4, <1>5, <1>6, <1>7 DEF Client

------------------------------------------------------------------------------
(* The process                                                              *)

\* While no runner lives and no cancel is under way, only the boot's list
\* matters: every job's row still "running" is on it.
LEMMA AsleepKeeps ==
    ASSUME IInv, IInv', JobInv, \A e \in Exec : runner'[e] = "idle",
           UNCHANGED <<execTask, nextExec, pidKnown>>, cancelling' = {},
           mode' \in Awake \cup {"booting"} =>
               \A e \in Exec : IsFunc(e) /\ status'[e] = "running"
                   => mode' = "booting" /\ e \in orphans'
    PROVE  JobInv'
<1>1. \A e \in Exec : IsFunc(e)' <=> IsFunc(e)
  BY DEF IsFunc
<1>2. CommandInv'
  <2>1. pidKnown \subseteq Exec
    BY JobBasics
  <2> QED
    BY <1>1, <2>1 DEF JobInv, CommandInv, ShellPcs
<1>3. RowInv'
  BY <1>1 DEF RowInv, Working, Awake
<1>4. CancelInv'
  BY DEF CancelInv
<1> QED
  BY <1>2, <1>3, <1>4 DEF JobInv

\* A close leaves no job's row "running", a crash and a boot list those that are.
LEMMA ProcessKeepsJobs ==
    ASSUME IInv, IInv', JobInv, Process
    PROVE  JobInv'
<1> USE DEF RestOfBoot, RestOfRun, runVars, storeVars, bootVars
<1>1. CASE BeginClose \/ StopPolling
  BY <1>1, StillSettles, SettledKeeps DEF BeginClose, StopPolling, Awake, JobInv, CancelInv
<1>2. ASSUME NEW e \in Exec, SurvivorExits(e)
      PROVE  JobInv'
  BY <1>2, StillSettles, SettledKeeps DEF SurvivorExits
<1>3. mode \in {"down", "booting"} =>
          cancelling = {} /\ \A e \in Exec : runner[e] = "idle"
  BY DEF JobInv, CancelInv, IInv, LockInv, PlaceInv, Live
<1>4. CASE Closed
  BY <1>4, AsleepKeeps DEF Closed, Live, Awake, JobInv, CancelInv
<1>5. CASE Crash
  BY <1>5, AsleepKeeps DEF Crash, Awake
<1>6. CASE Boot
  BY <1>3, <1>6, AsleepKeeps DEF Boot, RunningExecutions
<1>7. CASE Serve
  BY <1>3, <1>7, AsleepKeeps DEF Serve, JobInv, RowInv
<1>8. ASSUME NEW e \in Exec, OrphanSkip(e)
      PROVE  JobInv'
  BY <1>3, <1>8, AsleepKeeps DEF OrphanSkip, JobInv, RowInv, CommandInv
<1>9. ASSUME NEW e \in Exec, OrphanFinish(e)
      PROVE  JobInv'
  <2>1. \A f \in Exec : status'[f] = "running" => f # e /\ status[f] = "running"
    BY <1>9, JobBasics DEF OrphanFinish, FinishExecution
  <2> QED
    BY <1>3, <1>9, <2>1, AsleepKeeps DEF OrphanFinish, FinishExecution, JobInv, RowInv
<1>10. CASE OrphanMeter \/ OrphanRelease
  <2>1. mode = "booting"
    BY <1>10 DEF OrphanMeter, OrphanRelease, IInv, LockInv, PlaceInv
  <2> QED
    BY <1>3, <1>10, <2>1, AsleepKeeps
       DEF OrphanMeter, OrphanRelease, RecordMetric, ReleaseLock, SetLock, JobInv, RowInv
<1> QED
  BY <1>1, <1>2, <1>4, <1>5, <1>6, <1>7, <1>8, <1>9, <1>10 DEF Process, ReconcileOrphans

------------------------------------------------------------------------------
(* The theorems                                                             *)

\* Every step keeps jobs and rows together.
LEMMA JobStep == IInv /\ IInv' /\ JobInv /\ [Next]_vars => JobInv'
<1> SUFFICES ASSUME IInv, IInv', JobInv, [Next]_vars
             PROVE  JobInv'
  OBVIOUS
<1>1. CASE UNCHANGED vars
  BY <1>1, StillSettles, SettledKeeps DEF vars, storeVars, runVars, bootVars
<1>2. CASE BrakeHandler
  BY <1>2, StillSettles, SettledKeeps
     DEF BrakeHandler, BrakeEngage, BrakeListRunning, BrakeEngageOn, BrakeReleaseOn,
         BrakeCancel, RegistryCancel, RestOfBrake, storeVars, bootVars
<1>3. ASSUME NEW t \in Task, ExpireLock(t)
      PROVE  JobInv'
  BY <1>3, StillSettles, SettledKeeps
     DEF ExpireLock, LockExpires, SetLock, RestOfRun, runVars, bootVars
<1>4. ASSUME NEW e \in Exec, Run(e)
      PROVE  JobInv'
  BY <1>4, RunSettles, SettledKeeps
<1> QED
  BY <1>1, <1>2, <1>3, <1>4, PollSettles, ClientSettles, SettledKeeps, ProcessKeepsJobs
     DEF Next

\* The engine starts with neither rows nor runners.
LEMMA JobInitial == Init => JobInv
BY StoreAssumption
   DEF StoreAssumption, Init, StoreInit, JobInv, CommandInv, RowInv, CancelInv, Working,
       ShellPcs, Awake

\* Together with the lock invariant, JobInv is inductive.
THEOREM JobInvariant == Spec => [](IInv /\ JobInv)
<1>1. Init => JobInv
  BY JobInitial
<1>2. IInv /\ IInv' /\ JobInv /\ [Next]_vars => JobInv'
  BY JobStep
<1> QED
  BY <1>1, <1>2, Invariant, PTL DEF Spec

\* From the claim until its result is written a job's row is "running" and
\* its task exists: a cancel, a brake sweep and a removal all find it.
THEOREM JobsRunUnderTheirRows == Spec => []JobRunsUnderItsRow
<1>1. IInv /\ JobInv => JobRunsUnderItsRow
  BY DEF IInv, DataInv, RowsInv, JobInv, RowInv, Working, JobRunsUnderItsRow
<1> QED
  BY <1>1, JobInvariant, PTL

\* A cancel of a job is answered "not running" only when the job is over or
\* gone, whatever the runner does between the cancel's two halves.
THEOREM CancelsMissNothing == Spec => CancelMissesNothing
<1>1. IInv /\ JobInv =>
          \A e \in Exec : AnswersNotRunning(e) /\ IsFunc(e)
              => status[e] \notin {"pending", "running"}
  <2> SUFFICES ASSUME IInv, JobInv, NEW e \in Exec, AnswersNotRunning(e), IsFunc(e)
               PROVE  status[e] \notin {"pending", "running"}
    OBVIOUS
  <2>1. e \in cancelling /\ mode = "up"
    BY DEF AnswersNotRunning, CancelInRegistry, JobInv, CancelInv
  <2>2. runner[e] \notin Working
    BY DEF AnswersNotRunning, Registered, Working
  <2> QED
    BY <2>1, <2>2 DEF JobInv, RowInv, CancelInv, Awake
<1>2. IInv /\ JobInv /\ [Next]_vars =>
          [\A e \in Exec : AnswersNotRunning(e) /\ IsFunc(e)
              => status[e] \notin {"pending", "running"}]_vars
  BY <1>1
<1> QED
  BY <1>2, JobInvariant, PTL DEF Spec, CancelMissesNothing

------------------------------------------------------------------------------
(* The ledger: rows, verdicts and metrics                                   *)

\* An open row is not counted yet.  A runner that is to write a metric has a
\* closed row nobody counted; a command's runner is the only one that moves
\* its row, so the runner's place tells the row's status.
EntryInv(e) ==
    /\ status[e] \in {"pending", "running"} \/ e >= nextExec => metrics[e] = 0
    /\ runner[e] = "finished" => metrics[e] = 0 /\ status[e] \in Terminal \cup {"none"}
    /\ IsShell(e) =>
          /\ runner[e] \notin FuncPcs
          /\ runner[e] \notin {"idle", "metered"} => metrics[e] = 0
          /\ runner[e] \in {"spawned", "registered", "admitted", "launched"}
                 => status[e] \in {"pending", "none"}
          /\ runner[e] \in {"marked", "running"} => status[e] \in {"running", "none"}
          /\ runner[e] \in {"exited", "ended"} =>
                \/ status[e] \in {"running", "none"}
                \/ status[e] = "pending" /\ outcome[e] \notin {"ok", "success"}

\* The boot closes rows that are still "running", and counts what it closed.
OrphanInv ==
    /\ mode # "booting" => orphans = {}
    /\ \A e \in orphans : status[e] = "running"
    /\ orphanPc = "meter" =>
          orphan \in Exec /\ status[orphan] \in Terminal /\ metrics[orphan] = 0

EntriesInv == \A e \in Exec : EntryInv(e)
MeterInv == OrphanInv /\ EntriesInv

LedgerStep == [Ledger!LedgerNext]_(Ledger!ledgerVars)

\* The types these proofs use.
LEMMA LedgerBasics ==
    ASSUME IInv
    PROVE  /\ status \in [Exec -> Status] /\ metrics \in [Exec -> Nat]
           /\ outcome \in [Exec -> Terminal \cup {"none", "ok", "error"}]
           /\ orphans \subseteq Exec
           /\ Exec \subseteq Nat /\ nextExec \in Nat
           /\ \A e \in Exec : e >= nextExec => status[e] = "none" /\ runner[e] = "idle"
           /\ \A e \in Exec : status[e] # "none" => e < nextExec
<1>1. status \in [Exec -> Status] /\ metrics \in [Exec -> Nat]
  BY DEF IInv, DataInv, TypeOK, StoreType
<1>2. /\ outcome \in [Exec -> Terminal \cup {"none", "ok", "error"}]
      /\ orphans \subseteq Exec
  BY DEF IInv, DataInv, TypeOK, RunType, BootType
<1> QED
  BY <1>1, <1>2, JobBasics

------------------------------------------------------------------------------
(* The ledger's steps                                                       *)

\* A step that writes neither a row nor a metric is no step of the ledger.
LEMMA LedgerRests ==
    ASSUME UNCHANGED <<nextExec, status, metrics>>
    PROVE  LedgerStep
BY DEF LedgerStep, Ledger!ledgerVars

\* A new row opens an entry.
LEMMA LedgerOpens ==
    ASSUME IInv, NEW t \in Task, InsertPending(t), UNCHANGED metrics
    PROVE  LedgerStep
<1>1. PICK n \in Exec : n = nextExec /\ nextExec' = n + 1
  BY InsertAppends, JobBasics DEF InsertPending, IInv
<1>2. \A e \in Exec : status'[e] = IF e = n THEN "pending" ELSE status[e]
  BY <1>1, LedgerBasics DEF InsertPending
<1>3. /\ n >= nextExec /\ ~(n >= nextExec')
      /\ \A e \in Exec : e # n => (e >= nextExec' <=> e >= nextExec)
  BY <1>1, LedgerBasics
<1>4. Ledger!Open(n)
  BY <1>1, <1>2, <1>3 DEF Ledger!Open
<1> QED
  BY <1>4 DEF LedgerStep, Ledger!LedgerNext

\* A row that starts or ends moves its entry.
LEMMA LedgerMoves ==
    ASSUME IInv, NEW e \in Exec, NEW s \in Status,
           status' = [status EXCEPT ![e] = s], UNCHANGED <<nextExec, metrics>>,
           \/ status[e] = "pending" /\ s = "running"
           \/ status[e] = "running" /\ s \in Terminal
           \/ status[e] = "pending" /\ s \in {"failed", "canceled"}
    PROVE  LedgerStep
<1>1. e < nextExec
  BY LedgerBasics
<1>2. \A f \in Exec : status'[f] = IF f = e THEN s ELSE status[f]
  BY LedgerBasics
<1>3. CASE s = "running"
  <2>1. Ledger!Start(e)
    BY <1>1, <1>2, <1>3, LedgerBasics DEF Ledger!Start, Terminal
  <2> QED
    BY <2>1 DEF LedgerStep, Ledger!LedgerNext
<1>4. CASE s \in Terminal
  <2>1. Ledger!Close(e, s)
    BY <1>1, <1>2, <1>4, LedgerBasics DEF Ledger!Close, Terminal
  <2>2. s \in Ledger!Verdict
    BY <1>4 DEF Ledger!Verdict, Terminal
  <2> QED
    BY <2>1, <2>2 DEF LedgerStep, Ledger!LedgerNext, Ledger!CloseOnly
<1> QED
  BY <1>3, <1>4 DEF Terminal

\* A cancel closes and counts a queued entry at once.
LEMMA LedgerCancels ==
    ASSUME IInv, EntriesInv, NEW e \in Exec, CancelPendingFuncExecution(e)
    PROVE  LedgerStep
<1>1. CASE ~CancelsRow(e)
  BY <1>1, LedgerRests DEF CancelPendingFuncExecution
<1>2. CASE CancelsRow(e)
  <2>1. /\ e < nextExec /\ metrics[e] = 0 /\ status[e] = "pending"
        /\ UNCHANGED nextExec
    BY <1>2, LedgerBasics DEF CancelPendingFuncExecution, CancelsRow, EntriesInv, EntryInv
  <2>2. /\ \A f \in Exec : status'[f] = IF f = e THEN "canceled" ELSE status[f]
        /\ metrics' = [metrics EXCEPT ![e] = 1]
    BY <1>2, <2>1, LedgerBasics DEF CancelPendingFuncExecution
  <2>3. Ledger!CancelQueued(e)
    BY <2>1, <2>2, LedgerBasics DEF Ledger!CancelQueued, Ledger!Close
  <2> QED
    BY <2>3 DEF LedgerStep, Ledger!LedgerNext
<1> QED
  BY <1>1, <1>2

\* A metric counts a closed entry that was not counted.
LEMMA LedgerCounts ==
    ASSUME IInv, NEW e \in Exec, RecordMetric(e), e < nextExec, metrics[e] = 0,
           status[e] \in Terminal \cup {"none"}
    PROVE  LedgerStep
<1>1. metrics' = [metrics EXCEPT ![e] = 1] /\ UNCHANGED <<status, nextExec>>
  BY LedgerBasics DEF RecordMetric
<1>2. Ledger!Count(e)
  BY <1>1, LedgerBasics DEF Ledger!Count, Ledger!Verdict, Terminal
<1> QED
  BY <1>2 DEF LedgerStep, Ledger!LedgerNext

\* Deleting tasks forgets their entries.
LEMMA LedgerForgets ==
    ASSUME IInv, NEW T \in SUBSET Task, status' = WithoutRows(T), UNCHANGED <<nextExec>>,
           \/ UNCHANGED metrics
           \/ metrics' = [e \in Exec |-> IF execTask[e] \in T THEN 0 ELSE metrics[e]]
    PROVE  LedgerStep
<1>0. PICK S \in SUBSET Exec : S = {e \in Exec : execTask[e] \in T}
  OBVIOUS
<1>1. \A e \in S : e < nextExec
  BY <1>0, LedgerBasics, StoreAssumption DEF StoreAssumption, IInv, DataInv, RowsInv
<1>2. \A e \in Exec : status'[e] = IF e \in S THEN "none" ELSE status[e]
  BY <1>0 DEF WithoutRows
<1>3. UNCHANGED metrics \/ metrics' = [e \in Exec |-> IF e \in S THEN 0 ELSE metrics[e]]
  BY <1>0
<1>5. \A e \in S : (IF e >= nextExec THEN "unused"
                    ELSE IF status[e] = "none" THEN "gone" ELSE status[e]) # "unused"
  BY <1>1, LedgerBasics DEF Status, Terminal
<1>6. Ledger!Forget(S)
  BY <1>1, <1>2, <1>3, <1>5, LedgerBasics DEF Ledger!Forget
<1> QED
  BY <1>6 DEF LedgerStep, Ledger!LedgerNext

------------------------------------------------------------------------------
(* Every step keeps the books                                               *)

\* What a step does not touch keeps its part of the invariant.
LEMMA EntryRests ==
    ASSUME NEW e \in Exec, EntryInv(e), status'[e] = status[e], metrics'[e] = metrics[e],
           runner'[e] = runner[e], outcome'[e] = outcome[e], execTask'[e] = execTask[e],
           e >= nextExec' => e >= nextExec
    PROVE  EntryInv(e)'
BY DEF EntryInv, IsShell

\* Outside a boot nothing is left of one.
LEMMA OrphansRest ==
    ASSUME IInv, MeterInv, mode # "booting", mode' # "booting",
           UNCHANGED <<orphans, orphan, orphanPc>>
    PROVE  OrphanInv'
BY DEF MeterInv, OrphanInv, IInv, LockInv, PlaceInv

\* Nothing happens to any entry, nor to the boot.
LEMMA BooksRest ==
    ASSUME IInv, MeterInv, UNCHANGED <<nextExec, execTask, status, metrics, runner, outcome>>,
           OrphanInv'
    PROVE  MeterInv' /\ LedgerStep
BY EntryRests, LedgerRests DEF MeterInv, EntriesInv

\* A runner moves its own row from its place, and counts it once.
LEMMA RunKeepsBooks ==
    ASSUME NEW e \in Exec, IInv, JobInv, MeterInv, Run(e)
    PROVE  MeterInv' /\ LedgerStep
<1>0. /\ Live(e) /\ e < nextExec /\ mode # "booting"
      /\ IsShell(e) <=> ~IsFunc(e)
  <2>1. Live(e)
    BY DEF Run, RunRegister, RunAdmit, RunBrakeShell, RunBrakeFunc, RunStart, RunStartFails,
           RunMark, RunPersistPid, RunLeaveQueued, RunToClaim, RunClaim, RunRefuse, RunBody,
           RunExit, RunDecide, RunFinish, RunMeter, RunRelease, At, Live
  <2>2. execTask[e] \in Task
    BY <2>1 DEF IInv, LockInv, RunnerInv
  <2> QED
    BY <2>1, <2>2, JobBasics DEF Task, IsShell, IsFunc, Awake
<1>1. EntryInv(e)
  BY DEF MeterInv, EntriesInv
<1> DEFINE Alone ==
        /\ UNCHANGED <<execTask, nextExec, bootVars>>
        /\ \A f \in Exec : f # e => /\ runner'[f] = runner[f] /\ outcome'[f] = outcome[f]
                                    /\ status'[f] = status[f] /\ metrics'[f] = metrics[f]
<1>2. ASSUME EntryInv(e)', Alone
      PROVE  MeterInv'
  <2>1. EntriesInv'
    BY <1>2, EntryRests DEF MeterInv, EntriesInv
  <2> QED
    BY <1>0, <1>2, <2>1, OrphansRest DEF MeterInv, bootVars
<1>3. ASSUME NEW pc, Goto(e, pc)
      PROVE  runner'[e] = pc /\ \A f \in Exec : f # e => runner'[f] = runner[f]
  BY <1>3, JobBasics DEF Goto
<1>4. IsFunc(e) => /\ runner[e] \notin ShellPcs
                   /\ runner[e] \in Working => status[e] = "running"
  BY <1>0 DEF JobInv, RowInv, CommandInv
<1>5. ASSUME UNCHANGED execTask
      PROVE  IsShell(e)' <=> IsShell(e)
  BY <1>5 DEF IsShell
<1>6. ASSUME UNCHANGED <<storeVars, outcome, bootVars>>, EntryInv(e)',
             \A f \in Exec : f # e => runner'[f] = runner[f]
      PROVE  MeterInv' /\ LedgerStep
  BY <1>2, <1>6, LedgerRests DEF storeVars
<1>7. ASSUME NEW o, outcome' = [outcome EXCEPT ![e] = o]
      PROVE  outcome'[e] = o /\ \A f \in Exec : f # e => outcome'[f] = outcome[f]
  BY <1>7, LedgerBasics
<1>8. ASSUME NEW s, status' = [status EXCEPT ![e] = s]
      PROVE  status'[e] = s /\ \A f \in Exec : f # e => status'[f] = status[f]
  BY <1>8, LedgerBasics
<1>9. ASSUME NEW n, metrics' = [metrics EXCEPT ![e] = n]
      PROVE  metrics'[e] = n /\ \A f \in Exec : f # e => metrics'[f] = metrics[f]
  BY <1>9, LedgerBasics
<1> USE DEF RestOfRun, At, Working, ShellPcs, FuncPcs, EntryInv
<1>10. CASE RunRegister(e)
  BY <1>1, <1>3, <1>5, <1>6, <1>10 DEF RunRegister, storeVars
<1>11. CASE RunAdmit(e)
  BY <1>1, <1>3, <1>5, <1>6, <1>11 DEF RunAdmit, storeVars
<1>12. CASE RunBrakeShell(e)
  <2>1. CASE status[e] = "none"
    BY <1>0, <1>1, <1>2, <1>3, <1>5, <1>12, <2>1, LedgerRests
       DEF RunBrakeShell, FinishExecution
  <2>2. CASE status[e] # "none"
    <3>1. status' = [status EXCEPT ![e] = "canceled"] /\ status[e] = "pending"
      BY <1>1, <1>12, <2>2 DEF RunBrakeShell, FinishExecution
    <3>2. LedgerStep
      BY <1>12, <3>1, LedgerMoves DEF RunBrakeShell, FinishExecution, Status, Terminal
    <3>3. Alone /\ runner'[e] = "finished" /\ status'[e] = "canceled" /\ metrics' = metrics
      BY <1>3, <1>8, <1>12, <3>1 DEF RunBrakeShell, FinishExecution
    <3>4. EntryInv(e)'
      BY <1>0, <1>1, <1>12, <3>3, LedgerBasics DEF RunBrakeShell, Terminal
    <3> QED
      BY <1>2, <3>2, <3>3, <3>4
  <2> QED
    BY <2>1, <2>2
<1>13. CASE RunBrakeFunc(e)
  <2>1. LedgerStep
    BY <1>13, LedgerCancels DEF RunBrakeFunc, MeterInv
  <2>2. CASE CancelsRow(e)
    <3>1. Alone /\ runner'[e] = "metered" /\ status'[e] = "canceled"
      BY <1>3, <1>8, <1>9, <1>13, <2>2 DEF RunBrakeFunc, CancelPendingFuncExecution
    <3>2. EntryInv(e)'
      BY <1>0, <1>5, <1>13, <3>1, LedgerBasics DEF RunBrakeFunc
    <3> QED
      BY <1>2, <2>1, <3>1, <3>2
  <2>3. CASE ~CancelsRow(e)
    BY <1>0, <1>1, <1>2, <1>3, <1>5, <1>13, <2>1, <2>3
       DEF RunBrakeFunc, CancelPendingFuncExecution
  <2> QED
    BY <2>2, <2>3
<1>14. CASE RunStart(e)
  BY <1>1, <1>3, <1>5, <1>6, <1>14 DEF RunStart, storeVars
<1>15. CASE RunStartFails(e)
  <2>1. Alone /\ runner'[e] = "exited" /\ outcome'[e] = "error" /\ UNCHANGED storeVars
    BY <1>3, <1>7, <1>15 DEF RunStartFails, storeVars
  <2>2. EntryInv(e)'
    BY <1>1, <1>5, <1>15, <2>1 DEF RunStartFails, storeVars
  <2> QED
    BY <1>2, <2>1, <2>2, LedgerRests DEF storeVars
<1>16. CASE RunMark(e)
  <2>1. IsShell(e)
    BY <1>0, <1>4, <1>16 DEF RunMark
  <2>2. CASE status[e] = "none"
    BY <1>0, <1>1, <1>2, <1>3, <1>5, <1>16, <2>2, LedgerRests DEF RunMark, StartExecution
  <2>3. CASE status[e] # "none"
    <3>1. status' = [status EXCEPT ![e] = "running"] /\ status[e] = "pending"
      BY <1>1, <1>16, <2>1, <2>3 DEF RunMark, StartExecution
    <3>2. LedgerStep
      BY <1>16, <3>1, LedgerMoves DEF RunMark, StartExecution, Status
    <3>3. Alone /\ runner'[e] = "marked" /\ status'[e] = "running" /\ metrics' = metrics
      BY <1>3, <1>8, <1>16, <3>1 DEF RunMark, StartExecution
    <3>4. EntryInv(e)'
      BY <1>0, <1>1, <1>16, <2>1, <3>3 DEF RunMark
    <3> QED
      BY <1>2, <3>2, <3>3, <3>4
  <2> QED
    BY <2>2, <2>3
<1>17. CASE RunPersistPid(e)
  BY <1>0, <1>1, <1>2, <1>3, <1>5, <1>17, LedgerRests DEF RunPersistPid, SetExecutionPID
<1>18. CASE RunLeaveQueued(e)
  BY <1>1, <1>3, <1>5, <1>6, <1>18 DEF RunLeaveQueued, storeVars
<1>19. CASE RunToClaim(e)
  BY <1>0, <1>1, <1>3, <1>5, <1>6, <1>19 DEF RunToClaim, storeVars
<1>20. CASE RunClaim(e)
  <2>1. ~IsShell(e) /\ UNCHANGED execTask
    BY <1>1, <1>20 DEF RunClaim, ClaimFuncExecution
  <2>2. CASE status[e] = "pending"
    <3>1. status' = [status EXCEPT ![e] = "running"] /\ UNCHANGED <<metrics, nextExec>>
      BY <1>20, <2>2 DEF RunClaim, ClaimFuncExecution
    <3>2. Alone /\ runner'[e] = "claimed" /\ status'[e] = "running"
      BY <1>3, <1>8, <1>20, <2>2, <3>1 DEF RunClaim, ClaimFuncExecution
    <3>3. EntryInv(e)'
      BY <1>0, <1>1, <1>5, <2>1, <2>2, <3>1, <3>2
    <3>4. LedgerStep
      BY <2>2, <3>1, LedgerMoves DEF Status
    <3> QED
      BY <1>2, <3>2, <3>3, <3>4
  <2>3. CASE status[e] # "pending"
    BY <1>1, <1>3, <1>5, <1>6, <1>20, <2>1, <2>3 DEF RunClaim, ClaimFuncExecution, storeVars
  <2> QED
    BY <2>2, <2>3
<1>21. CASE RunRefuse(e)
  <2>1. /\ Alone /\ runner'[e] = "ended" /\ UNCHANGED storeVars /\ runner[e] = "claimed"
    BY <1>3, <1>7, <1>21 DEF RunRefuse, storeVars
  <2>2. EntryInv(e)'
    BY <1>1, <1>5, <2>1 DEF storeVars
  <2> QED
    BY <1>2, <2>1, <2>2, LedgerRests DEF storeVars
<1>22. CASE RunBody(e)
  BY <1>1, <1>3, <1>5, <1>6, <1>22 DEF RunBody, storeVars
<1>23. CASE RunExit(e)
  <2>1. /\ Alone /\ runner'[e] = "exited" /\ UNCHANGED storeVars /\ runner[e] = "running"
    BY <1>3, <1>7, <1>23 DEF RunExit, storeVars
  <2>2. EntryInv(e)'
    BY <1>1, <1>5, <2>1 DEF storeVars
  <2> QED
    BY <1>2, <2>1, <2>2, LedgerRests DEF storeVars
<1>24. CASE RunDecide(e)
  <2>1. /\ Alone /\ runner'[e] = "ended" /\ UNCHANGED storeVars /\ runner[e] = "exited"
        /\ outcome'[e] = "success" => outcome[e] = "ok"
        /\ outcome'[e] # "ok"
    BY <1>3, <1>7, <1>24 DEF RunDecide, storeVars
  <2>2. EntryInv(e)'
    BY <1>1, <1>5, <2>1 DEF storeVars
  <2> QED
    BY <1>2, <2>1, <2>2, LedgerRests DEF storeVars
<1>25. CASE RunFinish(e)
  <2>1. outcome[e] \in Terminal
    BY <1>25 DEF RunFinish, IInv, DataInv, VerdictInv
  <2>2. UNCHANGED <<nextExec, metrics, execTask>>
    BY <1>25 DEF RunFinish, FinishExecution
  <2>3. CASE status[e] = "none"
    <3>1. Alone /\ runner'[e] = "finished" /\ UNCHANGED status
      BY <1>3, <1>7, <1>25, <2>3 DEF RunFinish, FinishExecution
    <3>2. metrics[e] = 0
      BY <1>1, <1>0, <1>4, <1>25, <2>3 DEF RunFinish
    <3>3. EntryInv(e)'
      BY <2>2, <2>3, <3>1, <3>2, <1>0
    <3> QED
      BY <1>2, <2>2, <3>1, <3>3, LedgerRests
  <2>4. CASE status[e] # "none"
    <3>1. status' = [status EXCEPT ![e] = outcome[e]]
      BY <1>25, <2>4 DEF RunFinish, FinishExecution
    <3>2. status[e] = "running" \/ (status[e] = "pending" /\ outcome[e] # "success")
      BY <1>0, <1>1, <1>4, <1>25, <2>4 DEF RunFinish
    <3>3. Alone /\ runner'[e] = "finished" /\ status'[e] = outcome[e]
      BY <1>3, <1>7, <1>8, <1>25, <2>2, <3>1 DEF RunFinish
    <3>4. EntryInv(e)'
      BY <1>1, <2>1, <2>2, <3>2, <3>3, <1>0 DEF Terminal
    <3>5. LedgerStep
      BY <2>1, <2>2, <3>1, <3>2, LedgerMoves DEF Status, Terminal
    <3> QED
      BY <1>2, <3>3, <3>4, <3>5
  <2> QED
    BY <2>3, <2>4
<1>26. CASE RunMeter(e)
  <2>1. metrics[e] = 0 /\ status[e] \in Terminal \cup {"none"} /\ RecordMetric(e)
    BY <1>1, <1>26 DEF RunMeter
  <2>2. Alone /\ runner'[e] = "metered" /\ UNCHANGED <<status, nextExec, execTask, outcome>>
    BY <1>3, <1>9, <1>26, LedgerBasics DEF RunMeter, RecordMetric
  <2>3. status'[e] \notin {"pending", "running"} /\ ~(e >= nextExec')
    BY <1>0, <2>1, <2>2, LedgerBasics DEF Terminal
  <2>4. EntryInv(e)'
    BY <2>2, <2>3
  <2> QED
    BY <1>0, <1>2, <2>1, <2>2, <2>4, LedgerCounts
<1>27. CASE RunRelease(e)
  <2>1. /\ Alone /\ runner'[e] = "idle"
        /\ UNCHANGED <<status, nextExec, execTask, outcome, metrics>>
    BY <1>3, <1>27 DEF RunRelease, ReleaseLock, SetLock
  <2>2. EntryInv(e)'
    BY <1>0, <1>1, <1>5, <2>1
  <2> QED
    BY <1>2, <2>1, <2>2, LedgerRests
<1> QED
  BY <1>10, <1>11, <1>12, <1>13, <1>14, <1>15, <1>16, <1>17, <1>18, <1>19, <1>20, <1>21,
     <1>22, <1>23, <1>24, <1>25, <1>26, <1>27 DEF Run

\* A new row is open and not counted.
LEMMA InsertKeepsBooks ==
    ASSUME IInv, MeterInv, NEW t \in Task, InsertPending(t),
           runner' = runner \/ runner' = [runner EXCEPT ![nextExec] = "spawned"],
           UNCHANGED <<metrics, outcome>>, OrphanInv'
    PROVE  MeterInv' /\ LedgerStep
<1>1. PICK n \in Exec : n = nextExec /\ nextExec' = n + 1
  BY InsertAppends, JobBasics DEF InsertPending, IInv
<1>2. \A e \in Exec : e # n => /\ execTask'[e] = execTask[e] /\ status'[e] = status[e]
                               /\ runner'[e] = runner[e]
                               /\ (e >= nextExec' => e >= nextExec)
  BY <1>1, JobBasics DEF InsertPending
<1>3. status'[n] = "pending" /\ runner'[n] \in {"idle", "spawned"} /\ ~(n >= nextExec')
  BY <1>1, JobBasics DEF InsertPending
<1>4. EntryInv(n)'
  <2>1. metrics[n] = 0
    BY <1>1, JobBasics DEF MeterInv, EntriesInv, EntryInv
  <2> QED
    BY <1>3, <2>1 DEF EntryInv, FuncPcs
<1>5. ASSUME NEW e \in Exec, e # n
      PROVE  EntryInv(e)'
  BY <1>2, <1>5, EntryRests DEF MeterInv, EntriesInv
<1> QED
  BY <1>4, <1>5, LedgerOpens DEF MeterInv, EntriesInv

\* Forgotten entries are neither open nor, as far as they are jobs, counted.
LEMMA ForgetKeepsBooks ==
    ASSUME IInv, MeterInv, NEW T \in SUBSET Task, status' = WithoutRows(T),
           \/ UNCHANGED metrics
           \/ metrics' = [e \in Exec |-> IF execTask[e] \in T THEN 0 ELSE metrics[e]],
           UNCHANGED <<nextExec, execTask, runner, outcome>>, OrphanInv'
    PROVE  MeterInv' /\ LedgerStep
<1>1. ASSUME NEW e \in Exec
      PROVE  EntryInv(e)'
  <2>1. EntryInv(e)
    BY DEF MeterInv, EntriesInv
  <2>2. CASE execTask[e] \in T
    BY <2>1, <2>2 DEF WithoutRows, EntryInv, IsShell
  <2>3. CASE execTask[e] \notin T
    BY <2>1, <2>3, EntryRests DEF WithoutRows
  <2> QED
    BY <2>2, <2>3
<1> QED
  BY <1>1, LedgerForgets DEF MeterInv, EntriesInv

\* Poll opens entries, and spawns runners on open ones.
LEMMA PollKeepsBooks ==
    ASSUME IInv, MeterInv, Poll
    PROVE  MeterInv' /\ LedgerStep
<1> USE DEF RestOfPoll, runVars, storeVars
<1>0. OrphanInv'
  <2>1. mode # "booting" /\ mode' # "booting" /\ UNCHANGED <<orphans, orphan, orphanPc>>
    BY DEF Poll, PollStart, PollSnapshot, PollEnd, PollLane, PollLock, PollLookup, PollCreate,
           PollCreateFails, Polling, IInv, LockInv, PlaceInv, bootVars
  <2> QED
    BY <2>1, OrphansRest
<1>1. CASE PollStart \/ PollSnapshot \/ PollEnd
  BY <1>0, <1>1, BooksRest DEF PollStart, CleanupExpiredLocks, PollSnapshot, PollEnd
<1>2. ASSUME NEW l \in Lane, PollLane(l)
      PROVE  MeterInv' /\ LedgerStep
  BY <1>0, <1>2, BooksRest DEF PollLane
<1>3. ASSUME NEW t \in Task, PollLock(t) \/ PollCreateFails(t)
      PROVE  MeterInv' /\ LedgerStep
  BY <1>0, <1>3, BooksRest DEF PollLock, PollCreateFails, AcquireLock, ReleaseLock, SetLock
<1>4. ASSUME NEW t \in Task, PollLookup(t)
      PROVE  MeterInv' /\ LedgerStep
  <2>1. CASE UNCHANGED runVars
    BY <1>0, <1>4, <2>1, BooksRest DEF PollLookup
  <2>2. ASSUME NEW e \in Exec, IsOldest(e, PendingOf(t)), Spawn(e)
        PROVE  MeterInv' /\ LedgerStep
    <3>1. status[e] = "pending" /\ UNCHANGED <<storeVars, outcome>>
      BY <1>4, <2>2 DEF PollLookup, IsOldest, PendingOf, Spawn
    <3>2. \A f \in Exec : runner'[f] = IF f = e THEN "spawned" ELSE runner[f]
      BY <2>2, JobBasics DEF Spawn
    <3>3. EntryInv(e)'
      BY <3>1, <3>2 DEF MeterInv, EntriesInv, EntryInv, FuncPcs
    <3>4. \A f \in Exec : f # e => EntryInv(f)'
      BY <3>1, <3>2, EntryRests DEF MeterInv, EntriesInv
    <3> QED
      BY <1>0, <3>1, <3>3, <3>4, LedgerRests DEF MeterInv, EntriesInv
  <2> QED
    BY <1>4, <2>1, <2>2 DEF PollLookup
<1>5. ASSUME NEW t \in Task, PollCreate(t)
      PROVE  MeterInv' /\ LedgerStep
  BY <1>0, <1>5, InsertKeepsBooks DEF PollCreate, CreateExecution, EnqueueTask, Spawn
<1> QED
  BY <1>1, <1>2, <1>3, <1>4, <1>5 DEF Poll

\* Requests open, cancel and forget entries.
LEMMA ClientKeepsBooks ==
    ASSUME IInv, JobInv, MeterInv, Client
    PROVE  MeterInv' /\ LedgerStep
<1> USE DEF RestOfClient, runVars
<1>0. OrphanInv'
  <2>1. mode # "booting" /\ mode' # "booting" /\ UNCHANGED <<orphans, orphan, orphanPc>>
    BY DEF Client, UpNext, Submit, Rerun, Remove, Delete, PauseTask, Prune, CancelInStore,
           CancelInRegistry, Serving, JobInv, CancelInv, bootVars
  <2> QED
    BY <2>1, OrphansRest
<1>1. ASSUME NEW t \in Task, UpNext(t) \/ Submit(t) \/ Rerun(t)
      PROVE  MeterInv' /\ LedgerStep
  BY <1>0, <1>1, InsertKeepsBooks
     DEF UpNext, EnqueueTask, Submit, SubmitFuncTask, Rerun, RerunTask
<1>2. ASSUME NEW t \in Task, Remove(t)
      PROVE  MeterInv' /\ LedgerStep
  BY <1>0, <1>2, ForgetKeepsBooks DEF Remove, RemoveIdleTask, DeleteTaskRows
<1>3. ASSUME NEW t \in Task, Delete(t)
      PROVE  MeterInv' /\ LedgerStep
  BY <1>0, <1>3, ForgetKeepsBooks DEF Delete, DeleteTask
<1>4. ASSUME NEW l \in Lane, Prune(l)
      PROVE  MeterInv' /\ LedgerStep
  <2>1. PICK old \in SUBSET Func : PruneOwnedLane(l, old)
    BY <1>4 DEF Prune
  <2>2. old \in SUBSET Task
    BY JobBasics
  <2> QED
    BY <1>0, <1>4, <2>1, <2>2, ForgetKeepsBooks DEF Prune, PruneOwnedLane, DeleteTaskRows
<1>5. ASSUME NEW t \in Task, NEW p \in BOOLEAN, PauseTask(t, p)
      PROVE  MeterInv' /\ LedgerStep
  BY <1>0, <1>5, BooksRest DEF PauseTask, SetTaskPaused
<1>6. ASSUME NEW e \in Exec, CancelInStore(e)
      PROVE  MeterInv' /\ LedgerStep
  <2>1. LedgerStep
    BY <1>6, LedgerCancels DEF CancelInStore, MeterInv
  <2>2. UNCHANGED <<nextExec, execTask, runner, outcome>>
    BY <1>6 DEF CancelInStore, CancelPendingFuncExecution
  <2>3. ASSUME NEW f \in Exec
        PROVE  EntryInv(f)'
    <3>1. CASE f = e /\ CancelsRow(e)
      <4>1. status'[e] = "canceled" /\ ~IsShell(e) /\ e < nextExec /\ status[e] = "pending"
        BY <1>6, <3>1, LedgerBasics, JobBasics
           DEF CancelInStore, CancelPendingFuncExecution, CancelsRow, IsShell
      <4>2. runner[e] # "finished"
        BY <4>1 DEF MeterInv, EntriesInv, EntryInv, Terminal
      <4> QED
        BY <2>2, <3>1, <4>1, <4>2, LedgerBasics DEF EntryInv, IsShell
    <3>2. CASE ~(f = e /\ CancelsRow(e))
      <4>1. status'[f] = status[f] /\ metrics'[f] = metrics[f]
        BY <1>6, <3>2, LedgerBasics DEF CancelInStore, CancelPendingFuncExecution
      <4> QED
        BY <2>2, <4>1, EntryRests DEF MeterInv, EntriesInv
    <3> QED
      BY <3>1, <3>2
  <2> QED
    BY <1>0, <2>1, <2>3 DEF MeterInv, EntriesInv
<1>7. ASSUME NEW e \in Exec, CancelInRegistry(e)
      PROVE  MeterInv' /\ LedgerStep
  BY <1>0, <1>7, BooksRest DEF CancelInRegistry, storeVars
<1> QED
  BY <1>1, <1>2, <1>3, <1>4, <1>5, <1>6, <1>7 DEF Client

\* The boot closes and counts what was left running; a crash loses no book.
LEMMA ProcessKeepsBooks ==
    ASSUME IInv, MeterInv, Process
    PROVE  MeterInv' /\ LedgerStep
<1> USE DEF RestOfBoot, RestOfRun, runVars, storeVars, bootVars
<1>0. /\ mode # "booting" => orphanPc = "next"
      /\ mode \in {"down", "booting"} => \A e \in Exec : runner[e] = "idle"
      /\ OrphanInv /\ orphans \subseteq Exec
  BY LedgerBasics DEF MeterInv, IInv, LockInv, PlaceInv, Live
<1>1. CASE BeginClose \/ StopPolling \/ Closed \/ Boot \/ Serve
  <2>1. UNCHANGED <<nextExec, execTask, status, metrics, runner, outcome>>
    BY <1>1 DEF BeginClose, StopPolling, Closed, Boot, Serve
  <2>2. OrphanInv'
    BY <1>0, <1>1 DEF BeginClose, StopPolling, Closed, Boot, Serve, OrphanInv, RunningExecutions
  <2> QED
    BY <2>1, <2>2, BooksRest
<1>2. ASSUME NEW e \in Exec, SurvivorExits(e) \/ OrphanSkip(e)
      PROVE  MeterInv' /\ LedgerStep
  <2>1. UNCHANGED <<nextExec, execTask, status, metrics, runner, outcome>>
    BY <1>2 DEF SurvivorExits, OrphanSkip
  <2>2. OrphanInv'
    BY <1>0, <1>2 DEF SurvivorExits, OrphanSkip, OrphanInv
  <2> QED
    BY <2>1, <2>2, BooksRest
<1>3. CASE Crash
  <2>1. UNCHANGED <<nextExec, execTask, status, metrics>> /\ OrphanInv'
    BY <1>3 DEF Crash, OrphanInv
  <2>2. \A e \in Exec : runner'[e] = "idle"
    BY <1>3 DEF Crash
  <2>3. EntriesInv'
    BY <2>1, <2>2 DEF MeterInv, EntriesInv, EntryInv, FuncPcs
  <2> QED
    BY <2>1, <2>3, LedgerRests DEF MeterInv
<1>4. ASSUME NEW e \in Exec, OrphanFinish(e)
      PROVE  MeterInv' /\ LedgerStep
  <2>1. /\ status[e] = "running" /\ status' = [status EXCEPT ![e] = "failed"]
        /\ UNCHANGED <<nextExec, execTask, metrics, runner, outcome, mode>>
    BY <1>0, <1>4 DEF OrphanFinish, FinishExecution, OrphanInv
  <2>2. \A f \in Exec : status'[f] = IF f = e THEN "failed" ELSE status[f]
    BY <2>1, LedgerBasics
  <2>3. runner[e] = "idle" /\ metrics[e] = 0 /\ e < nextExec
    BY <1>0, <1>4, <2>1, LedgerBasics DEF OrphanFinish, MeterInv, EntriesInv, EntryInv
  <2>4. EntryInv(e)'
    BY <2>1, <2>2, <2>3 DEF EntryInv, FuncPcs
  <2>5. \A f \in Exec : f # e => EntryInv(f)'
    BY <2>1, <2>2, EntryRests DEF MeterInv, EntriesInv
  <2>6. OrphanInv'
    BY <1>0, <1>4, <2>1, <2>2, <2>3 DEF OrphanFinish, OrphanInv, Terminal
  <2>7. LedgerStep
    BY <2>1, LedgerMoves DEF Status, Terminal
  <2> QED
    BY <2>4, <2>5, <2>6, <2>7 DEF MeterInv, EntriesInv
<1>5. CASE OrphanMeter
  <2>1. PICK e \in Exec : e = orphan /\ status[e] \in Terminal /\ metrics[e] = 0
    BY <1>0, <1>5 DEF OrphanMeter, OrphanInv
  <2>2. e < nextExec /\ runner[e] = "idle" /\ mode = "booting"
    BY <1>0, <1>5, <2>1, LedgerBasics DEF OrphanMeter, Terminal
  <2>3. /\ RecordMetric(e)
        /\ UNCHANGED <<nextExec, execTask, status, runner, outcome, mode, orphans>>
        /\ \A f \in Exec : f # e => metrics'[f] = metrics[f]
    BY <1>5, <2>1, LedgerBasics DEF OrphanMeter, RecordMetric
  <2>4. EntryInv(e)'
    BY <2>1, <2>2, <2>3, LedgerBasics DEF EntryInv, Terminal, FuncPcs
  <2>5. \A f \in Exec : f # e => EntryInv(f)'
    BY <2>3, EntryRests DEF MeterInv, EntriesInv
  <2>6. OrphanInv'
    BY <1>0, <1>5, <2>2, <2>3 DEF OrphanMeter, OrphanInv
  <2>7. LedgerStep
    BY <2>1, <2>2, <2>3, LedgerCounts
  <2> QED
    BY <2>4, <2>5, <2>6, <2>7 DEF MeterInv, EntriesInv
<1>6. CASE OrphanRelease
  <2>1. UNCHANGED <<nextExec, execTask, status, metrics, runner, outcome>>
    BY <1>6 DEF OrphanRelease, ReleaseLock, SetLock
  <2>2. OrphanInv'
    BY <1>0, <1>6 DEF OrphanRelease, ReleaseLock, SetLock, OrphanInv
  <2> QED
    BY <2>1, <2>2, BooksRest
<1> QED
  BY <1>1, <1>2, <1>3, <1>4, <1>5, <1>6 DEF Process, ReconcileOrphans

\* Every step keeps the books, and is one of the ledger's or none.
LEMMA BooksStep == IInv /\ JobInv /\ MeterInv /\ [Next]_vars => MeterInv' /\ LedgerStep
<1> SUFFICES ASSUME IInv, JobInv, MeterInv, [Next]_vars
             PROVE  MeterInv' /\ LedgerStep
  OBVIOUS
<1>1. ASSUME UNCHANGED <<nextExec, execTask, status, metrics, runner, outcome, bootVars>>
      PROVE  MeterInv' /\ LedgerStep
  <2>1. OrphanInv'
    BY <1>1 DEF MeterInv, OrphanInv, bootVars
  <2> QED
    BY <1>1, <2>1, BooksRest
<1>2. CASE UNCHANGED vars
  BY <1>1, <1>2 DEF vars, storeVars, runVars
<1>3. CASE BrakeHandler
  BY <1>1, <1>3
     DEF BrakeHandler, BrakeEngage, BrakeListRunning, BrakeEngageOn, BrakeReleaseOn,
         BrakeCancel, RegistryCancel, RestOfBrake, storeVars
<1>4. ASSUME NEW t \in Task, ExpireLock(t)
      PROVE  MeterInv' /\ LedgerStep
  BY <1>1, <1>4 DEF ExpireLock, LockExpires, SetLock, RestOfRun, runVars
<1> QED
  BY <1>2, <1>3, <1>4, RunKeepsBooks, PollKeepsBooks, ClientKeepsBooks, ProcessKeepsBooks
     DEF Next

\* The engine starts with empty books.
LEMMA BooksInitial == Init => MeterInv /\ Ledger!LedgerInit
<1> SUFFICES ASSUME Init
             PROVE  MeterInv /\ Ledger!LedgerInit
  OBVIOUS
<1>1. MeterInv
  BY StoreAssumption
     DEF StoreAssumption, Init, StoreInit, MeterInv, OrphanInv, EntriesInv, EntryInv, IsShell, Task
<1>2. \A e \in Exec : e >= nextExec
  BY StoreAssumption DEF StoreAssumption, Init, StoreInit, Exec
<1> QED
  BY <1>1, <1>2 DEF Ledger!LedgerInit, Init, StoreInit

\* The engine implements the ledger, in every instance: through races, sweeps,
\* closes and crashes an execution is opened once, closed once with one
\* verdict, and counted once, after it is closed.
THEOREM EngineKeepsLedger == Spec => KeepsLedger
<1>1. Init => MeterInv /\ Ledger!LedgerInit
  BY BooksInitial
<1>2. IInv /\ JobInv /\ MeterInv /\ [Next]_vars
          => MeterInv' /\ [Ledger!LedgerNext]_(Ledger!ledgerVars)
  BY BooksStep DEF LedgerStep
<1> QED
  BY <1>1, <1>2, JobInvariant, PTL DEF Spec, KeepsLedger, Ledger!LedgerSpec

------------------------------------------------------------------------------
(* One life of the process: what runs is tended, what ended is counted, and *)
(* what is locked has an owner                                              *)

\* Nothing has stopped the process before, but for the close under way.
FirstLife == IF mode = "up" THEN stops = 0 ELSE mode \in {"closing", "draining"} /\ stops = 1

\* No command can have outlived the process that started it.
NoSurvivors == Survivors => FirstLife

\* Of a command whose row is "running" there is a runner in the registry; of
\* one that ended, a metric or a runner about to write it.  Where nothing
\* survives a crash, a process has its runner, and the boot finds every row.
TendedRow(e) ==
    /\ NoSurvivors /\ IsShell(e) /\ status[e] = "running" /\ mode \in Awake
           => runner[e] \in {"marked", "running", "exited", "ended"}
    /\ FirstLife /\ status[e] \in Terminal => metrics[e] = 1 \/ runner[e] = "finished"
    /\ ~Survivors /\ e \in alive => runner[e] \in {"launched", "marked", "running"}
    /\ ~Survivors /\ mode = "booting" /\ IsShell(e) /\ status[e] = "running" => e \in orphans

\* A lock is held by the poll or by a runner.
Owned(t) == pollTask = t \/ \E e \in Exec : Live(e) /\ execTask[e] = t

OwnedInv == FirstLife => \A t \in Task : lock[t] = "free" \/ (lock[t] = "held" /\ Owned(t))

StopsInv == stops \in Nat /\ (mode # "up" => stops > 0)
TendedInv == \A e \in Exec : TendedRow(e)
LifeInv == StopsInv /\ TendedInv /\ OwnedInv

\* The step leaves the process in the state it is in.
SameMode == UNCHANGED <<mode, stops, orphans>>

------------------------------------------------------------------------------
(* Every step keeps rows tended and locks owned                             *)

\* A row the step does not touch stays tended.
LEMMA TendedRests ==
    ASSUME NEW e \in Exec, TendedRow(e), status'[e] = status[e], metrics'[e] = metrics[e],
           runner'[e] = runner[e], execTask'[e] = execTask[e], alive' \subseteq alive,
           SameMode
    PROVE  TendedRow(e)'
BY DEF TendedRow, NoSurvivors, FirstLife, SameMode, IsShell, Awake

\* A step that touches no row, runner or process.
LEMMA TendingRests ==
    ASSUME TendedInv, UNCHANGED <<status, metrics, runner, execTask, alive>>, SameMode
    PROVE  TendedInv'
BY TendedRests DEF TendedInv

\* A lock keeps its owner, or a free one is left free.
LEMMA OwnedRests ==
    ASSUME OwnedInv, SameMode, \A t \in Task : lock'[t] \in {lock[t], "free"},
           pollTask' = pollTask,
           \A e \in Exec : Live(e) => Live(e)' /\ execTask'[e] = execTask[e]
    PROVE  OwnedInv'
<1>1. \A t \in Task : Owned(t) => Owned(t)'
  BY DEF Owned
<1> QED
  BY <1>1 DEF OwnedInv, FirstLife, SameMode

LEMMA StopsRest ==
    ASSUME StopsInv, SameMode
    PROVE  StopsInv'
BY DEF StopsInv, SameMode

\* A runner tends its row until it has written and counted the result.
LEMMA RunTends ==
    ASSUME NEW e \in Exec, IInv, JobInv, MeterInv, LifeInv, Run(e)
    PROVE  LifeInv'
<1>0. /\ Live(e) /\ e < nextExec /\ mode # "booting" /\ SameMode
      /\ UNCHANGED <<execTask, pollTask>>
      /\ IsShell(e) <=> ~IsFunc(e)
  <2>1. Live(e)
    BY DEF Run, RunRegister, RunAdmit, RunBrakeShell, RunBrakeFunc, RunStart, RunStartFails,
           RunMark, RunPersistPid, RunLeaveQueued, RunToClaim, RunClaim, RunRefuse, RunBody,
           RunExit, RunDecide, RunFinish, RunMeter, RunRelease, At, Live
  <2>2. execTask[e] \in Task
    BY <2>1 DEF IInv, LockInv, RunnerInv
  <2>3. SameMode /\ UNCHANGED <<execTask, pollTask>>
    BY DEF Run, RunRegister, RunAdmit, RunBrakeShell, RunBrakeFunc, RunStart, RunStartFails,
           RunMark, RunPersistPid, RunLeaveQueued, RunToClaim, RunClaim, RunRefuse, RunBody,
           RunExit, RunDecide, RunFinish, RunMeter, RunRelease, RestOfRun, bootVars, SameMode,
           storeVars, pollVars, FinishExecution, CancelPendingFuncExecution, StartExecution,
           SetExecutionPID, ClaimFuncExecution, RecordMetric, ReleaseLock, SetLock
  <2> QED
    BY <2>1, <2>2, <2>3, JobBasics DEF Task, IsShell, IsFunc, Awake
<1>1. EntryInv(e) /\ TendedRow(e) /\ StopsInv'
  BY <1>0, StopsRest DEF MeterInv, EntriesInv, LifeInv, TendedInv
<1> DEFINE Alone == \A f \in Exec : f # e =>
        /\ runner'[f] = runner[f] /\ status'[f] = status[f] /\ metrics'[f] = metrics[f]
        /\ f \in alive' => f \in alive
<1>2. ASSUME Alone, TendedRow(e)'
      PROVE  TendedInv'
  <2> SUFFICES ASSUME NEW f \in Exec, f # e
               PROVE  TendedRow(f)'
    BY <1>2 DEF TendedInv
  <2>1. TendedRow(f)
    BY DEF LifeInv, TendedInv
  <2> QED
    BY <1>0, <1>2, <2>1 DEF TendedRow, NoSurvivors, FirstLife, SameMode, IsShell, Awake
<1>3. ASSUME NEW pc, Goto(e, pc)
      PROVE  runner'[e] = pc /\ \A f \in Exec : f # e => runner'[f] = runner[f]
  BY <1>3, JobBasics DEF Goto
<1>4. ASSUME UNCHANGED lock, \A f \in Exec : f # e => runner'[f] = runner[f],
             runner'[e] # "idle"
      PROVE  OwnedInv'
  BY <1>0, <1>4, OwnedRests DEF Live, LifeInv
<1>5. /\ IsShell(e)' <=> IsShell(e)
      /\ FirstLife' <=> FirstLife
      /\ NoSurvivors' <=> NoSurvivors
      /\ (mode \in Awake)' <=> mode \in Awake
  BY <1>0 DEF IsShell, FirstLife, NoSurvivors, SameMode
<1>6. IsFunc(e) => /\ runner[e] \notin ShellPcs
                   /\ runner[e] \in Working => status[e] = "running"
  BY <1>0 DEF JobInv, RowInv, CommandInv
<1>7. ASSUME UNCHANGED lock, TendedRow(e)', Alone, runner'[e] # "idle"
      PROVE  LifeInv'
  BY <1>1, <1>2, <1>4, <1>7 DEF LifeInv
<1> USE DEF At, RestOfRun, storeVars
<1>8. CASE RunRegister(e)
  <2>1. /\ Alone /\ UNCHANGED <<status, metrics, lock>> /\ (e \in alive' => e \in alive)
        /\ runner[e] = "spawned" /\ runner'[e] = "registered"
    BY <1>3, <1>8 DEF RunRegister
  <2>2. TendedRow(e)'
    BY <1>0, <1>1, <1>5, <2>1 DEF TendedRow, EntryInv, FuncPcs, SameMode
  <2> QED
    BY <1>7, <2>1, <2>2
<1>9. CASE RunAdmit(e)
  <2>1. /\ Alone /\ UNCHANGED <<status, metrics, lock>> /\ (e \in alive' => e \in alive)
        /\ runner[e] = "registered" /\ runner'[e] = "admitted"
    BY <1>3, <1>9 DEF RunAdmit
  <2>2. TendedRow(e)'
    BY <1>0, <1>1, <1>5, <2>1 DEF TendedRow, EntryInv, FuncPcs, SameMode
  <2> QED
    BY <1>7, <2>1, <2>2
<1>10. CASE RunStartFails(e)
  <2>1. /\ Alone /\ UNCHANGED <<status, metrics, lock>> /\ (e \in alive' => e \in alive)
        /\ runner[e] = "admitted" /\ runner'[e] = "exited"
    BY <1>3, <1>10 DEF RunStartFails
  <2>2. TendedRow(e)'
    BY <1>0, <1>1, <1>5, <2>1 DEF TendedRow, EntryInv, FuncPcs, SameMode
  <2> QED
    BY <1>7, <2>1, <2>2
<1>11. CASE RunPersistPid(e)
  <2>1. /\ Alone /\ UNCHANGED <<status, metrics, lock>> /\ (e \in alive' => e \in alive)
        /\ runner[e] = "marked" /\ runner'[e] = "running"
    BY <1>3, <1>11 DEF RunPersistPid, SetExecutionPID
  <2>2. TendedRow(e)'
    BY <1>0, <1>1, <1>5, <2>1 DEF TendedRow, EntryInv, FuncPcs, SameMode
  <2> QED
    BY <1>7, <2>1, <2>2
<1>12. CASE RunLeaveQueued(e)
  <2>1. /\ Alone /\ UNCHANGED <<status, metrics, lock>> /\ (e \in alive' => e \in alive)
        /\ runner[e] = "admitted" /\ runner'[e] = "metered" /\ IsFunc(e)
    BY <1>3, <1>12 DEF RunLeaveQueued
  <2>2. TendedRow(e)'
    BY <1>0, <1>1, <1>5, <2>1 DEF TendedRow, EntryInv, FuncPcs, SameMode
  <2> QED
    BY <1>7, <2>1, <2>2
<1>13. CASE RunToClaim(e)
  <2>1. /\ Alone /\ UNCHANGED <<status, metrics, lock>> /\ (e \in alive' => e \in alive)
        /\ runner[e] = "admitted" /\ runner'[e] = "claiming" /\ IsFunc(e)
    BY <1>3, <1>13 DEF RunToClaim
  <2>2. TendedRow(e)'
    BY <1>0, <1>1, <1>5, <2>1 DEF TendedRow, EntryInv, FuncPcs, SameMode
  <2> QED
    BY <1>7, <2>1, <2>2
<1>14. CASE RunRefuse(e)
  <2>1. /\ Alone /\ UNCHANGED <<status, metrics, lock>> /\ (e \in alive' => e \in alive)
        /\ runner[e] = "claimed" /\ runner'[e] = "ended"
    BY <1>3, <1>14 DEF RunRefuse
  <2>2. TendedRow(e)'
    BY <1>0, <1>1, <1>5, <2>1 DEF TendedRow, EntryInv, FuncPcs, SameMode
  <2> QED
    BY <1>7, <2>1, <2>2
<1>15. CASE RunBody(e)
  <2>1. /\ Alone /\ UNCHANGED <<status, metrics, lock>> /\ (e \in alive' => e \in alive)
        /\ runner[e] = "claimed" /\ runner'[e] = "running"
    BY <1>3, <1>15 DEF RunBody
  <2>2. TendedRow(e)'
    BY <1>0, <1>1, <1>5, <2>1 DEF TendedRow, EntryInv, FuncPcs, SameMode
  <2> QED
    BY <1>7, <2>1, <2>2
<1>16. CASE RunExit(e)
  <2>1. /\ Alone /\ UNCHANGED <<status, metrics, lock>> /\ e \notin alive'
        /\ runner[e] = "running" /\ runner'[e] = "exited"
    BY <1>3, <1>16 DEF RunExit
  <2>2. TendedRow(e)'
    BY <1>0, <1>1, <1>5, <2>1 DEF TendedRow, EntryInv, FuncPcs, SameMode
  <2> QED
    BY <1>7, <2>1, <2>2
<1>17. CASE RunDecide(e)
  <2>1. /\ Alone /\ UNCHANGED <<status, metrics, lock>> /\ (e \in alive' => e \in alive)
        /\ runner[e] = "exited" /\ runner'[e] = "ended"
    BY <1>3, <1>17 DEF RunDecide
  <2>2. TendedRow(e)'
    BY <1>0, <1>1, <1>5, <2>1 DEF TendedRow, EntryInv, FuncPcs, SameMode
  <2> QED
    BY <1>7, <2>1, <2>2
<1>18. ASSUME NEW s, status' = [status EXCEPT ![e] = s]
       PROVE  status'[e] = s /\ \A f \in Exec : f # e => status'[f] = status[f]
  BY <1>18, LedgerBasics
<1>19. ASSUME NEW n, metrics' = [metrics EXCEPT ![e] = n]
       PROVE  metrics'[e] = n /\ \A f \in Exec : f # e => metrics'[f] = metrics[f]
  BY <1>19, LedgerBasics
<1>20. CASE RunBrakeShell(e)
  <2>1. status' = status \/ status' = [status EXCEPT ![e] = "canceled"]
    BY <1>20 DEF RunBrakeShell, FinishExecution
  <2>2. status'[e] # "running" /\ \A f \in Exec : f # e => status'[f] = status[f]
    BY <1>1, <1>18, <1>20, <2>1 DEF RunBrakeShell, EntryInv
  <2>3. /\ Alone /\ UNCHANGED <<metrics, lock, alive>>
        /\ runner[e] = "registered" /\ runner'[e] = "finished"
    BY <1>3, <1>20, <2>2 DEF RunBrakeShell, FinishExecution
  <2>4. TendedRow(e)'
    BY <1>0, <1>1, <1>5, <2>2, <2>3 DEF TendedRow
  <2> QED
    BY <1>7, <2>3, <2>4
<1>21. CASE RunBrakeFunc(e)
  <2>1. /\ UNCHANGED <<lock, alive>> /\ runner[e] = "registered" /\ runner'[e] = "metered"
        /\ ~IsShell(e)
    BY <1>0, <1>3, <1>21 DEF RunBrakeFunc, CancelPendingFuncExecution
  <2>2. CASE CancelsRow(e)
    <3>1. Alone /\ metrics'[e] = 1
      BY <1>1, <1>3, <1>18, <1>19, <1>21, <2>2, LedgerBasics
         DEF RunBrakeFunc, CancelPendingFuncExecution, CancelsRow, EntryInv
    <3>2. TendedRow(e)'
      BY <1>0, <1>1, <1>5, <2>1, <3>1 DEF TendedRow, SameMode
    <3> QED
      BY <1>7, <2>1, <3>1, <3>2
  <2>3. CASE ~CancelsRow(e)
    <3>1. Alone /\ UNCHANGED <<status, metrics>>
      BY <1>3, <1>21, <2>3 DEF RunBrakeFunc, CancelPendingFuncExecution
    <3>2. TendedRow(e)'
      BY <1>0, <1>1, <1>5, <2>1, <3>1 DEF TendedRow, SameMode
    <3> QED
      BY <1>7, <2>1, <3>1, <3>2
  <2> QED
    BY <2>2, <2>3
<1>22. CASE RunStart(e)
  <2>1. /\ Alone /\ UNCHANGED <<status, metrics, lock>>
        /\ runner[e] = "admitted" /\ runner'[e] = "launched"
    BY <1>3, <1>22 DEF RunStart
  <2>2. TendedRow(e)'
    BY <1>0, <1>1, <1>5, <2>1 DEF TendedRow, EntryInv, SameMode
  <2> QED
    BY <1>7, <2>1, <2>2
<1>23. CASE RunMark(e)
  <2>1. /\ status' = status \/ status' = [status EXCEPT ![e] = "running"]
        /\ status[e] = "none" => status' = status
    BY <1>23 DEF RunMark, StartExecution
  <2>2. /\ status'[e] \in {"running", "none"}
        /\ \A f \in Exec : f # e => status'[f] = status[f]
    BY <1>0, <1>1, <1>6, <1>18, <1>23, <2>1 DEF RunMark, StartExecution, EntryInv, ShellPcs
  <2>3. /\ Alone /\ UNCHANGED <<metrics, lock, alive>>
        /\ runner[e] = "launched" /\ runner'[e] = "marked"
    BY <1>3, <1>23, <2>2 DEF RunMark, StartExecution
  <2>4. TendedRow(e)'
    BY <1>0, <1>1, <1>5, <2>2, <2>3 DEF TendedRow, SameMode, Terminal
  <2> QED
    BY <1>7, <2>3, <2>4
<1>24. CASE RunClaim(e)
  <2>1. status' = status \/ status' = [status EXCEPT ![e] = "running"]
    BY <1>24 DEF RunClaim, ClaimFuncExecution
  <2>2. /\ status'[e] \in {status[e], "running"}
        /\ \A f \in Exec : f # e => status'[f] = status[f]
    BY <1>18, <2>1
  <2>3. /\ Alone /\ UNCHANGED <<metrics, lock, alive>> /\ ~IsShell(e)
        /\ runner[e] = "claiming" /\ runner'[e] \in {"claimed", "metered"}
    BY <1>1, <1>3, <1>24, <2>2 DEF RunClaim, ClaimFuncExecution, EntryInv, FuncPcs
  <2>4. TendedRow(e)'
    BY <1>0, <1>1, <1>5, <2>2, <2>3 DEF TendedRow, SameMode, Terminal
  <2> QED
    BY <1>7, <2>3, <2>4
<1>25. CASE RunFinish(e)
  <2>1. /\ status' = status \/ status' = [status EXCEPT ![e] = outcome[e]]
        /\ status[e] # "none" => status' = [status EXCEPT ![e] = outcome[e]]
    BY <1>25 DEF RunFinish, FinishExecution
  <2>2. /\ status'[e] # "running"
        /\ \A f \in Exec : f # e => status'[f] = status[f]
    BY <1>18, <1>25, <2>1 DEF RunFinish, IInv, DataInv, VerdictInv, Terminal
  <2>3. /\ Alone /\ UNCHANGED <<metrics, lock, alive>>
        /\ runner[e] = "ended" /\ runner'[e] = "finished"
    BY <1>3, <1>25, <2>2 DEF RunFinish, FinishExecution
  <2>4. TendedRow(e)'
    BY <1>0, <1>1, <1>5, <2>2, <2>3 DEF TendedRow, SameMode
  <2> QED
    BY <1>7, <2>3, <2>4
<1>26. CASE RunMeter(e)
  <2>1. /\ Alone /\ UNCHANGED <<status, lock, alive>> /\ metrics'[e] = 1
        /\ runner[e] = "finished" /\ runner'[e] = "metered"
    BY <1>1, <1>3, <1>19, <1>26, LedgerBasics DEF RunMeter, RecordMetric, EntryInv
  <2>2. status'[e] # "running"
    BY <1>1, <2>1 DEF EntryInv, Terminal
  <2>3. TendedRow(e)'
    BY <1>0, <1>1, <1>5, <2>1, <2>2 DEF TendedRow, SameMode
  <2> QED
    BY <1>7, <2>1, <2>3
<1>27. CASE RunRelease(e)
  <2>1. /\ Alone /\ UNCHANGED <<status, metrics, alive>>
        /\ runner[e] = "metered" /\ runner'[e] = "idle"
    BY <1>3, <1>27 DEF RunRelease, ReleaseLock, SetLock
  <2>2. TendedRow(e)'
    BY <1>0, <1>1, <1>5, <2>1 DEF TendedRow, SameMode
  <2>3. \A t \in Task : lock'[t] = IF t = execTask[e] THEN "free" ELSE lock[t]
    BY <1>27 DEF RunRelease, ReleaseLock, SetLock, IInv, DataInv, TypeOK, StoreType
  <2>4. \A t \in Task : t # execTask[e] /\ Owned(t) => Owned(t)'
    BY <1>0, <2>1 DEF Owned, Live
  <2>5. OwnedInv'
    BY <1>5, <2>3, <2>4 DEF LifeInv, OwnedInv
  <2> QED
    BY <1>1, <1>2, <2>1, <2>2, <2>5 DEF LifeInv
<1> QED
  BY <1>8, <1>9, <1>10, <1>11, <1>12, <1>13, <1>14, <1>15, <1>16, <1>17, <1>20, <1>21,
     <1>22, <1>23, <1>24, <1>25, <1>26, <1>27 DEF Run

\* A new row is pending, and its id had no runner, no process and no owner.
LEMMA InsertTends ==
    ASSUME IInv, LifeInv, NEW t \in Task, InsertPending(t), SameMode,
           \/ UNCHANGED <<runner, pollTask>>
           \/ runner' = [runner EXCEPT ![nextExec] = "spawned"] /\ pollTask = t,
           UNCHANGED <<metrics, lock, alive>>
    PROVE  LifeInv'
<1>1. PICK n \in Exec : n = nextExec /\ nextExec' = n + 1
  BY InsertAppends, JobBasics DEF InsertPending, IInv
<1>2. \A e \in Exec : e # n => /\ execTask'[e] = execTask[e] /\ status'[e] = status[e]
                               /\ runner'[e] = runner[e]
  BY <1>1, JobBasics DEF InsertPending
<1>3. /\ execTask'[n] = t /\ status'[n] = "pending" /\ runner[n] = "idle"
      /\ runner'[n] = "idle" \/ (runner'[n] = "spawned" /\ pollTask = t)
      /\ runner'[n] = "idle" => pollTask' = pollTask
  BY <1>1, JobBasics DEF InsertPending
<1>4. TendedRow(n)'
  <2>1. ~Survivors => n \notin alive'
    BY <1>3 DEF LifeInv, TendedInv, TendedRow
  <2> QED
    BY <1>3, <2>1 DEF TendedRow, Terminal
<1>5. ASSUME NEW e \in Exec, e # n
      PROVE  TendedRow(e)'
  BY <1>2, <1>5, TendedRests DEF LifeInv, TendedInv
<1>6. OwnedInv'
  <2>1. ASSUME NEW u \in Task, Owned(u)
        PROVE  Owned(u)'
    BY <1>2, <1>3, <2>1 DEF Owned, Live
  <2> QED
    BY <2>1 DEF LifeInv, OwnedInv, FirstLife, SameMode
<1> QED
  BY <1>4, <1>5, <1>6, StopsRest DEF LifeInv, TendedInv

\* Rows go with their task; removal frees the lock, deletion leaves it.
LEMMA ForgetTends ==
    ASSUME LifeInv, NEW T \in SUBSET Task, status' = WithoutRows(T), SameMode,
           \/ UNCHANGED metrics
           \/ metrics' = [e \in Exec |-> IF execTask[e] \in T THEN 0 ELSE metrics[e]],
           UNCHANGED <<execTask, runner, alive, pollTask>>,
           \A t \in Task : lock'[t] \in {lock[t], "free"}
    PROVE  LifeInv'
<1>1. ASSUME NEW e \in Exec
      PROVE  TendedRow(e)'
  <2>1. TendedRow(e)
    BY DEF LifeInv, TendedInv
  <2>2. CASE execTask[e] \in T
    BY <2>1, <2>2 DEF WithoutRows, TendedRow, Terminal
  <2>3. CASE execTask[e] \notin T
    BY <2>1, <2>3, TendedRests DEF WithoutRows
  <2> QED
    BY <2>2, <2>3
<1>2. OwnedInv'
  BY OwnedRests DEF LifeInv, Live
<1> QED
  BY <1>1, <1>2, StopsRest DEF LifeInv, TendedInv

\* Neither rows nor runners change, and no lock is taken.
LEMMA LifeRests ==
    ASSUME LifeInv, SameMode, UNCHANGED <<status, metrics, runner, execTask, alive, pollTask>>,
           \A t \in Task : lock'[t] \in {lock[t], "free"}
    PROVE  LifeInv'
BY TendingRests, OwnedRests, StopsRest DEF LifeInv, Live

\* Poll takes a lock for itself, and hands it to the runner it spawns.
LEMMA PollTends ==
    ASSUME IInv, LifeInv, Poll
    PROVE  LifeInv'
<1> USE DEF RestOfPoll, runVars, storeVars, bootVars, SameMode
<1>0. lock \in [Task -> {"free", "held", "expired"}]
  BY DEF IInv, DataInv, TypeOK, StoreType
<1>1. CASE PollStart \/ PollSnapshot \/ PollEnd
  BY <1>1, LifeRests DEF PollStart, CleanupExpiredLocks, PollSnapshot, PollEnd
<1>2. ASSUME NEW l \in Lane, PollLane(l)
      PROVE  LifeInv'
  BY <1>2, LifeRests DEF PollLane
<1>3. ASSUME NEW t \in Task, PollLock(t)
      PROVE  LifeInv'
  <2>1. CASE UNCHANGED <<pollTask, storeVars>>
    BY <1>3, <2>1, LifeRests DEF PollLock
  <2>2. CASE AcquireLock(t) /\ pollTask' = t
    <3>1. pollTask = NoTask /\ NoTask \notin Task
      BY <1>3, StoreAssumption DEF PollLock, IInv, LockInv, PlaceInv, StoreAssumption
    <3>2. \A u \in Task : u # t /\ Owned(u) => Owned(u)'
      BY <1>3, <2>2, <3>1 DEF PollLock, AcquireLock, SetLock, Owned, Live
    <3>3. Owned(t)'
      BY <2>2 DEF Owned
    <3>4. \A u \in Task : lock'[u] = IF u = t THEN "held" ELSE lock[u]
      BY <1>0, <2>2 DEF AcquireLock, SetLock
    <3>5. OwnedInv'
      BY <1>3, <3>2, <3>3, <3>4 DEF PollLock, LifeInv, OwnedInv, FirstLife
    <3> QED
      BY <1>3, <2>2, <3>5, TendingRests, StopsRest DEF PollLock, AcquireLock, SetLock, LifeInv
  <2> QED
    BY <1>3, <2>1, <2>2 DEF PollLock
<1>4. ASSUME NEW t \in Task, PollCreateFails(t)
      PROVE  LifeInv'
  <2>1. \A u \in Task : lock'[u] = IF u = t THEN "free" ELSE lock[u]
    BY <1>0, <1>4 DEF PollCreateFails, ReleaseLock, SetLock
  <2>2. \A u \in Task : u # t /\ Owned(u) => Owned(u)'
    BY <1>4 DEF PollCreateFails, ReleaseLock, SetLock, Owned, Live
  <2>3. OwnedInv'
    BY <1>4, <2>1, <2>2 DEF PollCreateFails, LifeInv, OwnedInv, FirstLife
  <2> QED
    BY <1>4, <2>3, TendingRests, StopsRest DEF PollCreateFails, ReleaseLock, SetLock, LifeInv
<1>5. ASSUME NEW t \in Task, PollLookup(t)
      PROVE  LifeInv'
  <2>1. CASE UNCHANGED <<pollTask, runVars>>
    BY <1>5, <2>1, LifeRests DEF PollLookup
  <2>2. ASSUME NEW e \in Exec, IsOldest(e, PendingOf(t)), Spawn(e)
        PROVE  LifeInv'
    <3>1. /\ status[e] = "pending" /\ execTask[e] = t /\ pollTask = t
          /\ UNCHANGED <<storeVars, alive>> /\ SameMode
      BY <1>5, <2>2 DEF PollLookup, IsOldest, PendingOf, RowsOf, Spawn
    <3>2. \A f \in Exec : runner'[f] = IF f = e THEN "spawned" ELSE runner[f]
      BY <2>2, JobBasics DEF Spawn
    <3>3. runner[e] = "idle"
      BY <3>1, StoreAssumption
         DEF IInv, LockInv, PollInv, DataInv, RowsInv, Live
    <3>4. \A f \in Exec : f # e => TendedRow(f)'
      BY <3>1, <3>2, TendedRests DEF LifeInv, TendedInv
    <3>5. TendedRow(e)'
      BY <3>1, <3>2, <3>3 DEF LifeInv, TendedInv, TendedRow, Terminal
    <3>6. \A u \in Task : Owned(u) => Owned(u)'
      BY <3>1, <3>2 DEF Owned, Live
    <3>7. OwnedInv'
      BY <3>1, <3>6 DEF LifeInv, OwnedInv, FirstLife
    <3> QED
      BY <3>1, <3>4, <3>5, <3>7, StopsRest DEF LifeInv, TendedInv
  <2> QED
    BY <1>5, <2>1, <2>2 DEF PollLookup
<1>6. ASSUME NEW t \in Task, PollCreate(t)
      PROVE  LifeInv'
  BY <1>6, InsertTends DEF PollCreate, CreateExecution, EnqueueTask, Spawn
<1> QED
  BY <1>1, <1>2, <1>3, <1>4, <1>5, <1>6 DEF Poll

\* A request leaves no closed row uncounted and takes no lock.
LEMMA ClientTends ==
    ASSUME IInv, MeterInv, LifeInv, Client
    PROVE  LifeInv'
<1> USE DEF RestOfClient, runVars, bootVars, pollVars, SameMode
<1>0. lock \in [Task -> {"free", "held", "expired"}]
  BY DEF IInv, DataInv, TypeOK, StoreType
<1>1. ASSUME NEW t \in Task, UpNext(t) \/ Submit(t) \/ Rerun(t)
      PROVE  LifeInv'
  BY <1>1, InsertTends DEF UpNext, EnqueueTask, Submit, SubmitFuncTask, Rerun, RerunTask
<1>2. ASSUME NEW t \in Task, Remove(t)
      PROVE  LifeInv'
  BY <1>2, ForgetTends DEF Remove, RemoveIdleTask, DeleteTaskRows
<1>3. ASSUME NEW t \in Task, Delete(t)
      PROVE  LifeInv'
  BY <1>3, ForgetTends DEF Delete, DeleteTask
<1>4. ASSUME NEW l \in Lane, Prune(l)
      PROVE  LifeInv'
  <2>1. PICK old \in SUBSET Func : PruneOwnedLane(l, old)
    BY <1>4 DEF Prune
  <2>2. old \in SUBSET Task
    BY JobBasics
  <2> QED
    BY <1>4, <2>1, <2>2, ForgetTends DEF Prune, PruneOwnedLane, DeleteTaskRows
<1>5. ASSUME NEW t \in Task, NEW p \in BOOLEAN, PauseTask(t, p)
      PROVE  LifeInv'
  BY <1>5, LifeRests DEF PauseTask, SetTaskPaused
<1>6. ASSUME NEW e \in Exec, CancelInStore(e)
      PROVE  LifeInv'
  <2>1. /\ UNCHANGED <<execTask, runner, alive, lock, pollTask>> /\ SameMode
    BY <1>6 DEF CancelInStore, CancelPendingFuncExecution
  <2>2. CASE ~CancelsRow(e)
    BY <1>6, <2>1, <2>2, LifeRests DEF CancelInStore, CancelPendingFuncExecution
  <2>3. CASE CancelsRow(e)
    <3>1. metrics[e] = 0
      BY <2>3 DEF CancelsRow, MeterInv, EntriesInv, EntryInv
    <3>2. /\ status'[e] = "canceled" /\ metrics'[e] = 1
          /\ \A f \in Exec : f # e => status'[f] = status[f] /\ metrics'[f] = metrics[f]
      BY <1>6, <2>3, <3>1, LedgerBasics DEF CancelInStore, CancelPendingFuncExecution
    <3>3. TendedRow(e)'
      BY <2>1, <3>2 DEF LifeInv, TendedInv, TendedRow
    <3>4. \A f \in Exec : f # e => TendedRow(f)'
      BY <2>1, <3>2, TendedRests DEF LifeInv, TendedInv
    <3> QED
      BY <2>1, <3>3, <3>4, OwnedRests, StopsRest DEF LifeInv, TendedInv, Live
  <2> QED
    BY <2>2, <2>3
<1>7. ASSUME NEW e \in Exec, CancelInRegistry(e)
      PROVE  LifeInv'
  BY <1>7, LifeRests DEF CancelInRegistry, storeVars
<1> QED
  BY <1>1, <1>2, <1>3, <1>4, <1>5, <1>6, <1>7 DEF Client

\* Stops end the first life; where nothing survives, the boot finds every row.
LEMMA ProcessTends ==
    ASSUME IInv, MeterInv, LifeInv, Process
    PROVE  LifeInv'
<1> USE DEF RestOfBoot, RestOfRun, runVars, storeVars, bootVars, pollVars
<1>0. /\ mode \in {"down", "booting"} => \A e \in Exec : runner[e] = "idle"
      /\ orphans \subseteq Exec /\ alive \subseteq Exec
      /\ stops \in Nat /\ (mode # "up" => stops > 0)
      /\ \A e \in Exec : TendedRow(e)
  BY LedgerBasics DEF LifeInv, StopsInv, TendedInv, IInv, LockInv, PlaceInv, Live, DataInv,
                      TypeOK, RunType
<1>1. CASE BeginClose \/ StopPolling
  <2>1. /\ mode \in Awake /\ mode' \in Awake /\ mode' # "booting" /\ stops' \in Nat /\ stops' > 0
        /\ FirstLife' <=> FirstLife
        /\ UNCHANGED <<orphans, status, metrics, runner, execTask, alive, pollTask, lock>>
    BY <1>0, <1>1 DEF BeginClose, StopPolling, Awake, FirstLife
  <2>2. TendedInv'
    BY <1>0, <2>1 DEF TendedInv, TendedRow, NoSurvivors, IsShell
  <2>3. OwnedInv'
    BY <2>1 DEF LifeInv, OwnedInv, Owned, Live
  <2> QED
    BY <2>1, <2>2, <2>3 DEF LifeInv, StopsInv
<1>2. ASSUME NEW e \in Exec, SurvivorExits(e)
      PROVE  LifeInv'
  <2>1. SameMode /\ alive' \subseteq alive
    BY <1>2 DEF SurvivorExits, SameMode
  <2>2. TendedInv'
    BY <1>0, <1>2, <2>1, TendedRests DEF SurvivorExits, TendedInv
  <2>3. OwnedInv'
    BY <1>2, <2>1, OwnedRests DEF SurvivorExits, LifeInv, Live
  <2> QED
    BY <2>1, <2>2, <2>3, StopsRest DEF LifeInv
<1>3. ASSUME ~FirstLife', stops' \in Nat, mode' # "up" => stops' > 0, TendedInv'
      PROVE  LifeInv'
  BY <1>3 DEF LifeInv, StopsInv, OwnedInv
<1>4. CASE Closed
  <2>1. \A e \in Exec : runner[e] = "idle"
    BY <1>4 DEF Closed, Live
  <2> QED
    BY <1>0, <1>3, <1>4, <2>1 DEF Closed, FirstLife, TendedInv, TendedRow, Awake
<1>5. CASE Crash
  <2>1. ~Survivors => alive' = {}
    BY <1>5 DEF Crash
  <2> QED
    BY <1>0, <1>3, <1>5, <2>1 DEF Crash, FirstLife, TendedInv, TendedRow, Awake
<1>6. CASE Boot
  BY <1>0, <1>3, <1>6 DEF Boot, FirstLife, TendedInv, TendedRow, Awake, RunningExecutions
<1>7. ASSUME NEW e \in Exec, OrphanSkip(e)
      PROVE  LifeInv'
  <2>1. Survivors
    BY <1>0, <1>7 DEF OrphanSkip, TendedRow
  <2> QED
    BY <1>0, <1>3, <1>7, <2>1 DEF OrphanSkip, FirstLife, TendedInv, TendedRow, Awake
<1>8. ASSUME NEW e \in Exec, OrphanFinish(e)
      PROVE  LifeInv'
  <2>1. \A f \in Exec : status'[f] = "running" => f # e /\ status[f] = "running"
    BY <1>8, LedgerBasics DEF OrphanFinish, FinishExecution
  <2>2. /\ mode = "booting" /\ orphans' = orphans \ {e}
        /\ UNCHANGED <<mode, stops, runner, alive, execTask>>
    BY <1>8 DEF OrphanFinish, FinishExecution
  <2>3. TendedInv'
    BY <1>0, <2>1, <2>2 DEF TendedInv, TendedRow, FirstLife, Awake, IsShell
  <2> QED
    BY <1>0, <1>3, <2>2, <2>3 DEF FirstLife
<1>9. CASE OrphanMeter \/ OrphanRelease
  <2>1. mode = "booting"
    BY <1>9 DEF OrphanMeter, OrphanRelease, IInv, LockInv, PlaceInv
  <2>2. UNCHANGED <<mode, stops, runner, alive, execTask, orphans, status>>
    BY <1>9 DEF OrphanMeter, OrphanRelease, RecordMetric, ReleaseLock, SetLock
  <2>3. TendedInv'
    BY <1>0, <2>1, <2>2 DEF TendedInv, TendedRow, FirstLife, Awake, IsShell
  <2> QED
    BY <1>0, <1>3, <2>1, <2>2, <2>3 DEF FirstLife
<1>10. CASE Serve
  <2>1. /\ mode = "booting" /\ mode' = "up" /\ orphans = {}
        /\ UNCHANGED <<stops, status, metrics, runner, alive, execTask>>
    BY <1>10 DEF Serve
  <2>2. ~FirstLife'
    BY <1>0, <2>1 DEF FirstLife
  <2>3. TendedInv'
    BY <1>0, <2>1, <2>2 DEF TendedInv, TendedRow, NoSurvivors, Awake, IsShell
  <2> QED
    BY <1>0, <1>3, <2>1, <2>2, <2>3
<1> QED
  BY <1>1, <1>2, <1>4, <1>5, <1>6, <1>7, <1>8, <1>9, <1>10 DEF Process, ReconcileOrphans

\* Every step keeps rows tended and locks owned.
LEMMA LifeStep == IInv /\ JobInv /\ MeterInv /\ LifeInv /\ [Next]_vars => LifeInv'
<1> SUFFICES ASSUME IInv, JobInv, MeterInv, LifeInv, [Next]_vars
             PROVE  LifeInv'
  OBVIOUS
<1>1. CASE UNCHANGED vars
  BY <1>1, LifeRests DEF vars, storeVars, runVars, pollVars, bootVars, SameMode
<1>2. CASE BrakeHandler
  <2>1. UNCHANGED <<status, metrics, runner, execTask, alive, pollTask, lock>> /\ SameMode
    BY <1>2
       DEF BrakeHandler, BrakeEngage, BrakeListRunning, BrakeEngageOn, BrakeReleaseOn,
           BrakeCancel, RegistryCancel, RestOfBrake, storeVars, bootVars, pollVars, SameMode
  <2> QED
    BY <2>1, LifeRests
<1>3. ASSUME NEW t \in Task, ExpireLock(t)
      PROVE  LifeInv'
  <2>1. lock[t] = "held" /\ ~Owned(t)
    BY <1>3 DEF ExpireLock, LockExpires, Owned
  <2>2. ~FirstLife /\ SameMode /\ UNCHANGED <<status, metrics, runner, execTask, alive>>
    BY <1>3, <2>1
       DEF LifeInv, OwnedInv, ExpireLock, LockExpires, SetLock, RestOfRun, runVars, bootVars,
           SameMode
  <2>3. OwnedInv'
    BY <2>2 DEF OwnedInv, FirstLife, SameMode
  <2> QED
    BY <2>2, <2>3, TendingRests, StopsRest DEF LifeInv
<1> QED
  BY <1>1, <1>2, <1>3, RunTends, PollTends, ClientTends, ProcessTends DEF Next

\* The engine starts its first life with nothing running and nothing locked.
LEMMA LifeInitial == Init => LifeInv
BY DEF Init, StoreInit, LifeInv, StopsInv, TendedInv, TendedRow, OwnedInv, FirstLife, Terminal

\* All the invariants of the engine together are inductive.
THEOREM BooksInvariant == Spec => [](IInv /\ JobInv /\ MeterInv /\ LifeInv)
<1>1. Init => MeterInv /\ LifeInv
  BY BooksInitial, LifeInitial
<1>2. IInv /\ JobInv /\ MeterInv /\ LifeInv /\ [Next]_vars => MeterInv' /\ LifeInv'
  BY BooksStep, LifeStep
<1> QED
  BY <1>1, <1>2, JobInvariant, PTL DEF Spec

\* The first close, if nothing crashed before it, leaves no row running, no
\* finished row without its metric, and no lock.
THEOREM ClosesClean == Spec => CleanClose
<1> DEFINE Clean == /\ \A e \in Exec : status[e] # "running"
                    /\ \A e \in Exec : status[e] \in Terminal => metrics[e] = 1
                    /\ \A t \in Task : lock[t] = "free"
<1>1. IInv /\ JobInv /\ MeterInv /\ LifeInv /\ Closed /\ stops = 1 => Clean
  <2> SUFFICES ASSUME IInv, JobInv, MeterInv, LifeInv, Closed, stops = 1
               PROVE  Clean
    OBVIOUS
  <2>1. mode = "draining" /\ FirstLife /\ NoSurvivors /\ \A e \in Exec : runner[e] = "idle"
    BY DEF Closed, FirstLife, NoSurvivors, Live
  <2>2. ASSUME NEW e \in Exec
        PROVE  status[e] # "running" /\ (status[e] \in Terminal => metrics[e] = 1)
    <3>1. status[e] # "none" => execTask[e] \in Task
      BY DEF IInv, DataInv, RowsInv, TypeOK, StoreType
    <3>2. status[e] = "running" => IsShell(e) \/ IsFunc(e)
      BY <3>1 DEF IsShell, IsFunc, Task
    <3>3. TendedRow(e)
      BY DEF LifeInv, TendedInv
    <3>4. IsFunc(e) => status[e] # "running"
      BY <2>1 DEF JobInv, RowInv, Awake, Working
    <3> QED
      BY <2>1, <3>2, <3>3, <3>4 DEF TendedRow, Awake
  <2>3. ASSUME NEW t \in Task
        PROVE  lock[t] = "free"
    <3>1. pollTask # t
      BY <2>1, StoreAssumption DEF IInv, LockInv, PlaceInv, StoreAssumption
    <3>2. ~Owned(t)
      BY <2>1, <3>1 DEF Owned, Live
    <3> QED
      BY <2>1, <3>2 DEF LifeInv, OwnedInv
  <2> QED
    BY <2>2, <2>3
<1>2. IInv /\ JobInv /\ MeterInv /\ LifeInv /\ [Next]_vars => [Closed /\ stops = 1 => Clean]_vars
  BY <1>1
<1> QED
  BY <1>2, BooksInvariant, PTL DEF Spec, CleanClose

\* The brake's handler is at work only while requests are served.
HandlerInv == brakePc # "idle" => mode = "up"

LEMMA HandlerStep == HandlerInv /\ [Next]_vars => HandlerInv'
<1> SUFFICES ASSUME HandlerInv, [Next]_vars
             PROVE  HandlerInv'
  OBVIOUS
<1> USE DEF HandlerInv
<1>1. UNCHANGED <<brakePc, mode>> => HandlerInv'
  OBVIOUS
<1>2. CASE UNCHANGED vars
  BY <1>1, <1>2 DEF vars, brakeVars, bootVars
<1>3. CASE BrakeHandler
  <2>1. UNCHANGED mode
    BY <1>3 DEF BrakeHandler, BrakeEngage, BrakeListRunning, BrakeEngageOn, BrakeReleaseOn,
                BrakeCancel, RestOfBrake, bootVars
  <2>2. brakePc # "idle" \/ mode = "up"
    BY <1>3 DEF BrakeHandler, BrakeEngage, BrakeListRunning, BrakeEngageOn, BrakeReleaseOn,
                BrakeCancel, Serving, EngageSweep, EngagePause, EngageRecord, EngageSave, EngageGate
  <2> QED
    BY <2>1, <2>2
<1>4. CASE Process
  BY <1>1, <1>4
     DEF Process, BeginClose, StopPolling, Closed, Crash, Boot, ReconcileOrphans, OrphanSkip,
         OrphanFinish, OrphanMeter, OrphanRelease, Serve, SurvivorExits, DropBrakeHandler,
         BootBrake, RestOfRun, brakeVars, bootVars
<1>5. CASE Poll
  BY <1>1, <1>5
     DEF Poll, PollStart, PollSnapshot, PollEnd, PollLane, PollLock, PollLookup, PollCreate,
         PollCreateFails, RestOfPoll, brakeVars, bootVars
<1>6. CASE Client
  BY <1>1, <1>6
     DEF Client, UpNext, Submit, Rerun, Remove, Delete, PauseTask, Prune, CancelInStore,
         CancelInRegistry, RestOfClient, brakeVars, bootVars
<1>7. ASSUME NEW e \in Exec, Run(e)
      PROVE  HandlerInv'
  BY <1>1, <1>7
     DEF Run, RunRegister, RunAdmit, RunBrakeShell, RunBrakeFunc, RunStart, RunStartFails,
         RunMark, RunPersistPid, RunLeaveQueued, RunToClaim, RunClaim, RunRefuse, RunBody,
         RunExit, RunDecide, RunFinish, RunMeter, RunRelease, RestOfRun, brakeVars, bootVars
<1>8. ASSUME NEW t \in Task, ExpireLock(t)
      PROVE  HandlerInv'
  BY <1>1, <1>8 DEF ExpireLock, RestOfRun, brakeVars, bootVars
<1> QED
  BY <1>2, <1>3, <1>4, <1>5, <1>6, <1>7, <1>8 DEF Next

\* Every listed execution that still runs when its turn comes is canceled by
\* the sweep, unless it is a command that outlived an earlier process.
THEOREM SweepReachesAll == Spec => SweepMissesNothing
<1>1. Init => HandlerInv
  BY DEF Init, HandlerInv
<1>2. ASSUME IInv, JobInv, LifeInv, HandlerInv, NEW e \in Exec, BrakeCancel(e),
             status[e] = "running", Survivors => stops = 0
      PROVE  e \in wasCanceled'
  <2>1. mode = "up" /\ NoSurvivors /\ mode \in Awake
    BY <1>2 DEF BrakeCancel, HandlerInv, NoSurvivors, FirstLife, Awake
  <2>2. execTask[e] \in Task
    BY <1>2 DEF IInv, DataInv, RowsInv, TypeOK, StoreType
  <2>3. CASE IsFunc(e)
    BY <1>2, <2>1, <2>3 DEF JobInv, RowInv, Working, Registered, BrakeCancel, RegistryCancel
  <2>4. CASE IsShell(e)
    BY <1>2, <2>1, <2>4
       DEF LifeInv, TendedInv, TendedRow, Registered, BrakeCancel, RegistryCancel
  <2> QED
    BY <2>2, <2>3, <2>4 DEF IsFunc, IsShell, Task
<1>3. IInv /\ JobInv /\ LifeInv /\ HandlerInv /\ [Next]_vars
          => [\A e \in Exec :
                 BrakeCancel(e) /\ status[e] = "running" /\ (Survivors => stops = 0)
                     => e \in wasCanceled']_vars
  BY <1>2
<1> QED
  BY <1>1, <1>3, HandlerStep, BooksInvariant, PTL DEF Spec, SweepMissesNothing

------------------------------------------------------------------------------
(* The queue: jobs of a lane start in the order they were submitted, as     *)
(* long as nobody puts one back                                             *)

Queued(t) == PendingOf(t) # {}

\* A job has one queued row at most, and none while another row of it has a
\* runner.
OneQueuedRow ==
    \A e, f \in Exec :
        /\ e # f /\ IsFunc(e) /\ execTask[f] = execTask[e] /\ status[f] = "pending"
        => status[e] # "pending" /\ ~Live(e)

\* A runner that gives its lock back has not left its job queued, unless the
\* process closes.
LeavesNothing ==
    \A e \in Exec :
        mode = "up" /\ IsFunc(e) /\ runner[e] \in {"finished", "metered"} => status[e] # "pending"

\* What poll has in hand: nothing between polls; nothing queued for the job it
\* makes a row for; and positions that are still those of the snapshot.
HandInv ==
    /\ pollPc \in {"idle", "begun"} => snap = {} /\ toRun = {}
    /\ pollPc = "creating" /\ pollTask \in Func => ~Queued(pollTask)
    /\ toRun \subseteq snap
    /\ \A t \in snap \cap Func : snapPos[t] = position[t]
    /\ \A t \in Func : position[t] < nextExec
    /\ paused \cap Func = {}

\* An older queued job that may be launched is still before t.
Passed(u, t) ==
    /\ u \in exists /\ LaneOf[u] = LaneOf[t] /\ position[u] < position[t] /\ Queued(u)
    /\ lock[u] = "free"

\* No job that poll has in hand, or may yet come to, has passed an older one.
NonePassed ==
    mode = "up" =>
        \A t, u \in Func : Passed(u, t) =>
            /\ t \in toRun => u \in toRun
            /\ t # pollTask
            /\ t \in snap /\ LaneOf[t] \in lanesLeft => u \in snap

QueueInv == OneQueuedRow /\ LeavesNothing /\ HandInv /\ NonePassed

\* The part of the types and invariants that the arguments about the queue use.
LEMMA QueueBasics ==
    ASSUME IInv
    PROVE  /\ NoTask \notin Task /\ Func \subseteq Task /\ Shell \cap Func = {}
           /\ exists \subseteq Task /\ pollTask \in Task \cup {NoTask}
           /\ lock \in [Task -> {"free", "held", "expired"}]
           /\ execTask \in [Exec -> Task \cup {NoTask}]
           /\ runner \in [Exec -> RunnerPcs] /\ status \in [Exec -> Status]
           /\ position \in [Task -> Nat]
           /\ nextExec \in Nat /\ Exec \subseteq Nat
           /\ snap \subseteq Task /\ toRun \subseteq Task
           /\ \A e \in Exec : e >= nextExec =>
                 execTask[e] = NoTask /\ status[e] = "none" /\ runner[e] = "idle"
<1>1. /\ status \in [Exec -> Status] /\ position \in [Task -> Nat]
      /\ snap \subseteq Task /\ toRun \subseteq Task
  BY DEF IInv, DataInv, TypeOK, StoreType, PollType
<1>2. \A e \in Exec : e >= nextExec => execTask[e] = NoTask
  BY DEF IInv, DataInv, RowsInv
<1> QED
  BY <1>1, <1>2, JobBasics, Basics DEF IInv

\* The queued rows of a job.
LEMMA QueuedIs ==
    \A t : Queued(t) <=> \E e \in Exec : execTask[e] = t /\ status[e] = "pending"
BY DEF Queued, PendingOf, RowsOf

\* A step that queues, launches and moves nothing, and frees no lock of a job
\* that stays queued, keeps the invariant.
LEMMA QueueRests ==
    ASSUME IInv, QueueInv,
           exists' \subseteq exists, UNCHANGED <<execTask, position, nextExec>>,
           \A e \in Exec : status'[e] = "pending" => status[e] = "pending",
           \A e \in Exec : Live(e)' => Live(e),
           \A u \in Func : u \in exists' /\ Queued(u)' /\ lock'[u] = "free" /\ mode' = "up"
                               => lock[u] = "free",
           mode' = "up" => mode = "up",
           paused' \cap Func = {}, LeavesNothing',
           UNCHANGED <<snap, snapPos, lanesLeft, toRun>>,
           pollTask' \in {pollTask, NoTask},
           pollPc' \in {"idle", "begun"} => pollPc \in {"idle", "begun"},
           pollPc' = "creating" => pollPc = "creating" /\ pollTask' = pollTask
    PROVE  QueueInv'
<1>1. \A t : Queued(t)' => Queued(t)
  BY DEF Queued, PendingOf, RowsOf
<1>2. OneQueuedRow'
  BY DEF QueueInv, OneQueuedRow, IsFunc
<1>3. HandInv'
  BY <1>1 DEF QueueInv, HandInv
<1>4. NonePassed'
  <2> SUFFICES ASSUME mode' = "up", NEW t \in Func, NEW u \in Func, Passed(u, t)'
               PROVE  /\ t \in toRun => u \in toRun
                      /\ t # pollTask'
                      /\ t \in snap /\ LaneOf[t] \in lanesLeft => u \in snap
    BY DEF NonePassed
  <2>1. Passed(u, t)
    BY <1>1 DEF Passed
  <2> QED
    BY <2>1, QueueBasics DEF QueueInv, NonePassed
<1> QED
  BY <1>2, <1>3, <1>4 DEF QueueInv

\* A runner finishes its row before it gives the lock back.
LEMMA RunQueues ==
    ASSUME NEW e \in Exec, IInv, QueueInv, Run(e)
    PROVE  QueueInv'
<1> USE DEF At, Goto, RestOfRun, storeVars, pollVars, bootVars
<1> DEFINE Good == /\ UNCHANGED <<exists, execTask, position, nextExec, paused, mode, pollVars>>
                   /\ \A f \in Exec : f # e => status'[f] = status[f] /\ runner'[f] = runner[f]
                   /\ status'[e] = "pending" => status[e] = "pending"
                   /\ Live(e)
                   /\ runner'[e] \in {"finished", "metered"} /\ IsFunc(e) /\ mode = "up"
                         => status'[e] # "pending"
<1>0. /\ status \in [Exec -> Status] /\ runner \in [Exec -> RunnerPcs]
      /\ (runner[e] = "ended" => outcome[e] # "pending")
      /\ (IsFunc(e) => ~IsShell(e))
      /\ (runner[e] = "finished" /\ IsFunc(e) /\ mode = "up" => status[e] # "pending")
  BY QueueBasics DEF IInv, DataInv, VerdictInv, Terminal, IsFunc, IsShell, QueueInv, LeavesNothing
<1>1. ASSUME RunRegister(e)
      PROVE  Good
  BY <1>0, <1>1 DEF RunRegister, Live
<1>2. ASSUME RunAdmit(e)
      PROVE  Good
  BY <1>0, <1>2 DEF RunAdmit, Live
<1>3. ASSUME RunBrakeShell(e)
      PROVE  Good
  BY <1>0, <1>3 DEF RunBrakeShell, FinishExecution, Live
<1>4. ASSUME RunBrakeFunc(e)
      PROVE  Good
  BY <1>0, <1>4 DEF RunBrakeFunc, CancelPendingFuncExecution, CancelsRow, IsFunc, Live
<1>5. ASSUME RunStart(e)
      PROVE  Good
  BY <1>0, <1>5 DEF RunStart, Live
<1>6. ASSUME RunStartFails(e)
      PROVE  Good
  BY <1>0, <1>6 DEF RunStartFails, Live
<1>7. ASSUME RunMark(e)
      PROVE  Good
  BY <1>0, <1>7 DEF RunMark, StartExecution, Live
<1>8. ASSUME RunPersistPid(e)
      PROVE  Good
  BY <1>0, <1>8 DEF RunPersistPid, SetExecutionPID, Live
<1>9. ASSUME RunLeaveQueued(e)
      PROVE  Good
  BY <1>0, <1>9 DEF RunLeaveQueued, ContextDone, Live
<1>10. ASSUME RunToClaim(e)
      PROVE  Good
  BY <1>0, <1>10 DEF RunToClaim, Live
<1>11. ASSUME RunClaim(e)
      PROVE  Good
  BY <1>0, <1>11 DEF RunClaim, ClaimFuncExecution, Live
<1>12. ASSUME RunRefuse(e)
      PROVE  Good
  BY <1>0, <1>12 DEF RunRefuse, Live
<1>13. ASSUME RunBody(e)
      PROVE  Good
  BY <1>0, <1>13 DEF RunBody, Live
<1>14. ASSUME RunExit(e)
      PROVE  Good
  BY <1>0, <1>14 DEF RunExit, Live
<1>15. ASSUME RunDecide(e)
      PROVE  Good
  BY <1>0, <1>15 DEF RunDecide, Live
<1>16. ASSUME RunFinish(e)
      PROVE  Good
  BY <1>0, <1>16 DEF RunFinish, FinishExecution, Live
<1>17. ASSUME RunMeter(e)
      PROVE  Good
  BY <1>0, <1>17 DEF RunMeter, RecordMetric, Live
<1>18. ASSUME RunRelease(e)
      PROVE  Good
  BY <1>0, <1>18 DEF RunRelease, ReleaseLock, SetLock, Live
<1>19. Good
  BY <1>1, <1>2, <1>3, <1>4, <1>5, <1>6, <1>7, <1>8, <1>9, <1>10, <1>11, <1>12, <1>13,
     <1>14, <1>15, <1>16, <1>17, <1>18 DEF Run
<1>20. \A u \in Func : u \in exists' /\ Queued(u)' /\ lock'[u] = "free" /\ mode' = "up" => lock[u] = "free"
  <2>1. CASE ~RunRelease(e)
    BY <2>1, RunIsQuiet DEF IInv, Quiet
  <2>2. CASE RunRelease(e)
    <3>1. lock' = [lock EXCEPT ![execTask[e]] = "free"] /\ runner[e] = "metered"
          /\ UNCHANGED <<status, execTask, mode>>
      BY <2>2 DEF RunRelease, ReleaseLock, SetLock
    <3>2. ASSUME NEW u \in Func, Queued(u), mode = "up"
          PROVE  u # execTask[e]
      <4>1. PICK f \in Exec : execTask[f] = u /\ status[f] = "pending"
        BY <3>2, QueuedIs
      <4> QED
        BY <3>1, <3>2, <4>1 DEF QueueInv, LeavesNothing, OneQueuedRow, IsFunc, Live
    <3>3. \A u : Queued(u)' => Queued(u)
      BY <3>1 DEF Queued, PendingOf, RowsOf
    <3> QED
      BY <3>1, <3>2, <3>3, QueueBasics
  <2> QED
    BY <2>1, <2>2
<1>21. LeavesNothing'
  BY <1>19 DEF QueueInv, LeavesNothing, IsFunc
<1>22. paused' \cap Func = {}
  BY <1>19 DEF QueueInv, HandInv
<1>23. \A f \in Exec : (Live(f)' => Live(f)) /\ (status'[f] = "pending" => status[f] = "pending")
  BY <1>19 DEF Live
<1> QED
  BY <1>19, <1>20, <1>21, <1>22, <1>23, QueueRests

\* A queued row for another task, or for a job nobody has in hand, changes
\* nothing for the jobs that wait.
LEMMA InsertOrders ==
    ASSUME IInv, QueueInv, NEW t \in Task, InsertPending(t), mode = "up",
           \/ t \in Shell /\ UNCHANGED <<exists, position>>
           \/ /\ t \in Func \ exists /\ exists' = exists \cup {t}
              /\ \A e \in Exec : execTask[e] # t
              /\ position' = [position EXCEPT ![t] = nextExec],
           UNCHANGED <<lock, paused, runner, pollVars, mode>>
    PROVE  QueueInv'
<1> USE DEF pollVars, Live
<1>1. /\ nextExec \in Exec /\ nextExec' = nextExec + 1
      /\ execTask'[nextExec] = t
      /\ \A e \in Exec : e # nextExec => execTask'[e] = execTask[e] /\ status'[e] = status[e]
      /\ status[nextExec] = "none" /\ runner[nextExec] = "idle"
  <2>1. /\ nextExec \in Exec /\ nextExec' = nextExec + 1 /\ execTask'[nextExec] = t
        /\ \A e \in Exec : e # nextExec => execTask'[e] = execTask[e]
    BY InsertAppends DEF IInv
  <2>2. \A e \in Exec : e # nextExec => status'[e] = status[e]
    BY QueueBasics DEF InsertPending
  <2>3. status[nextExec] = "none" /\ runner[nextExec] = "idle"
    BY <2>1, QueueBasics
  <2> QED
    BY <2>1, <2>2, <2>3
<1>2. t \in Func => t \notin snap \cup toRun \cup {pollTask}
  BY QueueBasics DEF IInv, LockInv, SubmittedInv
<1>3. \A u \in Func : u # t /\ Queued(u)' => Queued(u)
  BY <1>1, QueuedIs, QueueBasics DEF Queued, PendingOf, RowsOf
<1>4. \A u \in Func : /\ u # t => position'[u] = position[u]
                      /\ u = t => position'[u] = nextExec
  BY QueueBasics
<1>5. OneQueuedRow'
  <2> SUFFICES ASSUME NEW e \in Exec, NEW f \in Exec, e # f, IsFunc(e)',
                      execTask'[f] = execTask'[e], status'[f] = "pending"
               PROVE  status'[e] # "pending" /\ ~Live(e)
    BY DEF OneQueuedRow
  <2>1. e # nextExec /\ f # nextExec
    BY <1>1, QueueBasics DEF IsFunc
  <2> QED
    BY <1>1, <2>1 DEF QueueInv, OneQueuedRow, IsFunc
<1>6. LeavesNothing'
  BY <1>1 DEF QueueInv, LeavesNothing, IsFunc
<1>7. HandInv'
  <2>1. pollPc = "creating" /\ pollTask \in Func => ~Queued(pollTask)'
    BY <1>2, <1>3 DEF QueueInv, HandInv
  <2>2. \A u \in snap \cap Func : snapPos[u] = position'[u]
    BY <1>2, <1>4 DEF QueueInv, HandInv
  <2>3. \A u \in Func : position'[u] < nextExec + 1
    BY <1>4, QueueBasics DEF QueueInv, HandInv
  <2> QED
    BY <1>1, <2>1, <2>2, <2>3 DEF QueueInv, HandInv
<1>8. NonePassed'
  <2> SUFFICES ASSUME NEW v \in Func, NEW u \in Func, Passed(u, v)'
               PROVE  /\ v \in toRun => u \in toRun
                      /\ v # pollTask
                      /\ v \in snap /\ LaneOf[v] \in lanesLeft => u \in snap
    BY DEF NonePassed
  <2>1. CASE v = t
    BY <1>2, <2>1
  <2>2. CASE v # t
    <3>1. u # t
      BY <1>4, <2>2, QueueBasics DEF Passed, QueueInv, HandInv
    <3>2. Passed(u, v)
      BY <1>3, <1>4, <2>2, <3>1 DEF Passed
    <3> QED
      BY <3>2 DEF QueueInv, NonePassed
  <2> QED
    BY <2>1, <2>2
<1> QED
  BY <1>5, <1>6, <1>7, <1>8 DEF QueueInv

\* Jobs that go leave the others where they were.
LEMMA RemovalQueues ==
    ASSUME IInv, QueueInv, NEW T, exists' = exists \ T, status' = WithoutRows(T),
           paused' = paused \ T, \A u \in exists' : lock'[u] = lock[u],
           UNCHANGED <<execTask, position, nextExec, runner, pollVars, mode>>
    PROVE  QueueInv'
<1>1. \A e \in Exec : status'[e] = "pending" => status[e] = "pending"
  BY DEF WithoutRows
<1>2. LeavesNothing'
  BY <1>1 DEF QueueInv, LeavesNothing, IsFunc
<1>3. paused' \cap Func = {}
  BY DEF QueueInv, HandInv
<1> QED
  BY <1>1, <1>2, <1>3, QueueRests DEF pollVars, Live

\* No request but a rerun changes the order of a lane.
LEMMA ClientQueues ==
    ASSUME IInv, QueueInv, Client, "rerun" \notin Ops
    PROVE  QueueInv'
<1> USE DEF RestOfClient, runVars, bootVars
<1>1. ASSUME NEW t \in Task, UpNext(t)
      PROVE  QueueInv'
  BY <1>1, InsertOrders DEF UpNext, Serving, EnqueueTask
<1>2. ASSUME NEW t \in Task, Submit(t)
      PROVE  QueueInv'
  BY <1>2, InsertOrders DEF Submit, Serving, SubmitFuncTask
<1>3. ASSUME NEW T \in SUBSET Task, DeleteTaskRows(T), UNCHANGED RestOfClient
      PROVE  QueueInv'
  <2>1. \A u \in exists' : lock'[u] = lock[u]
    BY <1>3, QueueBasics DEF DeleteTaskRows
  <2> QED
    BY <1>3, <2>1, RemovalQueues DEF DeleteTaskRows
<1>4. ASSUME NEW t \in Task, Remove(t)
      PROVE  QueueInv'
  BY <1>3, <1>4 DEF Remove, RemoveIdleTask
<1>5. ASSUME NEW t \in Task, Delete(t)
      PROVE  QueueInv'
  BY <1>5, RemovalQueues DEF Delete, DeleteTask
<1>6. ASSUME NEW l \in Lane, Prune(l)
      PROVE  QueueInv'
  <2>1. PICK old \in SUBSET Func : DeleteTaskRows(old)
    BY <1>6 DEF Prune, PruneOwnedLane
  <2> QED
    BY <1>3, <1>6, <2>1, QueueBasics DEF Prune
<1>7. ASSUME NEW t \in Task, NEW p \in BOOLEAN, PauseTask(t, p)
      PROVE  QueueInv'
  <2>1. paused' \cap Func = {}
    BY <1>7, QueueBasics DEF PauseTask, SetTaskPaused, QueueInv, HandInv
  <2>2. UNCHANGED <<exists, execTask, position, nextExec, status, runner, lock, mode, pollVars>>
    BY <1>7 DEF PauseTask, SetTaskPaused
  <2>3. LeavesNothing'
    BY <2>2 DEF QueueInv, LeavesNothing, IsFunc
  <2> QED
    BY <2>1, <2>2, <2>3, QueueRests DEF pollVars, Live
<1>8. ASSUME NEW e \in Exec, CancelInStore(e)
      PROVE  QueueInv'
  <2>1. UNCHANGED <<exists, paused, execTask, position, nextExec, runner, lock, mode, pollVars>>
    BY <1>8 DEF CancelInStore, CancelPendingFuncExecution
  <2>2. \A f \in Exec : status'[f] = "pending" => status[f] = "pending"
    BY <1>8, QueueBasics DEF CancelInStore, CancelPendingFuncExecution
  <2>3. LeavesNothing' /\ paused' \cap Func = {}
    BY <2>1, <2>2 DEF QueueInv, LeavesNothing, HandInv, IsFunc
  <2> QED
    BY <2>1, <2>2, <2>3, QueueRests DEF pollVars, Live
<1>9. ASSUME NEW e \in Exec, CancelInRegistry(e)
      PROVE  QueueInv'
  <2>1. UNCHANGED <<storeVars, runner, mode, pollVars>>
    BY <1>9 DEF CancelInRegistry
  <2>2. LeavesNothing' /\ paused' \cap Func = {}
    BY <2>1 DEF storeVars, QueueInv, LeavesNothing, HandInv, IsFunc
  <2> QED
    BY <2>1, <2>2, QueueRests DEF storeVars, pollVars, Live
<1> QED
  BY <1>1, <1>2, <1>4, <1>5, <1>6, <1>7, <1>8, <1>9 DEF Client, Rerun, Serving

\* A position has finitely many before it in the snapshot: its jobs have rows.
LEMMA SnapshotFinite ==
    ASSUME IInv, IsFiniteSet(Shell)
    PROVE  IsFiniteSet(snap)
<1> DEFINE Named == {execTask[e] : e \in Exec}
<1>1. IsFiniteSet(Exec)
  BY StoreAssumption, FS_Interval DEF StoreAssumption, Exec
<1>2. IsFiniteSet(Named)
  <2>1. [e \in Exec |-> execTask[e]] \in Surjection(Exec, Named)
    BY DEF Surjection
  <2> HIDE DEF Named
  <2> QED
    BY <1>1, <2>1, FS_Surjection
<1>3. snap \subseteq Shell \cup Named
  BY QueueBasics DEF IInv, LockInv, SubmittedInv, Task
<1> HIDE DEF Named
<1>4. IsFiniteSet(Shell \cup Named)
  BY <1>2, FS_Union
<1> QED
  BY <1>3, <1>4, FS_Subset

\* Of two tasks, the first ones of a list hold the earlier one if they hold
\* the later one.
LEMMA FirstAreFirst ==
    ASSUME NEW S, IsFiniteSet(S), S \subseteq Task, snapPos \in [Task -> Nat],
           NEW n \in Int, NEW t \in FirstOf(n, S), NEW u \in S, snapPos[u] < snapPos[t]
    PROVE  u \in FirstOf(n, S)
<1> DEFINE Before(v) == {w \in S : snapPos[w] < snapPos[v]}
<1>1. Before(u) \subseteq Before(t) /\ Before(t) \subseteq S
  BY DEF FirstOf
<1>2. Cardinality(Before(t)) < n
  BY DEF FirstOf
<1> HIDE DEF Before
<1>3. IsFiniteSet(Before(t)) /\ IsFiniteSet(Before(u))
  BY <1>1, FS_Subset
<1>4. Cardinality(Before(u)) <= Cardinality(Before(t))
  BY <1>1, <1>3, FS_Subset
<1>5. Cardinality(Before(u)) < n
  BY <1>2, <1>3, <1>4, FS_CardinalityType
<1> QED
  BY <1>5 DEF FirstOf, Before

\* Poll takes the jobs of a lane in the order of its snapshot, and passes one
\* only when the lock is taken.
LEMMA PollQueues ==
    ASSUME IInv, QueueInv, IsFiniteSet(Shell), Poll
    PROVE  QueueInv'
<1> USE DEF RestOfPoll, runVars, bootVars
<1>0. pollPc \notin {"locked", "creating"} => pollTask = NoTask
  BY DEF IInv, LockInv, PlaceInv
<1>1. CASE PollStart
  <2>1. /\ UNCHANGED <<exists, execTask, position, nextExec, paused, status, runner, mode>>
        /\ UNCHANGED <<pollTask, snap, snapPos, toRun>>
        /\ pollPc = "idle" /\ pollPc' \in {"idle", "begun"}
    BY <1>1 DEF PollStart, CleanupExpiredLocks
  <2>2. OneQueuedRow' /\ LeavesNothing'
    BY <2>1 DEF QueueInv, OneQueuedRow, LeavesNothing, IsFunc, Live
  <2>3. HandInv'
    BY <2>1 DEF QueueInv, HandInv
  <2>4. NonePassed'
    BY <1>0, <2>1, QueueBasics DEF QueueInv, HandInv, NonePassed
  <2> QED
    BY <2>2, <2>3, <2>4 DEF QueueInv
<1>2. CASE PollSnapshot
  <2>1. /\ UNCHANGED <<exists, execTask, position, nextExec, paused, status, runner, mode, lock>>
        /\ UNCHANGED <<pollTask, toRun>>
        /\ pollPc = "begun" /\ pollPc' = "lanes" /\ toRun = {}
        /\ \A t \in Task : t \in snap' => snapPos'[t] = position[t]
    BY <1>2 DEF PollSnapshot, storeVars, QueueInv, HandInv
  <2>2. OneQueuedRow' /\ LeavesNothing'
    BY <2>1 DEF QueueInv, OneQueuedRow, LeavesNothing, IsFunc, Live
  <2>3. HandInv'
    BY <2>1, QueueBasics DEF QueueInv, HandInv
  <2>4. ASSUME NEW t \in Func, NEW u \in Func, Passed(u, t), t \in snap'
        PROVE  u \in snap'
    <3>1. PICK rested \in SUBSET Repeats : snap' = EligibleTasks(rested)
      BY <1>2 DEF PollSnapshot
    <3>2. u \in exists \ paused /\ lock[u] = "free" /\ PendingOf(u) # {}
      BY <2>4 DEF Passed, Queued, QueueInv, HandInv
    <3> QED
      BY <2>4, <3>1, <3>2 DEF EligibleTasks, Passed
  <2>5. \A t, u \in Func : Passed(u, t)' => Passed(u, t)
    BY <2>1 DEF Passed, Queued, PendingOf, RowsOf
  <2>6. NonePassed'
    BY <1>0, <2>1, <2>4, <2>5, QueueBasics DEF NonePassed
  <2> QED
    BY <2>2, <2>3, <2>6 DEF QueueInv
<1>3. CASE PollEnd
  <2>1. /\ UNCHANGED <<exists, execTask, position, nextExec, paused, status, runner, mode, lock>>
        /\ UNCHANGED <<pollTask, toRun>>
        /\ pollPc = "lanes" /\ pollPc' = "idle" /\ toRun = {} /\ snap' = {}
    BY <1>3 DEF PollEnd, storeVars
  <2>2. OneQueuedRow' /\ LeavesNothing'
    BY <2>1 DEF QueueInv, OneQueuedRow, LeavesNothing, IsFunc, Live
  <2>3. HandInv'
    BY <2>1 DEF QueueInv, HandInv
  <2>4. NonePassed'
    BY <1>0, <2>1, QueueBasics DEF NonePassed
  <2> QED
    BY <2>2, <2>3, <2>4 DEF QueueInv
<1>4. ASSUME NEW l \in Lane, PollLane(l)
      PROVE  QueueInv'
  <2>1. /\ UNCHANGED <<exists, execTask, position, nextExec, paused, status, runner, mode, lock>>
        /\ UNCHANGED <<pollPc, pollTask, snap, snapPos>>
        /\ pollPc = "lanes" /\ l \in lanesLeft /\ lanesLeft' = lanesLeft \ {l}
    BY <1>4 DEF PollLane, storeVars
  <2>2. OneQueuedRow' /\ LeavesNothing'
    BY <2>1 DEF QueueInv, OneQueuedRow, LeavesNothing, IsFunc, Live
  <2> DEFINE S == {t \in snap : LaneOf[t] = l}
             n == Width[l] - Cardinality(RunningInLane(l))
  <2>3. toRun' \subseteq S /\ (toRun' = {} \/ toRun' = FirstOf(n, S))
    BY <1>4 DEF PollLane, FirstOf
  <2>4. HandInv'
    BY <2>1, <2>3 DEF QueueInv, HandInv
  <2>5. n \in Int /\ IsFiniteSet(S)
    <3>1. IsFiniteSet(S)
      BY SnapshotFinite, FS_Subset
    <3>2. IsFiniteSet(RunningInLane(l))
      <4>1. IsFiniteSet(Exec)
        BY StoreAssumption, FS_Interval DEF StoreAssumption, Exec
      <4>2. RunningInLane(l) \subseteq Exec
        BY DEF RunningInLane, RunningExecutions
      <4> QED
        BY <4>1, <4>2, FS_Subset
    <3> QED
      BY <3>1, <3>2, FS_CardinalityType, EngineAssumption DEF EngineAssumption
  <2>6. ASSUME NEW t \in Func, NEW u \in Func, Passed(u, t), t \in toRun', mode = "up"
        PROVE  u \in toRun'
    <3>1. t \in S /\ u \in S
      BY <2>1, <2>3, <2>6 DEF QueueInv, NonePassed, Passed
    <3>2. snapPos[u] < snapPos[t]
      BY <2>6, <3>1 DEF QueueInv, HandInv, Passed
    <3>3. S \subseteq Task /\ snapPos \in [Task -> Nat]
      BY DEF IInv, DataInv, TypeOK, PollType
    <3> HIDE DEF S, n
    <3> QED
      BY <2>3, <2>5, <2>6, <3>1, <3>2, <3>3, FirstAreFirst
  <2>7. \A t, u \in Func : Passed(u, t)' => Passed(u, t)
    BY <2>1 DEF Passed, Queued, PendingOf, RowsOf
  <2>8. NonePassed'
    BY <2>1, <2>6, <2>7 DEF QueueInv, NonePassed
  <2> QED
    BY <2>2, <2>4, <2>8 DEF QueueInv
<1>5. ASSUME NEW t \in Task, PollLock(t)
      PROVE  QueueInv'
  <2>1. /\ UNCHANGED <<exists, execTask, position, nextExec, paused, status, runner, mode>>
        /\ UNCHANGED <<snap, snapPos, lanesLeft>>
        /\ pollPc = "lanes" /\ pollPc' \in {"lanes", "locked"} /\ toRun' = toRun \ {t}
        /\ t \in toRun /\ \A u \in toRun : snapPos[t] <= snapPos[u]
        /\ pollTask' = pollTask \/ pollTask' = t
    BY <1>5 DEF PollLock, storeVars, AcquireLock, SetLock
  <2>2. OneQueuedRow' /\ LeavesNothing'
    BY <2>1 DEF QueueInv, OneQueuedRow, LeavesNothing, IsFunc, Live
  <2>3. HandInv'
    BY <2>1 DEF QueueInv, HandInv
  <2>4. /\ lock'[t] # "free"
        /\ \A u \in Task : u # t => lock'[u] = lock[u]
    BY <1>5, QueueBasics DEF PollLock, storeVars, AcquireLock, LockIsFree, SetLock
  <2>5. ASSUME NEW v \in Func, NEW u \in Func, Passed(u, v)'
        PROVE  Passed(u, v) /\ u # t
    BY <2>1, <2>4, <2>5, QueueBasics DEF Passed, Queued, PendingOf, RowsOf
  <2>6. ASSUME NEW u \in Func, Passed(u, t), t \in Func, mode = "up"
        PROVE  FALSE
    <3>1. u \in toRun /\ u \in snap /\ t \in snap
      BY <2>1, <2>6 DEF QueueInv, NonePassed, HandInv
    <3>2. snapPos[u] = position[u] /\ snapPos[t] = position[t] /\ snapPos[t] <= snapPos[u]
      BY <2>1, <2>6, <3>1 DEF QueueInv, HandInv
    <3>3. position[u] < position[t] /\ position[u] \in Nat /\ position[t] \in Nat
      BY <2>6, QueueBasics DEF Passed
    <3> QED
      BY <3>2, <3>3
  <2>7. NonePassed'
    <3> SUFFICES ASSUME mode = "up", NEW v \in Func, NEW u \in Func, Passed(u, v)'
                 PROVE  /\ v \in toRun' => u \in toRun'
                        /\ v # pollTask'
                        /\ v \in snap /\ LaneOf[v] \in lanesLeft => u \in snap
      BY <2>1 DEF NonePassed
    <3>1. Passed(u, v) /\ u # t /\ v # t
      BY <2>5, <2>6
    <3> QED
      BY <2>1, <3>1 DEF QueueInv, NonePassed
  <2> QED
    BY <2>2, <2>3, <2>7 DEF QueueInv
<1>6. ASSUME NEW t \in Task, PollLookup(t)
      PROVE  QueueInv'
  <2>1. /\ UNCHANGED <<exists, execTask, position, nextExec, paused, status, mode, lock>>
        /\ UNCHANGED <<snap, snapPos, lanesLeft, toRun>>
        /\ pollPc = "locked" /\ pollTask = t
    BY <1>6 DEF PollLookup, storeVars
  <2>2. \A u, v : Passed(u, v)' => Passed(u, v)
    BY <2>1 DEF Passed, Queued, PendingOf, RowsOf
  <2>3. ASSUME NEW e \in Exec, IsOldest(e, PendingOf(t)), Spawn(e)
        PROVE  QueueInv'
    <3>1. /\ execTask[e] = t /\ status[e] = "pending"
          /\ runner'[e] = "spawned" /\ \A f \in Exec : f # e => runner'[f] = runner[f]
          /\ pollPc' = "lanes" /\ pollTask' = NoTask
      BY <2>3, QueueBasics DEF IsOldest, PendingOf, RowsOf, Spawn
    <3>2. OneQueuedRow'
      <4> SUFFICES ASSUME NEW d \in Exec, NEW f \in Exec, d # f, IsFunc(d),
                          execTask[f] = execTask[d], status[f] = "pending"
                   PROVE  status[d] # "pending" /\ ~Live(d)'
        BY <2>1 DEF OneQueuedRow, IsFunc
      <4>1. status[d] # "pending" /\ ~Live(d)
        BY DEF QueueInv, OneQueuedRow
      <4> QED
        BY <3>1, <4>1 DEF Live
    <3>3. LeavesNothing'
      BY <2>1, <3>1 DEF QueueInv, LeavesNothing, IsFunc
    <3>4. HandInv'
      BY <2>1, <3>1 DEF QueueInv, HandInv
    <3>5. NonePassed'
      BY <2>1, <2>2, <3>1, QueueBasics DEF QueueInv, NonePassed
    <3> QED
      BY <3>2, <3>3, <3>4, <3>5 DEF QueueInv
  <2>4. ASSUME PendingOf(t) = {}, pollPc' = "creating", UNCHANGED <<pollTask, runner>>
        PROVE  QueueInv'
    <3>1. OneQueuedRow' /\ LeavesNothing'
      BY <2>1, <2>4 DEF QueueInv, OneQueuedRow, LeavesNothing, IsFunc, Live
    <3>2. HandInv'
      BY <2>1, <2>4 DEF QueueInv, HandInv, Queued, PendingOf, RowsOf
    <3>3. NonePassed'
      BY <2>1, <2>2, <2>4 DEF QueueInv, NonePassed
    <3> QED
      BY <3>1, <3>2, <3>3 DEF QueueInv
  <2> QED
    BY <1>6, <2>3, <2>4 DEF PollLookup
<1>7. ASSUME NEW t \in Task, PollCreate(t)
      PROVE  QueueInv'
  <2>1. /\ UNCHANGED <<exists, position, paused, mode, lock>>
        /\ UNCHANGED <<snap, snapPos, lanesLeft, toRun>>
        /\ pollPc = "creating" /\ pollTask = t /\ t \in exists /\ InsertPending(t)
        /\ pollPc' = "lanes" /\ pollTask' = NoTask
        /\ runner' = [runner EXCEPT ![nextExec] = "spawned"]
    BY <1>7 DEF PollCreate, CreateExecution, EnqueueTask, Spawn
  <2>2. /\ nextExec \in Exec /\ nextExec' = nextExec + 1 /\ execTask'[nextExec] = t
        /\ \A e \in Exec : e # nextExec => execTask'[e] = execTask[e]
    BY <2>1, InsertAppends DEF IInv
  <2>3. /\ status'[nextExec] = "pending" /\ runner'[nextExec] = "spawned"
        /\ \A e \in Exec : e # nextExec => status'[e] = status[e] /\ runner'[e] = runner[e]
    BY <2>1, <2>2, QueueBasics DEF InsertPending
  <2>4. lock[t] = "held" /\ \A e \in Exec : Live(e) => execTask[e] # t
    BY <2>1 DEF IInv, LockInv, PollInv
  <2>5. t \in Func => \A e \in Exec : execTask[e] = t => status[e] # "pending"
    BY <2>1, QueuedIs DEF QueueInv, HandInv
  <2>6. OneQueuedRow'
    <3> SUFFICES ASSUME NEW e \in Exec, NEW f \in Exec, e # f, IsFunc(e)',
                        execTask'[f] = execTask'[e], status'[f] = "pending"
                 PROVE  status'[e] # "pending" /\ ~Live(e)'
      BY DEF OneQueuedRow
    <3>1. CASE e = nextExec
      BY <2>2, <2>3, <2>5, <3>1 DEF IsFunc
    <3>2. CASE f = nextExec
      BY <2>2, <2>3, <2>4, <2>5, <3>2 DEF IsFunc, Live
    <3>3. CASE e # nextExec /\ f # nextExec
      BY <2>2, <2>3, <3>3 DEF QueueInv, OneQueuedRow, IsFunc, Live
    <3> QED
      BY <3>1, <3>2, <3>3
  <2>7. LeavesNothing'
    BY <2>1, <2>2, <2>3 DEF QueueInv, LeavesNothing, IsFunc
  <2>8. HandInv'
    BY <2>1, <2>2, QueueBasics DEF QueueInv, HandInv
  <2>9. ASSUME NEW v \in Func, NEW u \in Func, Passed(u, v)'
        PROVE  Passed(u, v)
    <3>1. u # t
      BY <2>1, <2>4, <2>9 DEF Passed
    <3>2. Queued(u)
      BY <2>2, <2>3, <2>9, <3>1, QueuedIs DEF Passed, Queued, PendingOf, RowsOf
    <3> QED
      BY <2>1, <2>9, <3>2 DEF Passed
  <2>10. NonePassed'
    BY <2>1, <2>9, QueueBasics DEF QueueInv, NonePassed
  <2> QED
    BY <2>6, <2>7, <2>8, <2>10 DEF QueueInv
<1>8. ASSUME NEW t \in Task, PollCreateFails(t)
      PROVE  QueueInv'
  <2>1. /\ UNCHANGED <<exists, execTask, position, nextExec, paused, status, runner, mode>>
        /\ UNCHANGED <<snap, snapPos, lanesLeft, toRun>>
        /\ pollPc = "creating" /\ pollTask = t /\ pollTask' = NoTask /\ pollPc' = "lanes"
        /\ \A u \in Task : u # t => lock'[u] = lock[u]
    BY <1>8, QueueBasics DEF PollCreateFails, ReleaseLock, SetLock
  <2>2. t \in Func => ~Queued(t)'
    BY <2>1 DEF QueueInv, HandInv, Queued, PendingOf, RowsOf
  <2>3. LeavesNothing' /\ paused' \cap Func = {}
    BY <2>1 DEF QueueInv, LeavesNothing, HandInv, IsFunc
  <2> QED
    BY <2>1, <2>2, <2>3, QueueBasics, QueueRests DEF Live
<1> QED
  BY <1>1, <1>2, <1>3, <1>4, <1>5, <1>6, <1>7, <1>8 DEF Poll

\* A process that ends takes everything out of poll's hands, and one that
\* boots has nothing in them.
LEMMA ProcessQueues ==
    ASSUME IInv, QueueInv, Process
    PROVE  QueueInv'
<1> USE DEF RestOfBoot, runVars
<1>1. CASE Crash
  <2>1. /\ UNCHANGED storeVars /\ mode' = "down" /\ pollPc' = "idle" /\ snap' = {}
        /\ toRun' = {} /\ \A e \in Exec : ~Live(e)'
    BY <1>1 DEF Crash, Live
  <2> QED
    BY <2>1 DEF storeVars, QueueInv, OneQueuedRow, LeavesNothing, HandInv, NonePassed, IsFunc,
                Queued, PendingOf, RowsOf
<1>2. CASE Serve
  <2>1. /\ UNCHANGED <<storeVars, pollVars, runner>>
        /\ \A e \in Exec : runner[e] = "idle"
        /\ pollPc = "idle" /\ pollTask = NoTask
    BY <1>2 DEF Serve, IInv, LockInv, PlaceInv, Live
  <2>2. snap = {} /\ toRun = {}
    BY <2>1 DEF QueueInv, HandInv
  <2>3. OneQueuedRow' /\ LeavesNothing'
    BY <2>1 DEF storeVars, QueueInv, OneQueuedRow, LeavesNothing, IsFunc, Live
  <2>4. HandInv'
    BY <2>1 DEF storeVars, pollVars, QueueInv, HandInv, Queued, PendingOf, RowsOf
  <2>5. NonePassed'
    BY <2>1, <2>2, QueueBasics DEF pollVars, NonePassed
  <2> QED
    BY <2>3, <2>4, <2>5 DEF QueueInv
<1>3. ASSUME UNCHANGED <<exists, execTask, position, nextExec, paused, runner, pollVars>>,
             \A e \in Exec : status'[e] = "pending" => status[e] = "pending",
             UNCHANGED <<lock, mode>> \/ mode' # "up"
      PROVE  QueueInv'
  <2>1. LeavesNothing' /\ paused' \cap Func = {}
    BY <1>3 DEF QueueInv, LeavesNothing, HandInv, IsFunc
  <2> QED
    BY <1>3, <2>1, QueueRests DEF pollVars, Live
<1>4. CASE BeginClose \/ StopPolling \/ Closed \/ Boot
  BY <1>3, <1>4 DEF BeginClose, StopPolling, Closed, Boot, storeVars
<1>5. ASSUME NEW e \in Exec, OrphanSkip(e)
      PROVE  QueueInv'
  BY <1>3, <1>5 DEF OrphanSkip, storeVars
<1>6. ASSUME NEW e \in Exec, OrphanFinish(e)
      PROVE  QueueInv'
  <2>1. \A f \in Exec : status'[f] = "pending" => status[f] = "pending"
    BY <1>6, QueueBasics DEF OrphanFinish, FinishExecution
  <2> QED
    BY <1>3, <1>6, <2>1 DEF OrphanFinish, FinishExecution
<1>7. CASE OrphanMeter
  BY <1>3, <1>7 DEF OrphanMeter, RecordMetric
<1>8. CASE OrphanRelease
  <2>1. mode' # "up"
    BY <1>8 DEF OrphanRelease, IInv, LockInv, PlaceInv
  <2> QED
    BY <1>3, <1>8, <2>1 DEF OrphanRelease, ReleaseLock, SetLock
<1>9. ASSUME NEW e \in Exec, SurvivorExits(e)
      PROVE  QueueInv'
  BY <1>3, <1>9 DEF SurvivorExits, RestOfRun, storeVars, bootVars
<1> QED
  BY <1>1, <1>2, <1>4, <1>5, <1>6, <1>7, <1>8, <1>9 DEF Process, ReconcileOrphans

\* The engine starts with nothing queued.
LEMMA QueueInitial == Init => QueueInv
<1> SUFFICES ASSUME Init
             PROVE  QueueInv
  OBVIOUS
<1>1. /\ exists = Shell /\ paused = {} /\ nextExec = 1 /\ \A t \in Func : position[t] = 0
      /\ \A e \in Exec : status[e] = "none" /\ runner[e] = "idle"
      /\ snap = {} /\ toRun = {} /\ pollPc = "idle" /\ pollTask = NoTask
  BY StoreAssumption DEF StoreAssumption, Init, StoreInit, Task
<1>2. OneQueuedRow /\ LeavesNothing /\ HandInv
  BY <1>1 DEF OneQueuedRow, LeavesNothing, HandInv
<1>3. NonePassed
  BY <1>1, StoreAssumption DEF StoreAssumption, NonePassed, Passed
<1> QED
  BY <1>2, <1>3 DEF QueueInv

\* Every step but a rerun keeps the order.
LEMMA QueueStep ==
    ASSUME IInv, QueueInv, [Next]_vars, "rerun" \notin Ops, IsFiniteSet(Shell)
    PROVE  QueueInv'
<1>1. ASSUME UNCHANGED <<storeVars, runner, mode, pollVars>>
      PROVE  QueueInv'
  <2>1. LeavesNothing' /\ paused' \cap Func = {}
    BY <1>1 DEF storeVars, QueueInv, LeavesNothing, HandInv, IsFunc
  <2> QED
    BY <1>1, <2>1, QueueRests DEF storeVars, pollVars, Live
<1>2. CASE UNCHANGED vars
  BY <1>1, <1>2 DEF vars, runVars, bootVars
<1>3. CASE BrakeHandler
  BY <1>1, <1>3 DEF BrakeHandler, BrakeEngage, BrakeListRunning, BrakeEngageOn, BrakeReleaseOn,
                    BrakeCancel, RestOfBrake, bootVars
<1>4. ASSUME NEW t \in Task, ExpireLock(t)
      PROVE  QueueInv'
  <2>1. UNCHANGED <<exists, paused, execTask, position, nextExec, status, runner, mode, pollVars>>
    BY <1>4 DEF ExpireLock, LockExpires, SetLock, runVars, RestOfRun, bootVars
  <2>2. \A u \in Func : lock'[u] = "free" => lock[u] = "free"
    BY <1>4, QueueBasics DEF ExpireLock, LockExpires, SetLock
  <2>3. LeavesNothing' /\ paused' \cap Func = {}
    BY <2>1 DEF QueueInv, LeavesNothing, HandInv, IsFunc
  <2> QED
    BY <2>1, <2>2, <2>3, QueueRests DEF pollVars, Live
<1> QED
  BY <1>2, <1>3, <1>4, RunQueues, PollQueues, ClientQueues, ProcessQueues DEF Next

\* Where a runner is spawned, and on what: poll does it, and only for the
\* task whose lock it holds, on the row it found or the one it made.
LEMMA SpawnsOnlyPoll ==
    ASSUME IInv, [Next]_vars, NEW e \in Exec, runner[e] = "idle", runner'[e] = "spawned",
           IsFunc(e)
    PROVE  pollTask = execTask[e]
<1>1. CASE Poll
  <2>1. ASSUME NEW t \in Task, PollLookup(t)
        PROVE  pollTask = execTask[e]
    <3>1. pollTask = t /\ \E f \in Exec : f \in PendingOf(t) /\ Spawn(f)
      BY <2>1 DEF PollLookup, IsOldest, runVars
    <3> QED
      BY <3>1, QueueBasics DEF Spawn, PendingOf, RowsOf
  <2>2. ASSUME NEW t \in Task, PollCreate(t)
        PROVE  FALSE
    <3>1. e = nextExec
      BY <2>2, QueueBasics DEF PollCreate, Spawn
    <3> QED
      BY <3>1, QueueBasics DEF IsFunc
  <2> QED
    BY <1>1, <2>1, <2>2
       DEF Poll, PollStart, PollSnapshot, PollEnd, PollLane, PollLock, PollCreateFails, runVars
<1>2. CASE ~Poll
  <2>1. ASSUME Live(e)' => Live(e)
        PROVE  FALSE
    BY <2>1 DEF Live
  <2>2. ASSUME NEW f \in Exec, Run(f)
        PROVE  FALSE
    BY <2>1, <2>2, RunIsQuiet, QueueBasics DEF IInv, Quiet, RunRelease, Goto, Live
  <2>3. CASE Client
    BY <2>1, <2>3
       DEF Client, UpNext, Submit, Rerun, Remove, Delete, PauseTask, Prune, CancelInStore,
           CancelInRegistry, RestOfClient, runVars
  <2>4. CASE Process
    BY <2>4
       DEF Process, BeginClose, StopPolling, Closed, Crash, Boot, ReconcileOrphans, OrphanSkip,
           OrphanFinish, OrphanMeter, OrphanRelease, Serve, SurvivorExits, RestOfBoot, runVars
  <2>5. ASSUME NEW t \in Task, ExpireLock(t)
        PROVE  FALSE
    BY <2>5 DEF ExpireLock, runVars
  <2>6. CASE UNCHANGED vars
    BY <2>6 DEF vars, runVars
  <2> QED
    BY <1>2, <2>1, <2>2, <2>3, <2>4, <2>5, <2>6, BrakeIsQuiet DEF Next, Quiet
<1> QED
  BY <1>1, <1>2

\* Jobs start in the order they were submitted, whatever fails, stops, is
\* canceled or removed, and with the brake: only a rerun moves a job back.
\* Shell is the table of the user's commands, which is finite.
THEOREM JobsStartInOrder ==
    ASSUME "rerun" \notin Ops, IsFiniteSet(Shell)
    PROVE  Spec => QueueOrder
<1>1. Init => QueueInv
  BY QueueInitial
<1>2. IInv /\ QueueInv /\ [Next]_vars => QueueInv'
  BY QueueStep
<1>3. ASSUME IInv, QueueInv, [Next]_vars, NEW e \in Exec, NEW u \in Func,
             mode = "up", runner[e] = "idle", runner'[e] = "spawned", IsFunc(e),
             u \in exists, LaneOf[u] = LaneOf[execTask[e]],
             position[u] < position[execTask[e]], PendingOf(u) # {}
      PROVE  lock[u] # "free"
  <2>1. pollTask = execTask[e] /\ execTask[e] \in Func
    BY <1>3, SpawnsOnlyPoll DEF IsFunc
  <2> QED
    BY <1>3, <2>1 DEF QueueInv, NonePassed, Passed, Queued
<1>4. IInv /\ QueueInv /\ [Next]_vars
          => [\A e \in Exec, u \in Func :
                 mode = "up" /\ runner[e] = "idle" /\ runner'[e] = "spawned" /\ IsFunc(e)
                 /\ u \in exists /\ LaneOf[u] = LaneOf[execTask[e]]
                 /\ position[u] < position[execTask[e]]
                 /\ PendingOf(u) # {}
                    => lock[u] # "free"]_vars
  BY <1>3
<1> QED
  BY <1>1, <1>2, <1>4, Invariant, PTL DEF Spec, QueueOrder
==============================================================================
