----------------------------- MODULE TaskEngine ------------------------------
(***************************************************************************)
(* The task engine of internal/taskmaster: the worker's poll loop, one     *)
(* goroutine per launched execution (runTask and runFunc), the shared      *)
(* cancel protocol, the hand brake's sweep, the client requests, and       *)
(* closing, crashing and booting the process.                              *)
(*                                                                         *)
(* A goroutine is a program counter per execution id (runner).  Every      *)
(* database call, every use of a shared in-memory registry and every       *)
(* operating-system event is a step; what lies between two of them is      *)
(* local to the goroutine.                                                 *)
(***************************************************************************)
EXTENDS TaskStore, HandBrake

CONSTANTS
    Width,          \* the width column of each lane
    Ops,            \* the client operations this instance allows
    Survivors,      \* may a command outlive the process that started it?
    MaxStops,       \* bound: closes and crashes together
    MaxEngages      \* bound: hand brake engages

ASSUME EngineAssumption ==
    /\ Width \in [Lane -> Nat]
    /\ Survivors \in BOOLEAN
    /\ MaxStops \in Nat
    /\ MaxEngages \in Nat

VARIABLES
    runner,         \* runTask's position, per execution; "idle": no goroutine
    outcome,        \* what a runner has decided to record, per execution
    wasCanceled,    \* CancelRegistry.canceled
    alive,          \* executions whose operating-system process exists
    cancelling,     \* cancel requests between the database and the registry
    sweep,          \* executions the engage handler has still to cancel
    pollPc,         \* poll's position
    pollTask,       \* the task whose lock poll holds, or NoTask
    snap,           \* the tasks GetEligibleTasks returned
    snapPos,        \* their positions in that answer
    lanesLeft,      \* lanes this poll has still to serve
    toRun,          \* candidates of the current lane not tried yet
    mode,           \* "up", "closing", "draining", "down" or "booting"
    orphans,        \* ListOrphanCandidates' rows not handled yet, at boot
    orphan,         \* the row MarkOrphanFailed is closing, or 0
    orphanPc,       \* position within MarkOrphanFailed
    stops,          \* closes and crashes so far
    engages         \* engages so far

runVars == <<runner, outcome, wasCanceled, alive>>
pollVars == <<pollPc, pollTask, snap, snapPos, lanesLeft, toRun>>
bootVars == <<mode, orphans, orphan, orphanPc, stops>>
vars == <<storeVars, brakeVars, runVars, cancelling, sweep, pollVars, bootVars, engages>>

ShellPcs == {"launched", "marked"}
FuncPcs == {"claiming", "claimed"}
RunnerPcs ==
    {"idle", "spawned", "registered", "admitted", "running", "exited", "ended",
     "finished", "metered"} \cup ShellPcs \cup FuncPcs

Live(e) == runner[e] # "idle"

\* The bug of unregistering as soon as the command or the job returns.
RegisteredWhileRunning(e) ==
    runner[e] \in {"registered", "admitted", "running"} \cup ShellPcs \cup FuncPcs

\* The execution is in the cancel registry: runTask registers first and
\* unregisters last.
Registered(e) == runner[e] \notin {"idle", "spawned"}

\* execCtx.Err() # nil: canceled by id, or the whole worker is closing.
ContextDone(e) == e \in wasCanceled \/ mode \in {"closing", "draining"}

NoPos == [t \in Task |-> 0]

Init ==
    /\ StoreInit
    /\ BrakeInit
    /\ runner = [e \in Exec |-> "idle"]
    /\ outcome = [e \in Exec |-> "none"]
    /\ wasCanceled = {}
    /\ alive = {}
    /\ cancelling = {}
    /\ sweep = {}
    /\ pollPc = "idle"
    /\ pollTask = NoTask
    /\ snap = {}
    /\ snapPos = NoPos
    /\ lanesLeft = {}
    /\ toRun = {}
    /\ mode = "up"
    /\ orphans = {}
    /\ orphan = 0
    /\ orphanPc = "next"
    /\ stops = 0
    /\ engages = 0

\* Groups of variables a step leaves alone.
RestOfRun == <<brakeVars, cancelling, sweep, pollVars, bootVars, engages>>
RestOfPoll == <<brakeVars, cancelling, sweep, bootVars, engages>>
RestOfClient == <<brakeVars, runVars, sweep, pollVars, bootVars, engages>>

------------------------------------------------------------------------------
(* poll.  The loop goes on while the process closes: select picks either    *)
(* ready channel, and a poll under way runs to its end.                     *)

Polling == mode \in {"up", "closing"}

\* Clean up, then stop here if the brake is engaged.
PollStart ==
    /\ Polling /\ pollPc = "idle"
    /\ CleanupExpiredLocks
    /\ pollPc' = IF gate THEN "idle" ELSE "begun"
    /\ UNCHANGED <<pollTask, snap, snapPos, lanesLeft, toRun, runVars, RestOfPoll>>

\* GetEligibleTasks and ListLanes.  Time is abstract: any set of repeating
\* tasks may be past its cooldown.
PollSnapshot ==
    /\ pollPc = "begun"
    /\ \E rested \in SUBSET Repeats : snap' = EligibleTasks(rested)
    /\ snapPos' = [t \in Task |-> IF t \in snap' THEN position[t] ELSE 0]
    /\ lanesLeft' = IF snap' = {} THEN {} ELSE Lane
    /\ pollPc' = "lanes"
    /\ UNCHANGED <<pollTask, toRun, storeVars, runVars, RestOfPoll>>

\* The bug of an ORDER BY position DESC.
LastOf(n, S) ==
    {t \in S : Cardinality({u \in S : snapPos[u] > snapPos[t]}) < n}

\* The n first tasks of S in the order the query returned them.
FirstOf(n, S) ==
    {t \in S : Cardinality({u \in S : snapPos[u] < snapPos[t]}) < n}

\* CountRunningInLane, the free slots, and the candidates they are for.
PollLane(l) ==
    /\ pollPc = "lanes" /\ toRun = {}
    /\ l \in lanesLeft
    /\ lanesLeft' = lanesLeft \ {l}
    /\ LET busy == Cardinality(RunningInLane(l))
       IN  toRun' = IF busy < Width[l]
                    THEN FirstOf(Width[l] - busy, {t \in snap : LaneOf[t] = l})
                    ELSE {}
    /\ UNCHANGED <<pollPc, pollTask, snap, snapPos, storeVars, runVars, RestOfPoll>>

\* The next candidate: lock it, or pass over it when the lock is taken.
PollLock(t) ==
    /\ pollPc = "lanes"
    /\ t \in toRun
    /\ \A u \in toRun : snapPos[t] <= snapPos[u]
    /\ toRun' = toRun \ {t}
    /\ \/ /\ AcquireLock(t)
          /\ pollPc' = "locked"
          /\ pollTask' = t
       \/ /\ ~LockIsFree(t)
          /\ UNCHANGED <<pollPc, pollTask, storeVars>>
    /\ UNCHANGED <<snap, snapPos, lanesLeft, runVars, RestOfPoll>>

\* go w.runTask(task, execID, now)
Spawn(e) ==
    /\ runner' = [runner EXCEPT ![e] = "spawned"]
    /\ pollPc' = "lanes"
    /\ pollTask' = NoTask
    /\ UNCHANGED <<outcome, wasCanceled, alive>>

\* GetPendingExecution: reuse the oldest pending row if there is one.
PollLookup(t) ==
    /\ pollPc = "locked" /\ pollTask = t
    /\ \/ \E e \in Exec : IsOldest(e, PendingOf(t)) /\ Spawn(e)
       \/ PendingOf(t) = {} /\ pollPc' = "creating" /\ UNCHANGED <<pollTask, runVars>>
    /\ UNCHANGED <<snap, snapPos, lanesLeft, toRun, storeVars, RestOfPoll>>

\* No pending row: the scheduler makes one.
PollCreate(t) ==
    /\ pollPc = "creating" /\ pollTask = t
    /\ CreateExecution(t)
    /\ Spawn(nextExec)
    /\ UNCHANGED <<snap, snapPos, lanesLeft, toRun, RestOfPoll>>

\* The insert fails, on its foreign key when the task was deleted since the
\* snapshot (and, here, when the bound on rows is reached): give the lock back.
PollCreateFails(t) ==
    /\ pollPc = "creating" /\ pollTask = t
    /\ t \notin exists \/ nextExec > MaxExecs
    /\ ReleaseLock(t)
    /\ pollPc' = "lanes"
    /\ pollTask' = NoTask
    /\ UNCHANGED <<snap, snapPos, lanesLeft, toRun, runVars, RestOfPoll>>

PollEnd ==
    /\ pollPc = "lanes" /\ toRun = {} /\ lanesLeft = {}
    /\ pollPc' = "idle"
    /\ snap' = {}
    /\ snapPos' = NoPos
    /\ UNCHANGED <<pollTask, lanesLeft, toRun, storeVars, runVars, RestOfPoll>>

Poll ==
    \/ PollStart \/ PollSnapshot \/ PollEnd
    \/ \E l \in Lane : PollLane(l)
    \/ \E t \in Task :
          PollLock(t) \/ PollLookup(t) \/ PollCreate(t) \/ PollCreateFails(t)

------------------------------------------------------------------------------
(* runTask and runFunc, for execution e                                     *)

At(e, pc) == runner[e] = pc
Goto(e, pc) == runner' = [runner EXCEPT ![e] = pc]
IsShell(e) == execTask[e] \in Shell
IsFunc(e) == execTask[e] \in Func

\* Register the cancel func.
RunRegister(e) ==
    /\ At(e, "spawned")
    /\ Goto(e, "registered")
    /\ UNCHANGED <<outcome, wasCanceled, alive, storeVars, RestOfRun>>

\* The brake is off at the check: go on.
RunAdmit(e) ==
    /\ At(e, "registered") /\ ~gate
    /\ Goto(e, "admitted")
    /\ UNCHANGED <<outcome, wasCanceled, alive, storeVars, RestOfRun>>

\* The brake is on: a shell execution is recorded canceled ...
RunBrakeShell(e) ==
    /\ At(e, "registered") /\ gate /\ IsShell(e)
    /\ FinishExecution(e, "canceled")
    /\ Goto(e, "finished")
    /\ UNCHANGED <<outcome, wasCanceled, alive, RestOfRun>>

\* The bug of recording the metric here although the cancel has done so.
RunBrakeCountsTwice(e) ==
    /\ At(e, "registered") /\ gate /\ IsFunc(e)
    /\ CancelPendingFuncExecution(e)
    /\ Goto(e, "finished")
    /\ UNCHANGED <<outcome, wasCanceled, alive, RestOfRun>>

\* ... and a func row is canceled with its metric, if nobody was faster.
RunBrakeFunc(e) ==
    /\ At(e, "registered") /\ gate /\ IsFunc(e)
    /\ CancelPendingFuncExecution(e)
    /\ Goto(e, "metered")
    /\ UNCHANGED <<outcome, wasCanceled, alive, RestOfRun>>

\* cmd.Start: the process exists before anything records it.
RunStart(e) ==
    /\ At(e, "admitted") /\ IsShell(e)
    /\ ~ContextDone(e)
    /\ alive' = alive \cup {e}
    /\ Goto(e, "launched")
    /\ UNCHANGED <<outcome, wasCanceled, storeVars, RestOfRun>>

\* Start fails: context already done, no command, sudo refused, no such shell.
RunStartFails(e) ==
    /\ At(e, "admitted") /\ IsShell(e)
    /\ Goto(e, "exited")
    /\ outcome' = [outcome EXCEPT ![e] = "error"]
    /\ UNCHANGED <<wasCanceled, alive, storeVars, RestOfRun>>

\* onStart: the row, then the pid column.
RunMark(e) ==
    /\ At(e, "launched")
    /\ StartExecution(e)
    /\ Goto(e, "marked")
    /\ UNCHANGED <<outcome, wasCanceled, alive, RestOfRun>>

RunPersistPid(e) ==
    /\ At(e, "marked")
    /\ SetExecutionPID(e)
    /\ Goto(e, "running")
    /\ UNCHANGED <<outcome, wasCanceled, alive, RestOfRun>>

\* The pre-claim shutdown check: closing, and nobody canceled this job.  The
\* row stays pending for the next boot.
RunLeaveQueued(e) ==
    /\ At(e, "admitted") /\ IsFunc(e)
    /\ ContextDone(e) /\ e \notin wasCanceled
    /\ Goto(e, "metered")
    /\ UNCHANGED <<outcome, wasCanceled, alive, storeVars, RestOfRun>>

\* The pre-claim check passed; the close may still fall before the claim.
RunToClaim(e) ==
    /\ At(e, "admitted") /\ IsFunc(e)
    /\ ~ContextDone(e) \/ e \in wasCanceled
    /\ Goto(e, "claiming")
    /\ UNCHANGED <<outcome, wasCanceled, alive, storeVars, RestOfRun>>

\* The bug of running the job whatever the claim says.
ClaimIgnored(e) ==
    /\ At(e, "claiming")
    /\ ClaimFuncExecution(e)
    /\ Goto(e, "claimed")
    /\ UNCHANGED <<outcome, wasCanceled, alive, RestOfRun>>

\* The claim: a row that is no longer pending is somebody else's by now.
RunClaim(e) ==
    /\ At(e, "claiming")
    /\ ClaimFuncExecution(e)
    /\ Goto(e, IF status[e] = "pending" THEN "claimed" ELSE "metered")
    /\ UNCHANGED <<outcome, wasCanceled, alive, RestOfRun>>

\* The post-claim check fails: the job ends without running.
RunRefuse(e) ==
    /\ At(e, "claimed")
    /\ ContextDone(e) \/ gate
    /\ outcome' = [outcome EXCEPT ![e] =
           IF ContextDone(e) /\ e \notin wasCanceled THEN "failed" ELSE "canceled"]
    /\ Goto(e, "ended")
    /\ UNCHANGED <<wasCanceled, alive, storeVars, RestOfRun>>

\* k.Run is called.
RunBody(e) ==
    /\ At(e, "claimed")
    /\ ~ContextDone(e) /\ ~gate
    /\ Goto(e, "running")
    /\ UNCHANGED <<outcome, wasCanceled, alive, storeVars, RestOfRun>>

\* The bug of recording how the job returned without deciding what it means.
RunExitUndecided(e) ==
    /\ At(e, "running")
    /\ \E o \in {"ok", "error"} : outcome' = [outcome EXCEPT ![e] = o]
    /\ alive' = alive \ {e}
    /\ Goto(e, "ended")
    /\ UNCHANGED <<wasCanceled, storeVars, RestOfRun>>

\* The command or the job returns, with or without an error.  A canceled
\* context kills the command; a job that ignores it may still succeed.
RunExit(e) ==
    /\ At(e, "running")
    /\ \E o \in {"ok", "error"} : outcome' = [outcome EXCEPT ![e] = o]
    /\ alive' = alive \ {e}
    /\ Goto(e, "exited")
    /\ UNCHANGED <<wasCanceled, storeVars, RestOfRun>>

\* WasCanceled tells canceled from failed; success does not ask.
RunDecide(e) ==
    /\ At(e, "exited")
    /\ outcome' = [outcome EXCEPT ![e] =
           IF @ = "ok" THEN "success"
           ELSE IF e \in wasCanceled THEN "canceled" ELSE "failed"]
    /\ Goto(e, "ended")
    /\ UNCHANGED <<wasCanceled, alive, storeVars, RestOfRun>>

RunFinish(e) ==
    /\ At(e, "ended")
    /\ FinishExecution(e, outcome[e])
    /\ outcome' = [outcome EXCEPT ![e] = "none"]
    /\ Goto(e, "finished")
    /\ UNCHANGED <<wasCanceled, alive, RestOfRun>>

RunMeter(e) ==
    /\ At(e, "finished")
    /\ RecordMetric(e)
    /\ Goto(e, "metered")
    /\ UNCHANGED <<outcome, wasCanceled, alive, RestOfRun>>

\* ReleaseLock, then the deferred Unregister: nothing looks at the registry
\* entry of this id in between.
RunRelease(e) ==
    /\ At(e, "metered")
    /\ ReleaseLock(execTask[e])
    /\ wasCanceled' = wasCanceled \ {e}
    /\ Goto(e, "idle")
    /\ UNCHANGED <<outcome, alive, RestOfRun>>

Run(e) ==
    \/ RunRegister(e) \/ RunAdmit(e) \/ RunBrakeShell(e) \/ RunBrakeFunc(e)
    \/ RunStart(e) \/ RunStartFails(e) \/ RunMark(e) \/ RunPersistPid(e)
    \/ RunLeaveQueued(e) \/ RunToClaim(e) \/ RunClaim(e) \/ RunRefuse(e)
    \/ RunBody(e) \/ RunExit(e) \/ RunDecide(e) \/ RunFinish(e)
    \/ RunMeter(e) \/ RunRelease(e)

\* Ten minutes without a refresh.  The heartbeat runs from onStart (or the
\* claim) to the end; poll and the short stretches around it are taken to be
\* faster than the lock's life, so only a lock without an owner runs out.
ExpireLock(t) ==
    /\ pollTask # t
    /\ \A e \in Exec : Live(e) => execTask[e] # t
    /\ LockExpires(t)
    /\ UNCHANGED <<runVars, RestOfRun>>

------------------------------------------------------------------------------
(* Client requests                                                          *)

Serving(op) == mode = "up" /\ op \in Ops

UpNext(t) ==
    /\ Serving("up-next") /\ t \in Shell
    /\ EnqueueTask(t)
    /\ UNCHANGED <<cancelling, RestOfClient>>

Submit(t) ==
    /\ Serving("submit")
    /\ SubmitFuncTask(t)
    /\ UNCHANGED <<cancelling, RestOfClient>>

\* By execution id (the row exists and is finished) or by the lane's handle.
Rerun(t) ==
    /\ Serving("rerun") /\ RowsOf(t) # {}
    /\ RerunTask(t)
    /\ UNCHANGED <<cancelling, RestOfClient>>

Remove(t) ==
    /\ Serving("remove") /\ t \in Func
    /\ RemoveIdleTask(t)
    /\ UNCHANGED <<cancelling, RestOfClient>>

Delete(t) ==
    /\ Serving("delete") /\ t \in Shell
    /\ DeleteTask(t)
    /\ UNCHANGED <<cancelling, RestOfClient>>

PauseTask(t, p) ==
    /\ Serving("pause-task") /\ SetTaskPaused(t, p)
    /\ UNCHANGED <<cancelling, RestOfClient>>

\* pruneOnce: at boot and on a ticker that stops only after the worker.
Prune(l) ==
    /\ mode \in {"up", "closing", "draining"} /\ "prune" \in Ops
    /\ \E old \in SUBSET Func : PruneOwnedLane(l, old)
    /\ UNCHANGED <<cancelling, RestOfClient>>

\* CancelExecution, the database half ...
CancelInStore(e) ==
    /\ Serving("cancel") /\ e < nextExec /\ e \notin cancelling
    /\ CancelPendingFuncExecution(e)
    /\ cancelling' = cancelling \cup {e}
    /\ UNCHANGED RestOfClient

\* CancelRegistry.Cancel: an id that is not registered is a miss.
RegistryCancel(e) ==
    wasCanceled' = IF Registered(e) THEN wasCanceled \cup {e} ELSE wasCanceled

\* ... and the registry half.
CancelInRegistry(e) ==
    /\ e \in cancelling
    /\ RegistryCancel(e)
    /\ cancelling' = cancelling \ {e}
    /\ UNCHANGED <<storeVars, brakeVars, runner, outcome, alive, sweep, pollVars,
                   bootVars, engages>>

\* The request is answered "not running": the row was not canceled as
\* pending and the id is not registered.
AnswersNotRunning(e) ==
    CancelInRegistry(e) /\ ~Registered(e) /\ status[e] # "canceled"

Client ==
    \/ \E t \in Task :
          \/ UpNext(t) \/ Submit(t) \/ Rerun(t) \/ Remove(t) \/ Delete(t)
          \/ \E p \in BOOLEAN : PauseTask(t, p)
    \/ \E l \in Lane : Prune(l)
    \/ \E e \in Exec : CancelInStore(e) \/ CancelInRegistry(e)

------------------------------------------------------------------------------
(* The hand brake's handlers, and what the sweep does to the executions     *)

RestOfBrake == <<storeVars, runner, outcome, alive, cancelling, pollVars, bootVars>>

BrakeEngage ==
    /\ Serving("brake") /\ engages < MaxEngages
    /\ EngageBrake
    /\ engages' = engages + 1
    /\ UNCHANGED <<wasCanceled, sweep, RestOfBrake>>

BrakeListRunning ==
    /\ EngageSweep
    /\ sweep' = RunningExecutions
    /\ UNCHANGED <<wasCanceled, engages, RestOfBrake>>

BrakeCancel(e) ==
    /\ brakePc = "sweeping" /\ e \in sweep
    /\ RegistryCancel(e)
    /\ sweep' = sweep \ {e}
    /\ UNCHANGED <<brakeVars, engages, RestOfBrake>>

\* The other steps of the engage handler, each after the one before.
BrakeEngageOn ==
    /\ \/ \E l \in Lane : EngagePause(l)
       \/ EngageRecord
       \/ EngageSave /\ sweep = {}
       \/ EngageGate
    /\ UNCHANGED <<wasCanceled, sweep, engages, RestOfBrake>>

BrakeReleaseOn ==
    /\ Serving("brake") \/ brakePc # "idle"
    /\ BrakeRelease
    /\ UNCHANGED <<wasCanceled, sweep, engages, RestOfBrake>>

BrakeHandler ==
    \/ BrakeEngage \/ BrakeListRunning \/ BrakeEngageOn \/ BrakeReleaseOn
    \/ \E e \in Exec : BrakeCancel(e)

------------------------------------------------------------------------------
(* Closing, crashing, booting                                               *)

\* Close: requests have been drained, then the worker's context is canceled.
BeginClose ==
    /\ mode = "up" /\ stops < MaxStops
    /\ cancelling = {} /\ brakePc = "idle"
    /\ mode' = "closing"
    /\ stops' = stops + 1
    /\ UNCHANGED <<orphans, orphan, orphanPc, storeVars, brakeVars, runVars,
                   cancelling, sweep, pollVars, engages>>

\* Start sees the context done between two polls, and the loop returns.
StopPolling ==
    /\ mode = "closing" /\ pollPc = "idle"
    /\ mode' = "draining"
    /\ UNCHANGED <<orphans, orphan, orphanPc, stops, storeVars, brakeVars, runVars,
                   cancelling, sweep, pollVars, engages>>

\* The bug of not waiting for the goroutines.
ClosesAtOnce ==
    /\ mode = "draining"
    /\ runner' = [e \in Exec |-> "idle"]
    /\ mode' = "down"
    /\ UNCHANGED <<orphans, orphan, orphanPc, stops, storeVars, brakeVars, outcome,
                   wasCanceled, alive, cancelling, sweep, pollVars, engages>>

\* Wait: every runTask has returned; the database is closed.
Closed ==
    /\ mode = "draining"
    /\ \A e \in Exec : ~Live(e)
    /\ mode' = "down"
    /\ UNCHANGED <<orphans, orphan, orphanPc, stops, storeVars, brakeVars, runVars,
                   cancelling, sweep, pollVars, engages>>

\* Everything in memory is gone, every goroutine with it.  A command is in a
\* process group of its own and may live on.
Crash ==
    /\ mode # "down" /\ stops < MaxStops
    /\ mode' = "down"
    /\ stops' = stops + 1
    /\ orphans' = {} /\ orphan' = 0 /\ orphanPc' = "next"
    /\ runner' = [e \in Exec |-> "idle"]
    /\ outcome' = [e \in Exec |-> "none"]
    /\ wasCanceled' = {}
    /\ alive' \in IF Survivors THEN SUBSET alive ELSE {{}}
    /\ cancelling' = {} /\ sweep' = {}
    /\ pollPc' = "idle" /\ pollTask' = NoTask
    /\ snap' = {} /\ snapPos' = NoPos
    /\ lanesLeft' = {} /\ toRun' = {}
    /\ DropBrakeHandler /\ gate' = FALSE
    /\ UNCHANGED <<storeVars, engages>>

\* A process nobody waits for ends.
SurvivorExits(e) ==
    /\ e \in alive /\ ~Live(e)
    /\ alive' = alive \ {e}
    /\ UNCHANGED <<storeVars, runner, outcome, wasCanceled, RestOfRun>>

RestOfBoot == <<runVars, cancelling, sweep, pollVars, engages>>

\* ListOrphanCandidates
Boot ==
    /\ mode = "down"
    /\ mode' = "booting"
    /\ orphans' = RunningExecutions
    /\ UNCHANGED <<orphan, orphanPc, stops, storeVars, brakeVars, RestOfBoot>>

\* A row whose process is seen alive is left untouched.
OrphanSkip(e) ==
    /\ mode = "booting" /\ orphanPc = "next" /\ e \in orphans
    /\ e \in pidKnown /\ e \in alive
    /\ orphans' = orphans \ {e}
    /\ UNCHANGED <<mode, orphan, orphanPc, stops, storeVars, brakeVars, RestOfBoot>>

\* The bug of skipping the rows without a pid.
OrphanNeedsPid(e) ==
    /\ mode = "booting" /\ orphanPc = "next" /\ e \in orphans
    /\ e \in pidKnown /\ e \notin alive
    /\ FinishExecution(e, "failed")
    /\ orphans' = orphans \ {e}
    /\ orphan' = e
    /\ orphanPc' = "meter"
    /\ UNCHANGED <<mode, stops, brakeVars, RestOfBoot>>

\* MarkOrphanFailed: three database calls.
OrphanFinish(e) ==
    /\ mode = "booting" /\ orphanPc = "next" /\ e \in orphans
    /\ e \notin pidKnown \/ e \notin alive
    /\ FinishExecution(e, "failed")
    /\ orphans' = orphans \ {e}
    /\ orphan' = e
    /\ orphanPc' = "meter"
    /\ UNCHANGED <<mode, stops, brakeVars, RestOfBoot>>

OrphanMeter ==
    /\ orphanPc = "meter"
    /\ RecordMetric(orphan)
    /\ orphanPc' = "release"
    /\ UNCHANGED <<mode, orphans, orphan, stops, brakeVars, RestOfBoot>>

OrphanRelease ==
    /\ orphanPc = "release"
    /\ ReleaseLock(execTask[orphan])
    /\ orphan' = 0
    /\ orphanPc' = "next"
    /\ UNCHANGED <<mode, orphans, stops, brakeVars, RestOfBoot>>

\* The gate is read from the settings; the worker starts and requests come in.
Serve ==
    /\ mode = "booting" /\ orphanPc = "next" /\ orphans = {}
    /\ BootBrake
    /\ mode' = "up"
    /\ UNCHANGED <<orphans, orphan, orphanPc, stops, storeVars, RestOfBoot>>

ReconcileOrphans ==
    \/ \E e \in Exec : OrphanSkip(e) \/ OrphanFinish(e)
    \/ OrphanMeter \/ OrphanRelease

Process ==
    \/ BeginClose \/ StopPolling \/ Closed \/ Crash \/ Boot \/ ReconcileOrphans \/ Serve
    \/ \E e \in Exec : SurvivorExits(e)

Next ==
    \/ Poll \/ Client \/ BrakeHandler \/ Process
    \/ \E e \in Exec : Run(e)
    \/ \E t \in Task : ExpireLock(t)

Spec == Init /\ [][Next]_vars

\* What the code's scheduling justifies: the ticker keeps polling, goroutines
\* and begun requests run on, every command and job returns in the end, an
\* abandoned lock runs out, and a stopped engine is started again.  The end of
\* the poll loop races the ticker in a select, which picks either ready
\* channel, so it is strongly fair.
Fairness ==
    /\ WF_vars(Poll)
    /\ \A e \in Exec : WF_vars(Run(e)) /\ WF_vars(CancelInRegistry(e))
    /\ \A t \in Task : WF_vars(ExpireLock(t))
    /\ WF_vars(BrakeHandler /\ brakePc # "idle")
    /\ SF_vars(StopPolling)
    /\ WF_vars(Closed)
    /\ WF_vars(Boot \/ ReconcileOrphans \/ Serve)
    /\ \A e \in Exec : WF_vars(SurvivorExits(e))

FairSpec == Spec /\ Fairness

------------------------------------------------------------------------------
(* Properties                                                               *)

RunType ==
    /\ runner \in [Exec -> RunnerPcs]
    /\ outcome \in [Exec -> Terminal \cup {"none", "ok", "error"}]
    /\ wasCanceled \subseteq Exec
    /\ alive \subseteq Exec

PollType ==
    /\ pollPc \in {"idle", "begun", "lanes", "locked", "creating"}
    /\ pollTask \in Task \cup {NoTask}
    /\ snap \subseteq Task
    /\ snapPos \in [Task -> Nat]
    /\ lanesLeft \subseteq Lane
    /\ toRun \subseteq Task

BootType ==
    /\ mode \in {"up", "closing", "draining", "down", "booting"}
    /\ orphans \subseteq Exec
    /\ orphan \in 0..MaxExecs
    /\ orphanPc \in {"next", "meter", "release"}
    /\ stops \in 0..MaxStops

\* Types of the whole state.
TypeOK ==
    /\ StoreType
    /\ BrakeType
    /\ RunType
    /\ PollType
    /\ BootType
    /\ cancelling \subseteq Exec
    /\ sweep \subseteq Exec
    /\ engages \in 0..MaxEngages

\* The task lock does its job: two executions of one task are never in the
\* worker's hands at once, whatever polls, cancels, removals and restarts
\* come between, although the poll acts on a stale list of tasks and every
\* lock carries the same worker id.
OneRunnerPerTask ==
    \A e, f \in Exec :
        Live(e) /\ Live(f) /\ execTask[e] = execTask[f] => e = f

\* A one-shot job is running exactly as its row says: from the claim until
\* the result is written its row is "running", so the job can be found by a
\* cancel or a brake sweep, and its task cannot be removed under it.
JobRunsUnderItsRow ==
    \A e \in Exec :
        IsFunc(e) /\ runner[e] \in {"claimed", "running", "exited", "ended"}
            => status[e] = "running" /\ execTask[e] \in exists

\* CancelExecution's three cases leave no gap: when a cancel of a job is
\* answered "not running", the job is over or gone, never queued or running.
CancelMissesNothing ==
    [][\A e \in Exec : AnswersNotRunning(e) /\ IsFunc(e)
          => status[e] \notin {"pending", "running"}]_vars

\* A close loses nothing: when it is through, and nothing crashed before (it
\* is the first stop), no row is left running, every finished row has its
\* one metric, and no lock is left behind.
CleanClose ==
    [][Closed /\ stops = 1 =>
                 /\ \A e \in Exec : status[e] # "running"
                 /\ \A e \in Exec : status[e] \in Terminal => metrics[e] = 1
                 /\ \A t \in Task : lock[t] = "free"]_vars

\* Jobs of one lane start in the order they were queued: a job is launched
\* only if no job of its lane that was queued earlier is waiting, unlocked.
\* (What a closing engine launches goes back to the queue without running.)
QueueOrder ==
    [][\A e \in Exec, u \in Func :
          mode = "up" /\ runner[e] = "idle" /\ runner'[e] = "spawned" /\ IsFunc(e)
          /\ u \in exists /\ LaneOf[u] = LaneOf[execTask[e]]
          /\ position[u] < position[execTask[e]]
          /\ PendingOf(u) # {}
             => lock[u] # "free"]_vars

\* The ledger an observer of the history sees.
Ledger ==
    INSTANCE ExecutionLedger WITH
        Entry <- Exec,
        entry <- [e \in Exec |-> IF e >= nextExec THEN "unused"
                                 ELSE IF status[e] = "none" THEN "gone"
                                 ELSE status[e]],
        counted <- metrics

\* The engine implements the ledger: through races, sweeps, closes and
\* crashes an execution is closed once, with one verdict, and counted once.
KeepsLedger == Ledger!LedgerSpec

\* The sweep misses nothing either: an execution it listed, and that still
\* runs when its turn comes, is canceled by it.  (A command that outlived an
\* earlier process is in no registry, and the sweep does miss it.)
SweepMissesNothing ==
    [][\A e \in Exec :
          BrakeCancel(e) /\ status[e] = "running" /\ (Survivors => stops = 0)
              => e \in wasCanceled']_vars

\* A queued job is taken off the queue in the end, also when the engine is
\* closed or crashes while it waits.
QueuedJobServed ==
    \A e \in Exec : (status[e] = "pending" /\ IsFunc(e)) ~> status[e] # "pending"

\* A job's row that is running is closed in the end, by its goroutine or by the
\* boot after a crash.  Of jobs only: a command that outlives the server keeps its
\* row "running" for ever (reconcile.go:24).
RunningJobClosed ==
    \A e \in Exec : (status[e] = "running" /\ IsFunc(e)) ~> status[e] # "running"

------------------------------------------------------------------------------
(* What the documentation says and the code does not keep                   *)

\* The guide: "a func task never re-fires"; the comment on CancelExecution: a
\* job canceled while pending is bailed out of without Run.  The scheduler
\* never makes up an execution of a job.
JobNeverRefires == [][\A t \in Func : ~PollCreate(t)]_vars
==============================================================================
