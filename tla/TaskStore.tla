------------------------------ MODULE TaskStore ------------------------------
(***************************************************************************)
(* The tables of internal/taskmaster/db that scheduling reads and writes:  *)
(* tasks, task_executions, task_metrics and task_locks.                    *)
(*                                                                         *)
(* The pool holds one connection, so every *DB method is one atomic step   *)
(* and each is one operator here, with the method's name.  An operator     *)
(* assigns all of storeVars; the modules that extend this one say who      *)
(* calls it and when.  Queries are state functions.                        *)
(*                                                                         *)
(* Data is abstracted to what scheduling tells apart: a task is a model    *)
(* value (its row id is AUTOINCREMENT, so a deleted task never comes       *)
(* back), an execution is its row id, timestamps are gone.                 *)
(***************************************************************************)
EXTENDS Lanes, Naturals, FiniteSets

CONSTANTS
    NoTask,     \* no task
    Shell,      \* tasks with kind = '' (a command line)
    Func,       \* one-shot jobs of an owned lane (kind # '')
    LaneOf,     \* the lane_name column of each task
    Repeats,    \* the shell tasks with repeat = 1
    Rank,       \* the position column of each shell task
    MaxExecs    \* bound: execution rows ever created

Task == Shell \cup Func
Exec == 1..MaxExecs

ASSUME StoreAssumption ==
    /\ Shell \cap Func = {}
    /\ NoTask \notin Task
    /\ MaxExecs \in Nat
    /\ LaneOf \in [Task -> Lane]
    /\ Repeats \subseteq Shell
    /\ Rank \in [Shell -> Nat]

Terminal == {"success", "failed", "canceled"}
Status == Terminal \cup {"none", "pending", "running"}

VARIABLES
    exists,     \* tasks with a row
    paused,     \* shell tasks whose row is paused or not enabled
    position,   \* position column: Rank for shell, queueing order for func
    nextExec,   \* next AUTOINCREMENT id of task_executions
    execTask,   \* task_id of every row ever created, else NoTask
    status,     \* status column; "none": no such row (yet, or any more)
    pidKnown,   \* executions whose pid column is set
    metrics,    \* number of task_metrics rows of each execution
    lock        \* task_locks row: "free" (none), "held", "expired"

storeVars ==
    <<exists, paused, position, nextExec, execTask, status, pidKnown, metrics, lock>>

StoreType ==
    /\ exists \subseteq Task
    /\ paused \subseteq Shell
    /\ position \in [Task -> Nat]
    /\ nextExec \in 1..(MaxExecs + 1)
    /\ execTask \in [Exec -> Task \cup {NoTask}]
    /\ status \in [Exec -> Status]
    /\ pidKnown \subseteq Exec
    /\ metrics \in [Exec -> Nat]
    /\ lock \in [Task -> {"free", "held", "expired"}]

\* A database with its shell tasks defined, nothing run yet, nothing queued.
StoreInit ==
    /\ exists = Shell
    /\ paused = {}
    /\ position = [t \in Task |-> IF t \in Shell THEN Rank[t] ELSE 0]
    /\ nextExec = 1
    /\ execTask = [e \in Exec |-> NoTask]
    /\ status = [e \in Exec |-> "none"]
    /\ pidKnown = {}
    /\ metrics = [e \in Exec |-> 0]
    /\ lock = [t \in Task |-> "free"]

------------------------------------------------------------------------------
(* Queries                                                                  *)

\* The execution rows a task has.
RowsOf(t) == {e \in Exec : execTask[e] = t /\ status[e] # "none"}

PendingOf(t) == {e \in RowsOf(t) : status[e] = "pending"}
RunningOf(t) == {e \in RowsOf(t) : status[e] = "running"}

RunningExecutions == {e \in Exec : status[e] = "running"}

RunningInLane(l) == {e \in RunningExecutions : LaneOf[execTask[e]] = l}

IsOldest(e, rows) == e \in rows /\ \A f \in rows : e <= f

\* A finish time exists only for rows that ended in success or failure:
\* 'canceled' is not in the status list of the last_finished query.
EverFinished(t) == \E e \in RowsOf(t) : status[e] \in {"success", "failed"}

\* GetEligibleTasks, given the repeating tasks whose cooldown is over.
\* An expired lock does not hide a task.
EligibleTasks(cooledDown) ==
    {t \in exists \ paused :
        /\ lock[t] # "held"
        /\ LaneOf[t] \notin lanePaused
        /\ \/ PendingOf(t) # {}
           \/ t \in Shell /\ ~EverFinished(t)
           \/ t \in cooledDown}

------------------------------------------------------------------------------
(* Execution rows                                                           *)

\* Appends a pending row for t; the caller says what else changes.
InsertPending(t) ==
    /\ nextExec <= MaxExecs
    /\ nextExec' = nextExec + 1
    /\ execTask' = [execTask EXCEPT ![nextExec] = t]
    /\ status' = [status EXCEPT ![nextExec] = "pending"]

\* Always a new row, whatever rows t already has.
EnqueueTask(t) ==
    /\ t \in exists
    /\ InsertPending(t)
    /\ UNCHANGED <<exists, paused, position, pidKnown, metrics, lock>>

\* The worker's own insert; task_id is a foreign key, so t must have a row.
CreateExecution(t) == EnqueueTask(t)

\* One transaction: the task at the back of its lane and its first row.
\* Queueing order is execution-id order, so the id serves as the position.
SubmitFuncTask(t) ==
    /\ t \in Func \ exists
    /\ \A e \in Exec : execTask[e] # t
    /\ InsertPending(t)
    /\ exists' = exists \cup {t}
    /\ position' = [position EXCEPT ![t] = nextExec]
    /\ UNCHANGED <<paused, pidKnown, metrics, lock>>

\* Refused while t has a pending or running row, and for a func task whose
\* latest run succeeded.  A func task moves to the back of its lane.
RerunTask(t) ==
    /\ t \in exists
    /\ PendingOf(t) \cup RunningOf(t) = {}
    /\ t \in Func =>
          \A e \in RowsOf(t) : status[e] = "success" => \E f \in RowsOf(t) : f > e
    /\ InsertPending(t)
    /\ position' = IF t \in Func THEN [position EXCEPT ![t] = nextExec] ELSE position
    /\ UNCHANGED <<exists, paused, pidKnown, metrics, lock>>

\* The shell path's update has no condition on the row's status.
StartExecution(e) ==
    /\ status' = IF status[e] = "none" THEN status
                 ELSE [status EXCEPT ![e] = "running"]
    /\ UNCHANGED <<exists, paused, position, nextExec, execTask, pidKnown, metrics, lock>>

SetExecutionPID(e) ==
    /\ pidKnown' = IF status[e] = "none" THEN pidKnown ELSE pidKnown \cup {e}
    /\ UNCHANGED <<exists, paused, position, nextExec, execTask, status, metrics, lock>>

\* Claims a row that is still pending; otherwise no row changes.
ClaimFuncExecution(e) ==
    /\ status' = IF status[e] = "pending" THEN [status EXCEPT ![e] = "running"]
                 ELSE status
    /\ UNCHANGED <<exists, paused, position, nextExec, execTask, pidKnown, metrics, lock>>

\* FinishExecution and FinishFuncExecution: unconditional, a deleted row
\* matches nothing.
FinishExecution(e, s) ==
    /\ status' = IF status[e] = "none" THEN status ELSE [status EXCEPT ![e] = s]
    /\ UNCHANGED <<exists, paused, position, nextExec, execTask, pidKnown, metrics, lock>>

\* task_metrics has no foreign key: the row is written for a deleted task too.
RecordMetric(e) ==
    /\ metrics' = [metrics EXCEPT ![e] = @ + 1]
    /\ UNCHANGED <<exists, paused, position, nextExec, execTask, status, pidKnown, lock>>

\* The row CancelPendingFuncExecution's conditional update matches.
CancelsRow(e) == status[e] = "pending" /\ execTask[e] \in Func

\* One transaction: the row flips to canceled and gets its metric, or nothing.
CancelPendingFuncExecution(e) ==
    /\ IF CancelsRow(e)
       THEN /\ status' = [status EXCEPT ![e] = "canceled"]
            /\ metrics' = [metrics EXCEPT ![e] = @ + 1]
       ELSE UNCHANGED <<status, metrics>>
    /\ UNCHANGED <<exists, paused, position, nextExec, execTask, pidKnown, lock>>

------------------------------------------------------------------------------
(* Task rows                                                                *)

\* The rows of the tasks in T go; the ids are not used again.
WithoutRows(T) == [e \in Exec |-> IF execTask[e] \in T THEN "none" ELSE status[e]]

\* A shell task goes at any time.  Its executions cascade, its lock row and
\* its metrics have no foreign key and stay.
DeleteTask(t) ==
    /\ t \in exists
    /\ exists' = exists \ {t}
    /\ paused' = paused \ {t}
    /\ status' = WithoutRows({t})
    /\ UNCHANGED <<position, nextExec, execTask, pidKnown, metrics, lock>>

\* deleteTaskRowsTx: metrics, executions, lock and task of every t in T.
DeleteTaskRows(T) ==
    /\ exists' = exists \ T
    /\ paused' = paused \ T
    /\ status' = WithoutRows(T)
    /\ metrics' = [e \in Exec |-> IF execTask[e] \in T THEN 0 ELSE metrics[e]]
    /\ lock' = [t \in Task |-> IF t \in T THEN "free" ELSE lock[t]]
    /\ UNCHANGED <<position, nextExec, execTask, pidKnown>>

\* The bug of forgetting the busy check.
RemoveAnyTask(t) == t \in exists /\ DeleteTaskRows({t})

RemoveIdleTask(t) ==
    /\ t \in exists
    /\ RunningOf(t) = {}
    /\ DeleteTaskRows({t})

\* The retention pruner: some finished one-shot jobs of a lane, those whose
\* last run is older than the cutoff, and none with work outstanding.
PruneOwnedLane(l, old) ==
    /\ old # {}
    /\ \A t \in old :
          /\ t \in exists \cap Func
          /\ LaneOf[t] = l
          /\ PendingOf(t) \cup RunningOf(t) = {}
          /\ RowsOf(t) # {}
    /\ DeleteTaskRows(old)

SetTaskPaused(t, p) ==
    /\ t \in exists \cap Shell
    /\ paused' = IF p THEN paused \cup {t} ELSE paused \ {t}
    /\ UNCHANGED <<exists, position, nextExec, execTask, status, pidKnown, metrics, lock>>

------------------------------------------------------------------------------
(* Locks.  Every lock is written with the same worker_id (the host name),   *)
(* so a release deletes the task's lock row whichever run took it.          *)

SetLock(t, v) ==
    /\ lock' = [lock EXCEPT ![t] = v]
    /\ UNCHANGED <<exists, paused, position, nextExec, execTask, status, pidKnown, metrics>>

\* An existing row makes the insert do nothing, even an expired one.
LockIsFree(t) == lock[t] = "free"

AcquireLock(t) == LockIsFree(t) /\ SetLock(t, "held")

ReleaseLock(t) == SetLock(t, "free")

\* The lock's ten minutes pass without a refresh.
LockExpires(t) == lock[t] = "held" /\ SetLock(t, "expired")

\* Two bugs: a comparison the wrong way round, and no cleaning at all.
CleanupEveryLock ==
    /\ lock' = [t \in Task |-> "free"]
    /\ UNCHANGED <<exists, paused, position, nextExec, execTask, status, pidKnown, metrics>>

CleanupNothing == UNCHANGED storeVars

CleanupExpiredLocks ==
    /\ lock' = [t \in Task |-> IF lock[t] = "expired" THEN "free" ELSE lock[t]]
    /\ UNCHANGED <<exists, paused, position, nextExec, execTask, status, pidKnown, metrics>>
==============================================================================
