# A TLA+ model of unified-webapp

unified-webapp is one Go process that serves a family of small web
applications, chosen by host name. Most of them keep a JSON file or a SQLite
database of their own. One of them, **taskmaster**, is a concurrent task engine
that other modules build on, and it is the core of this development; around it
stand models of the HAProxy, certificate, slideshow, grocery and multissh
modules. The definitions are translated from the Go source and, where a page
takes part, from its TypeScript; `PROJECT.json` names the lines
behind every definition.

Contents: inventory · order of the work · the modules and the code ·
abstractions · runs · fairness · proofs · known divergences · running · not
modelled.

## 1. Inventory

### Taskmaster (`internal/taskmaster`)

| part | state | operations | what must hold |
|---|---|---|---|
| database (`db/db.go`) | tasks, lanes, executions, metrics, task locks, settings; SQLite behind one connection | enqueue, submit, claim, start, finish, cancel pending, rerun, remove, prune, lock, release, expire | a row is opened, started, closed and counted at most once each |
| worker (`worker/worker.go`, `executor.go`, `process.go`) | the poll loop; a goroutine per launched execution; heartbeats | poll every tick: eligible tasks, lanes, free slots, lock, launch; run a command or a job; record the result | one goroutine per task; a job runs under its `running` row; queue order |
| cancel (`worker/cancel.go`, `cancelexec.go`) | registry of contexts, set of canceled ids | cancel in the database, then in the registry | no cancel is answered "not running" for a job that still runs later |
| hand brake (`worker/brake.go`, `coordinator/handlers_control.go`) | gate in memory; two settings rows; lane pause flags | engage: pause lanes, record them, sweep, save, shut the gate; release: the reverse | an engage is durable; a release restores the lanes |
| engine and owned lanes (`engine.go`, `lane.go`, `golane`) | kinds, lanes, the worker | open, reconcile orphans, close, prune; submit, cancel, rerun, remove for other modules | a stop loses no job and leaves no lock; a boot closes every dead row |
| coordinator (`coordinator`) | none | the HTTP endpoints over the above | an endpoint's several database calls tolerate the worker in between |
| streams (`worker/output.go`, `stream.go`, `progress.go`, `coordinator/sse.go`) | ring of captured lines, subscribers, finished markers with an expiry | register, write, subscribe, mark done, collect; one event stream per viewer | no captured line is lost or doubled between replay and subscription; every viewer's stream ends |

Hard behaviours: poll acts on a snapshot that clients change under it; a cancel,
a removal and the brake each take several steps against goroutines that are
between two database calls of their own; a process may die anywhere and leave
rows, locks and even running commands behind.

### The other modules

Modelled: haproxy, certmachine, slideshow, grocery with its page, multissh's
broadcast with its page, and the part of the broker the grocery page uses.

| component | state | interactions | what is hard, what must hold |
|---|---|---|---|
| haproxy | models and the rows of tracked certificates (`certs.json`) in JSON files; the certs directory, the live `haproxy.cfg` and crt-list behind a driver that runs local commands; backups; an operation log | applies under one lock: render, stage, validate, back up, install two files, reload, verify, roll back | whatever step fails or crashes, the live pair of files is loadable, and the answer names the state really left; certificates are pulled, imported and switched under a lock of their own, between the reads of an apply |
| certmachine | certificate authorities and leaves in SQLite; trust of remote hosts | replace the CA, switch back, issue, import, archive | one current and at most one previous CA; no active leaf under a CA that is gone; the snapshot signed outside the transaction is rechecked in it |
| platform auth | signed session cookies with per-module grants; policies; throttle; PIN fingerprint cache; passkeys | the gate in front of every module; login, logout, activity | a grant authorises its module only, until idle or expired, and not after its PIN changed; failures slow the next try down |
| platform broker | subscribers and their channels | slideshow, grocery and others notify through it | a slow subscriber misses messages but must see a later state |
| admin | the auth section of the config file; the running policies | splices the file, then swaps the policies | file and process do not part when a step fails |
| slideshow | conductor: playlist, position, interval, card; a ticker goroutine | control requests, a ticker, published snapshots | the last control wins; subscribers end with the current snapshot |
| grocery, todo, timetracker | one JSON document, or files per subject, behind a mutex | CRUD, bulk sync | memory and file agree after a failed save; updates by index or name hit what was meant |
| utuber | settings; downloads as jobs in an owned lane | submits, cancels, reruns and removes taskmaster jobs | no more than taskmaster promises |
| issuetracker | issues and folders in SQLite | CRUD in transactions | folder tree without cycles |
| multissh | SSH sessions; staged uploads; broadcast jobs with a state per target, their subscribers' channels; the page's button and rows | a goroutine per target reports under the job's lock and fans out after it; a web socket's handler subscribes, takes a snapshot, waits for frames or completion | progress may be dropped, completion may not; the page's button comes back once, with the rows right, whatever is lost; terminals are mostly I/O |
| obsidianoid | a vault of notes, git sync, tab state | edits without a check of versions, file events | unsaved text is asked about before it is discarded |
| smbedit | `smb.conf`, external tools, an operation log | stage, test, install, restart | a refused file is not installed |
| menuserver, sampler | one JSON file; a demonstration page | – | nothing worth a model |
| platform config, static, middleware, sshclient, fspath | none that changes | – | stateless |
| `cmd/server`, `cmd/taskmasterctl` | wiring | host dispatch; an HTTP client | – |

## 2. Order of the work

1. The taskmaster core: brake, store, engine, ledger. Done, with proofs.
2. `HaproxyApply`: the apply, restore and rollback pipeline with a failure, a
   cut or a crash at each driver call. Done, with proofs.
3. `CertRotation`: every request that changes authorities or certificates. Done,
   with proofs.
4. `SlidePlaylist`, `GrocerySync`, `OutputStream`: a position in a list that is
   swapped under it, an offline client, and a stream that is replayed. Done, with
   proofs.
5. `Broadcast`: one file to several hosts, and the page that watches. Done, with
   proofs.
6. Left: platform sessions and throttle, the admin's splice of the config file,
   the small stores (todo, timetracker), task and lane editing. Section 10 says
   what each would add.

## 3. The modules and the code

```
Lanes          lanes and their pause flags
  HandBrake    the brake's handlers, settings, gate
    HandBrakeSpec     the brake alone, with operators and faults
      MCHandBrake, HandBrakeProofs
  TaskStore    the tables the scheduler uses: one operator per db method
TaskEngine     = TaskStore + HandBrake + worker, cancel, clients, process
    MCTaskEngine, TaskEngineProofs
ExecutionLedger   what the engine promises of its history; TaskEngine refines it
```

**HandBrake.** `lanePaused` is the `paused` column, `restoreSet` and
`savedBrake` are the settings rows `brake_paused_lanes` and `brake_engaged`,
`gate` is `BrakeGate.engaged`. `brakePc` is the place of the one handler that
runs (`brakeMu` excludes a second), `brakeTodo` the lanes its loop still has to
visit, `brakeDid` its local `pausedByBrake`. Each database call of a handler is
one action. `BrakeCallFails` is the early `http.Error` return, after which what
was written stays; `BootBrake` is the restart, after which the gate is what
`engine.Open` reads.

**TaskStore.** `exists`, `paused` and `position` are the tasks table,
`status`, `execTask`, `pidKnown` and `nextExec` the executions, `metrics` the
metric rows per execution, `lock` the lock row of each task: free (none), held,
or expired. A task is a command (`Shell`) or a one-shot job of an
owned lane (`Func`). Every operator is one method of `db.go` in one step.

**TaskEngine.** `runner[e]` is the place of the goroutine `runTask` for
execution `e`, from `go w.runTask` (spawned) to its deferred calls. `pollPc` is
the place in `poll`; `snap`, `lanesLeft` and `toRun` are what poll has read and
not used yet, so that every other step can come between the reading and the use.
`cancelling` and `sweep` are cancels between their database and registry steps.
`mode` is the life of the process: up, closing (context canceled, the loop not
yet stopped), draining (waiting for goroutines), down, booting.

| actor | actions | code |
|---|---|---|
| scheduler | `PollStart` … `PollEnd` | `worker.poll` |
| runner | `RunRegister`, `RunAdmit`, `RunBrakeShell`, `RunBrakeFunc`, `RunStart`, `RunMark`, `RunPersistPid`, `RunClaim`, `RunRefuse`, `RunBody`, `RunExit`, `RunDecide`, `RunFinish`, `RunMeter`, `RunRelease` | `runTask`, `runFunc`, `finishFunc` |
| client | `UpNext`, `Submit`, `Rerun`, `Remove`, `Delete`, `PauseTask`, `Prune`, `CancelInStore`, `CancelInRegistry` | handlers and `Lane` methods |
| brake | `BrakeEngage` … `BrakeReleaseOn` | `handlers_control.go` |
| process | `BeginClose`, `StopPolling`, `Closed`, `Crash`, `Boot`, `OrphanSkip`, `OrphanFinish`, `OrphanMeter`, `OrphanRelease`, `Serve` | `engine.Close`, `engine.Open`, `reconcile.go` |
| environment | `ExpireLock`, `SurvivorExits` | lock expiry; a command that outlived its server |

**ExecutionLedger.** The abstract specification: an execution is opened, may
be started, is closed once with a verdict that never changes, and is counted
once in the metrics, only after it is closed (or in the step that cancels it);
entries disappear only with their task. `TaskEngine!Ledger` maps an execution
to its row's status, to "unused" before its id is given out and to "gone" after
its task was removed.

```
CertStore      authorities, rows, and the helpers inside a transaction
  CertRotation    the requests: reads, then one transaction
    MCCertRotation, CertRotationProofs
HaproxyCerts   certificate files and rows
  HaproxyApply    Apply, Restore, rollback, boot; HAProxy itself
    MCHaproxy, HaproxyApplyProofs
GroceryStore   items, recipes, ingredients; memory and file
  GrocerySync     the page: queue, replay, refreshes, event stream
    MCGrocery, GroceryProofs
SlidePlaylist  MCSlidePlaylist, SlidePlaylistProofs
OutputStream   MCOutputStream, OutputStreamProofs
Broadcast      MCBroadcast, BroadcastProofs
```

**CertStore, CertRotation.** `cas` is the role of each authority by id, `certs`
the rows; `signer` in a row is history, the authority whose key did sign.
`req[s]` is one HTTP request: `pc` is the read it makes next, the other fields
its local variables (`cur`, `prev`, `p3`, `old`, `src`, `leaves`). A read is one
step, a transaction is one step, since the pool has one connection; between
them any other request may commit. `legacy` is the stored authority that is the
root of the legacy tree.

| request | actions | code |
|---|---|---|
| initialise | `ReadCurrent`, `ReadCount`, `CommitInit` | `InitNamedCA` |
| import | `ReadRoot`, `ReadRootPrevious`, `InsertRoot`, `ReadLeaves`, `ReadCurrent`, `ReadPrevious`, `CommitImport` | `ImportCA`, `Scan`, `Execute` |
| generate, renew, edit | `ReadRow`, `ReadRival`, `ReadCurrent`, `CommitIssue` | `Generate`, `Renew`, `Edit` |
| delete | `CommitDelete` | `Delete` |
| replace | `ReadCurrent`, `ReadPrevious`, `ReadStale`, `ReadOutgoing`, `CommitReplace` | `ReplaceCA` |
| switch back | `ReadCurrent`, `ReadPrevious`, `CommitSwitchBack` | `SwitchBack` |

**HaproxyCerts, HaproxyApply.** `rows` is `certs.json`: the rows of each file
name, in their order, for nothing keeps a name to one row. `Found` are the files
in the directory before the first start. `Plain` are the names from which the
code guesses the host rightly: `<host>.pem`, where a pull writes
`<host>-<hash>.pem`, so a pulled file that is adopted untracked comes in enabled,
and no pull supersedes it. `adopting` is what the import page's request found,
between its list and its rows. A configuration is the model it was rendered from,
a crt-list the number of its lines for each certificate. `live` is the pair of files on disk,
`loaded` the pair the process runs with, `baks` the backup directory. `op` is
the request that holds the applier's lock: `pc` its place in `Apply`, `run`,
`rollback` or the cleanup, `names` the files it is about to track or to drop,
`before` what it found, `cand` what it installs, `gone` whether its context has
ended. Before it has a candidate an Apply goes through `ListFound`, `ListAgain`,
`AdoptFound` (the three locks of `includeAll`), `CountEnabled`, `ReadModel`,
`ReadCrtList` and `Compare`, and anything else may come between two of them. A driver call works, fails without effect, or is cut off,
when its effect may or may not have happened and every later call fails.
Certificate handlers (`PullFile` and `PullRow`, `Import` and `Imported`, `Toggle`,
`Delete`) and service actions run beside it. After a crash the start includes
what it finds (`Crash`).

**GroceryStore, GrocerySync.** `mem` and `disk` are the server's document in
memory and in its file. The page keeps `obj` (row objects, shared by closures
and lists), `srv` and `loc` (where the lists hold a row), `op` and `queue` (the
edits and `pendingOps`), `drain` (the handler that turns sync on), `fetch`
(`refreshAll`), `sse` and `tick` (the event stream). A request is sent, served
and answered in separate steps; code between two awaits is one step.

**SlidePlaylist.** `subjects`, `playlist`, `pos` and the image index are the
conductor's fields; a tick, a control request and a scan are each one step,
since each holds the conductor's mutex.

**OutputStream.** `ring`, `total` and `done` are the two captures, `held` says
that the registry has them, `worker` is the place of `runTask` around them. Of
a viewer, `pc` is the place in `StreamExecutionOutput`, `chan` its two
channels, `source` its `EventSource` and `box` what the modal shows. `sent` is
what the present connection has been sent; `at` remembers which lines it was
not owed.

**Broadcast.** `targets` and `done` are the fields of `broadcastJob`; a job does
not exist before `Post`. `update` is two steps, as in the code: the state under
the lock, then the send to the subscriber, which `owes` says is still to come.
`sub` is the subscriber's channel, `pc` the place of its handler. `page` is how
far the page is with a job's request and web socket (or how they ended),
`finished` the flag in `runBroadcastJob`, `rows` what the rows show, `button`
whether the button is enabled.

| actor | actions | code |
|---|---|---|
| goroutine of a target | `Begin`, `Report`, `TransferEnds`, `FanOut` | `runBroadcastTransfer`, `update` |
| handlers | `Post`, `Subscribe`, `TakeSnapshot`, `SelectFrame`, `SelectDone`, `WriteFails` | `handleBroadcastPost`, `handleBroadcastWS` |
| page | `Click`, `Answered`, `PostFails`, `OnError`, `OnClose` | `upload.ts` |
| network | `Lose` | – |

Definitions named as bugs (`The bug of …` or `Mutant` in their comment) are not part of
the specifications: each is a plausible wrong version of the definition after
it, with which some property fails. They show that the properties can fail.

## 4. Abstractions

- One database method is one step: `db.go` opens the pool with one connection,
  and the methods with several statements use a transaction.
- Database errors are modelled where they change what happens next: in both
  brake handlers, and for the insert in `poll`. Elsewhere the code logs an error
  and goes on; those paths are left out.
- Time is abstract. A repeating command is due whenever `PollSnapshot` chooses
  it to be (any subset of those whose last run is over). A held lock expires
  only when no goroutine and no poll owns it: the heartbeat's period is a third
  of the TTL, and what lies between taking the lock and the first heartbeat is
  assumed to be far shorter than its ten minutes.
- The order in which poll visits the lanes is any order.
- Every job's kind is registered and every lane exists before anything is
  queued; `poll`'s filters for missing kinds, hidden lanes and owned lanes only
  select tasks and are left out.
- `ReleaseLock` and the deferred `Unregister` are one step: nothing reads the
  lock and the registry together.
- Requests are drained before `Close`, as the server's shutdown does.
- The sudo variants of killing and the `WaitDelay` of a command only change how
  a process ends, not that it does.
- Outside the model: creating, editing, moving and reordering tasks and lanes,
  changing a width, an operator's lane pause while the whole engine runs (it is
  in HandBrakeSpec), progress text, results and output.

The other modules:

- **Certificates.** Keys, chains and dates are left out; a row's `signer` stands
  for what the signature says. Ids are given out in order and never again
  (`AUTOINCREMENT`). Errors before a transaction are one action (`Fail`), and a
  transaction that fails has no effect. Import runs as the route runs it: root,
  then scan, then one transaction.
- **HAProxy.** A configuration loads if it is the hand-written one, or a
  generated one with at least one certificate whose every named file exists.
  The driver's file writes are atomic, as its rename is. Certificates of one
  instance are all for one host: that is where they supersede each other. A guess
  of a host is right (`Plain`) or matches nothing.
  Merged or left out: the two reads of `compare` and those of `Restore` are one
  step, since only the holder of the applier's lock writes the live files and
  the backups, and a Restore whose read fails counts as not begun; a failed
  save after `Import`'s second lock leaves what a failed listing does, nothing; a
  pull whose save fails has only the crash to stand for it; the import page has
  one request under way at a time. A Check's inclusion of what it finds counts as
  such a request, without the applier's lock, which only allows more. The
  inclusion of files at the start is one step: nothing else runs yet. The guard
  that keeps a certificate some service uses from being deleted is left out, so
  more may be deleted than in the code. A change of the settings, which builds a
  second store and applier with locks of their own (`settings.go:342`), is left
  out.
- **Slideshow.** A scan may find any set of images; the files' names keep the
  order of subjects and images. A shuffle may give any order.
- **Grocery.** Two clients: the page, statement by statement, and a rival whose
  requests are single steps. Rows are compared by a mark (name, state or
  enabled), not by content. `excused` is history: rows that met a race the
  code documents or accepts (the comment on `SettledAsAsked` lists them) or a
  fault; for overlapping reconnects see section 8.
- **Streams.** Lines are numbers. One page, since viewers only read what they
  share. Keepalives and the cap on subscribers are left out.
- **Broadcasts.** Bytes are left out, so a report of progress repeats the state.
  The page shows a message in the step that writes it: it alone reads the
  connection, in order. A source that was cleared or deleted shows as a refused
  request or a failed transfer, a server that is restarted as a lost connection
  (the jobs it held are gone with it, and nothing asks for them again). Zeroing
  passwords is left out.

## 5. Runs

Taskmaster bounds: `MaxExecs` execution ids, `MaxStops` closes and crashes
together, `MaxEngages` engages, `MaxFaults` failed brake calls and restarts;
requests that would need one more id are not made. `Ops` names the client
operations of an instance.

| run | instance | shows |
|---|---|---|
| `Brake` | 3 lanes, 3 faults, operators at any time | `BrakeDurable`: after an answered engage the gate stays shut, in memory and in the settings; `ReleaseRestores`: until a call fails, a release leaves paused exactly the operators' lanes, but for those paused under the brake |
| `Tasks` | a job and a repeating command, 2 executions, 1 lane, survivors, one close or crash; submit, up-next, cancel, pause, rerun, delete, remove, prune | `TypeOK`, `OneRunnerPerTask`, `JobRunsUnderItsRow`, `CancelMissesNothing`, `CleanClose`, and `KeepsLedger`, the refinement |
| `BrakeJobs` | a command and a job in a lane of width 2, one engage, any releases | `KeepsLedger`; `SweepMissesNothing`: an execution the sweep listed, and that still runs when its turn comes, is canceled by it |
| `JobProgress` | 2 jobs, width 1, one stop, with fairness | `QueuedJobServed`; `RunningJobClosed`, of jobs only, since a surviving command's row is not closed (section 8); and `QueueOrder` |
| `JobRefires` | 2 jobs, no stop | ends in a violation of `JobNeverRefires`: section 8 |
| `CARotation` | 2 names, a legacy tree of 2 leaves, a new database or one in use; 4 requests of any kind, 2 at a time, 1 ending early | `StructurallySound` and `SignedByRecorded`: what `Open` checks of a database; `PreviousInUse`: the previous authority stays exactly as long as an active row needs it; `ReplacedAsRead`: a replacement changes the store it was decided on; `NoNameLost`: no name loses its active certificate unless somebody said so |
| `Haproxy` | 2 models, 3 certificates (1 put there by hand), up to 3 requests, 2 faults, 2 pulls, imports or toggles, together at most 5; 1 backup kept | `OutcomeIsTrue`: the answer names the state that is left; `RunsWhatIsLive`: between requests the process runs what is on disk; `LiveCertsKept`: no file the live list names goes, with the exceptions in its comment; `FoundIsBackedUp`: what is about to be overwritten has a backup |
| `Slides` | 3 subjects, 4 images, 2 controls, 2 scans, with fairness | `NothingSkipped`, `StaysPut`; `EveryImageComesUp`, once the scans are over: with shuffled rescans for ever an image's turn would be no more than probable |
| `Grocery` | an item, a recipe, its ingredient; 2 edits of any kind, online or offline, 1 reconnect, 1 fault | `SettledAsAsked`: when all has settled, the server holds what the user last asked for; `MemoryMatchesDisk`, `NoOrphanIngredient`: the store behind it |
| `GroceryReplay` | 2 creates, a rival, 1 fault, with fairness | `ReplayEnds`: a begun replay empties the queue |
| `Outputs` | 3 lines to each stream, a ring of 2, channels of 1; a lost connection, a restart, a cancel, a deletion | `InOrder`, `DoneLosesNothingElse`: "done" cuts off nothing that was owed; `ModalSpeaks`: a modal does not stay empty |
| `Broadcast` | 2 broadcasts, of 2 targets and of 1, a channel of 1; requests and connections lost, with fairness | `ButtonMeansOver`: with the button enabled, what was started is over and its rows are right, or its request or connection failed; `EveryBroadcastEnds`: a broadcast gives the button back unless a transfer hangs |

Why the bounds are enough. *Taskmaster*: the races are between one task's rows
and at most three actors. Two executions are the least with which a task has an
old row and a new one; a command and a job pass through different code and meet
in the lane's width, and `JobProgress` has two jobs, the least that compete for
a slot in an order. One stop is enough because a boot starts from rows and locks alone, and
any set of them one life can leave is reached; a second stop repeats it. Three
lanes let a lane be visited, not visited and paused by hand in one engage; three
faults let an engage, the following release and a further engage each fail.
*Certificates*: four requests, two at a time, let an initialised or used store
be replaced, switched back and changed between the reads and the transaction of
another request; `CertRotationProofs` then removes the bounds from the three
invariants and from `ReplacedAsRead`. *HAProxy*: a third request restores what
the first two left; two faults make an installation fail and its rollback too;
one backup kept is the least that makes pruning bite; two pulls and two requests
are the least with which a name is tracked twice, half superseded and cleaned up
(without the exception for such names TLC finds that in 23 states). `FewTogether`
bounds requests, faults and pulls together, and the two pulled certificates are
symmetric: nothing but equality tells them apart. `HaproxyApplyProofs` proves
the four properties for any of these bounds. *Slideshow*: a scan before
and after a pass; a subject with two images and two with one;
`SlidePlaylistProofs` removes these bounds from the safety properties. *Grocery*: two
edits are the least that overtake each other, on three rows of which two belong
together; `GroceryProofs` removes the bounds from all four invariants, also for
reconnects that overlap, which one reconnect does not reach. *Streams*: a third line overwrites the ring of two, and overflows the
channel of one. *Broadcasts*: a second job meets the late events of the first
one's web socket, a second target lets one fail alone, and a channel of one
drops frames.

`QueueOrder` is checked with submit and cancel only, and proved for every operation
but rerun. With rerun it is false, harmlessly: a job that is canceled and put back
while poll has it in hand goes to the back of its lane, and yet starts at its old
turn, before a job submitted in between.

Runs with `CHECK_DEADLOCK FALSE` are those whose requests, edits or lines are
used up: the system then rests, as the program would.

## 6. Fairness

`FairSpec` (run `JobProgress`) assumes, each for a reason in the code: polls go
on (the ticker); a goroutine takes its next step, and with it commands and jobs
return (the code waits for them without bound); a begun cancel request finishes;
an abandoned lock expires (a TTL nobody refreshes); the close, once begun, ends
its waits; a process that is down is started and boots (the service unit
restarts it); a surviving command exits. `StopPolling` is strongly fair: the
loop's `select` picks at random between a ready tick and the done context, so
the context is seen after finitely many polls but may be passed over at each.
No client operation, removal or crash is fair.

`SlidePlaylist`: the ticker goes on. `GrocerySync`: the network, the server and
the page's event loop get something done (`Progress`); users, rivals and faults
do not have to. `OutputStream`: the worker goes on and commands end
(`WF(Worker)`: a finite number of lines), and a handler with something to do does
it, the page's reconnect included. `Broadcast`: requests are answered or fail,
goroutines, handlers and the page's events go on. Transfers are not fair: after
the dial nothing gives them a deadline, which is why `EveryBroadcastEnds`
excepts one that stays `transferring`.

## 7. Proofs

Checked by TLAPS for every value of the constants: all tasks, lanes and widths,
requests, names and leaves, certificates, models and backups kept, ring and
channel sizes, and all bounds. Assumptions
are the modules' named `ASSUME`s (ranges of the constants), which TLC evaluates
in the runs.

**`HandBrakeProofs`.**
- `TypeCorrect`: types.
- `BrakeIsDurable` (`Spec => []BrakeDurable`). `BrakeDurable` says nothing about
  a handler half way, so it is not inductive. `GateInv` adds, for each place of
  both handlers, what setting and gate are: an engage writes the setting before
  the gate, a release clears it before the gate, so a restart at any place boots
  into a state the invariant allows.
- `ReleaseIsExact` (`Spec => ReleaseRestores`). `RestoreInv` keeps the brake's
  books: `Owed` is the set of lanes it still has to give back, wherever it is
  written at the moment (in the handler's memory, in the settings row, or in the
  release's loop); every paused lane is owed or an operator's, and no owed lane
  is an operator's except those paused under the brake. It is assumed as long as
  no call has failed; section 8 says why.

**`TaskEngineProofs`.**
- `TypeCorrect`: types of the whole engine.
- `TasksRunOnce` (`Spec => []OneRunnerPerTask`), from `Invariant`
  (`Spec => []IInv`). The lock alone does not carry the argument:
  `RemoveIdleTask` and the pruner delete a job's lock while a goroutine for it
  may be spawned and not yet at its claim. What saves it is that a deleted job
  never exists again, so no second goroutine can follow; the
  invariant has to say so. Its parts: `RunnerInv` (live runners of one task are
  one, and as long as their task exists its lock is held), `PollInv` (the task
  whose lock poll holds has no runner), `SubmittedInv` (a job that exists, or
  that poll has in hand, has had a row; a new submit takes a job that never had
  one, so none comes back), `PlaceInv` (what the places of poll and of the
  process imply of each other), `VerdictInv`, and the types and `RowsInv` of the
  store. `IInv` was model-checked before it was proved; weakening the lock's
  guards makes the proof fail.
- The lemmas per operation of the store that these proofs cite are at the start
  of the module.
- `JobsRunUnderTheirRows` (`Spec => []JobRunsUnderItsRow`) and
  `CancelsMissNothing` (`Spec => CancelMissesNothing`), both from
  `JobInvariant`, on top of `IInv`. `JobInv` says that a job is worked on exactly when its row is
  "running" (`RowInv`); the second half is needed for the cancel, which must not
  meet a running row without a registered runner, and has to account for rows a
  crash left behind: they are on the boot's list until they are closed, and no
  request comes in before that. `CommandInv` keeps jobs out of the places only
  commands pass, and `CancelInv` says what a cancel has achieved between its two
  halves. The proof reduces every step to what it does to a row and its runner
  (`Settled`).

- The module's last part, the books, is on top of `IInv` and `JobInv`
  (`BooksInvariant`).
- `EngineKeepsLedger` (`Spec => KeepsLedger`): the refinement of
  `ExecutionLedger`, one lemma per action of the engine, each a step of one row
  of the ledger or none. The ledger counts a closed row once; in the engine the
  closing of a row and its metric are two steps, and a rerun, a deletion, a crash
  or a boot may come between. `MeterInv` says who is about to count what: a
  runner at "finished" has a closed row nobody counted (`EntryInv`), the boot one
  it has just closed (`OrphanInv`); and since only its runner moves a command's
  row, the place of the runner tells the status.
- `ClosesClean` (`Spec => CleanClose`). What a close leaves is decided long
  before: `TendedRow` says that a "running" row of a command has a registered
  runner and a closed one a metric or a runner about to write it, `OwnedInv` that
  a lock is held by poll or by a live runner. Both hold in the first life of a
  process only (`FirstLife`): a crash takes the runners and leaves the rows and
  locks. So the property speaks of the first stop.
- `SweepReachesAll` (`Spec => SweepMissesNothing`). The sweep asks the registry.
  By `TendedRow` what runs is in it, but for commands that outlived an earlier
  process (`NoSurvivors`), which no registry holds; `HandlerInv` says that a
  process that has stopped sweeps no more.
- `JobsStartInOrder` (without reruns, `Spec => QueueOrder`; it also assumes that
  the user's commands are finitely many, since places are counted). Poll launches
  from a list it read some steps before, lane by lane, and skips a task whose lock
  is taken. `NonePassed` says of each stage (the list, the candidates of a lane,
  the task in hand) that whoever is in it has no older queued, unlocked job outside
  it. A lock that becomes free would break that, so a job must not be queued
  when its lock is given back: `LeavesNothing` says it of the runner, `HandInv` of
  poll, and `OneQueuedRow` that no second row is waiting. `FirstAreFirst` is the
  fact about counting: a cut of the list takes the older of two jobs with the
  younger. Expired locks come free only before a list is read.

**`CertRotationProofs`.**
- `RotationInvariant` (`Spec => []IInv`) gives `RotationTypes`,
  `AlwaysStructurallySound`, `AlwaysSignedByRecorded` and `AlwaysPreviousInUse`;
  `AlwaysReplacedAsRead` and `NamesAreKept` are about steps.
- `StructurallySound` is not inductive: a transaction writes what its request
  read some steps before. `IInv` adds what can be relied on then. Of the store:
  `TrueSigner`, `Needed` (which is `PreviousInUse`), a current authority wherever
  there is any, and the ranges of ids. Of a request: the ids it holds were given
  out (`TypeInv`), and `Informed`: rows of a previous authority come with that
  authority and with a choice about them, and a switch back has both
  authorities. That they still are what the request took them for is not
  invariant; it follows from the checks inside the transaction.
- The hard case is the replacement, which signs leaves outside its transaction.
  `ReplaceInformed` shows that one which passes the checks inside it meets no
  authority in the store but the two it read, and no active row but those it
  read. From that follows that the choices (issue again, archive, keep) cover
  every active row, so that no row is left under a retired authority
  (`RetiringKeeps`), and that what is dropped at the end is not needed
  (`DropUnusedKeeps`). Other steps add rows under an authority that is stored, or
  lose rows, and losing rows breaks nothing (`Fewer`).
- `NamesAreKept` (`Spec => NoNameLost`). An edit archives the row it read by its
  id, steps after reading it. That this takes away the edit's own name and no
  other needs `NameInv`: rows of one id are of one name, and a request that has
  read its row knows the name of every row of that id (`Sourced`). New rows must
  therefore have ids nobody else has, also those of a replacement that issues two
  groups of rows at once (`AgainIds`: each group is numbered by rank, and the
  second starts where the first ends).

**`OutputStreamProofs`.**
- `StreamInvariant` (`Spec => []IInv`) gives `StreamTypes`, `AlwaysInOrder` and
  `DoneIsComplete` (`Spec => []DoneLosesNothingElse`).
- `InOrder` speaks of lines already sent. It needs `RingHolds`: line `n` is at
  place `(n - 1) % RingSize` until the ring has gone round (`PlacesDiffer`: two
  lines less than a ring apart have different places), so a replay sends exactly
  the lines it should; and it needs that what waits in a channel comes after all
  that was sent, in order.
- `DoneLosesNothingElse` speaks of the moment "done" is sent. `Good` accounts, at
  every place of the handler, for every line written: it has been sent, waits in
  the channel, or is one the viewer is not owed (overwritten before the replay,
  written between replay and subscription, dropped by a full channel). A handler
  that has given a channel up knows that the stream is closed, and `WorkerOrder`
  that a closed capture gets no more lines.

**`HaproxyApplyProofs`.**
- `ApplyInvariant` (`Spec => []IInv`) gives `ApplyTypes`, `AnswersAreTrue`
  (`OutcomeIsTrue`), `AlwaysRunsWhatIsLive`, `AlwaysKeepsLiveCerts` and
  `AlwaysBackedUp`. Its parts speak of the places between the first call of a
  request and its answer, about which the properties say little.
- `PlaceInv` is what files and process are at each place of `run` and of the
  rollback: nothing is touched while the request is staged; after the
  installation what is live is the candidate; a service that was not active
  stays down until the load; a rollback that is not cut off has failed a call or
  has put back what it has passed, and skips the reload only where nothing new
  was loaded.
- `CertInv`: whatever list may become live (the live one, the one before, a
  candidate that was validated) names only certificates whose files are there,
  but for `unkept`. The cleanup deletes the files of names with a superseded row,
  so it needs that no row is both enabled and superseded (`Clean`, kept by every
  operation on rows, the adoption of an old list included), and that an Apply's
  list names no superseded row except those a pull superseded meanwhile and those
  of a name tracked more than once (`Twice`): one row enabled, another superseded.
  Until the crt-list is read, a request claims nothing about its candidate.
- `BackupInv`: the request's own copies are in the directory or still to be
  written, and none has a later timestamp, so pruning to the newest
  `BackupKeep` cannot take them.

**`BroadcastProofs`.**
- `BroadcastInvariant` (`Spec => []IInv`) gives `BroadcastTypes` and
  `AlwaysButtonMeansOver`, for any number of jobs and targets and any channel.
- `ButtonMeansOver` speaks of the moments when the button is enabled. `PageInv`
  says what keeps it disabled: a broadcast is unfinished exactly while its page
  is at certain places, at most one is, and the button is enabled only when none
  is; so a late event of an earlier web socket finds its flag set and does
  nothing. `DoneInv` says that a job that is done is over for good, and that
  "complete" was sent only of such a one, with its rows. `MadeInv` and `RowsInv`
  are about jobs not made yet and rows not built yet.

**`SlidePlaylistProofs`.**
- `PlaceKept` (`Spec => []IInv`) gives `PlaylistTypes`, `PassesShowAll` and
  `RescanStaysPut`, for any finite set of images and any number of controls and
  scans. `Slides` runs under `FairSpec`, which implies `Spec`.
- The lemmas before it are about the operators: `InOrderSorts` (each k up to the
  size of a finite set of naturals has one element with k - 1 smaller ones, by
  counting: an injection between finite sets of one size is onto) and
  `SubjectsSorted` (a scan's rotation holds the images scanned, sorted).
- `NothingSkipped` speaks of the end of a pass only. `PassInv` says what holds
  during one: what stayed has been on show or has a place ahead. An advance shows
  the first of what is ahead (`AheadComesUp`). A rescan moves everything: images
  before and after the one on show come and go, and positions shift. What it
  keeps in name order is which names the image on show precedes
  (`PlacesInOrder`), so what was ahead still is (`AheadStays`); a shuffled
  rescan has no such order, and ends the pass's claim.

**`GroceryProofs`.**
- `PageBooks` (`Spec => []IInv`) gives `PageTypes`, `DiskFollowsMemory`
  (`Spec => []MemoryMatchesDisk`) and `NoOrphans` (`Spec => []NoOrphanIngredient`).
- The store's two properties are kept by `Serve` alone (`ServeKeeps`), provided
  that requests are of rows and marks of their sort (`RequestOK`). The page builds
  a request from an object when it sends it, which may be long after the edit, so
  the proof follows the objects: `PageInv` says that what a closure holds or a
  list shows has a mark of its row's sort, through in-place edits, a recipe's
  switch that replaces its rows' objects, merges of late lists and answers that
  are adopted; `OpInv` and `FetchInv` that an answer or list has such marks too,
  and a row where one is adopted.
- The model numbers objects, and a step takes the least number nothing refers to.
  `SlotLeft` shows by counting that there is always one: closures hold one object
  each and lists two per row, so `MaxEdits + 2` never run out.
- `QueueInv` (what is queued waits there, once) and the part of `FetchInv` about
  repairs say that the steps which pass a closure on never touch another one.
- The initial rows include the recipe of every ingredient (`SyncAssumption`), as
  in any document the store has written.
- The second half is about the user's intent: `IntentKept` (`Spec => []SInv`) and
  `SettledHolds` (`Spec => []SettledAsAsked`). `SettledAsAsked` speaks of the end,
  when nothing is queued or on its way; `SInv` says what holds of an un-excused
  row at every moment before.
  - `WantInv`: among the edits the server has not served yet, the youngest one that
    writes the row asks for what the user wants (`Asks`: what a queued closure will
    read from its object, or what a request carries); where there is none, the
    server has it already.
  - `Apart` and `Serial`: one request about the row is on its way at a time, and
    what is queued about it is younger and behind an await. Without them a
    younger request could be served first.
  - `RowInv`: a closure sends what it finds in its object when its turn comes, so
    the invariant must say what it finds: a new row's object is the one shown, has
    a temporary id until its POST is answered, and is marked gone exactly when the
    user deleted it; an edit of it waits behind its creation.
  - `NewInv`: until its POST is served no list, answer or document has the row,
    and the server will take it, its recipe being there; so a merge cannot bring
    a second copy of it.
  - `OrderInv`, `MadeInv`, `FirstInv` and `GhostInv` order the queue and the edits
    of a row, and say which rows exist.
  - One lemma per action (`ServeOpSettles`, `ToggleSettles`, ...) shows that it
    keeps `SInv`. The hard ones touch many rows: a recipe's switch replaces the
    objects of its ingredients, its deletion takes them with it, a late list or
    adopted answer is merged into both lists. `SInv` was model-checked before it
    was proved. It was not inductive with the race of overlapping reconnects noted
    at the second switch only, and TLC found why, with three reconnects: section 8
    (`main.ts:441`). `Overtaken` now excuses what is replayed then.

**Only model-checked.** Liveness (`QueuedJobServed`, `RunningJobClosed`,
`EveryImageComesUp`, `ReplayEnds`, `ModalSpeaks`, `EveryBroadcastEnds`), which needs
`ENABLED`.

## 8. Known divergences

**With a run.** `JobRefires`: `cancelexec.go` and the guide promise that a queued
job, once canceled, never runs. Canceled between poll's list and its lookup of the
pending row, it gets a fresh execution (`worker.go:229`) and runs.

`PROJECT.json` quotes the lines.

**Read while modelling.** The models contain these behaviours; where a property
would exclude them it says so in its comment.

| where | said | what the code does |
|---|---|---|
| `handlers_control.go:157` | a release restores exactly the pre-brake pause state (121-131) | the set is recorded after the pause loop; a failed call or a crash inside it leaves lanes paused that no release knows of |
| `worker.go:283` | nothing new launches under the brake (`docs/guides/taskmaster.md`:323) | the gate is read once; a command past that look starts after the gate shut |
| `handlers_control.go:162` | every running execution is canceled (guide:320) | a job claimed after the list and checked before the gate shuts is in neither |
| `worker.go:178` | width 1 is one task at a time (guide:24) | `running` rows are counted; a launched job is not one until its claim |
| `db.go:635` | a non-repeating command runs once (guide:243) | canceled, it counts as never run and is launched again |
| `reconcile.go:24` | a survivor's row is as if no restart had happened (13-15) | nobody closes it when the command exits |
| `db.go:672` | up-next reuses a pending row (guide) | `EnqueueTask` inserts another |
| `carotate.go:711` | ids are those read in the same transaction (354-356); a change of either is `ErrConcurrentChange` | the ids read before it are passed in and compared with themselves; the second of two replacements fails on the unique index, as an internal error |
| `haproxy/certimport.go:71` | a cert the live list names "must keep its file" (`handler.go`:823-824) | `Import` lists the untracked files, frees the lock, takes it again and appends without a second look: a pull's row in between, or another import's, and the name is tracked twice. A later pull supersedes one of the rows, the other stays in the list, and the cleanup deletes the file under both (`unkept`) |
| `haproxy/certimport.go:24` | "enabled, unless a CertMachine copy of the same host already is" (60) | a pulled file has a hash in its name, so its guessed host is none: found untracked (after a crash between file and row), it comes in enabled beside the copy that replaced it, and no pull supersedes it |
| `haproxy/handler.go:888` | a cert the live list names keeps its file (823-824) | pulls do not take the applier's lock: one between rendering and cleanup supersedes a certificate the new list names, and its file goes (`unkept`) |
| `haproxy/apply.go` `run` | "rolled back" | after a first installation on a stopped service there is nothing to reload; and a request closed under way stops its own rollback. A crash between install and reload leaves files unloaded, and the next Apply says "No changes" (`torn`) |
| `web/grocery/js/main.ts:494` | every adopted answer is checked for its shape (576-583) | `syncAddItem`'s is not: a create refused during a replay sets the row's id to undefined, and merging then throws at each refresh |
| `web/grocery/js/main.ts:441` | no answer is adopted while the queue drains, as it "would clobber a newer local edit a later op is about to read" (424-430) | all calls of `replayPendingOps` share the flag: one that finds the queue empty clears it while an earlier one awaits its last answer. An edit of the next offline period is queued behind that await, and the answer is adopted over it: a recipe switched on, then off, is sent as on |
| `web/grocery/js/main.ts:1945` | the page fetches again after any mutation (1956) | it reads first and registers afterwards: a mutation in between shows only with the next |
| `worker/stream.go:166` | – | lines written between replay and subscription are not sent; if the command ends in between, "done" follows at once, and a modal with no line says that none was captured |
| `outputmodal.ts:118` | – | after a lost connection the handler replays from the start into the same box, so lines appear twice; `status` leaves the source open, which connects again |
| `worker/stream.go:81` | – | a viewer waiting for a row that is then deleted, or one left `running` by a dead command's survivor, waits for ever |
| `upload.ts:364` | – | a lost connection gives the button back while the job runs on: a second broadcast may write the same remote file at the same time, and nothing shows the first one's end |
| `broadcast.go:345` | – | frames that arrive between subscription and snapshot are shown after the snapshot, so a row may for a moment go back to an older state; the last snapshot repairs it |
| `sshproxy/transfer.go:66` | – | after the dial a transfer has no deadline: a host that stops answering keeps its row at `transferring` and the button disabled |

A lane that an operator pauses while the brake holds it is resumed by the
release: the exception in `ReleaseRestores`.

## 9. Running

In this directory: `tlc -config Tasks.cfg MCTaskEngine`, and so on with the
module and configuration names of `PROJECT.json`; `tlapm TaskEngineProofs.tla`
for the proofs. `Tasks`, `BrakeJobs`, `JobProgress` and `Haproxy` take one to three
minutes on two workers, the others less; the proofs of a
module take a few minutes, those of `GroceryProofs` about ten.

## 10. Not modelled

- Task and lane editing, ordering and widths, exports and history queries of
  taskmaster: single statements that no other actor reads in part. Suspending and
  resuming a process (`process.go`): signals, kept in memory only. Progress
  reports and board events: best effort, nothing depends on them.
- Platform auth, the admin module: sessions and policies are maps under one
  mutex; what is hard there is the text of a configuration file, which these
  models do not represent.
- HAProxy: `Check` (but for the files it includes) and `Pending`, parsing and
  rendering, coverage, settings, the macOS driver.
- Certmachine: contents of keys and certificates, bundles, remote trust,
  migrations, progress events and the front end.
- Slideshow: the channel for a new interval, published snapshots, cards, music.
- Grocery: moves, reorders, groups, titles, the bulk sync, rendering. Some of these
  keep a change whose save failed, as `SaveGroups` does (`store.go:86`), so
  `MemoryMatchesDisk` speaks of items, recipes and ingredients only.
- Multissh: staged uploads, terminals, hosts, the file picker, and how long
  credentials live.
- Todo, timetracker, issuetracker, obsidianoid, smbedit, utuber,
  menuserver: one document or database under one lock, or I/O; utuber's use of
  taskmaster is what `TaskEngine`'s job operations model.
- Vendored and generated JavaScript (jQuery, the `bundle.js` files).
- Beyond the prover: liveness. No module declares a recursive operator.
