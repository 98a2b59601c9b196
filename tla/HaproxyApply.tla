---------------------------- MODULE HaproxyApply -----------------------------
(***************************************************************************)
(* The Apply and Restore pipeline of the HAProxy module                    *)
(* (internal/haproxy/apply.go, backup.go), one driver call at a time, with *)
(* HAProxy itself, the model store, and the certificate handlers that run  *)
(* beside it.                                                              *)
(*                                                                         *)
(* A configuration is reduced to the model it was rendered from, the       *)
(* crt-list to the number of its lines for each certificate.  Any driver   *)
(* call may fail, the server may stop at any step, and the page may close  *)
(* its request.                                                            *)
(***************************************************************************)
EXTENDS HaproxyCerts

CONSTANTS
    NoFile,         \* a live file that does not exist
    Original,       \* the configuration the operator wrote by hand
    MaxModels,      \* bound: saved models
    MaxRequests,    \* bound: requests
    MaxFaults,      \* bound: failed calls, crashes, closed requests
    MaxPulls,       \* bound: pulls, imports and toggles of certificates
    BackupKeep

ASSUME ApplyAssumption ==
    /\ {MaxModels, MaxRequests, MaxFaults, MaxPulls, BackupKeep} \subseteq Nat /\ MaxModels # 0
    /\ NoFile # Original /\ {NoFile, Original} \cap Nat = {}
    /\ NoFile \notin [Cert -> Nat]

VARIABLES
    model,          \* the saved model
    live,           \* the live files: cfg and crt
    loaded,         \* the files HAProxy runs with, Down when it is stopped
    baks,           \* the backup directory
    op,             \* the request that holds the applier's lock
    requests, faults, pulls,
    torn,           \* history: a crash or failed rollback left files unloaded
    unkept          \* history: certificates LiveCertsKept does not speak of

fileVars == <<live, loaded, baks>>
boundVars == <<requests, faults, pulls>>
ghosts == <<torn, unkept>>
vars == <<certVars, model, fileVars, op, boundVars, ghosts>>

Models == 1..MaxModels
Down == [cfg |-> NoFile, crt |-> NoFile]

\* The certificates a crt-list names; one that does not exist names none.
Listed(crt) == IF crt = NoFile THEN {} ELSE {c \in Cert : crt[c] > 0}

Idle == [pc |-> "idle", kind |-> "none", cand |-> Down, before |-> Down, ran |-> Down,
         active |-> FALSE, cfgIn |-> FALSE, reload |-> FALSE, todo |-> <<>>, names |-> {},
         gone |-> FALSE, errs |-> FALSE, outcome |-> "none"]

\* Could HAProxy load these files?  A generated configuration needs a crt-list
\* with at least one certificate, and the file of every one it names.
Loads(f) == \/ f.cfg = Original
            \/ f.cfg \in Models /\ Listed(f.crt) # {} /\ Listed(f.crt) \subseteq files

-----------------------------------------------------------------------------
\* Calls into the driver.  One works, fails without effect, or is cut off by
\* its request being closed: its command is killed before or after its effect,
\* and every later call of the request fails.

Ends == {"ok", "fails", "cut"}

Leaves(end, old, new) == CASE end = "ok" -> {new} [] end = "fails" -> {old} [] OTHER -> {old, new}

\* after: the request once the call has ended.
Call(end, after) ==
    /\ end # "fails" => ~op.gone
    /\ end = "ok" \/ op.gone => UNCHANGED faults
    /\ end # "ok" /\ ~op.gone => faults < MaxFaults /\ faults' = faults + 1
    /\ op' = [after EXCEPT !.gone = op.gone \/ end = "cut"]

Go(pc) == [op EXCEPT !.pc = pc]
\* Mutant: the outcome is set but the function does not return.
DoneNoReturn(outcome) == [op EXCEPT !.outcome = outcome]
Done(outcome) == [op EXCEPT !.pc = "done", !.outcome = outcome]
\* Mutant: the files are put back, the old ones not reloaded.
RollBackUnloaded(reload) == [op EXCEPT !.pc = "rbcfg", !.reload = FALSE]
RollBack(reload) == [op EXCEPT !.pc = "rbcfg", !.reload = reload]

-----------------------------------------------------------------------------
\* Apply up to its candidate (certsGap, renderCandidate, compare).  Each read of
\* certs.json and of the models has a lock of its own; the live files stay what
\* they are for as long as the applier's lock is held.

Begin(kind, pc, cand) ==
    /\ op.pc = "idle" /\ requests < MaxRequests
    /\ requests' = requests + 1
    /\ op' = [Idle EXCEPT !.pc = pc, !.kind = kind, !.cand = cand, !.before = live, !.ran = loaded]
    /\ UNCHANGED <<certVars, model, fileVars, faults, pulls, ghosts>>

Apply == Begin("apply", "found", Down)

\* includeAll: Importable, and Importable again in Import; an error is only
\* logged.
ListFound(end) ==
    /\ op.pc = "found"
    /\ LET found == Untracked(rows, files)
       IN Call(end, IF end = "ok" /\ found # {} THEN [op EXCEPT !.pc = "again", !.names = found]
                    ELSE Go("count"))
    /\ UNCHANGED <<certVars, model, fileVars, requests, pulls, ghosts>>

ListAgain(end) ==
    /\ op.pc = "again"
    /\ Call(end, IF end = "ok" THEN [op EXCEPT !.pc = "adopt", !.names = @ \cap Untracked(rows, files)]
                 ELSE Go("count"))
    /\ UNCHANGED <<certVars, model, fileVars, requests, pulls, ghosts>>

\* A save that fails leaves what a listing that fails does.
AdoptFound ==
    /\ op.pc = "adopt"
    /\ rows' = Adopted(rows, op.names)
    /\ op' = Go("count")
    /\ UNCHANGED <<files, pull, adopting, model, fileVars, boundVars, ghosts>>

CountEnabled ==
    /\ op.pc = "count"
    /\ op' = IF Listed(CrtList(rows)) = {} THEN Done("needs_certs") ELSE Go("model")
    /\ UNCHANGED <<certVars, model, fileVars, boundVars, ghosts>>

ReadModel ==
    /\ op.pc = "model"
    /\ op' = [op EXCEPT !.pc = "crtlist", !.cand.cfg = model]
    /\ UNCHANGED <<certVars, model, fileVars, boundVars, ghosts>>

ReadCrtList ==
    /\ op.pc = "crtlist"
    /\ op' = [op EXCEPT !.pc = "compare", !.cand.crt = CrtList(rows)]
    /\ UNCHANGED <<certVars, model, fileVars, boundVars, ghosts>>

Compare(end) ==
    /\ op.pc = "compare"
    /\ Call(end, CASE end # "ok" -> Done("error")
                   [] end = "ok" /\ op.cand = live -> Done("no_changes")
                   [] OTHER -> Go("validate"))
    /\ UNCHANGED <<certVars, model, fileVars, requests, pulls, ghosts>>

\* Restore: a config backup brings the crt-list backup of its own name along;
\* what has no backup stays as it is, a missing file as an empty one.
Restore(b) ==
    /\ b \in baks
    /\ LET mates == {m \in baks : m.kind = "crt" /\ m.ts = b.ts /\ m.orig = b.orig}
           kept == IF live.crt = NoFile THEN [c \in Cert |-> 0] ELSE live.crt
       IN Begin("restore", "validate",
                CASE b.kind = "crt" -> [cfg |-> live.cfg, crt |-> b.text]
                  [] b.kind = "cfg" /\ mates = {} -> [cfg |-> b.text, crt |-> kept]
                  [] OTHER -> [cfg |-> b.text, crt |-> (CHOOSE m \in mates : TRUE).text])

-----------------------------------------------------------------------------
\* What Apply and Restore share, up to the installation.

\* stageAndValidate, in a directory of its own.
Validate(end) ==
    /\ op.pc = "validate"
    /\ Call(end, IF end = "ok" /\ Loads(op.cand) THEN Go("list") ELSE Done("validation_failed"))
    /\ UNCHANGED <<certVars, model, fileVars, requests, pulls, ghosts>>

\* The files backup() writes, in its order: each live file that exists and, the
\* very first time, its original beside it.
Copies(first) ==
    LET copy(kind, orig) == [kind |-> kind, ts |-> requests, orig |-> orig, text |-> op.before[kind]]
        of(kind, exists) == IF ~exists THEN <<>>
                            ELSE <<copy(kind, FALSE)>> \o IF first THEN <<copy(kind, TRUE)>> ELSE <<>>
    IN of("cfg", op.before.cfg # NoFile) \o of("crt", op.before.crt # NoFile)

BackupList(end) ==
    /\ op.pc = "list"
    /\ Call(end, IF end = "ok" THEN [op EXCEPT !.pc = "backup", !.todo = Copies(baks = {})]
                 ELSE Done("error"))
    /\ UNCHANGED <<certVars, model, fileVars, requests, pulls, ghosts>>

BackupWrite(end) ==
    /\ op.pc = "backup" /\ op.todo # <<>>
    /\ baks' \in Leaves(end, baks, baks \cup {Head(op.todo)})
    /\ Call(end, IF end = "ok" THEN [op EXCEPT !.todo = Tail(@)] ELSE Done("error"))
    /\ UNCHANGED <<certVars, model, live, loaded, requests, pulls, ghosts>>

\* Mutant: the names sorted oldest first.
SurplusNewest == {b \in baks : /\ ~b.orig /\ BackupKeep > 0
                               /\ Cardinality({x \in baks : x.kind = b.kind /\ ~x.orig /\ x.ts < b.ts}) >= BackupKeep}

\* prune: the newest BackupKeep of a kind stay, and every original; a failure
\* is only logged.
Surplus == {b \in baks : /\ ~b.orig /\ BackupKeep > 0
                         /\ Cardinality({x \in baks : x.kind = b.kind /\ ~x.orig /\ x.ts > b.ts}) >= BackupKeep}

Prune(end) ==
    /\ op.pc = "backup" /\ op.todo = <<>>
    /\ baks' \in Leaves(end, baks, baks \ Surplus)
    /\ Call(end, Go("status"))
    /\ UNCHANGED <<certVars, model, live, loaded, requests, pulls, ghosts>>

\* Is HAProxy running?  A status that cannot be read counts as running.
Status(end) ==
    /\ op.pc = "status"
    /\ Call(end, [op EXCEPT !.pc = "crt", !.active = (end = "ok" => loaded # Down)])
    /\ UNCHANGED <<certVars, model, fileVars, requests, pulls, ghosts>>

-----------------------------------------------------------------------------
\* The installation.

InstallCrt(end) ==
    /\ op.pc = "crt"
    /\ live' \in Leaves(end, live, [live EXCEPT !.crt = op.cand.crt])
    /\ Call(end, IF end = "ok" THEN Go("cfg") ELSE Done("rolled_back"))
    /\ unkept' = unkept \cup IF op.cand.cfg = Original THEN Listed(op.cand.crt) \ files ELSE {}
    /\ UNCHANGED <<certVars, model, loaded, baks, requests, pulls, torn>>

InstallCfg(end) ==
    /\ op.pc = "cfg"
    /\ live' \in Leaves(end, live, [live EXCEPT !.cfg = op.cand.cfg])
    /\ Call(end, IF end = "ok" THEN [op EXCEPT !.pc = "load", !.cfgIn = TRUE] ELSE RollBack(op.active))
    /\ UNCHANGED <<certVars, model, loaded, baks, requests, pulls, ghosts>>

\* systemctl reload fails on a stopped service; either fails when HAProxy
\* cannot load the files, and a failed reload leaves the old process running.
CanReload == loaded # Down /\ Loads(live)
CanStart == loaded # Down \/ Loads(live)
Starts == IF loaded = Down THEN live ELSE loaded

Load(end) ==
    /\ op.pc = "load"
    /\ LET can == IF op.active THEN CanReload ELSE CanStart
           new == IF op.active THEN live ELSE Starts
       IN /\ loaded' \in Leaves(end, loaded, IF can THEN new ELSE loaded)
          /\ Call(end, IF end = "ok" /\ can THEN Go("verify") ELSE RollBack(op.active))
    /\ UNCHANGED <<certVars, model, live, baks, requests, pulls, ghosts>>

\* The service must be active and its stats socket answer.  Restore does not
\* run the cleanup.
Verify(end) ==
    /\ op.pc = "verify"
    /\ Call(end, CASE end = "ok" /\ loaded # Down /\ op.kind = "apply" -> [Go("sweep") EXCEPT !.outcome = "applied"]
                   [] end = "ok" /\ loaded # Down /\ op.kind = "restore" -> Done("applied")
                   [] OTHER -> RollBack(op.active \/ op.before.cfg # NoFile))
    /\ UNCHANGED <<certVars, model, fileVars, requests, pulls, ghosts>>

-----------------------------------------------------------------------------
\* rollback: the config, the crt-list, the reload; an error does not stop it.

Erred(next, failed) == [next EXCEPT !.errs = @ \/ failed]

RestoreCfg(end) ==
    /\ op.pc = "rbcfg"
    /\ IF op.cfgIn
       THEN /\ live' \in Leaves(end, live, [live EXCEPT !.cfg = op.before.cfg])
            /\ Call(end, Erred(Go("rbcrt"), end # "ok"))
       ELSE /\ end = "ok"
            /\ op' = Go("rbcrt")
            /\ UNCHANGED <<live, faults>>
    /\ UNCHANGED <<certVars, model, loaded, baks, requests, pulls, ghosts>>

RestoreCrt(end) ==
    /\ op.pc = "rbcrt"
    /\ live' \in Leaves(end, live, [live EXCEPT !.crt = op.before.crt])
    /\ Call(end, Erred(Go("rbload"), end # "ok"))
    /\ UNCHANGED <<certVars, model, loaded, baks, requests, pulls, ghosts>>

\* Mutant: what failed in the rollback is not counted.
RolledBackAnyhow(o) == [o EXCEPT !.pc = "done", !.outcome = "rolled_back"]
RolledBack(o) == [o EXCEPT !.pc = "done", !.outcome = IF o.errs THEN "rollback_failed" ELSE "rolled_back"]

ReloadOld(end) ==
    /\ op.pc = "rbload"
    /\ IF op.reload
       THEN /\ loaded' \in Leaves(end, loaded, IF CanReload THEN live ELSE loaded)
            /\ Call(end, RolledBack(Erred(op, end # "ok" \/ ~CanReload)))
       ELSE /\ end = "ok"
            /\ op' = RolledBack(op)
            /\ UNCHANGED <<loaded, faults>>
    /\ UNCHANGED <<certVars, model, live, baks, requests, pulls, ghosts>>

-----------------------------------------------------------------------------
\* After a successful Apply: removeSuperseded, in two reads of certs.json.
\* unkept: the names it drops that are tracked more than once.

ListSuperseded(end) ==
    /\ op.pc = "sweep"
    /\ Call(end, IF end = "ok" THEN [op EXCEPT !.pc = "remove", !.names = Superseded(rows)] ELSE Done("applied"))
    /\ UNCHANGED <<certVars, model, fileVars, requests, pulls, ghosts>>

DropSuperseded(end) ==
    /\ op.pc = "remove"
    /\ RemoveSuperseded(op.names, end = "ok")
    /\ Call(end, Done("applied"))
    /\ unkept' = unkept \cup {c \in op.names \cap Superseded(rows) : Len(rows[c]) > 1}
    /\ UNCHANGED <<model, fileVars, requests, pulls, torn>>

\* The answer; the lock is free again.
Answer ==
    /\ op.pc = "done"
    /\ op' = Idle
    /\ torn' = CASE op.outcome = "applied" -> FALSE
                 [] op.outcome = "rollback_failed" -> TRUE
                 [] OTHER -> torn \/ op.gone
    /\ UNCHANGED <<certVars, model, fileVars, boundVars, unkept>>

-----------------------------------------------------------------------------
\* Beside the lock: the model and the certificates.

SaveModel ==
    /\ model < MaxModels
    /\ model' = model + 1
    /\ UNCHANGED <<certVars, fileVars, op, boundVars, ghosts>>

Pulls == pulls < MaxPulls /\ pulls' = pulls + 1

PullFile(c) ==
    /\ Pulls
    /\ PullWrite(c)
    /\ UNCHANGED <<model, fileVars, op, requests, faults, ghosts>>

\* unkept: what this supersedes of the list an Apply has rendered.
PullRow(c) ==
    /\ PullTrack(c)
    /\ unkept' = (unkept \ ({c} \cap files)) \cup
               IF op.kind = "apply" THEN Listed(op.cand.crt) \cap Superseded(rows') ELSE {}
    /\ UNCHANGED <<model, fileVars, op, boundVars, torn>>

\* The import page, one request of it at a time; a Check's inclusion of what it
\* finds, which holds the applier's lock, is one of these too.
Import(names) ==
    /\ Pulls
    /\ ImportList(names)
    /\ UNCHANGED <<model, fileVars, op, requests, faults, ghosts>>

Imported ==
    /\ ImportRows
    /\ UNCHANGED <<model, fileVars, op, boundVars, ghosts>>

Toggle(c, b) ==
    /\ Pulls
    /\ SetEnabled(c, b)
    /\ UNCHANGED <<model, fileVars, op, requests, faults, ghosts>>

\* handleCertDelete, under the lock: not while the live crt-list names the file.
\* Whether a service uses it is not looked at: models are no more than numbers.
Delete(c, saved) ==
    /\ op.pc = "idle"
    /\ rows[c] # <<>> /\ c \notin Listed(live.crt)
    /\ IF saved THEN UNCHANGED faults ELSE faults < MaxFaults /\ faults' = faults + 1
    /\ Remove(c, saved)
    /\ UNCHANGED <<model, fileVars, op, requests, pulls, ghosts>>

-----------------------------------------------------------------------------
\* The service actions, which take the lock, and HAProxy itself.

Running(new) ==
    /\ loaded' = new
    /\ torn' = (torn /\ new = loaded)
    /\ UNCHANGED <<certVars, model, live, baks, op, boundVars, unkept>>

Reload == op.pc = "idle" /\ CanReload /\ Running(live)
Restart == op.pc = "idle" /\ Running(IF Loads(live) THEN live ELSE Down)
Start == op.pc = "idle" /\ CanStart /\ Running(Starts)

Fault == faults < MaxFaults /\ faults' = faults + 1

Dies ==
    /\ loaded # Down
    /\ Fault
    /\ loaded' = Down
    /\ UNCHANGED <<certVars, model, live, baks, op, requests, pulls, ghosts>>

\* The server stops in the middle of whatever it does, alone or with the host,
\* which starts HAProxy again on the way up.  Before it serves requests, the
\* server includes what it finds in the certs directory, if it can (build).
Crash(host) ==
    /\ op.pc # "idle" \/ pull # {} \/ adopting # {}
    /\ Fault
    /\ op' = Idle
    /\ pull' = {} /\ adopting' = {}
    /\ rows' \in {rows, Adopted(rows, Untracked(rows, files))}
    /\ loaded' = IF ~host THEN loaded ELSE IF Loads(live) THEN live ELSE Down
    /\ torn' = (~host /\ (torn \/ op.pc # "idle"))
    /\ UNCHANGED <<files, model, live, baks, requests, pulls, unkept>>

-----------------------------------------------------------------------------
Init ==
    /\ CertInit
    /\ model = 1
    /\ live \in [cfg : {Original, NoFile}, crt : {NoFile}]
    /\ loaded \in {Down} \cup {f \in {live} : Loads(f)}
    /\ baks = {} /\ op = Idle
    /\ requests = 0 /\ faults = 0 /\ pulls = 0
    /\ torn = FALSE /\ unkept = {}

Steps(end) ==
    \/ ListFound(end) \/ ListAgain(end) \/ Compare(end)
    \/ Validate(end) \/ BackupList(end) \/ BackupWrite(end) \/ Prune(end) \/ Status(end)
    \/ InstallCrt(end) \/ InstallCfg(end) \/ Load(end) \/ Verify(end)
    \/ RestoreCfg(end) \/ RestoreCrt(end) \/ ReloadOld(end)
    \/ ListSuperseded(end) \/ DropSuperseded(end)

Next ==
    \/ Apply
    \/ AdoptFound \/ CountEnabled \/ ReadModel \/ ReadCrtList
    \/ \E b \in baks : Restore(b)
    \/ \E end \in Ends : Steps(end)
    \/ Answer
    \/ SaveModel
    \/ \E c \in Cert : PullFile(c) \/ PullRow(c)
    \/ (\E names \in SUBSET Cert : Import(names)) \/ Imported
    \/ \E c \in Cert, b \in BOOLEAN : Toggle(c, b) \/ Delete(c, b)
    \/ Reload \/ Restart \/ Start
    \/ Dies
    \/ \E host \in BOOLEAN : Crash(host)

Spec == Init /\ [][Next]_vars

-----------------------------------------------------------------------------
\* Properties.

CrtLists == [Cert -> Nat] \cup {NoFile}
FileSets == [cfg : {NoFile, Original} \cup Models, crt : CrtLists]

\* Every variable keeps its type; an op with an outcome is done or in its cleanup.
TypeOK ==
    /\ CertTypeOK
    /\ model \in Models
    /\ live \in FileSets /\ loaded \in FileSets
    /\ \A b \in baks : b.kind \in {"cfg", "crt"} /\ b.ts \in 1..MaxRequests /\ b.orig \in BOOLEAN
    /\ op.outcome # "none" => op.pc \in {"done", "sweep", "remove"}
    /\ op.cand \in FileSets /\ op.before \in FileSets
    /\ unkept \subseteq Cert

\* What an Apply or Restore answers is what the machine is left with (run,
\* rollback and rollbackResult, apply.go): "applied" means the new files are
\* live and loaded, anything but "rollback_failed" else that the old ones are,
\* whichever call failed.  Excepted are a request closed under way, whose
\* rollback the closing stops too, and HAProxy after a first installation that
\* did not verify: there is no earlier config to reload.
OutcomeIsTrue ==
    op.pc = "done" /\ ~op.gone =>
        CASE op.outcome = "applied" -> live = op.cand /\ loaded \in {live, Down}
          [] op.outcome = "rollback_failed" -> TRUE
          [] OTHER -> /\ live = op.before
                      /\ loaded \in {op.ran, op.before, Down} \/ op.before.cfg = NoFile

\* Between requests HAProxy runs what is on disk, or nothing: so "No changes to
\* apply" (compare, apply.go), which looks at the disk only, is not said over a
\* stale process.  Excepted is what a crash, a closed request or a failed
\* rollback left (torn), until a reload.
RunsWhatIsLive ==
    op.pc = "idle" /\ ~torn => loaded \in {live, Down} \/ live.cfg = NoFile

\* "HAProxy loads it on its next restart, start or host reboot, so a cert it
\* still names must keep its file" (readLiveCrtList, handler.go): no cleanup,
\* removal, failure or crash takes the file of a certificate that the live
\* crt-list names, whatever rows came and went between the reads of an Apply.
\* Excepted (unkept) are those that a pull superseded after the Apply had
\* rendered them; those tracked more than once, one row superseded, the other in
\* the list; and those a restored list names beside a config that reads no list.
LiveCertsKept == live.cfg \in Models => Listed(live.crt) \subseteq files \cup unkept

\* Once a step of Apply or Restore may overwrite them, the live files it found
\* are in the backup directory, whatever the pruning or a failing call did
\* (backup, prune, backup.go).  The timestamps in the backups' names are
\* assumed to increase; of the first Apply's '.orig' copies this says nothing.
FoundIsBackedUp ==
    op.pc \in {"status", "crt", "cfg", "load", "verify", "rbcfg", "rbcrt", "rbload"} =>
        /\ op.before.cfg = NoFile \/ \E b \in baks : b.kind = "cfg" /\ b.text = op.before.cfg
        /\ op.before.crt = NoFile \/ \E b \in baks : b.kind = "crt" /\ b.text = op.before.crt
=============================================================================
