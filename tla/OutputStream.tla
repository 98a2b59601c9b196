---------------------------- MODULE OutputStream -----------------------------
(***************************************************************************)
(* One execution's output on its way to the browser: the capture rings and *)
(* their subscribers (internal/taskmaster/worker/output.go), the handler   *)
(* that replays them and follows (stream.go), and the modal that shows     *)
(* what it sends (web/shared/ts/outputmodal.ts).  A step is one call that  *)
(* takes a capture's or the registry's lock, one query, or one event.      *)
(*                                                                         *)
(* The lines of a stream are numbered as they are written.                 *)
(***************************************************************************)
EXTENDS SequencesExt, Naturals

CONSTANTS
    Viewer,         \* open modals
    RingSize,       \* lines a capture keeps
    ChanSize,       \* lines a subscriber's channel holds
    MaxLines,       \* bound: lines per stream
    MaxBreaks,      \* bound: connections lost, per run
    MaxRestarts     \* bound: restarts of the server

ASSUME StreamAssumption ==
    /\ RingSize \in Nat \ {0} /\ ChanSize \in Nat \ {0}
    /\ MaxLines \in Nat /\ MaxBreaks \in Nat /\ MaxRestarts \in Nat

Stream == {"stdout", "stderr"}

VARIABLES
    row,            \* the execution's status in the database
    worker,         \* the position of runTask
    held,           \* the registry has the captures
    ring, total, done,  \* the captures
    pc,             \* the handler's position, per viewer
    chan,           \* its two channels
    sent,           \* what it has sent, per stream
    at,             \* history: what it was not sent, and why
    source, box,    \* the page: its EventSource, and what the modal shows
    breaks, restarts

captureVars == <<held, ring, total, done>>
viewVars == <<pc, chan, sent, at, source, box>>
bounds == <<breaks, restarts>>
vars == <<row, worker, captureVars, viewVars, bounds>>

None == [on |-> FALSE, buf |-> <<>>, closed |-> FALSE]
\* replay and joined: the lines written when the ring was replayed and when the
\* channel was subscribed; dropped: those that found it full.
NoMark == [replay |-> 0, joined |-> MaxLines, dropped |-> {}]

-----------------------------------------------------------------------------
\* The worker: runTask around the two captures.

\* NewOutputCapture, twice.
EmptyCaptures ==
    /\ ring' = [s \in Stream |-> [i \in 0..(RingSize - 1) |-> 0]]
    /\ total' = [s \in Stream |-> 0]
    /\ done' = [s \in Stream |-> FALSE]

Register ==
    /\ worker = "idle" /\ row = "pending"
    /\ worker' = "registered" /\ held' = TRUE
    /\ EmptyCaptures
    /\ UNCHANGED <<row, viewVars, bounds>>

\* The command has started, or the job is claimed.
Begin ==
    /\ worker = "registered" /\ row \in {"pending", "gone"}
    /\ worker' = "running"
    /\ row' = IF row = "gone" THEN row ELSE "running"
    /\ UNCHANGED <<captureVars, viewVars, bounds>>

HasRoom(c) == Len(c.buf) < ChanSize

\* Mutant: the send does not fail when the channel is full.
OfferedAlways(c, n) == IF c.on THEN [c EXCEPT !.buf = Append(@, n)] ELSE c

\* select { case ch <- ol: default: }
Offered(c, n) == IF c.on /\ HasRoom(c) THEN [c EXCEPT !.buf = Append(@, n)] ELSE c

Write(s) ==
    LET n == total[s] + 1
        misses(v) == chan[v][s].on /\ ~HasRoom(chan[v][s])
    IN /\ worker = "running" /\ total[s] < MaxLines
       /\ ring' = [ring EXCEPT ![s][total[s] % RingSize] = n]
       /\ total' = [total EXCEPT ![s] = n]
       /\ chan' = [v \in Viewer |-> [chan[v] EXCEPT ![s] = Offered(@, n)]]
       /\ at' = [v \in Viewer |-> IF misses(v) THEN [at[v] EXCEPT ![s].dropped = @ \cup {n}] ELSE at[v]]
       /\ UNCHANGED <<row, worker, held, done, pc, sent, source, box, bounds>>

\* A command ended, never started, was refused by the brake or by the claim.
MarkDone(s, from, to) ==
    /\ worker \in from /\ worker' = to
    /\ done' = [done EXCEPT ![s] = TRUE]
    /\ chan' = [v \in Viewer |-> [chan[v] EXCEPT ![s].closed = chan[v][s].on]]
    /\ UNCHANGED <<row, held, ring, total, pc, sent, at, source, box, bounds>>

MarkFinished ==
    /\ worker = "closed" /\ worker' = "stamped"
    /\ UNCHANGED <<row, captureVars, viewVars, bounds>>

FinishExecution ==
    /\ worker = "stamped" /\ worker' = "ended"
    /\ row' = IF row = "gone" THEN row ELSE "ended"
    /\ UNCHANGED <<captureVars, viewVars, bounds>>

Worker ==
    \/ Register \/ Begin \/ MarkFinished \/ FinishExecution
    \/ \E s \in Stream : Write(s)
    \/ MarkDone("stdout", {"registered", "running"}, "half")
    \/ MarkDone("stderr", {"half"}, "closed")

\* gc: an hour after MarkFinished.
Reap ==
    /\ held /\ worker \in {"stamped", "ended"}
    /\ held' = FALSE
    /\ UNCHANGED <<row, worker, ring, total, done, viewVars, bounds>>

\* A queued execution is canceled; a task is deleted with its executions.
CancelRow ==
    /\ row = "pending" /\ row' = "ended"
    /\ UNCHANGED <<worker, captureVars, viewVars, bounds>>

DeleteRow ==
    /\ row # "gone" /\ row' = "gone"
    /\ UNCHANGED <<worker, captureVars, viewVars, bounds>>

-----------------------------------------------------------------------------
\* The handler and the page.

\* Lines of a stream reach the page: output, appendOutputLine.
Send(v, s, lines) ==
    /\ sent' = [sent EXCEPT ![v][s] = @ \o lines]
    /\ box' = IF lines = <<>> THEN box ELSE [box EXCEPT ![v] = "lines"]

IfEmpty(v, text) == box' = [box EXCEPT ![v] = IF @ = "empty" THEN text ELSE @]

\* The handler's step, when it changes nothing but its position.
Go(v, to) == pc' = [pc EXCEPT ![v] = to]
GoOn(v, to) == Go(v, to) /\ UNCHANGED <<chan, sent, at, source, box>>

\* The connection is over; the page connects again unless it closes its source.
\* Nobody reads the channels any more.
HangUp(v, how, next) ==
    /\ pc' = [pc EXCEPT ![v] = how]
    /\ source' = [source EXCEPT ![v] = next]
    /\ chan' = [chan EXCEPT ![v] = [s \in Stream |-> None]]
    /\ UNCHANGED <<sent, at>>

\* done: the modal closes its source.
TellDone(v) == HangUp(v, "ended", "closed") /\ IfEmpty(v, "none")

\* status: the modal shows it and leaves its source open.
TellStatus(v) == HangUp(v, "idle", "connecting") /\ IfEmpty(v, "status")

\* 404: the browser closes the source for good.
TellGone(v) == HangUp(v, "idle", "closed") /\ IfEmpty(v, "error")

Server == UNCHANGED <<row, worker, captureVars, bounds>>

OpenModal(v) ==
    /\ source[v] = "none"
    /\ source' = [source EXCEPT ![v] = "connecting"]
    /\ box' = [box EXCEPT ![v] = "empty"]
    /\ Server /\ UNCHANGED <<pc, chan, sent, at>>

CloseModal(v) ==
    /\ source[v] # "none"
    /\ HangUp(v, "idle", "none")
    /\ Server /\ UNCHANGED box

Connect(v) ==
    /\ source[v] = "connecting"
    /\ source' = [source EXCEPT ![v] = "open"]
    /\ sent' = [sent EXCEPT ![v] = [s \in Stream |-> <<>>]]
    /\ at' = [at EXCEPT ![v] = [s \in Stream |-> NoMark]]
    /\ Go(v, "get")
    /\ Server /\ UNCHANGED <<chan, box>>

LookUp(v) ==
    /\ pc[v] = "get"
    /\ GoOn(v, IF held THEN "stdout" ELSE "row")
    /\ Server

ReadRow(v) ==
    /\ pc[v] = "row"
    /\ CASE row = "gone" -> TellGone(v)
         [] row = "ended" -> TellStatus(v)
         [] OTHER -> GoOn(v, "wait")
    /\ Server

\* waitForRegistration, at a tick: the registry, then the database.
Poll(v) ==
    /\ pc[v] = "wait"
    /\ GoOn(v, IF held THEN "stdout" ELSE "waitRow")
    /\ Server

PollRow(v) ==
    /\ pc[v] = "waitRow"
    /\ IF row = "ended" THEN TellStatus(v) ELSE GoOn(v, "wait")
    /\ Server

\* Mutant: the ring is read from its first place.
LinesUnwrapped(s) ==
    LET count == IF total[s] > RingSize THEN RingSize ELSE total[s]
    IN [i \in 1..count |-> ring[s][i - 1]]

Lines(s) ==
    LET count == IF total[s] > RingSize THEN RingSize ELSE total[s]
        start == total[s] - count
    IN [i \in 1..count |-> ring[s][(start + i - 1) % RingSize]]

Replay(v, s) ==
    /\ pc[v] = s
    /\ Send(v, s, Lines(s))
    /\ at' = [at EXCEPT ![v][s].replay = total[s]]
    /\ Go(v, IF s = "stdout" THEN "stderr" ELSE "check")
    /\ Server /\ UNCHANGED <<chan, source>>

\* stdout.Done() && stderr.Done(): neither is ever undone.
Check(v) ==
    /\ pc[v] = "check"
    /\ IF \A s \in Stream : done[s] THEN TellDone(v) ELSE GoOn(v, "joinOut")
    /\ Server

\* Mutant: a late subscriber is kept waiting.
SubscribeOpen(s) == [on |-> TRUE, buf |-> <<>>, closed |-> FALSE]

Subscribe(s) == [on |-> TRUE, buf |-> <<>>, closed |-> done[s]]

Join(v, s) ==
    /\ pc[v] = IF s = "stdout" THEN "joinOut" ELSE "joinErr"
    /\ chan' = [chan EXCEPT ![v][s] = Subscribe(s)]
    /\ at' = [at EXCEPT ![v][s].joined = total[s]]
    /\ Go(v, IF s = "stdout" THEN "joinErr" ELSE "live")
    /\ Server /\ UNCHANGED <<sent, source, box>>

\* The select of the live phase: a line, or the channel is closed and empty.
Deliver(v, s) ==
    /\ pc[v] = "live" /\ chan[v][s].buf # <<>>
    /\ Send(v, s, <<Head(chan[v][s].buf)>>)
    /\ chan' = [chan EXCEPT ![v][s].buf = Tail(@)]
    /\ Server /\ UNCHANGED <<pc, at, source>>

\* Mutant: one stream has closed, and that is taken for the end.
OtherClosedToo(v, s) == TRUE

OtherClosed(v, s) == \A t \in Stream \ {s} : ~chan[v][t].on

Drained(v, s) ==
    /\ pc[v] = "live" /\ chan[v][s].on /\ chan[v][s].closed /\ chan[v][s].buf = <<>>
    /\ IF OtherClosed(v, s) THEN TellDone(v)
       ELSE /\ chan' = [chan EXCEPT ![v][s] = None]
            /\ UNCHANGED <<pc, sent, at, source, box>>
    /\ Server

\* The connection is lost; the browser will try again by itself.
Break(v) ==
    /\ breaks < MaxBreaks
    /\ source[v] = "open" /\ pc[v] # "idle"
    /\ breaks' = breaks + 1
    /\ HangUp(v, "idle", "connecting")
    /\ UNCHANGED <<row, worker, captureVars, box, restarts>>

Handler(v) ==
    \/ Connect(v) \/ LookUp(v) \/ ReadRow(v) \/ Poll(v) \/ PollRow(v) \/ Check(v)
    \/ \E s \in Stream : Replay(v, s) \/ Join(v, s) \/ Deliver(v, s) \/ Drained(v, s)

\* The server stops and comes back: memory is lost.  ReconcileOrphans closes a
\* running row unless its command is still alive.
Restart ==
    /\ restarts < MaxRestarts
    /\ restarts' = restarts + 1
    /\ worker' = "idle" /\ held' = FALSE
    /\ row' \in IF row = "running" THEN {"running", "ended"} ELSE {row}
    /\ EmptyCaptures
    /\ pc' = [v \in Viewer |-> "idle"]
    /\ source' = [v \in Viewer |-> IF source[v] = "open" THEN "connecting" ELSE source[v]]
    /\ chan' = [v \in Viewer |-> [s \in Stream |-> None]]
    /\ UNCHANGED <<sent, at, box, breaks>>

-----------------------------------------------------------------------------
\* An execution has just been queued.
Init ==
    /\ row = "pending" /\ worker = "idle" /\ held = FALSE
    /\ ring = [s \in Stream |-> [i \in 0..(RingSize - 1) |-> 0]]
    /\ total = [s \in Stream |-> 0]
    /\ done = [s \in Stream |-> FALSE]
    /\ pc = [v \in Viewer |-> "idle"]
    /\ chan = [v \in Viewer |-> [s \in Stream |-> None]]
    /\ sent = [v \in Viewer |-> [s \in Stream |-> <<>>]]
    /\ at = [v \in Viewer |-> [s \in Stream |-> NoMark]]
    /\ source = [v \in Viewer |-> "none"]
    /\ box = [v \in Viewer |-> "empty"]
    /\ breaks = 0 /\ restarts = 0

Next ==
    \/ Worker \/ Reap \/ CancelRow \/ DeleteRow \/ Restart
    \/ \E v \in Viewer : Handler(v) \/ OpenModal(v) \/ CloseModal(v) \/ Break(v)

Spec == Init /\ [][Next]_vars
FairSpec == Spec /\ WF_vars(Worker) /\ \A v \in Viewer : WF_vars(Handler(v))

-----------------------------------------------------------------------------
\* Properties.

TypeOK ==
    /\ row \in {"pending", "running", "ended", "gone"}
    /\ worker \in {"idle", "registered", "running", "half", "closed", "stamped", "ended"}
    /\ held \in BOOLEAN /\ done \in [Stream -> BOOLEAN]
    /\ total \in [Stream -> 0..MaxLines]
    /\ ring \in [Stream -> [0..(RingSize - 1) -> 0..MaxLines]]
    /\ source \in [Viewer -> {"none", "connecting", "open", "closed"}]
    /\ box \in [Viewer -> {"empty", "lines", "none", "status", "error"}]
    /\ \A v \in Viewer, s \in Stream :
          /\ pc[v] \in {"idle", "get", "row", "wait", "waitRow", "check", "joinOut", "joinErr", "live",
                        "ended"} \cup Stream
          /\ chan[v][s].buf \in Seq(1..MaxLines) /\ Len(chan[v][s].buf) <= ChanSize
          /\ sent[v][s] \in Seq(1..MaxLines)
    /\ breaks \in 0..MaxBreaks /\ restarts \in 0..MaxRestarts

\* What a connection is sent of a stream is in the order it was written, and no
\* line comes twice, although the replay wraps around the ring while the command
\* writes on, and lines are handed over from the replay to the subscription
\* (Lines and Subscribe, output.go; StreamExecutionOutput, stream.go).
InOrder ==
    \A v \in Viewer, s \in Stream :
        \A i, j \in DOMAIN sent[v][s] : i < j => sent[v][s][i] < sent[v][s][j]

\* The lines a viewer is not owed: the ring had lost them when it was replayed,
\* they came between the replay and the subscription, or while its channel was
\* full.
NotOwed(m) == {n \in 1..m.joined : n + RingSize <= m.replay \/ n > m.replay} \cup m.dropped

\* A viewer told "done" has been sent every other line: whatever the interleaving
\* of the two streams' ends with what still waits in the channels, none of them is
\* cut off (the live phase of StreamExecutionOutput, stream.go).
DoneLosesNothingElse ==
    \A v \in Viewer, s \in Stream :
        pc[v] = "ended" => 1..total[s] \subseteq Range(sent[v][s]) \cup NotOwed(at[v][s])

\* An open modal does not stay "permanently empty with no feedback at all"
\* (outputmodal.ts): it shows a line, a status, that there is none or that it is
\* lost, through the wait for an execution not yet started, lost connections and
\* a restart.  Two cases are left out, which the code does not answer: the row is
\* deleted while the handler waits for its registration, and the row of a command
\* that outlived a restart.
ModalSpeaks ==
    \A v \in Viewer :
        source[v] # "none" /\ box[v] = "empty" ~>
            \/ source[v] = "none" \/ box[v] # "empty"
            \/ row = "gone" \/ (row = "running" /\ worker = "idle")
=============================================================================
