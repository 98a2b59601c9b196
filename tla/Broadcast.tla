------------------------------ MODULE Broadcast ------------------------------
(***************************************************************************)
(* Sending one file to several hosts (internal/multissh/broadcast.go) and  *)
(* the page that watches it (web/multissh/js/upload.ts).  A job has a      *)
(* goroutine per target and, for the page that started it, a handler of a  *)
(* web socket, fed by a channel that drops what does not fit.  The page    *)
(* keeps its button disabled until the broadcast is over.                  *)
(*                                                                         *)
(* Bytes are left out: a report of progress repeats the state.  Only the   *)
(* page reads the connection, in order, so it shows a message in the step  *)
(* that writes it.                                                         *)
(***************************************************************************)
EXTENDS Naturals, Sequences

CONSTANTS
    Job,            \* the broadcasts a page starts, one after the other
    Targets,        \* number of targets of each
    SubSize         \* size of a subscriber's channel (32)

ASSUME BroadcastAssumption == Job \subseteq Nat /\ Targets \in [Job -> Nat \ {0}] /\ SubSize \in Nat

VARIABLES
    targets,        \* broadcastJob.targets: the state of each; "none" before the job exists
    done,           \* broadcastJob.done, doneCh is closed
    owes,           \* targets whose goroutine has still to send its last update to the subscriber
    sub,            \* the subscriber's channel
    pc,             \* handleBroadcastWS: its place
    page,           \* what the page knows of the job's request and web socket
    finished,       \* runBroadcastJob: its flag "done"
    rows,           \* the state each row shows
    button          \* the broadcast button is enabled

jobVars == <<targets, done, owes>>
pageVars == <<page, finished, rows, button>>
vars == <<jobVars, sub, pc, pageVars>>

Target(j) == 1..Targets[j]
Terminal == {"done", "error"}
State == {"pending", "transferring"} \cup Terminal

Progress(t, s) == [index |-> t, state |-> s]

-----------------------------------------------------------------------------
\* Mutant: a target that failed is not counted as finished.
OnlyDoneIsOver(states) == \A t \in DOMAIN states : states[t] = "done"

AllTerminal(states) == \A t \in DOMAIN states : states[t] \in Terminal

Subscribed(j) == pc[j] \notin {"none", "returned"}

\* update, what it does under the lock; a subscriber that is there is copied.
Update(j, t, s) ==
    /\ targets' = [targets EXCEPT ![j][t] = s]
    /\ done' = [done EXCEPT ![j] = @ \/ AllTerminal(targets'[j])]
    /\ owes' = IF Subscribed(j) THEN [owes EXCEPT ![j] = @ \cup {t}] ELSE owes
    /\ UNCHANGED <<sub, pc, pageVars>>

\* runBroadcastTransfer, from update to update; the transfer may fail at any call,
\* the opening of an upload that was deleted meanwhile included.
Begin(j, t) == targets[j][t] = "pending" /\ Update(j, t, "transferring")

Report(j, t) == targets[j][t] = "transferring" /\ t \notin owes[j] /\ Update(j, t, "transferring")

TransferEnds(j, t) ==
    /\ targets[j][t] = "transferring" /\ t \notin owes[j]
    /\ \E s \in Terminal : Update(j, t, s)

\* Mutant: the send takes the frame whatever the channel's size.
FanOutUnbounded(j, t) ==
    /\ t \in owes[j]
    /\ owes' = [owes EXCEPT ![j] = @ \ {t}]
    /\ sub' = IF Subscribed(j) THEN [sub EXCEPT ![j] = Append(@, Progress(t, targets[j][t]))] ELSE sub
    /\ UNCHANGED <<targets, done, pc, pageVars>>

\* update, after the unlock: a full channel, or one given up since, drops the frame.
FanOut(j, t) ==
    /\ t \in owes[j]
    /\ owes' = [owes EXCEPT ![j] = @ \ {t}]
    /\ sub' = IF Subscribed(j) /\ Len(sub[j]) < SubSize
                THEN [sub EXCEPT ![j] = Append(@, Progress(t, targets[j][t]))]
                ELSE sub
    /\ UNCHANGED <<targets, done, pc, pageVars>>

-----------------------------------------------------------------------------
Created(j) == targets[j][1] # "none"

\* handleBroadcastPost: the job, and a goroutine for each target.
Post(j) ==
    /\ page[j] = "posting" /\ ~Created(j)
    /\ targets' = [targets EXCEPT ![j] = [t \in Target(j) |-> "pending"]]
    /\ UNCHANGED <<done, owes, sub, pc, pageVars>>

\* Mutant: every event of the web socket ends the broadcast, the second one too.
FinishAlways(j) ==
    /\ button' = TRUE
    /\ finished' = [finished EXCEPT ![j] = TRUE]

\* finish, and onDone.
Finish(j) ==
    /\ button' = (button \/ ~finished[j])
    /\ finished' = [finished EXCEPT ![j] = TRUE]

\* The upgrade, and job.subscribe.
Subscribe(j) ==
    /\ page[j] = "open" /\ pc[j] = "none"
    /\ pc' = [pc EXCEPT ![j] = "subscribed"]
    /\ UNCHANGED <<jobVars, sub, pageVars>>

\* The deferred calls.
Return(j) ==
    /\ pc' = [pc EXCEPT ![j] = "returned"]
    /\ sub' = [sub EXCEPT ![j] = <<>>]

\* Mutant: the rows are left as the progress frames have made them.
SendCompleteOnly(j) ==
    /\ page' = [page EXCEPT ![j] = "told"]
    /\ Finish(j) /\ Return(j)
    /\ UNCHANGED rows

\* Every target's state, then "complete", at which the page closes the web socket.
SendFinal(j) ==
    /\ rows' = [rows EXCEPT ![j] = targets[j]]
    /\ page' = [page EXCEPT ![j] = "told"]
    /\ Finish(j) /\ Return(j)

TakeSnapshot(j) ==
    /\ pc[j] = "subscribed" /\ page[j] = "open"
    /\ \/ done[j] /\ SendFinal(j)
       \/ /\ ~done[j]
          /\ rows' = [rows EXCEPT ![j] = targets[j]]
          /\ pc' = [pc EXCEPT ![j] = "select"]
          /\ UNCHANGED <<sub, page, finished, button>>
    /\ UNCHANGED jobVars

SelectFrame(j) ==
    /\ pc[j] = "select" /\ page[j] = "open" /\ sub[j] # <<>>
    /\ rows' = [rows EXCEPT ![j][Head(sub[j]).index] = Head(sub[j]).state]
    /\ sub' = [sub EXCEPT ![j] = Tail(@)]
    /\ UNCHANGED <<jobVars, pc, page, finished, button>>

SelectDone(j) ==
    /\ pc[j] = "select" /\ page[j] = "open" /\ done[j]
    /\ SendFinal(j)
    /\ UNCHANGED jobVars

\* A write to a connection that is lost, or was too slow, in any of these three.
WriteFails(j) ==
    /\ page[j] # "open"
    /\ pc[j] = "subscribed" \/ (pc[j] = "select" /\ (sub[j] # <<>> \/ done[j]))
    /\ Return(j)
    /\ UNCHANGED <<jobVars, pageVars>>

-----------------------------------------------------------------------------
\* The click on the button, after the checks of source and targets; earlier rows go.
Click(j) ==
    /\ button /\ page[j] = "unused" /\ \A i \in Job : i < j => page[i] # "unused"
    /\ page' = [page EXCEPT ![j] = "posting"]
    /\ button' = FALSE
    /\ rows' = [i \in Job |-> <<>>]
    /\ UNCHANGED <<jobVars, sub, pc, finished>>

\* startBroadcast answers: runBroadcastJob builds the rows and opens the web socket.
Answered(j) ==
    /\ page[j] = "posting" /\ Created(j)
    /\ page' = [page EXCEPT ![j] = "open"]
    /\ rows' = [rows EXCEPT ![j] = [t \in Target(j) |-> "pending"]]
    /\ UNCHANGED <<jobVars, sub, pc, finished, button>>

\* It is refused or lost, before or after the job was made.
PostFails(j) ==
    /\ page[j] = "posting"
    /\ page' = [page EXCEPT ![j] = "refused"]
    /\ button' = TRUE
    /\ UNCHANGED <<jobVars, sub, pc, finished, rows>>

\* The connection breaks; the page does not know yet.
Lose(j) ==
    /\ page[j] = "open"
    /\ page' = [page EXCEPT ![j] = "lost"]
    /\ UNCHANGED <<jobVars, sub, pc, finished, rows, button>>

OnError(j) ==
    /\ page[j] = "lost"
    /\ page' = [page EXCEPT ![j] = "broken"]
    /\ Finish(j)
    /\ UNCHANGED <<jobVars, sub, pc, rows>>

\* A web socket reports its end however it came about.
OnClose(j) ==
    /\ page[j] \in {"lost", "broken", "told"}
    /\ page' = [page EXCEPT ![j] = IF @ = "told" THEN "over" ELSE "closed"]
    /\ Finish(j)
    /\ UNCHANGED <<jobVars, sub, pc, rows>>

-----------------------------------------------------------------------------
Init ==
    /\ targets = [j \in Job |-> [t \in Target(j) |-> "none"]]
    /\ done = [j \in Job |-> FALSE]
    /\ owes = [j \in Job |-> {}]
    /\ sub = [j \in Job |-> <<>>]
    /\ pc = [j \in Job |-> "none"]
    /\ page = [j \in Job |-> "unused"]
    /\ finished = [j \in Job |-> FALSE]
    /\ rows = [j \in Job |-> <<>>]
    /\ button = TRUE

Goroutine(j, t) == Begin(j, t) \/ FanOut(j, t)

Handler(j) ==
    Subscribe(j) \/ TakeSnapshot(j) \/ SelectFrame(j) \/ SelectDone(j) \/ WriteFails(j)

Answer(j) == Answered(j) \/ PostFails(j)

WebSocket(j) == OnError(j) \/ OnClose(j)

Next ==
    \E j \in Job :
        \/ Click(j) \/ Post(j) \/ Answer(j) \/ Handler(j) \/ WebSocket(j) \/ Lose(j)
        \/ \E t \in Target(j) : Goroutine(j, t) \/ Report(j, t) \/ TransferEnds(j, t)

Spec == Init /\ [][Next]_vars

\* Goroutines, handlers and the page's events go on, and a request is answered
\* or fails.  Nothing makes a transfer end: after the dial it has no deadline.
FairSpec ==
    /\ Spec
    /\ \A j \in Job :
          /\ WF_vars(Post(j)) /\ WF_vars(Answer(j)) /\ WF_vars(Handler(j)) /\ WF_vars(WebSocket(j))
          /\ \A t \in Target(j) : WF_vars(Goroutine(j, t))

-----------------------------------------------------------------------------
Frame(j) == [index : Target(j), state : State]

\* The types of all variables; a subscriber's channel holds no more than its size
\* (update, broadcast.go).
TypeOK ==
    /\ \A j \in Job :
          /\ targets[j] \in [Target(j) -> State \cup {"none"}] /\ rows[j] \in [Target(j) -> State] \cup {<<>>}
          /\ owes[j] \subseteq Target(j)
          /\ sub[j] \in Seq(Frame(j)) /\ Len(sub[j]) <= SubSize
    /\ done \in [Job -> BOOLEAN] /\ finished \in [Job -> BOOLEAN] /\ button \in BOOLEAN
    /\ pc \in [Job -> {"none", "subscribed", "select", "returned"}]
    /\ page \in [Job -> {"unused", "posting", "refused", "open", "told", "over", "lost", "broken", "closed"}]

\* With the button enabled again, every broadcast the page has started is over and
\* its rows show what became of each target, but for those whose request or
\* connection failed: although progress may be dropped on the way, and although
\* the web socket of an earlier broadcast reports its end more than once, perhaps
\* during the next one (handleBroadcastWS, broadcast.go; runBroadcastJob, upload.ts).
ButtonMeansOver ==
    button => \A j \in Job :
        \/ page[j] \in {"unused", "refused", "broken", "closed"}
        \/ page[j] \in {"told", "over"} /\ AllTerminal(targets[j]) /\ rows[j] \in {targets[j], <<>>}

\* A broadcast gives the button back, whatever is lost, dropped or fails, unless one
\* of its transfers never ends.  "Completion travels on [doneCh] rather than as a
\* fan-out event so a subscriber can never miss it" (broadcast.go).
EveryBroadcastEnds ==
    \A j \in Job :
        \/ \E t \in Target(j) : <>[](targets[j][t] = "transferring")
        \/ page[j] = "posting" ~> finished[j] \/ page[j] = "refused"
=============================================================================
