----------------------------- MODULE GrocerySync -----------------------------
(***************************************************************************)
(* The grocery page (web/grocery/js/main.ts) against its server: edits     *)
(* shown at once and sent afterwards, the queue of edits made while sync   *)
(* is off, its replay on reconnect, and the refreshes the event stream     *)
(* triggers.                                                               *)
(*                                                                         *)
(* The page's code runs to its next await without interruption; a request  *)
(* on the wire is served, lost or answered at any time and in any order.   *)
(* Rows are objects: a queued closure keeps the object it was made with,   *)
(* also after the array holds another one for the same row.                *)
(***************************************************************************)
EXTENDS GroceryStore

CONSTANTS
    Known,          \* rows the server and the page start with
    Ops,            \* the edits this instance's user makes
    MaxEdits,       \* bound: edits
    MaxSwitches,    \* bound: times the sync switch is turned back on
    MaxFaults,      \* bound: lost requests, failed saves, broken streams
    MaxRivals,      \* bound: edits by another client
    MaxRefresh      \* bound: refreshes under way at a time

ASSUME SyncAssumption ==
    /\ Known \subseteq Entity /\ \A g \in Known \cap Ing : RecipeOf[g] \in Known
    /\ {MaxEdits, MaxSwitches, MaxFaults, MaxRivals} \subseteq Nat
    /\ MaxRefresh \in Nat \ {0}

VARIABLES
    obj,            \* the row objects, per row and slot
    srv,            \* slot of the row read from the server, 0 for none
    loc,            \* slot of the row made here, 0 for none
    op,             \* the closures: what each edit sends, and how far it is
    queue,          \* pendingOps
    online,         \* syncEnabled
    replaying,      \* replayingOps
    drain,          \* the sync switch's handler, per time it was turned on
    fetch,          \* refreshAll calls under way
    sse,            \* the event stream: "closed", "connecting" or "open"
    tick,           \* a refresh signal is waiting in the stream
    edits, faults, rivals, turns,
    made,           \* rows that exist or have existed
    want,           \* history: what the user last asked of every row
    excused         \* history: rows that met a known race or fault

pageVars == <<obj, srv, loc, queue, online, replaying>>
wireVars == <<op, drain, fetch, sse, tick>>
boundVars == <<edits, faults, rivals, turns, made>>
ghosts == <<want, excused>>
vars == <<storeVars, pageVars, wireVars, boundVars, ghosts>>

Slot == 1..(MaxEdits + 2)
Turns == 1..MaxSwitches
Blank == [id |-> "none", mark |-> Absent, rid |-> "real", gone |-> FALSE]
NoMsg == [tag |-> "none"]
NoOp == [kind |-> "none", e |-> Absent, o |-> 0, pc |-> "none", msg |-> NoMsg, tries |-> 0]
NoDrain == [pc |-> "off", n |-> 0]

\* Refreshes: one per time the switch is turned on, some for the stream's
\* signals, and one per edit for the repair removeIngredient makes.
Part == {"items", "recipes"}
Rows(part) == IF part = "items" THEN Item ELSE Recipe
TickSlots == (MaxSwitches + 1)..(MaxSwitches + MaxRefresh)
RepairSlot(n) == MaxSwitches + MaxRefresh + n
FetchSlots == 1..RepairSlot(MaxEdits)
NoGet == [pc |-> "idle", rows |-> NoMsg]
SentGet == [pc |-> "sent", rows |-> NoMsg]
NoFetch == [part \in Part |-> NoGet]
FullFetch == [part \in Part |-> SentGet]

\* The row an id of a displayed row finds: the server's rows come first.
Found(e) ==
    {s \in Slot : \/ s = srv[e]
                  \/ s = loc[e] /\ obj[e][s].id = "temp"
                  \/ s = loc[e] /\ obj[e][s].id = "real" /\ srv[e] = 0}

\* The objects of row e that closures hold.
HeldBy(ops, e) == {ops[n].o : n \in {m \in DOMAIN ops : ops[m].e = e}}
NewSlot(e, avoid) ==
    CHOOSE s \in Slot \ (HeldBy(op, e) \cup {srv[e], loc[e]} \cup avoid) :
        \A t \in Slot \ (HeldBy(op, e) \cup {srv[e], loc[e]} \cup avoid) : s <= t

\* The objects after a step; what nothing refers to any more is forgotten.
Heap(h) ==
    obj' = [e \in Entity |-> [s \in Slot |->
              IF s \in HeldBy(op', e) \cup {srv'[e], loc'[e]} THEN h[e][s] ELSE Blank]]

\* Between an op's end and the next replayed one the page runs no other task.
Quiet == \A d \in Turns : drain[d].pc # "loop"

Running(n) == op[n].pc \in {"sent", "answered"}
Pending(n) == Running(n) \/ (online /\ op[n].pc = "queued")
Touches(n) == Scope(op[n].kind, op[n].e)

\* The rows of an edit of e that a race decides: those an edit still on its way,
\* or to be replayed, concerns too, and all when a late list has brought back
\* the row, or its recipe, that the user had deleted.
Raced(kind, e) ==
    LET T == Scope(kind, e)
        back(x) == x \in made /\ want[x] = Absent
    IN (UNION {T \cap Touches(n) : n \in {m \in DOMAIN op : Pending(m)}})
       \cup IF \/ kind \notin {"reset", "create"} /\ back(e)
               \/ e \in Ing /\ back(RecipeOf[e])
            THEN T ELSE {}

-----------------------------------------------------------------------------
\* Sending.

\* Mutant of Sends: a create that does not look whether its row was deleted.
SendsDeleted(kind, ob) ==
    kind \in {"patch", "toggle", "rename"} => ob.id = "real"

\* The early returns of the sync functions: what sends nothing at all.
Sends(kind, ob) ==
    CASE kind = "create" -> ~ob.gone
      [] kind = "patch" -> ob.id = "real"
      [] kind \in {"toggle", "rename"} -> ob.id = "real" /\ ~ob.gone
      [] OTHER -> TRUE

\* The request, built from the object's fields when it is sent.
Request(kind, e, ob) ==
    [tag |-> "request", kind |-> kind, e |-> e,
     mark |-> IF kind \in {"patch", "toggle"} THEN ob.mark ELSE Absent,
     rid |-> IF kind = "create" THEN ob.rid ELSE "real"]

\* "if (syncEnabled) await sync(); else pendingOps.push(sync)"
Issue(kind, e, s, h) ==
    LET n == edits + 1
        ob == IF kind = "reset" THEN Blank ELSE h[e][s]
        closure == [kind |-> kind, e |-> e, o |-> s, pc |-> "queued", msg |-> NoMsg, tries |-> 1]
    IN /\ edits' = n
       /\ op' = [op EXCEPT ![n] =
                    CASE ~online -> closure
                      [] online /\ Sends(kind, ob) ->
                            [closure EXCEPT !.pc = "sent", !.msg = Request(kind, e, ob)]
                      [] OTHER -> NoOp]
       /\ queue' = IF online THEN queue ELSE Append(queue, n)

-----------------------------------------------------------------------------
\* The user's edits.

Edit(kind) ==
    /\ kind \in Ops
    /\ edits < MaxEdits
    /\ Quiet
    /\ UNCHANGED <<storeVars, online, replaying, drain, fetch, sse, tick, faults, rivals, turns>>
    /\ kind # "create" => UNCHANGED made

\* addItem, createRecipe, addIngredient (owner: the recipe's row): a row with
\* an id of its own.  Each row is made once.
Create(e, owner) ==
    /\ Edit("create")
    /\ e \notin made /\ made' = made \cup {e}
    /\ owner \in IF e \in Ing THEN Found(RecipeOf[e]) ELSE {0}
    /\ LET s == NewSlot(e, {})
           row == [id |-> "temp", gone |-> FALSE,
                   mark |-> CASE e \in Free -> "needed"
                              [] e \in Recipe -> "off"
                              [] OTHER -> Follows(obj[RecipeOf[e]][owner].mark),
                   rid |-> IF e \in Ing THEN obj[RecipeOf[e]][owner].id ELSE "real"]
           h == [obj EXCEPT ![e][s] = row]
       IN /\ loc' = [loc EXCEPT ![e] = s]
          /\ UNCHANGED srv
          /\ want' = [want EXCEPT ![e] = IF e \in Ing THEN Follows(want[RecipeOf[e]]) ELSE row.mark]
          /\ excused' = excused \cup Raced("create", e)
          /\ Issue("create", e, s, h)
          /\ Heap(h)

NextState == [m \in {"needed", "check", "not_needed"} |->
                CASE m = "needed" -> "check" [] m = "check" -> "not_needed" [] OTHER -> "needed"]

\* cycleState (toggleComplete is the same with another field).
CycleState(e, s) ==
    /\ Edit("patch")
    /\ e \in Item /\ s \in Found(e)
    /\ LET h == [obj EXCEPT ![e][s].mark = NextState[@]]
       IN /\ want' = [want EXCEPT ![e] = h[e][s].mark]
          /\ excused' = excused \cup Raced("patch", e)
          /\ Issue("patch", e, s, h)
          /\ UNCHANGED <<srv, loc>>
          /\ Heap(h)

\* The rows, as <<ingredient, slot>>, whose recipe_id is that of r's row s.
RowsOf(r, s) == {row \in Owned(r) \X Slot : /\ row[2] \in {srv[row[1]], loc[row[1]]}
                                            /\ obj[row[1]][row[2]].rid = obj[r][s].id}

\* toggleRecipe: the recipe changes in place; applyRecipeToggle puts a new
\* object in the place of every row the recipe owns.
ToggleRecipe(r, s) ==
    /\ Edit("toggle")
    /\ r \in Recipe /\ s \in Found(r)
    /\ LET mark == IF obj[r][s].mark = "on" THEN "off" ELSE "on"
           new(g, t) == IF <<g, t>> \notin RowsOf(r, s) \/ t \notin HeldBy(op, g) THEN t
                        ELSE NewSlot(g, IF t = srv[g] THEN {} ELSE {NewSlot(g, {})})
           marked == [obj EXCEPT ![r][s].mark = mark]
           h == [x \in Entity |-> [t \in Slot |->
                    IF \E row \in RowsOf(r, s) : row[1] = x /\ new(x, row[2]) = t
                    THEN LET row == CHOOSE y \in RowsOf(r, s) : y[1] = x /\ new(x, y[2]) = t
                         IN [obj[x][row[2]] EXCEPT !.mark = Follows(mark)]
                    ELSE marked[x][t]]]
           stranded == {g \in Owned(r) : \E n \in DOMAIN op : op[n].kind = "create" /\ op[n].e = g}
       IN /\ srv' = [g \in Entity |-> IF g \in Ing THEN new(g, srv[g]) ELSE srv[g]]
          /\ loc' = [g \in Entity |-> IF g \in Ing THEN new(g, loc[g]) ELSE loc[g]]
          /\ want' = [x \in Entity |->
                        CASE x = r -> mark
                          [] x \in Owned(r) /\ want[x] # Absent -> Follows(mark)
                          [] OTHER -> want[x]]
          /\ excused' = excused \cup Raced("toggle", r) \cup stranded
          /\ Issue("toggle", r, s, h)
          /\ Heap(h)

\* renameRecipe; the name itself is left out.
RenameRecipe(r, s) ==
    /\ Edit("rename")
    /\ r \in Recipe /\ s \in Found(r)
    /\ excused' = excused \cup Raced("rename", r)
    /\ Issue("rename", r, s, obj)
    /\ UNCHANGED <<srv, loc, want>>
    /\ Heap(obj)

\* deleteItem, removeIngredient, deleteRecipe: every row of that id leaves the
\* page; the object found is flagged, and so are a recipe's rows.  A row with
\* an id of the page's own is not asked of the server.
Remove(e, s) ==
    /\ Edit("delete")
    /\ s \in Found(e)
    /\ LET flagged == {<<e, s>>} \cup IF e \in Recipe THEN RowsOf(e, s) ELSE {}
           left == flagged \cup {<<e, t>> : t \in {u \in {srv[e], loc[e]} \ {0} : obj[e][u].id = obj[e][s].id}}
           h == [x \in Entity |-> [t \in Slot |->
                    IF <<x, t>> \in flagged THEN [obj[x][t] EXCEPT !.gone = TRUE] ELSE obj[x][t]]]
           kept(x, t) == IF <<x, t>> \in left THEN 0 ELSE t
       IN /\ srv' = [x \in Entity |-> kept(x, srv[x])]
          /\ loc' = [x \in Entity |-> kept(x, loc[x])]
          /\ want' = [x \in Entity |-> IF x \in Scope("delete", e) THEN Absent ELSE want[x]]
          /\ excused' = excused \cup Raced("delete", e)
          /\ IF obj[e][s].id = "temp"
             THEN edits' = edits + 1 /\ UNCHANGED <<op, queue>>
             ELSE Issue("delete", e, s, h)
          /\ Heap(h)

\* doReset: every row in place.
Reset ==
    /\ Edit("reset")
    /\ LET reset(x) == IF x \in Recipe THEN "off" ELSE "check"
           h == [x \in Entity |-> [t \in Slot |->
                    IF t \in {srv[x], loc[x]} THEN [obj[x][t] EXCEPT !.mark = reset(x)] ELSE obj[x][t]]]
       IN /\ want' = [x \in Entity |-> IF want[x] = Absent THEN Absent ELSE reset(x)]
          /\ excused' = excused \cup Raced("reset", Absent)
          /\ Issue("reset", Absent, 0, h)
          /\ UNCHANGED <<srv, loc>>
          /\ Heap(h)

-----------------------------------------------------------------------------
\* The server and the wire.

\* Notify after the answer: the stream's one-slot channel.
Signal == tick' = (tick \/ sse = "open")

ServeOp(n, saved) ==
    /\ op[n].pc = "sent"
    /\ saved \/ faults < MaxFaults
    /\ LET q == op[n].msg
           ok == saved /\ ~Refuses(mem, q)
           e == q.e
           rows == CASE q.kind = "create" -> {e}
                     [] q.kind \in {"toggle", "rename"} -> Item \cup {e}
                     [] q.kind = "reset" \/ (q.kind = "delete" /\ e \in Recipe) -> Item
                     [] OTHER -> {}
           answer == [tag |-> "ok", rows |-> [x \in Entity |-> IF x \in rows THEN mem'[x] ELSE Absent]]
       IN /\ Serve(q, saved)
          /\ op' = [op EXCEPT ![n].pc = "answered",
                              ![n].msg = IF ok THEN answer ELSE [tag |-> "refused"]]
          /\ IF ok THEN Signal ELSE UNCHANGED tick
          /\ excused' = IF saved THEN excused ELSE excused \cup Touches(n)
    /\ faults' = IF saved THEN faults ELSE faults + 1
    /\ UNCHANGED <<pageVars, drain, fetch, sse, edits, rivals, turns, made, want>>

\* The request or its answer never arrives: fetch throws, caught as null.
LoseOp(n) ==
    /\ Running(n) /\ op[n].msg.tag # "lost"
    /\ faults < MaxFaults
    /\ faults' = faults + 1
    /\ op' = [op EXCEPT ![n].pc = "answered", ![n].msg = [tag |-> "lost"]]
    /\ excused' = excused \cup Touches(n)
    /\ UNCHANGED <<storeVars, pageVars, drain, fetch, sse, tick, edits, rivals, turns, made, want>>

\* Another client's edit of an item.
Rival(e) ==
    /\ rivals < MaxRivals
    /\ e \in Item /\ mem[e] # Absent
    /\ Serve([kind |-> "patch", e |-> e, mark |-> NextState[mem[e]], rid |-> "real"], TRUE)
    /\ Signal
    /\ rivals' = rivals + 1
    /\ excused' = excused \cup {e}
    /\ UNCHANGED <<pageVars, op, drain, fetch, sse, edits, faults, turns, made, want>>

\* The server registers the stream.  It sends no refresh signal on connect.
Register ==
    /\ sse = "connecting"
    /\ sse' = "open"
    /\ UNCHANGED <<storeVars, pageVars, op, drain, fetch, tick, boundVars, ghosts>>

\* The stream breaks, with or without the server starting again; the browser
\* opens it anew on its own.
BreakStream ==
    /\ sse = "open" /\ faults < MaxFaults
    /\ faults' = faults + 1
    /\ sse' = "connecting"
    /\ tick' = FALSE
    /\ \/ UNCHANGED <<storeVars, excused>>
       \/ Reload /\ excused' = excused \cup dirty
    /\ UNCHANGED <<pageVars, op, drain, fetch, edits, rivals, turns, made, want>>

\* GET /api/items and GET /api/recipes; a lost one is read as an empty list.
AnswerGet(k, part, rows) ==
    /\ fetch[k][part].pc = "sent"
    /\ fetch' = [fetch EXCEPT ![k][part] = [pc |-> "answered", rows |-> rows]]
    /\ UNCHANGED <<storeVars, pageVars, op, drain, sse, tick, edits, rivals, turns, made, ghosts>>

ServeGet(k, part) ==
    /\ AnswerGet(k, part, [x \in Entity |-> IF x \in Rows(part) THEN mem[x] ELSE Absent])
    /\ UNCHANGED faults

LoseGet(k, part) ==
    /\ faults < MaxFaults
    /\ faults' = faults + 1
    /\ AnswerGet(k, part, [x \in Entity |-> Absent])

-----------------------------------------------------------------------------
\* The page's answers.

\* mergeServerItems, mergeServerRecipes: the server's rows as new objects,
\* and the rows made here that still carry an id of the page's own.
Merge(kinds, rows, h) ==
    LET slot(e) == IF srv[e] # 0 /\ srv[e] \notin HeldBy(op, e) THEN srv[e] ELSE NewSlot(e, {})
        read(e) == [id |-> "real", mark |-> rows[e], rid |-> "real", gone |-> FALSE]
    IN /\ srv' = [e \in Entity |->
                    CASE e \notin kinds -> srv[e]
                      [] e \in kinds /\ rows[e] # Absent -> slot(e)
                      [] OTHER -> 0]
       /\ loc' = [e \in Entity |->
                    IF e \in kinds /\ loc[e] # 0 /\ h[e][loc[e]].id # "temp" THEN 0 ELSE loc[e]]
       /\ Heap([e \in Entity |-> [t \in Slot |->
                    IF e \in kinds /\ rows[e] # Absent /\ t = slot(e) THEN read(e) ELSE h[e][t]]])

\* An item whose id became undefined: startsWith throws, the merge is left.
Wedged == \E e \in Item : loc[e] # 0 /\ obj[e][loc[e]].id = "none"

MergeItems(rows, h) ==
    IF Wedged THEN UNCHANGED <<srv, loc>> /\ Heap(h) ELSE Merge(Item, rows, h)

Keep(h) == UNCHANGED <<srv, loc>> /\ Heap(h)

\* Mutant of Resume: a lost request ends the replay.
ResumeUnlessLost(n) ==
    drain' = [d \in Turns |-> CASE drain[d] # [pc |-> "await", n |-> n] -> drain[d]
                               [] op[n].msg.tag = "lost" -> NoDrain
                               [] OTHER -> [pc |-> "loop", n |-> 0]]

\* The drain that awaits op n goes on.
Resume(n) == drain' = [d \in Turns |-> IF drain[d] = [pc |-> "await", n |-> n]
                                       THEN [pc |-> "loop", n |-> 0] ELSE drain[d]]

Finish(n) ==
    /\ op' = [op EXCEPT ![n] = NoOp]
    /\ Resume(n)

Reply(n, kind) ==
    /\ Quiet
    /\ op[n].pc = "answered" /\ op[n].kind = kind
    /\ UNCHANGED <<storeVars, queue, online, replaying, sse, tick, boundVars, ghosts>>

\* syncAddItem: any parsed body is adopted, an error's too; while the queue
\* is replayed only its id, which an error does not have.
CreatedItem(n) ==
    LET e == op[n].e  s == op[n].o
        new == [obj[e][s] EXCEPT !.id = "real", !.mark = IF replaying THEN @ ELSE op[n].msg.rows[e]]
        h == CASE op[n].msg.tag = "ok" -> [obj EXCEPT ![e][s] = new]
               [] op[n].msg.tag = "refused" /\ replaying -> [obj EXCEPT ![e][s].id = "none"]
               [] OTHER -> obj
    IN /\ Reply(n, "create") /\ e \in Free
       /\ Finish(n)
       /\ Keep(h)
       /\ UNCHANGED fetch

\* syncAddIngredient: an answer without an id is not adopted.
CreatedIngredient(n) ==
    LET e == op[n].e  s == op[n].o
        new == [obj[e][s] EXCEPT !.id = "real", !.rid = "real",
                                 !.mark = IF replaying THEN @ ELSE op[n].msg.rows[e]]
    IN /\ Reply(n, "create") /\ e \in Ing
       /\ Finish(n)
       /\ Keep(IF op[n].msg.tag = "ok" THEN [obj EXCEPT ![e][s] = new] ELSE obj)
       /\ UNCHANGED fetch

\* syncCreateRecipe: up to five attempts while the answer is an error; then
\* the new id reaches the recipe and the rows that name it.
MaxTries == 5
CreatedRecipe(n) ==
    LET r == op[n].e  s == op[n].o
        named == RowsOf(r, s)
        h == [x \in Entity |-> [t \in Slot |->
                CASE x = r /\ t = s -> [obj[x][t] EXCEPT !.id = "real"]
                  [] <<x, t>> \in named -> [obj[x][t] EXCEPT !.rid = "real"]
                  [] OTHER -> obj[x][t]]]
    IN /\ Reply(n, "create") /\ r \in Recipe
       /\ IF op[n].msg.tag = "refused" /\ op[n].tries < MaxTries
          THEN /\ op' = [op EXCEPT ![n].pc = "sent", ![n].tries = @ + 1,
                                   ![n].msg = Request("create", r, obj[r][s])]
               /\ Keep(obj)
               /\ UNCHANGED drain
          ELSE Finish(n) /\ Keep(IF op[n].msg.tag = "ok" THEN h ELSE obj)
       /\ UNCHANGED fetch

\* syncPatchItem: the answer is not looked at.
PatchedItem(n) ==
    /\ Reply(n, "patch")
    /\ Finish(n)
    /\ Keep(obj)
    /\ UNCHANGED fetch

\* syncPatchRecipe and adoptRecipePatch, not while the queue is replayed.
PatchedRecipe(n, kind) ==
    LET r == op[n].e
        first == IF srv[r] # 0 THEN srv[r] ELSE loc[r]
        h == IF first # 0 /\ obj[r][first].id = "real"
             THEN [obj EXCEPT ![r][first].mark = op[n].msg.rows[r]] ELSE obj
    IN /\ Reply(n, kind)
       /\ Finish(n)
       /\ IF op[n].msg.tag = "ok" /\ ~replaying THEN MergeItems(op[n].msg.rows, h) ELSE Keep(obj)
       /\ UNCHANGED fetch

\* deleteItem, removeIngredient, deleteRecipe.  Only an ingredient whose
\* request was lost is repaired: the items are read again.
Removed(n) ==
    LET e == op[n].e  tag == op[n].msg.tag
    IN /\ Reply(n, "delete")
       /\ IF tag = "lost" /\ e \in Ing
          THEN /\ op' = [op EXCEPT ![n].pc = "repair"]
               /\ fetch' = [fetch EXCEPT ![RepairSlot(n)]["items"] = SentGet]
               /\ Keep(obj)
               /\ UNCHANGED drain
          ELSE /\ Finish(n)
               /\ IF tag = "ok" /\ e \in Recipe THEN MergeItems(op[n].msg.rows, obj) ELSE Keep(obj)
               /\ UNCHANGED fetch

\* doReset
WasReset(n) ==
    /\ Reply(n, "reset")
    /\ Finish(n)
    /\ IF op[n].msg.tag = "ok" THEN MergeItems(op[n].msg.rows, obj) ELSE Keep(obj)
    /\ UNCHANGED fetch

Replied(n) ==
    \/ CreatedItem(n) \/ CreatedIngredient(n) \/ CreatedRecipe(n)
    \/ PatchedItem(n) \/ PatchedRecipe(n, "toggle") \/ PatchedRecipe(n, "rename")
    \/ Removed(n) \/ WasReset(n)

\* connectSSE, unless sync was turned off again.
Connect == IF online THEN sse' = "connecting" /\ tick' = FALSE ELSE UNCHANGED <<sse, tick>>

\* A part of a refresh arrives.  The reconnect's connects the stream after
\* both, and not at all when the items could not be merged.
Land(k, part) ==
    LET threw == part = "items" /\ Wedged
        rest == [fetch[k] EXCEPT ![part] = NoGet]
        complete == rest = NoFetch
        kept == IF part = "items" THEN MergeItems(fetch[k][part].rows, obj)
                ELSE Merge(Recipe, fetch[k][part].rows, obj)
    IN /\ Quiet
       /\ fetch[k][part].pc = "answered"
       /\ fetch' = [fetch EXCEPT ![k] = rest]
       /\ IF k \in Turns /\ drain[k].pc = "refresh" /\ (threw \/ complete)
          THEN /\ drain' = [drain EXCEPT ![k] = NoDrain]
               /\ IF threw THEN UNCHANGED <<sse, tick>> ELSE Connect
               /\ UNCHANGED op
          ELSE /\ IF k > RepairSlot(0) THEN Finish(k - RepairSlot(0)) ELSE UNCHANGED <<op, drain>>
               /\ UNCHANGED <<sse, tick>>
       /\ kept
       /\ UNCHANGED <<storeVars, queue, online, replaying, boundVars, ghosts>>

\* The stream's signal: refreshAll.
Refresh(k) ==
    /\ Quiet
    /\ sse = "open" /\ tick
    /\ k \in TickSlots /\ fetch[k] = NoFetch
    /\ tick' = FALSE
    /\ fetch' = [fetch EXCEPT ![k] = FullFetch]
    /\ UNCHANGED <<storeVars, pageVars, op, drain, sse, boundVars, ghosts>>

-----------------------------------------------------------------------------
\* The sync switch.

SwitchOff ==
    /\ Quiet
    /\ online /\ turns < MaxSwitches
    /\ online' = FALSE
    /\ sse' = "closed"
    /\ tick' = FALSE
    /\ UNCHANGED <<storeVars, obj, srv, loc, queue, replaying, op, drain, fetch, boundVars, ghosts>>

\* Replay first, refresh second.
SwitchOn ==
    /\ Quiet
    /\ ~online
    /\ online' = TRUE
    /\ turns' = turns + 1
    /\ replaying' = TRUE
    /\ drain' = [drain EXCEPT ![turns + 1] = [pc |-> "loop", n |-> 0]]
    /\ UNCHANGED <<storeVars, obj, srv, loc, queue, op, fetch, sse, tick,
                   edits, faults, rivals, made, ghosts>>

\* Another reconnect replays beside d, or has ended the replay d is in.
Overtaken(d) == ~replaying \/ \E x \in Turns \ {d} : drain[x].pc = "await"

\* One turn of replayPendingOps' loop.
Replay(d) ==
    /\ drain[d].pc = "loop"
    /\ IF queue = <<>>
       THEN /\ replaying' = FALSE
            /\ drain' = [drain EXCEPT ![d].pc = "refresh"]
            /\ fetch' = [fetch EXCEPT ![d] = FullFetch]
            /\ UNCHANGED <<queue, op, obj, srv, loc, excused>>
       ELSE LET n == Head(queue)
                kind == op[n].kind
                ob == IF kind = "reset" THEN Blank ELSE obj[op[n].e][op[n].o]
            IN /\ queue' = Tail(queue)
               /\ IF Sends(kind, ob)
                  THEN /\ op' = [op EXCEPT ![n].pc = "sent", ![n].msg = Request(kind, op[n].e, ob)]
                       /\ drain' = [drain EXCEPT ![d] = [pc |-> "await", n |-> n]]
                  ELSE op' = [op EXCEPT ![n] = NoOp] /\ UNCHANGED drain
               /\ excused' = excused \cup IF Overtaken(d) THEN Touches(n) ELSE {}
               /\ UNCHANGED <<replaying, fetch>>
               /\ Keep(obj)
    /\ UNCHANGED <<storeVars, online, sse, tick, boundVars, want>>

-----------------------------------------------------------------------------
Init ==
    /\ mem = [e \in Entity |-> IF e \notin Known THEN Absent
                               ELSE CASE e \in Free -> "needed" [] e \in Recipe -> "off" [] OTHER -> "not_needed"]
    /\ disk = mem /\ dirty = {}
    /\ obj = [e \in Entity |-> [s \in Slot |->
                IF e \in Known /\ s = 1 THEN [id |-> "real", mark |-> mem[e], rid |-> "real", gone |-> FALSE]
                ELSE Blank]]
    /\ srv = [e \in Entity |-> IF e \in Known THEN 1 ELSE 0]
    /\ loc = [e \in Entity |-> 0]
    /\ op = [n \in 1..MaxEdits |-> NoOp]
    /\ queue = <<>>
    /\ online = TRUE
    /\ replaying = FALSE
    /\ drain = [d \in Turns |-> NoDrain]
    /\ fetch = [k \in FetchSlots |-> NoFetch]
    /\ sse = "connecting"
    /\ tick = FALSE
    /\ edits = 0 /\ faults = 0 /\ rivals = 0 /\ turns = 0
    /\ made = Known
    /\ want = mem
    /\ excused = {}

UserEdit ==
    \/ \E e \in Entity, s \in Slot \cup {0} : Create(e, s)
    \/ \E e \in Entity, s \in Slot :
            CycleState(e, s) \/ ToggleRecipe(e, s) \/ RenameRecipe(e, s) \/ Remove(e, s)
    \/ Reset

Fault ==
    \/ \E n \in 1..MaxEdits : ServeOp(n, FALSE) \/ LoseOp(n)
    \/ \E k \in FetchSlots, part \in Part : LoseGet(k, part)
    \/ BreakStream

\* What the network, the server and the page's event loop get done.
Progress ==
    \/ \E n \in 1..MaxEdits : ServeOp(n, TRUE) \/ Replied(n)
    \/ \E k \in FetchSlots, part \in Part : ServeGet(k, part) \/ Land(k, part)
    \/ \E d \in Turns : Replay(d)
    \/ Register

Next ==
    \/ UserEdit \/ SwitchOff \/ SwitchOn
    \/ Fault \/ \E e \in Item : Rival(e)
    \/ Progress \/ \E k \in TickSlots : Refresh(k)

Spec == Init /\ [][Next]_vars
FairSpec == Spec /\ WF_vars(Progress)

TypeOK ==
    /\ StoreTypeOK
    /\ srv \in [Entity -> Slot \cup {0}] /\ loc \in [Entity -> Slot \cup {0}]
    /\ \A e \in Entity, s \in Slot :
            /\ obj[e][s].id \in {"temp", "real", "none"}
            /\ obj[e][s].mark \in MarksOf(e) \cup {Absent}
    /\ queue \in Seq(1..MaxEdits)
    /\ online \in BOOLEAN /\ replaying \in BOOLEAN
    /\ sse \in {"closed", "connecting", "open"} /\ tick \in BOOLEAN
    /\ excused \subseteq Entity

Settled ==
    /\ online /\ queue = <<>>
    /\ \A n \in 1..MaxEdits : op[n].pc = "none"

\* Once sync is on and nothing is queued or under way, the server holds what
\* the user last asked for, of every row that is not excused: "newest wins"
\* (main.ts:31-35).  Excused are the rows of
\*   - an edit made, with sync on, while an earlier one that touches the row (a
\*     reset touches all, a recipe's edit its ingredients) waits or is unanswered;
\*   - a recipe's switch made before the POST of an ingredient is answered: that
\*     ingredient;
\*   - an edit of a row that a late list had brought back after its deletion;
\*   - what is replayed while another reconnect replays too, or after another
\*     has ended the replay;
\*   - a rival's edit, a failed save, a lost request or answer, and a restart of
\*     the server that forgets what it had in memory only.
SettledAsAsked == Settled => \A e \in Entity \ excused : mem[e] = want[e]

\* A queue that a reconnect has begun to replay is replayed to its end,
\* whatever is refused, lost or edited meanwhile (main.ts:420-443).
ReplayEnds == (\E d \in Turns : drain[d].pc = "await") ~> (queue = <<>>)
=============================================================================
