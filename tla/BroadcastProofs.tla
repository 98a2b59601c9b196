--------------------------- MODULE BroadcastProofs ---------------------------
(***************************************************************************)
(* Broadcast for any number of broadcasts and targets and any size of the  *)
(* subscriber's channel: types, and what the page's button promises.       *)
(***************************************************************************)
EXTENDS Broadcast, TLAPS

\* The places between the click and the end of a broadcast, and after it.
Busy == {"posting", "open", "lost"}
Told == {"told", "over"}
Finished == Told \cup {"broken", "closed"}

\* No two broadcasts are under way, and none while the button is enabled; finished
\* says which are over, so a late event of an old web socket finds it set.
PageInv ==
    /\ \A j \in Job : finished[j] <=> page[j] \in Finished
    /\ \A i, j \in Job : page[i] \in Busy /\ page[j] \in Busy => i = j
    /\ button => \A j \in Job : page[j] \notin Busy

\* A job that is done stays as it is, and "complete" is sent only of such a one.
DoneInv ==
    /\ \A j \in Job : done[j] => AllTerminal(targets[j])
    /\ \A j \in Job : page[j] \in Told => done[j] /\ rows[j] \in {targets[j], <<>>}

\* A job is made as a whole, before the page hears of it.
MadeInv ==
    \A j \in Job : \A t \in Target(j) :
        targets[j][t] = "none" =>
            /\ \A u \in Target(j) : targets[j][u] = "none"
            /\ page[j] \in {"unused", "posting", "refused"} /\ owes[j] = {}

\* TypeOK types these four job by job, since each job has its own targets.
FunctionInv ==
    /\ targets = [j \in Job |-> targets[j]] /\ owes = [j \in Job |-> owes[j]]
    /\ sub = [j \in Job |-> sub[j]] /\ rows = [j \in Job |-> rows[j]]

\* A page that watches has its rows.
RowsInv == \A j \in Job : page[j] = "open" => rows[j] \in [Target(j) -> State]

IInv == TypeOK /\ FunctionInv /\ MadeInv /\ PageInv /\ RowsInv /\ DoneInv

-----------------------------------------------------------------------------
\* What a goroutine of the job does under its lock: a target that is not finished
\* gets another state (runBroadcastTransfer).
Moves(j, t) == \E s \in State : targets[j][t] \notin Terminal \cup {"none"} /\ Update(j, t, s)

LEMMA Transfers ==
    ASSUME NEW j \in Job, NEW t \in Target(j), Begin(j, t) \/ Report(j, t) \/ TransferEnds(j, t)
    PROVE  Moves(j, t)
BY DEF Begin, Report, TransferEnds, Moves, State, Terminal

\* A page is at one of its places only.
LEMMA Places ==
    /\ "unused" \notin Busy \cup Finished /\ "refused" \notin Busy \cup Finished
    /\ Busy \cap Finished = {} /\ Told \subseteq Finished
BY DEF Busy, Finished, Told

-----------------------------------------------------------------------------
LEMMA InitialTypes == Init => TypeOK
<1> SUFFICES ASSUME Init
             PROVE  TypeOK
  OBVIOUS
<1> QED
  BY BroadcastAssumption DEF BroadcastAssumption, Init, TypeOK, Target, State, Terminal, Frame

\* A job the page has heard of has a state for each target.
LEMMA Made ==
    ASSUME IInv, NEW j \in Job, page[j] \notin {"unused", "posting", "refused"} \/ owes[j] # {}
    PROVE  targets[j] \in [Target(j) -> State]
BY DEF IInv, MadeInv, TypeOK

\* What ends a broadcast on the page keeps its types.
LEMMA SendFinalTypes ==
    ASSUME IInv, NEW j \in Job, page[j] = "open", SendFinal(j), UNCHANGED jobVars
    PROVE  TypeOK'
<1>1. targets[j] \in [Target(j) -> State]
  BY Made
<1>2. /\ \A i \in Job : rows'[i] \in [Target(i) -> State] \cup {<<>>}
      /\ \A i \in Job : sub'[i] \in Seq(Frame(i)) /\ Len(sub'[i]) <= SubSize
  BY <1>1, BroadcastAssumption DEF IInv, TypeOK, SendFinal, Return, BroadcastAssumption
<1> QED
  BY <1>2 DEF IInv, TypeOK, SendFinal, Finish, Return, jobVars, Target, Frame

LEMMA StepFunctions == FunctionInv /\ [Next]_vars => FunctionInv'
<1> SUFFICES ASSUME FunctionInv, [Next]_vars
             PROVE  FunctionInv'
  OBVIOUS
<1>1. /\ targets' = targets \/ \E j \in Job : \E x : targets' = [targets EXCEPT ![j] = x]
      /\ owes' = owes \/ \E j \in Job : \E x : owes' = [owes EXCEPT ![j] = x]
      /\ sub' = sub \/ \E j \in Job : \E x : sub' = [sub EXCEPT ![j] = x]
      /\ rows' = rows \/ rows' = [j \in Job |-> <<>>] \/ \E j \in Job : \E x : rows' = [rows EXCEPT ![j] = x]
  <2>1. CASE UNCHANGED vars
    BY <2>1 DEF vars, jobVars, pageVars
  <2>2. ASSUME NEW j \in Job,
               \/ Click(j) \/ Post(j) \/ Answer(j) \/ Handler(j) \/ WebSocket(j) \/ Lose(j)
        PROVE  <1>1!:
    BY <2>2
    DEF Click, Post, Answer, Answered, PostFails, Handler, Subscribe, TakeSnapshot, SelectFrame, SelectDone,
        WriteFails, WebSocket, OnError, OnClose, Lose, SendFinal, Return, jobVars, pageVars
  <2>3. ASSUME NEW j \in Job, NEW t \in Target(j), Goroutine(j, t) \/ Report(j, t) \/ TransferEnds(j, t)
        PROVE  <1>1!:
    BY <2>3 DEF Goroutine, Begin, Report, TransferEnds, Update, FanOut, pageVars
  <2> QED
    BY <2>1, <2>2, <2>3 DEF Next
<1> QED
  BY <1>1 DEF FunctionInv

LEMMA StepTypes == IInv /\ [Next]_vars => TypeOK'
<1> SUFFICES ASSUME IInv, [Next]_vars
             PROVE  TypeOK'
  OBVIOUS
<1> USE DEF IInv, FunctionInv
<1>1. CASE UNCHANGED vars
  BY <1>1 DEF vars, jobVars, pageVars, TypeOK, Target, Frame
<1>2. ASSUME NEW j \in Job, NEW t \in Target(j), Moves(j, t)
      PROVE  TypeOK'
  <2>1. PICK s \in State : Update(j, t, s)
    BY <1>2 DEF Moves
  <2>2. /\ \A i \in Job : targets'[i] \in [Target(i) -> State \cup {"none"}]
        /\ \A i \in Job : owes'[i] \subseteq Target(i)
        /\ done' \in [Job -> BOOLEAN]
    BY <2>1 DEF Update, TypeOK
  <2> QED
    BY <2>1, <2>2 DEF Update, TypeOK, pageVars, Target, Frame
<1>3. ASSUME NEW j \in Job, NEW t \in Target(j), FanOut(j, t)
      PROVE  TypeOK'
  <2>1. Progress(t, targets[j][t]) \in Frame(j)
    BY <1>3, Made DEF FanOut, Progress, Frame
  <2>2. \A i \in Job : sub'[i] \in Seq(Frame(i)) /\ Len(sub'[i]) <= SubSize
    BY <1>3, <2>1, BroadcastAssumption DEF FanOut, TypeOK, BroadcastAssumption
  <2> QED
    BY <1>3, <2>2 DEF FanOut, TypeOK, pageVars, Target, Frame
<1>4. ASSUME NEW j \in Job, Click(j) \/ Answered(j)
      PROVE  TypeOK'
  <2>1. \A i \in Job : rows'[i] \in [Target(i) -> State] \cup {<<>>}
    <3>1. CASE Click(j)
      BY <3>1 DEF Click
    <3>2. CASE Answered(j)
      <4>1. [t \in Target(j) |-> "pending"] \in [Target(j) -> State]
        BY DEF State
      <4> QED
        BY <3>2, <4>1 DEF Answered, TypeOK
    <3> QED
      BY <1>4, <3>1, <3>2
  <2> QED
    BY <1>4, <2>1 DEF Click, Answered, TypeOK, jobVars, Target, Frame
<1>9. ASSUME NEW j \in Job, PostFails(j) \/ Lose(j) \/ OnError(j) \/ OnClose(j)
      PROVE  TypeOK'
  BY <1>9 DEF PostFails, Lose, OnError, OnClose, Finish, TypeOK, jobVars, Target, Frame
<1>5. ASSUME NEW j \in Job, Post(j)
      PROVE  TypeOK'
  <2>1. \A i \in Job : targets'[i] \in [Target(i) -> State \cup {"none"}]
    BY <1>5 DEF Post, TypeOK, State
  <2> QED
    BY <1>5, <2>1 DEF Post, TypeOK, pageVars, Target, Frame
<1>6. ASSUME NEW j \in Job, Subscribe(j)
      PROVE  TypeOK'
  BY <1>6 DEF Subscribe, TypeOK, jobVars, pageVars, Target, Frame
<1>10. ASSUME NEW j \in Job, WriteFails(j)
       PROVE  TypeOK'
  <2>1. \A i \in Job : sub'[i] \in Seq(Frame(i)) /\ Len(sub'[i]) <= SubSize
    BY <1>10, BroadcastAssumption DEF WriteFails, Return, TypeOK, BroadcastAssumption
  <2> QED
    BY <1>10, <2>1 DEF WriteFails, Return, TypeOK, jobVars, pageVars, Target, Frame
<1>7. ASSUME NEW j \in Job, TakeSnapshot(j) \/ SelectDone(j)
      PROVE  TypeOK'
  <2>1. CASE SendFinal(j)
    BY <1>7, <2>1, SendFinalTypes DEF TakeSnapshot, SelectDone
  <2>2. CASE TakeSnapshot(j) /\ ~done[j]
    <3>1. targets[j] \in [Target(j) -> State]
      BY <2>2, Made DEF TakeSnapshot
    <3>2. \A i \in Job : rows'[i] \in [Target(i) -> State] \cup {<<>>}
      BY <2>2, <3>1 DEF TakeSnapshot, TypeOK
    <3>3. /\ UNCHANGED <<targets, done, owes, sub, page, finished, button>>
          /\ pc' = [pc EXCEPT ![j] = "select"]
      BY <2>2 DEF TakeSnapshot, jobVars
    <3> QED
      BY <3>2, <3>3 DEF TypeOK, Target, Frame
  <2> QED
    BY <1>7, <2>1, <2>2 DEF TakeSnapshot, SelectDone
<1>8. ASSUME NEW j \in Job, SelectFrame(j)
      PROVE  TypeOK'
  <2>1. Head(sub[j]) \in Frame(j) /\ Tail(sub[j]) \in Seq(Frame(j)) /\ Len(Tail(sub[j])) <= SubSize
    BY <1>8, BroadcastAssumption DEF SelectFrame, TypeOK, BroadcastAssumption
  <2>2. \A i \in Job : rows'[i] \in [Target(i) -> State] \cup {<<>>}
    <3>1. rows[j] \in [Target(j) -> State]
      BY <1>8 DEF SelectFrame, RowsInv
    <3>2. [rows[j] EXCEPT ![Head(sub[j]).index] = Head(sub[j]).state] \in [Target(j) -> State]
      BY <3>1, <2>1 DEF Frame
    <3> QED
      BY <1>8, <3>2 DEF SelectFrame, TypeOK
  <2>3. \A i \in Job : sub'[i] \in Seq(Frame(i)) /\ Len(sub'[i]) <= SubSize
    BY <1>8, <2>1 DEF SelectFrame, TypeOK
  <2> QED
    BY <1>8, <2>2, <2>3 DEF SelectFrame, TypeOK, jobVars, Target, Frame
<1> QED
  BY <1>1, <1>2, <1>3, <1>4, <1>5, <1>6, <1>7, <1>8, <1>9, <1>10, Transfers
  DEF Next, Goroutine, Handler, Answer, WebSocket

-----------------------------------------------------------------------------
LEMMA StepMade == IInv /\ [Next]_vars => MadeInv'
<1> SUFFICES ASSUME IInv, [Next]_vars
             PROVE  MadeInv'
  OBVIOUS
<1> USE DEF IInv, FunctionInv
<1>1. CASE UNCHANGED vars
  BY <1>1 DEF vars, jobVars, pageVars, MadeInv, Target
<1>2. ASSUME NEW j \in Job, NEW t \in Target(j), Moves(j, t)
      PROVE  MadeInv'
  <2>1. PICK s \in State : Update(j, t, s)
    BY <1>2 DEF Moves
  <2>2. \A u \in Target(j) : targets[j][u] # "none"
    BY <1>2 DEF Moves, MadeInv
  <2>3. \A u \in Target(j) : targets'[j][u] # "none"
    BY <2>1, <2>2 DEF Update, TypeOK, State, Terminal
  <2> QED
    BY <2>1, <2>3 DEF Update, MadeInv, pageVars, Target
<1>3. ASSUME NEW j \in Job, NEW t \in Target(j), FanOut(j, t)
      PROVE  MadeInv'
  BY <1>3 DEF FanOut, MadeInv, pageVars, Target
<1>4. ASSUME NEW j \in Job, Post(j)
      PROVE  MadeInv'
  <2>1. \A u \in Target(j) : targets'[j][u] # "none"
    BY <1>4 DEF Post
  <2> QED
    BY <1>4, <2>1 DEF Post, MadeInv, pageVars, Target
<1>5. ASSUME NEW j \in Job, Answered(j)
      PROVE  MadeInv'
  <2>1. 1 \in Target(j)
    BY BroadcastAssumption DEF BroadcastAssumption, Target
  <2>2. \A u \in Target(j) : targets[j][u] # "none"
    BY <1>5, <2>1 DEF Answered, Created, MadeInv
  <2> QED
    BY <1>5, <2>2 DEF Answered, MadeInv, jobVars, TypeOK, Target
<1>6. ASSUME NEW j \in Job, Click(j) \/ PostFails(j)
      PROVE  MadeInv'
  <2>1. /\ UNCHANGED <<targets, owes>>
        /\ page' = [page EXCEPT ![j] = "posting"] \/ page' = [page EXCEPT ![j] = "refused"]
    BY <1>6 DEF Click, PostFails, jobVars
  <2>2. \A i \in Job : page[i] \in {"unused", "posting", "refused"} => page'[i] \in {"unused", "posting", "refused"}
    BY <2>1 DEF TypeOK
  <2> QED
    BY <2>1, <2>2 DEF MadeInv, Target
<1>7. ASSUME NEW j \in Job, Handler(j) \/ WebSocket(j) \/ Lose(j)
      PROVE  MadeInv'
  <2>1. /\ UNCHANGED <<targets, owes>>
        /\ page' = page \/ \E x : page' = [page EXCEPT ![j] = x]
        /\ page' = page \/ page[j] \notin {"unused", "posting", "refused"}
    BY <1>7
    DEF Handler, Subscribe, TakeSnapshot, SelectFrame, SelectDone, WriteFails, SendFinal, WebSocket, OnError,
        OnClose, Lose, jobVars, pageVars
  <2> QED
    BY <2>1 DEF MadeInv, TypeOK, Target
<1> QED
  BY <1>1, <1>2, <1>3, <1>4, <1>5, <1>6, <1>7, Transfers DEF Next, Goroutine, Answer

\* What a broadcast's end on the page does to the button: finish gives it back if
\* the broadcast was under way, and leaves it alone if it was over.
LEMMA Ends ==
    ASSUME IInv, NEW j \in Job, page[j] \in {"open", "lost"} \cup Finished, Finish(j),
           NEW x \in Finished, page' = [page EXCEPT ![j] = x]
    PROVE  PageInv'
<1>1. page[j] \in Busy <=> ~finished[j]
  BY DEF IInv, PageInv, Busy, Finished, Told
<1>2. \A i \in Job : page'[i] \in Busy => page[i] \in Busy /\ i # j
  BY Places DEF IInv, TypeOK
<1>3. \A i \in Job : finished'[i] <=> page'[i] \in Finished
  BY DEF Finish, IInv, PageInv, TypeOK
<1>4. button' => \A i \in Job : page'[i] \notin Busy
  BY <1>1, <1>2 DEF Finish, IInv, PageInv
<1> QED
  BY <1>2, <1>3, <1>4 DEF IInv, PageInv

LEMMA StepPage == IInv /\ [Next]_vars => PageInv'
<1> SUFFICES ASSUME IInv, [Next]_vars
             PROVE  PageInv'
  OBVIOUS
<1> USE DEF IInv
<1>1. CASE UNCHANGED pageVars
  BY <1>1 DEF pageVars, PageInv
<1>2. ASSUME NEW j \in Job, NEW t \in Target(j), Moves(j, t) \/ FanOut(j, t)
      PROVE  UNCHANGED pageVars
  BY <1>2 DEF Moves, Update, FanOut
<1>3. ASSUME NEW j \in Job, Click(j)
      PROVE  PageInv'
  BY <1>3 DEF Click, PageInv, TypeOK, Busy, Finished, Told
<1>4. ASSUME NEW j \in Job, Answered(j) \/ Lose(j)
      PROVE  PageInv'
  BY <1>4 DEF Answered, Lose, PageInv, TypeOK, Busy, Finished, Told
<1>5. ASSUME NEW j \in Job, PostFails(j)
      PROVE  PageInv'
  <2>1. \A i \in Job : page'[i] \notin Busy
    BY <1>5 DEF PostFails, PageInv, TypeOK, Busy
  <2> QED
    BY <1>5, <2>1 DEF PostFails, PageInv, TypeOK, Busy, Finished, Told
<1>6. ASSUME NEW j \in Job, OnError(j) \/ OnClose(j)
      PROVE  PageInv'
  <2>1. Finish(j) /\ page[j] \in {"open", "lost"} \cup Finished
    BY <1>6 DEF OnError, OnClose, Finished, Told
  <2>2. \E x \in Finished : page' = [page EXCEPT ![j] = x]
    BY <1>6 DEF OnError, OnClose, TypeOK, Finished, Told
  <2> QED
    BY <2>1, <2>2, Ends
<1>7. ASSUME NEW j \in Job, Handler(j)
      PROVE  PageInv'
  <2>1. CASE SendFinal(j) /\ page[j] = "open"
    BY <2>1, Ends DEF SendFinal, Finished, Told
  <2>2. CASE UNCHANGED <<page, finished, button>>
    BY <2>2 DEF PageInv
  <2> QED
    BY <1>7, <2>1, <2>2
    DEF Handler, Subscribe, TakeSnapshot, SelectFrame, SelectDone, WriteFails, pageVars
<1> QED
  BY <1>1, <1>2, <1>3, <1>4, <1>5, <1>6, <1>7, Transfers
  DEF Next, Goroutine, Answer, WebSocket, Post, vars

LEMMA StepRows == IInv /\ [Next]_vars => RowsInv'
<1> SUFFICES ASSUME IInv, [Next]_vars
             PROVE  RowsInv'
  OBVIOUS
<1> USE DEF IInv, FunctionInv
<1>1. CASE UNCHANGED pageVars
  BY <1>1 DEF pageVars, RowsInv, Target
<1>2. ASSUME NEW j \in Job, NEW t \in Target(j), Moves(j, t) \/ FanOut(j, t)
      PROVE  UNCHANGED pageVars
  BY <1>2 DEF Moves, Update, FanOut
<1>3. ASSUME NEW j \in Job, Click(j)
      PROVE  RowsInv'
  BY <1>3 DEF Click, PageInv, TypeOK, RowsInv, Busy
<1>4. ASSUME NEW j \in Job, Answered(j)
      PROVE  RowsInv'
  <2>1. [t \in Target(j) |-> "pending"] \in [Target(j) -> State]
    BY DEF State
  <2> QED
    BY <1>4, <2>1 DEF Answered, TypeOK, RowsInv, Target
<1>5. ASSUME NEW j \in Job, NEW x, page' = [page EXCEPT ![j] = x], x # "open", 
             rows' = rows \/ \E y : rows' = [rows EXCEPT ![j] = y]
      PROVE  RowsInv'
  BY <1>5 DEF TypeOK, RowsInv, Target
<1>6. ASSUME NEW j \in Job, PostFails(j) \/ Lose(j) \/ OnError(j) \/ OnClose(j)
      PROVE  RowsInv'
  <2>1. UNCHANGED rows /\ \E x : x # "open" /\ page' = [page EXCEPT ![j] = x]
    BY <1>6 DEF PostFails, Lose, OnError, OnClose, TypeOK
  <2> QED
    BY <2>1, <1>5
<1>7. ASSUME NEW j \in Job, Handler(j)
      PROVE  RowsInv'
  <2>1. CASE SendFinal(j)
    BY <2>1, <1>5 DEF SendFinal
  <2>2. CASE TakeSnapshot(j) /\ ~SendFinal(j)
    <3>1. targets[j] \in [Target(j) -> State]
      BY <2>2, Made DEF TakeSnapshot
    <3>2. UNCHANGED page /\ rows' = [rows EXCEPT ![j] = targets[j]]
      BY <2>2 DEF TakeSnapshot
    <3> QED
      BY <3>1, <3>2 DEF RowsInv, Target
  <2>3. CASE SelectFrame(j)
    <3>1. Head(sub[j]) \in Frame(j) /\ rows[j] \in [Target(j) -> State]
      BY <2>3 DEF SelectFrame, RowsInv, TypeOK
    <3>2. [rows[j] EXCEPT ![Head(sub[j]).index] = Head(sub[j]).state] \in [Target(j) -> State]
      BY <3>1 DEF Frame
    <3> QED
      BY <2>3, <3>2 DEF SelectFrame, RowsInv, Target
  <2> QED
    BY <1>1, <1>7, <2>1, <2>2, <2>3 DEF Handler, Subscribe, TakeSnapshot, SelectDone, WriteFails
<1> QED
  BY <1>1, <1>2, <1>3, <1>4, <1>6, <1>7, Transfers DEF Next, Goroutine, Answer, WebSocket, Post, vars

\* The targets of a job that is done no longer move.
LEMMA DoneStays ==
    ASSUME IInv, NEW j \in Job, done[j], [Next]_vars
    PROVE  UNCHANGED <<targets[j], done[j]>>
<1> USE DEF IInv, FunctionInv
<1>1. \A t \in Target(j) : targets[j][t] \in Terminal
  BY DEF DoneInv, AllTerminal, TypeOK
<1>2. ASSUME NEW i \in Job, NEW t \in Target(i), Moves(i, t)
      PROVE  i # j /\ \E s : Update(i, t, s)
  BY <1>1, <1>2 DEF Moves
<1>3. ASSUME NEW i \in Job, NEW t \in Target(i), Moves(i, t)
      PROVE  UNCHANGED <<targets[j], done[j]>>
  <2>1. i # j
    BY <1>2, <1>3
  <2>2. PICK s : Update(i, t, s)
    BY <1>2, <1>3
  <2>3. /\ targets' = [targets EXCEPT ![i][t] = s]
        /\ done' = [done EXCEPT ![i] = @ \/ AllTerminal(targets'[i])]
    BY <2>2 DEF Update
  <2> QED
    BY <2>1, <2>3 DEF TypeOK
<1>4. ASSUME NEW i \in Job, Post(i)
      PROVE  i # j
  <2>1. 1 \in Target(j) /\ targets[j][1] # "none"
    BY <1>1, BroadcastAssumption DEF BroadcastAssumption, Target, Terminal
  <2> QED
    BY <1>4, <2>1 DEF Post, Created
<1>5. ASSUME NEW i \in Job, Post(i)
      PROVE  UNCHANGED <<targets[j], done[j]>>
  BY <1>4, <1>5 DEF Post
<1>6. ASSUME NEW i \in Job,
             \/ Click(i) \/ Answer(i) \/ Handler(i) \/ WebSocket(i) \/ Lose(i)
             \/ \E t \in Target(i) : FanOut(i, t)
      PROVE  UNCHANGED <<targets, done>>
  BY <1>6
  DEF Click, Answer, Answered, PostFails, Handler, Subscribe, TakeSnapshot, SelectFrame, SelectDone, WriteFails,
      WebSocket, OnError, OnClose, Lose, FanOut, jobVars
<1> QED
  BY <1>3, <1>5, <1>6, Transfers DEF Next, Goroutine, vars, jobVars

LEMMA StepDone == IInv /\ [Next]_vars => DoneInv'
<1> SUFFICES ASSUME IInv, [Next]_vars
             PROVE  DoneInv'
  OBVIOUS
<1> USE DEF IInv, FunctionInv
<1>1. ASSUME NEW j \in Job, done'[j]
      PROVE  AllTerminal(targets'[j])
  <2>1. CASE done[j]
    BY <2>1, DoneStays DEF DoneInv
  <2>2. CASE ~done[j]
    <3>1. ASSUME NEW i \in Job, NEW t \in Target(i), Moves(i, t)
          PROVE  AllTerminal(targets'[j])
      BY <1>1, <2>2, <3>1 DEF Moves, Update, TypeOK
    <3>2. ASSUME NEW i \in Job,
                 \/ Click(i) \/ Post(i) \/ Answer(i) \/ Handler(i) \/ WebSocket(i) \/ Lose(i)
                 \/ \E t \in Target(i) : FanOut(i, t)
          PROVE  UNCHANGED done
      BY <3>2
      DEF Click, Post, Answer, Answered, PostFails, Handler, Subscribe, TakeSnapshot, SelectFrame, SelectDone,
          WriteFails, WebSocket, OnError, OnClose, Lose, FanOut, jobVars
    <3> QED
      BY <1>1, <2>2, <3>1, <3>2, Transfers DEF Next, Goroutine, vars, jobVars
  <2> QED
    BY <2>1, <2>2
<1>2. ASSUME NEW j \in Job, page[j] \in Told
      PROVE  rows'[j] \in {targets[j], <<>>} /\ page'[j] \in Told
  <2>1. rows[j] \in {targets[j], <<>>}
    BY <1>2 DEF DoneInv
  <2>2. ASSUME NEW i \in Job,
               Post(i) \/ \E t \in Target(i) : FanOut(i, t) \/ Moves(i, t)
        PROVE  UNCHANGED pageVars
    BY <2>2 DEF Post, FanOut, Moves, Update
  <2>3. ASSUME NEW i \in Job, Click(i) \/ Answer(i) \/ Lose(i) \/ OnError(i)
        PROVE  rows'[j] \in {rows[j], <<>>} /\ page'[j] \in Told
    BY <1>2, <2>3 DEF Click, Answer, Answered, PostFails, Lose, OnError, TypeOK, Told
  <2>4. ASSUME NEW i \in Job, OnClose(i)
        PROVE  rows'[j] = rows[j] /\ page'[j] \in Told
    BY <1>2, <2>4 DEF OnClose, TypeOK, Told
  <2>5. ASSUME NEW i \in Job, Handler(i)
        PROVE  rows'[j] = rows[j] /\ page'[j] \in Told
    <3>1. page[i] = "open" => i # j
      BY <1>2 DEF Told
    <3>2. /\ rows' = rows \/ (page[i] = "open" /\ \E x : rows' = [rows EXCEPT ![i] = x])
          /\ page' = page \/ (page[i] = "open" /\ \E x : page' = [page EXCEPT ![i] = x])
      BY <2>5
      DEF Handler, Subscribe, TakeSnapshot, SelectFrame, SelectDone, WriteFails, SendFinal, pageVars
    <3> QED
      BY <1>2, <3>1, <3>2 DEF TypeOK
  <2> QED
    BY <1>2, <2>1, <2>2, <2>3, <2>4, <2>5, Transfers DEF Next, Goroutine, WebSocket, vars, pageVars
<1>3. ASSUME NEW j \in Job, page'[j] \in Told, page[j] \notin Told
      PROVE  done[j] /\ rows'[j] = targets[j]
  <2>1. ASSUME NEW i \in Job, NEW x, page' = [page EXCEPT ![i] = x], x \notin Told
        PROVE  FALSE
    BY <1>3, <2>1 DEF TypeOK
  <2>2. ASSUME NEW i \in Job, Click(i) \/ Answer(i) \/ Lose(i) \/ OnError(i)
        PROVE  FALSE
    <3>1. \E x \in {"posting", "open", "refused", "lost", "broken"} : page' = [page EXCEPT ![i] = x]
      BY <2>2 DEF Click, Answer, Answered, PostFails, Lose, OnError
    <3> QED
      BY <2>1, <3>1 DEF Told
  <2>3. ASSUME NEW i \in Job, OnClose(i)
        PROVE  FALSE
    BY <1>3, <2>3 DEF OnClose, TypeOK, Told
  <2>4. page' # page
    BY <1>3
  <2>5. ASSUME NEW i \in Job, Handler(i)
        PROVE  done[j] /\ rows'[j] = targets[j]
    <3>1. SendFinal(i) /\ done[i]
      BY <2>4, <2>5
      DEF Handler, Subscribe, TakeSnapshot, SelectFrame, SelectDone, WriteFails, pageVars
    <3>2. i = j
      BY <1>3, <3>1 DEF SendFinal, TypeOK
    <3> QED
      BY <3>1, <3>2 DEF SendFinal
  <2> QED
    BY <2>2, <2>3, <2>4, <2>5, Transfers
    DEF Next, Goroutine, WebSocket, Post, FanOut, Moves, Update, vars, pageVars
<1>4. ASSUME NEW j \in Job, page'[j] \in Told
      PROVE  done'[j] /\ rows'[j] \in {targets'[j], <<>>}
  <2>1. done[j] /\ rows'[j] \in {targets[j], <<>>}
    BY <1>2, <1>3, <1>4 DEF DoneInv
  <2> QED
    BY <2>1, DoneStays
<1> QED
  BY <1>1, <1>4 DEF DoneInv

-----------------------------------------------------------------------------
\* The inductive invariant holds.
THEOREM BroadcastInvariant == Spec => []IInv
<1>1. Init => IInv
  <2> SUFFICES ASSUME Init
               PROVE  IInv
    OBVIOUS
  <2>1. FunctionInv /\ PageInv /\ RowsInv /\ DoneInv
    BY DEF Init, FunctionInv, PageInv, RowsInv, DoneInv, Busy, Finished, Told
  <2>2. MadeInv
    BY DEF Init, MadeInv
  <2> QED
    BY <2>1, <2>2, InitialTypes DEF IInv
<1>2. IInv /\ [Next]_vars => IInv'
  BY StepTypes, StepFunctions, StepMade, StepPage, StepRows, StepDone DEF IInv
<1> QED
  BY <1>1, <1>2, PTL DEF Spec

\* Types of jobs, handlers and page.
THEOREM BroadcastTypes == Spec => []TypeOK
<1>1. IInv => TypeOK
  BY DEF IInv
<1> QED
  BY <1>1, BroadcastInvariant, PTL

\* With the button enabled nothing is under way, and the rows of every broadcast that
\* was watched to its end show what became of its targets (upload.ts, broadcast.go).
THEOREM AlwaysButtonMeansOver == Spec => []ButtonMeansOver
<1>1. IInv => ButtonMeansOver
  BY DEF IInv, TypeOK, PageInv, DoneInv, ButtonMeansOver, Busy, Told
<1> QED
  BY <1>1, BroadcastInvariant, PTL
=============================================================================
