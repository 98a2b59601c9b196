--------------------------- MODULE ExecutionLedger ---------------------------
(***************************************************************************)
(* What the task engine promises of its history, whatever happens inside:  *)
(* an execution is opened once, runs at most once, is closed at most once  *)
(* with a verdict that never changes, and counts in the metrics at most    *)
(* once, after it is closed.  Entries disappear only with their task.      *)
(***************************************************************************)
EXTENDS Naturals

CONSTANT Entry

Verdict == {"success", "failed", "canceled"}

VARIABLES
    entry,      \* "unused", "pending", "running", a verdict, or "gone"
    counted     \* entries that have a metric

ledgerVars == <<entry, counted>>

LedgerInit ==
    /\ entry = [e \in Entry |-> "unused"]
    /\ counted = [e \in Entry |-> 0]

Open(e) ==
    /\ entry[e] = "unused"
    /\ entry' = [entry EXCEPT ![e] = "pending"]
    /\ UNCHANGED counted

Start(e) ==
    /\ entry[e] = "pending"
    /\ entry' = [entry EXCEPT ![e] = "running"]
    /\ UNCHANGED counted

\* A running entry gets any verdict, one that never ran cannot succeed.
Close(e, v) ==
    /\ entry[e] = "running" \/ (entry[e] = "pending" /\ v # "success")
    /\ entry' = [entry EXCEPT ![e] = v]

CloseOnly(e) ==
    /\ \E v \in Verdict : Close(e, v)
    /\ UNCHANGED counted

\* Canceling an entry before it runs counts it in the same step.
CancelQueued(e) ==
    /\ entry[e] = "pending"
    /\ Close(e, "canceled")
    /\ counted' = [counted EXCEPT ![e] = 1]

Count(e) ==
    /\ entry[e] \in Verdict \cup {"gone"}
    /\ counted[e] = 0
    /\ counted' = [counted EXCEPT ![e] = 1]
    /\ UNCHANGED entry

\* Entries go with their task; their metrics go too, or all stay.
Forget(S) ==
    /\ \A e \in S : entry[e] # "unused"
    /\ entry' = [e \in Entry |-> IF e \in S THEN "gone" ELSE entry[e]]
    /\ \/ UNCHANGED counted
       \/ counted' = [e \in Entry |-> IF e \in S THEN 0 ELSE counted[e]]

LedgerNext ==
    \/ \E S \in SUBSET Entry : Forget(S)
    \/ \E e \in Entry : Open(e) \/ Start(e) \/ CloseOnly(e) \/ CancelQueued(e) \/ Count(e)

LedgerSpec == LedgerInit /\ [][LedgerNext]_ledgerVars
==============================================================================
