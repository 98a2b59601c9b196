---------------------------- MODULE CertRotation -----------------------------
(***************************************************************************)
(* The requests that change certificates and authorities                   *)
(* (internal/certmachine/lifecycle.go, carotate.go, importer.go): each     *)
(* reads the database in several statements, makes its keys, and then      *)
(* writes in one transaction.  The database has one connection, so a       *)
(* statement and a transaction are each one step; anything may happen in   *)
(* between.                                                                *)
(***************************************************************************)
EXTENDS CertStore

CONSTANTS
    Request,        \* requests that may be under way at once
    Legacy,         \* what the legacy tree holds of each leaf
    Stored,         \* the rows of a database that was in use before
    MaxRequests,    \* bound: requests
    MaxFailures     \* bound: requests that end early

ASSUME RotationAssumption ==
    /\ Fqdn # {} /\ IsFiniteSet(Stored)
    /\ \A r \in Stored : /\ r \in Row /\ r.id \in 1..Cardinality(Stored)
                         /\ r.ca = Unknown \/ (r.ca = 1 /\ r.signer = 1)
                         /\ \A t \in Stored : r # t => r.id # t.id
    /\ \A r, t \in Active(Stored) : r.fqdn = t.fqdn => r = t
    /\ Legacy \in [Leaf -> [fqdn : Fqdn, broken : BOOLEAN, chains : BOOLEAN, age : Nat]]
    /\ \A l, m \in Leaf : Legacy[l].fqdn = Legacy[m].fqdn /\ Legacy[l].age = Legacy[m].age => l = m
    /\ MaxRequests \in Nat /\ MaxFailures \in Nat

VARIABLES
    cas, certs,     \* the store
    nextCA, nextCert,
    legacy,         \* the authority that is the legacy tree's root, once stored
    req,            \* the requests under way
    answer,         \* of each request, how it ended
    begun, failures

storeVars == <<cas, certs, nextCA, nextCert, legacy>>
vars == <<storeVars, req, answer, begun, failures>>

Kinds == {"init", "import", "generate", "renew", "edit", "delete", "replace", "switchBack"}
Choices == {"reissue", "delete", "keep"}
Answers == {"none", "ok", "refused", "conflict", "internal"}
Steps == {"idle", "row", "rival", "current", "previous", "stale", "outgoing",
          "root", "rootPrevious", "rootInsert", "leaves", "count", "commit"}

NoRow == [id |-> 0]
Idle == [pc |-> "idle", kind |-> "init", fqdn |-> CHOOSE f \in Fqdn : TRUE, id |-> 0,
         existing |-> "keep", stale |-> "keep",
         cur |-> 0, prev |-> 0, src |-> NoRow, p3 |-> {}, old |-> {}, leaves |-> {}]

At(s, pc) == req[s].pc = pc
Goto(s, r, pc) == req' = [req EXCEPT ![s] = [r EXCEPT !.pc = pc]]

Ended(s, a) ==
    /\ req' = [req EXCEPT ![s] = Idle]
    /\ answer' = [answer EXCEPT ![s] = a]

\* The request ends with an error and has written nothing.
Refuse(s, a) == Ended(s, a) /\ UNCHANGED <<storeVars, begun, failures>>

Read == UNCHANGED <<storeVars, answer, begun, failures>>

-----------------------------------------------------------------------------
First(kind) ==
    CASE kind \in {"generate", "replace", "switchBack", "init"} -> "current"
      [] kind \in {"renew", "edit"} -> "row"
      [] kind = "delete" -> "commit"
      [] kind = "import" -> "root"

\* A request arrives.  In a replacement, stale "keep" stands for no choice
\* about the certificates of the previous authority.
Arrive(s, kind, fqdn, id, existing, stale) ==
    /\ At(s, "idle")
    /\ begun < MaxRequests
    /\ begun' = begun + 1
    /\ req' = [req EXCEPT ![s] = [Idle EXCEPT !.pc = First(kind), !.kind = kind, !.fqdn = fqdn,
                                              !.id = id, !.existing = existing, !.stale = stale]]
    /\ answer' = [answer EXCEPT ![s] = "none"]
    /\ UNCHANGED <<storeVars, failures>>

\* A key cannot be made, an authority is about to expire, a name is refused, the
\* client has gone: the request ends before its transaction.
Fail(s) ==
    /\ ~At(s, "idle")
    /\ failures < MaxFailures
    /\ failures' = failures + 1
    /\ Ended(s, "refused")
    /\ UNCHANGED <<storeVars, begun>>

\* Renew and Edit: GetCert.
ReadRow(s) ==
    /\ At(s, "row")
    /\ \/ /\ \A r \in certs : r.id = req[s].id => r.status = "quarantined"
          /\ Refuse(s, "refused")
       \/ \E r \in certs :
             /\ r.id = req[s].id /\ r.status # "quarantined"
             /\ LET q == [req[s] EXCEPT !.src = r,
                                        !.fqdn = IF req[s].kind = "renew" THEN r.fqdn ELSE @]
                IN Goto(s, q, IF q.fqdn # r.fqdn \/ r.status = "archived" THEN "rival" ELSE "current")
             /\ Read

\* Renew and Edit: activeCertForFQDN.
ReadRival(s) ==
    /\ At(s, "rival")
    /\ IF \E r \in ActiveFor(certs, req[s].fqdn) : r.id # req[s].src.id
       THEN Refuse(s, "refused")
       ELSE Goto(s, req[s], "current") /\ Read

\* GetCurrentCA, before anything else of Generate, Replace, SwitchBack, InitCA;
\* storedCARefs of an import.
ReadCurrent(s) ==
    LET found == Current(cas) # 0
        kind == req[s].kind
    IN /\ At(s, "current")
       /\ IF kind # "import" /\ found = (kind = "init")
          THEN Refuse(s, "refused")
          ELSE /\ Goto(s, [req[s] EXCEPT !.cur = Current(cas)],
                       CASE kind \in {"generate", "renew", "edit"} -> "commit"
                         [] kind = "init" -> "count"
                         [] OTHER -> "previous")
               /\ Read

\* GetPreviousCA.
ReadPrevious(s) ==
    LET p == Previous(cas)
        kind == req[s].kind
    IN /\ At(s, "previous")
       /\ IF kind = "switchBack" /\ p = 0
          THEN Refuse(s, "refused")
          ELSE /\ Goto(s, [req[s] EXCEPT !.prev = p],
                       CASE kind # "replace" -> "commit"
                         [] kind = "replace" /\ p # 0 -> "stale"
                         [] kind = "replace" /\ p = 0 -> "outgoing")
               /\ Read

\* ReplaceCA: activeCertsForCA; a choice about them is required.
ReadStale(s) ==
    LET old == ActiveUnder(certs, req[s].prev)
    IN /\ At(s, "stale")
       /\ IF old # {} /\ req[s].stale = "keep"
          THEN Refuse(s, "refused")
          ELSE Goto(s, [req[s] EXCEPT !.old = old], "outgoing") /\ Read

\* ReplaceCA: activeCertsUnderCurrentOrUnknown.
ReadOutgoing(s) ==
    /\ At(s, "outgoing")
    /\ Goto(s, [req[s] EXCEPT !.p3 = Outgoing(certs, req[s].cur)], "commit")
    /\ Read

\* InitNamedCA: an empty store with a legacy tree must import first.
ReadCount(s) ==
    /\ At(s, "count")
    /\ IF certs = {} /\ Leaf # {} THEN Refuse(s, "refused")
       ELSE Goto(s, req[s], "commit") /\ Read

-----------------------------------------------------------------------------
\* Import: ImportCA, one statement at a time, then the tree and what of it is
\* in the store.

ReadRoot(s) ==
    /\ At(s, "root")
    /\ Goto(s, req[s], CASE Current(cas) = 0 -> "rootInsert"
                         [] Current(cas) # 0 /\ Current(cas) = legacy -> "leaves"
                         [] Current(cas) # 0 /\ Current(cas) # legacy -> "rootPrevious")
    /\ Read

ReadRootPrevious(s) ==
    /\ At(s, "rootPrevious")
    /\ IF Previous(cas) # 0 /\ Previous(cas) = legacy THEN Goto(s, req[s], "leaves") /\ Read
       ELSE Refuse(s, "refused")

InsertRoot(s) ==
    /\ At(s, "rootInsert")
    /\ IF DOMAIN cas # {} THEN Refuse(s, "refused")
       ELSE /\ cas' = WithCA(cas, nextCA, "current")
            /\ legacy' = nextCA /\ nextCA' = nextCA + 1
            /\ Goto(s, req[s], "leaves")
            /\ UNCHANGED <<certs, nextCert, answer, begun, failures>>

\* determineSkips.
ReadLeaves(s) ==
    /\ At(s, "leaves")
    /\ Goto(s, [req[s] EXCEPT !.leaves = Leaf \ {r.leaf : r \in certs}], "current")
    /\ Read

\* resolveDuplicateCNs: of the leaves of a name that are not in the store yet, the
\* newest is active (age: the place in the order of not_after, newest first).
Superseded(l, leaves) ==
    \E m \in leaves : /\ Legacy[m].fqdn = Legacy[l].fqdn /\ ~Legacy[m].broken
                      /\ Legacy[m].age < Legacy[l].age

\* Mutant: the current authority is taken for the signer.
ImportedUnderCurrent(l, id, q) ==
    [id |-> id, fqdn |-> Legacy[l].fqdn,
     status |-> IF Legacy[l].broken THEN "quarantined"
                ELSE IF Superseded(l, q.leaves) THEN "archived" ELSE "active",
     ca |-> IF Legacy[l].broken THEN Unknown ELSE q.cur,
     signer |-> IF Legacy[l].chains THEN legacy ELSE Unknown, leaf |-> l]

\* certFromLeafScan, resolveImportCAID.
Imported(l, id, q) ==
    LET known == Legacy[l].chains /\ legacy # 0 /\ legacy \in {q.cur, q.prev}
    IN [id |-> id, fqdn |-> Legacy[l].fqdn,
        status |-> IF Legacy[l].broken THEN "quarantined"
                   ELSE IF Superseded(l, q.leaves) THEN "archived" ELSE "active",
        ca |-> IF known /\ ~Legacy[l].broken THEN legacy ELSE Unknown,
        signer |-> IF Legacy[l].chains THEN legacy ELSE Unknown,
        leaf |-> l]

Numbered(leaves) == {n \in [leaves -> nextCert..(nextCert + Cardinality(leaves) - 1)] :
                        \A l, m \in leaves : n[l] = n[m] => l = m}

\* Execute's transaction.
CommitImport(s) ==
    LET q == req[s]
    IN /\ At(s, "commit") /\ q.kind = "import"
       /\ \E number \in Numbered(q.leaves) :
            LET rows == {Imported(l, number[l], q) : l \in q.leaves}
                names == {r.fqdn : r \in Active(rows)}
            IN IF \E r \in rows : r.ca # Unknown /\ r.ca \notin DOMAIN cas
               THEN Refuse(s, "conflict")
               ELSE IF \/ \E f \in names : ActiveFor(certs, f) # {}
                       \/ q.leaves \cap {r.leaf : r \in certs} # {}
               THEN Refuse(s, "refused")
               ELSE /\ certs' = certs \cup rows
                    /\ nextCert' = nextCert + Cardinality(q.leaves)
                    /\ Ended(s, "ok")
                    /\ UNCHANGED <<cas, nextCA, legacy, begun, failures>>

-----------------------------------------------------------------------------
\* The other transactions.

Commits(s, kinds) == At(s, "commit") /\ req[s].kind \in kinds

Written(s, db) ==
    /\ cas' = db.cas /\ certs' = db.certs
    /\ Ended(s, "ok")
    /\ UNCHANGED <<legacy, begun, failures>>

CommitInit(s) ==
    /\ Commits(s, {"init"})
    /\ IF DOMAIN cas # {} THEN Refuse(s, "refused")
       ELSE /\ Written(s, [cas |-> WithCA(cas, nextCA, "current"), certs |-> certs])
            /\ nextCA' = nextCA + 1 /\ UNCHANGED nextCert

\* What Renew and Edit archive first.
Superseding(q) ==
    CASE q.kind = "generate" -> certs
      [] q.kind # "generate" /\ q.src.fqdn = q.fqdn -> ArchiveFor(certs, {q.fqdn})
      [] q.kind # "generate" /\ q.src.fqdn # q.fqdn /\ q.src.status = "active"
            -> ArchiveId(certs, q.src.id)
      [] OTHER -> certs

\* Mutant: no look at the current authority inside the transaction.
MayIssueUnchecked(q) ==
    /\ ActiveFor(Superseding(q), q.fqdn) = {}
    /\ q.kind = "edit" /\ q.src.fqdn # q.fqdn /\ q.src.status = "active"
          => \E r \in certs : r.id = q.src.id

\* requireCurrentCATx, InsertCert's look for a duplicate, archiveCertTx.
MayIssue(q) ==
    /\ Current(cas) = q.cur
    /\ ActiveFor(Superseding(q), q.fqdn) = {}
    /\ q.kind = "edit" /\ q.src.fqdn # q.fqdn /\ q.src.status = "active"
          => \E r \in certs : r.id = q.src.id

\* Generate, Renew, Edit.
CommitIssue(s) ==
    LET q == req[s]
        db == [cas |-> cas, certs |-> Superseding(q) \cup {Issued(nextCert, q.fqdn, q.cur)}]
    IN /\ Commits(s, {"generate", "renew", "edit"})
       /\ IF ~MayIssue(q)
          THEN Refuse(s, IF Current(cas) # q.cur THEN "conflict" ELSE "refused")
          ELSE /\ Written(s, IF q.kind = "generate" THEN db ELSE DropUnused(db))
               /\ nextCert' = nextCert + 1 /\ UNCHANGED nextCA

CommitDelete(s) ==
    /\ Commits(s, {"delete"})
    /\ IF ~\E r \in certs : r.id = req[s].id THEN Refuse(s, "refused")
       ELSE /\ Written(s, DropUnused([cas |-> cas, certs |-> {r \in certs : r.id # req[s].id}]))
            /\ UNCHANGED <<nextCA, nextCert>>

\* ReplaceCA, first step of the transaction: the previous authority goes, and its
\* active rows as the operator chose.
Retiring(q) ==
    LET left == CASE q.stale = "delete" -> certs \ q.old
                  [] q.stale = "reissue" -> {IF r \in q.old THEN Archived(r) ELSE r : r \in certs}
                  [] q.stale = "keep" -> certs
        db == [cas |-> cas, certs |-> left]
    IN IF q.prev = 0 THEN db ELSE Retired(db, q.prev)

\* Mutant: there are as many rows as were read.
AsReadByCount(q) == /\ Cardinality(Outgoing(certs, q.cur)) = Cardinality(q.p3)
                    /\ q.prev # 0 => Cardinality(ActiveUnder(certs, q.prev)) = Cardinality(q.old)

\* The rows are as they were read.  The two ids are the ones read then, not the
\* ones the transaction would read now.
AsRead(q) == /\ Outgoing(certs, q.cur) = q.p3
             /\ q.prev # 0 => ActiveUnder(certs, q.prev) = q.old

\* What dropPreviousCATx finds instead of the authority in its role.
Gone(q) == q.prev # 0 /\ q.prev \notin DOMAIN cas
InRole(q) == q.prev # 0 => cas[q.prev] = "previous"

\* ca_one_per_role: both roles are free once the outgoing authority has moved.
MayInstall(cs, q) ==
    \A i \in DOMAIN cs \ {q.cur} : cs[i] \notin {"current", "previous"}

\* How the transaction fails, or "none".
Refusal(q) ==
    IF ~AsRead(q) THEN "conflict"
    ELSE IF Gone(q) THEN "refused"
    ELSE IF ~InRole(q) THEN "internal"
    ELSE IF q.cur \notin DOMAIN Retiring(q).cas THEN "conflict"
    ELSE IF ~MayInstall(Retiring(q).cas, q) THEN "internal" ELSE "none"

\* What is re-issued of rows, under the new authority.
Again(choice, rows, first) == IF choice = "reissue" THEN Reissued(rows, first, nextCA) ELSE {}

\* What the blanket choice leaves of certs.
Chosen(q, rows) ==
    CASE q.existing = "reissue" -> ArchiveFor(rows, {r.fqdn : r \in q.p3})
      [] q.existing = "delete" -> rows \ q.p3
      [] q.existing = "keep" -> rows

Installed(q) == WithCA(WithRole(Retiring(q).cas, q.cur, "previous"), nextCA, "current")

\* Mutant: the previous authority's rows are archived, not issued again.
ReplacedOnce(q) ==
    [cas |-> Installed(q),
     certs |-> Chosen(q, Retiring(q).certs) \cup Again(q.existing, q.p3, nextCert)]

\* The store once the new authority is in and both choices are carried out.
Replaced(q) ==
    LET fresh == Again(q.stale, q.old, nextCert)
    IN [cas |-> Installed(q),
        certs |-> Chosen(q, Retiring(q).certs) \cup fresh
                     \cup Again(q.existing, q.p3, nextCert + Cardinality(fresh))]

CommitReplace(s) ==
    LET q == req[s]
    IN /\ Commits(s, {"replace"})
       /\ IF Refusal(q) # "none" THEN Refuse(s, Refusal(q))
          ELSE /\ Written(s, DropUnused(Replaced(q)))
               /\ nextCA' = nextCA + 1
               /\ nextCert' = nextCert + (IF q.stale = "reissue" THEN Cardinality(q.old) ELSE 0)
                                       + (IF q.existing = "reissue" THEN Cardinality(q.p3) ELSE 0)

\* Mutant: the role vacated first is not given back.
SwappedHalf(q) == WithRole(WithRole(cas, q.cur, "none"), q.prev, "current")

\* The two authorities change roles.
Swapped(q) == WithRole(WithRole(cas, q.prev, "current"), q.cur, "previous")

\* SwitchBack.
CommitSwitchBack(s) ==
    LET q == req[s]
    IN /\ Commits(s, {"switchBack"})
       /\ IF Current(cas) # q.cur \/ Previous(cas) # q.prev
          THEN Refuse(s, "conflict")
          ELSE /\ Written(s, DropUnused([cas |-> Swapped(q), certs |-> certs]))
               /\ UNCHANGED <<nextCA, nextCert>>

-----------------------------------------------------------------------------
\* Open: a new database, or one with an authority (migrateV1toV2), which may be
\* the root of the legacy tree.
Init ==
    /\ \/ /\ cas = [i \in {} |-> "current"] /\ certs = {}
          /\ nextCA = 1 /\ nextCert = 1 /\ legacy = 0
       \/ /\ cas = [i \in {1} |-> "current"] /\ certs = Stored
          /\ nextCA = 2 /\ nextCert = Cardinality(Stored) + 1 /\ legacy \in {0, 1}
    /\ req = [s \in Request |-> Idle]
    /\ answer = [s \in Request |-> "none"]
    /\ begun = 0 /\ failures = 0

Ask(s) ==
    \/ \E kind \in {"init", "import", "switchBack"} : Arrive(s, kind, Idle.fqdn, 0, "keep", "keep")
    \/ \E f \in Fqdn : Arrive(s, "generate", f, 0, "keep", "keep")
    \/ \E r \in certs : \/ Arrive(s, "renew", r.fqdn, r.id, "keep", "keep")
                        \/ Arrive(s, "delete", r.fqdn, r.id, "keep", "keep")
                        \/ \E f \in Fqdn : Arrive(s, "edit", f, r.id, "keep", "keep")
    \/ \E e, p \in Choices : Arrive(s, "replace", Idle.fqdn, 0, e, p)

ReadStep(s) ==
    \/ ReadRow(s) \/ ReadRival(s) \/ ReadCurrent(s) \/ ReadPrevious(s)
    \/ ReadStale(s) \/ ReadOutgoing(s) \/ ReadCount(s)
    \/ ReadRoot(s) \/ ReadRootPrevious(s) \/ ReadLeaves(s)

Commit(s) ==
    \/ InsertRoot(s) \/ CommitInit(s) \/ CommitImport(s)
    \/ CommitIssue(s) \/ CommitDelete(s) \/ CommitReplace(s) \/ CommitSwitchBack(s)

Next == \E s \in Request : Ask(s) \/ Fail(s) \/ ReadStep(s) \/ Commit(s)

Spec == Init /\ [][Next]_vars

-----------------------------------------------------------------------------
\* Properties.

TypeOK ==
    /\ DOMAIN cas \subseteq 1..(nextCA - 1) /\ cas \in [DOMAIN cas -> Roles]
    /\ certs \subseteq Row /\ IsFiniteSet(certs) /\ \A r \in certs : r.id < nextCert
    /\ nextCA \in Nat \ {0} /\ nextCert \in Nat \ {0} /\ legacy \in 0..(nextCA - 1)
    /\ \A s \in Request :
          /\ req[s].pc \in Steps /\ req[s].kind \in Kinds /\ req[s].fqdn \in Fqdn
          /\ req[s].existing \in Choices /\ req[s].stale \in Choices
          /\ {req[s].cur, req[s].prev} \subseteq 0..(nextCA - 1)
          /\ req[s].src \in Row \cup {NoRow} /\ req[s].leaves \subseteq Leaf
          /\ req[s].p3 \cup req[s].old \subseteq Row
    /\ answer \in [Request -> Answers]
    /\ begun \in 0..MaxRequests /\ failures \in 0..MaxFailures

\* What Open demands of a database before it serves it (checkStructuralInvariants,
\* carotate.go): at most one authority of each role, a current one if any, no row
\* with a signer that is not there; and one active row for a name.
StructurallySound ==
    /\ \A i, j \in DOMAIN cas : cas[i] = cas[j] => i = j
    /\ DOMAIN cas # {} => \E i \in DOMAIN cas : cas[i] = "current"
    /\ \A r \in certs : r.ca # Unknown => r.ca \in DOMAIN cas
    /\ \A r, t \in Active(certs) : r.fqdn = t.fqdn => r = t

\* A row's recorded authority is the one that signed it, so what is downloaded
\* chains (checkSignatureInvariant, carotate.go; certAndCA, handler.go).
SignedByRecorded == \A r \in certs : r.ca # Unknown => r.signer = r.ca

\* "a CA signs a certificate only through an active row": the previous authority
\* is there as long as an active row needs it, and not a transaction longer
\* (dropPreviousIfUnusedTx, carotate.go).
PreviousInUse ==
    \A p \in DOMAIN cas : cas[p] = "previous" => ActiveUnder(certs, p) # {}

Sound == StructurallySound /\ SignedByRecorded /\ PreviousInUse

\* The request s writes, in this step.
Writes(s, kinds) == Commits(s, kinds) /\ req'[s] # req[s] /\ answer'[s] = "ok"

\* A replacement that is carried out was decided on the store it changes: the
\* authorities it moves hold the roles it read, and no certificate came under
\* either of them, or left them, since (ReplaceCA, carotate.go).
ReplacedAsRead ==
    [][\A s \in Request : Writes(s, {"replace"}) =>
          /\ req[s].cur = Current(cas) /\ req[s].prev = Previous(cas)
          /\ Active(certs) = req[s].p3 \cup req[s].old]_vars

\* A name that has an active certificate loses it only to somebody who said so:
\* a deletion of its row, a renaming, or a replacement told to delete the very
\* rows it counted.
NoNameLost ==
    [][\A f \in Fqdn : ActiveFor(certs, f) # {} /\ ActiveFor(certs', f) = {} =>
          \E s \in Request :
             \/ Writes(s, {"delete"}) /\ \E r \in ActiveFor(certs, f) : r.id = req[s].id
             \/ Writes(s, {"edit"}) /\ req[s].src.fqdn = f /\ req[s].fqdn # f
             \/ /\ Writes(s, {"replace"}) /\ \E r \in ActiveFor(certs, f) :
                       \/ req[s].existing = "delete" /\ r \in req[s].p3
                       \/ req[s].stale = "delete" /\ r \in req[s].old]_vars
=============================================================================
