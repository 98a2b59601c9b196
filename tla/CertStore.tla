------------------------------ MODULE CertStore ------------------------------
(***************************************************************************)
(* The certmachine database (internal/certmachine/store.go, schema.go,     *)
(* carotate.go): the certificate authorities with their roles, the         *)
(* certificate rows with their signers, and what one statement or helper   *)
(* inside a transaction does to them.                                      *)
(*                                                                         *)
(* A store is a record: cas, the role of each authority by id, and certs,  *)
(* the set of rows.  Ids come from AUTOINCREMENT and are never used again; *)
(* 0 stands for a NULL ca_id, a signer nobody knows.                       *)
(***************************************************************************)
EXTENDS FiniteSets, Naturals

CONSTANTS
    Fqdn,
    Leaf,           \* the directories of the legacy tree
    NoLeaf          \* imported_from of a row issued here

ASSUME StoreAssumption ==
    /\ IsFiniteSet(Leaf) /\ NoLeaf \notin Leaf

Roles == {"current", "previous"}
Statuses == {"active", "archived", "quarantined"}
Unknown == 0

\* signer is history: the authority that did sign the certificate.
Row == [id : Nat, fqdn : Fqdn, status : Statuses, ca : Nat, signer : Nat,
        leaf : Leaf \cup {NoLeaf}]

-----------------------------------------------------------------------------
\* GetCurrentCA, GetPreviousCA: the id, or 0.
Holder(cas, role) ==
    IF \E i \in DOMAIN cas : cas[i] = role THEN CHOOSE i \in DOMAIN cas : cas[i] = role ELSE 0

Current(cas) == Holder(cas, "current")
Previous(cas) == Holder(cas, "previous")

Active(certs) == {r \in certs : r.status = "active"}
ActiveUnder(certs, ca) == {r \in Active(certs) : r.ca = ca}
ActiveFor(certs, fqdn) == {r \in Active(certs) : r.fqdn = fqdn}

\* The rows a replacement's blanket choice is about.
Outgoing(certs, current) == ActiveUnder(certs, current) \cup ActiveUnder(certs, Unknown)

Archived(r) == [r EXCEPT !.status = "archived"]

\* ArchiveAllForFQDN, for every name in names.
ArchiveFor(certs, names) ==
    {IF r.fqdn \in names /\ r.status = "active" THEN Archived(r) ELSE r : r \in certs}

\* archiveCertTx.
ArchiveId(certs, id) == {IF r.id = id THEN Archived(r) ELSE r : r \in certs}

\* What leaves with an authority: its archived rows; its quarantined ones lose
\* their signer.
LeavesOf(certs, ca) ==
    {IF r.ca = ca /\ r.status = "quarantined" THEN [r EXCEPT !.ca = Unknown] ELSE r
        : r \in {c \in certs : ~(c.ca = ca /\ c.status = "archived")}}

\* dropPreviousCATx, with what leaves.
Retired(db, ca) ==
    [cas |-> [i \in DOMAIN db.cas \ {ca} |-> db.cas[i]], certs |-> LeavesOf(db.certs, ca)]

\* Mutant: an authority with archived rows alone stays.
DropUnusedIfEmpty(db) ==
    IF \E p \in DOMAIN db.cas : db.cas[p] = "previous" /\ ~\E r \in db.certs : r.ca = p
    THEN Retired(db, Previous(db.cas)) ELSE db

\* dropPreviousIfUnusedTx: "a CA signs a certificate only through an active row".
DropUnused(db) ==
    IF \E p \in DOMAIN db.cas : db.cas[p] = "previous" /\ ActiveUnder(db.certs, p) = {}
    THEN Retired(db, Previous(db.cas)) ELSE db

\* insertCATx; it fails when the role is taken (ca_one_per_role).
WithCA(cas, id, role) == [i \in DOMAIN cas \cup {id} |-> IF i = id THEN role ELSE cas[i]]

\* setCARoleTx.
WithRole(cas, id, role) == [cas EXCEPT ![id] = role]

Issued(id, fqdn, ca) ==
    [id |-> id, fqdn |-> fqdn, status |-> "active", ca |-> ca, signer |-> ca, leaf |-> NoLeaf]

\* The row's place among rows, by id.
RankIn(r, rows) == Cardinality({x \in rows : x.id < r.id})

\* issueLeavesUnder, and the inserts: one new row under ca for each of rows.
Reissued(rows, first, ca) == {Issued(first + RankIn(r, rows), r.fqdn, ca) : r \in rows}
=============================================================================
