------------------------- MODULE CertRotationProofs --------------------------
(***************************************************************************)
(* CertRotation for any names, legacy tree, stored rows, and number of     *)
(* requests under way: types, what Open checks of a database, that a       *)
(* replacement changes the store it was decided on, and that no name loses *)
(* its certificate but by somebody who said so.                            *)
(***************************************************************************)
EXTENDS CertRotation, FiniteSetTheorems, TLAPS

-----------------------------------------------------------------------------
\* What the helpers of the certificate store keep, whatever request calls them:
\* types, and the parts of a sound store that the invariant rests on.

CasType(cs, n) == DOMAIN cs \subseteq 1..(n - 1) /\ cs \in [DOMAIN cs -> Roles]
RowsType(rows, n) == rows \subseteq Row /\ IsFiniteSet(rows) /\ \A r \in rows : r.id < n

\* The parts of a sound store.
OneOfARole(cs) == \A i, j \in DOMAIN cs : cs[i] = cs[j] => i = j
SomeCurrent(cs) == DOMAIN cs # {} => \E i \in DOMAIN cs : cs[i] = "current"
SignersThere(cs, rows) == \A r \in rows : r.ca # Unknown => r.ca \in DOMAIN cs
OneActive(rows) == \A r, t \in Active(rows) : r.fqdn = t.fqdn => r = t
TrueSigner(rows) == \A r \in rows : r.ca # Unknown => r.signer = r.ca

GoodStore(cs, rows) ==
    OneOfARole(cs) /\ SomeCurrent(cs) /\ SignersThere(cs, rows) /\ OneActive(rows) /\ TrueSigner(rows)

Needed(cs, rows) == \A p \in DOMAIN cs : cs[p] = "previous" => ActiveUnder(rows, p) # {}

\* Rows that only lose: each is an old one, perhaps archived or without a signer.
FromRow(r, t) ==
    /\ r.id = t.id /\ r.fqdn = t.fqdn /\ r.signer = t.signer /\ r.leaf = t.leaf
    /\ r.ca \in {t.ca, Unknown} /\ r.status \in {t.status, "archived"}
    /\ r.status = "active" => r = t
Fewer(new, old) == \A r \in new : \E t \in old : FromRow(r, t)

-----------------------------------------------------------------------------
\* A set of values, one per element of a finite set, is finite and no larger.
LEMMA FiniteRange ==
    ASSUME NEW S, IsFiniteSet(S), NEW V, NEW f \in [S -> V]
    PROVE  IsFiniteSet({f[x] : x \in S}) /\ Cardinality({f[x] : x \in S}) <= Cardinality(S)
<1> DEFINE T == {f[x] : x \in S}
<1>1. f \in Surjection(S, T)
  BY DEF Surjection
<1> QED
  BY <1>1, FS_Surjection

\* Losing rows, or what they say, breaks none of the parts about rows.
LEMMA FewerKeeps ==
    ASSUME NEW old, NEW new, Fewer(new, old), NEW cs
    PROVE  /\ SignersThere(cs, old) => SignersThere(cs, new)
           /\ OneActive(old) => OneActive(new)
           /\ TrueSigner(old) => TrueSigner(new)
           /\ Active(new) \subseteq Active(old)
<1>1. Active(new) \subseteq Active(old)
  BY DEF Fewer, FromRow, Active
<1>2. OneActive(old) => OneActive(new)
  BY <1>1 DEF OneActive
<1>3. SignersThere(cs, old) => SignersThere(cs, new)
  BY DEF Fewer, FromRow, SignersThere
<1>4. TrueSigner(old) => TrueSigner(new)
  BY DEF Fewer, FromRow, TrueSigner
<1> QED
  BY <1>1, <1>2, <1>3, <1>4

\* ArchiveAllForFQDN loses rows only, and leaves the names without an active one.
LEMMA ArchiveForFewer ==
    ASSUME NEW rows, NEW n, NEW names, RowsType(rows, n)
    PROVE  /\ Fewer(ArchiveFor(rows, names), rows) /\ RowsType(ArchiveFor(rows, names), n)
           /\ \A r \in Active(ArchiveFor(rows, names)) : r.fqdn \notin names
<1> DEFINE f == [r \in rows |-> IF r.fqdn \in names /\ r.status = "active" THEN Archived(r) ELSE r]
<1>1. ArchiveFor(rows, names) = {f[r] : r \in rows}
  BY DEF ArchiveFor
<1>2. \A r \in rows : /\ f[r] \in Row /\ FromRow(f[r], r)
                      /\ f[r].status = "active" => f[r].fqdn \notin names
  BY DEF RowsType, Row, FromRow, Archived, Statuses
<1>3. IsFiniteSet({f[r] : r \in rows})
  <2>1. f \in [rows -> Row] /\ IsFiniteSet(rows)
    BY <1>2 DEF RowsType
  <2> HIDE DEF f
  <2> QED
    BY <2>1, FiniteRange
<1> HIDE DEF f
<1>4. Fewer(ArchiveFor(rows, names), rows)
  BY <1>1, <1>2 DEF Fewer
<1>5. RowsType(ArchiveFor(rows, names), n)
  BY <1>1, <1>2, <1>3 DEF RowsType, FromRow
<1> QED
  BY <1>1, <1>2, <1>4, <1>5 DEF Active

\* archiveCertTx loses rows only.
LEMMA ArchiveIdFewer ==
    ASSUME NEW rows, NEW n, NEW id, RowsType(rows, n)
    PROVE  Fewer(ArchiveId(rows, id), rows) /\ RowsType(ArchiveId(rows, id), n)
<1> DEFINE f == [r \in rows |-> IF r.id = id THEN Archived(r) ELSE r]
<1>1. ArchiveId(rows, id) = {f[r] : r \in rows}
  BY DEF ArchiveId
<1>2. \A r \in rows : f[r] \in Row /\ FromRow(f[r], r)
  BY DEF RowsType, Row, FromRow, Archived, Statuses
<1>3. IsFiniteSet({f[r] : r \in rows})
  <2>1. f \in [rows -> Row] /\ IsFiniteSet(rows)
    BY <1>2 DEF RowsType
  <2> HIDE DEF f
  <2> QED
    BY <2>1, FiniteRange
<1> HIDE DEF f
<1> QED
  BY <1>1, <1>2, <1>3 DEF Fewer, RowsType, FromRow

\* What a retiring authority takes along is lost, but no active row; if it has no
\* active one, no row names it any more.
LEMMA LeavesOfFewer ==
    ASSUME NEW rows, NEW n, NEW ca \in Nat \ {0}, RowsType(rows, n)
    PROVE  /\ Fewer(LeavesOf(rows, ca), rows) /\ RowsType(LeavesOf(rows, ca), n)
           /\ ActiveUnder(rows, ca) = {} => \A r \in LeavesOf(rows, ca) : r.ca # ca
           /\ Active(LeavesOf(rows, ca)) = Active(rows)
<1> DEFINE kept == {c \in rows : ~(c.ca = ca /\ c.status = "archived")}
           f == [r \in kept |-> IF r.ca = ca /\ r.status = "quarantined"
                                THEN [r EXCEPT !.ca = Unknown] ELSE r]
<1>1. LeavesOf(rows, ca) = {f[r] : r \in kept}
  BY DEF LeavesOf
<1>2. \A r \in kept : f[r] \in Row /\ FromRow(f[r], r) /\ f[r].status = r.status
  BY DEF RowsType, Row, FromRow, Statuses, Unknown
<1>3. IsFiniteSet(kept)
  BY FS_Subset DEF RowsType
<1>4. IsFiniteSet({f[r] : r \in kept})
  <2>1. f \in [kept -> Row]
    BY <1>2
  <2> HIDE DEF f, kept
  <2> QED
    BY <1>3, <2>1, FiniteRange
<1>5. ASSUME ActiveUnder(rows, ca) = {}, NEW r \in kept
      PROVE  f[r].ca # ca
  <2>1. r \in rows /\ r \in Row
    BY DEF RowsType
  <2>2. r.status # "active" \/ r.ca # ca
    BY <1>5, <2>1 DEF ActiveUnder, Active
  <2> QED
    BY <2>1, <2>2 DEF Row, Statuses, Unknown
<1>6. Active(rows) \subseteq {f[r] : r \in kept}
  <2> SUFFICES ASSUME NEW r \in rows, r.status = "active"
               PROVE  r \in kept /\ f[r] = r
    BY DEF Active
  <2> QED
    OBVIOUS
<1> HIDE DEF f, kept
<1>7. kept \subseteq rows
  BY DEF kept
<1>8. Fewer(LeavesOf(rows, ca), rows) /\ RowsType(LeavesOf(rows, ca), n)
  BY <1>1, <1>2, <1>4, <1>7 DEF Fewer, RowsType, FromRow
<1>9. Active(LeavesOf(rows, ca)) = Active(rows)
  BY <1>1, <1>6, <1>8, FewerKeeps DEF Active
<1> QED
  BY <1>1, <1>5, <1>8, <1>9

-----------------------------------------------------------------------------
\* With one authority of a role, Holder is the one.
LEMMA HolderIs ==
    ASSUME NEW cs, NEW i \in DOMAIN cs, OneOfARole(cs)
    PROVE  Holder(cs, cs[i]) = i
BY DEF Holder, OneOfARole

\* Ids begin at 1: Holder is 0 only if nobody holds the role.
LEMMA HolderFound ==
    ASSUME NEW cs, NEW n \in Nat \ {0}, CasType(cs, n), NEW role
    PROVE  /\ Holder(cs, role) # 0 => Holder(cs, role) \in DOMAIN cs /\ cs[Holder(cs, role)] = role
           /\ Holder(cs, role) = 0 => \A i \in DOMAIN cs : cs[i] # role
           /\ Holder(cs, role) \in 0..(n - 1)
<1>1. CASE \E i \in DOMAIN cs : cs[i] = role
  <2>1. Holder(cs, role) \in DOMAIN cs /\ cs[Holder(cs, role)] = role
    BY <1>1 DEF Holder
  <2> QED
    BY <2>1 DEF CasType
<1>2. CASE ~\E i \in DOMAIN cs : cs[i] = role
  <2>1. Holder(cs, role) = 0
    BY <1>2 DEF Holder
  <2> QED
    BY <1>2, <2>1
<1> QED
  BY <1>1, <1>2

\* dropPreviousIfUnusedTx keeps a good store good and leaves no previous
\* authority that nobody needs.
LEMMA DropUnusedKeeps ==
    ASSUME NEW cs, NEW rows, NEW m \in Nat \ {0}, NEW n, CasType(cs, m), RowsType(rows, n),
           GoodStore(cs, rows),
           NEW db, db = DropUnused([cas |-> cs, certs |-> rows])
    PROVE  /\ CasType(db.cas, m) /\ RowsType(db.certs, n)
           /\ GoodStore(db.cas, db.certs) /\ Needed(db.cas, db.certs)
<1>1. CASE \E p \in DOMAIN cs : cs[p] = "previous" /\ ActiveUnder(rows, p) = {}
  <2>1. PICK p \in DOMAIN cs : cs[p] = "previous" /\ ActiveUnder(rows, p) = {}
    BY <1>1
  <2>2. Previous(cs) = p
    BY <2>1, HolderIs DEF Previous, GoodStore
  <2>3. /\ db.cas = [i \in DOMAIN cs \ {p} |-> cs[i]]
        /\ db.certs = LeavesOf(rows, p)
    BY <1>1, <2>2 DEF DropUnused, Retired
  <2>4. p \in Nat \ {0}
    BY <2>1 DEF CasType
  <2>5. /\ Fewer(db.certs, rows) /\ RowsType(db.certs, n)
        /\ \A r \in db.certs : r.ca # p
    <3>1. /\ Fewer(LeavesOf(rows, p), rows) /\ RowsType(LeavesOf(rows, p), n)
          /\ ActiveUnder(rows, p) = {} => \A r \in LeavesOf(rows, p) : r.ca # p
      BY <2>4, LeavesOfFewer
    <3> QED
      BY <2>1, <2>3, <3>1
  <2>6. CasType(db.cas, m)
    BY <2>3 DEF CasType
  <2>7. OneActive(db.certs) /\ TrueSigner(db.certs) /\ SignersThere(cs, db.certs)
    BY <2>5, FewerKeeps DEF GoodStore
  <2>8. SignersThere(db.cas, db.certs)
    BY <2>3, <2>5, <2>7 DEF SignersThere
  <2>9. OneOfARole(db.cas) /\ SomeCurrent(db.cas) /\ Needed(db.cas, db.certs)
    BY <2>1, <2>3 DEF GoodStore, OneOfARole, SomeCurrent, Needed
  <2> QED
    BY <2>5, <2>6, <2>7, <2>8, <2>9 DEF GoodStore
<1>2. CASE ~\E p \in DOMAIN cs : cs[p] = "previous" /\ ActiveUnder(rows, p) = {}
  <2>1. db = [cas |-> cs, certs |-> rows]
    BY <1>2 DEF DropUnused
  <2> QED
    BY <1>2, <2>1 DEF Needed
<1> QED
  BY <1>1, <1>2

-----------------------------------------------------------------------------
\* New rows of known names, each signed by the authority it names: one per name
\* if there was one per name before.
LEMMA ReissuedRows ==
    ASSUME NEW rows, NEW n, RowsType(rows, n), NEW first \in Nat, NEW ca \in Nat
    PROVE  /\ Cardinality(rows) \in Nat
           /\ RowsType(Reissued(rows, first, ca), first + Cardinality(rows))
           /\ Cardinality(Reissued(rows, first, ca)) \in 0..Cardinality(rows)
           /\ \A x \in Reissued(rows, first, ca) :
                 /\ x.status = "active" /\ x.ca = ca /\ x.signer = ca
                 /\ \E r \in rows : r.fqdn = x.fqdn
           /\ (\A r, t \in rows : r.fqdn = t.fqdn => r = t) =>
                 \A x, y \in Reissued(rows, first, ca) : x.fqdn = y.fqdn => x = y
<1> DEFINE f == [r \in rows |-> Issued(first + RankIn(r, rows), r.fqdn, ca)]
<1>1. Reissued(rows, first, ca) = {f[r] : r \in rows}
  BY DEF Reissued
<1>2. IsFiniteSet(rows) /\ Cardinality(rows) \in Nat
  BY FS_CardinalityType DEF RowsType
<1>3. ASSUME NEW r \in rows
      PROVE  RankIn(r, rows) \in Nat /\ RankIn(r, rows) < Cardinality(rows)
  <2> DEFINE below == {x \in rows : x.id < r.id}
  <2>1. r.id \in Nat /\ below \subseteq rows \ {r}
    BY DEF RowsType, Row
  <2>2. IsFiniteSet(rows \ {r}) /\ Cardinality(rows \ {r}) = Cardinality(rows) - 1
    BY <1>2, FS_RemoveElement
  <2>3. IsFiniteSet(below) /\ Cardinality(below) <= Cardinality(rows \ {r})
    BY <2>1, <2>2, FS_Subset
  <2>4. Cardinality(below) \in Nat
    BY <2>3, FS_CardinalityType
  <2> QED
    BY <1>2, <2>2, <2>3, <2>4 DEF RankIn
<1>4. \A r \in rows : /\ f[r] \in Row /\ f[r].id < first + Cardinality(rows)
                      /\ f[r].status = "active" /\ f[r].ca = ca /\ f[r].signer = ca
                      /\ f[r].fqdn = r.fqdn
  <2> SUFFICES ASSUME NEW r \in rows
               PROVE  /\ f[r] \in Row /\ f[r].id < first + Cardinality(rows)
                      /\ f[r].status = "active" /\ f[r].ca = ca /\ f[r].signer = ca
                      /\ f[r].fqdn = r.fqdn
    OBVIOUS
  <2>1. r \in Row
    BY DEF RowsType
  <2>2. first + RankIn(r, rows) \in Nat /\ first + RankIn(r, rows) < first + Cardinality(rows)
    BY <1>2, <1>3
  <2> QED
    BY <2>1, <2>2 DEF Issued, Row, Statuses
<1>5. /\ IsFiniteSet({f[r] : r \in rows})
      /\ Cardinality({f[r] : r \in rows}) \in 0..Cardinality(rows)
  <2>1. f \in [rows -> Row]
    BY <1>4
  <2> HIDE DEF f
  <2>2. /\ IsFiniteSet({f[r] : r \in rows})
        /\ Cardinality({f[r] : r \in rows}) <= Cardinality(rows)
    BY <1>2, <2>1, FiniteRange
  <2> QED
    BY <1>2, <2>2, FS_CardinalityType
<1> HIDE DEF f
<1> QED
  BY <1>1, <1>2, <1>4, <1>5 DEF RowsType

-----------------------------------------------------------------------------
\* The requests: what each has read, and how that stays true of the store.

Req == [pc : Steps, kind : Kinds, fqdn : Fqdn, id : Nat, existing : Choices, stale : Choices,
        cur : Nat, prev : Nat, src : Row \cup {NoRow}, p3 : SUBSET Row, old : SUBSET Row,
        leaves : SUBSET Leaf]

TypeInv ==
    /\ nextCA \in Nat \ {0} /\ nextCert \in Nat \ {0}
    /\ CasType(cas, nextCA) /\ RowsType(certs, nextCert)
    /\ legacy \in 0..(nextCA - 1)
    /\ req \in [Request -> Req]
    /\ \A s \in Request : req[s].cur < nextCA /\ req[s].prev < nextCA
    /\ answer \in [Request -> Answers]
    /\ begun \in 0..MaxRequests /\ failures \in 0..MaxFailures

\* What a replacement or a switch back has read by the time it commits.  A
\* replacement has rows of a previous authority only if there was one, and then a
\* choice about them; a switch back has both authorities.
Informed(q) ==
    /\ q.pc \in {"stale", "outgoing"} => q.kind = "replace"
    /\ q.pc = "count" => q.kind = "init"
    /\ q.pc = "stale" => q.prev # 0
    /\ q.old # {} => q.pc \in {"outgoing", "commit"} /\ q.prev # 0 /\ q.stale # "keep"
    /\ q.kind = "switchBack" /\ q.pc = "commit" => q.prev # 0

IInv ==
    /\ TypeInv
    /\ GoodStore(cas, certs) /\ Needed(cas, certs)
    /\ \A s \in Request : Informed(req[s])

-----------------------------------------------------------------------------
LEMMA IdleReq == Idle \in Req /\ Informed(Idle)
BY RotationAssumption DEF RotationAssumption, Idle, Req, Informed, Steps, Kinds, Choices

\* A step that only moves request s on, to a request of the right type.
LEMMA Moved ==
    ASSUME IInv, NEW s \in Request, NEW q \in Req, Informed(q), q.cur < nextCA, q.prev < nextCA,
           req' = [req EXCEPT ![s] = q], UNCHANGED storeVars,
           answer' \in [Request -> Answers],
           begun' \in 0..MaxRequests, failures' \in 0..MaxFailures
    PROVE  IInv'
BY DEF IInv, TypeInv, storeVars, CasType, RowsType, GoodStore, Needed, OneOfARole, SomeCurrent,
       SignersThere, OneActive, TrueSigner, Active, ActiveUnder

\* A request that has written the store db and ended.
LEMMA Wrote ==
    ASSUME IInv, NEW s \in Request, Ended(s, "ok"),
           nextCA' \in Nat, nextCA <= nextCA', nextCert' \in Nat, nextCert <= nextCert',
           CasType(cas', nextCA'), RowsType(certs', nextCert'), legacy' \in 0..(nextCA' - 1),
           GoodStore(cas', certs'), Needed(cas', certs'), UNCHANGED <<begun, failures>>
    PROVE  IInv'
<1>1. req' \in [Request -> Req]
  BY IdleReq DEF IInv, TypeInv, Ended
<1>2. \A t \in Request : /\ req'[t].cur < nextCA' /\ req'[t].prev < nextCA'
                         /\ Informed(req'[t])
  <2> SUFFICES ASSUME NEW t \in Request
               PROVE  /\ req'[t].cur < nextCA' /\ req'[t].prev < nextCA'
                      /\ Informed(req'[t])
    OBVIOUS
  <2>1. CASE t = s
    BY <2>1, IdleReq DEF IInv, TypeInv, Ended, Idle
  <2>2. CASE t # s
    BY <2>2 DEF IInv, TypeInv, Ended, Req
  <2> QED
    BY <2>1, <2>2
<1>3. answer' \in [Request -> Answers]
  BY DEF IInv, TypeInv, Ended, Answers
<1>4. nextCA' \in Nat \ {0} /\ nextCert' \in Nat \ {0}
  BY DEF IInv, TypeInv
<1> QED
  BY <1>1, <1>2, <1>3, <1>4
     DEF IInv, TypeInv, CasType, RowsType, GoodStore, Needed, OneOfARole, SomeCurrent,
         SignersThere, OneActive, TrueSigner, Active, ActiveUnder

LEMMA RefusedKeeps ==
    ASSUME IInv, NEW s \in Request, NEW a \in Answers, Refuse(s, a)
    PROVE  IInv'
<1>1. Idle.cur < nextCA /\ Idle.prev < nextCA
  BY DEF Idle, IInv, TypeInv
<1>2. answer' \in [Request -> Answers]
  BY DEF IInv, TypeInv, Refuse, Ended
<1>3. UNCHANGED storeVars /\ begun' = begun /\ failures' = failures
  BY DEF Refuse
<1>4. begun' \in 0..MaxRequests /\ failures' \in 0..MaxFailures
  BY <1>3 DEF IInv, TypeInv
<1> QED
  BY <1>1, <1>2, <1>3, <1>4, IdleReq, Moved DEF Refuse, Ended

\* A read moves its request on; nothing else changes.
LEMMA ReadKeeps ==
    ASSUME IInv, NEW s \in Request, NEW q \in Req, NEW pc \in Steps, Goto(s, q, pc), Read,
           Informed([q EXCEPT !.pc = pc]), q.cur < nextCA, q.prev < nextCA
    PROVE  IInv'
<1>1. [q EXCEPT !.pc = pc] \in Req /\ [q EXCEPT !.pc = pc].cur = q.cur
      /\ [q EXCEPT !.pc = pc].prev = q.prev
  BY DEF Req
<1>2. /\ answer' \in [Request -> Answers]
      /\ begun' \in 0..MaxRequests /\ failures' \in 0..MaxFailures
  BY DEF IInv, TypeInv, Read
<1>3. UNCHANGED storeVars /\ req' = [req EXCEPT ![s] = [q EXCEPT !.pc = pc]]
  BY DEF Read, Goto
<1> QED
  BY <1>1, <1>2, <1>3, Moved

-----------------------------------------------------------------------------
\* A new database, and one in use, satisfy the invariant.
LEMMA Initial == Init => IInv
<1> SUFFICES ASSUME Init PROVE IInv
  OBVIOUS
<1>1. req \in [Request -> Req] /\ answer \in [Request -> Answers]
  BY IdleReq DEF Init, Answers
<1>2. \A s \in Request : req[s].cur = 0 /\ req[s].prev = 0 /\ Informed(req[s])
  <2>1. \A s \in Request : req[s] = Idle
    BY DEF Init
  <2> QED
    BY <2>1, IdleReq DEF Idle
<1>3. begun \in 0..MaxRequests /\ failures \in 0..MaxFailures
  BY RotationAssumption DEF Init, RotationAssumption
<1>4. CASE cas = [i \in {} |-> "current"] /\ certs = {} /\ nextCA = 1 /\ nextCert = 1 /\ legacy = 0
  <2>1. CasType(cas, nextCA) /\ RowsType(certs, nextCert)
    BY <1>4, FS_EmptySet DEF CasType, RowsType
  <2>2. GoodStore(cas, certs) /\ Needed(cas, certs)
    BY <1>4 DEF GoodStore, Needed, OneOfARole, SomeCurrent, SignersThere, OneActive, TrueSigner, Active
  <2> QED
    BY <1>1, <1>2, <1>3, <1>4, <2>1, <2>2 DEF IInv, TypeInv
<1>5. CASE /\ cas = [i \in {1} |-> "current"] /\ certs = Stored
           /\ nextCA = 2 /\ nextCert = Cardinality(Stored) + 1 /\ legacy \in {0, 1}
  <2>1. Cardinality(Stored) \in Nat
    BY RotationAssumption, FS_CardinalityType DEF RotationAssumption
  <2>2. CasType(cas, nextCA)
    BY <1>5 DEF CasType, Roles
  <2>3. RowsType(certs, nextCert)
    BY <1>5, <2>1, RotationAssumption DEF RotationAssumption, RowsType
  <2>4. OneOfARole(cas) /\ SomeCurrent(cas) /\ Needed(cas, certs)
    BY <1>5 DEF OneOfARole, SomeCurrent, Needed
  <2>5. SignersThere(cas, certs) /\ OneActive(certs) /\ TrueSigner(certs)
    BY <1>5, RotationAssumption DEF RotationAssumption, SignersThere, OneActive, TrueSigner, Unknown
  <2> QED
    BY <1>1, <1>2, <1>3, <1>5, <2>1, <2>2, <2>3, <2>4, <2>5 DEF IInv, TypeInv, GoodStore
<1> QED
  BY <1>4, <1>5 DEF Init

-----------------------------------------------------------------------------
\* Requests arrive, fail and read.

LEMMA ArriveKeeps ==
    ASSUME IInv, NEW s \in Request, NEW kind \in Kinds, NEW fqdn \in Fqdn, NEW id \in Nat,
           NEW existing \in Choices, NEW stale \in Choices,
           Arrive(s, kind, fqdn, id, existing, stale)
    PROVE  IInv'
<1> DEFINE q == [Idle EXCEPT !.pc = First(kind), !.kind = kind, !.fqdn = fqdn,
                             !.id = id, !.existing = existing, !.stale = stale]
<1>1. First(kind) \in {"current", "row", "commit", "root"}
  BY DEF First, Kinds
<1>2. kind = "switchBack" => First(kind) = "current"
  BY DEF First
<1>3. q \in Req /\ q.cur = 0 /\ q.prev = 0 /\ q.old = {} /\ q.pc = First(kind) /\ q.kind = kind
  BY <1>1, IdleReq DEF Req, Steps, Idle
<1>4. Informed(q)
  BY <1>1, <1>2, <1>3 DEF Informed
<1>5. req' = [req EXCEPT ![s] = q] /\ UNCHANGED storeVars
  BY DEF Arrive
<1>6. /\ answer' \in [Request -> Answers]
      /\ begun' \in 0..MaxRequests /\ failures' \in 0..MaxFailures
  BY RotationAssumption DEF RotationAssumption, Arrive, IInv, TypeInv, Answers
<1>7. q.cur < nextCA /\ q.prev < nextCA
  BY <1>3 DEF IInv, TypeInv
<1> HIDE DEF q
<1> QED
  BY <1>3, <1>4, <1>5, <1>6, <1>7, Moved

LEMMA AskKeeps ==
    ASSUME IInv, NEW s \in Request, Ask(s)
    PROVE  IInv'
<1>1. Idle.fqdn \in Fqdn /\ {"keep", "init", "import", "switchBack"} \subseteq Choices \cup Kinds
  BY IdleReq DEF Req, Choices, Kinds
<1>2. \A r \in certs : r.id \in Nat /\ r.fqdn \in Fqdn
  BY DEF IInv, TypeInv, RowsType, Row
<1>3. ASSUME NEW kind \in {"init", "import", "switchBack"}, Arrive(s, kind, Idle.fqdn, 0, "keep", "keep")
      PROVE  IInv'
  BY <1>1, <1>3, ArriveKeeps DEF Kinds, Choices
<1>4. ASSUME NEW f \in Fqdn, Arrive(s, "generate", f, 0, "keep", "keep")
      PROVE  IInv'
  BY <1>4, ArriveKeeps DEF Kinds, Choices
<1>5. ASSUME NEW r \in certs, NEW kind \in {"renew", "delete"}, Arrive(s, kind, r.fqdn, r.id, "keep", "keep")
      PROVE  IInv'
  BY <1>2, <1>5, ArriveKeeps DEF Kinds, Choices
<1>6. ASSUME NEW r \in certs, NEW f \in Fqdn, Arrive(s, "edit", f, r.id, "keep", "keep")
      PROVE  IInv'
  BY <1>2, <1>6, ArriveKeeps DEF Kinds, Choices
<1>7. ASSUME NEW e \in Choices, NEW p \in Choices, Arrive(s, "replace", Idle.fqdn, 0, e, p)
      PROVE  IInv'
  BY <1>1, <1>7, ArriveKeeps DEF Kinds
<1> QED
  BY <1>3, <1>4, <1>5, <1>6, <1>7 DEF Ask

LEMMA FailKeeps ==
    ASSUME IInv, NEW s \in Request, Fail(s)
    PROVE  IInv'
<1>1. req' = [req EXCEPT ![s] = Idle] /\ UNCHANGED storeVars
  BY DEF Fail, Ended
<1>2. /\ answer' \in [Request -> Answers]
      /\ begun' \in 0..MaxRequests /\ failures' \in 0..MaxFailures
  BY RotationAssumption DEF RotationAssumption, Fail, Ended, IInv, TypeInv, Answers
<1>3. Idle.cur < nextCA /\ Idle.prev < nextCA
  BY DEF Idle, IInv, TypeInv
<1> QED
  BY <1>1, <1>2, <1>3, IdleReq, Moved

\* What is read of the authorities are ids in use, or 0.
LEMMA HoldersTyped ==
    ASSUME IInv
    PROVE  /\ Current(cas) \in Nat /\ Current(cas) < nextCA
           /\ Previous(cas) \in Nat /\ Previous(cas) < nextCA
BY HolderFound DEF IInv, TypeInv, Current, Previous

LEMMA ReadStepKeeps ==
    ASSUME IInv, NEW s \in Request, ReadStep(s)
    PROVE  IInv'
<1> DEFINE q == req[s]
<1>1. /\ q \in Req /\ q.cur \in Nat /\ q.prev \in Nat
      /\ q.cur < nextCA /\ q.prev < nextCA /\ Informed(q)
  BY DEF IInv, TypeInv, Req
<1>2. certs \subseteq Row
  BY DEF IInv, TypeInv, RowsType
<1>3. CASE ReadRow(s)
  <2>1. CASE Refuse(s, "refused")
    BY <2>1, RefusedKeeps DEF Answers
  <2>2. ASSUME NEW r \in certs,
               NEW x, x = [req[s] EXCEPT !.src = r, !.fqdn = IF req[s].kind = "renew" THEN r.fqdn ELSE @],
               NEW pc \in {"rival", "current"}, Goto(s, x, pc), Read, At(s, "row")
        PROVE  IInv'
    <3>1. r \in Row /\ r.fqdn \in Fqdn
      BY <1>2 DEF Row
    <3>2. x \in Req /\ x.cur = q.cur /\ x.prev = q.prev /\ x.old = q.old
      BY <1>1, <2>2, <3>1 DEF Req
    <3>3. Informed([x EXCEPT !.pc = pc])
      BY <1>1, <2>2, <3>2 DEF Informed, At, Req
    <3> QED
      BY <1>1, <2>2, <3>2, <3>3, ReadKeeps DEF Steps
  <2> QED
    BY <1>3, <2>1, <2>2 DEF ReadRow
<1>4. CASE ReadRival(s)
  <2>1. CASE Refuse(s, "refused")
    BY <2>1, RefusedKeeps DEF Answers
  <2>2. CASE Goto(s, req[s], "current") /\ Read
    <3>1. Informed([q EXCEPT !.pc = "current"])
      BY <1>1, <1>4 DEF Informed, ReadRival, At, Req
    <3> QED
      BY <1>1, <2>2, <3>1, ReadKeeps DEF Steps
  <2> QED
    BY <1>4, <2>1, <2>2 DEF ReadRival
<1>5. CASE ReadCurrent(s)
  <2>1. CASE Refuse(s, "refused")
    BY <2>1, RefusedKeeps DEF Answers
  <2>2. ASSUME NEW pc \in {"commit", "count", "previous"}, Goto(s, [req[s] EXCEPT !.cur = Current(cas)], pc),
               Read, pc = "commit" => q.kind # "switchBack", pc = "count" => q.kind = "init"
        PROVE  IInv'
    <3> DEFINE x == [q EXCEPT !.cur = Current(cas)]
    <3>1. x \in Req /\ x.cur = Current(cas) /\ x.prev = q.prev
      BY <1>1, HoldersTyped DEF Req
    <3>2. Informed([x EXCEPT !.pc = pc])
      BY <1>1, <1>5, <2>2, <3>1 DEF Informed, ReadCurrent, At, Req
    <3> QED
      BY <1>1, <2>2, <3>1, <3>2, HoldersTyped, ReadKeeps DEF Steps
  <2> QED
    BY <1>5, <2>1, <2>2 DEF ReadCurrent
<1>6. CASE ReadPrevious(s)
  <2>1. CASE Refuse(s, "refused")
    BY <2>1, RefusedKeeps DEF Answers
  <2>2. ASSUME NEW pc \in {"commit", "stale", "outgoing"}, Goto(s, [req[s] EXCEPT !.prev = Previous(cas)], pc),
               Read, q.kind = "switchBack" \/ pc = "stale" => Previous(cas) # 0,
               pc # "commit" => q.kind = "replace"
        PROVE  IInv'
    <3> DEFINE x == [q EXCEPT !.prev = Previous(cas)]
    <3>1. x \in Req /\ x.prev = Previous(cas) /\ x.cur = q.cur /\ x.old = q.old /\ x.kind = q.kind
      BY <1>1, HoldersTyped DEF Req
    <3>2. Informed([x EXCEPT !.pc = pc])
      BY <1>1, <1>6, <2>2, <3>1 DEF Informed, ReadPrevious, At, Req
    <3> QED
      BY <1>1, <2>2, <3>1, <3>2, HoldersTyped, ReadKeeps DEF Steps
  <2> QED
    BY <1>6, <2>1, <2>2 DEF ReadPrevious
<1>7. CASE ReadStale(s)
  <2>1. CASE Refuse(s, "refused")
    BY <2>1, RefusedKeeps DEF Answers
  <2>2. ASSUME NEW old, old = ActiveUnder(certs, q.prev), old # {} => q.stale # "keep",
               Goto(s, [req[s] EXCEPT !.old = old], "outgoing"), Read
        PROVE  IInv'
    <3> DEFINE x == [q EXCEPT !.old = old]
    <3>1. old \subseteq Row
      BY <1>2, <2>2 DEF ActiveUnder, Active
    <3>2. x \in Req /\ x.prev = q.prev /\ x.cur = q.cur /\ x.old = old /\ x.stale = q.stale
      BY <1>1, <3>1 DEF Req
    <3>3. Informed([x EXCEPT !.pc = "outgoing"])
      BY <1>1, <1>7, <2>2, <3>2 DEF Informed, ReadStale, At, Req
    <3> QED
      BY <1>1, <2>2, <3>2, <3>3, ReadKeeps DEF Steps
  <2> QED
    BY <1>7, <2>1, <2>2 DEF ReadStale
<1>8. CASE ReadOutgoing(s)
  <2> DEFINE x == [q EXCEPT !.p3 = Outgoing(certs, q.cur)]
  <2>1. Outgoing(certs, q.cur) \subseteq Row
    BY <1>2 DEF Outgoing, ActiveUnder, Active
  <2>2. x \in Req /\ x.prev = q.prev /\ x.cur = q.cur /\ x.old = q.old /\ x.stale = q.stale /\ x.kind = q.kind
    BY <1>1, <2>1 DEF Req
  <2>3. Goto(s, x, "commit") /\ Read /\ q.pc = "outgoing"
    BY <1>8 DEF ReadOutgoing, At
  <2>4. Informed([x EXCEPT !.pc = "commit"])
    BY <1>1, <2>2, <2>3 DEF Informed, Req
  <2> QED
    BY <1>1, <2>2, <2>3, <2>4, ReadKeeps DEF Steps
<1>9. CASE ReadCount(s)
  <2>1. CASE Refuse(s, "refused")
    BY <2>1, RefusedKeeps DEF Answers
  <2>2. CASE Goto(s, req[s], "commit") /\ Read
    <3>1. Informed([q EXCEPT !.pc = "commit"])
      BY <1>1, <1>9 DEF Informed, ReadCount, At, Req
    <3> QED
      BY <1>1, <2>2, <3>1, ReadKeeps DEF Steps
  <2> QED
    BY <1>9, <2>1, <2>2 DEF ReadCount
<1>10. CASE ReadRoot(s) \/ ReadRootPrevious(s)
  <2>1. CASE Refuse(s, "refused")
    BY <2>1, RefusedKeeps DEF Answers
  <2>2. ASSUME NEW pc \in {"rootInsert", "leaves", "rootPrevious"}, Goto(s, req[s], pc), Read
        PROVE  IInv'
    <3>1. Informed([q EXCEPT !.pc = pc])
      BY <1>1, <1>10 DEF Informed, ReadRoot, ReadRootPrevious, At, Req
    <3> QED
      BY <1>1, <2>2, <3>1, ReadKeeps DEF Steps
  <2> QED
    BY <1>10, <2>1, <2>2 DEF ReadRoot, ReadRootPrevious
<1>11. CASE ReadLeaves(s)
  <2> DEFINE x == [q EXCEPT !.leaves = Leaf \ {r.leaf : r \in certs}]
  <2>1. x \in Req /\ x.prev = q.prev /\ x.cur = q.cur /\ x.old = q.old /\ x.kind = q.kind
    BY <1>1 DEF Req
  <2>2. Goto(s, x, "current") /\ Read /\ q.pc = "leaves"
    BY <1>11 DEF ReadLeaves, At
  <2>3. Informed([x EXCEPT !.pc = "current"])
    BY <1>1, <2>1, <2>2 DEF Informed, Req
  <2> QED
    BY <1>1, <2>1, <2>2, <2>3, ReadKeeps DEF Steps
<1> QED
  BY <1>3, <1>4, <1>5, <1>6, <1>7, <1>8, <1>9, <1>10, <1>11 DEF ReadStep

-----------------------------------------------------------------------------
\* The transactions.

\* The request's own fields, and the parts of the store, in a reachable state.
LEMMA Facts ==
    ASSUME IInv, NEW s \in Request
    PROVE  /\ req[s] \in Req /\ req[s].cur \in Nat /\ req[s].prev \in Nat /\ Informed(req[s])
           /\ nextCA \in Nat \ {0} /\ nextCert \in Nat \ {0}
           /\ CasType(cas, nextCA) /\ RowsType(certs, nextCert) /\ legacy \in 0..(nextCA - 1)
           /\ OneOfARole(cas) /\ SomeCurrent(cas) /\ SignersThere(cas, certs)
           /\ OneActive(certs) /\ TrueSigner(certs) /\ Needed(cas, certs)
BY DEF IInv, TypeInv, GoodStore, Req

\* The first authority of an empty store.
LEMMA FirstAuthority ==
    ASSUME IInv, DOMAIN cas = {}
    PROVE  LET cs == WithCA(cas, nextCA, "current")
           IN CasType(cs, nextCA + 1) /\ GoodStore(cs, certs) /\ Needed(cs, certs)
<1> DEFINE cs == WithCA(cas, nextCA, "current")
<1>1. cs = [i \in {nextCA} |-> "current"]
  BY DEF WithCA
<1>2. CasType(cs, nextCA + 1) /\ OneOfARole(cs) /\ SomeCurrent(cs) /\ Needed(cs, certs)
  BY <1>1 DEF IInv, TypeInv, CasType, Roles, OneOfARole, SomeCurrent, Needed
<1>3. SignersThere(cs, certs)
  BY DEF IInv, GoodStore, SignersThere
<1> QED
  BY <1>2, <1>3 DEF IInv, GoodStore

\* Ids of certificates only grow.
LEMMA RowsTypeGrows ==
    ASSUME NEW rows, NEW m \in Nat, NEW n \in Nat, m <= n, RowsType(rows, m)
    PROVE  RowsType(rows, n)
BY DEF RowsType, Row

LEMMA CommitInitKeeps ==
    ASSUME IInv, NEW s \in Request, CommitInit(s)
    PROVE  IInv'
<1>1. CASE Refuse(s, "refused")
  BY <1>1, RefusedKeeps DEF Answers
<1>2. CASE ~Refuse(s, "refused")
  <2>1. /\ DOMAIN cas = {} /\ cas' = WithCA(cas, nextCA, "current") /\ certs' = certs
        /\ nextCA' = nextCA + 1 /\ nextCert' = nextCert /\ Ended(s, "ok")
        /\ UNCHANGED <<legacy, begun, failures>>
    BY <1>2 DEF CommitInit, Written
  <2>2. CasType(cas', nextCA') /\ GoodStore(cas', certs') /\ Needed(cas', certs')
    BY <2>1, FirstAuthority
  <2>3. /\ nextCA' \in Nat /\ nextCA <= nextCA' /\ nextCert' \in Nat /\ nextCert <= nextCert'
        /\ RowsType(certs', nextCert') /\ legacy' \in 0..(nextCA' - 1)
    BY <2>1, Facts
  <2> QED
    BY <2>1, <2>2, <2>3, Wrote
<1> QED
  BY <1>1, <1>2

LEMMA InsertRootKeeps ==
    ASSUME IInv, NEW s \in Request, InsertRoot(s)
    PROVE  IInv'
<1>1. CASE Refuse(s, "refused")
  BY <1>1, RefusedKeeps DEF Answers
<1>2. CASE ~Refuse(s, "refused")
  <2> DEFINE q == [req[s] EXCEPT !.pc = "leaves"]
  <2>1. /\ DOMAIN cas = {} /\ cas' = WithCA(cas, nextCA, "current") /\ certs' = certs
        /\ nextCA' = nextCA + 1 /\ legacy' = nextCA /\ req' = [req EXCEPT ![s] = q]
        /\ UNCHANGED <<nextCert, answer, begun, failures>> /\ req[s].pc = "rootInsert"
    BY <1>2 DEF InsertRoot, Goto, At
  <2>2. CasType(cas', nextCA') /\ GoodStore(cas', certs') /\ Needed(cas', certs')
    BY <2>1, FirstAuthority
  <2>3. nextCA' \in Nat \ {0} /\ legacy' \in 0..(nextCA' - 1)
    BY <2>1, Facts
  <2>4. q \in Req /\ q.cur = req[s].cur /\ q.prev = req[s].prev
    BY Facts DEF Req, Steps
  <2>5. Informed(q)
    BY <2>1, <2>4, Facts DEF Informed, Req
  <2>6. \A t \in Request : req'[t] \in Req /\ req'[t].cur < nextCA' /\ req'[t].prev < nextCA' /\ Informed(req'[t])
    BY <2>1, <2>4, <2>5, Facts DEF IInv, TypeInv
  <2>7. req' \in [Request -> Req]
    BY <2>1, <2>4 DEF IInv, TypeInv
  <2> QED
    BY <2>1, <2>2, <2>3, <2>6, <2>7 DEF IInv, TypeInv
<1> QED
  BY <1>1, <1>2

LEMMA CommitDeleteKeeps ==
    ASSUME IInv, NEW s \in Request, CommitDelete(s)
    PROVE  IInv'
<1>1. CASE Refuse(s, "refused")
  BY <1>1, RefusedKeeps DEF Answers
<1>2. CASE ~Refuse(s, "refused")
  <2> DEFINE left == {r \in certs : r.id # req[s].id}
             db == DropUnused([cas |-> cas, certs |-> left])
  <2>1. /\ cas' = db.cas /\ certs' = db.certs /\ Ended(s, "ok")
        /\ UNCHANGED <<nextCA, nextCert, legacy, begun, failures>>
    BY <1>2 DEF CommitDelete, Written
  <2>2. Fewer(left, certs)
    BY DEF Fewer, FromRow
  <2>3. RowsType(left, nextCert)
    BY Facts, FS_Subset DEF RowsType
  <2>4. GoodStore(cas, left)
    BY <2>2, FewerKeeps, Facts DEF GoodStore
  <2>5. /\ CasType(db.cas, nextCA) /\ RowsType(db.certs, nextCert)
        /\ GoodStore(db.cas, db.certs) /\ Needed(db.cas, db.certs)
    <3> HIDE DEF left
    <3> QED
      BY <2>3, <2>4, Facts, DropUnusedKeeps
  <2> HIDE DEF db
  <2> QED
    BY <2>1, <2>5, Facts, Wrote
<1> QED
  BY <1>1, <1>2

\* Exchanging the roles of the two authorities keeps a good store good.
LEMMA SwappedGood ==
    ASSUME IInv, NEW s \in Request, Commits(s, {"switchBack"}),
           Current(cas) = req[s].cur, Previous(cas) = req[s].prev
    PROVE  CasType(Swapped(req[s]), nextCA) /\ GoodStore(Swapped(req[s]), certs)
<1> DEFINE q == req[s]
<1>1. q.kind = "switchBack" /\ q.pc = "commit"
  BY DEF Commits, At
<1>2. /\ q.prev \in DOMAIN cas /\ cas[q.prev] = "previous"
      /\ q.cur \in DOMAIN cas /\ cas[q.cur] = "current"
  <2>1. q.prev # 0
    BY <1>1, Facts DEF Informed
  <2>2. q.prev \in DOMAIN cas /\ cas[q.prev] = "previous"
    BY <2>1, Facts, HolderFound DEF Previous
  <2>3. PICK i \in DOMAIN cas : cas[i] = "current"
    BY <2>2, Facts DEF SomeCurrent
  <2> QED
    BY <2>2, <2>3, Facts, HolderIs DEF Current
<1>3. \A i \in DOMAIN cas : i = q.prev \/ i = q.cur
  BY <1>2, Facts DEF OneOfARole, CasType, Roles
<1>4. /\ DOMAIN Swapped(q) = DOMAIN cas /\ Swapped(q)[q.prev] = "current"
      /\ Swapped(q)[q.cur] = "previous"
  BY <1>2 DEF Swapped, WithRole
<1>5. CasType(Swapped(q), nextCA)
  BY <1>3, <1>4, Facts DEF CasType, Roles, Swapped, WithRole
<1>6. GoodStore(Swapped(q), certs)
  BY <1>2, <1>3, <1>4, Facts DEF GoodStore, OneOfARole, SomeCurrent, SignersThere
<1> QED
  BY <1>5, <1>6

LEMMA CommitSwitchBackKeeps ==
    ASSUME IInv, NEW s \in Request, CommitSwitchBack(s)
    PROVE  IInv'
<1>1. CASE Refuse(s, "conflict")
  BY <1>1, RefusedKeeps DEF Answers
<1>2. CASE ~Refuse(s, "conflict")
  <2> DEFINE q == req[s]
             db == DropUnused([cas |-> Swapped(q), certs |-> certs])
  <2>1. /\ cas' = db.cas /\ certs' = db.certs /\ Ended(s, "ok")
        /\ UNCHANGED <<nextCA, nextCert, legacy, begun, failures>>
        /\ Current(cas) = q.cur /\ Previous(cas) = q.prev /\ Commits(s, {"switchBack"})
    BY <1>2 DEF CommitSwitchBack, Written
  <2>2. CasType(Swapped(q), nextCA) /\ GoodStore(Swapped(q), certs)
    BY <2>1, SwappedGood
  <2>3. /\ CasType(db.cas, nextCA) /\ RowsType(db.certs, nextCert)
        /\ GoodStore(db.cas, db.certs) /\ Needed(db.cas, db.certs)
    BY <2>2, Facts, DropUnusedKeeps
  <2> HIDE DEF db, q
  <2> QED
    BY <2>1, <2>3, Facts, Wrote
<1> QED
  BY <1>1, <1>2

\* What Renew and Edit archive first only loses.
LEMMA SupersedingFewer ==
    ASSUME IInv, NEW s \in Request
    PROVE  Fewer(Superseding(req[s]), certs) /\ RowsType(Superseding(req[s]), nextCert)
<1> DEFINE q == req[s]
<1>1. Superseding(q) \in {certs, ArchiveFor(certs, {q.fqdn}), ArchiveId(certs, q.src.id)}
  BY DEF Superseding
<1>2. Fewer(certs, certs)
  BY DEF Fewer, FromRow
<1> HIDE DEF q
<1>3. Fewer(ArchiveFor(certs, {q.fqdn}), certs) /\ RowsType(ArchiveFor(certs, {q.fqdn}), nextCert)
  BY Facts, ArchiveForFewer
<1>4. Fewer(ArchiveId(certs, q.src.id), certs) /\ RowsType(ArchiveId(certs, q.src.id), nextCert)
  BY Facts, ArchiveIdFewer
<1> QED
  BY <1>1, <1>2, <1>3, <1>4, Facts DEF q

LEMMA CommitIssueKeeps ==
    ASSUME IInv, NEW s \in Request, CommitIssue(s)
    PROVE  IInv'
<1>1. CASE \E a \in {"conflict", "refused"} : Refuse(s, a)
  BY <1>1, RefusedKeeps DEF Answers
<1>2. CASE ~\E a \in {"conflict", "refused"} : Refuse(s, a)
  <2> DEFINE q == req[s]
             left == Superseding(q)
             new == Issued(nextCert, q.fqdn, q.cur)
             rows == left \cup {new}
             db == DropUnused([cas |-> cas, certs |-> rows])
  <2>1. /\ \/ cas' = db.cas /\ certs' = db.certs
           \/ cas' = cas /\ certs' = rows /\ q.kind = "generate"
        /\ Ended(s, "ok") /\ nextCert' = nextCert + 1
        /\ UNCHANGED <<nextCA, legacy, begun, failures>> /\ MayIssue(q)
    BY <1>2 DEF CommitIssue, Written
  <2>2. /\ q.fqdn \in Fqdn /\ q.cur \in Nat /\ Current(cas) = q.cur
        /\ ActiveFor(left, q.fqdn) = {}
    BY <2>1, Facts DEF Req, MayIssue
  <2>3. /\ new \in Row /\ new.id = nextCert /\ new.fqdn = q.fqdn /\ new.status = "active"
        /\ new.ca = q.cur /\ new.signer = q.cur
    BY <2>2, Facts DEF Issued, Row, Statuses
  <2>4. Fewer(left, certs) /\ RowsType(left, nextCert)
    BY SupersedingFewer
  <2>5. RowsType(rows, nextCert + 1)
    <3>1. IsFiniteSet(rows)
      BY <2>4, FS_AddElement DEF RowsType
    <3>2. RowsType(left, nextCert + 1)
      BY <2>4, Facts, RowsTypeGrows
    <3> HIDE DEF left, new
    <3> QED
      BY <2>3, <3>1, <3>2, Facts DEF RowsType
  <2>6. q.cur # Unknown => q.cur \in DOMAIN cas
    BY <2>2, Facts, HolderFound DEF Current, Unknown
  <2>7. GoodStore(cas, rows)
    <3>1. SignersThere(cas, left) /\ OneActive(left) /\ TrueSigner(left)
      BY <2>4, Facts, FewerKeeps
    <3> HIDE DEF left, new
    <3>2. OneActive(rows)
      BY <2>2, <2>3, <3>1 DEF OneActive, Active, ActiveFor
    <3>3. SignersThere(cas, rows) /\ TrueSigner(rows)
      BY <2>3, <2>6, <3>1 DEF SignersThere, TrueSigner
    <3> QED
      BY <3>2, <3>3, Facts DEF GoodStore
  <2>8. /\ CasType(db.cas, nextCA) /\ RowsType(db.certs, nextCert + 1)
        /\ GoodStore(db.cas, db.certs) /\ Needed(db.cas, db.certs)
    <3> HIDE DEF rows
    <3> QED
      BY <2>5, <2>7, Facts, DropUnusedKeeps
  <2>9. q.kind = "generate" => Needed(cas, rows)
    BY Facts DEF Needed, Superseding, ActiveUnder, Active
  <2> HIDE DEF db, rows, q
  <2> QED
    BY <2>1, <2>5, <2>7, <2>8, <2>9, Facts, Wrote
<1> QED
  BY <1>1, <1>2

LEMMA CommitImportKeeps ==
    ASSUME IInv, NEW s \in Request, CommitImport(s)
    PROVE  IInv'
<1>1. CASE \E a \in {"conflict", "refused"} : Refuse(s, a)
  BY <1>1, RefusedKeeps DEF Answers
<1>2. CASE ~\E a \in {"conflict", "refused"} : Refuse(s, a)
  <2> DEFINE q == req[s]
             rowsOf(number) == {Imported(l, number[l], q) : l \in q.leaves}
             size == Cardinality(q.leaves)
  <2>1. PICK number \in Numbered(q.leaves) :
           /\ \A r \in rowsOf(number) : r.ca # Unknown => r.ca \in DOMAIN cas
           /\ \A r \in Active(rowsOf(number)) : ActiveFor(certs, r.fqdn) = {}
           /\ certs' = certs \cup rowsOf(number) /\ nextCert' = nextCert + size /\ Ended(s, "ok")
           /\ UNCHANGED <<cas, nextCA, legacy, begun, failures>>
    BY <1>2 DEF CommitImport
  <2> DEFINE rows == rowsOf(number)
             f == [l \in q.leaves |-> Imported(l, number[l], q)]
  <2>2. q.leaves \subseteq Leaf /\ IsFiniteSet(q.leaves) /\ size \in Nat
    BY Facts, StoreAssumption, FS_Subset, FS_CardinalityType DEF Req, StoreAssumption
  <2>3. ASSUME NEW l \in q.leaves
        PROVE  /\ f[l] \in Row /\ f[l].id < nextCert + size /\ f[l].fqdn = Legacy[l].fqdn
               /\ f[l].ca # Unknown => f[l].signer = f[l].ca
               /\ f[l].status = "active" => ~Legacy[l].broken /\ ~Superseded(l, q.leaves)
    <3>1. Legacy[l] \in [fqdn : Fqdn, broken : BOOLEAN, chains : BOOLEAN, age : Nat] /\ l \in Leaf
      BY <2>2, RotationAssumption DEF RotationAssumption
    <3>2. number[l] \in Nat /\ number[l] < nextCert + size
      BY <2>2, Facts DEF Numbered
    <3>3. legacy \in Nat
      BY Facts
    <3>4. f[l] = Imported(l, number[l], q)
      OBVIOUS
    <3> HIDE DEF f, q
    <3> QED
      BY <3>1, <3>2, <3>3, <3>4 DEF Imported, Row, Statuses, Unknown
  <2>4. rows = {f[l] : l \in q.leaves}
    OBVIOUS
  <2>5. IsFiniteSet(rows)
    <3>1. f \in [q.leaves -> Row]
      BY <2>3
    <3> HIDE DEF f, rows, q
    <3> QED
      BY <2>2, <2>4, <3>1, FiniteRange
  <2>6. RowsType(certs', nextCert')
    <3>1. RowsType(certs, nextCert + size)
      BY <2>2, Facts, RowsTypeGrows
    <3>2. IsFiniteSet(certs \cup rows)
      BY <2>5, Facts, FS_Union DEF RowsType
    <3> HIDE DEF f, rows, q, size
    <3> QED
      BY <2>1, <2>3, <2>4, <3>1, <3>2 DEF RowsType, rows
  <2>7. OneActive(rows)
    <3>1. ASSUME NEW l \in q.leaves, NEW k \in q.leaves, f[l].fqdn = f[k].fqdn,
                 f[l].status = "active", f[k].status = "active"
          PROVE  l = k
      <4>1. /\ Legacy[l].fqdn = Legacy[k].fqdn /\ ~Legacy[l].broken /\ ~Legacy[k].broken
            /\ ~Superseded(l, q.leaves) /\ ~Superseded(k, q.leaves)
        BY <2>3, <3>1
      <4>2. Legacy[l].age \in Nat /\ Legacy[k].age \in Nat /\ l \in Leaf /\ k \in Leaf
        BY <2>2, RotationAssumption DEF RotationAssumption
      <4>3. Legacy[l].age = Legacy[k].age
        BY <4>1, <4>2 DEF Superseded
      <4> QED
        BY <4>1, <4>2, <4>3, RotationAssumption DEF RotationAssumption
    <3> HIDE DEF f, rows, q
    <3> QED
      BY <2>4, <3>1 DEF OneActive, Active
  <2>8. OneActive(certs')
    <3> HIDE DEF rows
    <3>1. \A r \in Active(rows) : ActiveFor(certs, r.fqdn) = {}
      BY <2>1 DEF rows
    <3>2. certs' = certs \cup rows
      BY <2>1 DEF rows
    <3> QED
      BY <2>7, <3>1, <3>2, Facts DEF OneActive, Active, ActiveFor
  <2>9. SignersThere(cas', certs') /\ TrueSigner(certs')
    <3>1. \A r \in rows : r.ca # Unknown => r.signer = r.ca
      <4> HIDE DEF f, rows, q
      <4> QED
        BY <2>3, <2>4
    <3>2. \A r \in rows : r.ca # Unknown => r.ca \in DOMAIN cas
      BY <2>1
    <3>3. certs' = certs \cup rows /\ cas' = cas
      BY <2>1
    <3> HIDE DEF rows
    <3> QED
      BY <3>1, <3>2, <3>3, Facts DEF SignersThere, TrueSigner
  <2>10. GoodStore(cas', certs') /\ Needed(cas', certs')
    <3>1. cas' = cas /\ certs \subseteq certs'
      BY <2>1
    <3>2. Needed(cas', certs')
      BY <3>1, Facts DEF Needed, ActiveUnder, Active
    <3> QED
      BY <2>8, <2>9, <3>1, <3>2, Facts DEF GoodStore
  <2>11. /\ nextCA' = nextCA /\ nextCert' \in Nat /\ nextCert <= nextCert' /\ legacy' \in 0..(nextCA' - 1)
         /\ CasType(cas', nextCA') /\ Ended(s, "ok") /\ UNCHANGED <<begun, failures>>
    BY <2>1, <2>2, Facts
  <2> QED
    BY <2>6, <2>10, <2>11, Facts, Wrote
<1> QED
  BY <1>1, <1>2

-----------------------------------------------------------------------------
\* A replacement that is not refused: only the two authorities it read are in the
\* store, and the rows it read are all the active ones.
LEMMA ReplaceInformed ==
    ASSUME IInv, NEW s \in Request, Commits(s, {"replace"}), Refusal(req[s]) = "none"
    PROVE  LET q == req[s]
           IN /\ q.cur \in DOMAIN cas /\ cas[q.cur] = "current"
              /\ q.prev # 0 => q.prev \in DOMAIN cas /\ cas[q.prev] = "previous"
              /\ q.prev # q.cur
              /\ DOMAIN cas \subseteq {q.cur, q.prev}
              /\ q.p3 = Outgoing(certs, q.cur)
              /\ q.old = IF q.prev = 0 THEN {} ELSE ActiveUnder(certs, q.prev)
              /\ Active(certs) = q.p3 \cup q.old /\ q.p3 \cap q.old = {}
<1> DEFINE q == req[s]
<1>1. /\ AsRead(q) /\ ~Gone(q) /\ InRole(q) /\ q.cur \in DOMAIN Retiring(q).cas
      /\ MayInstall(Retiring(q).cas, q)
  BY DEF Refusal
<1>2. /\ q.prev = 0 => Retiring(q).cas = cas
      /\ q.prev # 0 => Retiring(q).cas = [i \in DOMAIN cas \ {q.prev} |-> cas[i]]
  BY DEF Retiring, Retired
<1>3. q.cur \in DOMAIN cas /\ q.prev # q.cur
  <2>1. CASE q.prev = 0
    BY <1>1, <1>2, <2>1, Facts DEF CasType
  <2>2. CASE q.prev # 0
    BY <1>1, <1>2, <2>2
  <2> QED
    BY <2>1, <2>2
<1>4. q.prev # 0 => q.prev \in DOMAIN cas /\ cas[q.prev] = "previous"
  BY <1>1 DEF Gone, InRole
<1>5. DOMAIN cas \subseteq {q.cur, q.prev}
  <2>1. \A i \in DOMAIN cas : cas[i] \in {"current", "previous"}
    BY Facts DEF CasType, Roles
  <2> QED
    BY <1>1, <1>2, <2>1 DEF MayInstall
<1>6. cas[q.cur] = "current"
  <2>1. PICK i \in DOMAIN cas : cas[i] = "current"
    BY <1>3, Facts DEF SomeCurrent
  <2>2. i # q.prev
    BY <1>4, <2>1, Facts DEF CasType
  <2> QED
    BY <1>5, <2>1, <2>2
<1>7. /\ q.p3 = Outgoing(certs, q.cur)
      /\ q.old = IF q.prev = 0 THEN {} ELSE ActiveUnder(certs, q.prev)
  BY <1>1, Facts DEF AsRead, Informed
<1>8. Active(certs) = q.p3 \cup q.old
  <2>1. \A r \in certs : r.ca \in {Unknown, q.cur} \/ (q.prev # 0 /\ r.ca = q.prev)
    BY <1>5, Facts DEF SignersThere, CasType, Unknown
  <2> QED
    BY <1>7, <2>1 DEF Outgoing, ActiveUnder, Active
<1>9. q.p3 \cap q.old = {}
  BY <1>3, <1>7 DEF Outgoing, ActiveUnder, Unknown
<1> QED
  BY <1>3, <1>4, <1>5, <1>6, <1>7, <1>8, <1>9

\* Its first step leaves the outgoing authority, of the rows those that are not
\* under the previous one, and of the active ones those it did not read there.
LEMMA RetiringKeeps ==
    ASSUME IInv, NEW s \in Request, Commits(s, {"replace"}), Refusal(req[s]) = "none"
    PROVE  LET q == req[s]
               db == Retiring(q)
           IN /\ DOMAIN db.cas = {q.cur}
              /\ Fewer(db.certs, certs) /\ RowsType(db.certs, nextCert)
              /\ \A r \in db.certs : r.ca \in {q.cur, Unknown}
              /\ Active(db.certs) \subseteq q.p3
<1> DEFINE q == req[s]
           db == Retiring(q)
           left == CASE q.stale = "delete" -> certs \ q.old
                     [] q.stale = "reissue" -> {IF r \in q.old THEN Archived(r) ELSE r : r \in certs}
                     [] q.stale = "keep" -> certs
<1>1. /\ q.cur \in DOMAIN cas /\ q.prev # q.cur /\ DOMAIN cas \subseteq {q.cur, q.prev}
      /\ q.old = IF q.prev = 0 THEN {} ELSE ActiveUnder(certs, q.prev)
      /\ Active(certs) = q.p3 \cup q.old
      /\ q.prev # 0 => q.prev \in DOMAIN cas
  BY ReplaceInformed
<1>2. q.stale \in Choices /\ (q.stale = "keep" => q.old = {})
  BY Facts DEF Req, Informed
<1>3. Fewer(left, certs) /\ RowsType(left, nextCert) /\ Active(left) \cap q.old = {}
  <2>1. CASE q.stale = "delete" \/ q.stale = "keep"
    <3>1. left \subseteq certs /\ left \cap q.old = {}
      BY <1>2, <2>1
    <3>2. RowsType(left, nextCert)
      BY <3>1, Facts, FS_Subset DEF RowsType
    <3> QED
      BY <3>1, <3>2 DEF Fewer, FromRow, Active
  <2>2. CASE q.stale = "reissue"
    <3> DEFINE f == [r \in certs |-> IF r \in q.old THEN Archived(r) ELSE r]
    <3>1. left = {f[r] : r \in certs}
      BY <2>2
    <3>2. \A r \in certs : /\ f[r] \in Row /\ FromRow(f[r], r)
                           /\ f[r].status = "active" => f[r] \notin q.old
      BY Facts DEF RowsType, Row, FromRow, Archived, Statuses
    <3>3. IsFiniteSet({f[r] : r \in certs})
      <4>1. f \in [certs -> Row] /\ IsFiniteSet(certs)
        BY <3>2, Facts DEF RowsType
      <4> HIDE DEF f
      <4> QED
        BY <4>1, FiniteRange
    <3> HIDE DEF f, left
    <3> QED
      BY <3>1, <3>2, <3>3, Facts DEF Fewer, RowsType, FromRow, Active
  <2> QED
    BY <1>2, <2>1, <2>2 DEF Choices
<1>4. CASE q.prev = 0
  <2>1. db.cas = cas /\ db.certs = left
    BY <1>4 DEF Retiring
  <2> HIDE DEF left
  <2>2. 0 \notin DOMAIN cas
    <3>1. nextCA \in Nat /\ DOMAIN cas \subseteq 1..(nextCA - 1)
      BY Facts DEF CasType
    <3> QED
      BY <3>1
  <2>3. DOMAIN cas = {q.cur}
    <3> HIDE DEF q
    <3> QED
      BY <1>1, <1>4, <2>2
  <2>4. SignersThere(cas, left) /\ Active(left) \subseteq Active(certs)
    BY <1>3, Facts, FewerKeeps
  <2>5. \A r \in left : r.ca \in {q.cur, Unknown}
    BY <2>3, <2>4 DEF SignersThere
  <2>6. Active(left) \subseteq q.p3
    BY <1>1, <1>4, <2>4
  <2> QED
    BY <1>3, <2>1, <2>3, <2>5, <2>6
<1>5. CASE q.prev # 0
  <2>1. db.cas = [i \in DOMAIN cas \ {q.prev} |-> cas[i]] /\ db.certs = LeavesOf(left, q.prev)
    BY <1>5 DEF Retiring, Retired
  <2>2. ActiveUnder(left, q.prev) = {}
    <3>1. Active(left) \subseteq Active(certs)
      BY <1>3, FewerKeeps
    <3> HIDE DEF left
    <3> QED
      BY <1>1, <1>3, <1>5, <3>1 DEF ActiveUnder
  <2>3. q.prev \in Nat \ {0}
    BY <1>5, Facts
  <2> HIDE DEF left
  <2>4. /\ Fewer(LeavesOf(left, q.prev), left) /\ RowsType(LeavesOf(left, q.prev), nextCert)
        /\ \A r \in LeavesOf(left, q.prev) : r.ca # q.prev
        /\ Active(LeavesOf(left, q.prev)) = Active(left)
    BY <1>3, <2>2, <2>3, LeavesOfFewer
  <2>5. Fewer(db.certs, certs)
    BY <1>3, <2>1, <2>4 DEF Fewer, FromRow
  <2>6. SignersThere(cas, db.certs)
    BY <2>5, Facts, FewerKeeps
  <2>7. \A r \in db.certs : r.ca \in {q.cur, Unknown}
    BY <1>1, <2>1, <2>4, <2>6 DEF SignersThere
  <2>8. Active(db.certs) \subseteq q.p3
    BY <1>1, <1>3, <2>1, <2>4, FewerKeeps
  <2>9. DOMAIN db.cas = {q.cur}
    BY <1>1, <2>1
  <2> QED
    BY <2>1, <2>4, <2>5, <2>7, <2>8, <2>9
<1> QED
  BY <1>4, <1>5

\* The blanket choice only loses rows, and issues no name that it leaves active.
LEMMA ChosenFewer ==
    ASSUME NEW q \in Req, NEW rows, NEW n, RowsType(rows, n), Active(rows) \subseteq q.p3
    PROVE  /\ Fewer(Chosen(q, rows), rows) /\ RowsType(Chosen(q, rows), n)
           /\ Active(Chosen(q, rows)) \subseteq q.p3
           /\ q.existing = "reissue" => Active(Chosen(q, rows)) = {}
<1> DEFINE names == {r.fqdn : r \in q.p3}
<1>1. CASE q.existing = "reissue"
  <2>1. /\ Fewer(ArchiveFor(rows, names), rows) /\ RowsType(ArchiveFor(rows, names), n)
        /\ \A r \in Active(ArchiveFor(rows, names)) : r.fqdn \notin names
    BY ArchiveForFewer
  <2>2. Active(ArchiveFor(rows, names)) \subseteq Active(rows)
    BY <2>1, FewerKeeps
  <2>3. Active(ArchiveFor(rows, names)) = {}
    BY <2>1, <2>2
  <2>4. Chosen(q, rows) = ArchiveFor(rows, names)
    BY <1>1 DEF Chosen
  <2> QED
    BY <2>1, <2>3, <2>4
<1>2. CASE q.existing \in {"delete", "keep"}
  <2>1. Chosen(q, rows) \subseteq rows
    BY <1>2 DEF Chosen
  <2>2. Fewer(Chosen(q, rows), rows)
    BY <2>1 DEF Fewer, FromRow
  <2>3. RowsType(Chosen(q, rows), n)
    BY <2>1, FS_Subset DEF RowsType
  <2>4. Active(Chosen(q, rows)) \subseteq Active(rows)
    BY <2>2, FewerKeeps
  <2> QED
    BY <1>2, <2>2, <2>3, <2>4
<1> QED
  BY <1>1, <1>2 DEF Req, Choices

\* What is issued again: nothing, or a row under the new authority for each row.
LEMMA AgainRows ==
    ASSUME NEW choice, NEW rows, NEW n, RowsType(rows, n), NEW first \in Nat, nextCA \in Nat,
           \A r, t \in rows : r.fqdn = t.fqdn => r = t
    PROVE  LET again == Again(choice, rows, first)
               size == IF choice = "reissue" THEN Cardinality(rows) ELSE 0
           IN /\ size \in Nat /\ RowsType(again, first + size)
              /\ Cardinality(again) \in 0..size
              /\ again # {} => choice = "reissue"
              /\ \A x \in again : /\ x.status = "active" /\ x.ca = nextCA /\ x.signer = nextCA
                                  /\ \E r \in rows : r.fqdn = x.fqdn
              /\ \A x, y \in again : x.fqdn = y.fqdn => x = y
<1>1. CASE choice = "reissue"
  <2>1. Again(choice, rows, first) = Reissued(rows, first, nextCA)
    BY <1>1 DEF Again
  <2>2. /\ Cardinality(rows) \in Nat
        /\ RowsType(Reissued(rows, first, nextCA), first + Cardinality(rows))
        /\ Cardinality(Reissued(rows, first, nextCA)) \in 0..Cardinality(rows)
        /\ \A x \in Reissued(rows, first, nextCA) :
              /\ x.status = "active" /\ x.ca = nextCA /\ x.signer = nextCA
              /\ \E r \in rows : r.fqdn = x.fqdn
        /\ \A x, y \in Reissued(rows, first, nextCA) : x.fqdn = y.fqdn => x = y
    BY ReissuedRows
  <2> QED
    BY <1>1, <2>1, <2>2
<1>2. CASE choice # "reissue"
  BY <1>2, FS_EmptySet DEF Again, RowsType
<1> QED
  BY <1>1, <1>2

\* The store a replacement leaves, before the new previous authority is dropped if
\* nothing needs it: it names the new rows, and each name has one active row.
LEMMA ReplacedGood ==
    ASSUME IInv, NEW s \in Request, Commits(s, {"replace"}), Refusal(req[s]) = "none"
    PROVE  LET q == req[s]
               db == Replaced(q)
               more == (IF q.stale = "reissue" THEN Cardinality(q.old) ELSE 0)
                          + (IF q.existing = "reissue" THEN Cardinality(q.p3) ELSE 0)
           IN /\ more \in Nat
              /\ CasType(db.cas, nextCA + 1) /\ RowsType(db.certs, nextCert + more)
              /\ GoodStore(db.cas, db.certs)
<1> DEFINE q == req[s]
           left == Retiring(q).certs
           kept == Chosen(q, left)
           fresh == Again(q.stale, q.old, nextCert)
           again == Again(q.existing, q.p3, nextCert + Cardinality(fresh))
           sizeOld == IF q.stale = "reissue" THEN Cardinality(q.old) ELSE 0
           sizeP3 == IF q.existing = "reissue" THEN Cardinality(q.p3) ELSE 0
           rows == kept \cup fresh \cup again
<1>1. /\ q \in Req /\ q.cur \in DOMAIN cas /\ q.cur < nextCA
      /\ Active(certs) = q.p3 \cup q.old /\ q.p3 \cap q.old = {}
  BY ReplaceInformed, Facts DEF IInv, TypeInv
<1>2. /\ DOMAIN Retiring(q).cas = {q.cur} /\ Fewer(left, certs) /\ RowsType(left, nextCert)
      /\ \A r \in left : r.ca \in {q.cur, Unknown}
      /\ Active(left) \subseteq q.p3
  BY RetiringKeeps
<1>3. RowsType(q.p3, nextCert) /\ RowsType(q.old, nextCert)
  <2>1. q.p3 \subseteq certs /\ q.old \subseteq certs
    BY <1>1 DEF Active
  <2> HIDE DEF q
  <2> QED
    BY <2>1, Facts, FS_Subset DEF RowsType
<1>4. \A r, t \in q.p3 \cup q.old : r.fqdn = t.fqdn => r = t
  BY <1>1, Facts DEF OneActive
<1>5. /\ Fewer(kept, left) /\ RowsType(kept, nextCert) /\ Active(kept) \subseteq q.p3
      /\ q.existing = "reissue" => Active(kept) = {}
  <2> HIDE DEF left, q
  <2> QED
    BY <1>1, <1>2, ChosenFewer
<1>6. /\ sizeOld \in Nat /\ RowsType(fresh, nextCert + sizeOld) /\ Cardinality(fresh) \in 0..sizeOld
      /\ \A x \in fresh : /\ x.status = "active" /\ x.ca = nextCA /\ x.signer = nextCA
                          /\ \E r \in q.old : r.fqdn = x.fqdn
      /\ \A x, y \in fresh : x.fqdn = y.fqdn => x = y
  <2> HIDE DEF q
  <2> QED
    BY <1>3, <1>4, Facts, AgainRows
<1> HIDE DEF fresh
<1>7. /\ sizeP3 \in Nat /\ RowsType(again, nextCert + Cardinality(fresh) + sizeP3)
      /\ again # {} => q.existing = "reissue"
      /\ \A x \in again : /\ x.status = "active" /\ x.ca = nextCA /\ x.signer = nextCA
                          /\ \E r \in q.p3 : r.fqdn = x.fqdn
      /\ \A x, y \in again : x.fqdn = y.fqdn => x = y
  <2> DEFINE first == nextCert + Cardinality(fresh)
  <2>1. first \in Nat /\ again = Again(q.existing, q.p3, first)
    BY <1>6, Facts
  <2> HIDE DEF q, first, again
  <2>2. /\ sizeP3 \in Nat /\ RowsType(Again(q.existing, q.p3, first), first + sizeP3)
        /\ Again(q.existing, q.p3, first) # {} => q.existing = "reissue"
        /\ \A x \in Again(q.existing, q.p3, first) :
              /\ x.status = "active" /\ x.ca = nextCA /\ x.signer = nextCA
              /\ \E r \in q.p3 : r.fqdn = x.fqdn
        /\ \A x, y \in Again(q.existing, q.p3, first) : x.fqdn = y.fqdn => x = y
    BY <1>3, <1>4, <2>1, Facts, AgainRows
  <2> HIDE DEF sizeP3
  <2> QED
    BY <2>1, <2>2 DEF first
<1> HIDE DEF again, kept, left, sizeOld, sizeP3
<1>8. Replaced(q).cas = Installed(q) /\ Replaced(q).certs = rows
  BY DEF Replaced, fresh, again, kept, left
<1>9. /\ DOMAIN Installed(q) = {q.cur, nextCA} /\ q.cur # nextCA
      /\ Installed(q)[q.cur] = "previous" /\ Installed(q)[nextCA] = "current"
  <2>1. q.cur # nextCA
    BY <1>1, Facts
  <2> QED
    BY <1>2, <2>1 DEF Installed, WithCA, WithRole
<1>10. CasType(Installed(q), nextCA + 1)
  <2>1. q.cur \in 1..nextCA /\ nextCA \in 1..nextCA /\ nextCA \in Nat
    BY <1>1, Facts DEF CasType
  <2>2. Installed(q) = [i \in DOMAIN Installed(q) |-> Installed(q)[i]]
    BY DEF Installed, WithCA
  <2> QED
    BY <1>9, <2>1, <2>2 DEF CasType, Roles
<1>11. RowsType(rows, nextCert + sizeOld + sizeP3)
  <2>1. /\ nextCert <= nextCert + sizeOld + sizeP3
        /\ nextCert + sizeOld <= nextCert + sizeOld + sizeP3
        /\ nextCert + Cardinality(fresh) + sizeP3 <= nextCert + sizeOld + sizeP3
        /\ nextCert \in Nat /\ nextCert + sizeOld \in Nat /\ nextCert + sizeOld + sizeP3 \in Nat
        /\ nextCert + Cardinality(fresh) + sizeP3 \in Nat
    BY <1>6, <1>7, Facts
  <2>2. /\ RowsType(kept, nextCert + sizeOld + sizeP3) /\ RowsType(fresh, nextCert + sizeOld + sizeP3)
        /\ RowsType(again, nextCert + sizeOld + sizeP3)
    BY <1>5, <1>6, <1>7, <2>1, RowsTypeGrows
  <2>3. IsFiniteSet(rows)
    BY <2>2, FS_Union DEF RowsType
  <2> QED
    BY <2>2, <2>3 DEF RowsType
<1>12. OneActive(rows)
  <2>1. OneActive(kept)
    BY <1>2, <1>5, Facts, FewerKeeps
  <2>2. \A x \in Active(kept), y \in fresh \cup again : x.fqdn # y.fqdn
    BY <1>1, <1>4, <1>5, <1>6, <1>7
  <2>3. \A x \in fresh, y \in again : x.fqdn # y.fqdn
    BY <1>1, <1>4, <1>6, <1>7
  <2>4. Active(rows) = Active(kept) \cup fresh \cup again
    BY <1>6, <1>7 DEF Active
  <2> HIDE DEF rows
  <2> QED
    BY <1>6, <1>7, <2>1, <2>2, <2>3, <2>4 DEF OneActive
<1>13. SignersThere(Installed(q), rows) /\ TrueSigner(rows)
  <2>1. TrueSigner(kept)
    BY <1>2, <1>5, Facts, FewerKeeps
  <2>2. \A r \in kept : r.ca \in {q.cur, Unknown}
    BY <1>2, <1>5 DEF Fewer, FromRow
  <2> HIDE DEF q
  <2> QED
    BY <1>6, <1>7, <1>9, <2>1, <2>2 DEF SignersThere, TrueSigner
<1>14. OneOfARole(Installed(q)) /\ SomeCurrent(Installed(q))
  BY <1>9 DEF OneOfARole, SomeCurrent
<1>15. sizeOld + sizeP3 \in Nat /\ nextCert + (sizeOld + sizeP3) = nextCert + sizeOld + sizeP3
  BY <1>6, <1>7, Facts
<1> QED
  BY <1>8, <1>10, <1>11, <1>12, <1>13, <1>14, <1>15 DEF GoodStore, sizeOld, sizeP3

LEMMA CommitReplaceKeeps ==
    ASSUME IInv, NEW s \in Request, CommitReplace(s)
    PROVE  IInv'
<1> DEFINE q == req[s]
<1>1. CASE Refusal(q) # "none"
  <2>1. Refusal(q) \in Answers
    BY DEF Refusal, Answers
  <2> QED
    BY <1>1, <2>1, RefusedKeeps DEF CommitReplace
<1>2. CASE Refusal(q) = "none"
  <2> DEFINE db == Replaced(q)
             out == DropUnused([cas |-> db.cas, certs |-> db.certs])
             more == (IF q.stale = "reissue" THEN Cardinality(q.old) ELSE 0)
                        + (IF q.existing = "reissue" THEN Cardinality(q.p3) ELSE 0)
  <2>1. /\ more \in Nat /\ CasType(db.cas, nextCA + 1) /\ RowsType(db.certs, nextCert + more)
        /\ GoodStore(db.cas, db.certs)
    BY <1>2, ReplacedGood DEF CommitReplace
  <2>2. db = [cas |-> db.cas, certs |-> db.certs]
    BY DEF Replaced
  <2>3. /\ cas' = out.cas /\ certs' = out.certs /\ Ended(s, "ok")
        /\ UNCHANGED <<legacy, begun, failures>> /\ nextCA' = nextCA + 1
    BY <1>2, <2>2 DEF CommitReplace, Written
  <2>4. nextCert' = nextCert + more
    <3>1. nextCert' = nextCert + (IF q.stale = "reissue" THEN Cardinality(q.old) ELSE 0)
                               + (IF q.existing = "reissue" THEN Cardinality(q.p3) ELSE 0)
      BY <1>2 DEF CommitReplace
    <3>2. /\ (IF q.stale = "reissue" THEN Cardinality(q.old) ELSE 0) \in Nat
          /\ (IF q.existing = "reissue" THEN Cardinality(q.p3) ELSE 0) \in Nat
      <4>1. IsFiniteSet(q.p3) /\ IsFiniteSet(q.old)
        <5>1. q.p3 \subseteq certs /\ q.old \subseteq certs
          BY <1>2, ReplaceInformed DEF CommitReplace, Active
        <5> HIDE DEF q
        <5> QED
          BY <5>1, Facts, FS_Subset DEF RowsType
      <4> QED
        BY <4>1, FS_CardinalityType
    <3> QED
      BY <3>1, <3>2, Facts
  <2>5. nextCA + 1 \in Nat \ {0}
    BY Facts
  <2> HIDE DEF q, db, more
  <2>6. /\ CasType(out.cas, nextCA + 1) /\ RowsType(out.certs, nextCert + more)
        /\ GoodStore(out.cas, out.certs) /\ Needed(out.cas, out.certs)
    BY <2>1, <2>5, DropUnusedKeeps
  <2> HIDE DEF out
  <2>7. nextCA' \in Nat /\ nextCA <= nextCA' /\ nextCert' \in Nat /\ nextCert <= nextCert'
        /\ legacy' \in 0..(nextCA' - 1)
    BY <2>1, <2>3, <2>4, Facts
  <2> QED
    BY <2>3, <2>4, <2>6, <2>7, Wrote
<1> QED
  BY <1>1, <1>2

-----------------------------------------------------------------------------
\* Every step keeps the invariant.
LEMMA NextKeeps == IInv /\ [Next]_vars => IInv'
<1>1. ASSUME IInv, UNCHANGED vars
      PROVE  IInv'
  BY <1>1 DEF vars, storeVars, IInv, TypeInv, CasType, RowsType, GoodStore, Needed, OneOfARole,
              SomeCurrent, SignersThere, OneActive, TrueSigner, Active, ActiveUnder
<1>2. ASSUME IInv, NEW s \in Request, Commit(s)
      PROVE  IInv'
  BY <1>2, InsertRootKeeps, CommitInitKeeps, CommitImportKeeps, CommitIssueKeeps,
     CommitDeleteKeeps, CommitReplaceKeeps, CommitSwitchBackKeeps DEF Commit
<1> QED
  BY <1>1, <1>2, AskKeeps, FailKeeps, ReadStepKeeps DEF Next

\* The store is typed and good, the previous authority is needed, and each request
\* has read what its next step takes for granted.
THEOREM RotationInvariant == Spec => []IInv
<1>1. Init => IInv
  BY Initial
<1> QED
  BY <1>1, NextKeeps, PTL DEF Spec

\* Ids are in use, rows are rows, and requests hold what they were given
\* (store.go, lifecycle.go), however many requests, names and leaves there are.
THEOREM RotationTypes == Spec => []TypeOK
<1>1. IInv => TypeOK
  <2> SUFFICES ASSUME IInv PROVE TypeOK
    OBVIOUS
  <2>1. /\ DOMAIN cas \subseteq 1..(nextCA - 1) /\ cas \in [DOMAIN cas -> Roles]
        /\ certs \subseteq Row /\ IsFiniteSet(certs) /\ \A r \in certs : r.id < nextCert
        /\ nextCA \in Nat \ {0} /\ nextCert \in Nat \ {0} /\ legacy \in 0..(nextCA - 1)
    BY DEF IInv, TypeInv, CasType, RowsType
  <2>2. ASSUME NEW s \in Request
        PROVE  /\ req[s].pc \in Steps /\ req[s].kind \in Kinds /\ req[s].fqdn \in Fqdn
               /\ req[s].existing \in Choices /\ req[s].stale \in Choices
               /\ {req[s].cur, req[s].prev} \subseteq 0..(nextCA - 1)
               /\ req[s].src \in Row \cup {NoRow} /\ req[s].leaves \subseteq Leaf
               /\ req[s].p3 \cup req[s].old \subseteq Row
    <3>1. req[s] \in Req /\ req[s].cur < nextCA /\ req[s].prev < nextCA
      BY DEF IInv, TypeInv
    <3> QED
      BY <2>1, <3>1 DEF Req
  <2>3. answer \in [Request -> Answers] /\ begun \in 0..MaxRequests /\ failures \in 0..MaxFailures
    BY DEF IInv, TypeInv
  <2> QED
    BY <2>1, <2>2, <2>3 DEF TypeOK
<1> QED
  BY <1>1, RotationInvariant, PTL

\* No order of replacements, switches back, imports, deletions and re-issues, and
\* no interleaving of them, leaves a database that Open would refuse.
THEOREM AlwaysStructurallySound == Spec => []StructurallySound
<1>1. IInv => StructurallySound
  BY DEF IInv, GoodStore, OneOfARole, SomeCurrent, SignersThere, OneActive, StructurallySound
<1> QED
  BY <1>1, RotationInvariant, PTL

\* The authority a row names is the one that signed it: also when a request signs
\* under an authority it read before somebody else rotated.
THEOREM AlwaysSignedByRecorded == Spec => []SignedByRecorded
<1>1. IInv => SignedByRecorded
  BY DEF IInv, GoodStore, TrueSigner, SignedByRecorded
<1> QED
  BY <1>1, RotationInvariant, PTL

\* After each transaction a previous authority has an active row.
THEOREM AlwaysPreviousInUse == Spec => []PreviousInUse
<1>1. IInv => PreviousInUse
  BY DEF IInv, Needed, PreviousInUse
<1> QED
  BY <1>1, RotationInvariant, PTL

-----------------------------------------------------------------------------
\* Only the transaction of a replacement answers one with "ok".
LEMMA WritesReplace ==
    ASSUME IInv, Next, NEW s \in Request, Writes(s, {"replace"})
    PROVE  Refusal(req[s]) = "none"
<1>1. PICK t \in Request : Ask(t) \/ Fail(t) \/ ReadStep(t) \/ Commit(t)
  BY DEF Next
<1>2. /\ req[s].pc = "commit" /\ req[s].kind = "replace" /\ req'[s] # req[s] /\ answer'[s] = "ok"
  BY DEF Writes, Commits, At
<1>3. t = s
  <2>1. \E q : req' = [req EXCEPT ![t] = q]
    BY <1>1 DEF Ask, Arrive, Fail, ReadStep, ReadRow, ReadRival, ReadCurrent, ReadPrevious,
                ReadStale, ReadOutgoing, ReadCount, ReadRoot, ReadRootPrevious, ReadLeaves,
                Commit, InsertRoot, CommitInit, CommitImport, CommitIssue, CommitDelete,
                CommitReplace, CommitSwitchBack, Refuse, Ended, Goto, Written
  <2> QED
    BY <1>2, <2>1 DEF IInv, TypeInv
<1>4. answer \in [Request -> Answers]
  BY DEF IInv, TypeInv
<1>5. ~Ask(s)
  BY <1>2 DEF Ask, Arrive, At
<1>6. ~Fail(s)
  BY <1>2, <1>4 DEF Fail, Ended
<1>7. ~ReadStep(s)
  BY <1>2 DEF ReadStep, At, ReadRow, ReadRival, ReadCurrent, ReadPrevious,
              ReadStale, ReadOutgoing, ReadCount, ReadRoot, ReadRootPrevious, ReadLeaves
<1>8. CommitReplace(s)
  BY <1>1, <1>2, <1>3, <1>5, <1>6, <1>7
     DEF Commit, Commits, At, InsertRoot, CommitInit, CommitImport, CommitIssue, CommitDelete,
         CommitSwitchBack
<1>9. Refusal(req[s]) # "none" => Refuse(s, Refusal(req[s]))
  BY <1>8 DEF CommitReplace
<1>10. Refusal(req[s]) # "ok"
  BY DEF Refusal
<1> QED
  BY <1>2, <1>4, <1>9, <1>10 DEF Refuse, Ended

\* A replacement that is carried out moves the authorities that hold the roles it
\* read, and its choices are about every active row there is.
THEOREM AlwaysReplacedAsRead == Spec => ReplacedAsRead
<1> DEFINE Step == \A s \in Request : Writes(s, {"replace"}) =>
                      /\ req[s].cur = Current(cas) /\ req[s].prev = Previous(cas)
                      /\ Active(certs) = req[s].p3 \cup req[s].old
<1>1. ASSUME IInv, Next
      PROVE  Step
  <2> SUFFICES ASSUME NEW s \in Request, Writes(s, {"replace"})
               PROVE  /\ req[s].cur = Current(cas) /\ req[s].prev = Previous(cas)
                      /\ Active(certs) = req[s].p3 \cup req[s].old
    OBVIOUS
  <2>1. Commits(s, {"replace"}) /\ Refusal(req[s]) = "none"
    BY <1>1, WritesReplace DEF Writes
  <2>2. /\ req[s].cur \in DOMAIN cas /\ cas[req[s].cur] = "current"
        /\ req[s].prev # 0 => req[s].prev \in DOMAIN cas /\ cas[req[s].prev] = "previous"
        /\ DOMAIN cas \subseteq {req[s].cur, req[s].prev}
        /\ Active(certs) = req[s].p3 \cup req[s].old
    BY <1>1, <2>1, ReplaceInformed
  <2>3. req[s].cur = Current(cas)
    BY <1>1, <2>2, Facts, HolderIs DEF Current
  <2>4. req[s].prev = Previous(cas)
    <3>1. CASE req[s].prev # 0
      BY <1>1, <2>2, <3>1, Facts, HolderIs DEF Previous
    <3>2. CASE req[s].prev = 0
      <4>1. 0 \notin DOMAIN cas
        <5>1. nextCA \in Nat /\ DOMAIN cas \subseteq 1..(nextCA - 1)
          BY <1>1, Facts DEF CasType
        <5> QED
          BY <5>1
      <4>2. \A i \in DOMAIN cas : cas[i] # "previous"
        BY <2>2, <3>2, <4>1
      <4> QED
        BY <3>2, <4>2 DEF Previous, Holder
    <3> QED
      BY <3>1, <3>2
  <2> QED
    BY <2>2, <2>3, <2>4
<1>2. IInv /\ [Next]_vars => [Step]_vars
  BY <1>1
<1> QED
  BY <1>2, RotationInvariant, PTL DEF Spec, ReplacedAsRead

-----------------------------------------------------------------------------
\* Whose names they are.  To know that an edit took its own name away, and nobody
\* else's, one has to know that the row it read is still the only name of its id.

\* Rows of one id are of one name: an id is given once, and no update changes a name.
SameName(rows) == \A r, t \in rows : r.id = t.id => r.fqdn = t.fqdn

\* A renewal or an edit that has read its row knows the name of every row of that id.
Sourced(rows, n, q) ==
    q.kind \in {"renew", "edit"} /\ q.pc \notin {"idle", "row"} =>
        /\ q.src \in Row /\ q.src.id < n
        /\ \A r \in rows : r.id = q.src.id => r.fqdn = q.src.fqdn
        /\ q.kind = "renew" => q.fqdn = q.src.fqdn

NameInv == SameName(certs) /\ \A s \in Request : Sourced(certs, nextCert, req[s])

\* Rows that stem from old ones, or have an id that was free.
Grown(new, old, n) == \A r \in new : r.id \in Nat /\ ((\E t \in old : FromRow(r, t)) \/ r.id >= n)

LEMMA FewerGrown ==
    ASSUME NEW old, NEW new, NEW n, RowsType(old, n), Fewer(new, old), SameName(old)
    PROVE  SameName(new) /\ Grown(new, old, n)
<1>1. \A r \in new : \E t \in old : FromRow(r, t) /\ r.id = t.id /\ r.fqdn = t.fqdn /\ t.id \in Nat
  BY DEF Fewer, FromRow, RowsType, Row
<1> QED
  BY <1>1 DEF SameName, Grown

\* New rows of free ids, of one name each, beside what is left of the old ones.
LEMMA FreshGrown ==
    ASSUME NEW old, NEW left, NEW fresh, NEW n \in Nat, RowsType(old, n), SameName(old),
           Fewer(left, old), SameName(fresh),
           \A x \in fresh : x.id \in Nat /\ x.id >= n
    PROVE  SameName(left \cup fresh) /\ Grown(left \cup fresh, old, n)
<1>1. SameName(left) /\ Grown(left, old, n)
  BY FewerGrown
<1>2. \A r \in left : r.id \in Nat /\ r.id < n
  <2>1. \A r \in left : \E t \in old : r.id = t.id
    BY DEF Fewer, FromRow
  <2>2. \A t \in old : t.id \in Nat /\ t.id < n
    BY DEF RowsType, Row
  <2> QED
    BY <2>1, <2>2
<1>3. \A r \in left, x \in fresh : r.id # x.id
  BY <1>2
<1> QED
  BY <1>1, <1>3 DEF SameName, Grown

\* A request that was under way still knows the name of its row.
LEMMA SourcedKeeps ==
    ASSUME NEW old, NEW new, NEW n \in Nat, NEW m \in Nat, n <= m, Grown(new, old, n),
           NEW q, Sourced(old, n, q)
    PROVE  Sourced(new, m, q)
<1> SUFFICES ASSUME q.kind \in {"renew", "edit"}, q.pc \notin {"idle", "row"}
             PROVE  /\ q.src \in Row /\ q.src.id < m
                    /\ \A r \in new : r.id = q.src.id => r.fqdn = q.src.fqdn
                    /\ q.kind = "renew" => q.fqdn = q.src.fqdn
  BY DEF Sourced
<1>1. /\ q.src \in Row /\ q.src.id < n
      /\ \A r \in old : r.id = q.src.id => r.fqdn = q.src.fqdn
      /\ q.kind = "renew" => q.fqdn = q.src.fqdn
  BY DEF Sourced
<1>2. q.src.id \in Nat
  BY <1>1 DEF Row
<1>3. ASSUME NEW r \in new, r.id = q.src.id
      PROVE  r.fqdn = q.src.fqdn
  <2>1. ~(r.id >= n)
    BY <1>1, <1>2, <1>3
  <2>2. PICK t \in old : FromRow(r, t)
    BY <2>1 DEF Grown
  <2> QED
    BY <1>1, <1>3, <2>2 DEF FromRow
<1> QED
  BY <1>1, <1>2, <1>3

\* The rows a replacement issues again have an id each.
LEMMA ReissuedIds ==
    ASSUME NEW rows, NEW n, RowsType(rows, n), SameName(rows), NEW first \in Nat, NEW ca \in Nat
    PROVE  /\ \A x \in Reissued(rows, first, ca) : x.id \in Nat /\ x.id >= first
           /\ SameName(Reissued(rows, first, ca))
<1>1. IsFiniteSet(rows) /\ \A r \in rows : r.id \in Nat
  BY DEF RowsType, Row
<1>2. \A r \in rows : RankIn(r, rows) \in Nat
  <2> TAKE r \in rows
  <2> DEFINE below == {x \in rows : x.id < r.id}
  <2>1. IsFiniteSet(below)
    BY <1>1, FS_Subset
  <2> HIDE DEF below
  <2>2. Cardinality(below) \in Nat
    BY <2>1, FS_CardinalityType
  <2> QED
    BY <2>2 DEF RankIn, below
<1>3. ASSUME NEW r \in rows, NEW t \in rows, r.id < t.id
      PROVE  RankIn(r, rows) < RankIn(t, rows)
  <2> DEFINE a == {x \in rows : x.id < r.id}
             b == {x \in rows : x.id < t.id}
  <2>1. IsFiniteSet(b)
    BY <1>1, FS_Subset
  <2>2. a \subseteq b /\ r \in b /\ r \notin a
    BY <1>1, <1>3
  <2> HIDE DEF a, b
  <2>3. a # b
    BY <2>2
  <2>4. IsFiniteSet(a) /\ Cardinality(a) <= Cardinality(b) /\ (Cardinality(a) = Cardinality(b) => a = b)
    BY <2>1, <2>2, FS_Subset
  <2>5. Cardinality(a) \in Nat /\ Cardinality(b) \in Nat
    BY <2>1, <2>4, FS_CardinalityType
  <2>6. Cardinality(a) < Cardinality(b)
    BY <2>3, <2>4, <2>5
  <2> QED
    BY <2>6 DEF RankIn, a, b
<1>4. ASSUME NEW r \in rows, NEW t \in rows, RankIn(r, rows) = RankIn(t, rows)
      PROVE  r.fqdn = t.fqdn
  <2>1. ~(r.id < t.id) /\ ~(t.id < r.id)
    BY <1>2, <1>3, <1>4
  <2>2. r.id = t.id
    BY <1>1, <2>1
  <2> QED
    BY <2>2 DEF SameName
<1>5. \A x \in Reissued(rows, first, ca) :
         \E r \in rows : x.id = first + RankIn(r, rows) /\ x.fqdn = r.fqdn
  BY DEF Reissued, Issued
<1>6. \A x \in Reissued(rows, first, ca) : x.id \in Nat /\ x.id >= first
  BY <1>2, <1>5
<1>7. ASSUME NEW x \in Reissued(rows, first, ca), NEW y \in Reissued(rows, first, ca), x.id = y.id
      PROVE  x.fqdn = y.fqdn
  <2>1. PICK r \in rows : x.id = first + RankIn(r, rows) /\ x.fqdn = r.fqdn
    BY <1>5
  <2>2. PICK t \in rows : y.id = first + RankIn(t, rows) /\ y.fqdn = t.fqdn
    BY <1>5
  <2>3. RankIn(r, rows) \in Nat /\ RankIn(t, rows) \in Nat
    BY <1>2
  <2>4. RankIn(r, rows) = RankIn(t, rows)
    <3> DEFINE a == RankIn(r, rows)
               b == RankIn(t, rows)
    <3>1. first + a = first + b /\ a \in Nat /\ b \in Nat
      BY <1>7, <2>1, <2>2, <2>3
    <3> HIDE DEF a, b
    <3>2. a = b
      BY <3>1
    <3> QED
      BY <3>2 DEF a, b
  <2> QED
    BY <1>4, <2>1, <2>2, <2>4
<1> QED
  BY <1>6, <1>7 DEF SameName

\* Issued one name each, the rows are as many as before, and their ids end there.
LEMMA ReissuedCount ==
    ASSUME NEW rows, NEW n, RowsType(rows, n), NEW first \in Nat, NEW ca \in Nat,
           \A r, t \in rows : r.fqdn = t.fqdn => r = t
    PROVE  Cardinality(Reissued(rows, first, ca)) = Cardinality(rows)
<1> DEFINE f == [r \in rows |-> Issued(first + RankIn(r, rows), r.fqdn, ca)]
           S == Reissued(rows, first, ca)
<1>1. S = {f[r] : r \in rows}
  BY DEF Reissued
<1>2. \A r, t \in rows : f[r] = f[t] => r = t
  <2> SUFFICES ASSUME NEW r \in rows, NEW t \in rows, f[r] = f[t]
               PROVE  r = t
    OBVIOUS
  <2>1. f[r].fqdn = r.fqdn /\ f[t].fqdn = t.fqdn
    BY DEF Issued
  <2> QED
    BY <2>1
<1> HIDE DEF S
<1>3. f \in [rows -> S]
  BY <1>1
<1> HIDE DEF f
<1>4. f \in Bijection(rows, S)
  BY <1>1, <1>2, <1>3 DEF Bijection, Injection, Surjection, IsInjective
<1>5. IsFiniteSet(rows)
  BY DEF RowsType
<1> QED
  BY <1>4, <1>5, FS_Bijection DEF S, ExistsBijection

\* Of the rows a transaction leaves: their names, and their ids.
Named == /\ SameName(certs') /\ Grown(certs', certs, nextCert)
         /\ nextCert' \in Nat /\ nextCert <= nextCert'

LEMMA NamesMoved ==
    ASSUME IInv, NameInv, Named, NEW s \in Request, NEW q, req' = [req EXCEPT ![s] = q],
           Sourced(certs', nextCert', q)
    PROVE  NameInv'
<1>1. ASSUME NEW t \in Request
      PROVE  Sourced(certs', nextCert', req'[t])
  <2>1. req'[t] = IF t = s THEN q ELSE req[t]
    BY DEF IInv, TypeInv
  <2>2. Sourced(certs, nextCert, req[t])
    BY DEF NameInv
  <2>3. nextCert \in Nat
    BY DEF IInv, TypeInv
  <2>4. Sourced(certs', nextCert', req[t])
    BY <2>2, <2>3, SourcedKeeps DEF Named
  <2> QED
    BY <2>1, <2>4
<1> QED
  BY <1>1 DEF NameInv, Named

\* A request that ends knows nothing any more.
LEMMA NamesEnded ==
    ASSUME IInv, NameInv, Named, NEW s \in Request, NEW a, Ended(s, a)
    PROVE  NameInv'
<1>1. Sourced(certs', nextCert', Idle)
  BY DEF Sourced, Idle
<1> QED
  BY <1>1, NamesMoved DEF Ended

LEMMA NamesUntouched ==
    ASSUME IInv, NameInv, UNCHANGED <<certs, nextCert>>
    PROVE  Named
<1>1. Fewer(certs, certs) /\ RowsType(certs, nextCert) /\ SameName(certs)
  BY DEF Fewer, FromRow, IInv, TypeInv, NameInv
<1> QED
  BY <1>1, FewerGrown DEF Named, IInv, TypeInv

\* A read, other than that of the row, learns no row.
LEMMA NamesGone ==
    ASSUME IInv, NameInv, NEW s \in Request, NEW x, req' = [req EXCEPT ![s] = x],
           UNCHANGED <<certs, nextCert>>, req[s].pc \notin {"idle", "row"},
           x.kind = req[s].kind, x.src = req[s].src, x.fqdn = req[s].fqdn
    PROVE  NameInv'
<1>1. Sourced(certs, nextCert, req[s])
  BY DEF NameInv
<1>2. Sourced(certs', nextCert', x)
  BY <1>1 DEF Sourced
<1> QED
  BY <1>2, NamesUntouched, NamesMoved

LEMMA ReadNames ==
    ASSUME IInv, NameInv, NEW s \in Request, ReadStep(s)
    PROVE  NameInv' /\ certs' = certs
<1>1. UNCHANGED <<certs, nextCert>>
  BY DEF ReadStep, ReadRow, ReadRival, ReadCurrent, ReadPrevious, ReadStale, ReadOutgoing,
         ReadCount, ReadRoot, ReadRootPrevious, ReadLeaves, Refuse, Read, storeVars
<1>2. Named
  BY <1>1, NamesUntouched
<1>3. CASE \E a \in Answers : Refuse(s, a)
  BY <1>1, <1>2, <1>3, NamesEnded DEF Refuse
<1>4. CASE ReadRow(s) /\ ~\E a \in Answers : Refuse(s, a)
  <2>1. PICK r \in certs :
           /\ r.id = req[s].id
           /\ \E pc \in {"rival", "current"} :
                 Goto(s, [req[s] EXCEPT !.src = r, !.fqdn = IF req[s].kind = "renew" THEN r.fqdn ELSE @], pc)
    BY <1>4 DEF ReadRow, Answers
  <2>2. PICK pc \in {"rival", "current"} :
           Goto(s, [req[s] EXCEPT !.src = r, !.fqdn = IF req[s].kind = "renew" THEN r.fqdn ELSE @], pc)
    BY <2>1
  <2>3. PICK x : x = [[req[s] EXCEPT !.src = r, !.fqdn = IF req[s].kind = "renew" THEN r.fqdn ELSE @]
                         EXCEPT !.pc = pc]
    OBVIOUS
  <2>4. req[s] \in Req /\ r \in Row /\ r.id < nextCert
    BY DEF IInv, TypeInv, RowsType
  <2>5. x.src = r /\ x.kind = req[s].kind /\ (req[s].kind = "renew" => x.fqdn = r.fqdn)
    BY <2>3, <2>4 DEF Req
  <2>6. \A t \in certs : t.id = r.id => t.fqdn = r.fqdn
    BY DEF NameInv, SameName
  <2>7. Sourced(certs', nextCert', x)
    BY <1>1, <2>4, <2>5, <2>6 DEF Sourced
  <2> QED
    BY <1>1, <1>2, <2>2, <2>3, <2>7, NamesMoved DEF Goto
<1>5. CASE ~ReadRow(s) /\ ~\E a \in Answers : Refuse(s, a)
  <2> DEFINE SameRow(x) == x.kind = req[s].kind /\ x.src = req[s].src /\ x.fqdn = req[s].fqdn
  <2>1. /\ req[s] \in Req
        /\ \A pc : SameRow([req[s] EXCEPT !.pc = pc])
        /\ \A v, pc : /\ SameRow([[req[s] EXCEPT !.cur = v] EXCEPT !.pc = pc])
                      /\ SameRow([[req[s] EXCEPT !.prev = v] EXCEPT !.pc = pc])
                      /\ SameRow([[req[s] EXCEPT !.old = v] EXCEPT !.pc = pc])
                      /\ SameRow([[req[s] EXCEPT !.p3 = v] EXCEPT !.pc = pc])
                      /\ SameRow([[req[s] EXCEPT !.leaves = v] EXCEPT !.pc = pc])
    BY DEF IInv, TypeInv, Req
  <2> HIDE DEF SameRow
  <2>2. ReadRival(s) \/ ReadCurrent(s) \/ ReadPrevious(s) \/ ReadStale(s) \/ ReadOutgoing(s)
        \/ ReadCount(s) \/ ReadRoot(s) \/ ReadRootPrevious(s) \/ ReadLeaves(s)
    BY <1>5 DEF ReadStep
  <2>3. req[s].pc \notin {"idle", "row"}
    BY <2>2 DEF At, ReadRival, ReadCurrent, ReadPrevious, ReadStale, ReadOutgoing,
               ReadCount, ReadRoot, ReadRootPrevious, ReadLeaves
  <2>4. \E x : SameRow(x) /\ req' = [req EXCEPT ![s] = x]
    <3>1. CASE ReadRival(s) \/ ReadCount(s) \/ ReadRoot(s) \/ ReadRootPrevious(s)
      BY <1>5, <2>1, <3>1 DEF ReadRival, ReadCount, ReadRoot, ReadRootPrevious, Goto, Answers
    <3>2. CASE ReadCurrent(s)
      BY <1>5, <2>1, <3>2 DEF ReadCurrent, Goto, Answers
    <3>3. CASE ReadPrevious(s)
      BY <1>5, <2>1, <3>3 DEF ReadPrevious, Goto, Answers
    <3>4. CASE ReadStale(s) \/ ReadOutgoing(s) \/ ReadLeaves(s)
      BY <1>5, <2>1, <3>4 DEF ReadStale, ReadOutgoing, ReadLeaves, Goto, Answers
    <3> QED
      BY <2>2, <3>1, <3>2, <3>3, <3>4
  <2> QED
    BY <1>1, <2>3, <2>4, NamesGone DEF SameRow
<1> QED
  BY <1>1, <1>3, <1>4, <1>5

\* What NoNameLost asks of a step of request s.
Excused(s, f) ==
    \/ Writes(s, {"delete"}) /\ \E r \in ActiveFor(certs, f) : r.id = req[s].id
    \/ Writes(s, {"edit"}) /\ req[s].src.fqdn = f /\ req[s].fqdn # f
    \/ /\ Writes(s, {"replace"}) /\ \E r \in ActiveFor(certs, f) :
             \/ req[s].existing = "delete" /\ r \in req[s].p3
             \/ req[s].stale = "delete" /\ r \in req[s].old

Keeps(s) == \A f \in Fqdn : ActiveFor(certs, f) # {} /\ ActiveFor(certs', f) = {} => Excused(s, f)

LEMMA KeepsUntouched == ASSUME NEW s, certs' = certs PROVE Keeps(s)
BY DEF Keeps

LEMMA EndedWrites ==
    ASSUME IInv, NEW s \in Request, NEW kind, Commits(s, {kind}), Ended(s, "ok")
    PROVE  Writes(s, {kind})
<1>1. req'[s].pc = "idle" /\ answer'[s] = "ok"
  BY DEF IInv, TypeInv, Ended, Idle
<1> QED
  BY <1>1 DEF Writes, Commits, At

\* An authority that goes because nothing needs it takes no active row along.
LEMMA DropUnusedActive ==
    ASSUME NEW cs, NEW rows, NEW m \in Nat \ {0}, NEW n, CasType(cs, m), RowsType(rows, n),
           OneOfARole(cs)
    PROVE  LET left == DropUnused([cas |-> cs, certs |-> rows]).certs
           IN Active(left) = Active(rows) /\ Fewer(left, rows)
<1> DEFINE db == DropUnused([cas |-> cs, certs |-> rows])
<1>1. CASE \E p \in DOMAIN cs : cs[p] = "previous" /\ ActiveUnder(rows, p) = {}
  <2>1. PICK p \in DOMAIN cs : cs[p] = "previous"
    BY <1>1
  <2>2. Previous(cs) = p
    BY <2>1, HolderIs DEF Previous
  <2>3. p \in Nat \ {0}
    BY <2>1 DEF CasType
  <2>4. db.certs = LeavesOf(rows, p)
    BY <1>1, <2>2 DEF DropUnused, Retired
  <2> HIDE DEF db
  <2>5. Active(LeavesOf(rows, p)) = Active(rows) /\ Fewer(LeavesOf(rows, p), rows)
    BY <2>3, LeavesOfFewer
  <2> QED
    BY <2>4, <2>5 DEF db
<1>2. CASE ~\E p \in DOMAIN cs : cs[p] = "previous" /\ ActiveUnder(rows, p) = {}
  <2>1. db.certs = rows
    BY <1>2 DEF DropUnused
  <2> QED
    BY <2>1 DEF Fewer, FromRow
<1> QED
  BY <1>1, <1>2

\* What is left of fewer rows is fewer.
LEMMA FewerAgain ==
    ASSUME NEW a, NEW b, NEW c, Fewer(a, b), Fewer(b, c)
    PROVE  Fewer(a, c)
BY DEF Fewer, FromRow

LEMMA DeleteNames ==
    ASSUME IInv, NameInv, NEW s \in Request, CommitDelete(s)
    PROVE  Named /\ Keeps(s) /\ \E a : Ended(s, a)
<1>1. CASE Refuse(s, "refused")
  BY <1>1, NamesUntouched, KeepsUntouched DEF Refuse, storeVars
<1>2. CASE ~Refuse(s, "refused")
  <2> DEFINE left == {r \in certs : r.id # req[s].id}
  <2>1. /\ certs' = DropUnused([cas |-> cas, certs |-> left]).certs
        /\ Ended(s, "ok") /\ nextCert' = nextCert /\ Commits(s, {"delete"})
    BY <1>2 DEF CommitDelete, Written
  <2>2. Fewer(left, certs) /\ RowsType(left, nextCert)
    BY Facts, FS_Subset DEF RowsType, Fewer, FromRow
  <2>3. \A r \in Active(certs) : r \in Active(left) \/ r.id = req[s].id
    BY DEF Active
  <2> HIDE DEF left
  <2>4. Active(certs') = Active(left) /\ Fewer(certs', left)
    BY <2>1, <2>2, Facts, DropUnusedActive
  <2>5. Named
    BY <2>1, <2>2, <2>4, Facts, FewerAgain, FewerGrown DEF Named, NameInv
  <2>6. Keeps(s)
    <3> SUFFICES ASSUME NEW f \in Fqdn, NEW r \in ActiveFor(certs, f), ActiveFor(certs', f) = {}
                 PROVE  Excused(s, f)
      BY DEF Keeps
    <3>1. r \in Active(certs) /\ r \notin Active(certs')
      BY DEF ActiveFor
    <3>2. r.id = req[s].id
      BY <2>3, <2>4, <3>1
    <3> QED
      BY <2>1, <3>2, EndedWrites DEF Excused
  <2> QED
    BY <2>1, <2>5, <2>6
<1> QED
  BY <1>1, <1>2

LEMMA ImportNames ==
    ASSUME IInv, NameInv, NEW s \in Request, CommitImport(s)
    PROVE  Named /\ Keeps(s) /\ \E a : Ended(s, a)
<1>1. CASE \E a \in {"conflict", "refused"} : Refuse(s, a)
  BY <1>1, NamesUntouched, KeepsUntouched DEF Refuse, storeVars
<1>2. CASE ~\E a \in {"conflict", "refused"} : Refuse(s, a)
  <2> DEFINE q == req[s]
             rowsOf(number) == {Imported(l, number[l], q) : l \in q.leaves}
             size == Cardinality(q.leaves)
  <2>1. PICK number \in Numbered(q.leaves) :
           certs' = certs \cup rowsOf(number) /\ nextCert' = nextCert + size /\ Ended(s, "ok")
    BY <1>2 DEF CommitImport
  <2>2. q.leaves \subseteq Leaf /\ IsFiniteSet(q.leaves) /\ size \in Nat
    BY Facts, StoreAssumption, FS_Subset, FS_CardinalityType DEF Req, StoreAssumption
  <2>3. \A l \in q.leaves : number[l] \in Nat /\ number[l] >= nextCert
    BY <2>2, Facts DEF Numbered
  <2>4. \A l, m \in q.leaves : number[l] = number[m] => l = m
    BY DEF Numbered
  <2>5. \A x \in rowsOf(number) : \E l \in q.leaves : x.id = number[l] /\ x.fqdn = Legacy[l].fqdn
    BY DEF Imported
  <2> DEFINE rows == rowsOf(number)
  <2>6. certs' = certs \cup rows
    BY <2>1
  <2> HIDE DEF rows
  <2>7. SameName(rows) /\ \A x \in rows : x.id \in Nat /\ x.id >= nextCert
    BY <2>3, <2>4, <2>5 DEF SameName, rows
  <2>8. Fewer(certs, certs)
    BY DEF Fewer, FromRow
  <2>9. SameName(certs') /\ Grown(certs', certs, nextCert)
    BY <2>6, <2>7, <2>8, Facts, FreshGrown DEF NameInv
  <2>10. nextCert' \in Nat /\ nextCert <= nextCert'
    BY <2>1, <2>2, Facts
  <2>11. Keeps(s)
    BY <2>6 DEF Keeps, ActiveFor, Active
  <2> QED
    BY <2>1, <2>9, <2>10, <2>11 DEF Named
<1> QED
  BY <1>1, <1>2

\* What Renew and Edit archive is of the name they issue, or of the row they rename.
LEMMA SupersedingNames ==
    ASSUME IInv, NameInv, NEW s \in Request, Commits(s, {"generate", "renew", "edit"}),
           NEW r \in Active(certs), r \notin Superseding(req[s])
    PROVE  \/ r.fqdn = req[s].fqdn
           \/ req[s].kind = "edit" /\ req[s].src.fqdn = r.fqdn
<1> DEFINE q == req[s]
<1>1. q.kind # "generate"
  BY DEF Superseding, Active
<1>2. q.kind \in {"renew", "edit"} /\ q.pc = "commit"
  BY <1>1 DEF Commits, At
<1>3. CASE q.src.fqdn = q.fqdn
  <2>1. Superseding(q) = ArchiveFor(certs, {q.fqdn})
    BY <1>1, <1>3 DEF Superseding
  <2> QED
    BY <2>1 DEF ArchiveFor, Active
<1>4. CASE q.src.fqdn # q.fqdn
  <2>1. Superseding(q) = ArchiveId(certs, q.src.id) \/ Superseding(q) = certs
    BY <1>1, <1>4 DEF Superseding
  <2>2. r \in certs /\ r.id = q.src.id
    BY <2>1 DEF ArchiveId, Active
  <2>3. Sourced(certs, nextCert, q)
    BY DEF NameInv
  <2> HIDE DEF q
  <2> QED
    BY <1>2, <1>4, <2>2, <2>3 DEF Sourced, q
<1> QED
  BY <1>3, <1>4

LEMMA IssueNames ==
    ASSUME IInv, NameInv, NEW s \in Request, CommitIssue(s)
    PROVE  Named /\ Keeps(s) /\ \E a : Ended(s, a)
<1>1. CASE \E a \in {"conflict", "refused"} : Refuse(s, a)
  BY <1>1, NamesUntouched, KeepsUntouched DEF Refuse, storeVars
<1>2. CASE ~\E a \in {"conflict", "refused"} : Refuse(s, a)
  <2> DEFINE q == req[s]
             left == Superseding(q)
             new == Issued(nextCert, q.fqdn, q.cur)
             rows == left \cup {new}
  <2>1. /\ certs' = DropUnused([cas |-> cas, certs |-> rows]).certs \/ certs' = rows
        /\ Ended(s, "ok") /\ nextCert' = nextCert + 1
        /\ Commits(s, {"generate", "renew", "edit"})
    BY <1>2 DEF CommitIssue, Written
  <2>2. Fewer(left, certs) /\ RowsType(left, nextCert)
    BY SupersedingFewer
  <2>3. /\ new.id = nextCert /\ new.fqdn = q.fqdn /\ new.status = "active"
        /\ new \in Row /\ nextCert \in Nat
    BY Facts DEF Issued, Row, Statuses, Req
  <2> HIDE DEF left, new
  <2>4. RowsType(rows, nextCert + 1)
    <3>1. IsFiniteSet(rows)
      BY <2>2, FS_AddElement DEF RowsType
    <3>2. RowsType(left, nextCert + 1)
      BY <2>2, <2>3, RowsTypeGrows
    <3> QED
      BY <2>3, <3>1, <3>2 DEF RowsType
  <2>5. SameName(rows) /\ Grown(rows, certs, nextCert)
    <3>1. SameName({new}) /\ \A x \in {new} : x.id \in Nat /\ x.id >= nextCert
      BY <2>3 DEF SameName
    <3> QED
      BY <2>2, <3>1, Facts, FreshGrown DEF NameInv
  <2> HIDE DEF rows
  <2>6. Active(certs') = Active(rows) /\ Fewer(certs', rows)
    <3>1. /\ Active(DropUnused([cas |-> cas, certs |-> rows]).certs) = Active(rows)
          /\ Fewer(DropUnused([cas |-> cas, certs |-> rows]).certs, rows)
      BY <2>4, Facts, DropUnusedActive
    <3>2. Fewer(rows, rows)
      BY DEF Fewer, FromRow
    <3> QED
      BY <2>1, <3>1, <3>2
  <2>7. Named
    <3>1. SameName(certs')
      BY <2>5, <2>6 DEF Fewer, FromRow, SameName
    <3>2. Grown(certs', certs, nextCert)
      BY <2>5, <2>6 DEF Fewer, FromRow, Grown
    <3> QED
      BY <2>1, <2>3, <3>1, <3>2 DEF Named
  <2>8. Keeps(s)
    <3> SUFFICES ASSUME NEW f \in Fqdn, NEW r \in ActiveFor(certs, f), ActiveFor(certs', f) = {}
                 PROVE  Excused(s, f)
      BY DEF Keeps
    <3>1. r \in Active(certs) /\ r.fqdn = f /\ r \notin Active(rows) /\ new \notin ActiveFor(certs', f)
      BY <2>6 DEF ActiveFor
    <3>2. f # q.fqdn
      BY <2>3, <2>6, <3>1 DEF ActiveFor, Active, rows
    <3>3. r \notin left
      BY <3>1 DEF Active, rows
    <3>4. q.kind = "edit" /\ q.src.fqdn = f
      BY <2>1, <3>1, <3>2, <3>3, SupersedingNames DEF left
    <3>5. Writes(s, {"edit"})
      BY <2>1, <3>4, EndedWrites DEF Commits
    <3> QED
      BY <3>2, <3>4, <3>5 DEF Excused
  <2> QED
    BY <2>1, <2>7, <2>8
<1> QED
  BY <1>1, <1>2

\* The rows a replacement read are still there once the previous authority has
\* gone with its own.
LEMMA RetiringLeaves ==
    ASSUME IInv, NEW s \in Request, Commits(s, {"replace"}), Refusal(req[s]) = "none"
    PROVE  req[s].p3 \subseteq Active(Retiring(req[s]).certs)
<1> DEFINE q == req[s]
           left == CASE q.stale = "delete" -> certs \ q.old
                     [] q.stale = "reissue" -> {IF r \in q.old THEN Archived(r) ELSE r : r \in certs}
                     [] q.stale = "keep" -> certs
<1>1. /\ Active(certs) = q.p3 \cup q.old /\ q.p3 \cap q.old = {}
      /\ q.prev \in Nat /\ q.stale \in Choices
  BY ReplaceInformed, Facts DEF Req
<1>2. q.p3 \subseteq left
  <2> SUFFICES ASSUME NEW r \in q.p3 PROVE r \in left
    OBVIOUS
  <2>1. r \in certs /\ r \notin q.old
    BY <1>1 DEF Active
  <2> QED
    BY <1>1, <2>1 DEF Choices
<1>3. q.p3 \subseteq Active(left)
  <2> HIDE DEF left
  <2> QED
    BY <1>1, <1>2 DEF Active
<1>4. CASE q.prev = 0
  <2>1. Retiring(q).certs = left
    BY <1>4 DEF Retiring
  <2> QED
    BY <1>3, <2>1
<1>5. CASE q.prev # 0
  <2>1. Retiring(q).certs = LeavesOf(left, q.prev)
    BY <1>5 DEF Retiring, Retired
  <2> HIDE DEF left
  <2>2. Active(left) \subseteq Active(LeavesOf(left, q.prev))
    BY DEF LeavesOf, Active
  <2> QED
    BY <1>3, <2>1, <2>2
<1> QED
  BY <1>4, <1>5

\* What is issued again has ids of its own, up to where the next ones begin.
LEMMA AgainIds ==
    ASSUME NEW choice, NEW rows, NEW n, RowsType(rows, n), SameName(rows), NEW first \in Nat,
           nextCA \in Nat, \A r, t \in rows : r.fqdn = t.fqdn => r = t
    PROVE  LET again == Again(choice, rows, first)
           IN /\ SameName(again) /\ Cardinality(again) \in Nat
              /\ \A x \in again : x.id \in first..(first + Cardinality(again) - 1)
              /\ choice = "reissue" => \A r \in rows : ActiveFor(again, r.fqdn) # {}
<1>1. CASE choice = "reissue"
  <2> DEFINE again == Reissued(rows, first, nextCA)
  <2>1. Again(choice, rows, first) = again
    BY <1>1 DEF Again
  <2>2. \A r \in rows : Issued(first + RankIn(r, rows), r.fqdn, nextCA) \in ActiveFor(again, r.fqdn)
    BY DEF Reissued, Issued, ActiveFor, Active
  <2> HIDE DEF again
  <2>3. SameName(again) /\ \A x \in again : x.id \in Nat /\ x.id >= first
    BY ReissuedIds DEF again
  <2>4. Cardinality(again) = Cardinality(rows)
    BY ReissuedCount DEF again
  <2>5. Cardinality(rows) \in Nat /\ \A x \in again : x.id < first + Cardinality(rows)
    <3>1. RowsType(again, first + Cardinality(rows)) /\ Cardinality(rows) \in Nat
      BY ReissuedRows DEF again
    <3> QED
      BY <3>1 DEF RowsType
  <2>6. \A x \in again : x.id \in first..(first + Cardinality(again) - 1)
    BY <2>3, <2>4, <2>5
  <2> QED
    BY <2>1, <2>2, <2>3, <2>4, <2>5, <2>6
<1>2. CASE choice # "reissue"
  BY <1>2, FS_EmptySet DEF Again, SameName
<1> QED
  BY <1>1, <1>2

LEMMA ReplaceNames ==
    ASSUME IInv, NameInv, NEW s \in Request, CommitReplace(s)
    PROVE  Named /\ Keeps(s) /\ \E a : Ended(s, a)
<1> DEFINE q == req[s]
<1>1. CASE Refusal(q) # "none"
  BY <1>1, NamesUntouched, KeepsUntouched DEF CommitReplace, Refuse, storeVars
<1>2. CASE Refusal(q) = "none"
  <2> DEFINE left == Retiring(q).certs
             kept == Chosen(q, left)
             fresh == Again(q.stale, q.old, nextCert)
             again == Again(q.existing, q.p3, nextCert + Cardinality(fresh))
             db == Replaced(q)
             more == (IF q.stale = "reissue" THEN Cardinality(q.old) ELSE 0)
                        + (IF q.existing = "reissue" THEN Cardinality(q.p3) ELSE 0)
  <2>1. Commits(s, {"replace"}) /\ Ended(s, "ok")
        /\ certs' = DropUnused([cas |-> db.cas, certs |-> db.certs]).certs
    BY <1>2 DEF CommitReplace, Written, Replaced
  <2>2. db.certs = kept \cup fresh \cup again
    BY DEF Replaced
  <2>3. /\ q \in Req /\ Active(certs) = q.p3 \cup q.old /\ q.p3 \cap q.old = {}
        /\ nextCert \in Nat /\ nextCA \in Nat /\ RowsType(certs, nextCert) /\ SameName(certs)
        /\ q.old # {} => q.stale # "keep"
    BY <1>2, <2>1, ReplaceInformed, Facts DEF Informed, NameInv
  <2>4. Fewer(left, certs) /\ RowsType(left, nextCert) /\ Active(left) \subseteq q.p3
    BY <1>2, <2>1, RetiringKeeps
  <2>5. q.p3 \subseteq Active(left)
    BY <1>2, <2>1, RetiringLeaves
  <2>6. /\ more \in Nat /\ nextCA + 1 \in Nat \ {0} /\ CasType(db.cas, nextCA + 1)
        /\ RowsType(db.certs, nextCert + more) /\ OneOfARole(db.cas)
    BY <1>2, <2>1, <2>3, ReplacedGood DEF GoodStore
  <2>7. nextCert' \in Nat /\ nextCert <= nextCert'
    <3> DEFINE a == IF q.stale = "reissue" THEN Cardinality(q.old) ELSE 0
               b == IF q.existing = "reissue" THEN Cardinality(q.p3) ELSE 0
    <3>1. nextCert' = nextCert + a + b
      BY <1>2 DEF CommitReplace
    <3>2. IsFiniteSet(q.p3) /\ IsFiniteSet(q.old)
      BY <2>3, FS_Subset DEF RowsType, Active
    <3>3. a \in Nat /\ b \in Nat
      BY <3>2, FS_CardinalityType
    <3> QED
      BY <2>3, <3>1, <3>3
  <2> HIDE DEF q, left
  <2>8. Fewer(kept, certs)
    BY <2>3, <2>4, ChosenFewer, FewerAgain
  <2>9. /\ RowsType(q.p3, nextCert) /\ RowsType(q.old, nextCert)
        /\ SameName(q.p3) /\ SameName(q.old)
        /\ \A r, t \in q.p3 : r.fqdn = t.fqdn => r = t
        /\ \A r, t \in q.old : r.fqdn = t.fqdn => r = t
    <3>1. q.p3 \subseteq Active(certs) /\ q.old \subseteq Active(certs) /\ Active(certs) \subseteq certs
      BY <2>3 DEF Active
    <3>2. \A r, t \in Active(certs) : r.fqdn = t.fqdn => r = t
      BY DEF IInv, GoodStore, OneActive
    <3>3. RowsType(q.p3, nextCert) /\ RowsType(q.old, nextCert)
      BY <2>3, <3>1, FS_Subset DEF RowsType
    <3> QED
      BY <2>3, <3>1, <3>2, <3>3 DEF SameName
  <2>10. /\ SameName(fresh) /\ Cardinality(fresh) \in Nat
         /\ \A x \in fresh : x.id \in nextCert..(nextCert + Cardinality(fresh) - 1)
         /\ q.stale = "reissue" => \A r \in q.old : ActiveFor(fresh, r.fqdn) # {}
    BY <2>3, <2>9, AgainIds
  <2> HIDE DEF fresh
  <2> DEFINE first == nextCert + Cardinality(fresh)
  <2>11. /\ SameName(again) /\ Cardinality(again) \in Nat
         /\ \A x \in again : x.id \in first..(first + Cardinality(again) - 1)
         /\ q.existing = "reissue" => \A r \in q.p3 : ActiveFor(again, r.fqdn) # {}
    <3>1. first \in Nat
      BY <2>3, <2>10
    <3> HIDE DEF first
    <3>2. again = Again(q.existing, q.p3, first)
      BY DEF first
    <3> QED
      BY <2>3, <2>9, <3>1, <3>2, AgainIds
  <2> HIDE DEF again, kept
  <2>12. SameName(fresh \cup again) /\ \A x \in fresh \cup again : x.id \in Nat /\ x.id >= nextCert
    <3>1. \A x \in fresh : x.id \in Nat /\ x.id >= nextCert /\ x.id < first
      BY <2>3, <2>10
    <3>2. \A x \in again : x.id \in Nat /\ x.id >= nextCert /\ ~(x.id < first)
      BY <2>3, <2>10, <2>11
    <3>3. \A x \in fresh, y \in again : x.id # y.id
      BY <3>1, <3>2
    <3> HIDE DEF first
    <3> QED
      BY <2>10, <2>11, <3>1, <3>2, <3>3 DEF SameName
  <2>13. SameName(db.certs) /\ Grown(db.certs, certs, nextCert)
    <3> DEFINE new == fresh \cup again
    <3>1. db.certs = kept \cup new
      BY <2>2
    <3>2. SameName(new) /\ \A x \in new : x.id \in Nat /\ x.id >= nextCert
      BY <2>12
    <3> HIDE DEF db, new
    <3>3. SameName(kept \cup new) /\ Grown(kept \cup new, certs, nextCert)
      BY <2>3, <2>8, <3>2, FreshGrown
    <3> QED
      BY <3>1, <3>3
  <2> HIDE DEF db, more
  <2>14. Active(certs') = Active(db.certs) /\ Fewer(certs', db.certs)
    BY <2>1, <2>6, DropUnusedActive
  <2>15. Named
    <3>1. SameName(certs')
      BY <2>13, <2>14 DEF Fewer, FromRow, SameName
    <3>2. Grown(certs', certs, nextCert)
      BY <2>13, <2>14 DEF Fewer, FromRow, Grown
    <3> QED
      BY <2>7, <3>1, <3>2 DEF Named
  <2>16. Keeps(s)
    <3> SUFFICES ASSUME NEW f \in Fqdn, NEW r \in ActiveFor(certs, f), ActiveFor(certs', f) = {}
                 PROVE  Excused(s, f)
      BY DEF Keeps
    <3>1. Writes(s, {"replace"})
      BY <2>1, EndedWrites
    <3>2. r \in Active(certs) /\ r.fqdn = f
      BY DEF ActiveFor
    <3>3. \A rows : rows \subseteq db.certs => ActiveFor(rows, f) = {}
      BY <2>14 DEF ActiveFor, Active
    <3>4. CASE r \in q.old
      <4>1. q.stale # "reissue"
        BY <2>2, <2>10, <3>2, <3>3, <3>4
      <4>2. q.stale = "delete"
        BY <2>3, <3>4, <4>1 DEF Req, Choices
      <4> QED
        BY <3>1, <3>4, <4>2 DEF Excused, q
    <3>5. CASE r \in q.p3
      <4>1. q.existing # "reissue"
        BY <2>2, <2>11, <3>2, <3>3, <3>5
      <4>2. q.existing # "keep"
        <5>1. q.existing = "keep" => kept = left
          BY DEF Chosen, kept
        <5>2. r \in ActiveFor(left, f)
          BY <2>5, <3>2, <3>5 DEF ActiveFor
        <5> QED
          BY <2>2, <3>3, <5>1, <5>2
      <4>3. q.existing = "delete"
        BY <2>3, <4>1, <4>2 DEF Req, Choices
      <4> QED
        BY <3>1, <3>5, <4>3 DEF Excused, q
    <3> QED
      BY <2>3, <3>2, <3>4, <3>5
  <2> QED
    BY <2>1, <2>15, <2>16
<1> QED
  BY <1>1, <1>2

LEMMA SwitchBackNames ==
    ASSUME IInv, NameInv, NEW s \in Request, CommitSwitchBack(s)
    PROVE  Named /\ Keeps(s) /\ \E a : Ended(s, a)
<1>1. CASE Refuse(s, "conflict")
  BY <1>1, NamesUntouched, KeepsUntouched DEF Refuse, storeVars
<1>2. CASE ~Refuse(s, "conflict")
  <2> DEFINE q == req[s]
  <2>1. /\ certs' = DropUnused([cas |-> Swapped(q), certs |-> certs]).certs
        /\ Ended(s, "ok") /\ nextCert' = nextCert
        /\ Current(cas) = q.cur /\ Previous(cas) = q.prev /\ Commits(s, {"switchBack"})
    BY <1>2 DEF CommitSwitchBack, Written
  <2>2. CasType(Swapped(q), nextCA) /\ OneOfARole(Swapped(q))
    BY <2>1, SwappedGood DEF GoodStore
  <2>3. Active(certs') = Active(certs) /\ Fewer(certs', certs)
    BY <2>1, <2>2, Facts, DropUnusedActive
  <2>4. Named
    BY <2>1, <2>3, Facts, FewerGrown DEF Named, NameInv
  <2>5. Keeps(s)
    BY <2>3 DEF Keeps, ActiveFor
  <2> QED
    BY <2>1, <2>4, <2>5
<1> QED
  BY <1>1, <1>2

LEMMA AuthorityNames ==
    ASSUME IInv, NameInv, NEW s \in Request, CommitInit(s) \/ InsertRoot(s)
    PROVE  NameInv' /\ Keeps(s)
<1>1. UNCHANGED <<certs, nextCert>>
  BY DEF CommitInit, InsertRoot, Refuse, Written, storeVars
<1>2. Named /\ Keeps(s)
  BY <1>1, NamesUntouched, KeepsUntouched
<1>3. CASE \E a : Ended(s, a)
  BY <1>2, <1>3, NamesEnded
<1>4. CASE ~\E a : Ended(s, a)
  <2> DEFINE x == [req[s] EXCEPT !.pc = "leaves"]
  <2>1. req[s].pc = "rootInsert" /\ req' = [req EXCEPT ![s] = x]
    BY <1>4 DEF CommitInit, InsertRoot, Refuse, Written, Goto, At
  <2>2. x.kind = req[s].kind /\ x.src = req[s].src /\ x.fqdn = req[s].fqdn
    BY DEF IInv, TypeInv, Req
  <2> QED
    BY <1>1, <1>2, <2>1, <2>2, NamesGone
<1> QED
  BY <1>3, <1>4

LEMMA AskNames ==
    ASSUME IInv, NameInv, NEW s \in Request, Ask(s) \/ Fail(s)
    PROVE  NameInv' /\ certs' = certs
<1>1. UNCHANGED <<certs, nextCert>>
  BY DEF Ask, Arrive, Fail, storeVars
<1>2. Named
  BY <1>1, NamesUntouched
<1>3. CASE Fail(s)
  BY <1>1, <1>2, <1>3, NamesEnded DEF Fail
<1>4. ASSUME NEW kind \in Kinds, NEW fqdn, NEW id, NEW existing, NEW stale,
             Arrive(s, kind, fqdn, id, existing, stale)
      PROVE  NameInv'
  <2> DEFINE x == [Idle EXCEPT !.pc = First(kind), !.kind = kind, !.fqdn = fqdn,
                               !.id = id, !.existing = existing, !.stale = stale]
  <2>1. req' = [req EXCEPT ![s] = x]
    BY <1>4 DEF Arrive
  <2>2. x.kind = kind /\ x.pc = First(kind)
    BY DEF Idle
  <2>3. kind \in {"renew", "edit"} => First(kind) = "row"
    BY DEF First
  <2> HIDE DEF x
  <2>4. Sourced(certs', nextCert', x)
    BY <2>2, <2>3 DEF Sourced
  <2> QED
    BY <1>2, <2>1, <2>4, NamesMoved
<1>5. CASE Ask(s)
  BY <1>1, <1>4, <1>5 DEF Ask, Kinds
<1> QED
  BY <1>1, <1>3, <1>5

\* Every step leaves each request the name of its row, and each name its active
\* row unless the request that takes the step is excused.
LEMMA NextNames ==
    ASSUME IInv, NameInv, Next
    PROVE  NameInv' /\ \E s \in Request : Keeps(s)
<1>1. PICK s \in Request : Ask(s) \/ Fail(s) \/ ReadStep(s) \/ Commit(s)
  BY DEF Next
<1>2. CASE Ask(s) \/ Fail(s) \/ ReadStep(s)
  BY <1>2, AskNames, ReadNames, KeepsUntouched
<1>3. CASE CommitInit(s) \/ InsertRoot(s)
  BY <1>3, AuthorityNames
<1>4. CASE CommitImport(s) \/ CommitIssue(s) \/ CommitDelete(s) \/ CommitReplace(s)
           \/ CommitSwitchBack(s)
  <2>1. Named /\ Keeps(s) /\ \E a : Ended(s, a)
    BY <1>4, ImportNames, IssueNames, DeleteNames, ReplaceNames, SwitchBackNames
  <2> QED
    BY <2>1, NamesEnded
<1> QED
  BY <1>1, <1>2, <1>3, <1>4 DEF Commit

LEMMA FirstNames == Init => NameInv
<1> SUFFICES ASSUME Init PROVE NameInv
  OBVIOUS
<1>1. SameName(certs)
  BY RotationAssumption DEF Init, SameName, RotationAssumption
<1>2. \A s \in Request : Sourced(certs, nextCert, req[s])
  BY DEF Init, Sourced, Idle
<1> QED
  BY <1>1, <1>2 DEF NameInv

\* A name with an active certificate has one after every transaction but the
\* deletion of its row, the edit that takes that very name away, and a replacement
\* told to delete the row: also when the row was renewed, renamed, imported or
\* issued again between a request's reads and its transaction.
THEOREM NamesAreKept == Spec => NoNameLost
<1> DEFINE Step == \A f \in Fqdn : ActiveFor(certs, f) # {} /\ ActiveFor(certs', f) = {} =>
          \E s \in Request :
             \/ Writes(s, {"delete"}) /\ \E r \in ActiveFor(certs, f) : r.id = req[s].id
             \/ Writes(s, {"edit"}) /\ req[s].src.fqdn = f /\ req[s].fqdn # f
             \/ /\ Writes(s, {"replace"}) /\ \E r \in ActiveFor(certs, f) :
                       \/ req[s].existing = "delete" /\ r \in req[s].p3
                       \/ req[s].stale = "delete" /\ r \in req[s].old
<1>1. Init => NameInv
  BY FirstNames
<1>2. IInv /\ NameInv /\ [Next]_vars => NameInv'
  <2>1. ASSUME IInv, NameInv, UNCHANGED vars
        PROVE  NameInv'
    BY <2>1 DEF vars, storeVars, NameInv, SameName, Sourced
  <2> QED
    BY <2>1, NextNames
<1>3. IInv /\ NameInv /\ [Next]_vars => [Step]_vars
  <2> SUFFICES ASSUME IInv, NameInv, Next PROVE Step
    OBVIOUS
  <2>1. PICK s \in Request : Keeps(s)
    BY NextNames
  <2> QED
    BY <2>1 DEF Keeps, Excused
<1> QED
  BY <1>1, <1>2, <1>3, RotationInvariant, PTL DEF Spec, NoNameLost
=============================================================================
