------------------------- MODULE HaproxyApplyProofs --------------------------
(***************************************************************************)
(* HaproxyApply for any certificates, any number of models, requests,      *)
(* faults and backups kept: types, and the four properties of the runs.    *)
(***************************************************************************)
EXTENDS HaproxyApply, FiniteSetTheorems, SequenceTheorems, TLAPS

Configs == {NoFile, Original} \cup Models

Backup == [kind : {"cfg"}, ts : 1..MaxRequests, orig : BOOLEAN, text : Configs]
          \cup [kind : {"crt"}, ts : 1..MaxRequests, orig : BOOLEAN, text : CrtLists]

\* The places of a request, in groups: Apply making up its candidate, nothing
\* installed yet, the files coming in, and the rollback.
Preparing == {"found", "again", "adopt", "count", "model", "crtlist", "compare"}
Staging == Preparing \cup {"validate", "list", "backup", "status", "crt"}
Rolling == {"rbcfg", "rbcrt", "rbload"}
Places == {"idle", "cfg", "load", "verify", "sweep", "remove", "done"} \cup Staging \cup Rolling
Outcomes == {"none", "applied", "rolled_back", "rollback_failed", "validation_failed",
             "needs_certs", "no_changes", "error"}

Op == [pc : Places, kind : {"none", "apply", "restore"}, cand : FileSets, before : FileSets,
       ran : FileSets, active : BOOLEAN, cfgIn : BOOLEAN, reload : BOOLEAN, todo : Seq(Backup),
       names : SUBSET Cert, gone : BOOLEAN, errs : BOOLEAN, outcome : Outcomes]

TypeInv ==
    /\ files \subseteq Cert /\ pull \subseteq Cert /\ adopting \subseteq Cert
    /\ rows \in [Cert -> Seq(Row)]
    /\ model \in Models
    /\ live \in FileSets /\ loaded \in FileSets
    /\ baks \subseteq Backup
    /\ op \in Op
    /\ requests \in 0..MaxRequests /\ faults \in 0..MaxFaults /\ pulls \in 0..MaxPulls
    /\ torn \in BOOLEAN /\ unkept \subseteq Cert

-----------------------------------------------------------------------------
\* Where the files and the process are at each place of a request.

\* What may run while the request has not touched it, and with nothing to go back
\* to.
Untouched == loaded \in {op.ran, Down}
FirstInstall == op.before.cfg = NoFile

Staged ==
    /\ op.pc \in Staging => live = op.before /\ Untouched /\ ~op.cfgIn
    /\ op.pc = "crt" /\ ~op.active => loaded = Down
    /\ op.pc \in Staging \cup Rolling \cup {"cfg", "load", "verify", "idle"} => op.outcome = "none"

Installing ==
    /\ op.pc = "cfg" => live = [op.before EXCEPT !.crt = op.cand.crt] /\ Untouched /\ ~op.cfgIn
    /\ op.pc \in {"load", "verify"} => live = op.cand /\ op.cfgIn
    /\ op.pc = "load" => Untouched
    /\ op.pc \in {"cfg", "load"} /\ ~op.active => loaded = Down
    /\ op.pc = "verify" => loaded \in {live, Down}

Applied ==
    /\ op.pc \in {"sweep", "remove"} => op.kind = "apply" /\ op.outcome = "applied"
    /\ op.outcome = "applied" => live = op.cand /\ loaded \in {live, Down}

\* A rollback of a request that is not closed has either failed or put back what
\* it has passed; what it will not reload needs no reload.
RollingBack == op.pc \in Rolling /\ ~op.gone =>
    /\ op.pc = "rbcfg" /\ ~op.cfgIn => live.cfg = op.before.cfg
    /\ op.pc = "rbcrt" /\ ~op.errs => live.cfg = op.before.cfg
    /\ op.pc = "rbload" /\ ~op.errs => live = op.before
    /\ op.reload \/ Untouched \/ FirstInstall

\* What ran before the request was live then, unless a crash had left it behind.
RanWhatWasLive ==
    op.pc # "idle" /\ ~torn => op.ran \in {op.before, Down} \/ FirstInstall

PlaceInv ==
    /\ Staged /\ Installing /\ Applied /\ RollingBack /\ RanWhatWasLive
    /\ OutcomeIsTrue /\ RunsWhatIsLive

-----------------------------------------------------------------------------
\* The certificates.

Kept(f) == Listed(f.crt) \subseteq files \cup unkept

\* No row is both in the list and superseded; but of a name with several rows one
\* may be the one and another the other.
Clean(rs) == \A c \in Cert : \A i \in DOMAIN rs[c] : rs[c][i].enabled => ~rs[c][i].superseded
Twice(rs) == {c \in Cert : Len(rs[c]) > 1}

CertInv ==
    /\ Clean(rows)
    /\ Kept(live)
    /\ op.pc \in Staging \cup Rolling \cup {"cfg", "load", "verify"} => Kept(op.before)
    /\ op.pc \in {"list", "backup", "status", "crt"} => op.cand.cfg = Original \/ Kept(op.cand)
    /\ op.pc # "idle" /\ op.kind = "apply" => Listed(op.cand.crt) \cap Superseded(rows) \subseteq unkept \cup Twice(rows)

-----------------------------------------------------------------------------
\* The backups.

\* This request's own copies, and its copy of one of the two files.
Own(q) == q \in Seq(Backup) /\ \A i \in DOMAIN q : q[i].ts = requests
Copy(b, kind) == b.kind = kind /\ ~b.orig /\ b.ts = requests /\ b.text = op.before[kind]
Coming(kind) == \E i \in DOMAIN op.todo : Copy(op.todo[i], kind)
Saved(kind) == \E b \in baks : Copy(b, kind)

BackupInv ==
    /\ \A b \in baks : b.ts <= requests
    /\ op.pc # "idle" => requests >= 1
    /\ op.pc = "backup" => /\ op.before.cfg # NoFile => Coming("cfg") \/ Saved("cfg")
                           /\ op.before.crt # NoFile => Coming("crt") \/ Saved("crt")
                           /\ Own(op.todo)
    /\ op.pc \in {"status", "crt", "cfg", "load", "verify"} \cup Rolling =>
          /\ op.before.cfg # NoFile => Saved("cfg")
          /\ op.before.crt # NoFile => Saved("crt")

IInv ==
    TypeInv /\ PlaceInv /\ CertInv /\ BackupInv

-----------------------------------------------------------------------------
\* Types.

LEMMA FileSetTypes ==
    /\ Down \in FileSets /\ NoFile \in CrtLists
    /\ \A f \in FileSets, c \in Configs : [f EXCEPT !.cfg = c] \in FileSets
    /\ \A f \in FileSets, l \in CrtLists : [f EXCEPT !.crt = l] \in FileSets
    /\ \A f \in FileSets : f.cfg \in Configs /\ f.crt \in CrtLists
    /\ \A l : Listed(l) \subseteq Cert
BY ApplyAssumption DEF ApplyAssumption, FileSets, Down, CrtLists, Listed, Configs

LEMMA IdleType == Idle \in Op
BY FileSetTypes DEF Idle, Op, Places, Outcomes

\* A driver call leaves the request with what it went on with, and counts a fault.
LEMMA CallType ==
    ASSUME TypeInv, NEW end \in Ends, NEW after \in Op, Call(end, after)
    PROVE  op' \in Op /\ faults' \in 0..MaxFaults
<1>1. (op.gone \/ end = "cut") \in BOOLEAN
  OBVIOUS
<1>2. op' \in Op
  BY <1>1 DEF Call, Op
<1>3. faults' \in 0..MaxFaults
  BY ApplyAssumption DEF Call, TypeInv, ApplyAssumption
<1> QED
  BY <1>2, <1>3

LEMMA BeginType ==
    ASSUME TypeInv, NEW kind \in {"apply", "restore"}, NEW pc \in Places, NEW cand \in FileSets,
           Begin(kind, pc, cand)
    PROVE  TypeInv'
<1>1. op' \in Op
  BY IdleType DEF Begin, TypeInv, Op
<1>2. requests' \in 0..MaxRequests
  BY ApplyAssumption DEF Begin, TypeInv, ApplyAssumption
<1> QED
  BY <1>1, <1>2 DEF Begin, TypeInv, certVars, fileVars, ghosts

\* What the operations make of the rows of certs.json.
LEMMA CrtListOfRows ==
    ASSUME NEW rs \in [Cert -> Seq(Row)]
    PROVE  /\ CrtList(rs) \in [Cert -> Nat]
           /\ \A c \in Listed(CrtList(rs)) : c \in Cert /\ Enabled(rs, c) # {}
<1>1. ASSUME NEW c \in Cert
      PROVE  Cardinality(Enabled(rs, c)) \in Nat
  <2>1. Enabled(rs, c) \subseteq 1..Len(rs[c]) /\ Len(rs[c]) \in Nat
    BY DEF Enabled
  <2>2. IsFiniteSet(1..Len(rs[c]))
    BY <2>1, FS_Interval
  <2>3. IsFiniteSet(Enabled(rs, c))
    BY <2>1, <2>2, FS_Subset
  <2> QED
    BY <2>3, FS_CardinalityType
<1>2. CrtList(rs) \in [Cert -> Nat]
  BY <1>1 DEF CrtList
<1>3. ASSUME NEW c \in Listed(CrtList(rs)) PROVE c \in Cert /\ Enabled(rs, c) # {}
  <2>1. c \in Cert /\ CrtList(rs)[c] > 0
    BY <1>3 DEF Listed
  <2>2. CrtList(rs)[c] = Cardinality(Enabled(rs, c))
    BY <2>1 DEF CrtList
  <2>3. CrtList(rs)[c] # 0
    BY <2>1
  <2>4. Enabled(rs, c) # {}
    BY <2>2, <2>3, FS_EmptySet, Zenon
  <2> QED
    BY <2>1, <2>4
<1> QED
  BY <1>2, <1>3

LEMMA AdoptedRows ==
    ASSUME NEW rs \in [Cert -> Seq(Row)], NEW names, Clean(rs)
    PROVE  /\ Adopted(rs, names) \in [Cert -> Seq(Row)] /\ Clean(Adopted(rs, names))
           /\ Superseded(Adopted(rs, names)) \subseteq Superseded(rs)
           /\ Twice(rs) \subseteq Twice(Adopted(rs, names))
<1> DEFINE new == Adopted(rs, names)
<1>1. ASSUME NEW c \in Cert
      PROVE  /\ new[c] \in Seq(Row) /\ Len(new[c]) >= Len(rs[c])
             /\ \A i \in DOMAIN new[c] :
                   (i \in DOMAIN rs[c] /\ new[c][i] = rs[c][i]) \/ ~new[c][i].superseded
  <2>1. PICK r \in Row : ~r.superseded /\ new[c] \in {rs[c], Append(rs[c], r)}
    <3> DEFINE have == \E d \in Cert : \E i \in Enabled(rs, d) : rs[d][i].pulled
               row == [enabled |-> ~(have /\ c \in Plain), superseded |-> FALSE, pulled |-> FALSE]
    <3>1. new[c] \in {rs[c], Append(rs[c], row)}
      BY DEF Adopted
    <3> HIDE DEF have, new
    <3>2. row \in Row /\ ~row.superseded
      BY DEF Row
    <3> QED
      BY <3>1, <3>2
  <2> HIDE DEF new
  <2>2. CASE new[c] = rs[c]
    BY <2>2
  <2>3. CASE new[c] = Append(rs[c], r)
    <3>1. /\ new[c] \in Seq(Row) /\ Len(new[c]) = Len(rs[c]) + 1 /\ Len(rs[c]) \in Nat
          /\ \A i \in 1..Len(rs[c]) : new[c][i] = rs[c][i]
          /\ new[c][Len(rs[c]) + 1] = r
      BY <2>3, AppendProperties
    <3>2. DOMAIN new[c] = 1..(Len(rs[c]) + 1) /\ DOMAIN rs[c] = 1..Len(rs[c])
      BY <3>1
    <3>3. ASSUME NEW i \in DOMAIN new[c]
          PROVE  (i \in DOMAIN rs[c] /\ new[c][i] = rs[c][i]) \/ ~new[c][i].superseded
      BY <2>1, <3>1, <3>2, <3>3
    <3> QED
      BY <3>1, <3>3
  <2> QED
    BY <2>1, <2>2, <2>3
<1>2. DOMAIN new = Cert /\ new = [c \in Cert |-> new[c]]
  BY DEF Adopted
<1> HIDE DEF new
<1>3. new \in [Cert -> Seq(Row)]
  BY <1>1, <1>2
<1>4. Clean(new)
  BY <1>1 DEF Clean
<1>5. Superseded(new) \subseteq Superseded(rs)
  BY <1>1 DEF Superseded
<1>6. Twice(rs) \subseteq Twice(new)
  BY <1>1 DEF Twice
<1> QED
  BY <1>3, <1>4, <1>5, <1>6 DEF new

LEMMA RowsOf ==
    ASSUME NEW s \in Seq(Row), NEW t, DOMAIN t = DOMAIN s, t = [i \in DOMAIN s |-> t[i]],
           \A i \in DOMAIN s : t[i] \in Row
    PROVE  t \in Seq(Row) /\ Len(t) = Len(s)
BY SeqDef, LenProperties

LEMMA TrackedRows ==
    ASSUME NEW rs \in [Cert -> Seq(Row)], NEW c \in Cert, Clean(rs)
    PROVE  /\ Tracked(rs, c) \in [Cert -> Seq(Row)] /\ Clean(Tracked(rs, c))
           /\ Twice(rs) \subseteq Twice(Tracked(rs, c))
<1> DEFINE new == Tracked(rs, c)
           off(r) == [r EXCEPT !.enabled = FALSE, !.superseded = TRUE]
<1>1. DOMAIN new = Cert /\ new = [d \in Cert |-> new[d]]
  BY DEF Tracked
<1>2. Pulled \in Row /\ ~Pulled.superseded
  BY DEF Pulled, Row
<1>3. ASSUME NEW d \in Cert
      PROVE  /\ new[d] \in Seq(Row) /\ Len(new[d]) >= Len(rs[d])
             /\ \A i \in DOMAIN new[d] : new[d][i].enabled => ~new[d][i].superseded
  <2>1. rs[d] \in Seq(Row) /\ Len(rs[d]) \in Nat
    OBVIOUS
  <2>2. CASE d # c
    <3>1. /\ DOMAIN new[d] = DOMAIN rs[d] /\ new[d] = [i \in DOMAIN rs[d] |-> new[d][i]]
          /\ \A i \in DOMAIN rs[d] : new[d][i] \in {rs[d][i], off(rs[d][i])}
      BY <2>2 DEF Tracked
    <3> HIDE DEF new
    <3>2. \A r \in Row : off(r) \in Row /\ ~off(r).enabled
      BY DEF Row
    <3> HIDE DEF off
    <3>3. \A i \in DOMAIN rs[d] : rs[d][i] \in Row /\ (rs[d][i].enabled => ~rs[d][i].superseded)
      BY <2>1 DEF Clean
    <3>4. \A i \in DOMAIN rs[d] : new[d][i] \in Row /\ (new[d][i].enabled => ~new[d][i].superseded)
      BY <3>1, <3>2, <3>3
    <3>5. new[d] \in Seq(Row) /\ Len(new[d]) = Len(rs[d])
      BY <2>1, <3>1, <3>4, RowsOf
    <3> QED
      BY <2>1, <3>1, <3>4, <3>5
  <2>3. CASE d = c /\ rs[d] = <<>>
    <3>1. new[d] = <<Pulled>>
      BY <2>3 DEF Tracked
    <3> QED
      BY <1>2, <2>3, <3>1
  <2>4. CASE d = c /\ rs[d] # <<>>
    <3>1. new[d] = [i \in DOMAIN rs[d] |-> Pulled]
      BY <2>4 DEF Tracked
    <3>2. DOMAIN new[d] = DOMAIN rs[d] /\ \A i \in DOMAIN rs[d] : new[d][i] = Pulled
      BY <3>1
    <3>3. new[d] = [i \in DOMAIN rs[d] |-> new[d][i]]
      BY <3>1
    <3> HIDE DEF new
    <3>4. new[d] \in Seq(Row) /\ Len(new[d]) = Len(rs[d])
      BY <1>2, <2>1, <3>2, <3>3, RowsOf
    <3> QED
      BY <1>2, <2>1, <3>2, <3>4
  <2> QED
    BY <2>2, <2>3, <2>4
<1> HIDE DEF new
<1> QED
  BY <1>1, <1>3 DEF new, Clean, Twice

LEMMA ToggledRows ==
    ASSUME NEW c \in Cert, NEW b \in BOOLEAN, rows \in [Cert -> Seq(Row)], Clean(rows), SetEnabled(c, b)
    PROVE  /\ rows' \in [Cert -> Seq(Row)] /\ Clean(rows')
           /\ Superseded(rows') \subseteq Superseded(rows) /\ Twice(rows) \subseteq Twice(rows')
<1> DEFINE row == [rows[c][1] EXCEPT !.enabled = b,
                                     !.superseded = IF b THEN FALSE ELSE rows[c][1].superseded]
           t == [rows[c] EXCEPT ![1] = row]
<1>1. /\ rows[c] \in Seq(Row) /\ rows[c] # <<>> /\ Len(rows[c]) \in Nat
      /\ DOMAIN rows[c] = 1..Len(rows[c]) /\ 1 \in DOMAIN rows[c] /\ rows[c][1] \in Row
      /\ rows[c][1].enabled # b
  BY DEF SetEnabled
<1>2. /\ row \in Row /\ (row.enabled => ~row.superseded)
      /\ (row.superseded /\ ~row.enabled => rows[c][1].superseded)
      /\ (row.superseded => ~rows[c][1].enabled)
  <2>1. rows[c][1].enabled => ~rows[c][1].superseded
    BY <1>1 DEF Clean
  <2> QED
    BY <1>1, <2>1 DEF Row
<1>3. rows' = [rows EXCEPT ![c] = t]
  BY DEF SetEnabled
<1> HIDE DEF row
<1>4. /\ DOMAIN t = DOMAIN rows[c] /\ t = [i \in DOMAIN rows[c] |-> t[i]] /\ t[1] = row
      /\ \A i \in DOMAIN rows[c] : i # 1 => t[i] = rows[c][i]
  BY <1>1
<1> HIDE DEF t
<1>5. \A i \in DOMAIN rows[c] : t[i] \in Row
  BY <1>1, <1>2, <1>4
<1>6. t \in Seq(Row) /\ Len(t) = Len(rows[c])
  BY <1>1, <1>4, <1>5, RowsOf
<1>7. rows' \in [Cert -> Seq(Row)] /\ rows'[c] = t /\ \A d \in Cert : d # c => rows'[d] = rows[d]
  BY <1>3, <1>6
<1>8. \A i \in DOMAIN t : /\ t[i].enabled => ~t[i].superseded
                          /\ t[i].superseded /\ ~t[i].enabled =>
                                rows[c][i].superseded /\ ~rows[c][i].enabled
  BY <1>1, <1>2, <1>4 DEF Clean
<1>9. Clean(rows')
  BY <1>7, <1>8 DEF Clean
<1>10. Superseded(rows') \subseteq Superseded(rows)
  <2>1. ASSUME NEW d \in Superseded(rows') PROVE d \in Superseded(rows)
    BY <1>4, <1>7, <1>8, <2>1 DEF Superseded
  <2> QED
    BY <2>1
<1>11. Twice(rows) \subseteq Twice(rows')
  BY <1>6, <1>7 DEF Twice
<1> QED
  BY <1>7, <1>9, <1>10, <1>11

LEMMA RemovedRows ==
    ASSUME NEW c \in Cert, NEW saved \in BOOLEAN, rows \in [Cert -> Seq(Row)], Clean(rows),
           rows[c] # <<>>, Remove(c, saved)
    PROVE  rows' \in [Cert -> Seq(Row)] /\ Clean(rows')
<1>1. rows[c] \in Seq(Row) /\ rows' \in {rows, [rows EXCEPT ![c] = Tail(rows[c])]}
  BY DEF Remove
<1>2. /\ Tail(rows[c]) \in Seq(Row) /\ Len(rows[c]) \in Nat /\ Len(Tail(rows[c])) = Len(rows[c]) - 1
      /\ \A i \in 1..Len(Tail(rows[c])) : Tail(rows[c])[i] = rows[c][i + 1]
  BY <1>1, HeadTailProperties
<1>3. ASSUME rows' = [rows EXCEPT ![c] = Tail(rows[c])]
      PROVE  rows' \in [Cert -> Seq(Row)] /\ Clean(rows')
  <2>1. \A i \in DOMAIN Tail(rows[c]) : i + 1 \in DOMAIN rows[c] /\ Tail(rows[c])[i] = rows[c][i + 1]
    BY <1>1, <1>2
  <2> QED
    BY <1>2, <1>3, <2>1 DEF Clean
<1> QED
  BY <1>1, <1>3

LEMMA DroppedRows ==
    ASSUME NEW names, NEW through \in BOOLEAN, rows \in [Cert -> Seq(Row)], Clean(rows),
           RemoveSuperseded(names, through)
    PROVE  /\ rows' \in [Cert -> Seq(Row)] /\ Clean(rows')
           /\ files' \subseteq files /\ UNCHANGED <<pull, adopting>>
           /\ files \ (names \cap Superseded(rows)) \subseteq files'
<1> DEFINE drop == names \cap Superseded(rows)
<1>1. rows' \in {rows, [c \in Cert |-> IF c \in drop THEN <<>> ELSE rows[c]]}
  BY DEF RemoveSuperseded
<1>2. files' \subseteq files /\ UNCHANGED <<pull, adopting>> /\ files \ drop \subseteq files'
  BY DEF RemoveSuperseded
<1> HIDE DEF drop
<1>3. rows' \in [Cert -> Seq(Row)] /\ \A c \in Cert : rows'[c] \in {rows[c], <<>>}
  <2>1. <<>> \in Seq(Row)
    OBVIOUS
  <2>2. CASE rows' = [c \in Cert |-> IF c \in drop THEN <<>> ELSE rows[c]]
    <3>1. \A c \in Cert : (IF c \in drop THEN <<>> ELSE rows[c]) \in Seq(Row)
      BY <2>1
    <3> QED
      BY <2>2, <3>1
  <2> QED
    BY <1>1, <2>2
<1>4. Clean(rows')
  BY <1>3 DEF Clean
<1> QED
  BY <1>2, <1>3, <1>4 DEF drop

LEMMA OwnOne ==
    ASSUME NEW b \in Backup, b.ts = requests
    PROVE  Own(<<b>>) /\ Len(<<b>>) = 1 /\ <<b>>[1] = b
<1> DEFINE s == <<b>>
<1>1. s \in Seq(Backup) /\ Len(s) = 1 /\ s[1] = b
  OBVIOUS
<1>2. DOMAIN s = {1}
  OBVIOUS
<1> HIDE DEF s
<1>3. Own(s)
  BY <1>1, <1>2 DEF Own
<1> QED
  BY <1>1, <1>3 DEF s

LEMMA OwnAppend ==
    ASSUME NEW q, NEW r, Own(q), Own(r)
    PROVE  /\ Own(q \o r) /\ Len(q \o r) = Len(q) + Len(r)
           /\ \A i \in DOMAIN q : i \in DOMAIN (q \o r) /\ (q \o r)[i] = q[i]
           /\ Len(r) >= 1 => Len(q) + 1 \in DOMAIN (q \o r) /\ (q \o r)[Len(q) + 1] = r[1]
<1> DEFINE s == q \o r
<1>1. q \in Seq(Backup) /\ r \in Seq(Backup)
  BY DEF Own
<1>2. /\ s \in Seq(Backup) /\ Len(s) = Len(q) + Len(r)
      /\ \A i \in 1..(Len(q) + Len(r)) : s[i] = IF i <= Len(q) THEN q[i] ELSE r[i - Len(q)]
  BY <1>1, ConcatProperties
<1> HIDE DEF s
<1>3. \A i \in DOMAIN s : s[i].ts = requests
  BY <1>1, <1>2 DEF Own
<1>4. ASSUME NEW i \in DOMAIN q
      PROVE  i \in DOMAIN s /\ s[i] = q[i]
  <2>1. i \in 1..Len(q) /\ Len(q) \in Nat /\ Len(r) \in Nat
    BY <1>1
  <2>2. i \in 1..(Len(q) + Len(r)) /\ i <= Len(q) /\ DOMAIN s = 1..(Len(q) + Len(r))
    BY <1>2, <2>1
  <2> QED
    BY <1>2, <2>2
<1>5. ASSUME Len(r) >= 1 PROVE Len(q) + 1 \in DOMAIN s /\ s[Len(q) + 1] = r[1]
  <2>1. /\ Len(q) \in Nat /\ Len(r) \in Nat /\ Len(q) + 1 \in 1..(Len(q) + Len(r))
        /\ ~(Len(q) + 1 <= Len(q)) /\ Len(q) + 1 - Len(q) = 1
    BY <1>1, <1>5
  <2>2. DOMAIN s = 1..(Len(q) + Len(r))
    BY <1>2
  <2> QED
    BY <1>2, <2>1, <2>2
<1> QED
  BY <1>2, <1>3, <1>4, <1>5 DEF s, Own

\* What backup() is going to write: this request's copies of what it found.
LEMMA CopiesOfFound ==
    ASSUME TypeInv, requests >= 1, NEW first \in BOOLEAN
    PROVE  /\ Own(Copies(first))
           /\ op.before.cfg # NoFile => \E i \in DOMAIN Copies(first) : Copy(Copies(first)[i], "cfg")
           /\ op.before.crt # NoFile => \E i \in DOMAIN Copies(first) : Copy(Copies(first)[i], "crt")
<1> DEFINE copy(kind, orig) == [kind |-> kind, ts |-> requests, orig |-> orig, text |-> op.before[kind]]
           of(kind, exists) == IF ~exists THEN <<>>
                               ELSE <<copy(kind, FALSE)>> \o IF first THEN <<copy(kind, TRUE)>> ELSE <<>>
           c == of("cfg", op.before.cfg # NoFile)
           l == of("crt", op.before.crt # NoFile)
<1>1. op.before["cfg"] \in Configs /\ op.before["crt"] \in CrtLists /\ requests \in 1..MaxRequests
  BY DEF TypeInv, Op, FileSets, Configs
<1>2. \A orig \in BOOLEAN : copy("cfg", orig) \in Backup /\ copy("crt", orig) \in Backup
  BY <1>1 DEF Backup
<1>3. ASSUME NEW kind \in {"cfg", "crt"}, NEW exists \in BOOLEAN
      PROVE  /\ Own(of(kind, exists))
             /\ exists => Len(of(kind, exists)) >= 1 /\ Copy(of(kind, exists)[1], kind)
  <2> DEFINE x == <<copy(kind, FALSE)>>
             y == IF first THEN <<copy(kind, TRUE)>> ELSE <<>>
  <2>1. copy(kind, FALSE) \in Backup /\ copy(kind, TRUE) \in Backup
    BY <1>2
  <2>2. Copy(copy(kind, FALSE), kind) /\ copy(kind, FALSE).ts = requests /\ copy(kind, TRUE).ts = requests
    BY DEF Copy
  <2>3. of(kind, exists) = IF ~exists THEN <<>> ELSE x \o y
    OBVIOUS
  <2> HIDE DEF copy, of
  <2>4. Own(x) /\ Len(x) = 1 /\ Copy(x[1], kind) /\ Own(y) /\ Own(<<>>)
    <3>1. Own(<<>>)
      BY DEF Own
    <3>2. Own(x) /\ Len(x) = 1 /\ Copy(x[1], kind)
      BY <2>1, <2>2, OwnOne
    <3>3. Own(y)
      BY <2>1, <2>2, <3>1, OwnOne
    <3> QED
      BY <3>1, <3>2, <3>3
  <2> HIDE DEF x, y
  <2>5. Own(x \o y) /\ Len(x \o y) >= 1 /\ (x \o y)[1] = x[1]
    <3>1. Len(y) \in Nat /\ 1 \in DOMAIN x
      BY <2>4 DEF Own
    <3>2. /\ Own(x \o y) /\ Len(x \o y) = Len(x) + Len(y)
          /\ \A i \in DOMAIN x : (x \o y)[i] = x[i]
      BY <2>4, OwnAppend
    <3> QED
      BY <2>4, <3>1, <3>2
  <2> QED
    BY <2>3, <2>4, <2>5
<1> HIDE DEF copy, of
<1>4. Own(c) /\ (op.before.cfg # NoFile => Len(c) >= 1 /\ Copy(c[1], "cfg"))
  BY <1>3
<1>5. Own(l) /\ (op.before.crt # NoFile => Len(l) >= 1 /\ Copy(l[1], "crt"))
  BY <1>3
<1>6. Copies(first) = c \o l
  BY DEF Copies, c, l, of, copy
<1> HIDE DEF c, l
<1>7. Own(c \o l)
  BY <1>4, <1>5, OwnAppend
<1>8. op.before.cfg # NoFile => 1 \in DOMAIN c /\ 1 \in DOMAIN (c \o l) /\ (c \o l)[1] = c[1]
  BY <1>4, <1>5, OwnAppend DEF Own
<1>9. op.before.crt # NoFile => Len(c) + 1 \in DOMAIN (c \o l) /\ (c \o l)[Len(c) + 1] = l[1]
  BY <1>4, <1>5, OwnAppend
<1> QED
  BY <1>4, <1>5, <1>6, <1>7, <1>8, <1>9

-----------------------------------------------------------------------------
\* Types are kept by every step.

LEMMA LeavesOne ==
    ASSUME NEW end \in Ends, NEW S, NEW old \in S, NEW new \in S, NEW v \in Leaves(end, old, new)
    PROVE  v \in S
BY DEF Leaves, Ends

LEMMA PreparingKeepsTypes ==
    ASSUME TypeInv, NEW end \in Ends, ListFound(end) \/ ListAgain(end) \/ Compare(end)
    PROVE  TypeInv'
<1> USE DEF TypeInv
<1>1. ASSUME NEW after \in Op, Call(end, after) PROVE op' \in Op /\ faults' \in 0..MaxFaults
  BY <1>1, CallType
<1>2. \A pc \in Places : Go(pc) \in Op
  BY DEF Go, Op
<1>3. \A o \in Outcomes : Done(o) \in Op
  BY DEF Done, Op, Places
<1>4. Untracked(rows, files) \subseteq Cert
  BY DEF Untracked
<1>5. CASE ListFound(end)
  <2>1. [op EXCEPT !.pc = "again", !.names = Untracked(rows, files)] \in Op
    BY <1>4 DEF Op, Places, Staging, Preparing
  <2> QED
    BY <1>1, <1>2, <1>5, <2>1 DEF ListFound, certVars, fileVars, ghosts, Places, Staging, Preparing
<1>6. CASE ListAgain(end)
  <2>1. [op EXCEPT !.pc = "adopt", !.names = @ \cap Untracked(rows, files)] \in Op
    BY <1>4 DEF Op, Places, Staging, Preparing
  <2> QED
    BY <1>1, <1>2, <1>6, <2>1 DEF ListAgain, certVars, fileVars, ghosts, Places, Staging, Preparing
<1>7. CASE Compare(end)
  BY <1>1, <1>2, <1>3, <1>7 DEF Compare, certVars, fileVars, ghosts, Places, Staging, Outcomes
<1> QED
  BY <1>5, <1>6, <1>7

\* The steps that only read or write certs.json and the models.
ReadingStep == AdoptFound \/ CountEnabled \/ ReadModel \/ ReadCrtList

LEMMA ReadingKeepsTypes ==
    ASSUME TypeInv, Clean(rows), ReadingStep
    PROVE  TypeInv'
<1> USE DEF TypeInv
<1>1. \A pc \in Places : Go(pc) \in Op
  BY DEF Go, Op
<1>2. \A o \in Outcomes : Done(o) \in Op
  BY DEF Done, Op, Places
<1>3. CASE AdoptFound
  BY <1>1, <1>3, AdoptedRows DEF AdoptFound, fileVars, boundVars, ghosts, Places, Staging, Preparing
<1>4. CASE CountEnabled
  BY <1>1, <1>2, <1>4 DEF CountEnabled, certVars, fileVars, boundVars, ghosts, Places, Staging, Preparing,
     Outcomes
<1>5. CASE ReadModel
  <2>1. op' = [op EXCEPT !.pc = "crtlist", !.cand = [op.cand EXCEPT !.cfg = model]]
    BY <1>5 DEF ReadModel
  <2>2. [op.cand EXCEPT !.cfg = model] \in FileSets
    BY FileSetTypes DEF Op, Configs
  <2>3. op' \in Op
    BY <2>1, <2>2 DEF Op, Places, Staging, Preparing
  <2> QED
    BY <1>5, <2>3 DEF ReadModel, certVars, fileVars, boundVars, ghosts
<1>6. CASE ReadCrtList
  <2>1. op' = [op EXCEPT !.pc = "compare", !.cand = [op.cand EXCEPT !.crt = CrtList(rows)]]
    BY <1>6 DEF ReadCrtList
  <2>2. [op.cand EXCEPT !.crt = CrtList(rows)] \in FileSets
    BY FileSetTypes, CrtListOfRows DEF Op, CrtLists
  <2>3. op' \in Op
    BY <2>1, <2>2 DEF Op, Places, Staging, Preparing
  <2> QED
    BY <1>6, <2>3 DEF ReadCrtList, certVars, fileVars, boundVars, ghosts
<1> QED
  BY <1>3, <1>4, <1>5, <1>6 DEF ReadingStep

LEMMA StepsKeepTypes ==
    ASSUME TypeInv, Clean(rows), requests >= 1, NEW end \in Ends, Steps(end)
    PROVE  TypeInv'
<1> USE DEF TypeInv
<1>1. ASSUME NEW after \in Op, Call(end, after) PROVE op' \in Op /\ faults' \in 0..MaxFaults
  BY <1>1, CallType
<1>2. \A pc \in Places : Go(pc) \in Op
  BY DEF Go, Op
<1>3. \A o \in Outcomes : Done(o) \in Op
  BY DEF Done, Op, Places
<1>4. \A r \in BOOLEAN : RollBack(r) \in Op
  BY DEF RollBack, Op, Places, Rolling
<1>5. ASSUME NEW r \in BOOLEAN, NEW o \in Op
      PROVE  Erred(o, r) \in Op /\ RolledBack(o) \in Op
  <2>1. (o.errs \/ r) \in BOOLEAN
    OBVIOUS
  <2>2. Erred(o, r) \in Op
    BY <2>1 DEF Erred, Op
  <2>3. (IF o.errs THEN "rollback_failed" ELSE "rolled_back") \in Outcomes
    BY DEF Outcomes
  <2>4. RolledBack(o) \in Op
    BY <2>3 DEF RolledBack, Op, Places
  <2> QED
    BY <2>2, <2>4
<1>6. /\ op.cand \in FileSets /\ op.before \in FileSets /\ op.active \in BOOLEAN /\ op.cfgIn \in BOOLEAN
      /\ op.reload \in BOOLEAN
  BY DEF Op
<1>7. CASE Validate(end)
  BY <1>1, <1>2, <1>3, <1>7 DEF Validate, certVars, fileVars, ghosts, Places, Staging, Outcomes
<1>8. CASE BackupList(end)
  <2>1. [op EXCEPT !.pc = "backup", !.todo = Copies(baks = {})] \in Op
    BY CopiesOfFound DEF Own, Op, Places, Staging
  <2> QED
    BY <1>1, <1>3, <1>8, <2>1 DEF BackupList, certVars, fileVars, ghosts, Outcomes
<1>9. CASE BackupWrite(end)
  <2>1. op.todo \in Seq(Backup) /\ op.todo # <<>>
    BY <1>9 DEF BackupWrite, Op
  <2>2. Head(op.todo) \in Backup /\ Tail(op.todo) \in Seq(Backup)
    BY <2>1
  <2>3. [op EXCEPT !.todo = Tail(@)] \in Op
    BY <2>2 DEF Op
  <2>4. baks' \subseteq Backup
    BY <1>9, <2>2 DEF BackupWrite, Leaves, Ends
  <2> QED
    BY <1>1, <1>3, <1>9, <2>3, <2>4 DEF BackupWrite, certVars, ghosts, Outcomes
<1>10. CASE Prune(end)
  <2>1. baks' \subseteq Backup
    BY <1>10 DEF Prune, Leaves, Ends
  <2> QED
    BY <1>1, <1>2, <1>10, <2>1 DEF Prune, certVars, ghosts, Places, Staging
<1>11. CASE Status(end)
  <2>1. \A b \in BOOLEAN : [op EXCEPT !.pc = "crt", !.active = b] \in Op
    BY DEF Op, Places, Staging
  <2>2. (end = "ok" => loaded # Down) \in BOOLEAN
    OBVIOUS
  <2> QED
    BY <1>1, <1>11, <2>1, <2>2 DEF Status, certVars, fileVars, ghosts
<1>12. CASE InstallCrt(end)
  <2>1. live' \in FileSets
    BY <1>6, <1>12, FileSetTypes DEF InstallCrt, Leaves, Ends
  <2>2. unkept' \subseteq Cert
    BY <1>6, <1>12, FileSetTypes DEF InstallCrt
  <2> QED
    BY <1>1, <1>2, <1>3, <1>12, <2>1, <2>2 DEF InstallCrt, certVars, Places, Outcomes
<1>13. CASE InstallCfg(end)
  <2>1. live' \in FileSets
    BY <1>6, <1>13, FileSetTypes DEF InstallCfg, Leaves, Ends
  <2>2. [op EXCEPT !.pc = "load", !.cfgIn = TRUE] \in Op
    BY DEF Op, Places
  <2> QED
    BY <1>1, <1>4, <1>6, <1>13, <2>1, <2>2 DEF InstallCfg, certVars, ghosts
<1>14. CASE Load(end)
  <2>1. loaded' \in FileSets
    BY <1>14 DEF Load, Leaves, Ends, Starts
  <2> QED
    BY <1>1, <1>2, <1>4, <1>6, <1>14, <2>1 DEF Load, certVars, ghosts, Places
<1>15. CASE Verify(end)
  <2>1. [Go("sweep") EXCEPT !.outcome = "applied"] \in Op
    BY DEF Go, Op, Places, Outcomes
  <2>2. (op.active \/ op.before.cfg # NoFile) \in BOOLEAN
    OBVIOUS
  <2> QED
    BY <1>1, <1>3, <1>4, <1>15, <2>1, <2>2 DEF Verify, certVars, fileVars, ghosts, Outcomes
<1>16. CASE RestoreCfg(end)
  <2>1. live' \in FileSets
    BY <1>6, <1>16, FileSetTypes DEF RestoreCfg, Leaves, Ends
  <2>2. Go("rbcrt") \in Op
    BY <1>2 DEF Places, Rolling
  <2> QED
    BY <1>1, <1>5, <1>16, <2>1, <2>2 DEF RestoreCfg, certVars, ghosts
<1>17. CASE RestoreCrt(end)
  <2>1. live' \in FileSets
    BY <1>6, <1>17, FileSetTypes DEF RestoreCrt, Leaves, Ends
  <2>2. Go("rbload") \in Op
    BY <1>2 DEF Places, Rolling
  <2> QED
    BY <1>1, <1>5, <1>17, <2>1, <2>2 DEF RestoreCrt, certVars, ghosts
<1>18. CASE ReloadOld(end)
  <2>1. loaded' \in FileSets
    BY <1>18 DEF ReloadOld, Leaves, Ends
  <2>2. (end # "ok" \/ ~CanReload) \in BOOLEAN
    OBVIOUS
  <2> QED
    BY <1>1, <1>5, <1>18, <2>1, <2>2 DEF ReloadOld, certVars, ghosts
<1>19. CASE ListSuperseded(end)
  <2>1. [op EXCEPT !.pc = "remove", !.names = Superseded(rows)] \in Op
    BY DEF Op, Places, Superseded
  <2> QED
    BY <1>1, <1>3, <1>19, <2>1 DEF ListSuperseded, certVars, fileVars, ghosts, Outcomes
<1>20. CASE DropSuperseded(end)
  <2>1. RemoveSuperseded(op.names, end = "ok") /\ (end = "ok") \in BOOLEAN
    BY <1>20 DEF DropSuperseded
  <2>2. /\ files' \subseteq Cert /\ rows' \in [Cert -> Seq(Row)]
        /\ pull' \subseteq Cert /\ adopting' \subseteq Cert
    BY <2>1, DroppedRows
  <2>3. unkept' \subseteq Cert
    BY <1>20 DEF DropSuperseded, Superseded
  <2> QED
    BY <1>1, <1>3, <1>20, <2>2, <2>3 DEF DropSuperseded, fileVars, Outcomes
<1>21. CASE ListFound(end) \/ ListAgain(end) \/ Compare(end)
  BY <1>21, PreparingKeepsTypes
<1> QED
  BY <1>21, <1>7, <1>8, <1>9, <1>10, <1>11, <1>12, <1>13, <1>14, <1>15, <1>16, <1>17, <1>18, <1>19, <1>20
     DEF Steps

LEMMA RestoreTypes ==
    ASSUME TypeInv, NEW b, Restore(b)
    PROVE  TypeInv'
<1> DEFINE mates == {m \in baks : m.kind = "crt" /\ m.ts = b.ts /\ m.orig = b.orig}
           kept == IF live.crt = NoFile THEN [c \in Cert |-> 0] ELSE live.crt
           cand == CASE b.kind = "crt" -> [cfg |-> live.cfg, crt |-> b.text]
                     [] b.kind = "cfg" /\ mates = {} -> [cfg |-> b.text, crt |-> kept]
                     [] OTHER -> [cfg |-> b.text, crt |-> (CHOOSE m \in mates : TRUE).text]
<1>1. b \in baks /\ Begin("restore", "validate", cand)
  BY DEF Restore
<1>2. b \in Backup /\ mates \subseteq Backup /\ \A m \in mates : m.kind = "crt"
  BY <1>1 DEF TypeInv
<1>3. \A m \in Backup : /\ m.kind = "crt" => m.text \in CrtLists
                        /\ m.kind = "cfg" => m.text \in Configs
                        /\ m.kind \in {"cfg", "crt"}
  BY DEF Backup
<1>4. live.cfg \in Configs /\ live.crt \in CrtLists /\ kept \in CrtLists
  BY FileSetTypes DEF TypeInv, CrtLists
<1>5. mates # {} => (CHOOSE m \in mates : TRUE) \in mates
  OBVIOUS
<1>6. mates # {} => (CHOOSE m \in mates : TRUE).text \in CrtLists
  BY <1>2, <1>3, <1>5
<1> HIDE DEF mates, kept
<1>7. cand \in FileSets
  <2>1. \A c \in Configs, l \in CrtLists : [cfg |-> c, crt |-> l] \in FileSets
    BY DEF FileSets, Configs
  <2> QED
    BY <1>2, <1>3, <1>4, <1>6, <2>1
<1> HIDE DEF cand
<1> QED
  BY <1>1, <1>7, BeginType DEF Places, Staging

LEMMA NextKeepsTypes ==
    ASSUME TypeInv, Clean(rows), op.pc # "idle" => requests >= 1, Next
    PROVE  TypeInv'
<1> USE DEF TypeInv
<1>1. CASE Apply \/ ReadingStep
  <2>1. CASE Apply
    BY <2>1, BeginType, FileSetTypes DEF Apply, Places, Staging, Preparing
  <2> QED
    BY <1>1, <2>1, ReadingKeepsTypes
<1>2. ASSUME NEW b \in baks, Restore(b) PROVE TypeInv'
  BY <1>2, RestoreTypes
<1>3. ASSUME NEW end \in Ends, Steps(end) PROVE TypeInv'
  <2>1. op.pc # "idle"
    BY <1>3 DEF Steps, ListFound, ListAgain, Compare, Validate, BackupList, BackupWrite, Prune, Status, InstallCrt, InstallCfg, Load,
       Verify, RestoreCfg, RestoreCrt, ReloadOld, ListSuperseded, DropSuperseded
  <2> QED
    BY <1>3, <2>1, StepsKeepTypes
<1>4. CASE Answer
  BY <1>4, IdleType DEF Answer, certVars, fileVars, boundVars
<1>5. CASE SaveModel
  BY <1>5, ApplyAssumption DEF SaveModel, certVars, fileVars, boundVars, ghosts, Models, ApplyAssumption
<1>6. ASSUME NEW c \in Cert, PullFile(c) PROVE TypeInv'
  BY <1>6, ApplyAssumption DEF PullFile, PullWrite, Pulls, fileVars, ghosts, ApplyAssumption
<1>7. ASSUME NEW c \in Cert, PullRow(c) PROVE TypeInv'
  <2>1. rows' \in [Cert -> Seq(Row)]
    BY <1>7, TrackedRows DEF PullRow, PullTrack
  <2>2. unkept' \subseteq Cert
    BY <1>7 DEF PullRow, Superseded
  <2> QED
    BY <1>7, <2>1, <2>2 DEF PullRow, PullTrack, fileVars, boundVars
<1>8. ASSUME NEW c \in Cert, NEW b \in BOOLEAN, Toggle(c, b) PROVE TypeInv'
  <2>1. rows' \in [Cert -> Seq(Row)]
    BY <1>8, ToggledRows DEF Toggle
  <2> QED
    BY <1>8, <2>1, ApplyAssumption DEF Toggle, SetEnabled, Pulls, fileVars, ghosts, ApplyAssumption
<1>9. ASSUME NEW c \in Cert, NEW b \in BOOLEAN, Delete(c, b) PROVE TypeInv'
  <2>1. rows' \in [Cert -> Seq(Row)]
    BY <1>9, RemovedRows DEF Delete
  <2> QED
    BY <1>9, <2>1, ApplyAssumption DEF Delete, Remove, fileVars, ghosts, ApplyAssumption
<1>10. CASE Reload \/ Restart \/ Start
  BY <1>10, FileSetTypes DEF Reload, Restart, Start, Running, Starts, certVars, boundVars
<1>11. CASE Dies
  BY <1>11, FileSetTypes, ApplyAssumption DEF Dies, Fault, certVars, ghosts, ApplyAssumption
<1>12. ASSUME NEW host \in BOOLEAN, Crash(host) PROVE TypeInv'
  <2>1. rows' \in [Cert -> Seq(Row)]
    BY <1>12, AdoptedRows DEF Crash
  <2> QED
    BY <1>12, <2>1, FileSetTypes, IdleType, ApplyAssumption DEF Crash, Fault, ApplyAssumption
<1>13. CASE (\E names \in SUBSET Cert : Import(names)) \/ Imported
  <2>1. CASE \E names \in SUBSET Cert : Import(names)
    BY <2>1, ApplyAssumption DEF Import, ImportList, Pulls, fileVars, ghosts, ApplyAssumption
  <2>2. CASE Imported
    BY <2>2, AdoptedRows DEF Imported, ImportRows, fileVars, boundVars, ghosts
  <2> QED
    BY <1>13, <2>1, <2>2
<1> QED
  BY <1>13, <1>1, <1>2, <1>3, <1>4, <1>5, <1>6, <1>7, <1>8, <1>9, <1>10, <1>11, <1>12 DEF Next, ReadingStep

-----------------------------------------------------------------------------
\* Files and process at each place.

LEMMA PreparingKeepsPlaces ==
    ASSUME TypeInv, PlaceInv,
           ReadingStep \/ \E end \in Ends : ListFound(end) \/ ListAgain(end) \/ Compare(end)
    PROVE  PlaceInv'
<1> USE DEF TypeInv, Op, PlaceInv, Staged, Installing, Applied, RollingBack, RanWhatWasLive,
            OutcomeIsTrue, RunsWhatIsLive, Untouched, FirstInstall, Staging, Preparing, Rolling, Go, Done
<1> DEFINE goes == /\ op.pc \in Preparing /\ UNCHANGED <<live, loaded, torn>>
                   /\ \/ op'.pc \in Staging \ {"crt"} /\ op'.outcome = op.outcome
                      \/ op'.pc = "done" /\ op'.outcome \in {"needs_certs", "no_changes", "error"}
                   /\ op'.before = op.before /\ op'.ran = op.ran /\ op'.cfgIn = op.cfgIn
<1>1. goes
  <2>1. CASE AdoptFound
    BY <2>1 DEF AdoptFound, fileVars, ghosts
  <2>2. CASE CountEnabled
    BY <2>2 DEF CountEnabled, fileVars, ghosts
  <2>6. CASE ReadModel
    BY <2>6 DEF ReadModel, fileVars, ghosts
  <2>7. CASE ReadCrtList
    BY <2>7 DEF ReadCrtList, fileVars, ghosts
  <2>3. ASSUME NEW end \in Ends, ListFound(end) PROVE goes
    BY <2>3 DEF ListFound, Call, fileVars, ghosts
  <2>4. ASSUME NEW end \in Ends, ListAgain(end) PROVE goes
    BY <2>4 DEF ListAgain, Call, fileVars, ghosts
  <2>5. ASSUME NEW end \in Ends, Compare(end) PROVE goes
    BY <2>5 DEF Compare, Call, fileVars, ghosts
  <2> QED
    BY <2>1, <2>2, <2>3, <2>4, <2>5, <2>6, <2>7 DEF ReadingStep
<1> QED
  BY <1>1

LEMMA StagingKeepsPlaces ==
    ASSUME TypeInv, PlaceInv, NEW end \in Ends,
           Validate(end) \/ BackupList(end) \/ BackupWrite(end) \/ Prune(end) \/ Status(end)
    PROVE  PlaceInv'
<1> USE DEF TypeInv, Op, PlaceInv, Staged, Installing, Applied, RollingBack, RanWhatWasLive,
            OutcomeIsTrue, RunsWhatIsLive, Untouched, FirstInstall, Staging, Preparing, Rolling, Go, Done
<1>1. CASE Validate(end)
  BY <1>1 DEF Validate, Call, fileVars, ghosts
<1>2. CASE BackupList(end)
  BY <1>2 DEF BackupList, Call, fileVars, ghosts
<1>3. CASE BackupWrite(end)
  BY <1>3 DEF BackupWrite, Call, ghosts
<1>4. CASE Prune(end)
  BY <1>4 DEF Prune, Call, ghosts
<1>5. CASE Status(end)
  BY <1>5 DEF Status, Call, fileVars, ghosts
<1> QED
  BY <1>1, <1>2, <1>3, <1>4, <1>5

LEMMA InstallingKeepsPlaces ==
    ASSUME TypeInv, PlaceInv, NEW end \in Ends,
           InstallCrt(end) \/ InstallCfg(end) \/ Load(end) \/ Verify(end)
    PROVE  PlaceInv'
<1> USE DEF TypeInv, Op, PlaceInv, Staged, Installing, Applied, RollingBack, RanWhatWasLive,
            OutcomeIsTrue, RunsWhatIsLive, Untouched, FirstInstall, Staging, Preparing, Rolling, Go, Done,
            RollBack, Leaves
<1>1. CASE InstallCrt(end)
  <2>1. /\ op.pc = "crt" /\ UNCHANGED <<loaded, torn>>
        /\ \/ end = "ok" /\ live' = [live EXCEPT !.crt = op.cand.crt] /\ Call(end, Go("cfg"))
           \/ end = "fails" /\ live' = live /\ Call(end, Done("rolled_back"))
           \/ end = "cut" /\ Call(end, Done("rolled_back"))
    BY <1>1 DEF InstallCrt, Ends
  <2>2. ASSUME Call(end, Go("cfg")), live' = [live EXCEPT !.crt = op.cand.crt] PROVE PlaceInv'
    BY <2>1, <2>2 DEF Call
  <2>3. ASSUME Call(end, Done("rolled_back")), live' = live \/ end = "cut" PROVE PlaceInv'
    BY <2>1, <2>3 DEF Call
  <2> QED
    BY <2>1, <2>2, <2>3
<1>2. CASE InstallCfg(end)
  <2>1. /\ op.pc = "cfg" /\ UNCHANGED <<loaded, torn>>
        /\ \/ /\ end = "ok" /\ live' = [live EXCEPT !.cfg = op.cand.cfg]
              /\ Call(end, [op EXCEPT !.pc = "load", !.cfgIn = TRUE])
           \/ end = "fails" /\ live' = live /\ Call(end, RollBack(op.active))
           \/ end = "cut" /\ Call(end, RollBack(op.active))
    BY <1>2 DEF InstallCfg, Ends, ghosts
  <2>2. ASSUME Call(end, [op EXCEPT !.pc = "load", !.cfgIn = TRUE]),
               live' = [live EXCEPT !.cfg = op.cand.cfg]
        PROVE  PlaceInv'
    <3>1. live' = op.cand
      BY <2>1, <2>2 DEF FileSets
    <3> QED
      BY <2>1, <2>2, <3>1 DEF Call
  <2>3. ASSUME Call(end, RollBack(op.active)), live' = live \/ end = "cut" PROVE PlaceInv'
    BY <2>1, <2>3 DEF Call, FileSets
  <2> QED
    BY <2>1, <2>2, <2>3
<1>3. CASE Load(end)
  <2>1. /\ op.pc = "load" /\ UNCHANGED <<live, torn>>
        /\ \/ end = "ok" /\ loaded' = live /\ Call(end, Go("verify"))
           \/ loaded' = loaded /\ Call(end, RollBack(op.active))
           \/ end = "cut" /\ Call(end, RollBack(op.active))
    BY <1>3 DEF Load, Ends, ghosts, CanReload, CanStart, Starts
  <2>2. ASSUME Call(end, Go("verify")), loaded' = live PROVE PlaceInv'
    BY <2>1, <2>2 DEF Call
  <2>3. ASSUME Call(end, RollBack(op.active)), loaded' = loaded \/ end = "cut" PROVE PlaceInv'
    BY <2>1, <2>3 DEF Call
  <2> QED
    BY <2>1, <2>2, <2>3
<1>4. CASE Verify(end)
  <2> DEFINE again == op.active \/ op.before.cfg # NoFile
  <2>1. /\ op.pc = "verify" /\ UNCHANGED <<live, loaded, torn>>
        /\ \/ Call(end, [Go("sweep") EXCEPT !.outcome = "applied"]) /\ op.kind = "apply"
           \/ Call(end, Done("applied"))
           \/ Call(end, RollBack(again))
    BY <1>4 DEF Verify, fileVars, ghosts
  <2>2. ASSUME Call(end, RollBack(again)) PROVE PlaceInv'
    <3>1. again \in BOOLEAN /\ (again \/ FirstInstall)
      OBVIOUS
    <3> HIDE DEF again
    <3>2. /\ op'.pc = "rbcfg" /\ op'.reload = again /\ op'.outcome = op.outcome
          /\ op'.before = op.before /\ op'.ran = op.ran /\ op'.cfgIn = op.cfgIn
      BY <2>2, <3>1 DEF Call
    <3> QED
      BY <2>1, <3>1, <3>2
  <2>3. ASSUME Call(end, [Go("sweep") EXCEPT !.outcome = "applied"]), op.kind = "apply" PROVE PlaceInv'
    BY <2>1, <2>3 DEF Call
  <2>4. ASSUME Call(end, Done("applied")) PROVE PlaceInv'
    BY <2>1, <2>4 DEF Call
  <2> QED
    BY <2>1, <2>2, <2>3, <2>4
<1> QED
  BY <1>1, <1>2, <1>3, <1>4

\* What a rollback step does to the fields of its request.
LEMMA RollingPlaces == Rolling \subseteq Places /\ {"rbcfg", "rbcrt", "rbload"} \subseteq Places
BY DEF Places, Rolling

LEMMA ErredFields ==
    ASSUME TypeInv, NEW end \in Ends, NEW pc \in Places, NEW failed \in BOOLEAN,
           Call(end, Erred(Go(pc), failed))
    PROVE  /\ op'.pc = pc /\ (~op'.errs => ~op.errs /\ ~failed)
           /\ op'.outcome = op.outcome /\ op'.reload = op.reload /\ op'.cand = op.cand
           /\ op'.before = op.before /\ op'.ran = op.ran /\ op'.kind = op.kind
           /\ ~op'.gone => ~op.gone /\ end # "cut"
<1>1. Go(pc) \in Op /\ Go(pc).pc = pc /\ Go(pc).errs = op.errs
  BY DEF Go, Op, TypeInv
<1>2. Erred(Go(pc), failed).errs = (op.errs \/ failed)
  BY <1>1 DEF Erred, Op
<1> QED
  BY <1>1, <1>2 DEF Call, Erred, Go, Op, TypeInv

LEMMA ReloadOldFields ==
    ASSUME TypeInv, NEW end \in Ends, ReloadOld(end)
    PROVE  /\ op'.pc = "done" /\ op'.kind = op.kind
           /\ op'.cand = op.cand /\ op'.before = op.before
<1> DEFINE o == Erred(op, end # "ok" \/ ~CanReload)
<1>1. o \in Op /\ o.kind = op.kind /\ o.cand = op.cand /\ o.before = op.before
  BY DEF Erred, Op, TypeInv
<1>2. op' = RolledBack(op) \/ Call(end, RolledBack(o))
  BY DEF ReloadOld
<1> HIDE DEF o
<1> QED
  BY <1>1, <1>2 DEF RolledBack, Call, Op, TypeInv

LEMMA RollingBackKeepsPlaces ==
    ASSUME TypeInv, PlaceInv, NEW end \in Ends,
           RestoreCfg(end) \/ RestoreCrt(end) \/ ReloadOld(end)
    PROVE  PlaceInv'
<1> USE DEF PlaceInv, Staged, Installing, Applied, RollingBack, RanWhatWasLive, OutcomeIsTrue,
            RunsWhatIsLive, Untouched, FirstInstall, Staging, Preparing, Rolling
<1>1. ASSUME RestoreCfg(end), op.cfgIn PROVE PlaceInv'
  <2>1. /\ op.pc = "rbcfg" /\ Call(end, Erred(Go("rbcrt"), end # "ok"))
        /\ end = "ok" => live'.cfg = op.before.cfg
        /\ UNCHANGED <<loaded, torn>>
    BY <1>1 DEF RestoreCfg, Leaves, ghosts, TypeInv, FileSets
  <2>2. /\ op'.pc = "rbcrt" /\ (~op'.errs => end = "ok")
        /\ op'.outcome = op.outcome /\ op'.reload = op.reload
        /\ op'.before = op.before /\ op'.ran = op.ran
        /\ ~op'.gone => ~op.gone
    BY <2>1, ErredFields DEF Places
  <2> QED
    BY <2>1, <2>2
<1>2. ASSUME RestoreCfg(end), ~op.cfgIn PROVE PlaceInv'
  BY <1>2 DEF RestoreCfg, ghosts, Go, TypeInv, Op
<1>3. CASE RestoreCrt(end)
  <2>1. /\ op.pc = "rbcrt" /\ Call(end, Erred(Go("rbload"), end # "ok"))
        /\ end = "ok" => live' = [live EXCEPT !.crt = op.before.crt]
        /\ UNCHANGED <<loaded, torn>>
    BY <1>3 DEF RestoreCrt, Leaves, ghosts
  <2>2. /\ op'.pc = "rbload" /\ (~op'.errs => ~op.errs /\ end = "ok")
        /\ op'.outcome = op.outcome /\ op'.reload = op.reload
        /\ op'.before = op.before /\ op'.ran = op.ran
        /\ ~op'.gone => ~op.gone
    BY <2>1, ErredFields DEF Places
  <2>3. live.cfg = op.before.cfg /\ end = "ok" => live' = op.before
    BY <2>1 DEF TypeInv, Op, FileSets
  <2> QED
    BY <2>1, <2>2, <2>3
<1>4. ASSUME ReloadOld(end), op.reload PROVE PlaceInv'
  <2> DEFINE failed == end # "ok" \/ ~CanReload
             o == Erred(op, failed)
  <2>1. /\ op.pc = "rbload" /\ Call(end, RolledBack(o))
        /\ ~failed => loaded' = live
        /\ UNCHANGED <<live, torn>>
    BY <1>4 DEF ReloadOld, Leaves, ghosts
  <2>2. o \in Op /\ (~o.errs => ~op.errs /\ ~failed) /\ o.gone = op.gone
        /\ o.before = op.before /\ o.ran = op.ran /\ o.cand = op.cand
    BY DEF Erred, Op, TypeInv
  <2> HIDE DEF o, failed
  <2>3. /\ op'.pc = "done" /\ op'.outcome \in {"rolled_back", "rollback_failed"}
        /\ op'.outcome = "rolled_back" => ~op.errs /\ ~failed
        /\ op'.before = op.before /\ op'.ran = op.ran
        /\ ~op'.gone => ~op.gone
    BY <2>1, <2>2 DEF Call, RolledBack, Op
  <2> QED
    BY <2>1, <2>3
<1>5. ASSUME ReloadOld(end), ~op.reload PROVE PlaceInv'
  <2>1. /\ op.pc = "rbload" /\ op' = RolledBack(op) /\ UNCHANGED <<live, loaded, torn>>
    BY <1>5 DEF ReloadOld, ghosts
  <2>2. /\ op'.pc = "done" /\ op'.outcome \in {"rolled_back", "rollback_failed"}
        /\ op'.outcome = "rolled_back" => ~op.errs
        /\ op'.before = op.before /\ op'.ran = op.ran /\ op'.gone = op.gone
    BY <2>1 DEF RolledBack, Op, TypeInv
  <2> QED
    BY <1>5, <2>1, <2>2
<1> QED
  BY <1>1, <1>2, <1>3, <1>4, <1>5

LEMMA SweepingKeepsPlaces ==
    ASSUME TypeInv, PlaceInv, NEW end \in Ends, ListSuperseded(end) \/ DropSuperseded(end)
    PROVE  PlaceInv'
<1> USE DEF TypeInv, Op, PlaceInv, Staged, Installing, Applied, RollingBack, RanWhatWasLive,
            OutcomeIsTrue, RunsWhatIsLive, Untouched, FirstInstall, Staging, Preparing, Rolling, Go, Done
<1>1. CASE ListSuperseded(end)
  BY <1>1 DEF ListSuperseded, Call, fileVars, ghosts
<1>2. CASE DropSuperseded(end)
  BY <1>2 DEF DropSuperseded, Call, fileVars, ghosts
<1> QED
  BY <1>1, <1>2

LEMMA BeginKeepsPlaces ==
    ASSUME TypeInv, PlaceInv, NEW kind \in {"apply", "restore"}, NEW pc \in {"found", "validate"}, NEW cand,
           Begin(kind, pc, cand)
    PROVE  PlaceInv'
<1> USE DEF TypeInv, Op, PlaceInv, Staged, Installing, Applied, RollingBack, RanWhatWasLive,
            OutcomeIsTrue, RunsWhatIsLive, Untouched, FirstInstall, Staging, Preparing, Rolling, Go, Done
<1> QED
  BY DEF Begin, Idle, fileVars, ghosts

\* What does not touch the request, the live files or the process.
LEMMA BesideKeepsPlaces ==
    ASSUME PlaceInv, UNCHANGED <<op, live, loaded, torn>>
    PROVE  PlaceInv'
BY DEF PlaceInv, Staged, Installing, Applied, RollingBack, RanWhatWasLive, OutcomeIsTrue,
       RunsWhatIsLive, Untouched, FirstInstall

LEMMA NextKeepsPlaces ==
    ASSUME TypeInv, PlaceInv, Next
    PROVE  PlaceInv'
<1> USE DEF TypeInv, Op, PlaceInv, Staged, Installing, Applied, RollingBack, RanWhatWasLive,
            OutcomeIsTrue, RunsWhatIsLive, Untouched, FirstInstall, Staging, Preparing, Rolling, Go, Done
<1>1. CASE Apply \/ ReadingStep \/ \E b \in baks : Restore(b)
  BY <1>1, BeginKeepsPlaces, PreparingKeepsPlaces DEF Apply, Restore
<1>2. ASSUME NEW end \in Ends, Steps(end) PROVE PlaceInv'
  BY <1>2, PreparingKeepsPlaces, StagingKeepsPlaces, InstallingKeepsPlaces, RollingBackKeepsPlaces,
     SweepingKeepsPlaces DEF Steps
<1>3. CASE Answer
  BY <1>3 DEF Answer, Idle, fileVars
<1>4. CASE SaveModel \/ \E c \in Cert : PullFile(c) \/ PullRow(c)
  BY <1>4, BesideKeepsPlaces DEF SaveModel, PullFile, PullRow, fileVars, ghosts
<1>9. CASE (\E names \in SUBSET Cert : Import(names)) \/ Imported
  BY <1>9, BesideKeepsPlaces DEF Import, Imported, fileVars, ghosts
<1>5. CASE \E c \in Cert, b \in BOOLEAN : Toggle(c, b) \/ Delete(c, b)
  BY <1>5, BesideKeepsPlaces DEF Toggle, Delete, fileVars, ghosts
<1>6. CASE Reload \/ Restart \/ Start
  BY <1>6 DEF Reload, Restart, Start, Running, Starts
<1>7. CASE Dies
  BY <1>7 DEF Dies, ghosts
<1>8. ASSUME NEW host \in BOOLEAN, Crash(host) PROVE PlaceInv'
  BY <1>8 DEF Crash, Idle
<1> QED
  BY <1>1, <1>2, <1>3, <1>4, <1>5, <1>6, <1>7, <1>8, <1>9 DEF Next, ReadingStep

-----------------------------------------------------------------------------
\* The certificates.

\* A step that installs or puts back files that are there.
LEMMA InstallKeepsCerts ==
    ASSUME TypeInv, CertInv, op.pc \in Staging \cup Rolling \cup {"cfg", "load", "verify"},
           UNCHANGED <<files, rows>>, unkept \subseteq unkept',
           op'.kind = op.kind, op'.cand = op.cand, op'.before = op.before,
           op'.pc \notin Staging,
           Listed(live'.crt) \subseteq files \cup unkept'
    PROVE  CertInv'
BY DEF CertInv, Kept, Superseded, Twice, Clean, Staging, Preparing, Rolling

\* A step of Apply before its candidate is complete.
LEMMA PreparingKeepsCerts ==
    ASSUME TypeInv, CertInv, ReadingStep \/ \E end \in Ends : ListFound(end) \/ ListAgain(end) \/ Compare(end)
    PROVE  CertInv'
<1> USE DEF TypeInv, Op, CertInv, Kept, Staging, Preparing, Rolling, Go, Done, Call
<1>1. CASE AdoptFound
  <2>1. /\ Clean(rows') /\ Superseded(rows') \subseteq Superseded(rows) /\ Twice(rows) \subseteq Twice(rows')
    BY <1>1, AdoptedRows DEF AdoptFound
  <2> QED
    BY <1>1, <2>1 DEF AdoptFound, fileVars, ghosts
<1>2. CASE CountEnabled
  BY <1>2 DEF CountEnabled, certVars, fileVars, ghosts, Superseded, Twice, Clean
<1>3. CASE ReadModel
  BY <1>3 DEF ReadModel, certVars, fileVars, ghosts, Superseded, Twice, Clean, FileSets
<1>4. CASE ReadCrtList
  <2>1. /\ op'.pc = "compare" /\ op'.before = op.before /\ op'.cand.crt = CrtList(rows) /\ op.pc = "crtlist"
        /\ UNCHANGED <<files, rows, live, unkept>>
    BY <1>4 DEF ReadCrtList, certVars, fileVars, ghosts, FileSets
  <2>2. Listed(CrtList(rows)) \cap Superseded(rows) \subseteq Twice(rows)
    <3>1. ASSUME NEW c \in Listed(CrtList(rows)), c \in Superseded(rows) PROVE c \in Twice(rows)
      <4>1. PICK i \in DOMAIN rows[c], j \in DOMAIN rows[c] :
                rows[c][i].enabled /\ rows[c][j].superseded /\ ~rows[c][j].enabled
        BY <3>1, CrtListOfRows DEF Enabled, Superseded
      <4>2. c \in Cert /\ rows[c] \in Seq(Row) /\ i # j
        BY <3>1, <4>1 DEF Superseded
      <4>3. Len(rows[c]) \in Nat /\ i \in 1..Len(rows[c]) /\ j \in 1..Len(rows[c])
        BY <4>1, <4>2
      <4>4. Len(rows[c]) > 1
        BY <4>2, <4>3
      <4> QED
        BY <4>2, <4>4 DEF Twice
    <3> QED
      BY <3>1
  <2> QED
    BY <2>1, <2>2 DEF Superseded, Twice, Clean
<1>5. ASSUME NEW end \in Ends, ListFound(end) PROVE CertInv'
  BY <1>5 DEF ListFound, certVars, fileVars, ghosts, Superseded, Twice, Clean
<1>6. ASSUME NEW end \in Ends, ListAgain(end) PROVE CertInv'
  BY <1>6 DEF ListAgain, certVars, fileVars, ghosts, Superseded, Twice, Clean
<1>7. ASSUME NEW end \in Ends, Compare(end) PROVE CertInv'
  BY <1>7 DEF Compare, certVars, fileVars, ghosts, Superseded, Twice, Clean
<1> QED
  BY <1>1, <1>2, <1>3, <1>4, <1>5, <1>6, <1>7 DEF ReadingStep

LEMMA StepsKeepCerts ==
    ASSUME TypeInv, PlaceInv, CertInv, NEW end \in Ends, Steps(end)
    PROVE  CertInv'
<1> USE DEF TypeInv, Op, CertInv, Kept, Staging, Preparing, Rolling, Go, Done, RollBack, Call
<1>1. CASE Validate(end)
  BY <1>1 DEF Validate, certVars, fileVars, ghosts, Loads, Superseded, Twice, Clean
<1>2. CASE BackupList(end) \/ BackupWrite(end) \/ Prune(end) \/ Status(end)
  <2>1. UNCHANGED <<files, rows, live, unkept>> /\ op.pc \in {"list", "backup", "status"}
    BY <1>2 DEF BackupList, BackupWrite, Prune, Status, certVars, fileVars, ghosts
  <2>2. /\ op'.kind = op.kind /\ op'.cand = op.cand /\ op'.before = op.before
        /\ op'.pc \in {"backup", "status", "crt", "done"}
    <3>1. CASE BackupList(end) \/ Status(end)
      BY <3>1 DEF BackupList, Status
    <3>2. CASE BackupWrite(end) \/ Prune(end)
      BY <3>2 DEF BackupWrite, Prune
    <3> QED
      BY <1>2, <3>1, <3>2
  <2> QED
    BY <2>1, <2>2 DEF Superseded, Twice, Clean
<1>3. CASE InstallCrt(end)
  <2>1. /\ op.pc = "crt" /\ UNCHANGED <<files, rows>>
        /\ live' \in {live, [live EXCEPT !.crt = op.cand.crt]}
        /\ Call(end, Go("cfg")) \/ Call(end, Done("rolled_back"))
        /\ unkept' = unkept \cup IF op.cand.cfg = Original THEN Listed(op.cand.crt) \ files ELSE {}
    BY <1>3 DEF InstallCrt, certVars, Leaves, Ends
  <2>2. Listed(op.cand.crt) \subseteq files \cup unkept' /\ unkept \subseteq unkept'
    BY <2>1
  <2>3. Listed(live'.crt) \subseteq files \cup unkept'
    BY <2>1, <2>2 DEF FileSets
  <2>4. op'.pc \in {"cfg", "done"} /\ op'.kind = op.kind /\ op'.cand = op.cand /\ op'.before = op.before
    BY <2>1
  <2> QED
    BY <2>1, <2>2, <2>3, <2>4, InstallKeepsCerts
<1>4. CASE InstallCfg(end)
  <2>1. /\ op.pc = "cfg" /\ UNCHANGED <<files, rows, unkept>>
        /\ live'.crt = live.crt
        /\ \/ Call(end, [op EXCEPT !.pc = "load", !.cfgIn = TRUE])
           \/ Call(end, RollBack(op.active))
    BY <1>4 DEF InstallCfg, certVars, Leaves, Ends, ghosts, FileSets
  <2>2. op'.pc \in {"load", "rbcfg"} /\ op'.kind = op.kind /\ op'.cand = op.cand /\ op'.before = op.before
    BY <2>1
  <2> QED
    BY <2>1, <2>2, InstallKeepsCerts
<1>5. CASE Load(end)
  BY <1>5 DEF Load, certVars, ghosts, Superseded, Twice, Clean
<1>6. CASE Verify(end)
  BY <1>6 DEF Verify, certVars, fileVars, ghosts, Superseded, Twice, Clean
<1>7. CASE RestoreCfg(end)
  <2>1. /\ op.pc = "rbcfg" /\ UNCHANGED <<files, rows, unkept>> /\ live'.crt = live.crt
        /\ Call(end, Erred(Go("rbcrt"), end # "ok")) \/ op' = Go("rbcrt")
    BY <1>7 DEF RestoreCfg, certVars, Leaves, Ends, ghosts, FileSets
  <2>2. op'.pc = "rbcrt" /\ op'.kind = op.kind /\ op'.cand = op.cand /\ op'.before = op.before
    <3>1. CASE Call(end, Erred(Go("rbcrt"), end # "ok"))
      <4>1. "rbcrt" \in Places /\ (end # "ok") \in BOOLEAN
        BY RollingPlaces
      <4> QED
        BY ONLY TypeInv, <3>1, <4>1, ErredFields
    <3>2. CASE op' = Go("rbcrt")
      BY <3>2
    <3> QED
      BY <2>1, <3>1, <3>2
  <2> QED
    BY <2>1, <2>2, InstallKeepsCerts
<1>8. CASE RestoreCrt(end)
  <2>1. /\ op.pc = "rbcrt" /\ UNCHANGED <<files, rows, unkept>>
        /\ live' \in {live, [live EXCEPT !.crt = op.before.crt]}
        /\ Call(end, Erred(Go("rbload"), end # "ok"))
    BY <1>8 DEF RestoreCrt, certVars, Leaves, Ends, ghosts
  <2>2. op'.pc = "rbload" /\ op'.kind = op.kind /\ op'.cand = op.cand /\ op'.before = op.before
    <3>1. "rbload" \in Places /\ (end # "ok") \in BOOLEAN
      BY RollingPlaces
    <3> QED
      BY ONLY TypeInv, <2>1, <3>1, ErredFields
  <2>3. Listed(live'.crt) \subseteq files \cup unkept'
    BY <2>1 DEF FileSets
  <2> QED
    BY <2>1, <2>2, <2>3, InstallKeepsCerts
<1>9. CASE ReloadOld(end)
  <2>1. op.pc = "rbload" /\ UNCHANGED <<files, rows, unkept, live>>
    BY <1>9 DEF ReloadOld, certVars, ghosts
  <2>2. op'.pc = "done" /\ op'.kind = op.kind /\ op'.cand = op.cand /\ op'.before = op.before
    BY <1>9, ReloadOldFields
  <2> QED
    BY <2>1, <2>2, InstallKeepsCerts
<1>10. CASE ListSuperseded(end)
  <2>1. op.pc = "sweep" /\ UNCHANGED <<files, rows, unkept, live>>
    BY <1>10 DEF ListSuperseded, certVars, fileVars, ghosts
  <2>2. op'.pc \in {"remove", "done"} /\ op'.kind = op.kind /\ op'.cand = op.cand /\ op'.before = op.before
    BY <1>10 DEF ListSuperseded, Call, Done, TypeInv, Op
  <2> QED
    BY <2>1, <2>2 DEF Superseded, Twice, Clean
<1>11. CASE DropSuperseded(end)
  <2>1. /\ op.pc = "remove" /\ RemoveSuperseded(op.names, end = "ok") /\ (end = "ok") \in BOOLEAN
        /\ Call(end, Done("applied")) /\ UNCHANGED live
        /\ unkept' = unkept \cup (op.names \cap Superseded(rows) \cap Twice(rows))
    BY <1>11 DEF DropSuperseded, fileVars, Twice
  <2>2. op.kind = "apply" /\ live = op.cand
    BY <2>1 DEF PlaceInv, Applied
  <2>3. Clean(rows') /\ files \ (op.names \cap Superseded(rows)) \subseteq files'
    BY <2>1, DroppedRows
  <2>4. Listed(live.crt) \cap Superseded(rows) \subseteq unkept \cup Twice(rows)
    BY <2>1, <2>2
  <2>5. Listed(live.crt) \subseteq files' \cup unkept'
    BY <2>1, <2>3, <2>4
  <2>6. Listed(live.crt) \cap Superseded(rows') \subseteq unkept' \cup Twice(rows')
    <3>1. \A c \in Cert : rows'[c] = rows[c] \/ rows'[c] = <<>>
      BY <2>1 DEF RemoveSuperseded
    <3>2. ASSUME NEW c \in Superseded(rows') PROVE c \in Cert /\ rows'[c] = rows[c] /\ c \in Superseded(rows)
      BY <3>1, <3>2 DEF Superseded
    <3> QED
      BY <2>1, <2>4, <3>2 DEF Twice
  <2>7. op'.pc = "done" /\ op'.cand = op.cand
    BY <2>1
  <2> QED
    BY <2>1, <2>2, <2>3, <2>5, <2>6, <2>7
<1>12. CASE ListFound(end) \/ ListAgain(end) \/ Compare(end)
  BY <1>12, PreparingKeepsCerts
<1> QED
  BY <1>1, <1>2, <1>3, <1>4, <1>5, <1>6, <1>7, <1>8, <1>9, <1>10, <1>11, <1>12 DEF Steps

\* What happens to certs.json beside a request, if it supersedes nothing.
LEMMA BesideKeepsCerts ==
    ASSUME CertInv, Clean(rows'), Superseded(rows') \subseteq Superseded(rows), Twice(rows) \subseteq Twice(rows'),
           files \subseteq files', UNCHANGED <<live, op, unkept>>
    PROVE  CertInv'
BY DEF CertInv, Kept

LEMMA NextKeepsCerts ==
    ASSUME TypeInv, PlaceInv, CertInv, Next
    PROVE  CertInv'
<1> USE DEF TypeInv, Op, CertInv, Kept, Staging, Preparing, Rolling
<1>1. CASE Apply \/ ReadingStep
  <2>1. CASE Apply
    <3>1. Listed(Down.crt) = {}
      BY DEF Down, Listed
    <3> QED
      BY <2>1, <3>1 DEF Apply, Begin, Idle, certVars, fileVars, ghosts, Superseded, Twice, Clean
  <2> QED
    BY <1>1, <2>1, PreparingKeepsCerts
<1>2. ASSUME NEW b \in baks, Restore(b) PROVE CertInv'
  <2>1. PICK cand : Begin("restore", "validate", cand)
    BY <1>2 DEF Restore
  <2> QED
    BY <2>1 DEF Begin, Idle, certVars, fileVars, ghosts, Superseded, Twice, Clean
<1>3. ASSUME NEW end \in Ends, Steps(end) PROVE CertInv'
  BY <1>3, StepsKeepCerts
<1>4. CASE Answer
  BY <1>4 DEF Answer, Idle, certVars, fileVars
<1>5. CASE SaveModel
  BY <1>5, BesideKeepsCerts DEF SaveModel, certVars, fileVars, ghosts, Superseded, Twice, Clean
<1>6. ASSUME NEW c \in Cert, PullFile(c) PROVE CertInv'
  BY <1>6, BesideKeepsCerts DEF PullFile, PullWrite, fileVars, ghosts, Superseded, Twice, Clean
<1>7. ASSUME NEW c \in Cert, PullRow(c) PROVE CertInv'
  <2>1. files' = files /\ files \cup unkept \subseteq files' \cup unkept' /\ UNCHANGED <<live, op>>
    BY <1>7 DEF PullRow, PullTrack, fileVars
  <2>2. Clean(rows')
    BY <1>7, TrackedRows DEF PullRow, PullTrack
  <2>3. op.kind = "apply" => Listed(op.cand.crt) \cap Superseded(rows') \subseteq unkept'
    BY <1>7 DEF PullRow
  <2> QED
    BY <2>1, <2>2, <2>3
<1>8. ASSUME NEW c \in Cert, NEW b \in BOOLEAN, Toggle(c, b) PROVE CertInv'
  <2>1. /\ Clean(rows') /\ Superseded(rows') \subseteq Superseded(rows) /\ Twice(rows) \subseteq Twice(rows')
    BY <1>8, ToggledRows DEF Toggle
  <2> QED
    BY <1>8, <2>1, BesideKeepsCerts DEF Toggle, SetEnabled, fileVars, ghosts
<1>9. ASSUME NEW c \in Cert, NEW b \in BOOLEAN, Delete(c, b) PROVE CertInv'
  <2>1. Clean(rows')
    BY <1>9, RemovedRows DEF Delete
  <2> QED
    BY <1>9, <2>1 DEF Delete, Remove, fileVars, ghosts
<1>10. CASE Reload \/ Restart \/ Start \/ Dies
  BY <1>10, BesideKeepsCerts DEF Reload, Restart, Start, Dies, Running, certVars, ghosts, Superseded, Twice, Clean
<1>11. ASSUME NEW host \in BOOLEAN, Crash(host) PROVE CertInv'
  <2>1. Clean(rows')
    BY <1>11, AdoptedRows DEF Crash
  <2> QED
    BY <1>11, <2>1 DEF Crash, Idle
<1>12. CASE (\E names \in SUBSET Cert : Import(names)) \/ Imported
  <2>1. CASE \E names \in SUBSET Cert : Import(names)
    BY <2>1, BesideKeepsCerts DEF Import, ImportList, fileVars, ghosts, Superseded, Twice, Clean
  <2>2. CASE Imported
    BY <2>2, BesideKeepsCerts, AdoptedRows DEF Imported, ImportRows, fileVars, ghosts
  <2> QED
    BY <1>12, <2>1, <2>2
<1> QED
  BY <1>1, <1>2, <1>3, <1>4, <1>5, <1>6, <1>7, <1>8, <1>9, <1>10, <1>11, <1>12 DEF Next, ReadingStep

-----------------------------------------------------------------------------
\* The backups.

\* A request that goes on to another place with its copies saved, or ends.
LEMMA SavedStays ==
    ASSUME TypeInv, BackupInv, UNCHANGED <<baks, requests>>, op'.before = op.before,
           op'.pc \in {"sweep", "remove", "done"} \/
              (op.pc \in {"status", "crt", "cfg", "load", "verify"} \cup Rolling
                 /\ op'.pc \in {"status", "crt", "cfg", "load", "verify"} \cup Rolling),
           op.pc # "idle"
    PROVE  BackupInv'
BY DEF BackupInv, Saved, Copy, Rolling

LEMMA BackupKeepsBackups ==
    ASSUME TypeInv, BackupInv, NEW end \in Ends,
           BackupList(end) \/ BackupWrite(end) \/ Prune(end)
    PROVE  BackupInv'
<1> USE DEF TypeInv, BackupInv, Rolling
<1>1. CASE BackupList(end)
  <2> DEFINE all == Copies(baks = {})
  <2>1. /\ op.pc = "list" /\ UNCHANGED <<baks, requests>> /\ requests >= 1
        /\ Call(end, [op EXCEPT !.pc = "backup", !.todo = all]) \/ Call(end, Done("error"))
    BY <1>1 DEF BackupList, fileVars
  <2>2. /\ Own(all)
        /\ op.before.cfg # NoFile => \E i \in DOMAIN all : Copy(all[i], "cfg")
        /\ op.before.crt # NoFile => \E i \in DOMAIN all : Copy(all[i], "crt")
    BY <2>1, CopiesOfFound
  <2> HIDE DEF all
  <2>3. CASE Call(end, [op EXCEPT !.pc = "backup", !.todo = all])
    <3>1. op'.pc = "backup" /\ op'.todo = all /\ op'.before = op.before
      BY <2>3 DEF Call, Op
    <3> QED
      BY <2>1, <2>2, <3>1 DEF Coming, Copy, Own
  <2>4. CASE Call(end, Done("error"))
    BY <2>1, <2>4 DEF Call, Done, Op
  <2> QED
    BY <2>1, <2>3, <2>4
<1>2. CASE BackupWrite(end)
  <2>1. PICK b, rest : b = Head(op.todo) /\ rest = Tail(op.todo)
    OBVIOUS
  <2>2. /\ op.pc = "backup" /\ op.todo # <<>> /\ UNCHANGED requests
        /\ baks' \subseteq baks \cup {b} /\ baks \subseteq baks'
        /\ \/ baks' = baks \cup {b} /\ Call(end, [op EXCEPT !.todo = rest])
           \/ Call(end, Done("error"))
    BY <1>2, <2>1 DEF BackupWrite, Leaves, Ends
  <2>3. /\ Own(op.todo) /\ b = op.todo[1] /\ b.ts = requests
        /\ \A i \in DOMAIN op.todo : i # 1 => i - 1 \in DOMAIN rest /\ rest[i - 1] = op.todo[i]
        /\ Own(rest)
    <3>1. op.todo \in Seq(Backup) /\ \A i \in DOMAIN op.todo : op.todo[i].ts = requests
      BY <2>2 DEF Own
    <3>2. /\ rest \in Seq(Backup) /\ Len(rest) = Len(op.todo) - 1
          /\ \A i \in 1..Len(rest) : rest[i] = op.todo[i + 1]
      BY <2>1, <2>2, <3>1, HeadTailProperties
    <3>3. b = op.todo[1] /\ 1 \in DOMAIN op.todo
      BY <2>1, <2>2, <3>1
    <3>4. \A i \in DOMAIN rest : i + 1 \in DOMAIN op.todo
      BY <3>1, <3>2
    <3>5. Own(rest)
      BY <3>1, <3>2, <3>4 DEF Own
    <3>6. ASSUME NEW i \in DOMAIN op.todo, i # 1
          PROVE  i - 1 \in DOMAIN rest /\ rest[i - 1] = op.todo[i]
      <4>1. i \in Nat /\ i - 1 \in 1..Len(rest) /\ (i - 1) + 1 = i
        BY <3>1, <3>2, <3>6
      <4>2. rest[i - 1] = op.todo[(i - 1) + 1] /\ DOMAIN rest = 1..Len(rest)
        BY <3>2, <4>1
      <4> QED
        BY <4>1, <4>2
    <3> QED
      BY <2>2, <3>1, <3>3, <3>5, <3>6
  <2>4. \A x \in baks' : x.ts <= requests
    BY <2>2, <2>3
  <2>5. CASE baks' = baks \cup {b} /\ Call(end, [op EXCEPT !.todo = rest])
    <3>1. op'.pc = "backup" /\ op'.todo = rest /\ op'.before = op.before
      BY <2>2, <2>5 DEF Call, Op
    <3>2. ASSUME NEW kind, NEW c, Copy(c, kind) PROVE Copy(c, kind)'
      BY <2>2, <3>1, <3>2 DEF Copy
    <3>3. ASSUME NEW kind, Coming(kind) \/ Saved(kind)
          PROVE  Coming(kind)' \/ Saved(kind)'
      <4>1. CASE Saved(kind)
        BY <2>2, <3>2, <4>1 DEF Saved
      <4>2. CASE Coming(kind)
        <5>1. PICK i \in DOMAIN op.todo : Copy(op.todo[i], kind)
          BY <4>2 DEF Coming
        <5>2. PICK c : c = op.todo[i]
          OBVIOUS
        <5>3. Copy(c, kind)'
          BY <3>2, <5>1, <5>2
        <5>4. CASE i = 1
          BY <2>3, <2>5, <5>2, <5>3, <5>4 DEF Saved
        <5>5. CASE i # 1
          BY <2>3, <3>1, <5>1, <5>2, <5>3, <5>5 DEF Coming
        <5> QED
          BY <5>4, <5>5
      <4> QED
        BY <3>3, <4>1, <4>2
    <3>4. Own(rest)'
      BY <2>2, <2>3 DEF Own
    <3>5. Own(op.todo)'
      BY <3>1, <3>4 DEF Own
    <3> QED
      BY <2>2, <2>4, <3>1, <3>3, <3>5
  <2>6. CASE Call(end, Done("error"))
    BY <2>2, <2>4, <2>6 DEF Call, Done, Op
  <2> QED
    BY <2>2, <2>5, <2>6
<1>3. CASE Prune(end)
  <2>1. /\ op.pc = "backup" /\ op.todo = <<>> /\ UNCHANGED requests
        /\ baks' \in {baks, baks \ Surplus} /\ Call(end, Go("status"))
    BY <1>3 DEF Prune, Leaves, Ends
  <2>2. op'.pc = "status" /\ op'.before = op.before
    BY <2>1 DEF Call, Go, Op
  <2>3. ASSUME NEW b \in baks, b.ts = requests PROVE b \notin Surplus
    <3>1. \A x \in baks : ~(x.ts > b.ts)
      BY <2>3 DEF Backup
    <3>2. {x \in baks : x.kind = b.kind /\ ~x.orig /\ x.ts > b.ts} = {}
      BY <3>1
    <3>3. Cardinality({x \in baks : x.kind = b.kind /\ ~x.orig /\ x.ts > b.ts}) = 0
      BY <3>2, FS_EmptySet
    <3> QED
      BY <3>3, ApplyAssumption DEF Surplus, ApplyAssumption
  <2>4. ASSUME NEW kind, Saved(kind) PROVE Saved(kind)'
    BY <2>1, <2>2, <2>3, <2>4 DEF Saved, Copy
  <2>5. \A kind : ~Coming(kind)
    BY <2>1 DEF Coming
  <2> QED
    BY <2>1, <2>2, <2>4, <2>5
<1> QED
  BY <1>1, <1>2, <1>3

LEMMA PreparingKeepsBackups ==
    ASSUME TypeInv, BackupInv,
           ReadingStep \/ \E end \in Ends : ListFound(end) \/ ListAgain(end) \/ Compare(end)
    PROVE  BackupInv'
<1> USE DEF TypeInv, Op, Go, Done, Call, fileVars, boundVars
<1> DEFINE goes == /\ op.pc # "idle" /\ UNCHANGED <<baks, requests>>
                   /\ op'.pc \in Preparing \cup {"validate", "done"}
<1>1. goes
  <2>1. CASE AdoptFound \/ CountEnabled
    BY <2>1 DEF AdoptFound, CountEnabled, Preparing
  <2>2. CASE ReadModel \/ ReadCrtList
    BY <2>2 DEF ReadModel, ReadCrtList, Preparing
  <2>3. ASSUME NEW end \in Ends, ListFound(end) PROVE goes
    BY <2>3 DEF ListFound, Preparing
  <2>4. ASSUME NEW end \in Ends, ListAgain(end) PROVE goes
    BY <2>4 DEF ListAgain, Preparing
  <2>5. ASSUME NEW end \in Ends, Compare(end) PROVE goes
    BY <2>5 DEF Compare, Preparing
  <2> QED
    BY <2>1, <2>2, <2>3, <2>4, <2>5 DEF ReadingStep
<1> QED
  BY <1>1 DEF BackupInv, Preparing, Rolling

LEMMA StepsKeepBackups ==
    ASSUME TypeInv, BackupInv, NEW end \in Ends, Steps(end)
    PROVE  BackupInv'
<1> USE DEF TypeInv, Op
<1>1. CASE Validate(end)
  BY <1>1 DEF Validate, Call, Go, Done, fileVars, BackupInv, Rolling
<1>2. CASE BackupList(end) \/ BackupWrite(end) \/ Prune(end)
  BY <1>2, BackupKeepsBackups
<1>3. CASE Status(end) \/ InstallCrt(end) \/ InstallCfg(end) \/ Load(end) \/ Verify(end)
  <2>1. /\ op.pc \in {"status", "crt", "cfg", "load", "verify"} /\ UNCHANGED <<baks, requests>>
        /\ op'.before = op.before /\ op'.pc \in {"crt", "cfg", "load", "verify", "rbcfg", "sweep", "done"}
    <3> USE DEF Call, Go, Done, RollBack, fileVars
    <3>1. CASE Status(end) \/ InstallCrt(end) \/ InstallCfg(end)
      BY <3>1 DEF Status, InstallCrt, InstallCfg
    <3>2. CASE Load(end)
      BY <3>2 DEF Load
    <3>3. CASE Verify(end)
      BY <3>3 DEF Verify
    <3> QED
      BY <1>3, <3>1, <3>2, <3>3
  <2> QED
    BY <2>1, SavedStays DEF Rolling
<1>4. CASE RestoreCfg(end) \/ RestoreCrt(end)
  <2>1. /\ op.pc \in Rolling /\ UNCHANGED <<baks, requests>>
        /\ \/ Call(end, Erred(Go("rbcrt"), end # "ok")) \/ Call(end, Erred(Go("rbload"), end # "ok"))
           \/ op' = Go("rbcrt")
    BY <1>4 DEF RestoreCfg, RestoreCrt, Rolling
  <2>2. op'.pc \in {"rbcrt", "rbload"} /\ op'.before = op.before
    <3>1. CASE op' = Go("rbcrt")
      BY <3>1 DEF Go
    <3>2. CASE Call(end, Erred(Go("rbcrt"), end # "ok")) \/ Call(end, Erred(Go("rbload"), end # "ok"))
      BY <3>2, ErredFields DEF Places, Rolling
    <3> QED
      BY <2>1, <3>1, <3>2
  <2> QED
    BY <2>1, <2>2, SavedStays DEF Rolling
<1>5. CASE ReloadOld(end)
  <2>1. op.pc = "rbload" /\ UNCHANGED <<baks, requests>>
    BY <1>5 DEF ReloadOld
  <2> QED
    BY <1>5, <2>1, ReloadOldFields, SavedStays
<1>6. CASE ListSuperseded(end) \/ DropSuperseded(end)
  <2>1. /\ op.pc # "idle" /\ UNCHANGED <<baks, requests>> /\ op'.before = op.before
        /\ op'.pc \in {"remove", "done"}
    BY <1>6 DEF ListSuperseded, DropSuperseded, Call, Go, Done, fileVars
  <2> QED
    BY <2>1, SavedStays
<1>7. CASE ListFound(end) \/ ListAgain(end) \/ Compare(end)
  BY <1>7, PreparingKeepsBackups
<1> QED
  BY <1>1, <1>2, <1>3, <1>4, <1>5, <1>6, <1>7 DEF Steps

LEMMA BeginFields ==
    ASSUME NEW kind, NEW pc, NEW cand, Begin(kind, pc, cand)
    PROVE  UNCHANGED baks /\ requests' = requests + 1 /\ op'.pc = pc
BY DEF Begin, Idle, fileVars

LEMMA NextKeepsBackups ==
    ASSUME TypeInv, BackupInv, Next
    PROVE  BackupInv'
<1> USE DEF TypeInv, BackupInv, Rolling
<1>1. CASE Apply \/ \E b \in baks : Restore(b)
  <2>1. \E kind, cand : \E pc \in {"found", "validate"} : Begin(kind, pc, cand)
    BY <1>1 DEF Apply, Restore
  <2>2. /\ UNCHANGED baks /\ requests' = requests + 1 /\ op'.pc \in {"found", "validate"}
    BY <2>1, BeginFields
  <2> QED
    BY <2>2 DEF Backup
<1>8. CASE ReadingStep
  BY <1>8, PreparingKeepsBackups
<1>2. ASSUME NEW end \in Ends, Steps(end) PROVE BackupInv'
  BY <1>2, StepsKeepBackups
<1>3. CASE Answer \/ \E host \in BOOLEAN : Crash(host)
  <2>1. op' = Idle /\ UNCHANGED <<baks, requests>>
    BY <1>3 DEF Answer, Crash, fileVars, boundVars
  <2> QED
    BY <2>1 DEF Idle
<1>4. CASE UNCHANGED <<op, baks, requests>>
  BY <1>4 DEF Saved, Coming, Copy, Own
<1>5. CASE SaveModel \/ \E c \in Cert : PullFile(c) \/ PullRow(c)
  BY <1>4, <1>5 DEF SaveModel, PullFile, PullRow, fileVars, boundVars
<1>9. CASE (\E names \in SUBSET Cert : Import(names)) \/ Imported
  BY <1>4, <1>9 DEF Import, Imported, fileVars, boundVars
<1>6. CASE \E c \in Cert, b \in BOOLEAN : Toggle(c, b) \/ Delete(c, b)
  BY <1>4, <1>6 DEF Toggle, Delete, fileVars
<1>7. CASE Reload \/ Restart \/ Start \/ Dies
  BY <1>4, <1>7 DEF Reload, Restart, Start, Dies, Running, boundVars
<1> QED
  BY <1>1, <1>2, <1>3, <1>5, <1>6, <1>7, <1>8, <1>9 DEF Next, ReadingStep

-----------------------------------------------------------------------------
LEMMA Initial == Init => IInv
<1> SUFFICES ASSUME Init PROVE IInv
  OBVIOUS
<1> USE DEF Init, CertInit
<1>1. rows \in [Cert -> Seq(Row)] /\ Clean(rows)
  <2>1. [c \in Cert |-> <<>>] \in [Cert -> Seq(Row)] /\ Clean([c \in Cert |-> <<>>])
    BY DEF Clean
  <2> QED
    BY <2>1, AdoptedRows
<1>5. TypeInv
  <2>2. live \in FileSets /\ loaded \in FileSets
    BY FileSetTypes DEF FileSets
  <2>3. model \in Models
    BY ApplyAssumption DEF ApplyAssumption, Models
  <2>4. requests \in 0..MaxRequests /\ faults \in 0..MaxFaults /\ pulls \in 0..MaxPulls
    BY ApplyAssumption DEF ApplyAssumption
  <2> QED
    BY <1>1, <2>2, <2>3, <2>4, CertAssumption, IdleType DEF TypeInv, CertAssumption
<1>2. PlaceInv
  BY DEF PlaceInv, Staged, Installing, Applied, RollingBack, RanWhatWasLive, OutcomeIsTrue,
         RunsWhatIsLive, Idle, Staging, Preparing, Rolling
<1>3. CertInv
  <2>1. Listed(live.crt) = {} /\ op.pc = "idle"
    BY DEF Idle, Listed
  <2> QED
    BY <1>1, <2>1 DEF CertInv, Kept, Staging, Preparing, Rolling
<1>4. BackupInv
  BY DEF BackupInv, Idle, Rolling
<1> QED
  BY <1>2, <1>3, <1>4, <1>5 DEF IInv

LEMMA StepKeeps == IInv /\ [Next]_vars => IInv'
<1> SUFFICES ASSUME IInv, [Next]_vars PROVE IInv'
  OBVIOUS
<1>1. CASE Next
  <2>1. TypeInv'
    BY <1>1, NextKeepsTypes DEF IInv, BackupInv, CertInv
  <2>2. PlaceInv' /\ CertInv' /\ BackupInv'
    BY <1>1, NextKeepsPlaces, NextKeepsCerts, NextKeepsBackups DEF IInv
  <2> QED
    BY <2>1, <2>2 DEF IInv
<1>2. CASE UNCHANGED vars
  BY <1>2 DEF vars, certVars, fileVars, boundVars, ghosts, IInv, TypeInv, PlaceInv, Staged, Installing,
     Applied, RollingBack, RanWhatWasLive, OutcomeIsTrue, RunsWhatIsLive, Untouched, FirstInstall,
     CertInv, Kept, Superseded, Twice, Clean, BackupInv, Coming, Saved, Copy, Own
<1> QED
  BY <1>1, <1>2

\* Types, the place of files and process in each request, the certificates the
\* lists name, and the backups, for any of the constants (apply.go, backup.go).
THEOREM ApplyInvariant == Spec => []IInv
<1> QED
  BY Initial, StepKeeps, PTL DEF Spec

\* Every variable keeps its type, and only a request that is done, or in its
\* cleanup, has an outcome.
THEOREM ApplyTypes == Spec => []TypeOK
<1>1. IInv => TypeOK
  <2> SUFFICES ASSUME IInv PROVE TypeOK
    OBVIOUS
  <2>1. TypeInv /\ Staged
    BY DEF IInv, PlaceInv
  <2>2. \A b \in baks : b.kind \in {"cfg", "crt"} /\ b.ts \in 1..MaxRequests /\ b.orig \in BOOLEAN
    BY <2>1 DEF TypeInv, Backup
  <2>3. op.outcome # "none" => op.pc \in {"done", "sweep", "remove"}
    BY <2>1 DEF TypeInv, Op, Places, Staged
  <2> QED
    BY <2>1, <2>2, <2>3 DEF TypeInv, TypeOK, CertTypeOK, Op
<1> QED
  BY <1>1, ApplyInvariant, PTL

\* Whatever call fails, and however often, the answer of an Apply or Restore whose
\* page has not gone says what is live and what runs (run, rollback, apply.go).
THEOREM AnswersAreTrue == Spec => []OutcomeIsTrue
<1>1. IInv => OutcomeIsTrue
  BY DEF IInv, PlaceInv
<1> QED
  BY <1>1, ApplyInvariant, PTL

\* After any number of requests, faults and service actions, HAProxy runs what is
\* on disk, or nothing, unless a crash, a closed page or a failed rollback
\* was the last word.
THEOREM AlwaysRunsWhatIsLive == Spec => []RunsWhatIsLive
<1>1. IInv => RunsWhatIsLive
  BY DEF IInv, PlaceInv
<1> QED
  BY <1>1, ApplyInvariant, PTL

\* No order of pulls, toggles, deletions, Applies, Restores and crashes takes the
\* file of a certificate the live list names, but for those in unkept
\* (handler.go, certs.go).
THEOREM AlwaysKeepsLiveCerts == Spec => []LiveCertsKept
<1>1. IInv => LiveCertsKept
  BY DEF IInv, CertInv, Kept, LiveCertsKept
<1> QED
  BY <1>1, ApplyInvariant, PTL

\* For any number of backups kept, pruning never takes the copy of what a
\* request is about to overwrite (backup.go).
THEOREM AlwaysBackedUp == Spec => []FoundIsBackedUp
<1>1. IInv => FoundIsBackedUp
  <2> SUFFICES ASSUME IInv, op.pc \in {"status", "crt", "cfg", "load", "verify", "rbcfg", "rbcrt", "rbload"}
               PROVE  /\ op.before.cfg = NoFile \/ \E b \in baks : b.kind = "cfg" /\ b.text = op.before.cfg
                      /\ op.before.crt = NoFile \/ \E b \in baks : b.kind = "crt" /\ b.text = op.before.crt
    BY DEF FoundIsBackedUp
  <2>1. /\ op.before.cfg # NoFile => Saved("cfg")
        /\ op.before.crt # NoFile => Saved("crt")
    BY DEF IInv, BackupInv, Rolling
  <2> QED
    BY <2>1 DEF Saved, Copy
<1> QED
  BY <1>1, ApplyInvariant, PTL
=============================================================================
