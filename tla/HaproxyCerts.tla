---------------------------- MODULE HaproxyCerts -----------------------------
(***************************************************************************)
(* The certificates of the HAProxy module (internal/haproxy/certs.go,      *)
(* certimport.go, crtlist.go): the files in the certs directory and the    *)
(* rows of certs.json.  A certificate is its file name, which names its    *)
(* bytes; all those of an instance are for one host.  Nothing in           *)
(* certs.json keeps a name to one row.                                     *)
(***************************************************************************)
EXTENDS Naturals, FiniteSets, Sequences

CONSTANTS
    Cert,           \* file names
    Found,          \* files that are in the directory before the first start
    Plain           \* names "<host>.pem"; a pull's file has a hash in its name

ASSUME CertAssumption == Found \subseteq Cert /\ Plain \subseteq Cert

VARIABLES
    files,          \* the .pem files in CertsDir
    rows,           \* certs.json: the rows of each name, in their order
    pull,           \* the files pulls under way have written but not yet tracked
    adopting        \* the names the import page's request has found untracked

certVars == <<files, rows, pull, adopting>>

Row == [enabled : BOOLEAN, superseded : BOOLEAN, pulled : BOOLEAN]
Pulled == [enabled |-> TRUE, superseded |-> FALSE, pulled |-> TRUE]

\* The host of a row is the pulled certificate's, or else guessed from the file
\* name, which finds it in a plain name only (fqdnFromFileName).
OfHost(c, r) == r.pulled \/ c \in Plain

Enabled(rs, c) == {i \in DOMAIN rs[c] : rs[c][i].enabled}

\* CrtList: one line per enabled row; so many name each file.
CrtList(rs) == [c \in Cert |-> Cardinality(Enabled(rs, c))]

\* Importable.
Untracked(rs, fs) == {c \in fs : rs[c] = <<>>}

\* Import, once it has its list: a row for each of the names, whatever rows there
\* are by now, enabled unless a pulled certificate of the host is.
Adopted(rs, names) ==
    LET have == \E c \in Cert : \E i \in Enabled(rs, c) : rs[c][i].pulled
        row(c) == [enabled |-> ~(have /\ c \in Plain), superseded |-> FALSE, pulled |-> FALSE]
    IN [c \in Cert |-> IF c \in names THEN Append(rs[c], row(c)) ELSE rs[c]]

\* The second half of PullAndStage: what is tracked by this name becomes the pulled
\* certificate; the host's other rows are superseded, but for those disabled on
\* purpose.
Tracked(rs, c) ==
    LET swapped(d, r) == IF OfHost(d, r) /\ (r.enabled \/ r.superseded)
                         THEN [r EXCEPT !.enabled = FALSE, !.superseded = TRUE] ELSE r
    IN [d \in Cert |-> CASE d # c -> [i \in DOMAIN rs[d] |-> swapped(d, rs[d][i])]
                         [] d = c /\ rs[d] = <<>> -> <<Pulled>>
                         [] OTHER -> [i \in DOMAIN rs[d] |-> Pulled]]

\* Mutant: the cleanup also takes the rows disabled on purpose.
SupersededOrOff(rs) == {c \in Cert : \E i \in DOMAIN rs[c] : ~rs[c][i].enabled}

\* removeSuperseded reads the names to drop; RemoveSuperseded reads them again.
Superseded(rs) == {c \in Cert : \E i \in DOMAIN rs[c] : rs[c][i].superseded /\ ~rs[c][i].enabled}

\* The start tracks what it finds (build).
CertInit ==
    /\ files = Found
    /\ rows = Adopted([c \in Cert |-> <<>>], Found)
    /\ pull = {} /\ adopting = {}

\* PullAndStage: the file first, certs.json afterwards, under its own lock.
PullWrite(c) ==
    /\ c \notin pull \cup Plain
    /\ files' = files \cup {c}
    /\ pull' = pull \cup {c}
    /\ UNCHANGED <<rows, adopting>>

PullTrack(c) ==
    /\ c \in pull
    /\ rows' = Tracked(rows, c)
    /\ pull' = pull \ {c}
    /\ UNCHANGED <<files, adopting>>

\* Import on its own: of the page's names those that are untracked; then, under
\* the lock again, their rows.
ImportList(names) ==
    /\ adopting = {} /\ names # {}
    /\ names \subseteq Untracked(rows, files)
    /\ adopting' = names
    /\ UNCHANGED <<files, rows, pull>>

ImportRows ==
    /\ adopting # {}
    /\ rows' = Adopted(rows, adopting)
    /\ adopting' = {}
    /\ UNCHANGED <<files, pull>>

\* SetEnabled, of the first row of the name; turned on, it is no longer superseded.
SetEnabled(c, b) ==
    /\ rows[c] # <<>> /\ rows[c][1].enabled # b
    /\ rows' = [rows EXCEPT ![c][1].enabled = b, ![c][1].superseded = IF b THEN FALSE ELSE @]
    /\ UNCHANGED <<files, pull, adopting>>

\* Remove: the file, then the first row; saved: did certs.json reach the disk?
Remove(c, saved) ==
    /\ files' = files \ {c}
    /\ rows' = IF saved THEN [rows EXCEPT ![c] = Tail(@)] ELSE rows
    /\ UNCHANGED <<pull, adopting>>

\* RemoveSuperseded: of the names read before, those still superseded, with all
\* their rows.  When it does not get through, some of the files may be gone and
\* every row stays.
RemoveSuperseded(names, through) ==
    LET drop == names \cap Superseded(rows)
    IN /\ \E left \in IF through THEN {{}} ELSE SUBSET drop : files' = files \ (drop \ left)
       /\ rows' = IF through THEN [c \in Cert |-> IF c \in drop THEN <<>> ELSE rows[c]] ELSE rows
       /\ UNCHANGED <<pull, adopting>>

CertTypeOK ==
    /\ files \subseteq Cert /\ pull \subseteq Cert /\ adopting \subseteq Cert
    /\ rows \in [Cert -> Seq(Row)]
=============================================================================
