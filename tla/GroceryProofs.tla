---------------------------- MODULE GroceryProofs ----------------------------
(***************************************************************************)
(* Proofs about GrocerySync and its store, for all rows, edits, refreshes, *)
(* faults and rivals.                                                      *)
(*                                                                         *)
(* The store alone keeps its documents whole, whatever request it serves:  *)
(* memory and file agree but for the rows of kept writes that failed, and  *)
(* no ingredient outlives its recipe.  That the requests it is served are  *)
(* of rows and marks it can hold depends on the page: a request is built   *)
(* from an object when it is sent, long after the closure took hold of the *)
(* object.  So the invariant follows objects through queue, lists, late    *)
(* answers and merges (PageInv), and answers to the steps that adopt them. *)
(*                                                                         *)
(* The second half is about the user's intent.  Of a row no race or fault  *)
(* touched, one request at a time is on its way, what is queued about it   *)
(* is younger, and the youngest closure not yet served asks for what the   *)
(* user wants (SInv); so when all is settled the server holds it.          *)
(***************************************************************************)
EXTENDS GrocerySync, FiniteSetTheorems, WellFoundedInduction, TLAPS

Kinds == {"create", "patch", "toggle", "rename", "delete", "reset"}
Marks == {"needed", "check", "not_needed", "on", "off"}

\* What an edit of each kind may be of.
Fits(kind, e) ==
    /\ kind \in Kinds
    /\ kind # "reset" => e \in Entity
    /\ kind = "patch" => e \in Item
    /\ kind \in {"toggle", "rename"} => e \in Recipe

RequestOK(q) ==
    /\ Fits(q.kind, q.e)
    /\ q.kind \in {"patch", "toggle"} => q.mark \in MarksOf(q.e)

\* A document: every row has a mark of its own sort or is not there.
ListOK(rows) == \A x \in Entity : rows[x] \in MarksOf(x) \cup {Absent}

DocOK(m) ==
    /\ m \in [Entity -> Marks \cup {Absent}] /\ ListOK(m)
    /\ \A g \in Ing : m[g] # Absent => m[RecipeOf[g]] # Absent

StoreInv ==
    /\ DocOK(mem) /\ DocOK(disk)
    /\ dirty \subseteq Entity
    /\ MemoryMatchesDisk

-----------------------------------------------------------------------------
\* The store.

LEMMA MarksAre ==
    /\ \A e \in Entity : MarksOf(e) \subseteq Marks /\ Absent \notin MarksOf(e)
    /\ \A e \in Item : MarksOf(e) = {"needed", "check", "not_needed"}
    /\ \A r \in Recipe : MarksOf(r) = {"on", "off"}
    /\ \A mark : Follows(mark) \in {"needed", "not_needed"}
    /\ \A g \in Ing : g \in Item /\ g \in Entity /\ g \notin Recipe /\ g \notin Free /\ RecipeOf[g] \in Recipe
    /\ \A e \in Item : e \in Entity /\ e \notin Recipe
    /\ \A r \in Recipe : r \in Entity /\ r \notin Item /\ r \notin Ing
BY StoreAssumption DEF StoreAssumption, Entity, Item, MarksOf, Marks, Follows

\* An operation that is not refused leaves a document.
LEMMA ChangedOK ==
    ASSUME NEW m, DocOK(m), NEW q, RequestOK(q), ~Refuses(m, q)
    PROVE  /\ DocOK(Changed(m, q))
           /\ q.kind \in {"create", "toggle", "rename"} => Changed(m, q)[q.e] # Absent
<1> DEFINE n == Changed(m, q)
<1>1. m \in [Entity -> Marks \cup {Absent}] /\ ListOK(m) /\ Fits(q.kind, q.e)
  BY DEF DocOK, RequestOK
<1>2. CASE q.kind = "create"
  <2>1. n = [m EXCEPT ![q.e] = NewMark(m, q.e)] /\ q.e \in Entity
    BY <1>1, <1>2 DEF Changed, Fits
  <2>2. NewMark(m, q.e) \in MarksOf(q.e)
    BY <2>1, MarksAre DEF NewMark, Entity, Item
  <2>3. n[q.e] \in MarksOf(q.e) /\ n[q.e] # Absent /\ \A x \in Entity : x # q.e => n[x] = m[x]
    BY <1>1, <2>1, <2>2, MarksAre
  <2>4. q.e \in Ing => m[RecipeOf[q.e]] # Absent
    BY <1>2 DEF Refuses
  <2>5. \A g \in Ing : n[g] # Absent => n[RecipeOf[g]] # Absent
    BY <2>3, <2>4, MarksAre DEF DocOK
  <2>6. n \in [Entity -> Marks \cup {Absent}]
    BY <1>1, <2>1, <2>2, MarksAre
  <2> HIDE DEF n
  <2> QED
    BY <1>1, <2>3, <2>5, <2>6 DEF DocOK, ListOK, n
<1>3. CASE q.kind = "patch"
  <2>1. n = [m EXCEPT ![q.e] = q.mark] /\ q.e \in Item /\ q.mark \in MarksOf(q.e)
    BY <1>1, <1>3 DEF Changed, Fits, RequestOK
  <2>2. n[q.e] \in MarksOf(q.e) /\ n[q.e] # Absent /\ \A x \in Entity : x # q.e => n[x] = m[x]
    BY <1>1, <2>1, MarksAre
  <2>3. m[q.e] # Absent
    BY <1>3 DEF Refuses
  <2>4. \A g \in Ing : n[g] # Absent => n[RecipeOf[g]] # Absent
    BY <2>1, <2>2, <2>3, MarksAre DEF DocOK
  <2>5. n \in [Entity -> Marks \cup {Absent}]
    BY <1>1, <2>1, MarksAre
  <2> HIDE DEF n
  <2> QED
    BY <1>1, <1>3, <2>2, <2>4, <2>5 DEF DocOK, ListOK, n
<1>4. CASE q.kind = "toggle"
  <2> DEFINE F(x) == CASE x = q.e -> q.mark
                       [] x \in Owned(q.e) /\ m[x] # Absent -> Follows(q.mark)
                       [] OTHER -> m[x]
  <2>1. n = [x \in Entity |-> F(x)] /\ q.e \in Recipe /\ q.mark \in MarksOf(q.e)
    BY <1>1, <1>4 DEF Changed, Fits, RequestOK
  <2>2. \A x \in Owned(q.e) : x \in Ing /\ x # q.e
    BY <2>1, MarksAre DEF Owned
  <2>3. ASSUME NEW x \in Entity
        PROVE  F(x) \in MarksOf(x) \cup {Absent} /\ (F(x) = Absent <=> m[x] = Absent)
    <3>1. CASE x = q.e
      <4>1. m[q.e] # Absent
        BY <1>4 DEF Refuses
      <4>2. F(x) = q.mark
        BY <2>2, <3>1
      <4> QED
        BY <2>1, <3>1, <4>1, <4>2, MarksAre
    <3>2. CASE x \in Owned(q.e) /\ m[x] # Absent
      <4>1. F(x) = Follows(q.mark)
        BY <2>2, <3>2
      <4> QED
        BY <2>2, <3>2, <4>1, MarksAre
    <3>3. CASE x # q.e /\ ~(x \in Owned(q.e) /\ m[x] # Absent)
      <4>1. F(x) = m[x]
        BY <3>3
      <4> QED
        BY <1>1, <4>1 DEF ListOK
    <3> QED
      BY <3>1, <3>2, <3>3
  <2> HIDE DEF F
  <2>4. \A x \in Entity : n[x] \in MarksOf(x) \cup {Absent} /\ (n[x] = Absent <=> m[x] = Absent)
    BY <2>1, <2>3
  <2>5. n \in [Entity -> Marks \cup {Absent}]
    BY <2>1, <2>3, MarksAre
  <2>6. m[q.e] # Absent /\ q.e \in Entity
    BY <1>4, <2>1, MarksAre DEF Refuses
  <2> HIDE DEF n
  <2> QED
    BY <1>1, <2>4, <2>5, <2>6, MarksAre DEF DocOK, ListOK, n
<1>5. CASE q.kind = "delete"
  <2>1. /\ n = [x \in Entity |-> IF x \in Scope("delete", q.e) THEN Absent ELSE m[x]]
        /\ q.e \in Entity
    BY <1>1, <1>5 DEF Changed, Fits
  <2>2. Scope("delete", q.e) = IF q.e \in Recipe THEN {q.e} \cup Owned(q.e) ELSE {q.e}
    BY DEF Scope
  <2>3. \A x \in Entity : n[x] = Absent \/ n[x] = m[x]
    BY <2>1
  <2>4. \A g \in Ing : n[g] # Absent => n[RecipeOf[g]] # Absent
    <3> SUFFICES ASSUME NEW g \in Ing, n[g] # Absent
                 PROVE  n[RecipeOf[g]] # Absent
      OBVIOUS
    <3>1. g \notin Scope("delete", q.e) /\ m[g] # Absent
      BY <2>1, MarksAre
    <3>2. RecipeOf[g] \notin Scope("delete", q.e)
      BY <2>2, <3>1, MarksAre DEF Owned
    <3> QED
      BY <2>1, <3>1, <3>2, MarksAre DEF DocOK
  <2>5. n \in [Entity -> Marks \cup {Absent}]
    BY <1>1, <2>1
  <2> HIDE DEF n
  <2> QED
    BY <1>1, <1>5, <2>3, <2>4, <2>5 DEF DocOK, ListOK, n
<1>6. CASE q.kind = "reset"
  <2> DEFINE F(x) == CASE m[x] = Absent -> Absent
                       [] m[x] # Absent /\ x \in Recipe -> "off"
                       [] OTHER -> "check"
  <2>1. n = [x \in Entity |-> F(x)]
    BY <1>6 DEF Changed
  <2>2. \A x \in Entity : F(x) \in MarksOf(x) \cup {Absent} /\ (F(x) = Absent <=> m[x] = Absent)
    BY MarksAre DEF Entity
  <2> HIDE DEF F
  <2>3. \A x \in Entity : n[x] \in MarksOf(x) \cup {Absent} /\ (n[x] = Absent <=> m[x] = Absent)
    BY <2>1, <2>2
  <2>4. n \in [Entity -> Marks \cup {Absent}]
    BY <2>1, <2>2, MarksAre
  <2> HIDE DEF n
  <2> QED
    BY <1>1, <1>6, <2>3, <2>4, MarksAre DEF DocOK, ListOK, n
<1>7. CASE q.kind = "rename"
  <2>1. n = m
    BY <1>7 DEF Changed
  <2>2. m[q.e] # Absent
    BY <1>7 DEF Refuses
  <2> QED
    BY <2>1, <2>2
<1> QED
  BY <1>1, <1>2, <1>3, <1>4, <1>5, <1>6, <1>7 DEF Fits, Kinds

\* A request keeps the store, whether its save reaches the file or not; a row
\* that is created, toggled or renamed is there when the answer says so.
LEMMA ServeKeeps ==
    ASSUME StoreInv, NEW q, RequestOK(q), NEW saved \in BOOLEAN, Serve(q, saved)
    PROVE  /\ StoreInv'
           /\ saved /\ ~Refuses(mem, q) /\ q.kind \in {"create", "toggle", "rename"} => mem'[q.e] # Absent
<1>1. CASE Refuses(mem, q)
  BY <1>1 DEF Serve, storeVars, StoreInv, DocOK, ListOK, MemoryMatchesDisk
<1>2. CASE ~Refuses(mem, q)
  <2> DEFINE m == Changed(mem, q)
  <2>1. DocOK(m) /\ (q.kind \in {"create", "toggle", "rename"} => m[q.e] # Absent)
    BY <1>2, ChangedOK DEF StoreInv
  <2> HIDE DEF m
  <2>2. /\ mem' = IF saved \/ ~Undoes(q) THEN m ELSE mem
        /\ disk' = IF saved THEN m ELSE disk
        /\ dirty' = CASE saved -> {}
                      [] ~saved /\ Keeps(q) -> dirty \cup {x \in Entity : m[x] # mem[x]}
                      [] OTHER -> dirty
    BY <1>2 DEF Serve, m
  <2>3. DocOK(mem') /\ DocOK(disk') /\ dirty' \subseteq Entity
    BY <2>1, <2>2 DEF StoreInv
  <2>4. Undoes(q) \/ Keeps(q)
    BY DEF RequestOK, Fits, Kinds, Undoes, Keeps
  <2>5. \A e \in Entity : mem'[e] # disk'[e] => e \in dirty'
    <3>1. CASE saved
      BY <2>2, <3>1
    <3>2. CASE ~saved /\ Undoes(q)
      BY <2>2, <3>2 DEF StoreInv, MemoryMatchesDisk
    <3>3. CASE ~saved /\ ~Undoes(q)
      <4>1. mem' = m /\ disk' = disk /\ dirty' = dirty \cup {x \in Entity : m[x] # mem[x]}
        BY <2>2, <2>4, <3>3
      <4> QED
        BY <4>1 DEF StoreInv, MemoryMatchesDisk
    <3> QED
      BY <3>1, <3>2, <3>3
  <2> QED
    BY <2>1, <2>2, <2>3, <2>5 DEF StoreInv, MemoryMatchesDisk, DocOK, ListOK
<1> QED
  BY <1>1, <1>2

LEMMA ReloadKeeps == StoreInv /\ Reload => StoreInv'
BY DEF StoreInv, Reload, MemoryMatchesDisk, DocOK, ListOK

-----------------------------------------------------------------------------
\* The invariant of the page.

Ids == {"temp", "real", "none"}
Row == [id : Ids, mark : Marks \cup {Absent}, rid : Ids, gone : BOOLEAN]

\* A closure o made as the n-th edit, the last so far being the top-th.
ClosureOK(o, n, top) ==
    /\ DOMAIN o = {"kind", "e", "o", "pc", "msg", "tries"}
    /\ o # NoOp =>
          /\ n <= top /\ Fits(o.kind, o.e)
          /\ o.kind # "reset" => o.o \in Slot
          /\ o.pc \in {"queued", "sent", "answered", "repair"}
          /\ o.pc = "sent" => RequestOK(o.msg) /\ o.msg.kind = o.kind /\ o.msg.e = o.e
          /\ o.pc = "answered" /\ o.msg.tag = "ok" =>
                /\ ListOK(o.msg.rows)
                /\ o.kind \in {"create", "toggle", "rename"} => o.msg.rows[o.e] # Absent

OpInv ==
    /\ edits \in 0..MaxEdits
    /\ DOMAIN op = 1..MaxEdits
    /\ \A n \in 1..MaxEdits : ClosureOK(op[n], n, edits)

\* What is queued waits there, each closure once.
QueueInv ==
    /\ queue \in Seq(1..MaxEdits)
    /\ \A i \in 1..Len(queue) : op[queue[i]].pc = "queued"
    /\ \A i, j \in 1..Len(queue) : queue[i] = queue[j] => i = j

\* A repair's refresh reads the items for a closure that waits for it.
FetchInv ==
    /\ DOMAIN fetch = FetchSlots /\ \A k \in FetchSlots : DOMAIN fetch[k] = Part
    /\ \A k \in FetchSlots, part \in Part : fetch[k][part].pc = "answered" => ListOK(fetch[k][part].rows)
    /\ \A n \in 1..MaxEdits : /\ fetch[RepairSlot(n)] # NoFetch => op[n].pc = "repair"
                              /\ fetch[RepairSlot(n)]["recipes"] = NoGet

HeapOK(h) ==
    /\ h \in [Entity -> [Slot -> Row]]
    /\ \A e \in Entity : \A s \in Slot : h[e][s].mark \in MarksOf(e) \cup {Absent}

\* The objects that closures hold or lists show have marks.
Marked(h, ops, sv, lc) ==
    \A e \in Entity : \A s \in Slot : s \in HeldBy(ops, e) \cup {sv[e], lc[e]} => h[e][s].mark # Absent

PageInv ==
    /\ HeapOK(obj) /\ Marked(obj, op, srv, loc)
    /\ srv \in [Entity -> Slot \cup {0}] /\ loc \in [Entity -> Slot \cup {0}]

SwitchInv ==
    /\ online \in BOOLEAN /\ replaying \in BOOLEAN
    /\ sse \in {"closed", "connecting", "open"} /\ tick \in BOOLEAN
    /\ excused \subseteq Entity

IInv == StoreInv /\ OpInv /\ QueueInv /\ FetchInv /\ PageInv /\ SwitchInv

-----------------------------------------------------------------------------
\* Objects.

LEMMA Least ==
    ASSUME NEW S, S \subseteq Nat, S # {}
    PROVE  \E s \in S : \A t \in S : s <= t
<1>1. IsWellFoundedOn(OpToRel(<, Nat), Nat)
  BY NatLessThanWellFounded
<1>2. \E s \in S : \A t \in S : ~(<<t, s>> \in OpToRel(<, Nat))
  <2> DEFINE R == OpToRel(<, Nat)
  <2> HIDE DEF R
  <2>1. IsWellFoundedOn(R, Nat)
    BY <1>1 DEF R
  <2> QED
    BY <2>1, WFMin DEF R
<1>3. PICK s \in S : \A t \in S : ~(<<t, s>> \in OpToRel(<, Nat))
  BY <1>2
<1>4. \A t \in S : ~(t < s)
  BY <1>3 DEF OpToRel
<1> QED
  BY <1>4

LEMMA SlotFacts ==
    MaxEdits \in Nat /\ Slot \subseteq Nat /\ 0 \notin Slot /\ IsFiniteSet(Slot) /\ Cardinality(Slot) = MaxEdits + 2
<1>1. MaxEdits \in Nat
  BY SyncAssumption DEF SyncAssumption
<1>2. 1 \in Int /\ MaxEdits + 2 \in Int /\ (IF 1 > MaxEdits + 2 THEN 0 ELSE (MaxEdits + 2) - 1 + 1) = MaxEdits + 2
  BY <1>1
<1>3. IsFiniteSet(Slot) /\ Cardinality(Slot) = MaxEdits + 2
  BY <1>2, FS_Interval DEF Slot
<1> QED
  BY <1>1, <1>3 DEF Slot

LEMMA HeldIs ==
    ASSUME NEW ops, NEW e, NEW s
    PROVE  s \in HeldBy(ops, e) <=> \E n \in DOMAIN ops : ops[n].e = e /\ ops[n].o = s
BY DEF HeldBy

\* There is an object left for a row as long as closures and lists hold few enough.
LEMMA SlotLeft ==
    ASSUME OpInv, NEW e, NEW avoid, NEW X, IsFiniteSet(X), edits + Cardinality(X) < MaxEdits + 2,
           \A s \in Slot : s \in {srv[e], loc[e]} \cup avoid => s \in HeldBy(op, e) \cup X
    PROVE  NewSlot(e, avoid) \in Slot \ (HeldBy(op, e) \cup {srv[e], loc[e]} \cup avoid)
<1> DEFINE used == HeldBy(op, e) \cup {srv[e], loc[e]} \cup avoid
           held == {op[n].o : n \in 1..edits}
<1>1. edits \in Nat /\ edits <= MaxEdits /\ MaxEdits \in Nat
  BY SlotFacts DEF OpInv
<1>2. IsFiniteSet(held) /\ Cardinality(held) <= edits /\ Cardinality(held) \in Nat
  <2>1. IsFiniteSet(1..edits) /\ Cardinality(1..edits) = edits
    <3>1. 1 \in Int /\ edits \in Int /\ (IF 1 > edits THEN 0 ELSE edits - 1 + 1) = edits
      BY <1>1
    <3> QED
      BY <3>1, FS_Interval
  <2>2. [n \in 1..edits |-> op[n].o] \in Surjection(1..edits, held)
    BY DEF Surjection
  <2> HIDE DEF held
  <2> QED
    BY <2>1, <2>2, FS_Surjection, FS_CardinalityType
<1>3. used \cap Slot \subseteq held \cup X
  <2>1. \A s \in HeldBy(op, e) \cap Slot : s \in held
    <3> SUFFICES ASSUME NEW s \in HeldBy(op, e) \cap Slot PROVE s \in held
      OBVIOUS
    <3>1. PICK n \in 1..MaxEdits : op[n].o = s
      <4>1. DOMAIN op = 1..MaxEdits
        BY DEF OpInv
      <4> QED
        BY <4>1 DEF HeldBy
    <3>2. op[n] # NoOp
      BY <3>1, SlotFacts DEF NoOp
    <3>3. n \in 1..edits
      BY <1>1, <3>2 DEF OpInv, ClosureOK
    <3> QED
      BY <3>1, <3>3
  <2> QED
    BY <2>1
<1>4. Slot \ used # {}
  <2> HIDE DEF held, used
  <2>1. SUFFICES ASSUME Slot \subseteq held \cup X PROVE FALSE
    BY <1>3
  <2>2. /\ IsFiniteSet(held \cup X) /\ Cardinality(X) \in Nat /\ Cardinality(held \cap X) \in Nat
        /\ Cardinality(held \cup X) = Cardinality(held) + Cardinality(X) - Cardinality(held \cap X)
    <3>1. IsFiniteSet(held \cap X)
      BY <1>2, FS_Intersection
    <3> QED
      BY <1>2, <3>1, FS_Union, FS_CardinalityType
  <2>3. Cardinality(Slot) <= Cardinality(held \cup X)
    BY <2>1, <2>2, FS_Subset
  <2> DEFINE a == Cardinality(held)
             b == Cardinality(X)
             c == Cardinality(held \cap X)
  <2>4. a \in Nat /\ a <= edits /\ b \in Nat /\ c \in Nat /\ MaxEdits + 2 <= a + b - c /\ edits + b < MaxEdits + 2
    BY <1>2, <2>2, <2>3, SlotFacts
  <2> HIDE DEF a, b, c
  <2> QED
    BY <1>1, <2>4
<1>5. \E s \in Slot \ used : \A t \in Slot \ used : s <= t
  <2> HIDE DEF used
  <2> QED
    BY <1>4, Least, SlotFacts
<1> QED
  BY <1>5 DEF NewSlot

\* After a step the objects are as the step made them, where anything refers to them.
LEMMA HeapKeeps ==
    ASSUME NEW h, HeapOK(h), Heap(h), Marked(h, op', srv', loc')
    PROVE  HeapOK(obj') /\ Marked(obj', op', srv', loc')
<1>1. obj' = [e \in Entity |-> [s \in Slot |->
                 IF s \in HeldBy(op', e) \cup {srv'[e], loc'[e]} THEN h[e][s] ELSE Blank]]
  BY DEF Heap
<1>2. Blank \in Row /\ Blank.mark = Absent
  BY DEF Blank, Row, Ids, Marks
<1>3. \A e \in Entity : \A s \in Slot :
          /\ h[e][s] \in Row
          /\ obj'[e][s] = IF s \in HeldBy(op', e) \cup {srv'[e], loc'[e]} THEN h[e][s] ELSE Blank
  BY <1>1 DEF HeapOK
<1>4. obj' \in [Entity -> [Slot -> Row]]
  BY <1>1, <1>2, <1>3
<1>5. \A e \in Entity : \A s \in Slot : obj'[e][s].mark \in MarksOf(e) \cup {Absent}
  BY <1>2, <1>3 DEF HeapOK
<1>6. Marked(obj', op', srv', loc')
  BY <1>3 DEF Marked
<1> QED
  BY <1>4, <1>5, <1>6 DEF HeapOK

\* Fewer references ask for no more.
LEMMA MarkedStays ==
    ASSUME NEW h, NEW ops, NEW sv, NEW lc, Marked(h, ops, sv, lc), NEW ops2, NEW sv2, NEW lc2,
           \A e \in Entity : \A s \in Slot :
               s \in HeldBy(ops2, e) \cup {sv2[e], lc2[e]} => s \in HeldBy(ops, e) \cup {sv[e], lc[e]}
    PROVE  Marked(h, ops2, sv2, lc2)
BY DEF Marked

LEMMA ScopeIn ==
    ASSUME NEW kind, NEW e, Fits(kind, e)
    PROVE  Scope(kind, e) \subseteq Entity
BY MarksAre DEF Fits, Scope, Owned

LEMMA RacedIn ==
    ASSUME NEW kind, NEW e, Fits(kind, e)
    PROVE  Raced(kind, e) \subseteq Entity
<1> DEFINE T == Scope(kind, e)
           back(x) == x \in made /\ want[x] = Absent
           gone == \/ kind \notin {"reset", "create"} /\ back(e)
                   \/ e \in Ing /\ back(RecipeOf[e])
           waiting == {m \in DOMAIN op : Pending(m)}
           shared == UNION {T \cap Touches(n) : n \in waiting}
<1>1. T \subseteq Entity
  BY ScopeIn
<1>2. Raced(kind, e) = shared \cup IF gone THEN T ELSE {}
  BY DEF Raced
<1> HIDE DEF T, gone, waiting
<1>3. shared \subseteq T
  OBVIOUS
<1> HIDE DEF shared
<1> QED
  BY <1>1, <1>2, <1>3

-----------------------------------------------------------------------------
\* Closures.

LEMMA OpAt ==
    ASSUME OpInv, NEW n \in 1..MaxEdits, op[n].pc # "none"
    PROVE  /\ op[n] # NoOp /\ n <= edits
           /\ Fits(op[n].kind, op[n].e) /\ (op[n].kind # "reset" => op[n].o \in Slot)
           /\ Touches(n) \subseteq Entity
<1>1. op[n] # NoOp
  BY DEF NoOp
<1>2. n <= edits /\ Fits(op[n].kind, op[n].e) /\ (op[n].kind # "reset" => op[n].o \in Slot)
  BY <1>1 DEF OpInv, ClosureOK
<1> QED
  BY <1>1, <1>2, ScopeIn DEF Touches

\* A closure whose place or message changes is still of the same row.
LEMMA OpSet ==
    ASSUME OpInv, NEW n \in 1..MaxEdits, NEW p, NEW g,
           op' = [op EXCEPT ![n].pc = p, ![n].msg = g]
    PROVE  /\ DOMAIN op' = 1..MaxEdits /\ \A m \in 1..MaxEdits : m # n => op'[m] = op[m]
           /\ DOMAIN op'[n] = {"kind", "e", "o", "pc", "msg", "tries"}
           /\ op'[n].kind = op[n].kind /\ op'[n].e = op[n].e /\ op'[n].o = op[n].o
           /\ op'[n].pc = p /\ op'[n].msg = g
           /\ \A e : HeldBy(op', e) = HeldBy(op, e)
<1>1. DOMAIN op = 1..MaxEdits /\ DOMAIN op[n] = {"kind", "e", "o", "pc", "msg", "tries"}
  BY DEF OpInv, ClosureOK
<1>2. DOMAIN op' = 1..MaxEdits /\ \A m \in 1..MaxEdits : m # n => op'[m] = op[m]
  BY <1>1
<1>3. /\ DOMAIN op'[n] = {"kind", "e", "o", "pc", "msg", "tries"}
      /\ op'[n].kind = op[n].kind /\ op'[n].e = op[n].e /\ op'[n].o = op[n].o
      /\ op'[n].pc = p /\ op'[n].msg = g
  BY <1>1
<1>4. \A m \in 1..MaxEdits : op'[m].e = op[m].e /\ op'[m].o = op[m].o
  BY <1>2, <1>3
<1>5. \A e : HeldBy(op', e) = HeldBy(op, e)
  BY <1>1, <1>2, <1>4 DEF HeldBy
<1> QED
  BY <1>2, <1>3, <1>5

\* A closure that is done holds nothing.
LEMMA OpDropped ==
    ASSUME OpInv, NEW n \in 1..MaxEdits, op' = [op EXCEPT ![n] = NoOp], edits' = edits
    PROVE  /\ OpInv' /\ \A m \in 1..MaxEdits : m # n => op'[m] = op[m]
           /\ \A e : \A s \in Slot : s \in HeldBy(op', e) => s \in HeldBy(op, e)
<1>1. /\ DOMAIN op = 1..MaxEdits /\ DOMAIN op' = 1..MaxEdits
      /\ op'[n] = NoOp /\ \A m \in 1..MaxEdits : m # n => op'[m] = op[m]
  BY DEF OpInv
<1>2. ClosureOK(NoOp, n, edits)
  BY DEF ClosureOK, NoOp
<1>3. OpInv'
  BY <1>1, <1>2 DEF OpInv, ClosureOK
<1>4. ASSUME NEW e, NEW s \in Slot, s \in HeldBy(op', e)
      PROVE  s \in HeldBy(op, e)
  <2>1. PICK m \in 1..MaxEdits : op'[m].e = e /\ op'[m].o = s
    BY <1>1, <1>4 DEF HeldBy
  <2>2. m # n
    BY <1>1, <2>1, SlotFacts DEF NoOp
  <2> QED
    BY <1>1, <2>1, <2>2 DEF HeldBy
<1> QED
  BY <1>1, <1>3, <1>4

\* What is queued and what waits for a repair stays so when another closure goes on.
LEMMA WaitStays ==
    ASSUME QueueInv, FetchInv, queue' = queue, fetch' = fetch, NEW n, op[n].pc \notin {"queued", "repair"},
           \A m \in 1..MaxEdits : m # n => op'[m] = op[m]
    PROVE  QueueInv' /\ FetchInv'
<1>1. \A i \in 1..Len(queue) : queue[i] \in 1..MaxEdits
  <2> DEFINE N == 1..MaxEdits
  <2>1. queue \in Seq(N)
    BY DEF QueueInv
  <2> HIDE DEF N
  <2>2. \A i \in 1..Len(queue) : queue[i] \in N
    BY <2>1
  <2> QED
    BY <2>2 DEF N
<1>2. QueueInv'
  BY <1>1 DEF QueueInv
<1>3. FetchInv'
  BY DEF FetchInv, ListOK
<1> QED
  BY <1>2, <1>3

LEMMA AnswerKeeps ==
    ASSUME OpInv, QueueInv, FetchInv, PageInv, NEW n \in 1..MaxEdits, op[n].pc \in {"sent", "answered"},
           NEW g, op' = [op EXCEPT ![n].pc = "answered", ![n].msg = g],
           g.tag = "ok" => /\ ListOK(g.rows)
                           /\ op[n].kind \in {"create", "toggle", "rename"} => g.rows[op[n].e] # Absent,
           UNCHANGED pageVars, fetch' = fetch, edits' = edits
    PROVE  OpInv' /\ QueueInv' /\ FetchInv' /\ PageInv'
<1>1. /\ DOMAIN op' = 1..MaxEdits /\ \A m \in 1..MaxEdits : m # n => op'[m] = op[m]
      /\ DOMAIN op'[n] = {"kind", "e", "o", "pc", "msg", "tries"}
      /\ op'[n].kind = op[n].kind /\ op'[n].e = op[n].e /\ op'[n].o = op[n].o
      /\ op'[n].pc = "answered" /\ op'[n].msg = g
      /\ \A e : HeldBy(op', e) = HeldBy(op, e)
  BY OpSet
<1>2. n <= edits /\ Fits(op[n].kind, op[n].e) /\ (op[n].kind # "reset" => op[n].o \in Slot)
  BY OpAt
<1>3. ClosureOK(op'[n], n, edits)
  BY <1>1, <1>2 DEF ClosureOK
<1>4. OpInv'
  <2>1. \A m \in 1..MaxEdits : ClosureOK(op[m], m, edits)
    BY DEF OpInv
  <2>2. \A m \in 1..MaxEdits : ClosureOK(op'[m], m, edits')
    BY <1>1, <1>3, <2>1
  <2> QED
    BY <1>1, <2>2 DEF OpInv, ClosureOK
<1>5. QueueInv' /\ FetchInv'
  BY <1>1, WaitStays DEF pageVars
<1>6. Marked(obj', op', srv', loc')
  BY <1>1 DEF PageInv, pageVars, Marked
<1>7. PageInv'
  BY <1>6 DEF PageInv, pageVars
<1> QED
  BY <1>4, <1>5, <1>7

\* A request carries what its object has.
LEMMA RequestFits ==
    ASSUME NEW kind, NEW e, Fits(kind, e), NEW ob,
           kind \in {"patch", "toggle"} => ob.mark \in MarksOf(e)
    PROVE  /\ RequestOK(Request(kind, e, ob))
           /\ Request(kind, e, ob).kind = kind /\ Request(kind, e, ob).e = e
<1> DEFINE q == Request(kind, e, ob)
<1>1. q.kind = kind /\ q.e = e /\ (kind \in {"patch", "toggle"} => q.mark = ob.mark)
  BY DEF Request
<1> HIDE DEF q
<1>2. RequestOK(q) /\ q.kind = kind /\ q.e = e
  BY <1>1 DEF RequestOK
<1> QED
  BY <1>2 DEF q

LEMMA IssueKeeps ==
    ASSUME OpInv, QueueInv, FetchInv, fetch' = fetch, edits < MaxEdits,
           NEW kind, NEW e, Fits(kind, e), NEW s, NEW h,
           kind # "reset" => s \in Slot /\ h[e][s].mark \in MarksOf(e),
           Issue(kind, e, s, h)
    PROVE  /\ OpInv' /\ QueueInv' /\ FetchInv'
           /\ \A x : \A t \in Slot : t \in HeldBy(op', x) => t \in HeldBy(op, x) \/ (x = e /\ t = s)
<1> DEFINE n == edits + 1
           ob == IF kind = "reset" THEN Blank ELSE h[e][s]
           closure == [kind |-> kind, e |-> e, o |-> s, pc |-> "queued", msg |-> NoMsg, tries |-> 1]
           sent == [closure EXCEPT !.pc = "sent", !.msg = Request(kind, e, ob)]
           made1 == CASE ~online -> closure
                      [] online /\ Sends(kind, ob) -> sent
                      [] OTHER -> NoOp
<1>1. /\ DOMAIN op = 1..MaxEdits /\ edits \in Nat /\ MaxEdits \in Nat
      /\ \A m \in 1..MaxEdits : ClosureOK(op[m], m, edits)
  BY SlotFacts DEF OpInv
<1>2. n \in 1..MaxEdits /\ n \in Nat /\ ~(n <= edits) /\ n \in 0..MaxEdits /\ \A m \in 1..MaxEdits : m <= edits => m <= n
  BY <1>1
<1>3. op[n] = NoOp
  BY <1>1, <1>2 DEF ClosureOK
<1>4. /\ edits' = n /\ op' = [op EXCEPT ![n] = made1]
      /\ queue' = IF online THEN queue ELSE Append(queue, n)
  BY DEF Issue
<1>5. /\ RequestOK(Request(kind, e, ob))
      /\ Request(kind, e, ob).kind = kind /\ Request(kind, e, ob).e = e
  <2>1. kind \in {"patch", "toggle"} => ob.mark \in MarksOf(e)
    OBVIOUS
  <2> HIDE DEF ob
  <2> QED
    BY <2>1, RequestFits
<1>6. /\ DOMAIN closure = {"kind", "e", "o", "pc", "msg", "tries"}
      /\ closure.kind = kind /\ closure.e = e /\ closure.o = s /\ closure.pc = "queued"
      /\ DOMAIN sent = {"kind", "e", "o", "pc", "msg", "tries"}
      /\ sent.kind = kind /\ sent.e = e /\ sent.o = s /\ sent.pc = "sent"
      /\ sent.msg = Request(kind, e, ob)
  <2> HIDE DEF ob
  <2> QED
    OBVIOUS
<1> HIDE DEF sent, closure, ob
<1>7. /\ ClosureOK(closure, n, n) /\ ClosureOK(sent, n, n)
      /\ ClosureOK(NoOp, n, n)
  <2>1. ClosureOK(closure, n, n)
    BY <1>2, <1>6 DEF ClosureOK
  <2>2. ClosureOK(sent, n, n)
    BY <1>2, <1>5, <1>6 DEF ClosureOK
  <2>3. ClosureOK(NoOp, n, n)
    BY DEF ClosureOK, NoOp
  <2> QED
    BY <2>1, <2>2, <2>3
<1>8. made1 \in {closure, sent, NoOp} /\ (~online => made1 = closure)
  OBVIOUS
<1> HIDE DEF made1, n
<1>9. DOMAIN op' = 1..MaxEdits /\ op'[n] = made1 /\ \A m \in 1..MaxEdits : m # n => op'[m] = op[m]
  BY <1>1, <1>2, <1>4
<1>10. OpInv'
  <2>1. \A m \in 1..MaxEdits : ClosureOK(op[m], m, n)
    BY <1>1, <1>2 DEF ClosureOK
  <2>2. \A m \in 1..MaxEdits : ClosureOK(op'[m], m, n)
    BY <1>7, <1>8, <1>9, <2>1
  <2> QED
    BY <1>2, <1>4, <1>9, <2>2 DEF OpInv, ClosureOK
<1>11. FetchInv'
  BY <1>3, <1>9 DEF FetchInv, ListOK, NoOp
<1>12. QueueInv'
  <2> DEFINE N == 1..MaxEdits
  <2>1. queue \in Seq(N) /\ n \in N
    BY <1>2 DEF QueueInv
  <2> HIDE DEF N
  <2>2. \A i \in 1..Len(queue) : queue[i] \in N
    BY <2>1
  <2>3. \A i \in 1..Len(queue) : queue[i] # n /\ op'[queue[i]].pc = "queued"
    <3> TAKE i \in 1..Len(queue)
    <3>1. op[queue[i]].pc = "queued"
      BY DEF QueueInv
    <3>2. queue[i] # n
      BY <1>3, <3>1 DEF NoOp
    <3> QED
      BY <1>9, <2>2, <3>1, <3>2 DEF N
  <2>4. CASE online
    BY <1>4, <2>3, <2>4 DEF QueueInv
  <2>5. CASE ~online
    <3>1. queue' = Append(queue, n) /\ op'[n].pc = "queued"
      BY <1>4, <1>6, <1>8, <1>9, <2>5
    <3>2. /\ queue' \in Seq(N) /\ Len(queue') = Len(queue) + 1 /\ Len(queue) \in Nat
          /\ \A i \in 1..Len(queue) : queue'[i] = queue[i]
          /\ queue'[Len(queue) + 1] = n
      BY <2>1, <3>1
    <3> DEFINE z == Len(queue)
    <3>3. \A i \in 1..(z + 1) : i \in 1..z \/ i = z + 1
      BY <3>2
    <3> HIDE DEF z
    <3>4. \A i \in 1..(z + 1) : op'[queue'[i]].pc = "queued"
      BY <2>3, <3>1, <3>2, <3>3 DEF z
    <3>5. \A i, j \in 1..(z + 1) : queue'[i] = queue'[j] => i = j
      <4> SUFFICES ASSUME NEW i \in 1..(z + 1), NEW j \in 1..(z + 1), queue'[i] = queue'[j]
                   PROVE  i = j
        OBVIOUS
      <4>1. CASE i \in 1..z /\ j \in 1..z
        BY <3>2, <4>1 DEF QueueInv, z
      <4>2. CASE i \in 1..z /\ j = z + 1
        BY <2>3, <3>2, <4>2 DEF z
      <4>3. CASE i = z + 1 /\ j \in 1..z
        BY <2>3, <3>2, <4>3 DEF z
      <4> QED
        BY <3>3, <4>1, <4>2, <4>3
    <3>6. queue' \in Seq(1..MaxEdits) /\ Len(queue') = z + 1
      BY <3>2 DEF N, z
    <3> QED
      BY <3>4, <3>5, <3>6 DEF QueueInv
  <2> QED
    BY <2>4, <2>5
<1>13. ASSUME NEW x, NEW t \in Slot, t \in HeldBy(op', x)
       PROVE  t \in HeldBy(op, x) \/ (x = e /\ t = s)
  <2>1. PICK m \in 1..MaxEdits : op'[m].e = x /\ op'[m].o = t
    BY <1>9, <1>13 DEF HeldBy
  <2>2. CASE m # n
    BY <1>1, <1>9, <2>1, <2>2 DEF HeldBy
  <2>3. CASE m = n
    <3>1. made1 # NoOp
      BY <1>9, <2>1, <2>3, SlotFacts DEF NoOp
    <3> QED
      BY <1>6, <1>8, <1>9, <2>1, <2>3, <3>1
  <2> QED
    BY <2>2, <2>3
<1> QED
  BY <1>10, <1>11, <1>12, <1>13

-----------------------------------------------------------------------------
\* The user's edits.

LEMMA PairSize ==
    ASSUME NEW a, NEW b
    PROVE  IsFiniteSet({a, b}) /\ Cardinality({a, b}) \in Nat /\ Cardinality({a, b}) <= 2
<1>1. IsFiniteSet({a}) /\ Cardinality({a}) = 1
  BY FS_Singleton
<1>2. {a, b} = {a} \cup {b}
  OBVIOUS
<1>3. /\ IsFiniteSet({a} \cup {b})
      /\ Cardinality({a} \cup {b}) = IF b \in {a} THEN Cardinality({a}) ELSE Cardinality({a}) + 1
  BY <1>1, FS_AddElement
<1> QED
  BY <1>1, <1>2, <1>3

\* Putting a row in its place.
Put(g, e, s, row) == [g EXCEPT ![e][s] = row]

LEMMA HeapPut ==
    ASSUME NEW g, HeapOK(g), NEW e \in Entity, NEW s \in Slot,
           NEW row \in Row, row.mark \in MarksOf(e) \cup {Absent}
    PROVE  /\ HeapOK(Put(g, e, s, row)) /\ Put(g, e, s, row)[e][s] = row
           /\ \A x \in Entity : \A t \in Slot : x # e \/ t # s => Put(g, e, s, row)[x][t] = g[x][t]
<1> DEFINE h == Put(g, e, s, row)
<1>1. g \in [Entity -> [Slot -> Row]]
  BY DEF HeapOK
<1>2. /\ h \in [Entity -> [Slot -> Row]] /\ h[e][s] = row
      /\ \A x \in Entity : \A t \in Slot : x # e \/ t # s => h[x][t] = g[x][t]
  BY <1>1 DEF Put
<1> HIDE DEF h
<1>3. HeapOK(h)
  BY <1>2 DEF HeapOK
<1> QED
  BY <1>2, <1>3 DEF h

\* A displayed row: a recipe or an item with a mark.
LEMMA FoundIs ==
    ASSUME PageInv, NEW e \in Entity, NEW s \in Found(e)
    PROVE  /\ s \in Slot /\ s \in {srv[e], loc[e]} /\ obj[e][s] \in Row
           /\ obj[e][s].mark \in MarksOf(e) /\ obj[e][s].id \in Ids
<1>1. s \in Slot /\ s \in {srv[e], loc[e]}
  BY DEF Found
<1>2. obj[e][s] \in Row /\ obj[e][s].mark \in MarksOf(e) \cup {Absent} /\ obj[e][s].mark # Absent
  BY <1>1 DEF PageInv, HeapOK, Marked
<1> QED
  BY <1>1, <1>2 DEF Row

LEMMA StoreStays == StoreInv /\ UNCHANGED storeVars => StoreInv'
BY DEF StoreInv, storeVars, DocOK, ListOK, MemoryMatchesDisk

LEMMA EditKeeps ==
    ASSUME IInv, NEW kind, Edit(kind), OpInv', QueueInv', FetchInv',
           NEW h, HeapOK(h), Heap(h), Marked(h, op', srv', loc'),
           srv' \in [Entity -> Slot \cup {0}], loc' \in [Entity -> Slot \cup {0}],
           excused' \subseteq Entity
    PROVE  IInv'
<1>1. UNCHANGED <<storeVars, online, replaying, sse, tick>>
  BY DEF Edit
<1>2. StoreInv'
  BY <1>1, StoreStays DEF IInv
<1>3. PageInv'
  <2>1. HeapOK(obj') /\ Marked(obj', op', srv', loc')
    BY HeapKeeps
  <2> QED
    BY <2>1 DEF PageInv
<1>4. SwitchInv'
  BY <1>1 DEF IInv, SwitchInv
<1> QED
  BY <1>2, <1>3, <1>4 DEF IInv

\* After a step what refers to an object did before, but for row e's s;
\* and objects that had a mark have one, and so has that one.
Refers(e, s) ==
    \A x \in Entity : \A t \in Slot :
        t \in HeldBy(op', x) \cup {srv'[x], loc'[x]}
        => t \in HeldBy(op, x) \cup {srv[x], loc[x]} \/ (x = e /\ t = s)
Lifts(h, e, s) ==
    \A x \in Entity : \A t \in Slot :
        obj[x][t].mark # Absent \/ (x = e /\ t = s) => h[x][t].mark # Absent

LEMMA MarkedWith ==
    ASSUME Marked(obj, op, srv, loc), NEW h, NEW e, NEW s, Refers(e, s), Lifts(h, e, s)
    PROVE  Marked(h, op', srv', loc')
BY DEF Marked, Refers, Lifts

LEMMA CreateKeeps ==
    ASSUME IInv, NEW e \in Entity, NEW owner, Create(e, owner)
    PROVE  IInv'
<1> DEFINE s == NewSlot(e, {})
           row == [id |-> "temp", gone |-> FALSE,
                   mark |-> CASE e \in Free -> "needed"
                              [] e \in Recipe -> "off"
                              [] OTHER -> Follows(obj[RecipeOf[e]][owner].mark),
                   rid |-> IF e \in Ing THEN obj[RecipeOf[e]][owner].id ELSE "real"]
           h == [obj EXCEPT ![e][s] = row]
<1>1. /\ Edit("create") /\ owner \in (IF e \in Ing THEN Found(RecipeOf[e]) ELSE {0})
      /\ loc' = [loc EXCEPT ![e] = s] /\ UNCHANGED srv
      /\ excused' = excused \cup Raced("create", e)
      /\ Issue("create", e, s, h) /\ Heap(h)
  BY DEF Create
<1>2. OpInv /\ QueueInv /\ FetchInv /\ PageInv /\ fetch' = fetch /\ edits < MaxEdits
  BY <1>1 DEF IInv, Edit
<1>3. s \in Slot
  <2> DEFINE X == {srv[e], loc[e]}
  <2>1. IsFiniteSet(X) /\ Cardinality(X) \in Nat /\ Cardinality(X) <= 2
    BY PairSize
  <2>2. edits + Cardinality(X) < MaxEdits + 2
    <3> HIDE DEF X
    <3> QED
      BY <1>2, <2>1, SlotFacts DEF OpInv
  <2> QED
    BY <1>2, <2>1, <2>2, SlotLeft
<1>4. row \in Row /\ row.mark \in MarksOf(e)
  <2>1. e \in Ing => obj[RecipeOf[e]][owner].id \in Ids
    BY <1>1, <1>2, FoundIs, MarksAre
  <2>2. row.mark \in MarksOf(e)
    BY MarksAre DEF Entity, Item
  <2> HIDE DEF s
  <2> QED
    BY <2>1, <2>2, MarksAre DEF Row, Ids
<1>5. Fits("create", e)
  BY DEF Fits, Kinds
<1> HIDE DEF s, row
<1>6. /\ HeapOK(h) /\ h[e][s] = row
      /\ \A x \in Entity : \A t \in Slot : x # e \/ t # s => h[x][t] = obj[x][t]
  <2>1. HeapOK(obj) /\ row \in Row /\ row.mark \in MarksOf(e) \cup {Absent}
    BY <1>2, <1>4 DEF PageInv
  <2>2. h = Put(obj, e, s, row)
    BY DEF h, Put
  <2> HIDE DEF h
  <2> QED
    BY <1>3, <2>1, <2>2, HeapPut
<1> HIDE DEF h
<1>7. /\ OpInv' /\ QueueInv' /\ FetchInv'
      /\ \A x : \A t \in Slot : t \in HeldBy(op', x) => t \in HeldBy(op, x) \/ (x = e /\ t = s)
  BY <1>1, <1>2, <1>3, <1>4, <1>5, <1>6, IssueKeeps
<1>8. srv' \in [Entity -> Slot \cup {0}] /\ loc' \in [Entity -> Slot \cup {0}]
  BY <1>1, <1>2, <1>3 DEF PageInv
<1>9. Marked(h, op', srv', loc')
  <2>1. Refers(e, s)
    BY <1>1, <1>2, <1>7 DEF PageInv, Refers
  <2>2. row.mark # Absent
    BY <1>4, MarksAre
  <2>3. Lifts(h, e, s)
    BY <1>6, <2>2 DEF Lifts
  <2>4. Marked(obj, op, srv, loc)
    BY <1>2 DEF PageInv
  <2> QED
    BY <2>1, <2>3, <2>4, MarkedWith
<1>10. excused' \subseteq Entity
  BY <1>1, <1>5, RacedIn DEF IInv, SwitchInv
<1> QED
  BY <1>1, <1>6, <1>7, <1>8, <1>9, <1>10, EditKeeps

LEMMA CycleKeeps ==
    ASSUME IInv, NEW e \in Entity, NEW s \in Slot, CycleState(e, s)
    PROVE  IInv'
<1> DEFINE row == [obj[e][s] EXCEPT !.mark = NextState[@]]
           h == [obj EXCEPT ![e][s].mark = NextState[@]]
<1>1. /\ Edit("patch") /\ e \in Item /\ s \in Found(e)
      /\ excused' = excused \cup Raced("patch", e)
      /\ Issue("patch", e, s, h) /\ UNCHANGED <<srv, loc>> /\ Heap(h)
  BY DEF CycleState
<1>2. OpInv /\ QueueInv /\ FetchInv /\ PageInv /\ fetch' = fetch /\ edits < MaxEdits
  BY <1>1 DEF IInv, Edit
<1>3. obj[e][s] \in Row /\ obj[e][s].mark \in MarksOf(e) /\ MarksOf(e) = {"needed", "check", "not_needed"}
  BY <1>1, <1>2, FoundIs, MarksAre
<1>4. row \in Row /\ row.mark \in MarksOf(e)
  <2>1. NextState[obj[e][s].mark] \in {"needed", "check", "not_needed"}
    BY <1>3 DEF NextState
  <2> QED
    BY <1>3, <2>1 DEF Row, Marks
<1>5. Fits("patch", e)
  BY <1>1 DEF Fits, Kinds
<1>6. h = Put(obj, e, s, row)
  BY <1>2 DEF PageInv, HeapOK, Put
<1> HIDE DEF row, h
<1>7. /\ HeapOK(h) /\ h[e][s] = row
      /\ \A x \in Entity : \A t \in Slot : x # e \/ t # s => h[x][t] = obj[x][t]
  <2>1. HeapOK(obj) /\ row \in Row /\ row.mark \in MarksOf(e) \cup {Absent}
    BY <1>2, <1>4 DEF PageInv
  <2> QED
    BY <1>6, <2>1, HeapPut
<1>8. /\ OpInv' /\ QueueInv' /\ FetchInv'
      /\ \A x : \A t \in Slot : t \in HeldBy(op', x) => t \in HeldBy(op, x) \/ (x = e /\ t = s)
  BY <1>1, <1>2, <1>4, <1>5, <1>7, IssueKeeps
<1>9. srv' \in [Entity -> Slot \cup {0}] /\ loc' \in [Entity -> Slot \cup {0}]
  BY <1>1, <1>2 DEF PageInv
<1>10. Marked(h, op', srv', loc')
  <2>1. row.mark # Absent
    BY <1>4, MarksAre
  <2>2. Lifts(h, e, s)
    BY <1>7, <2>1 DEF Lifts
  <2>3. Marked(obj, op, srv, loc)
    BY <1>2 DEF PageInv
  <2>4. Refers(e, s)
    BY <1>1, <1>8 DEF Refers
  <2> QED
    BY <2>2, <2>3, <2>4, MarkedWith
<1>11. excused' \subseteq Entity
  BY <1>1, <1>5, RacedIn DEF IInv, SwitchInv
<1> QED
  BY <1>1, <1>7, <1>8, <1>9, <1>10, <1>11, EditKeeps

LEMMA RenameKeeps ==
    ASSUME IInv, NEW r \in Entity, NEW s \in Slot, RenameRecipe(r, s)
    PROVE  IInv'
<1>1. /\ Edit("rename") /\ r \in Recipe /\ s \in Found(r)
      /\ excused' = excused \cup Raced("rename", r)
      /\ Issue("rename", r, s, obj) /\ UNCHANGED <<srv, loc>> /\ Heap(obj)
  BY DEF RenameRecipe
<1>2. OpInv /\ QueueInv /\ FetchInv /\ PageInv /\ fetch' = fetch /\ edits < MaxEdits
  BY <1>1 DEF IInv, Edit
<1>3. Fits("rename", r)
  BY <1>1 DEF Fits, Kinds
<1>4. obj[r][s].mark \in MarksOf(r) /\ obj[r][s].mark # Absent
  BY <1>1, <1>2, FoundIs, MarksAre
<1>5. /\ OpInv' /\ QueueInv' /\ FetchInv'
      /\ \A x : \A t \in Slot : t \in HeldBy(op', x) => t \in HeldBy(op, x) \/ (x = r /\ t = s)
  BY <1>1, <1>2, <1>3, <1>4, IssueKeeps
<1>6. HeapOK(obj) /\ srv' \in [Entity -> Slot \cup {0}] /\ loc' \in [Entity -> Slot \cup {0}]
  BY <1>1, <1>2 DEF PageInv
<1>7. Marked(obj, op', srv', loc')
  <2>1. Refers(r, s)
    BY <1>1, <1>5 DEF Refers
  <2>2. Lifts(obj, r, s)
    BY <1>4 DEF Lifts
  <2> QED
    BY <1>2, <2>1, <2>2, MarkedWith DEF PageInv
<1>8. excused' \subseteq Entity
  BY <1>1, <1>3, RacedIn DEF IInv, SwitchInv
<1> QED
  BY <1>1, <1>5, <1>6, <1>7, <1>8, EditKeeps

LEMMA RowsAre ==
    ASSUME NEW r, NEW s, NEW row \in RowsOf(r, s)
    PROVE  /\ row[1] \in Owned(r) /\ row[1] \in Ing /\ row[2] \in Slot /\ row = <<row[1], row[2]>>
           /\ row[2] \in {srv[row[1]], loc[row[1]]}
BY DEF RowsOf, Owned

LEMMA ToggleKeeps ==
    ASSUME IInv, NEW r \in Entity, NEW s \in Slot, ToggleRecipe(r, s)
    PROVE  IInv'
<1> DEFINE mark == IF obj[r][s].mark = "on" THEN "off" ELSE "on"
           new(g, t) == IF <<g, t>> \notin RowsOf(r, s) \/ t \notin HeldBy(op, g) THEN t
                        ELSE NewSlot(g, IF t = srv[g] THEN {} ELSE {NewSlot(g, {})})
           marked == [obj EXCEPT ![r][s].mark = mark]
           hit(x, t) == \E row \in RowsOf(r, s) : row[1] = x /\ new(x, row[2]) = t
           put(x, t) == LET row == CHOOSE y \in RowsOf(r, s) : y[1] = x /\ new(x, y[2]) = t
                        IN [obj[x][row[2]] EXCEPT !.mark = Follows(mark)]
           h == [x \in Entity |-> [t \in Slot |-> IF hit(x, t) THEN put(x, t) ELSE marked[x][t]]]
           stranded == {g \in Owned(r) : \E n \in DOMAIN op : op[n].kind = "create" /\ op[n].e = g}
<1>1. /\ Edit("toggle") /\ r \in Recipe /\ s \in Found(r)
      /\ srv' = [g \in Entity |-> IF g \in Ing THEN new(g, srv[g]) ELSE srv[g]]
      /\ loc' = [g \in Entity |-> IF g \in Ing THEN new(g, loc[g]) ELSE loc[g]]
      /\ excused' = excused \cup Raced("toggle", r) \cup stranded
      /\ Issue("toggle", r, s, h) /\ Heap(h)
  BY DEF ToggleRecipe
<1>2. OpInv /\ QueueInv /\ FetchInv /\ PageInv /\ fetch' = fetch /\ edits < MaxEdits
  BY <1>1 DEF IInv, Edit
<1>3. ASSUME NEW g \in Ing, NEW t \in {srv[g], loc[g]}
      PROVE  new(g, t) \in Slot \cup {0}
  <2>1. CASE <<g, t>> \notin RowsOf(r, s) \/ t \notin HeldBy(op, g)
    BY <1>2, <2>1, MarksAre DEF PageInv
  <2>2. CASE <<g, t>> \in RowsOf(r, s) /\ t \in HeldBy(op, g) /\ t = srv[g]
    <3> DEFINE X == {srv[g], loc[g]}
    <3>1. IsFiniteSet(X) /\ Cardinality(X) \in Nat /\ Cardinality(X) <= 2
      BY PairSize
    <3>2. edits + Cardinality(X) < MaxEdits + 2
      <4> HIDE DEF X
      <4> QED
        BY <1>2, <3>1, SlotFacts DEF OpInv
    <3>3. NewSlot(g, {}) \in Slot
      BY <1>2, <3>1, <3>2, SlotLeft
    <3> QED
      BY <2>2, <3>3
  <2>3. CASE <<g, t>> \in RowsOf(r, s) /\ t \in HeldBy(op, g) /\ t # srv[g]
    <3> DEFINE other == NewSlot(g, {})
               X == {srv[g], other}
    <3>1. IsFiniteSet(X) /\ Cardinality(X) \in Nat /\ Cardinality(X) <= 2
      BY PairSize
    <3>2. edits + Cardinality(X) < MaxEdits + 2
      <4> HIDE DEF X
      <4> QED
        BY <1>2, <3>1, SlotFacts DEF OpInv
    <3>3. loc[g] \in HeldBy(op, g)
      BY <2>3
    <3> HIDE DEF other
    <3>4. NewSlot(g, {other}) \in Slot
      <4>1. \A u \in Slot : u \in {srv[g], loc[g]} \cup {other} => u \in HeldBy(op, g) \cup X
        BY <3>3
      <4> QED
        BY <1>2, <3>1, <3>2, <4>1, SlotLeft
    <3> QED
      BY <2>3, <3>4 DEF other
  <2> QED
    BY <2>1, <2>2, <2>3
<1>4. srv' \in [Entity -> Slot \cup {0}] /\ loc' \in [Entity -> Slot \cup {0}]
  <2> HIDE DEF new
  <2> QED
    BY <1>1, <1>2, <1>3 DEF PageInv
<1>5. obj[r][s] \in Row /\ mark \in MarksOf(r) /\ mark # Absent /\ Fits("toggle", r)
  <2>1. obj[r][s] \in Row
    BY <1>1, <1>2, FoundIs
  <2>2. mark \in {"on", "off"}
    OBVIOUS
  <2> HIDE DEF mark
  <2>3. mark \in MarksOf(r) /\ mark # Absent
    BY <1>1, <2>2, MarksAre
  <2>4. Fits("toggle", r)
    BY <1>1 DEF Fits, Kinds
  <2> QED
    BY <2>1, <2>3, <2>4
<1>6. /\ \A x \in Entity : <<x, srv[x]>> \in RowsOf(r, s) => hit(x, new(x, srv[x]))
      /\ \A x \in Entity : <<x, loc[x]>> \in RowsOf(r, s) => hit(x, new(x, loc[x]))
  <2> HIDE DEF new
  <2>1. \A x, u : <<x, u>>[1] = x /\ <<x, u>>[2] = u
    OBVIOUS
  <2> QED
    BY <2>1
<1>7. \A x, t : <<x, t>> \notin RowsOf(r, s) => new(x, t) = t
  OBVIOUS
<1> HIDE DEF new, mark
<1>8. ASSUME NEW x \in Entity, NEW t \in Slot, hit(x, t)
      PROVE  /\ x \in Ing /\ put(x, t) \in Row
             /\ put(x, t).mark \in MarksOf(x) /\ put(x, t).mark # Absent
  <2> DEFINE row == CHOOSE y \in RowsOf(r, s) : y[1] = x /\ new(x, y[2]) = t
  <2>1. row \in RowsOf(r, s) /\ row[1] = x
    BY <1>8
  <2>2. x \in Ing /\ row[2] \in Slot
    BY <2>1, RowsAre
  <2> HIDE DEF row
  <2>3. obj[x][row[2]] \in Row
    BY <1>2, <2>2 DEF PageInv, HeapOK
  <2>4. put(x, t) = [obj[x][row[2]] EXCEPT !.mark = Follows(mark)]
    BY DEF row
  <2>5. Follows(mark) \in {"needed", "not_needed"} /\ MarksOf(x) = {"needed", "check", "not_needed"}
    BY <2>2, MarksAre
  <2> HIDE DEF put
  <2> QED
    BY <2>2, <2>3, <2>4, <2>5, MarksAre DEF Row, Marks
<1> DEFINE row == [obj[r][s] EXCEPT !.mark = mark]
<1>9. /\ HeapOK(marked) /\ marked[r][s] = row /\ row.mark = mark
      /\ \A x \in Entity : \A t \in Slot : x # r \/ t # s => marked[x][t] = obj[x][t]
  <2>1. HeapOK(obj) /\ row \in Row /\ row.mark = mark
    BY <1>2, <1>5, MarksAre DEF PageInv, Row
  <2>2. marked = Put(obj, r, s, row)
    BY <1>2 DEF PageInv, HeapOK, Put
  <2> HIDE DEF marked, row
  <2> QED
    BY <1>5, <2>1, <2>2, HeapPut
<1> HIDE DEF marked, row, hit, put
<1>10. \A x \in Entity : \A t \in Slot : h[x][t] = IF hit(x, t) THEN put(x, t) ELSE marked[x][t]
  OBVIOUS
<1>11. HeapOK(h)
  <2>1. \A x \in Entity : \A t \in Slot : marked[x][t] \in Row /\ marked[x][t].mark \in MarksOf(x) \cup {Absent}
    BY <1>9 DEF HeapOK
  <2>2. h \in [Entity -> [Slot -> Row]]
    BY <1>8, <2>1
  <2> HIDE DEF h
  <2> QED
    BY <1>8, <1>10, <2>1, <2>2 DEF HeapOK
<1> HIDE DEF h
<1>12. h[r][s].mark \in MarksOf(r)
  BY <1>1, <1>5, <1>8, <1>9, <1>10, MarksAre
<1>13. /\ OpInv' /\ QueueInv' /\ FetchInv'
       /\ \A x : \A t \in Slot : t \in HeldBy(op', x) => t \in HeldBy(op, x) \/ (x = r /\ t = s)
  BY <1>1, <1>2, <1>5, <1>12, IssueKeeps
<1>14. Marked(h, op', srv', loc')
  <2> SUFFICES ASSUME NEW x \in Entity, NEW t \in Slot, t \in HeldBy(op', x) \cup {srv'[x], loc'[x]}
               PROVE  h[x][t].mark # Absent
    BY DEF Marked
  <2>1. CASE hit(x, t)
    BY <1>8, <1>10, <2>1
  <2>2. CASE ~hit(x, t) /\ x = r /\ t = s
    BY <1>5, <1>9, <1>10, <2>2
  <2>3. CASE ~hit(x, t) /\ ~(x = r /\ t = s)
    <3>1. h[x][t] = obj[x][t]
      BY <1>9, <1>10, <2>3
    <3>2. t \in HeldBy(op, x) \cup {srv[x], loc[x]}
      <4>1. CASE t \in HeldBy(op', x)
        BY <1>13, <2>3, <4>1
      <4>2. CASE t = srv'[x]
        <5>1. CASE x \in Ing
          <6>1. t = new(x, srv[x])
            BY <1>1, <4>2, <5>1
          <6>2. <<x, srv[x]>> \notin RowsOf(r, s)
            BY <1>6, <2>3, <6>1
          <6> QED
            BY <1>7, <6>1, <6>2
        <5>2. CASE x \notin Ing
          BY <1>1, <4>2, <5>2
        <5> QED
          BY <5>1, <5>2
      <4>3. CASE t = loc'[x]
        <5>1. CASE x \in Ing
          <6>1. t = new(x, loc[x])
            BY <1>1, <4>3, <5>1
          <6>2. <<x, loc[x]>> \notin RowsOf(r, s)
            BY <1>6, <2>3, <6>1
          <6> QED
            BY <1>7, <6>1, <6>2
        <5>2. CASE x \notin Ing
          BY <1>1, <4>3, <5>2
        <5> QED
          BY <5>1, <5>2
      <4> QED
        BY <4>1, <4>2, <4>3
    <3> QED
      BY <1>2, <3>1, <3>2 DEF PageInv, Marked
  <2> QED
    BY <2>1, <2>2, <2>3
<1>15. excused' \subseteq Entity
  BY <1>1, <1>5, RacedIn, MarksAre DEF IInv, SwitchInv, Owned
<1> QED
  BY <1>1, <1>4, <1>11, <1>13, <1>14, <1>15, EditKeeps

LEMMA RemoveKeeps ==
    ASSUME IInv, NEW e \in Entity, NEW s \in Slot, Remove(e, s)
    PROVE  IInv'
<1> DEFINE flagged == {<<e, s>>} \cup IF e \in Recipe THEN RowsOf(e, s) ELSE {}
           left == flagged \cup {<<e, t>> : t \in {u \in {srv[e], loc[e]} \ {0} : obj[e][u].id = obj[e][s].id}}
           h == [x \in Entity |-> [t \in Slot |->
                    IF <<x, t>> \in flagged THEN [obj[x][t] EXCEPT !.gone = TRUE] ELSE obj[x][t]]]
           kept(x, t) == IF <<x, t>> \in left THEN 0 ELSE t
<1>1. /\ Edit("delete") /\ s \in Found(e)
      /\ srv' = [x \in Entity |-> kept(x, srv[x])]
      /\ loc' = [x \in Entity |-> kept(x, loc[x])]
      /\ excused' = excused \cup Raced("delete", e)
      /\ IF obj[e][s].id = "temp"
         THEN edits' = edits + 1 /\ UNCHANGED <<op, queue>>
         ELSE Issue("delete", e, s, h)
      /\ Heap(h)
  BY DEF Remove
<1>2. OpInv /\ QueueInv /\ FetchInv /\ PageInv /\ fetch' = fetch /\ edits < MaxEdits
  BY <1>1 DEF IInv, Edit
<1>3. obj[e][s].mark \in MarksOf(e) /\ obj[e][s].mark # Absent /\ Fits("delete", e)
  BY <1>1, <1>2, FoundIs, MarksAre DEF Fits, Kinds
<1>4. \A x, t : kept(x, t) \in {0, t}
  OBVIOUS
<1> HIDE DEF flagged, kept
<1>5. \A x \in Entity : \A t \in Slot : h[x][t] \in Row /\ h[x][t].mark = obj[x][t].mark
  <2>1. \A x \in Entity : \A t \in Slot : obj[x][t] \in Row
    BY <1>2 DEF PageInv, HeapOK
  <2> QED
    BY <2>1 DEF Row
<1>6. HeapOK(h)
  <2>1. h \in [Entity -> [Slot -> Row]]
    BY <1>5
  <2> HIDE DEF h
  <2> QED
    BY <1>2, <1>5, <2>1 DEF PageInv, HeapOK
<1> HIDE DEF h
<1>7. /\ OpInv' /\ QueueInv' /\ FetchInv'
      /\ \A x : \A t \in Slot : t \in HeldBy(op', x) => t \in HeldBy(op, x) \/ (x = e /\ t = s)
  <2>1. CASE obj[e][s].id = "temp"
    <3>1. edits' = edits + 1 /\ op' = op /\ queue' = queue
      BY <1>1, <2>1
    <3>2. edits' \in 0..MaxEdits /\ \A n \in 1..MaxEdits : n <= edits => n <= edits'
      BY <1>2, <3>1, SlotFacts DEF OpInv
    <3>3. OpInv'
      BY <1>2, <3>1, <3>2 DEF OpInv, ClosureOK
    <3> QED
      BY <1>2, <3>1, <3>3 DEF QueueInv, FetchInv, ListOK
  <2>2. CASE obj[e][s].id # "temp"
    <3>1. h[e][s].mark \in MarksOf(e)
      BY <1>3, <1>5
    <3> QED
      BY <1>1, <1>2, <1>3, <2>2, <3>1, IssueKeeps
  <2> QED
    BY <2>1, <2>2
<1>8. srv' \in [Entity -> Slot \cup {0}] /\ loc' \in [Entity -> Slot \cup {0}]
  BY <1>1, <1>2, <1>4 DEF PageInv
<1>9. Marked(h, op', srv', loc')
  <2>1. Refers(e, s)
    BY <1>1, <1>4, <1>7, SlotFacts DEF Refers
  <2>2. Lifts(h, e, s)
    BY <1>3, <1>5 DEF Lifts
  <2> QED
    BY <1>2, <2>1, <2>2, MarkedWith DEF PageInv
<1>10. excused' \subseteq Entity
  BY <1>1, <1>3, RacedIn DEF IInv, SwitchInv
<1> QED
  BY <1>1, <1>6, <1>7, <1>8, <1>9, <1>10, EditKeeps

LEMMA ResetKeeps ==
    ASSUME IInv, Reset
    PROVE  IInv'
<1> DEFINE reset(x) == IF x \in Recipe THEN "off" ELSE "check"
           h == [x \in Entity |-> [t \in Slot |->
                    IF t \in {srv[x], loc[x]} THEN [obj[x][t] EXCEPT !.mark = reset(x)] ELSE obj[x][t]]]
<1>1. /\ Edit("reset")
      /\ excused' = excused \cup Raced("reset", Absent)
      /\ Issue("reset", Absent, 0, h) /\ UNCHANGED <<srv, loc>> /\ Heap(h)
  BY DEF Reset
<1>2. OpInv /\ QueueInv /\ FetchInv /\ PageInv /\ fetch' = fetch /\ edits < MaxEdits
  BY <1>1 DEF IInv, Edit
<1>3. Fits("reset", Absent)
  BY DEF Fits, Kinds
<1>4. \A x \in Entity : reset(x) \in MarksOf(x) /\ reset(x) # Absent
  BY MarksAre DEF Entity
<1> HIDE DEF reset
<1>5. \A x \in Entity : \A t \in Slot :
         h[x][t] \in Row /\ (h[x][t].mark = obj[x][t].mark \/ h[x][t].mark = reset(x))
  <2>1. \A x \in Entity : \A t \in Slot : obj[x][t] \in Row
    BY <1>2 DEF PageInv, HeapOK
  <2>2. \A x \in Entity : reset(x) \in Marks
    BY <1>4, MarksAre
  <2> QED
    BY <2>1, <2>2 DEF Row
<1>6. HeapOK(h)
  <2>1. h \in [Entity -> [Slot -> Row]]
    BY <1>5
  <2> HIDE DEF h
  <2> QED
    BY <1>2, <1>4, <1>5, <2>1 DEF PageInv, HeapOK
<1> HIDE DEF h
<1>7. /\ OpInv' /\ QueueInv' /\ FetchInv'
      /\ \A x : \A t \in Slot : t \in HeldBy(op', x) => t \in HeldBy(op, x) \/ (x = Absent /\ t = 0)
  BY <1>1, <1>2, <1>3, IssueKeeps
<1>8. srv' \in [Entity -> Slot \cup {0}] /\ loc' \in [Entity -> Slot \cup {0}]
  BY <1>1, <1>2 DEF PageInv
<1>9. Marked(h, op', srv', loc')
  <2>1. Refers(Absent, 0)
    BY <1>1, <1>7 DEF Refers
  <2>2. Lifts(h, Absent, 0)
    BY <1>4, <1>5, SlotFacts DEF Lifts
  <2> QED
    BY <1>2, <2>1, <2>2, MarkedWith DEF PageInv
<1>10. excused' \subseteq Entity
  BY <1>1, <1>3, RacedIn DEF IInv, SwitchInv
<1> QED
  BY <1>1, <1>6, <1>7, <1>8, <1>9, <1>10, EditKeeps

-----------------------------------------------------------------------------
\* The wire.

LEMMA ServeOpKeeps ==
    ASSUME IInv, NEW n \in 1..MaxEdits, NEW saved \in BOOLEAN, ServeOp(n, saved)
    PROVE  IInv'
<1> DEFINE q == op[n].msg
           ok == saved /\ ~Refuses(mem, q)
           e == q.e
           rows == CASE q.kind = "create" -> {e}
                     [] q.kind \in {"toggle", "rename"} -> Item \cup {e}
                     [] q.kind = "reset" \/ (q.kind = "delete" /\ e \in Recipe) -> Item
                     [] OTHER -> {}
           doc == [x \in Entity |-> IF x \in rows THEN mem'[x] ELSE Absent]
           answer == [tag |-> "ok", rows |-> doc]
           g == IF ok THEN answer ELSE [tag |-> "refused"]
<1>1. /\ op[n].pc = "sent"
      /\ Serve(q, saved)
      /\ op' = [op EXCEPT ![n].pc = "answered", ![n].msg = g]
      /\ IF ok THEN Signal ELSE UNCHANGED tick
      /\ excused' = IF saved THEN excused ELSE excused \cup Touches(n)
      /\ UNCHANGED <<pageVars, drain, fetch, sse, edits, rivals, turns, made, want>>
  BY DEF ServeOp
<1>2. StoreInv /\ OpInv /\ QueueInv /\ FetchInv /\ PageInv
  BY DEF IInv
<1>3. op[n] # NoOp /\ RequestOK(q) /\ q.kind = op[n].kind /\ q.e = op[n].e /\ Fits(q.kind, q.e)
  BY <1>1, <1>2, OpAt DEF OpInv, ClosureOK, RequestOK
<1> HIDE DEF q
<1>4. StoreInv' /\ (ok /\ q.kind \in {"create", "toggle", "rename"} => mem'[e] # Absent)
  BY <1>1, <1>2, <1>3, ServeKeeps
<1>5. /\ ListOK(doc)
      /\ ok /\ q.kind \in {"create", "toggle", "rename"} => doc[e] # Absent
  <2>1. q.kind \in {"create", "toggle", "rename"} => e \in rows
    OBVIOUS
  <2>2. e \in Entity \/ q.kind = "reset"
    BY <1>3 DEF Fits
  <2>3. ListOK(mem')
    BY <1>4 DEF StoreInv, DocOK
  <2> HIDE DEF rows
  <2> QED
    BY <1>4, <2>1, <2>2, <2>3 DEF ListOK
<1>6. g.tag = "ok" => /\ ListOK(g.rows)
                      /\ op[n].kind \in {"create", "toggle", "rename"} => g.rows[op[n].e] # Absent
  <2> HIDE DEF doc, ok
  <2> QED
    BY <1>3, <1>5
<1> HIDE DEF g, ok
<1>7. OpInv' /\ QueueInv' /\ FetchInv' /\ PageInv'
  BY <1>1, <1>2, <1>6, AnswerKeeps
<1>8. SwitchInv'
  BY <1>1, <1>2, OpAt DEF IInv, SwitchInv, pageVars, Signal
<1> QED
  BY <1>4, <1>7, <1>8 DEF IInv

LEMMA LoseOpKeeps ==
    ASSUME IInv, NEW n \in 1..MaxEdits, LoseOp(n)
    PROVE  IInv'
<1>1. /\ op[n].pc \in {"sent", "answered"}
      /\ op' = [op EXCEPT ![n].pc = "answered", ![n].msg = [tag |-> "lost"]]
      /\ excused' = excused \cup Touches(n)
      /\ UNCHANGED <<storeVars, pageVars, drain, fetch, sse, tick, edits, rivals, turns, made, want>>
  BY DEF LoseOp, Running
<1>2. OpInv /\ QueueInv /\ FetchInv /\ PageInv
  BY DEF IInv
<1>3. [tag |-> "lost"].tag # "ok"
  OBVIOUS
<1>4. OpInv' /\ QueueInv' /\ FetchInv' /\ PageInv'
  BY <1>1, <1>2, <1>3, AnswerKeeps
<1>5. SwitchInv'
  BY <1>1, <1>2, OpAt DEF IInv, SwitchInv, pageVars
<1> QED
  BY <1>1, <1>4, <1>5, StoreStays DEF IInv

LEMMA RestStays ==
    ASSUME OpInv, QueueInv, FetchInv, PageInv, UNCHANGED <<pageVars, op, fetch, edits>>
    PROVE  OpInv' /\ QueueInv' /\ FetchInv' /\ PageInv'
<1>1. OpInv'
  BY DEF OpInv, ClosureOK
<1>2. QueueInv'
  BY DEF QueueInv, pageVars
<1>3. FetchInv'
  BY DEF FetchInv, ListOK
<1>4. PageInv'
  BY DEF PageInv, pageVars, Marked, HeldBy
<1> QED
  BY <1>1, <1>2, <1>3, <1>4

LEMMA RivalKeeps ==
    ASSUME IInv, NEW e \in Item, Rival(e)
    PROVE  IInv'
<1> DEFINE q == [kind |-> "patch", e |-> e, mark |-> NextState[mem[e]], rid |-> "real"]
<1>1. /\ mem[e] # Absent /\ Serve(q, TRUE) /\ Signal /\ excused' = excused \cup {e}
      /\ UNCHANGED <<pageVars, op, drain, fetch, sse, edits, faults, turns, made, want>>
  BY DEF Rival
<1>2. e \in Entity /\ mem[e] \in {"needed", "check", "not_needed"} /\ MarksOf(e) = {"needed", "check", "not_needed"}
  BY <1>1, MarksAre DEF IInv, StoreInv, DocOK, ListOK
<1>3. NextState[mem[e]] \in {"needed", "check", "not_needed"}
  BY <1>2 DEF NextState
<1>4. RequestOK(q)
  BY <1>2, <1>3 DEF RequestOK, Fits, Kinds
<1> HIDE DEF q
<1>5. StoreInv'
  BY <1>1, <1>4, ServeKeeps DEF IInv
<1>6. OpInv' /\ QueueInv' /\ FetchInv' /\ PageInv'
  BY <1>1, RestStays DEF IInv
<1>7. SwitchInv'
  BY <1>1, <1>2 DEF IInv, SwitchInv, pageVars, Signal
<1> QED
  BY <1>5, <1>6, <1>7 DEF IInv

LEMMA StreamKeeps ==
    ASSUME IInv, Register \/ BreakStream
    PROVE  IInv'
<1>1. UNCHANGED <<pageVars, op, fetch, edits>>
  BY DEF Register, BreakStream, boundVars
<1>2. OpInv' /\ QueueInv' /\ FetchInv' /\ PageInv'
  BY <1>1, RestStays DEF IInv
<1>3. StoreInv'
  BY StoreStays, ReloadKeeps DEF IInv, Register, BreakStream, storeVars
<1>4. SwitchInv'
  BY <1>1 DEF IInv, SwitchInv, StoreInv, pageVars, Register, BreakStream, ghosts
<1> QED
  BY <1>2, <1>3, <1>4 DEF IInv

LEMMA FetchSlotFacts ==
    /\ Turns \subseteq FetchSlots /\ TickSlots \subseteq FetchSlots
    /\ \A n \in 1..MaxEdits : /\ RepairSlot(n) \in FetchSlots /\ RepairSlot(n) \notin Turns \cup TickSlots
                              /\ RepairSlot(n) > RepairSlot(0) /\ RepairSlot(n) - RepairSlot(0) = n
    /\ \A k \in FetchSlots : k > RepairSlot(0) =>
            k - RepairSlot(0) \in 1..MaxEdits /\ k = RepairSlot(k - RepairSlot(0))
<1>1. MaxSwitches \in Nat /\ MaxRefresh \in Nat /\ MaxEdits \in Nat
  BY SyncAssumption DEF SyncAssumption
<1> QED
  BY <1>1 DEF Turns, TickSlots, FetchSlots, RepairSlot

\* One refresh goes on.
LEMMA FetchSet ==
    ASSUME FetchInv, NEW k \in FetchSlots, NEW v, fetch' = [fetch EXCEPT ![k] = v],
           DOMAIN v = Part, \A part \in Part : v[part].pc = "answered" => ListOK(v[part].rows),
           \A n \in 1..MaxEdits : k = RepairSlot(n) =>
               v["recipes"] = NoGet /\ (v # NoFetch => op'[n].pc = "repair"),
           \A n \in 1..MaxEdits : k # RepairSlot(n) /\ op[n].pc = "repair" => op'[n].pc = "repair"
    PROVE  FetchInv'
<1>1. /\ DOMAIN fetch' = FetchSlots /\ fetch'[k] = v
      /\ \A j \in FetchSlots : j # k => fetch'[j] = fetch[j]
  BY DEF FetchInv
<1>2. \A j \in FetchSlots, part \in Part : fetch'[j][part].pc = "answered" => ListOK(fetch'[j][part].rows)
  BY <1>1 DEF FetchInv
<1>3. ASSUME NEW n \in 1..MaxEdits
      PROVE  /\ fetch'[RepairSlot(n)] # NoFetch => op'[n].pc = "repair"
             /\ fetch'[RepairSlot(n)]["recipes"] = NoGet
  <2>1. CASE k = RepairSlot(n)
    BY <1>1, <2>1
  <2>2. CASE k # RepairSlot(n)
    BY <1>1, <2>2, FetchSlotFacts DEF FetchInv
  <2> QED
    BY <2>1, <2>2
<1>4. \A j \in FetchSlots : DOMAIN fetch'[j] = Part
  BY <1>1 DEF FetchInv
<1> QED
  BY <1>1, <1>2, <1>3, <1>4 DEF FetchInv, ListOK

LEMMA GetKeeps ==
    ASSUME IInv, NEW k \in FetchSlots, NEW part \in Part, ServeGet(k, part) \/ LoseGet(k, part)
    PROVE  IInv'
<1>1. PICK rows : ListOK(rows) /\ AnswerGet(k, part, rows)
  <2>1. ListOK([x \in Entity |-> IF x \in Rows(part) THEN mem[x] ELSE Absent])
    BY DEF IInv, StoreInv, DocOK, ListOK
  <2>2. ListOK([x \in Entity |-> Absent])
    BY DEF ListOK
  <2> QED
    BY <2>1, <2>2 DEF ServeGet, LoseGet
<1> DEFINE g == [pc |-> "answered", rows |-> rows]
           v == [fetch[k] EXCEPT ![part] = g]
<1>2. /\ fetch[k][part].pc = "sent" /\ fetch' = [fetch EXCEPT ![k] = v]
      /\ UNCHANGED <<storeVars, pageVars, op, sse, tick, edits, ghosts>>
  BY <1>1 DEF AnswerGet
<1>3. OpInv /\ QueueInv /\ FetchInv /\ PageInv
  BY DEF IInv
<1>4. DOMAIN v = Part /\ v[part] = g /\ \A other \in Part : other # part => v[other] = fetch[k][other]
  BY <1>3 DEF FetchInv
<1>5. \A n \in 1..MaxEdits : k = RepairSlot(n) => op[n].pc = "repair" /\ part # "recipes"
  BY <1>2, <1>3 DEF FetchInv, NoFetch, NoGet
<1> HIDE DEF v
<1>6. FetchInv'
  <2>1. \A other \in Part : v[other].pc = "answered" => ListOK(v[other].rows)
    BY <1>1, <1>3, <1>4 DEF FetchInv
  <2>2. \A n \in 1..MaxEdits : k = RepairSlot(n) =>
            v["recipes"] = NoGet /\ (v # NoFetch => op'[n].pc = "repair")
    BY <1>2, <1>3, <1>4, <1>5 DEF FetchInv, Part
  <2> QED
    BY <1>2, <1>3, <1>4, <2>1, <2>2, FetchSet
<1>7. OpInv' /\ QueueInv' /\ PageInv'
  BY <1>2, <1>3 DEF OpInv, ClosureOK, QueueInv, PageInv, pageVars, Marked, HeldBy
<1>8. SwitchInv'
  BY <1>2 DEF IInv, SwitchInv, pageVars, ghosts
<1> QED
  BY <1>2, <1>6, <1>7, <1>8, StoreStays DEF IInv

-----------------------------------------------------------------------------
\* The page's answers.

\* Closures hold no more than they did.
Sheds == \A e : \A s \in Slot : s \in HeldBy(op', e) => s \in HeldBy(op, e)

LEMMA KeepKeeps ==
    ASSUME PageInv, NEW h, HeapOK(h), Marked(h, op, srv, loc), Sheds, Keep(h)
    PROVE  PageInv'
<1>1. UNCHANGED <<srv, loc>> /\ Heap(h)
  BY DEF Keep
<1>2. Marked(h, op', srv', loc')
  BY <1>1 DEF Marked, Sheds
<1>3. HeapOK(obj') /\ Marked(obj', op', srv', loc')
  BY <1>1, <1>2, HeapKeeps
<1> QED
  BY <1>1, <1>3 DEF PageInv

LEMMA MergeKeeps ==
    ASSUME OpInv, PageInv, NEW kinds, NEW rows, ListOK(rows), NEW h, HeapOK(h), Marked(h, op, srv, loc),
           Sheds, Merge(kinds, rows, h)
    PROVE  PageInv'
<1> DEFINE slot(e) == IF srv[e] # 0 /\ srv[e] \notin HeldBy(op, e) THEN srv[e] ELSE NewSlot(e, {})
           read(e) == [id |-> "real", mark |-> rows[e], rid |-> "real", gone |-> FALSE]
           fresh(e, t) == e \in kinds /\ rows[e] # Absent /\ t = slot(e)
           new == [e \in Entity |-> [t \in Slot |->
                    IF e \in kinds /\ rows[e] # Absent /\ t = slot(e) THEN read(e) ELSE h[e][t]]]
<1>1. /\ srv' = [e \in Entity |->
                    CASE e \notin kinds -> srv[e]
                      [] e \in kinds /\ rows[e] # Absent -> slot(e)
                      [] OTHER -> 0]
      /\ loc' = [e \in Entity |->
                    IF e \in kinds /\ loc[e] # 0 /\ h[e][loc[e]].id # "temp" THEN 0 ELSE loc[e]]
      /\ Heap(new)
  BY DEF Merge
<1>2. ASSUME NEW e \in Entity
      PROVE  slot(e) \in Slot
  <2>1. srv[e] \in Slot \cup {0}
    BY DEF PageInv
  <2>2. CASE srv[e] # 0 /\ srv[e] \notin HeldBy(op, e)
    BY <2>1, <2>2
  <2>3. CASE ~(srv[e] # 0 /\ srv[e] \notin HeldBy(op, e))
    <3> DEFINE X == {loc[e]}
    <3>1. IsFiniteSet(X) /\ Cardinality(X) = 1
      BY FS_Singleton
    <3>2. edits + Cardinality(X) < MaxEdits + 2
      BY <3>1, SlotFacts DEF OpInv
    <3>3. \A s \in Slot : s \in {srv[e], loc[e]} \cup {} => s \in HeldBy(op, e) \cup X
      BY <2>3, SlotFacts
    <3> HIDE DEF X
    <3>4. NewSlot(e, {}) \in Slot
      BY <3>1, <3>2, <3>3, SlotLeft
    <3> QED
      BY <2>3, <3>4
  <2> QED
    BY <2>2, <2>3
<1>3. \A e \in Entity : rows[e] # Absent => read(e) \in Row /\ read(e).mark = rows[e] /\ rows[e] \in MarksOf(e)
  BY MarksAre DEF ListOK, Row, Ids
<1> HIDE DEF slot, read
<1>4. \A e \in Entity : \A t \in Slot : new[e][t] = IF fresh(e, t) THEN read(e) ELSE h[e][t]
  OBVIOUS
<1>5. HeapOK(new)
  <2>1. new \in [Entity -> [Slot -> Row]]
    BY <1>3 DEF HeapOK
  <2> HIDE DEF new
  <2> QED
    BY <1>3, <1>4, <2>1 DEF HeapOK
<1> HIDE DEF new
<1>6. srv' \in [Entity -> Slot \cup {0}] /\ loc' \in [Entity -> Slot \cup {0}]
  BY <1>1, <1>2 DEF PageInv
<1>7. Marked(new, op', srv', loc')
  <2> SUFFICES ASSUME NEW x \in Entity, NEW t \in Slot, t \in HeldBy(op', x) \cup {srv'[x], loc'[x]}
               PROVE  new[x][t].mark # Absent
    BY DEF Marked
  <2>1. CASE fresh(x, t)
    BY <1>3, <1>4, <2>1
  <2>2. CASE ~fresh(x, t)
    <3>1. t = srv'[x] => t = srv[x]
      BY <1>1, <2>2, SlotFacts
    <3>2. t = loc'[x] => t = loc[x]
      BY <1>1, SlotFacts
    <3>3. t \in HeldBy(op', x) => t \in HeldBy(op, x)
      BY DEF Sheds
    <3> QED
      BY <1>4, <2>2, <3>1, <3>2, <3>3 DEF Marked
  <2> QED
    BY <2>1, <2>2
<1>8. HeapOK(obj') /\ Marked(obj', op', srv', loc')
  BY <1>1, <1>5, <1>7, HeapKeeps
<1> QED
  BY <1>6, <1>8 DEF PageInv

LEMMA MergeItemsKeeps ==
    ASSUME OpInv, PageInv, NEW rows, ListOK(rows), NEW h, HeapOK(h), Marked(h, op, srv, loc),
           Sheds, MergeItems(rows, h)
    PROVE  PageInv'
<1>1. Keep(h) \/ Merge(Item, rows, h)
  BY DEF MergeItems, Keep
<1> QED
  BY <1>1, KeepKeeps, MergeKeeps

\* The object a closure still unfinished was made with.
LEMMA HeldMarked ==
    ASSUME OpInv, PageInv, NEW n \in 1..MaxEdits, op[n].pc # "none", op[n].kind # "reset"
    PROVE  /\ op[n].e \in Entity /\ op[n].o \in Slot /\ obj[op[n].e][op[n].o] \in Row
           /\ obj[op[n].e][op[n].o].mark \in MarksOf(op[n].e) /\ obj[op[n].e][op[n].o].mark # Absent
<1>1. op[n].e \in Entity /\ op[n].o \in Slot
  BY OpAt DEF Fits
<1>2. op[n].o \in HeldBy(op, op[n].e)
  BY DEF OpInv, HeldBy
<1> QED
  BY <1>1, <1>2 DEF PageInv, HeapOK, Marked

LEMMA PutMarked ==
    ASSUME PageInv, NEW e \in Entity, NEW s \in Slot, NEW row \in Row, row.mark \in MarksOf(e)
    PROVE  HeapOK(Put(obj, e, s, row)) /\ Marked(Put(obj, e, s, row), op, srv, loc)
<1> DEFINE h == Put(obj, e, s, row)
<1>1. /\ HeapOK(h) /\ h[e][s] = row
      /\ \A x \in Entity : \A t \in Slot : x # e \/ t # s => h[x][t] = obj[x][t]
  BY HeapPut DEF PageInv
<1> HIDE DEF h
<1>2. row.mark # Absent
  BY MarksAre
<1>3. Marked(h, op, srv, loc)
  <2> SUFFICES ASSUME NEW x \in Entity, NEW t \in Slot, t \in HeldBy(op, x) \cup {srv[x], loc[x]}
               PROVE  h[x][t].mark # Absent
    BY DEF Marked
  <2> QED
    BY <1>1, <1>2 DEF PageInv, Marked
<1> QED
  BY <1>1, <1>3 DEF h

\* An answered closure is done with: what is left to show is the page.
LEMMA FinishSheds ==
    ASSUME OpInv, NEW n \in 1..MaxEdits, Finish(n), edits' = edits
    PROVE  OpInv' /\ Sheds /\ \A m \in 1..MaxEdits : m # n => op'[m] = op[m]
<1>1. op' = [op EXCEPT ![n] = NoOp]
  BY DEF Finish
<1> QED
  BY <1>1, OpDropped DEF Sheds

LEMMA ReplyKeeps ==
    ASSUME IInv, NEW n \in 1..MaxEdits, NEW kind, Reply(n, kind), Finish(n), fetch' = fetch, PageInv'
    PROVE  IInv'
<1>1. /\ op[n].pc = "answered" /\ queue' = queue /\ edits' = edits
      /\ UNCHANGED <<storeVars, online, replaying, sse, tick, excused>>
  BY DEF Reply, boundVars, ghosts
<1>2. OpInv' /\ \A m \in 1..MaxEdits : m # n => op'[m] = op[m]
  BY <1>1, FinishSheds DEF IInv
<1>3. QueueInv' /\ FetchInv'
  BY <1>1, <1>2, WaitStays DEF IInv
<1>4. SwitchInv'
  BY <1>1 DEF IInv, SwitchInv
<1> QED
  BY <1>1, <1>2, <1>3, <1>4, StoreStays DEF IInv

\* A created row's answer.
LEMMA AnswerHas ==
    ASSUME IInv, NEW n \in 1..MaxEdits, NEW kind, Reply(n, kind)
    PROVE  /\ op[n].kind = kind /\ op[n].pc = "answered" /\ edits' = edits
           /\ op[n].msg.tag = "ok" =>
                /\ ListOK(op[n].msg.rows)
                /\ kind \in {"create", "toggle", "rename"} /\ op[n].e \in Entity
                       => op[n].msg.rows[op[n].e] \in MarksOf(op[n].e)
<1>1. op[n].kind = kind /\ op[n].pc = "answered" /\ edits' = edits
  BY DEF Reply, boundVars
<1>2. op[n] # NoOp
  BY <1>1 DEF NoOp
<1>3. op[n].msg.tag = "ok" => /\ ListOK(op[n].msg.rows)
                              /\ kind \in {"create", "toggle", "rename"} => op[n].msg.rows[op[n].e] # Absent
  BY <1>1, <1>2 DEF IInv, OpInv, ClosureOK
<1> QED
  BY <1>1, <1>3 DEF ListOK

LEMMA CreatedItemKeeps ==
    ASSUME IInv, NEW n \in 1..MaxEdits, CreatedItem(n) \/ CreatedIngredient(n)
    PROVE  IInv'
<1> DEFINE e == op[n].e
           s == op[n].o
           old == obj[e][s]
           mark == IF replaying THEN old.mark ELSE op[n].msg.rows[e]
           rowI == [obj[e][s] EXCEPT !.id = "real", !.mark = IF replaying THEN @ ELSE op[n].msg.rows[e]]
           rowG == [obj[e][s] EXCEPT !.id = "real", !.rid = "real",
                                     !.mark = IF replaying THEN @ ELSE op[n].msg.rows[e]]
           rowN == [obj[e][s] EXCEPT !.id = "none"]
           hI == CASE op[n].msg.tag = "ok" -> [obj EXCEPT ![e][s] = rowI]
                   [] op[n].msg.tag = "refused" /\ replaying -> [obj EXCEPT ![e][s].id = "none"]
                   [] OTHER -> obj
           hG == IF op[n].msg.tag = "ok" THEN [obj EXCEPT ![e][s] = rowG] ELSE obj
<1>1. Reply(n, "create") /\ Finish(n) /\ UNCHANGED fetch /\ (Keep(hI) \/ Keep(hG))
  BY DEF CreatedItem, CreatedIngredient
<1>2. OpInv /\ PageInv
  BY DEF IInv
<1>3. /\ op[n].kind = "create" /\ op[n].pc = "answered" /\ edits' = edits
      /\ op[n].msg.tag = "ok" /\ e \in Entity => op[n].msg.rows[e] \in MarksOf(e)
  BY <1>1, AnswerHas
<1>4. e \in Entity /\ s \in Slot /\ old \in Row /\ old.mark \in MarksOf(e)
  BY <1>2, <1>3, HeldMarked
<1>5. op[n].msg.tag = "ok" => mark \in MarksOf(e) /\ mark \in Marks
  BY <1>3, <1>4, MarksAre
<1>6. /\ DOMAIN old = {"id", "mark", "rid", "gone"} /\ old.id \in Ids /\ old.rid \in Ids /\ old.gone \in BOOLEAN
      /\ {"real", "none"} \subseteq Ids
  BY <1>4 DEF Row, Ids
<1>7. /\ op[n].msg.tag = "ok" => rowI \in Row /\ rowI.mark \in MarksOf(e) /\ rowG \in Row /\ rowG.mark \in MarksOf(e)
      /\ rowN \in Row /\ rowN.mark \in MarksOf(e)
  <2>1. rowN \in Row /\ rowN.mark \in MarksOf(e)
    BY <1>4, <1>6 DEF Row
  <2>2. rowI = [old EXCEPT !.id = "real", !.mark = mark] /\ rowG = [old EXCEPT !.id = "real", !.rid = "real", !.mark = mark]
    BY <1>4 DEF Row
  <2> HIDE DEF rowI, rowG, rowN, mark, old
  <2>3. op[n].msg.tag = "ok" => rowI \in Row /\ rowI.mark \in MarksOf(e)
    BY <1>4, <1>5, <1>6, <2>2 DEF Row
  <2>4. op[n].msg.tag = "ok" => rowG \in Row /\ rowG.mark \in MarksOf(e)
    BY <1>4, <1>5, <1>6, <2>2 DEF Row
  <2> QED
    BY <2>1, <2>3, <2>4
<1>8. /\ [obj EXCEPT ![e][s] = rowI] = Put(obj, e, s, rowI)
      /\ [obj EXCEPT ![e][s] = rowG] = Put(obj, e, s, rowG)
      /\ [obj EXCEPT ![e][s].id = "none"] = Put(obj, e, s, rowN)
  BY <1>2, <1>4 DEF PageInv, HeapOK, Put
<1> HIDE DEF e, s, rowI, rowG, rowN
<1>9. HeapOK(obj) /\ Marked(obj, op, srv, loc)
  BY <1>2 DEF PageInv
<1>10. ASSUME NEW row \in Row, row.mark \in MarksOf(e)
       PROVE  HeapOK(Put(obj, e, s, row)) /\ Marked(Put(obj, e, s, row), op, srv, loc)
  BY <1>2, <1>4, <1>10, PutMarked
<1>11. HeapOK(hI) /\ Marked(hI, op, srv, loc)
  <2>1. CASE op[n].msg.tag = "ok"
    <3>1. hI = Put(obj, e, s, rowI)
      BY <1>8, <2>1
    <3> HIDE DEF hI
    <3> QED
      BY <1>7, <1>10, <2>1, <3>1
  <2>2. CASE op[n].msg.tag = "refused" /\ replaying
    <3>1. hI = Put(obj, e, s, rowN)
      BY <1>8, <2>2
    <3> HIDE DEF hI
    <3> QED
      BY <1>7, <1>10, <3>1
  <2>3. CASE op[n].msg.tag # "ok" /\ ~(op[n].msg.tag = "refused" /\ replaying)
    BY <1>9, <2>3
  <2> QED
    BY <2>1, <2>2, <2>3
<1>12. HeapOK(hG) /\ Marked(hG, op, srv, loc)
  <2>1. CASE op[n].msg.tag = "ok"
    <3>1. hG = Put(obj, e, s, rowG)
      BY <1>8, <2>1
    <3> HIDE DEF hG
    <3> QED
      BY <1>7, <1>10, <2>1, <3>1
  <2>2. CASE op[n].msg.tag # "ok"
    BY <1>9, <2>2
  <2> QED
    BY <2>1, <2>2
<1> HIDE DEF hI, hG
<1>13. OpInv' /\ Sheds
  BY <1>1, <1>2, <1>3, FinishSheds
<1>14. PageInv'
  BY <1>1, <1>2, <1>11, <1>12, <1>13, KeepKeeps
<1> QED
  BY <1>1, <1>14, ReplyKeeps

LEMMA CreatedRecipeKeeps ==
    ASSUME IInv, NEW n \in 1..MaxEdits, CreatedRecipe(n)
    PROVE  IInv'
<1> DEFINE r == op[n].e
           s == op[n].o
           h == [x \in Entity |-> [t \in Slot |->
                    CASE x = r /\ t = s -> [obj[x][t] EXCEPT !.id = "real"]
                      [] <<x, t>> \in RowsOf(r, s) -> [obj[x][t] EXCEPT !.rid = "real"]
                      [] OTHER -> obj[x][t]]]
<1>1. /\ Reply(n, "create") /\ fetch' = fetch
      /\ \/ /\ op' = [op EXCEPT ![n].pc = "sent", ![n].tries = @ + 1,
                                ![n].msg = Request("create", r, obj[r][s])]
            /\ Keep(obj)
         \/ Finish(n) /\ (Keep(h) \/ Keep(obj))
  BY DEF CreatedRecipe
<1>2. OpInv /\ QueueInv /\ FetchInv /\ PageInv
  BY DEF IInv
<1>3. op[n].kind = "create" /\ op[n].pc = "answered" /\ edits' = edits
  BY <1>1, AnswerHas
<1>4. HeapOK(obj) /\ Marked(obj, op, srv, loc)
  BY <1>2 DEF PageInv
<1>5. CASE /\ op' = [op EXCEPT ![n].pc = "sent", ![n].tries = @ + 1,
                               ![n].msg = Request("create", r, obj[r][s])]
           /\ Keep(obj)
  <2> DEFINE q == Request("create", r, obj[r][s])
  <2>1. n <= edits /\ Fits("create", r) /\ s \in Slot
    BY <1>2, <1>3, OpAt
  <2>2. RequestOK(q) /\ q.kind = "create" /\ q.e = r
    BY <2>1, RequestFits
  <2> HIDE DEF q
  <2>3. DOMAIN op = 1..MaxEdits /\ DOMAIN op[n] = {"kind", "e", "o", "pc", "msg", "tries"}
    BY <1>2 DEF OpInv, ClosureOK
  <2>4. op' = [op EXCEPT ![n].pc = "sent", ![n].tries = @ + 1, ![n].msg = q]
    BY <1>5 DEF q
  <2>5. DOMAIN op' = 1..MaxEdits /\ \A m \in 1..MaxEdits : m # n => op'[m] = op[m]
    BY <2>3, <2>4
  <2>6. /\ DOMAIN op'[n] = {"kind", "e", "o", "pc", "msg", "tries"}
        /\ op'[n].kind = op[n].kind /\ op'[n].e = r /\ op'[n].o = s
        /\ op'[n].pc = "sent" /\ op'[n].msg = q
    BY <2>3, <2>4
  <2>7. ClosureOK(op'[n], n, edits)
    BY <1>3, <2>1, <2>2, <2>6 DEF ClosureOK
  <2>8. OpInv'
    BY <1>2, <1>3, <2>5, <2>7 DEF OpInv, ClosureOK
  <2>9. \A m \in 1..MaxEdits : op'[m].e = op[m].e /\ op'[m].o = op[m].o
    BY <2>5, <2>6
  <2>10. Sheds
    BY <2>3, <2>5, <2>9 DEF Sheds, HeldBy
  <2>11. PageInv'
    BY <1>2, <1>4, <1>5, <2>10, KeepKeeps
  <2>12. queue' = queue /\ UNCHANGED <<storeVars, online, replaying, sse, tick, excused>>
    BY <1>1 DEF Reply, ghosts
  <2>13. QueueInv' /\ FetchInv'
    BY <1>1, <1>2, <1>3, <2>5, <2>12, WaitStays
  <2>14. SwitchInv'
    BY <2>12 DEF IInv, SwitchInv
  <2> QED
    BY <2>8, <2>11, <2>12, <2>13, <2>14, StoreStays DEF IInv
<1>6. CASE Finish(n) /\ (Keep(h) \/ Keep(obj))
  <2>1. OpInv' /\ Sheds
    BY <1>2, <1>3, <1>6, FinishSheds
  <2>2. \A x \in Entity : \A t \in Slot : h[x][t] \in Row /\ h[x][t].mark = obj[x][t].mark
    <3>1. \A x \in Entity : \A t \in Slot : obj[x][t] \in Row
      BY <1>4 DEF HeapOK
    <3>2. ASSUME NEW row \in Row
          PROVE  /\ [row EXCEPT !.id = "real"] \in Row /\ [row EXCEPT !.id = "real"].mark = row.mark
                 /\ [row EXCEPT !.rid = "real"] \in Row /\ [row EXCEPT !.rid = "real"].mark = row.mark
      BY DEF Row, Ids
    <3> SUFFICES ASSUME NEW x \in Entity, NEW t \in Slot
                 PROVE  h[x][t] \in Row /\ h[x][t].mark = obj[x][t].mark
      OBVIOUS
    <3> DEFINE old == obj[x][t]
    <3>3. h[x][t] \in {old, [old EXCEPT !.id = "real"], [old EXCEPT !.rid = "real"]}
      OBVIOUS
    <3>4. old \in Row
      BY <3>1
    <3> HIDE DEF h, old
    <3>5. h[x][t] \in Row /\ h[x][t].mark = old.mark
      BY <3>2, <3>3, <3>4
    <3> QED
      BY <3>5 DEF old
  <2>3. HeapOK(h) /\ Marked(h, op, srv, loc)
    <3>1. h \in [Entity -> [Slot -> Row]]
      <4>1. DOMAIN h = Entity /\ \A x \in Entity : DOMAIN h[x] = Slot
        OBVIOUS
      <4>2. h = [x \in Entity |-> [t \in Slot |-> h[x][t]]]
        OBVIOUS
      <4> HIDE DEF h
      <4> QED
        BY <2>2, <4>2
    <3> HIDE DEF h
    <3> QED
      BY <1>4, <2>2, <3>1 DEF HeapOK, Marked
  <2> HIDE DEF h
  <2>4. PageInv'
    BY <1>2, <1>4, <1>6, <2>1, <2>3, KeepKeeps
  <2> QED
    BY <1>1, <1>6, <2>4, ReplyKeeps
<1> QED
  BY <1>1, <1>5, <1>6

LEMMA PatchedKeeps ==
    ASSUME IInv, NEW n \in 1..MaxEdits,
           PatchedItem(n) \/ PatchedRecipe(n, "toggle") \/ PatchedRecipe(n, "rename") \/ WasReset(n)
    PROVE  IInv'
<1> DEFINE r == op[n].e
           rows == op[n].msg.rows
           first == IF srv[r] # 0 THEN srv[r] ELSE loc[r]
           h == IF first # 0 /\ obj[r][first].id = "real"
                THEN [obj EXCEPT ![r][first].mark = op[n].msg.rows[r]] ELSE obj
<1>1. PICK kind : /\ Reply(n, kind) /\ Finish(n) /\ fetch' = fetch
                  /\ \/ Keep(obj)
                     \/ op[n].msg.tag = "ok" /\ MergeItems(rows, obj)
                     \/ kind \in {"toggle", "rename"} /\ op[n].msg.tag = "ok" /\ MergeItems(rows, h)
  BY DEF PatchedItem, PatchedRecipe, WasReset
<1>2. OpInv /\ PageInv /\ HeapOK(obj) /\ Marked(obj, op, srv, loc)
  BY DEF IInv, PageInv
<1>3. /\ op[n].kind = kind /\ op[n].pc = "answered" /\ edits' = edits
      /\ op[n].msg.tag = "ok" =>
            ListOK(rows) /\ (kind \in {"toggle", "rename"} /\ r \in Entity => rows[r] \in MarksOf(r))
  BY <1>1, AnswerHas
<1>4. OpInv' /\ Sheds
  BY <1>1, <1>2, <1>3, FinishSheds
<1>5. kind \in {"toggle", "rename"} /\ op[n].msg.tag = "ok" => HeapOK(h) /\ Marked(h, op, srv, loc)
  <2> SUFFICES ASSUME kind \in {"toggle", "rename"}, op[n].msg.tag = "ok", first # 0, obj[r][first].id = "real"
               PROVE  HeapOK(h) /\ Marked(h, op, srv, loc)
    BY <1>2
  <2>1. r \in Entity
    BY <1>2, <1>3, HeldMarked
  <2>2. first \in Slot
    BY <1>2, <2>1 DEF PageInv
  <2> DEFINE row == [obj[r][first] EXCEPT !.mark = rows[r]]
  <2>3. row \in Row /\ row.mark \in MarksOf(r)
    <3>1. obj[r][first] \in Row
      BY <1>2, <2>1, <2>2 DEF HeapOK
    <3>2. rows[r] \in MarksOf(r) /\ rows[r] \in Marks
      BY <1>3, <2>1, MarksAre
    <3> QED
      BY <3>1, <3>2 DEF Row
  <2>4. h = Put(obj, r, first, row)
    BY <1>2, <2>1, <2>2 DEF HeapOK, Put
  <2> HIDE DEF row, h, first
  <2> QED
    BY <1>2, <2>1, <2>2, <2>3, <2>4, PutMarked
<1> HIDE DEF h, rows
<1>6. PageInv'
  <2>1. CASE Keep(obj)
    BY <1>2, <1>4, <2>1, KeepKeeps
  <2>2. CASE op[n].msg.tag = "ok" /\ MergeItems(rows, obj)
    BY <1>2, <1>3, <1>4, <2>2, MergeItemsKeeps
  <2>3. CASE kind \in {"toggle", "rename"} /\ op[n].msg.tag = "ok" /\ MergeItems(rows, h)
    BY <1>2, <1>3, <1>4, <1>5, <2>3, MergeItemsKeeps
  <2> QED
    BY <1>1, <2>1, <2>2, <2>3
<1> QED
  BY <1>1, <1>6, ReplyKeeps

LEMMA RemovedKeeps ==
    ASSUME IInv, NEW n \in 1..MaxEdits, Removed(n)
    PROVE  IInv'
<1>1. /\ Reply(n, "delete")
      /\ \/ /\ op' = [op EXCEPT ![n].pc = "repair"]
            /\ fetch' = [fetch EXCEPT ![RepairSlot(n)]["items"] = SentGet]
            /\ Keep(obj)
         \/ /\ Finish(n) /\ fetch' = fetch
            /\ Keep(obj) \/ (op[n].msg.tag = "ok" /\ MergeItems(op[n].msg.rows, obj))
  BY DEF Removed
<1>2. OpInv /\ QueueInv /\ FetchInv /\ PageInv /\ HeapOK(obj) /\ Marked(obj, op, srv, loc)
  BY DEF IInv, PageInv
<1>3. /\ op[n].kind = "delete" /\ op[n].pc = "answered" /\ edits' = edits
      /\ op[n].msg.tag = "ok" => ListOK(op[n].msg.rows)
  BY <1>1, AnswerHas
<1>4. CASE /\ op' = [op EXCEPT ![n].pc = "repair"]
           /\ fetch' = [fetch EXCEPT ![RepairSlot(n)]["items"] = SentGet]
           /\ Keep(obj)
  <2>1. /\ DOMAIN op = 1..MaxEdits /\ DOMAIN op[n] = {"kind", "e", "o", "pc", "msg", "tries"}
        /\ n <= edits /\ Fits("delete", op[n].e) /\ op[n].o \in Slot
    BY <1>2, <1>3, OpAt DEF OpInv, ClosureOK
  <2>2. DOMAIN op' = 1..MaxEdits /\ \A m \in 1..MaxEdits : m # n => op'[m] = op[m]
    BY <1>4, <2>1
  <2>3. /\ DOMAIN op'[n] = {"kind", "e", "o", "pc", "msg", "tries"}
        /\ op'[n].kind = "delete" /\ op'[n].e = op[n].e /\ op'[n].o = op[n].o /\ op'[n].pc = "repair"
    BY <1>3, <1>4, <2>1
  <2>4. ClosureOK(op'[n], n, edits)
    BY <2>1, <2>3 DEF ClosureOK
  <2>5. OpInv'
    BY <1>2, <1>3, <2>2, <2>4 DEF OpInv, ClosureOK
  <2>6. \A m \in 1..MaxEdits : op'[m].e = op[m].e /\ op'[m].o = op[m].o
    BY <2>2, <2>3
  <2>7. Sheds
    BY <2>1, <2>2, <2>6 DEF Sheds, HeldBy
  <2>8. PageInv'
    BY <1>2, <1>4, <2>7, KeepKeeps
  <2>9. queue' = queue /\ UNCHANGED <<storeVars, online, replaying, sse, tick, excused>>
    BY <1>1 DEF Reply, ghosts
  <2>10. QueueInv'
    <3>1. \A i \in 1..Len(queue) : queue[i] \in 1..MaxEdits
      <4> DEFINE N == 1..MaxEdits
      <4>1. queue \in Seq(N)
        BY <1>2 DEF QueueInv
      <4> HIDE DEF N
      <4>2. \A i \in 1..Len(queue) : queue[i] \in N
        BY <4>1
      <4> QED
        BY <4>2 DEF N
    <3> QED
      BY <1>2, <1>3, <2>2, <2>9, <3>1 DEF QueueInv
  <2>11. FetchInv'
    <3> DEFINE k == RepairSlot(n)
               v == [fetch[k] EXCEPT !["items"] = SentGet]
    <3>1. k \in FetchSlots /\ \A m \in 1..MaxEdits : k = RepairSlot(m) => m = n
      BY FetchSlotFacts
    <3> HIDE DEF k
    <3>2. DOMAIN fetch[k] = Part /\ fetch[k]["recipes"] = NoGet
      BY <1>2, <3>1 DEF FetchInv, k
    <3>3. DOMAIN v = Part /\ v["items"] = SentGet /\ v["recipes"] = NoGet
      BY <3>2 DEF Part
    <3>4. fetch' = [fetch EXCEPT ![k] = v]
      BY <1>4 DEF k
    <3> HIDE DEF v
    <3>5. \A part \in Part : v[part].pc = "answered" => ListOK(v[part].rows)
      BY <3>3 DEF Part, SentGet, NoGet
    <3>6. \A m \in 1..MaxEdits : k = RepairSlot(m) =>
              v["recipes"] = NoGet /\ (v # NoFetch => op'[m].pc = "repair")
      BY <2>3, <3>1, <3>3
    <3>7. \A m \in 1..MaxEdits : k # RepairSlot(m) /\ op[m].pc = "repair" => op'[m].pc = "repair"
      BY <2>2, <2>3
    <3> QED
      BY <1>2, <3>1, <3>3, <3>4, <3>5, <3>6, <3>7, FetchSet
  <2>12. SwitchInv'
    BY <2>9 DEF IInv, SwitchInv
  <2> QED
    BY <2>5, <2>8, <2>9, <2>10, <2>11, <2>12, StoreStays DEF IInv
<1>5. CASE /\ Finish(n) /\ fetch' = fetch
           /\ Keep(obj) \/ (op[n].msg.tag = "ok" /\ MergeItems(op[n].msg.rows, obj))
  <2>1. OpInv' /\ Sheds
    BY <1>2, <1>3, <1>5, FinishSheds
  <2>2. PageInv'
    BY <1>2, <1>3, <1>5, <2>1, KeepKeeps, MergeItemsKeeps
  <2> QED
    BY <1>1, <1>5, <2>2, ReplyKeeps
<1> QED
  BY <1>1, <1>4, <1>5

LEMMA LandKeeps ==
    ASSUME IInv, NEW k \in FetchSlots, NEW part \in Part, Land(k, part)
    PROVE  IInv'
<1> DEFINE rest == [fetch[k] EXCEPT ![part] = NoGet]
           n == k - RepairSlot(0)
<1>1. /\ fetch[k][part].pc = "answered" /\ fetch' = [fetch EXCEPT ![k] = rest]
      /\ \/ op' = op /\ (Connect \/ UNCHANGED <<sse, tick>>) /\ k \in Turns
         \/ op' = op /\ UNCHANGED <<sse, tick>> /\ ~(k > RepairSlot(0))
         \/ k > RepairSlot(0) /\ Finish(n) /\ UNCHANGED <<sse, tick>>
      /\ MergeItems(fetch[k][part].rows, obj) \/ Merge(Recipe, fetch[k][part].rows, obj)
      /\ UNCHANGED <<storeVars, queue, online, replaying, edits, excused>>
  BY DEF Land, boundVars, ghosts
<1>2. OpInv /\ QueueInv /\ FetchInv /\ PageInv /\ HeapOK(obj) /\ Marked(obj, op, srv, loc)
  BY DEF IInv, PageInv
<1>3. DOMAIN rest = Part /\ rest[part] = NoGet /\ \A other \in Part : other # part => rest[other] = fetch[k][other]
  BY <1>2 DEF FetchInv
<1>4. ListOK(fetch[k][part].rows)
  BY <1>1, <1>2 DEF FetchInv
<1>5. \A m \in 1..MaxEdits : k = RepairSlot(m) =>
          op[m].pc = "repair" /\ rest["recipes"] = NoGet /\ rest = NoFetch
  <2> SUFFICES ASSUME NEW m \in 1..MaxEdits, k = RepairSlot(m)
               PROVE  op[m].pc = "repair" /\ rest["recipes"] = NoGet /\ rest = NoFetch
    OBVIOUS
  <2>1. fetch[k] # NoFetch /\ fetch[k]["recipes"] = NoGet
    BY <1>1, <1>2 DEF FetchInv, NoFetch, NoGet
  <2>2. part = "items"
    BY <1>1, <2>1 DEF Part, NoGet
  <2>3. rest["recipes"] = NoGet /\ rest["items"] = NoGet
    BY <1>3, <2>1, <2>2 DEF Part
  <2>4. rest = [other \in Part |-> rest[other]]
    BY <1>2 DEF FetchInv
  <2>5. rest = NoFetch
    BY <2>3, <2>4 DEF Part, NoFetch
  <2> QED
    BY <1>2, <2>1, <2>3, <2>5 DEF FetchInv
<1> HIDE DEF rest
<1>6. \A other \in Part : rest[other].pc = "answered" => ListOK(rest[other].rows)
  BY <1>2, <1>3 DEF FetchInv, NoGet
<1>7. OpInv' /\ QueueInv' /\ Sheds
      /\ \A m \in 1..MaxEdits : k # RepairSlot(m) /\ op[m].pc = "repair" => op'[m].pc = "repair"
  <2>1. CASE op' = op
    BY <1>1, <1>2, <2>1 DEF OpInv, ClosureOK, QueueInv, Sheds
  <2>2. CASE k > RepairSlot(0) /\ Finish(n)
    <3>1. n \in 1..MaxEdits /\ k = RepairSlot(n)
      BY <2>2, FetchSlotFacts
    <3> HIDE DEF n
    <3>2. OpInv' /\ Sheds /\ \A m \in 1..MaxEdits : m # n => op'[m] = op[m]
      BY <1>1, <1>2, <2>2, <3>1, FinishSheds
    <3>3. op[n].pc = "repair"
      BY <1>5, <3>1
    <3>4. \A i \in 1..Len(queue) : queue[i] \in 1..MaxEdits
      <4> DEFINE N == 1..MaxEdits
      <4>1. queue \in Seq(N)
        BY <1>2 DEF QueueInv
      <4> HIDE DEF N
      <4>2. \A i \in 1..Len(queue) : queue[i] \in N
        BY <4>1
      <4> QED
        BY <4>2 DEF N
    <3>5. QueueInv'
      BY <1>1, <1>2, <3>2, <3>3, <3>4 DEF QueueInv
    <3> QED
      BY <3>1, <3>2, <3>5
  <2> QED
    BY <1>1, <2>1, <2>2
<1>8. FetchInv'
  BY <1>1, <1>2, <1>3, <1>5, <1>6, <1>7, FetchSet
<1>9. PageInv'
  BY <1>1, <1>2, <1>4, <1>7, MergeItemsKeeps, MergeKeeps
<1>10. SwitchInv'
  BY <1>1 DEF IInv, SwitchInv, Connect
<1> QED
  BY <1>1, <1>7, <1>8, <1>9, <1>10, StoreStays DEF IInv

-----------------------------------------------------------------------------
\* The stream's signal and the switch.

\* A full refresh starts in a slot that is no repair's.
LEMMA FullRefresh ==
    ASSUME FetchInv, NEW k \in Turns \cup TickSlots, fetch' = [fetch EXCEPT ![k] = FullFetch], op' = op
    PROVE  FetchInv'
<1>1. k \in FetchSlots /\ \A n \in 1..MaxEdits : k # RepairSlot(n)
  BY FetchSlotFacts
<1>2. DOMAIN FullFetch = Part /\ \A part \in Part : FullFetch[part].pc # "answered"
  BY DEF FullFetch, SentGet
<1> QED
  BY <1>1, <1>2, FetchSet

LEMMA RefreshKeeps ==
    ASSUME IInv, NEW k \in TickSlots, Refresh(k)
    PROVE  IInv'
<1>1. /\ tick' = FALSE /\ fetch' = [fetch EXCEPT ![k] = FullFetch]
      /\ UNCHANGED <<storeVars, pageVars, op, sse, edits, excused>>
  BY DEF Refresh, boundVars, ghosts
<1>2. FetchInv'
  BY <1>1, FullRefresh DEF IInv
<1>3. OpInv' /\ QueueInv' /\ PageInv'
  BY <1>1 DEF IInv, OpInv, ClosureOK, QueueInv, PageInv, pageVars, Marked, HeldBy
<1>4. SwitchInv'
  BY <1>1 DEF IInv, SwitchInv, pageVars
<1> QED
  BY <1>1, <1>2, <1>3, <1>4, StoreStays DEF IInv

LEMMA SwitchKeeps ==
    ASSUME IInv, SwitchOff \/ SwitchOn
    PROVE  IInv'
<1>1. /\ UNCHANGED <<storeVars, obj, srv, loc, queue, op, fetch, edits>>
      /\ online' \in BOOLEAN /\ replaying' \in {replaying, TRUE}
      /\ sse' \in {sse, "closed"} /\ tick' \in {tick, FALSE} /\ excused' = excused
  BY DEF SwitchOff, SwitchOn, boundVars, ghosts
<1>2. OpInv' /\ QueueInv' /\ FetchInv' /\ PageInv'
  BY <1>1 DEF IInv, OpInv, ClosureOK, QueueInv, FetchInv, ListOK, PageInv, Marked, HeldBy
<1>3. SwitchInv'
  BY <1>1 DEF IInv, SwitchInv
<1> QED
  BY <1>1, <1>2, <1>3, StoreStays DEF IInv

\* The queue's first closure leaves it.
LEMMA QueueHead ==
    ASSUME QueueInv, queue # <<>>
    PROVE  /\ Head(queue) \in 1..MaxEdits /\ op[Head(queue)].pc = "queued"
           /\ queue' = Tail(queue) /\ (\A m \in 1..MaxEdits : m # Head(queue) => op'[m] = op[m]) => QueueInv'
<1> DEFINE N == 1..MaxEdits
           z == Len(queue)
           n == Head(queue)
<1>1. queue \in Seq(N) /\ queue # <<>>
  BY DEF QueueInv
<1> HIDE DEF N
<1>2. /\ z \in Nat /\ z >= 1 /\ n = queue[1] /\ \A i \in 1..z : queue[i] \in N
      /\ Tail(queue) \in Seq(N) /\ Len(Tail(queue)) = z - 1
      /\ \A i \in 1..(z - 1) : Tail(queue)[i] = queue[i + 1]
  BY <1>1
<1>3. /\ \A i \in 1..z : op[queue[i]].pc = "queued"
      /\ \A i, j \in 1..z : queue[i] = queue[j] => i = j
  BY DEF QueueInv
<1> HIDE DEF z
<1>4. n \in N /\ op[n].pc = "queued"
  BY <1>2, <1>3
<1>5. ASSUME queue' = Tail(queue), \A m \in N : m # n => op'[m] = op[m]
      PROVE  QueueInv'
  <2>1. Len(queue') = z - 1 /\ queue' \in Seq(N)
    BY <1>2, <1>5
  <2>2. ASSUME NEW i \in 1..(z - 1)
        PROVE  i + 1 \in 1..z /\ queue'[i] = queue[i + 1] /\ op'[queue'[i]].pc = "queued"
    <3>1. i + 1 \in 1..z /\ 1 \in 1..z /\ i + 1 # 1
      BY <1>2
    <3>2. queue'[i] = queue[i + 1] /\ queue[i + 1] # queue[1] /\ queue[i + 1] \in N
      BY <1>2, <1>3, <1>5, <3>1
    <3> QED
      BY <1>2, <1>3, <1>5, <3>1, <3>2
  <2>3. \A i, j \in 1..(z - 1) : queue'[i] = queue'[j] => i = j
    <3> SUFFICES ASSUME NEW i \in 1..(z - 1), NEW j \in 1..(z - 1), queue'[i] = queue'[j]
                 PROVE  i = j
      OBVIOUS
    <3>1. i + 1 \in 1..z /\ j + 1 \in 1..z /\ queue[i + 1] = queue[j + 1]
      BY <2>2
    <3>2. i + 1 = j + 1
      BY <1>3, <3>1
    <3> QED
      BY <1>2, <3>2
  <2> QED
    BY <2>1, <2>2, <2>3 DEF QueueInv, N
<1> QED
  BY <1>4, <1>5 DEF N

LEMMA ReplayKeeps ==
    ASSUME IInv, NEW d \in Turns, Replay(d)
    PROVE  IInv'
<1>1. OpInv /\ QueueInv /\ FetchInv /\ PageInv /\ HeapOK(obj) /\ Marked(obj, op, srv, loc)
  BY DEF IInv, PageInv
<1>2. UNCHANGED <<storeVars, online, sse, tick, edits>>
  BY DEF Replay, boundVars
<1>3. CASE queue = <<>>
  <2>1. /\ replaying' = FALSE /\ fetch' = [fetch EXCEPT ![d] = FullFetch]
        /\ UNCHANGED <<queue, op, obj, srv, loc, excused>>
    BY <1>3 DEF Replay
  <2>2. FetchInv'
    BY <1>1, <2>1, FullRefresh
  <2>3. OpInv' /\ QueueInv'
    BY <1>1, <1>2, <2>1 DEF OpInv, ClosureOK, QueueInv
  <2>4. PageInv'
    BY <1>1, <2>1 DEF PageInv, Marked, HeldBy
  <2>5. SwitchInv'
    BY <1>2, <2>1 DEF IInv, SwitchInv
  <2> QED
    BY <1>2, <2>2, <2>3, <2>4, <2>5, StoreStays DEF IInv
<1>4. CASE queue # <<>>
  <2> DEFINE n == Head(queue)
             kind == op[n].kind
             ob == IF kind = "reset" THEN Blank ELSE obj[op[n].e][op[n].o]
             q == Request(kind, op[n].e, ob)
  <2>1. /\ queue' = Tail(queue) /\ UNCHANGED <<replaying, fetch>> /\ Keep(obj)
        /\ \/ op' = [op EXCEPT ![n].pc = "sent", ![n].msg = q]
           \/ op' = [op EXCEPT ![n] = NoOp]
        /\ excused' = excused \cup IF Overtaken(d) THEN Touches(n) ELSE {}
    BY <1>4 DEF Replay
  <2>2. n \in 1..MaxEdits /\ op[n].pc = "queued"
    BY <1>1, <1>4, QueueHead
  <2> HIDE DEF n
  <2>3. n <= edits /\ Fits(kind, op[n].e) /\ (kind # "reset" => op[n].o \in Slot) /\ Touches(n) \subseteq Entity
    BY <1>1, <2>2, OpAt
  <2>4. kind \in {"patch", "toggle"} => ob.mark \in MarksOf(op[n].e)
    BY <1>1, <2>2, HeldMarked
  <2> HIDE DEF ob
  <2>5. RequestOK(q) /\ q.kind = kind /\ q.e = op[n].e
    BY <2>3, <2>4, RequestFits
  <2> HIDE DEF q
  <2>6. OpInv' /\ Sheds /\ \A m \in 1..MaxEdits : m # n => op'[m] = op[m]
    <3>1. CASE op' = [op EXCEPT ![n].pc = "sent", ![n].msg = q]
      <4>1. /\ DOMAIN op' = 1..MaxEdits /\ \A m \in 1..MaxEdits : m # n => op'[m] = op[m]
            /\ DOMAIN op'[n] = {"kind", "e", "o", "pc", "msg", "tries"}
            /\ op'[n].kind = op[n].kind /\ op'[n].e = op[n].e /\ op'[n].o = op[n].o
            /\ op'[n].pc = "sent" /\ op'[n].msg = q
            /\ \A e : HeldBy(op', e) = HeldBy(op, e)
        BY <1>1, <2>2, <3>1, OpSet
      <4>2. ClosureOK(op'[n], n, edits)
        BY <2>3, <2>5, <4>1 DEF ClosureOK
      <4>3. OpInv'
        BY <1>1, <1>2, <4>1, <4>2 DEF OpInv, ClosureOK
      <4> QED
        BY <4>1, <4>3 DEF Sheds
    <3>2. CASE op' = [op EXCEPT ![n] = NoOp]
      BY <1>1, <1>2, <2>2, <3>2, OpDropped DEF Sheds
    <3> QED
      BY <2>1, <3>1, <3>2
  <2>7. QueueInv'
    BY <1>1, <1>4, <2>1, <2>6, QueueHead DEF n
  <2>8. FetchInv'
    BY <1>1, <2>1, <2>2, <2>6 DEF FetchInv, ListOK
  <2>9. PageInv'
    BY <1>1, <2>1, <2>6, KeepKeeps
  <2>10. SwitchInv'
    BY <1>2, <2>1, <2>3 DEF IInv, SwitchInv
  <2> QED
    BY <1>2, <2>6, <2>7, <2>8, <2>9, <2>10, StoreStays DEF IInv
<1> QED
  BY <1>3, <1>4

-----------------------------------------------------------------------------
\* The theorems.

LEMMA Starts == Init => IInv
<1> SUFFICES ASSUME Init PROVE IInv
  OBVIOUS
<1> DEFINE first(e) == CASE e \in Free -> "needed" [] e \in Recipe -> "off" [] OTHER -> "not_needed"
           row(e) == [id |-> "real", mark |-> mem[e], rid |-> "real", gone |-> FALSE]
<1>1. \A e \in Entity : first(e) \in MarksOf(e)
  BY MarksAre DEF Entity, Item
<1> HIDE DEF first
<1>2. mem = [e \in Entity |-> IF e \notin Known THEN Absent ELSE first(e)]
  BY DEF Init, first
<1>3. DocOK(mem)
  <2>1. ListOK(mem) /\ mem \in [Entity -> Marks \cup {Absent}]
    BY <1>1, <1>2, MarksAre DEF ListOK
  <2>2. ASSUME NEW g \in Ing, mem[g] # Absent
        PROVE  mem[RecipeOf[g]] # Absent
    <3>1. g \in Known /\ RecipeOf[g] \in Known /\ RecipeOf[g] \in Entity
      BY <1>2, <2>2, MarksAre, SyncAssumption DEF SyncAssumption
    <3> QED
      BY <1>1, <1>2, <3>1, MarksAre
  <2> QED
    BY <2>1, <2>2 DEF DocOK
<1>4. StoreInv
  BY <1>3 DEF Init, StoreInv, MemoryMatchesDisk
<1>5. OpInv
  BY SlotFacts DEF Init, OpInv, ClosureOK, NoOp
<1>6. QueueInv
  BY DEF Init, QueueInv
<1>7. FetchInv
  BY FetchSlotFacts DEF Init, FetchInv, NoFetch, NoGet, Part
<1>8. PageInv
  <2>1. /\ obj = [e \in Entity |-> [s \in Slot |-> IF e \in Known /\ s = 1 THEN row(e) ELSE Blank]]
        /\ srv = [e \in Entity |-> IF e \in Known THEN 1 ELSE 0] /\ loc = [e \in Entity |-> 0]
    BY DEF Init
  <2>2. \A e \in Entity : row(e) \in Row /\ row(e).mark = mem[e] /\ mem[e] \in MarksOf(e) \cup {Absent}
    BY <1>3 DEF DocOK, ListOK, Row, Ids
  <2>3. Blank \in Row /\ Blank.mark = Absent
    BY DEF Blank, Row, Ids, Marks
  <2> HIDE DEF row
  <2>4. \A e \in Entity : \A s \in Slot :
           obj[e][s] = IF e \in Known /\ s = 1 THEN row(e) ELSE Blank
    BY <2>1
  <2>5. obj \in [Entity -> [Slot -> Row]]
    BY <2>1, <2>2, <2>3
  <2>6. HeapOK(obj)
    BY <2>2, <2>3, <2>4, <2>5 DEF HeapOK
  <2>7. 1 \in Slot
    BY SlotFacts DEF Slot
  <2>8. \A e \in Entity : \A s \in Slot : s \notin HeldBy(op, e)
    BY SlotFacts DEF Init, HeldBy, NoOp
  <2>9. \A e \in Entity : e \in Known => mem[e] # Absent
    BY <1>1, <1>2, MarksAre
  <2>10. Marked(obj, op, srv, loc)
    BY <2>1, <2>2, <2>4, <2>8, <2>9, SlotFacts DEF Marked
  <2> QED
    BY <2>1, <2>6, <2>7, <2>10 DEF PageInv
<1>9. SwitchInv
  BY DEF Init, SwitchInv
<1> QED
  BY <1>4, <1>5, <1>6, <1>7, <1>8, <1>9 DEF IInv

LEMMA StepKeeps == IInv /\ [Next]_vars => IInv'
<1> SUFFICES ASSUME IInv, [Next]_vars PROVE IInv'
  OBVIOUS
<1>1. CASE UserEdit
  BY <1>1, CreateKeeps, CycleKeeps, ToggleKeeps, RenameKeeps, RemoveKeeps, ResetKeeps DEF UserEdit
<1>2. CASE SwitchOff \/ SwitchOn
  BY <1>2, SwitchKeeps
<1>3. CASE Fault
  BY <1>3, ServeOpKeeps, LoseOpKeeps, GetKeeps, StreamKeeps DEF Fault
<1>4. CASE \E e \in Item : Rival(e)
  BY <1>4, RivalKeeps
<1>5. CASE Progress
  <2>1. CASE \E n \in 1..MaxEdits : ServeOp(n, TRUE)
    BY <2>1, ServeOpKeeps
  <2>2. CASE \E n \in 1..MaxEdits : Replied(n)
    BY <2>2, CreatedItemKeeps, CreatedRecipeKeeps, PatchedKeeps, RemovedKeeps DEF Replied
  <2>3. CASE \E k \in FetchSlots, part \in Part : ServeGet(k, part) \/ Land(k, part)
    BY <2>3, GetKeeps, LandKeeps
  <2>4. CASE \E d \in Turns : Replay(d)
    BY <2>4, ReplayKeeps
  <2>5. CASE Register
    BY <2>5, StreamKeeps
  <2> QED
    BY <1>5, <2>1, <2>2, <2>3, <2>4, <2>5 DEF Progress
<1>6. CASE \E k \in TickSlots : Refresh(k)
  BY <1>6, RefreshKeeps
<1>7. CASE UNCHANGED vars
  <2>1. UNCHANGED <<storeVars, pageVars, op, fetch, edits, sse, tick, excused>>
    BY <1>7 DEF vars, wireVars, boundVars, ghosts
  <2>2. SwitchInv'
    BY <2>1 DEF IInv, SwitchInv, pageVars
  <2> QED
    BY <2>1, <2>2, StoreStays, RestStays DEF IInv
<1> QED
  BY <1>1, <1>2, <1>3, <1>4, <1>5, <1>6, <1>7 DEF Next

\* The books of closures, lists and objects hold in every state: whatever is
\* queued, lost or answered late, there is an object left for a row that needs
\* one, and what the page shows or will send has a mark.
THEOREM PageBooks == Spec => []IInv
<1>1. Init => IInv
  BY Starts
<1>2. IInv /\ [Next]_vars => IInv'
  BY StepKeeps
<1> QED
  BY <1>1, <1>2, PTL DEF Spec

\* Every variable stays in its type, for any edits, faults and rivals.
THEOREM PageTypes == Spec => []TypeOK
<1>1. IInv => TypeOK
  <2> SUFFICES ASSUME IInv PROVE TypeOK
    OBVIOUS
  <2>1. ASSUME NEW m, DocOK(m)
        PROVE  /\ m \in [Entity -> (UNION {MarksOf(e) : e \in Entity}) \cup {Absent}]
               /\ \A e \in Entity : m[e] \in MarksOf(e) \cup {Absent}
    <3> DEFINE All == UNION {MarksOf(e) : e \in Entity}
    <3>1. \A e \in Entity : MarksOf(e) \subseteq All
      OBVIOUS
    <3> HIDE DEF All
    <3>2. m \in [Entity -> All \cup {Absent}]
      BY <2>1, <3>1 DEF DocOK, ListOK
    <3> QED
      BY <2>1, <3>2 DEF DocOK, ListOK, All
  <2>2. StoreTypeOK
    BY <2>1 DEF IInv, StoreInv, StoreTypeOK
  <2>3. \A e \in Entity, s \in Slot :
            /\ obj[e][s].id \in {"temp", "real", "none"}
            /\ obj[e][s].mark \in MarksOf(e) \cup {Absent}
    <3>1. \A e \in Entity : \A s \in Slot : obj[e][s] \in Row /\ obj[e][s].mark \in MarksOf(e) \cup {Absent}
      BY DEF IInv, PageInv, HeapOK
    <3> QED
      BY <3>1 DEF Row, Ids
  <2> QED
    BY <2>2, <2>3 DEF IInv, PageInv, QueueInv, SwitchInv, TypeOK
<1> QED
  BY <1>1, PageBooks, PTL

\* Memory and file differ only on rows a failed, kept write has touched: no
\* refused change to a recipe waits in memory for a later save to commit it.
THEOREM DiskFollowsMemory == Spec => []MemoryMatchesDisk
<1>1. IInv => MemoryMatchesDisk
  BY DEF IInv, StoreInv
<1> QED
  BY <1>1, PageBooks, PTL

\* No ingredient outlives its recipe, in memory or on disk, through failed
\* saves and restarts.
THEOREM NoOrphans == Spec => []NoOrphanIngredient
<1>1. IInv => NoOrphanIngredient
  BY DEF IInv, StoreInv, DocOK, NoOrphanIngredient
<1> QED
  BY <1>1, PageBooks, PTL
-----------------------------------------------------------------------------
\* What the user asked for.

Active(o) == o.pc \in {"sent", "answered"}
Unserved(o) == o.pc \in {"queued", "sent"}
Reach(o) == Scope(o.kind, o.e)

\* A closure of row e; the one that makes it.
Of(o, e) == o.pc # "none" /\ o.kind # "reset" /\ o.e = e
Makes(o, e) == Of(o, e) /\ o.kind = "create"
Underway(ops, e) == \E k \in 1..MaxEdits : Makes(ops[k], e)

\* The rows whose mark or presence a closure has still to settle at the server.
Writes(o) ==
    CASE o.kind = "create" -> {o.e}
      [] o.kind = "rename" -> {}
      [] OTHER -> Reach(o)
Writer(o, e) == Unserved(o) /\ e \in Writes(o)
Removes(o, e) == Writer(o, e) /\ o.kind = "delete"
LastWriter(ops, n, e) == Writer(ops[n], e) /\ \A m \in 1..MaxEdits : Writer(ops[m], e) => m <= n

\* What closure o will leave in row e, if nothing comes between.
MarkOf(h, o) == IF o.pc = "queued" THEN h[o.e][o.o].mark ELSE o.msg.mark
Asks(h, o, w, e) ==
    CASE o.kind = "patch" -> MarkOf(h, o)
      [] o.kind = "toggle" -> IF e = o.e THEN MarkOf(h, o) ELSE Follows(MarkOf(h, o))
      [] o.kind = "reset" -> IF e \in Recipe THEN "off" ELSE "check"
      [] OTHER -> CASE e \in Free -> "needed" [] e \in Recipe -> "off" [] OTHER -> Follows(w[RecipeOf[e]])

\* The queue is in the order of the edits, and holds all that is queued.
OrderInv ==
    /\ \A i, j \in 1..Len(queue) : i < j => queue[i] < queue[j]
    /\ \A n \in 1..MaxEdits : op[n].pc = "queued" => \E i \in 1..Len(queue) : queue[i] = n
    /\ \A n \in 1..MaxEdits : op[n].pc = "repair" => op[n].kind = "delete"
    /\ turns \in Nat /\ DOMAIN drain = Turns /\ \A d \in Turns : d > turns => drain[d] = NoDrain

\* A row is somewhere only once it was made, after its recipe.
MadeInv ==
    /\ DOMAIN want = Entity
    /\ \A n \in 1..MaxEdits : \A e \in Entity : Of(op[n], e) => e \in made
    /\ \A e \in Entity : mem[e] # Absent \/ disk[e] # Absent \/ want[e] # Absent => e \in made
    /\ \A e \in Entity : srv[e] # 0 \/ loc[e] # 0 => e \in made
    /\ \A k \in FetchSlots : \A part \in Part : \A e \in Entity :
            fetch[k][part].pc = "answered" /\ fetch[k][part].rows[e] # Absent => e \in made
    /\ \A n \in 1..MaxEdits : \A e \in Entity :
            op[n].pc = "answered" /\ op[n].msg.tag = "ok" /\ op[n].msg.rows[e] # Absent => e \in made
    /\ \A g \in Ing : g \in made => RecipeOf[g] \in made

\* A row's first edit makes it, and its recipe was made before.
FirstInv ==
    \A k, n \in 1..MaxEdits : \A e \in Entity :
        /\ Makes(op[k], e) /\ Of(op[n], e) => k <= n
        /\ e \in Ing /\ Makes(op[k], RecipeOf[e]) /\ Of(op[n], e) => k < n

\* What excuses a recipe excuses what it owns, and all that only memory holds is excused.
GhostInv ==
    /\ \A g \in Ing : RecipeOf[g] \in excused => g \in excused
    /\ dirty \subseteq excused

\* Of one row no two requests are on the way,
Apart(e) ==
    \A m, n \in 1..MaxEdits :
        Active(op[m]) /\ Active(op[n]) /\ e \in Reach(op[m]) /\ e \in Reach(op[n]) => m = n

\* and while one is, what is queued about it is younger and a replay waits.
Serial(e) ==
    \A m, n \in 1..MaxEdits :
        op[m].pc = "queued" /\ Active(op[n]) /\ e \in Reach(op[m]) /\ e \in Reach(op[n])
        => n < m /\ replaying /\ \E d \in Turns : drain[d] = [pc |-> "await", n |-> n]

\* The objects of row e: what closures and lists may find in them.
ClosureRow(h, ops, sv, lc, w, e, n) ==
    LET o == ops[n]  ob == h[e][o.o] IN
    /\ ob.gone => w[e] = Absent
    /\ o.kind = "create" => ob.id = "temp"
    /\ o.kind = "create" /\ Unserved(o) =>
          /\ sv[e] = 0
          /\ w[e] # Absent => o.o = lc[e]
          /\ w[e] = Absent => o.pc = "queued" /\ ob.gone
    /\ o.kind = "create" /\ o.pc = "queued" /\ e \in Ing /\ w[e] # Absent =>
          ob.rid = IF Underway(ops, RecipeOf[e]) THEN "temp" ELSE "real"
    /\ o.kind \in {"patch", "toggle", "rename"} /\ o.pc = "queued" /\ w[e] # Absent =>
          ob.id = "real" \/ \E k \in 1..MaxEdits : k < n /\ Makes(ops[k], e) /\ ops[k].o = o.o

ListedRow(h, ops, e, s) ==
    /\ ~h[e][s].gone /\ h[e][s].id \in {"temp", "real"}
    /\ h[e][s].id = "temp" => \E k \in 1..MaxEdits : Makes(ops[k], e) /\ ops[k].o = s

RowInv(h, ops, sv, lc, w, e) ==
    /\ \A n \in 1..MaxEdits : Of(ops[n], e) => ClosureRow(h, ops, sv, lc, w, e, n)
    /\ \A s \in Slot : s \in {sv[e], lc[e]} => ListedRow(h, ops, e, s)

\* Until its POST is served a new row is nowhere but on the page; the server
\* takes it, its recipe being there.
Unseen(e) ==
    /\ mem[e] = Absent
    /\ \A k \in FetchSlots : \A part \in Part : fetch[k][part].pc = "answered" => fetch[k][part].rows[e] = Absent
    /\ \A n \in 1..MaxEdits : op[n].pc = "answered" /\ op[n].msg.tag = "ok" => op[n].msg.rows[e] = Absent

NewInv(e) ==
    \A k \in 1..MaxEdits : Makes(op[k], e) =>
        /\ Unserved(op[k]) => Unseen(e)
        /\ op[k].pc = "answered" => op[k].msg.tag = "ok"
        /\ op[k].pc = "sent" /\ e \in Ing => op[k].msg.rid = "real" /\ mem[RecipeOf[e]] # Absent

\* The youngest edit not yet served asks for what the user wants; when there is
\* none, the server has it.
WantInv(h, ops, w, m, e) ==
    /\ e \in Ing /\ w[e] # Absent => w[RecipeOf[e]] # Absent
    /\ \A n \in 1..MaxEdits : Removes(ops[n], e) => w[e] = Absent
    /\ (\A n \in 1..MaxEdits : ~Writer(ops[n], e)) => m[e] = w[e]
    /\ w[e] = Absent /\ m[e] # Absent => \E n \in 1..MaxEdits : Removes(ops[n], e)
    /\ w[e] # Absent /\ m[e] = Absent => \E n \in 1..MaxEdits : Makes(ops[n], e) /\ Unserved(ops[n])
    /\ w[e] # Absent => \A n \in 1..MaxEdits : LastWriter(ops, n, e) => Asks(h, ops[n], w, e) = w[e]

CleanRow(e) ==
    /\ Apart(e) /\ Serial(e)
    /\ RowInv(obj, op, srv, loc, want, e)
    /\ NewInv(e)
    /\ WantInv(obj, op, want, mem, e)

SInv ==
    /\ OrderInv /\ MadeInv /\ FirstInv /\ GhostInv
    /\ \A e \in Entity \ excused : CleanRow(e)

-----------------------------------------------------------------------------
\* Closures and the rows they are about.

LEMMA ScopeIs ==
    /\ \A e : Scope("reset", e) = Entity
    /\ \A kind, e : kind # "reset" /\ e \in Recipe => Scope(kind, e) = {e} \cup Owned(e)
    /\ \A kind, e : kind # "reset" /\ e \notin Recipe => Scope(kind, e) = {e}
    /\ \A r, g : g \in Owned(r) <=> g \in Ing /\ RecipeOf[g] = r
BY DEF Scope, Owned

LEMMA ReachIs ==
    ASSUME NEW o
    PROVE  /\ Writes(o) \subseteq Reach(o)
           /\ \A e : Writer(o, e) => Unserved(o) /\ e \in Reach(o)
           /\ \A e : Of(o, e) => e \in Reach(o)
           /\ \A e : Makes(o, e) /\ Unserved(o) => Writer(o, e)
           /\ \A e : Makes(o, e) => Of(o, e)
           /\ \A g \in Ing : Of(o, RecipeOf[g]) => g \in Reach(o)
<1>1. o.kind # "reset" => o.e \in Reach(o)
  BY ScopeIs DEF Reach
<1>2. Writes(o) \subseteq Reach(o)
  BY <1>1 DEF Writes
<1>3. \A g \in Ing : Of(o, RecipeOf[g]) => g \in Reach(o)
  BY ScopeIs, MarksAre DEF Reach, Of
<1> QED
  BY <1>1, <1>2, <1>3 DEF Writer, Of, Makes, Writes

\* What a closure on its way reaches is excused with its row.
LEMMA ReachExcused ==
    ASSUME GhostInv, NEW o, NEW e, Of(o, e), e \in excused
    PROVE  \A x \in Reach(o) : x \in excused
<1>1. o.kind # "reset" /\ o.e = e
  BY DEF Of
<1> QED
  BY <1>1, ScopeIs DEF Reach, GhostInv

LEMMA NoOpIs ==
    /\ NoOp.pc = "none" /\ NoOp.o = 0 /\ ~Unserved(NoOp) /\ ~Active(NoOp)
    /\ \A e : ~Of(NoOp, e) /\ ~Makes(NoOp, e) /\ ~Writer(NoOp, e) /\ ~Removes(NoOp, e)
BY DEF NoOp, Unserved, Active, Of, Makes, Writer, Removes

\* Closures without a place are not there; the others are as they should be.
LEMMA ClosureIs ==
    ASSUME OpInv, NEW n \in 1..MaxEdits
    PROVE  /\ op[n].pc \in {"none", "queued", "sent", "answered", "repair"}
           /\ op[n].pc = "none" => op[n] = NoOp
           /\ op[n].pc # "none" => n <= edits /\ op[n].kind \in Kinds /\ (op[n].kind # "reset" => op[n].e \in Entity)
           /\ \A e : Of(op[n], e) => e \in Entity /\ op[n].o \in Slot
           /\ op[n].pc = "sent" => op[n].msg.kind = op[n].kind /\ op[n].msg.e = op[n].e
<1>1. CASE op[n] = NoOp
  BY <1>1, NoOpIs
<1>2. CASE op[n] # NoOp
  BY <1>2 DEF OpInv, ClosureOK, Of, Fits
<1> QED
  BY <1>1, <1>2

-----------------------------------------------------------------------------
\* Requests of one row, one at a time.

\* Whatever else has still to be served about a row whose request is on its way
\* is queued, and younger.
LEMMA Ahead ==
    ASSUME NEW e, Apart(e), Serial(e), NEW n \in 1..MaxEdits, Active(op[n]), e \in Reach(op[n]),
           NEW m \in 1..MaxEdits, m # n, Unserved(op[m]), e \in Reach(op[m])
    PROVE  op[m].pc = "queued" /\ n < m
BY DEF Apart, Serial, Active, Unserved

\* Steps that send nothing new.
LEMMA WayStays ==
    ASSUME NEW e, Apart(e), Serial(e),
           \A n \in 1..MaxEdits : Active(op'[n]) /\ e \in Reach(op'[n]) => Active(op[n]) /\ e \in Reach(op[n]),
           \A n \in 1..MaxEdits : op'[n].pc = "queued" /\ e \in Reach(op'[n])
                                  => op[n].pc = "queued" /\ e \in Reach(op[n]),
           replaying => replaying',
           \A d \in Turns : \A n \in 1..MaxEdits :
               drain[d] = [pc |-> "await", n |-> n] /\ Active(op'[n]) => drain'[d] = [pc |-> "await", n |-> n]
    PROVE  Apart(e)' /\ Serial(e)'
<1>1. Apart(e)'
  BY DEF Apart
<1>2. Serial(e)'
  BY DEF Serial
<1> QED
  BY <1>1, <1>2

-----------------------------------------------------------------------------
\* Objects and closures that go on.

\* Closures go on, but none that makes row e leaves.
LEMMA RowStays ==
    ASSUME NEW h, NEW ops, NEW sv, NEW lc, NEW w, NEW e, RowInv(h, ops, sv, lc, w, e), NEW ops2,
           \A n \in 1..MaxEdits : Of(ops2[n], e) =>
               /\ Of(ops[n], e) /\ ops2[n].kind = ops[n].kind /\ ops2[n].o = ops[n].o
               /\ \/ ops2[n] = ops[n]
                  \/ ops2[n].pc \in {"answered", "repair"}
                  \/ ops2[n].pc = "sent" /\ ops[n].pc = "queued" /\ (ops[n].kind = "create" => w[e] # Absent),
           \A n \in 1..MaxEdits : Makes(ops[n], e) => Makes(ops2[n], e) /\ ops2[n].o = ops[n].o,
           e \in Ing => (Underway(ops2, RecipeOf[e]) <=> Underway(ops, RecipeOf[e]))
    PROVE  RowInv(h, ops2, sv, lc, w, e)
<1>1. ASSUME NEW n \in 1..MaxEdits, Of(ops2[n], e)
      PROVE  ClosureRow(h, ops2, sv, lc, w, e, n)
  <2>1. /\ Of(ops[n], e) /\ ops2[n].kind = ops[n].kind /\ ops2[n].o = ops[n].o
        /\ \/ ops2[n] = ops[n]
           \/ ops2[n].pc \in {"answered", "repair"}
           \/ ops2[n].pc = "sent" /\ ops[n].pc = "queued" /\ (ops[n].kind = "create" => w[e] # Absent)
    BY <1>1
  <2>2. ClosureRow(h, ops, sv, lc, w, e, n)
    BY <2>1 DEF RowInv
  <2> QED
    BY <2>1, <2>2 DEF ClosureRow, Unserved
<1>2. ASSUME NEW s \in Slot, s \in {sv[e], lc[e]}
      PROVE  ListedRow(h, ops2, e, s)
  <2>1. ListedRow(h, ops, e, s)
    BY <1>2 DEF RowInv
  <2> QED
    BY <2>1 DEF ListedRow
<1> QED
  BY <1>1, <1>2 DEF RowInv

\* Marks are not what is told apart here.
Alike(h, g, e) ==
    \A s \in Slot : h[e][s].id = g[e][s].id /\ h[e][s].rid = g[e][s].rid /\ h[e][s].gone = g[e][s].gone

LEMMA RowAlike ==
    ASSUME NEW h, NEW ops, NEW sv, NEW lc, NEW w, NEW e, RowInv(h, ops, sv, lc, w, e),
           \A n \in 1..MaxEdits : Of(ops[n], e) => ops[n].o \in Slot, NEW g, Alike(h, g, e)
    PROVE  RowInv(g, ops, sv, lc, w, e)
<1>1. ASSUME NEW n \in 1..MaxEdits, Of(ops[n], e)
      PROVE  ClosureRow(g, ops, sv, lc, w, e, n)
  <2>1. ClosureRow(h, ops, sv, lc, w, e, n) /\ ops[n].o \in Slot
    BY <1>1 DEF RowInv
  <2> QED
    BY <2>1 DEF ClosureRow, Alike
<1>2. ASSUME NEW s \in Slot, s \in {sv[e], lc[e]}
      PROVE  ListedRow(g, ops, e, s)
  BY <1>2 DEF RowInv, ListedRow, Alike
<1> QED
  BY <1>1, <1>2 DEF RowInv

\* After a step the objects of what is referred to are as the step made them.
LEMMA HeapAt ==
    ASSUME NEW h, Heap(h)
    PROVE  \A e \in Entity : \A s \in Slot : s \in HeldBy(op', e) \cup {srv'[e], loc'[e]} => obj'[e][s] = h[e][s]
BY DEF Heap

LEMMA RowHeap ==
    ASSUME OpInv', NEW h, Heap(h), NEW e \in Entity, RowInv(h, op', srv', loc', want', e)
    PROVE  RowInv(obj', op', srv', loc', want', e)
<1>1. ASSUME NEW n \in 1..MaxEdits, Of(op'[n], e)
      PROVE  ClosureRow(obj', op', srv', loc', want', e, n)
  <2>1. ClosureRow(h, op', srv', loc', want', e, n)
    BY <1>1 DEF RowInv
  <2>2. op'[n].o \in Slot /\ DOMAIN op' = 1..MaxEdits
    <3>1. op'[n] # NoOp
      BY <1>1, NoOpIs
    <3> QED
      BY <1>1, <3>1 DEF OpInv, ClosureOK, Of
  <2>3. op'[n].o \in HeldBy(op', e)
    BY <1>1, <2>2 DEF HeldBy, Of
  <2>4. obj'[e][op'[n].o] = h[e][op'[n].o]
    BY <2>2, <2>3, HeapAt
  <2> QED
    BY <2>1, <2>4 DEF ClosureRow
<1>2. ASSUME NEW s \in Slot, s \in {srv'[e], loc'[e]}
      PROVE  ListedRow(obj', op', e, s)
  <2>1. obj'[e][s] = h[e][s]
    BY <1>2, HeapAt
  <2> QED
    BY <1>2, <2>1 DEF RowInv, ListedRow
<1> QED
  BY <1>1, <1>2 DEF RowInv

-----------------------------------------------------------------------------
\* What is asked, and what is new.

LEMMA WantLike ==
    ASSUME NEW h, NEW ops, NEW w, NEW m, NEW e, WantInv(h, ops, w, m, e),
           NEW h2, NEW ops2, NEW w2, NEW m2,
           w2[e] = w[e], m2[e] = m[e], e \in Ing => w2[RecipeOf[e]] = w[RecipeOf[e]],
           \A n \in 1..MaxEdits : Writer(ops2[n], e) <=> Writer(ops[n], e),
           \A n \in 1..MaxEdits : Writer(ops2[n], e) =>
               /\ ops2[n].kind = ops[n].kind /\ ops2[n].e = ops[n].e
               /\ Asks(h2, ops2[n], w2, e) = Asks(h, ops[n], w, e)
    PROVE  WantInv(h2, ops2, w2, m2, e)
<1>1. \A n \in 1..MaxEdits : Removes(ops2[n], e) <=> Removes(ops[n], e)
  BY DEF Removes
<1>2. \A n \in 1..MaxEdits : Makes(ops[n], e) /\ Unserved(ops[n]) => Makes(ops2[n], e) /\ Unserved(ops2[n])
  <2> SUFFICES ASSUME NEW n \in 1..MaxEdits, Makes(ops[n], e), Unserved(ops[n])
               PROVE  Makes(ops2[n], e) /\ Unserved(ops2[n])
    OBVIOUS
  <2>1. Writer(ops[n], e)
    BY ReachIs
  <2>2. Writer(ops2[n], e) /\ ops2[n].kind = ops[n].kind /\ ops2[n].e = ops[n].e
    BY <2>1
  <2> QED
    BY <2>2, ReachIs DEF Makes, Of, Unserved
<1>3. \A n \in 1..MaxEdits : LastWriter(ops2, n, e) => LastWriter(ops, n, e)
  BY DEF LastWriter
<1>4. w2[e] # Absent => \A n \in 1..MaxEdits : LastWriter(ops2, n, e) => Asks(h2, ops2[n], w2, e) = w2[e]
  <2> SUFFICES ASSUME w2[e] # Absent, NEW n \in 1..MaxEdits, LastWriter(ops2, n, e)
               PROVE  Asks(h2, ops2[n], w2, e) = w2[e]
    OBVIOUS
  <2>1. LastWriter(ops, n, e) /\ Writer(ops2[n], e)
    BY <1>3 DEF LastWriter
  <2> QED
    BY <2>1 DEF WantInv
<1> QED
  BY <1>1, <1>2, <1>4 DEF WantInv

\* The mark a closure will send, by another heap.
LEMMA AsksLike ==
    ASSUME NEW h, NEW o, NEW w, NEW e, NEW h2, NEW w2, e \in Ing => w2[RecipeOf[e]] = w[RecipeOf[e]],
           e \in Entity, o.pc = "queued" /\ o.kind \in {"patch", "toggle"} => h2[o.e][o.o].mark = h[o.e][o.o].mark
    PROVE  Asks(h2, o, w2, e) = Asks(h, o, w, e)
BY DEF Asks, MarkOf, Entity, Item

LEMMA WantStays ==
    ASSUME NEW h, NEW ops, NEW w, NEW m, NEW e \in Entity, WantInv(h, ops, w, m, e),
           NEW h2, NEW ops2, NEW w2, NEW m2,
           w2[e] = w[e], m2[e] = m[e], e \in Ing => w2[RecipeOf[e]] = w[RecipeOf[e]],
           \A n \in 1..MaxEdits : Writer(ops2[n], e) \/ Writer(ops[n], e) => ops2[n] = ops[n],
           \A n \in 1..MaxEdits : Writer(ops[n], e) /\ ops[n].pc = "queued" /\ ops[n].kind \in {"patch", "toggle"}
               => h2[ops[n].e][ops[n].o].mark = h[ops[n].e][ops[n].o].mark
    PROVE  WantInv(h2, ops2, w2, m2, e)
<1>1. \A n \in 1..MaxEdits : Writer(ops2[n], e) <=> Writer(ops[n], e)
  OBVIOUS
<1>2. ASSUME NEW n \in 1..MaxEdits, Writer(ops2[n], e)
      PROVE  /\ ops2[n] = ops[n]
             /\ Asks(h2, ops2[n], w2, e) = Asks(h, ops[n], w, e)
  <2>1. ops2[n] = ops[n] /\ Writer(ops[n], e)
    BY <1>2
  <2>2. Asks(h2, ops[n], w2, e) = Asks(h, ops[n], w, e)
    BY <2>1, AsksLike
  <2> QED
    BY <2>1, <2>2
<1> QED
  BY <1>1, <1>2, WantLike

\* A closure's object, where a queued one will read it.
LEMMA WriterHolds ==
    ASSUME OpInv, NEW n \in 1..MaxEdits, NEW e, Writer(op[n], e), op[n].kind # "reset"
    PROVE  /\ op[n].e \in Entity /\ op[n].o \in Slot /\ op[n].o \in HeldBy(op, op[n].e)
           /\ e \in Reach(op[n]) /\ Of(op[n], op[n].e)
<1>1. Of(op[n], op[n].e)
  BY DEF Writer, Unserved, Of
<1> QED
  BY <1>1, ClosureIs, ReachIs DEF OpInv, HeldBy, Of

LEMMA WantHeap ==
    ASSUME OpInv', NEW h, Heap(h), NEW w, NEW m, NEW e \in Entity, WantInv(h, op', w, m, e)
    PROVE  WantInv(obj', op', w, m, e)
<1>1. ASSUME NEW n \in 1..MaxEdits, Writer(op'[n], e), op'[n].kind \in {"patch", "toggle"}
      PROVE  obj'[op'[n].e][op'[n].o].mark = h[op'[n].e][op'[n].o].mark
  <2>1. op'[n] # NoOp
    BY <1>1, NoOpIs
  <2>2. op'[n].e \in Entity /\ op'[n].o \in Slot /\ DOMAIN op' = 1..MaxEdits
    BY <1>1, <2>1 DEF OpInv, ClosureOK, Fits
  <2>3. op'[n].o \in HeldBy(op', op'[n].e)
    BY <2>2 DEF HeldBy
  <2> QED
    BY <2>2, <2>3, HeapAt
<1> QED
  BY <1>1, WantStays

\* Nothing that concerns a row's own POST changes, nor what lists say of it.
LEMMA NewStays ==
    ASSUME NEW e \in Entity, NewInv(e), mem'[e] = mem[e], e \in Ing => mem'[RecipeOf[e]] = mem[RecipeOf[e]],
           \A k \in 1..MaxEdits : Makes(op'[k], e) => op'[k] = op[k],
           \A k \in FetchSlots : \A part \in Part : fetch'[k][part].pc = "answered" =>
               fetch'[k][part] = fetch[k][part] \/ fetch'[k][part].rows[e] \in {Absent, mem[e]},
           \A n \in 1..MaxEdits : op'[n].pc = "answered" /\ op'[n].msg.tag = "ok" =>
               op'[n] = op[n] \/ op'[n].msg.rows[e] \in {Absent, mem[e]}
    PROVE  NewInv(e)'
<1> SUFFICES ASSUME NEW k \in 1..MaxEdits, Makes(op'[k], e)
             PROVE  /\ Unserved(op'[k]) => Unseen(e)'
                    /\ op'[k].pc = "answered" => op'[k].msg.tag = "ok"
                    /\ op'[k].pc = "sent" /\ e \in Ing => op'[k].msg.rid = "real" /\ mem'[RecipeOf[e]] # Absent
  BY DEF NewInv
<1>1. op'[k] = op[k] /\ Makes(op[k], e)
  OBVIOUS
<1>2. Unserved(op[k]) => Unseen(e)
  BY <1>1 DEF NewInv
<1>3. Unserved(op'[k]) => Unseen(e)'
  BY <1>1, <1>2 DEF Unseen
<1> QED
  BY <1>1, <1>3 DEF NewInv

-----------------------------------------------------------------------------
\* The books.

\* Closure n is as before, done, or one of the same row and object.
Ages(n) ==
    \/ op'[n] = op[n]
    \/ op'[n] = NoOp
    \/ /\ op[n].pc # "none" /\ op'[n].pc # "none"
       /\ op'[n].kind = op[n].kind /\ op'[n].e = op[n].e /\ op'[n].o = op[n].o

LEMMA AgesIs ==
    ASSUME NEW n, Ages(n)
    PROVE  /\ \A e : Of(op'[n], e) => Of(op[n], e)
           /\ \A e : Makes(op'[n], e) => Makes(op[n], e)
           /\ \A e : e \in Reach(op'[n]) /\ op'[n].pc # "none" => e \in Reach(op[n])
BY NoOpIs DEF Ages, Of, Makes, Reach

LEMMA FirstStays == FirstInv /\ (\A n \in 1..MaxEdits : Ages(n)) => FirstInv'
<1> SUFFICES ASSUME FirstInv, \A n \in 1..MaxEdits : Ages(n) PROVE FirstInv'
  OBVIOUS
<1>1. \A n \in 1..MaxEdits : \A e : (Of(op'[n], e) => Of(op[n], e)) /\ (Makes(op'[n], e) => Makes(op[n], e))
  BY AgesIs
<1> QED
  BY <1>1 DEF FirstInv

LEMMA OrderStays ==
    ASSUME OrderInv, queue' = queue,
           \A n \in 1..MaxEdits : op'[n].pc = "queued" => op[n].pc = "queued",
           \A n \in 1..MaxEdits : op'[n].pc = "repair" => op'[n].kind = "delete",
           turns' = turns \/ turns' = turns + 1, turns \in Nat, DOMAIN drain' = DOMAIN drain,
           \A d \in Turns : drain[d] = NoDrain => drain'[d] = NoDrain \/ d = turns'
    PROVE  OrderInv'
<1>1. \A d \in Turns : d > turns' => d > turns /\ d # turns' /\ d \in Nat
  BY DEF Turns
<1>2. \A d \in Turns : d > turns' => drain'[d] = NoDrain
  BY <1>1 DEF OrderInv
<1> QED
  BY <1>2 DEF OrderInv

LEMMA MadeStays ==
    ASSUME MadeInv, made' = made, want' = want, \A n \in 1..MaxEdits : Ages(n),
           \A e \in Entity : mem'[e] # Absent \/ disk'[e] # Absent => e \in made,
           \A e \in Entity : srv'[e] # 0 \/ loc'[e] # 0 => e \in made,
           \A k \in FetchSlots : \A part \in Part : \A e \in Entity :
               fetch'[k][part].pc = "answered" /\ fetch'[k][part].rows[e] # Absent => e \in made,
           \A n \in 1..MaxEdits : \A e \in Entity :
               op'[n].pc = "answered" /\ op'[n].msg.tag = "ok" /\ op'[n].msg.rows[e] # Absent => e \in made
    PROVE  MadeInv'
<1>1. \A n \in 1..MaxEdits : \A e : Of(op'[n], e) => Of(op[n], e)
  BY AgesIs
<1> QED
  BY <1>1 DEF MadeInv


-----------------------------------------------------------------------------
\* Steps that leave the closures and the page's rows alone.

LEMMA OutsideSettles ==
    ASSUME IInv, SInv, GhostInv',
           op' = op, obj' = obj, srv' = srv, loc' = loc, queue' = queue, want' = want, made' = made,
           excused \subseteq excused',
           turns' = turns \/ turns' = turns + 1, DOMAIN drain' = DOMAIN drain,
           \A d \in Turns : drain[d] = NoDrain => drain'[d] = NoDrain \/ d = turns',
           \A d \in Turns : drain[d].pc = "await" => drain'[d] = drain[d],
           replaying => replaying',
           \A e \in Entity : mem'[e] # Absent \/ disk'[e] # Absent => e \in made,
           \A e \in Entity \ excused' : mem'[e] = mem[e],
           \A k \in FetchSlots : \A part \in Part : fetch'[k][part].pc = "answered" =>
               fetch'[k][part] = fetch[k][part] \/ \A e \in Entity : fetch'[k][part].rows[e] \in {Absent, mem[e]}
    PROVE  SInv'
<1>1. OpInv /\ OrderInv /\ MadeInv /\ FirstInv /\ GhostInv
  BY DEF IInv, SInv
<1>2. \A n \in 1..MaxEdits : Ages(n)
  BY DEF Ages
<1>3. OrderInv'
  <2>1. turns \in Nat /\ \A n \in 1..MaxEdits : op[n].pc = "repair" => op[n].kind = "delete"
    BY <1>1 DEF OrderInv
  <2> QED
    BY <1>1, <2>1, OrderStays
<1>4. MadeInv'
  <2>1. \A k \in FetchSlots : \A part \in Part : \A e \in Entity :
               fetch'[k][part].pc = "answered" /\ fetch'[k][part].rows[e] # Absent => e \in made
    <3> SUFFICES ASSUME NEW k \in FetchSlots, NEW part \in Part, NEW e \in Entity,
                        fetch'[k][part].pc = "answered", fetch'[k][part].rows[e] # Absent
                 PROVE  e \in made
      OBVIOUS
    <3>1. CASE fetch'[k][part] = fetch[k][part]
      BY <1>1, <3>1 DEF MadeInv
    <3>2. CASE fetch'[k][part].rows[e] = mem[e]
      BY <1>1, <3>2 DEF MadeInv
    <3> QED
      BY <3>1, <3>2
  <2>2. /\ \A e \in Entity : srv'[e] # 0 \/ loc'[e] # 0 => e \in made
        /\ \A n \in 1..MaxEdits : \A e \in Entity :
               op'[n].pc = "answered" /\ op'[n].msg.tag = "ok" /\ op'[n].msg.rows[e] # Absent => e \in made
    BY <1>1 DEF MadeInv
  <2> QED
    BY <1>1, <1>2, <2>1, <2>2, MadeStays
<1>5. FirstInv'
  BY <1>1, <1>2, FirstStays
<1>6. ASSUME NEW e \in Entity \ excused'
      PROVE  CleanRow(e)'
  <2>1. e \in Entity /\ CleanRow(e) /\ mem'[e] = mem[e]
    BY <1>6 DEF SInv
  <2>2. Apart(e)' /\ Serial(e)'
    <3>1. \A d \in Turns : \A n \in 1..MaxEdits :
               drain[d] = [pc |-> "await", n |-> n] /\ Active(op'[n]) => drain'[d] = [pc |-> "await", n |-> n]
      OBVIOUS
    <3> QED
      BY <2>1, <3>1, WayStays DEF CleanRow
  <2>3. RowInv(obj', op', srv', loc', want', e)
    BY <2>1 DEF CleanRow
  <2>4. e \in Ing => mem'[RecipeOf[e]] = mem[RecipeOf[e]]
    BY <1>6, MarksAre DEF GhostInv
  <2>5. NewInv(e)'
    BY <2>1, <2>4, NewStays DEF CleanRow
  <2>6. WantInv(obj, op, want, mem, e)
    BY <2>1 DEF CleanRow
  <2>7. WantInv(obj', op', want', mem', e)
    BY <2>1, <2>6, WantStays
  <2> QED
    BY <2>2, <2>3, <2>5, <2>7 DEF CleanRow
<1> QED
  BY <1>3, <1>4, <1>5, <1>6 DEF SInv

LEMMA IdleSettles == IInv /\ SInv /\ UNCHANGED vars => SInv'
<1> SUFFICES ASSUME IInv, SInv, UNCHANGED vars PROVE SInv'
  OBVIOUS
<1>1. MadeInv /\ GhostInv /\ UNCHANGED <<storeVars, pageVars, wireVars, boundVars, ghosts>>
  BY DEF SInv, vars
<1>2. GhostInv'
  BY <1>1 DEF GhostInv, storeVars, ghosts
<1> QED
  BY <1>1, <1>2, OutsideSettles DEF MadeInv, storeVars, pageVars, wireVars, boundVars, ghosts

LEMMA RegisterSettles == IInv /\ SInv /\ Register => SInv'
<1> SUFFICES ASSUME IInv, SInv, Register PROVE SInv'
  OBVIOUS
<1>1. MadeInv /\ GhostInv
  BY DEF SInv
<1>2. GhostInv'
  BY <1>1 DEF Register, GhostInv, storeVars, ghosts
<1> QED
  BY <1>1, <1>2, OutsideSettles DEF Register, MadeInv, storeVars, pageVars, boundVars, ghosts

LEMMA SwitchSettles == IInv /\ SInv /\ (SwitchOff \/ SwitchOn) => SInv'
<1> SUFFICES ASSUME IInv, SInv, SwitchOff \/ SwitchOn PROVE SInv'
  OBVIOUS
<1>1. MadeInv /\ GhostInv /\ OrderInv
  BY DEF SInv
<1>2. UNCHANGED <<storeVars, obj, srv, loc, queue, op, fetch, made, ghosts>> /\ (replaying => replaying')
  BY DEF SwitchOff, SwitchOn, boundVars
<1>3. GhostInv'
  BY <1>1, <1>2 DEF GhostInv, storeVars, ghosts
<1>4. /\ turns' = turns \/ turns' = turns + 1
      /\ DOMAIN drain' = DOMAIN drain
      /\ \A d \in Turns : drain[d] = NoDrain => drain'[d] = NoDrain \/ d = turns'
      /\ \A d \in Turns : drain[d].pc = "await" => drain'[d] = drain[d]
  <2>1. CASE SwitchOff
    BY <2>1 DEF SwitchOff, boundVars
  <2>2. CASE SwitchOn
    <3>1. turns' = turns + 1 /\ drain' = [drain EXCEPT ![turns + 1] = [pc |-> "loop", n |-> 0]]
      BY <2>2 DEF SwitchOn
    <3>2. DOMAIN drain = Turns /\ \A d \in Turns : d # turns + 1 => drain'[d] = drain[d]
      BY <1>1, <3>1 DEF OrderInv
    <3>3. turns + 1 \in Turns => drain[turns + 1] = NoDrain
      BY <1>1 DEF OrderInv
    <3> QED
      BY <3>1, <3>2, <3>3 DEF NoDrain
  <2> QED
    BY <2>1, <2>2
<1> QED
  BY <1>1, <1>2, <1>3, <1>4, OutsideSettles DEF MadeInv, storeVars, ghosts

LEMMA RefreshSettles == ASSUME IInv, SInv, NEW k \in TickSlots, Refresh(k) PROVE SInv'
<1>1. MadeInv /\ GhostInv /\ FetchInv
  BY DEF SInv, IInv
<1>2. GhostInv'
  BY <1>1 DEF Refresh, GhostInv, storeVars, ghosts
<1>3. ASSUME NEW j \in FetchSlots, NEW part \in Part, fetch'[j][part].pc = "answered"
      PROVE  fetch'[j][part] = fetch[j][part]
  BY <1>1, <1>3 DEF Refresh, FetchInv, FullFetch, SentGet
<1> QED
  BY <1>1, <1>2, <1>3, OutsideSettles DEF Refresh, MadeInv, storeVars, pageVars, boundVars, ghosts

LEMMA GetSettles ==
    ASSUME IInv, SInv, NEW k \in FetchSlots, NEW part \in Part, ServeGet(k, part) \/ LoseGet(k, part)
    PROVE  SInv'
<1>1. MadeInv /\ GhostInv /\ FetchInv
  BY DEF SInv, IInv
<1>2. PICK rows : AnswerGet(k, part, rows) /\ \A e \in Entity : rows[e] \in {Absent, mem[e]}
  BY DEF ServeGet, LoseGet
<1>3. GhostInv'
  BY <1>1, <1>2 DEF AnswerGet, GhostInv, storeVars, ghosts
<1>4. ASSUME NEW j \in FetchSlots, NEW q \in Part, fetch'[j][q].pc = "answered"
      PROVE  fetch'[j][q] = fetch[j][q] \/ \A e \in Entity : fetch'[j][q].rows[e] \in {Absent, mem[e]}
  <2>1. CASE j = k /\ q = part
    <3>1. fetch'[j][q] = [pc |-> "answered", rows |-> rows]
      BY <1>1, <1>2, <2>1 DEF AnswerGet, FetchInv
    <3> QED
      BY <1>2, <3>1
  <2>2. CASE ~(j = k /\ q = part)
    BY <1>1, <1>2, <2>2 DEF AnswerGet, FetchInv
  <2> QED
    BY <2>1, <2>2
<1> QED
  BY <1>1, <1>2, <1>3, <1>4, OutsideSettles DEF AnswerGet, MadeInv, storeVars, pageVars, ghosts

LEMMA StreamSettles == IInv /\ SInv /\ BreakStream => SInv'
<1> SUFFICES ASSUME IInv, SInv, BreakStream PROVE SInv'
  OBVIOUS
<1>1. MadeInv /\ GhostInv /\ StoreInv
  BY DEF SInv, IInv
<1>2. /\ UNCHANGED <<pageVars, op, drain, fetch, turns, made, want>>
      /\ \/ UNCHANGED <<storeVars, excused>>
         \/ Reload /\ excused' = excused \cup dirty
  BY DEF BreakStream
<1>3. excused' = excused
  BY <1>1, <1>2 DEF GhostInv
<1>4. GhostInv' /\ \A e \in Entity \ excused : mem'[e] = mem[e]
  BY <1>1, <1>2, <1>3 DEF GhostInv, Reload, storeVars, StoreInv, MemoryMatchesDisk
<1>5. \A e \in Entity : mem'[e] # Absent \/ disk'[e] # Absent => e \in made
  BY <1>1, <1>2 DEF MadeInv, Reload, storeVars
<1> QED
  BY <1>2, <1>3, <1>4, <1>5, OutsideSettles DEF pageVars

-----------------------------------------------------------------------------
\* One closure goes on.

\* Closure n is answered, repaired or done; the others stay.
Goes(n) ==
    /\ \A k \in 1..MaxEdits : k # n => op'[k] = op[k]
    /\ \/ op'[n] = NoOp
       \/ /\ op'[n].pc \in {"answered", "repair"} /\ op[n].pc # "none"
          /\ op'[n].kind = op[n].kind /\ op'[n].e = op[n].e /\ op'[n].o = op[n].o

LEMMA GoesIs ==
    ASSUME NEW n \in 1..MaxEdits, Goes(n)
    PROVE  /\ \A k \in 1..MaxEdits : Ages(k)
           /\ \A k \in 1..MaxEdits : \A x : Of(op'[k], x) => Of(op[k], x)
           /\ \A k \in 1..MaxEdits : \A x : Makes(op'[k], x) <=> Makes(op[k], x) /\ op'[k] # NoOp
           /\ \A k \in 1..MaxEdits : op'[k] # NoOp =>
                 op'[k].kind = op[k].kind /\ op'[k].e = op[k].e /\ op'[k].o = op[k].o /\ Reach(op'[k]) = Reach(op[k])
           /\ \A k \in 1..MaxEdits : Unserved(op'[k]) => k # n /\ op'[k] = op[k]
           /\ \A k \in 1..MaxEdits : \A x : Writer(op'[k], x) <=> k # n /\ Writer(op[k], x)
<1> SUFFICES ASSUME NEW k \in 1..MaxEdits
             PROVE  /\ Ages(k)
                    /\ \A x : Of(op'[k], x) => Of(op[k], x)
                    /\ \A x : Makes(op'[k], x) <=> Makes(op[k], x) /\ op'[k] # NoOp
                    /\ op'[k] # NoOp =>
                         op'[k].kind = op[k].kind /\ op'[k].e = op[k].e /\ op'[k].o = op[k].o /\ Reach(op'[k]) = Reach(op[k])
                    /\ Unserved(op'[k]) => k # n /\ op'[k] = op[k]
                    /\ \A x : Writer(op'[k], x) <=> k # n /\ Writer(op[k], x)
  OBVIOUS
<1>1. CASE k # n
  <2>1. op'[k] = op[k]
    BY <1>1 DEF Goes
  <2> QED
    BY <1>1, <2>1, NoOpIs DEF Ages
<1>2. CASE k = n /\ op'[n] = NoOp
  BY <1>2, NoOpIs DEF Ages
<1>3. CASE k = n /\ op'[n] # NoOp
  <2>1. /\ op'[k].pc \in {"answered", "repair"} /\ op[k].pc # "none"
        /\ op'[k].kind = op[k].kind /\ op'[k].e = op[k].e /\ op'[k].o = op[k].o
    BY <1>3 DEF Goes
  <2> QED
    BY <1>3, <2>1 DEF Ages, Of, Makes, Reach, Unserved, Writer
<1> QED
  BY <1>1, <1>2, <1>3

LEMMA GoesOn ==
    ASSUME NEW e \in Entity, CleanRow(e), NEW n \in 1..MaxEdits, Goes(n),
           Active(op'[n]) => Active(op[n]),
           op'[n] = NoOp => ~Makes(op[n], e) /\ (e \in Ing => ~Makes(op[n], RecipeOf[e])),
           replaying => replaying',
           \A d \in Turns : \A k \in 1..MaxEdits :
               drain[d] = [pc |-> "await", n |-> k] /\ Active(op'[k]) => drain'[d] = [pc |-> "await", n |-> k]
    PROVE  Apart(e)' /\ Serial(e)' /\ RowInv(obj, op', srv, loc, want, e)
<1>1. ASSUME NEW k \in 1..MaxEdits
      PROVE  /\ Active(op'[k]) /\ e \in Reach(op'[k]) => Active(op[k]) /\ e \in Reach(op[k])
             /\ op'[k].pc = "queued" /\ e \in Reach(op'[k]) => op[k].pc = "queued" /\ e \in Reach(op[k])
             /\ Of(op'[k], e) =>
                   /\ Of(op[k], e) /\ op'[k].kind = op[k].kind /\ op'[k].o = op[k].o
                   /\ op'[k] = op[k] \/ op'[k].pc \in {"answered", "repair"}
  <2>1. CASE k # n
    <3>1. op'[k] = op[k]
      BY <2>1 DEF Goes
    <3> QED
      BY <3>1
  <2>2. CASE k = n /\ op'[n] = NoOp
    BY <2>2, NoOpIs
  <2>3. CASE k = n /\ op'[n] # NoOp
    <3>1. op'[n].pc \in {"answered", "repair"}
      BY <2>3 DEF Goes
    <3> QED
      BY <2>3, <3>1, GoesIs
  <2> QED
    BY <2>1, <2>2, <2>3
<1>2. Apart(e)' /\ Serial(e)'
  BY <1>1, WayStays DEF CleanRow
<1>3. \A k \in 1..MaxEdits : op'[k] = NoOp => k = n \/ op[k] = NoOp
  BY DEF Goes
<1>4. \A k \in 1..MaxEdits : Makes(op[k], e) => Makes(op'[k], e) /\ op'[k].o = op[k].o
  BY <1>3, GoesIs, NoOpIs
<1>5. e \in Ing => (Underway(op', RecipeOf[e]) <=> Underway(op, RecipeOf[e]))
  BY <1>3, GoesIs, NoOpIs DEF Underway
<1>6. RowInv(obj, op, srv, loc, want, e)
  BY DEF CleanRow
<1>7. RowInv(obj, op', srv, loc, want, e)
  BY <1>1, <1>4, <1>5, <1>6, RowStays
<1> QED
  BY <1>2, <1>7

\* Nor had the server anything to settle about the row.
LEMMA PassesBy ==
    ASSUME NEW e \in Entity, CleanRow(e), NEW n \in 1..MaxEdits, Goes(n), ~Makes(op[n], e), ~Writer(op[n], e),
           mem'[e] = mem[e], e \in Ing => mem'[RecipeOf[e]] = mem[RecipeOf[e]],
           \A k \in FetchSlots : \A part \in Part : fetch'[k][part].pc = "answered" => fetch'[k][part] = fetch[k][part],
           op'[n].pc = "answered" /\ op'[n].msg.tag = "ok" => op'[n].msg.rows[e] \in {Absent, mem[e]}
    PROVE  NewInv(e)' /\ WantInv(obj, op', want, mem', e)
<1>1. \A k \in 1..MaxEdits : Makes(op'[k], e) => op'[k] = op[k]
  BY GoesIs DEF Goes
<1>2. \A k \in 1..MaxEdits : op'[k].pc = "answered" /\ op'[k].msg.tag = "ok" =>
               op'[k] = op[k] \/ op'[k].msg.rows[e] \in {Absent, mem[e]}
  BY DEF Goes
<1>3. NewInv(e)'
  BY <1>1, <1>2, NewStays DEF CleanRow
<1>4. \A k \in 1..MaxEdits : Writer(op'[k], e) \/ Writer(op[k], e) => op'[k] = op[k]
  BY GoesIs DEF Goes
<1>5. WantInv(obj, op, want, mem, e)
  BY DEF CleanRow
<1>6. WantInv(obj, op', want, mem', e)
  BY <1>4, <1>5, WantStays
<1> QED
  BY <1>3, <1>6

-----------------------------------------------------------------------------
\* What the server makes of a request.

LEMMA ChangedIs ==
    ASSUME NEW m, DocOK(m), NEW q, RequestOK(q), ~Refuses(m, q), NEW x \in Entity
    PROVE  /\ x \notin Writes(q) => Changed(m, q)[x] = m[x]
           /\ q.kind = "create" => Changed(m, q)[q.e] = NewMark(m, q.e) /\ NewMark(m, q.e) # Absent
           /\ q.kind = "delete" /\ x \in Writes(q) => Changed(m, q)[x] = Absent
           /\ q.kind = "patch" /\ x \in Writes(q) => Changed(m, q)[x] = q.mark /\ q.mark # Absent
           /\ q.kind = "toggle" /\ x \in Writes(q) => /\ x = q.e => Changed(m, q)[x] = q.mark /\ q.mark # Absent
                                                      /\ x # q.e /\ m[x] # Absent => Changed(m, q)[x] = Follows(q.mark)
                                                      /\ x # q.e /\ m[x] = Absent => Changed(m, q)[x] = Absent
           /\ q.kind = "reset" => /\ m[x] = Absent => Changed(m, q)[x] = Absent
                                  /\ m[x] # Absent => Changed(m, q)[x] = IF x \in Recipe THEN "off" ELSE "check"
           /\ Writes(q) \subseteq Reach(q)
<1>1. m \in [Entity -> Marks \cup {Absent}] /\ Fits(q.kind, q.e)
  BY DEF DocOK, RequestOK
<1>2. q.kind # "reset" => q.e \in Entity
  BY <1>1 DEF Fits
<1>3. Writes(q) \subseteq Reach(q)
  BY ReachIs
<1>4. CASE q.kind = "create"
  <2>1. Changed(m, q) = [m EXCEPT ![q.e] = NewMark(m, q.e)] /\ Writes(q) = {q.e}
    BY <1>4 DEF Changed, Writes
  <2>2. NewMark(m, q.e) # Absent
    BY <1>2, <1>4, MarksAre, StoreAssumption DEF NewMark, StoreAssumption
  <2> QED
    BY <1>1, <1>2, <1>3, <1>4, <2>1, <2>2
<1>5. CASE q.kind = "patch"
  <2>1. Changed(m, q) = [m EXCEPT ![q.e] = q.mark] /\ Writes(q) = {q.e} /\ q.mark # Absent
    <3>1. q.e \in Item /\ q.mark \in MarksOf(q.e)
      BY <1>1, <1>5 DEF Fits, RequestOK
    <3> QED
      BY <1>5, <3>1, MarksAre, ScopeIs DEF Changed, Writes, Reach
  <2> QED
    BY <1>1, <1>2, <1>3, <1>5, <2>1
<1>6. CASE q.kind = "toggle"
  <2>1. /\ q.e \in Recipe /\ q.mark # Absent
        /\ Changed(m, q) = [y \in Entity |-> CASE y = q.e -> q.mark
                                                [] y \in Owned(q.e) /\ m[y] # Absent -> Follows(q.mark)
                                                [] OTHER -> m[y]]
    BY <1>1, <1>6, MarksAre DEF Fits, RequestOK, Changed
  <2>2. Writes(q) = {q.e} \cup Owned(q.e) /\ q.e \notin Owned(q.e)
    BY <1>6, <2>1, ScopeIs, MarksAre DEF Writes, Reach
  <2>3. Changed(m, q)[x] = CASE x = q.e -> q.mark
                             [] x \in Owned(q.e) /\ m[x] # Absent -> Follows(q.mark)
                             [] OTHER -> m[x]
    BY <2>1
  <2> QED
    BY <1>3, <1>6, <2>1, <2>2, <2>3
<1>7. CASE q.kind = "delete"
  <2>1. /\ Changed(m, q) = [y \in Entity |-> IF y \in Scope("delete", q.e) THEN Absent ELSE m[y]]
        /\ Writes(q) = Scope("delete", q.e)
    BY <1>7 DEF Changed, Writes, Reach
  <2> QED
    BY <1>3, <1>7, <2>1
<1>8. CASE q.kind = "reset"
  <2>1. /\ Changed(m, q) = [y \in Entity |-> CASE m[y] = Absent -> Absent
                                                [] m[y] # Absent /\ y \in Recipe -> "off"
                                                [] OTHER -> "check"]
        /\ Writes(q) = Entity
    BY <1>8, ScopeIs DEF Changed, Writes, Reach
  <2> QED
    BY <1>3, <1>8, <2>1
<1>9. CASE q.kind = "rename"
  BY <1>3, <1>9 DEF Changed
<1> QED
  BY <1>1, <1>4, <1>5, <1>6, <1>7, <1>8, <1>9 DEF Fits, Kinds

\* A served request leaves alone what it does not write; a row appears only
\* when it is made.
LEMMA ServeIs ==
    ASSUME StoreInv, NEW q, RequestOK(q), NEW saved \in BOOLEAN, Serve(q, saved)
    PROVE  /\ \A x \in Entity : x \notin Writes(q) => mem'[x] = mem[x]
           /\ \A x \in Entity : mem'[x] # Absent \/ disk'[x] # Absent
                                => mem[x] # Absent \/ disk[x] # Absent \/ (q.kind = "create" /\ x = q.e)
           /\ \A x \in Entity : mem'[x] # Absent => mem[x] # Absent \/ (q.kind = "create" /\ x = q.e)
           /\ \A x \in dirty' : x \in dirty \/ (~saved /\ x \in Writes(q))
           /\ Refuses(mem, q) => mem' = mem
           /\ saved /\ ~Refuses(mem, q) => mem' = Changed(mem, q)
<1>1. CASE Refuses(mem, q)
  BY <1>1 DEF Serve, storeVars
<1>2. CASE ~Refuses(mem, q)
  <2> DEFINE m == Changed(mem, q)
  <2>1. /\ \A x \in Entity : x \notin Writes(q) => m[x] = mem[x]
        /\ \A x \in Entity : m[x] # Absent => mem[x] # Absent \/ (q.kind = "create" /\ x = q.e)
    <3> SUFFICES ASSUME NEW x \in Entity
                 PROVE  /\ x \notin Writes(q) => m[x] = mem[x]
                        /\ m[x] # Absent => mem[x] # Absent \/ (q.kind = "create" /\ x = q.e)
      OBVIOUS
    <3>1. x \notin Writes(q) => m[x] = mem[x]
      BY <1>2, ChangedIs DEF StoreInv
    <3>2. ASSUME x \in Writes(q), m[x] # Absent
          PROVE  mem[x] # Absent \/ (q.kind = "create" /\ x = q.e)
      <4>1. q.kind = "create" => x = q.e
        BY <3>2 DEF Writes
      <4>2. q.kind = "rename" => FALSE
        BY <3>2 DEF Writes
      <4>3. q.kind = "patch" => x = q.e /\ mem[q.e] # Absent
        <5>1. ASSUME q.kind = "patch" PROVE x = q.e /\ mem[q.e] # Absent
          <6>1. q.e \notin Recipe
            BY <5>1, MarksAre DEF RequestOK, Fits
          <6> QED
            BY <1>2, <3>2, <5>1, <6>1, ScopeIs DEF Writes, Reach, Refuses
        <5> QED
          BY <5>1
      <4>4. q.kind = "toggle" => mem[q.e] # Absent
        BY <1>2 DEF Refuses
      <4>5. q.kind \in Kinds
        BY DEF RequestOK, Fits
      <4>6. q.kind = "delete" => m[x] = Absent
        BY <1>2, <3>2, ChangedIs DEF StoreInv
      <4>7. q.kind = "reset" /\ mem[x] = Absent => m[x] = Absent
        BY <1>2, ChangedIs DEF StoreInv
      <4>8. q.kind = "toggle" /\ x # q.e /\ mem[x] = Absent => m[x] = Absent
        BY <1>2, <3>2, ChangedIs DEF StoreInv
      <4> HIDE DEF m
      <4> QED
        BY <3>2, <4>1, <4>2, <4>3, <4>4, <4>5, <4>6, <4>7, <4>8 DEF Kinds
    <3> QED
      BY <3>1, <3>2
  <2> HIDE DEF m
  <2>2. /\ mem' = IF saved \/ ~Undoes(q) THEN m ELSE mem
        /\ disk' = IF saved THEN m ELSE disk
        /\ dirty' = CASE saved -> {}
                      [] ~saved /\ Keeps(q) -> dirty \cup {x \in Entity : m[x] # mem[x]}
                      [] OTHER -> dirty
    BY <1>2 DEF Serve, m
  <2>3. \A x \in dirty' : x \in dirty \/ (~saved /\ x \in Writes(q))
    BY <2>1, <2>2
  <2> QED
    BY <1>2, <2>1, <2>2, <2>3 DEF m
<1> QED
  BY <1>1, <1>2

-----------------------------------------------------------------------------
\* A request is served or lost.

\* A row's recipe is as clean as the row.
LEMMA RecipeClean ==
    ASSUME SInv, NEW e \in Entity \ excused, e \in Ing
    PROVE  RecipeOf[e] \in Entity \ excused /\ CleanRow(RecipeOf[e])
BY MarksAre DEF SInv, GhostInv

\* Nothing older waits for the server when a row's request is served.
LEMMA ServeFirst ==
    ASSUME NEW e, Apart(e), Serial(e), NEW n \in 1..MaxEdits, op[n].pc = "sent", e \in Writes(op[n]), Goes(n),
           NEW m \in 1..MaxEdits
    PROVE  /\ Writer(op'[m], e) => m # n /\ op'[m] = op[m] /\ Writer(op[m], e) /\ n < m
           /\ Writer(op[m], e) /\ m # n => Writer(op'[m], e) /\ op'[m] = op[m]
           /\ LastWriter(op', m, e) => LastWriter(op, m, e)
<1>1. e \in Reach(op[n]) /\ Active(op[n])
  BY ReachIs DEF Active
<1>2. \A k \in 1..MaxEdits : Writer(op'[k], e) => k # n /\ op'[k] = op[k] /\ Writer(op[k], e) /\ n < k
  <2> SUFFICES ASSUME NEW k \in 1..MaxEdits, Writer(op'[k], e)
               PROVE  k # n /\ op'[k] = op[k] /\ Writer(op[k], e) /\ n < k
    OBVIOUS
  <2>1. k # n /\ Writer(op[k], e)
    BY GoesIs
  <2>2. op'[k] = op[k]
    BY <2>1 DEF Goes
  <2>3. Unserved(op[k]) /\ e \in Reach(op[k])
    BY <2>1, ReachIs
  <2> QED
    BY <1>1, <2>1, <2>2, <2>3, Ahead
<1>3. \A k \in 1..MaxEdits : Writer(op[k], e) /\ k # n => Writer(op'[k], e) /\ op'[k] = op[k]
  BY GoesIs DEF Goes
<1>4. ASSUME LastWriter(op', m, e) PROVE LastWriter(op, m, e)
  <2>1. Writer(op'[m], e) /\ \A k \in 1..MaxEdits : Writer(op'[k], e) => k <= m
    BY <1>4 DEF LastWriter
  <2>2. Writer(op[m], e) /\ n < m
    BY <1>2, <2>1
  <2>3. \A k \in 1..MaxEdits : Writer(op[k], e) => k <= m
    <3> SUFFICES ASSUME NEW k \in 1..MaxEdits, Writer(op[k], e) PROVE k <= m
      OBVIOUS
    <3>1. CASE k = n
      BY <2>2, <3>1
    <3>2. CASE k # n
      BY <1>3, <2>1, <3>2
    <3> QED
      BY <3>1, <3>2
  <2> QED
    BY <2>2, <2>3 DEF LastWriter
<1> QED
  BY <1>2, <1>3, <1>4

\* The POST of a row meets no refusal.
LEMMA CreateTaken ==
    ASSUME IInv, NEW e \in Entity, NewInv(e), NEW n \in 1..MaxEdits, op[n].pc = "sent", Makes(op[n], e)
    PROVE  ~Refuses(mem, op[n].msg) /\ mem[e] = Absent
<1>1. op[n].msg.kind = "create" /\ op[n].msg.e = e
  BY ClosureIs DEF IInv, Makes, Of
<1>2. e \in Ing => op[n].msg.rid = "real" /\ mem[RecipeOf[e]] # Absent
  BY DEF NewInv
<1>3. Unserved(op[n]) => Unseen(e)
  BY DEF NewInv
<1> QED
  BY <1>1, <1>2, <1>3 DEF Refuses, Unserved, Unseen

\* What a served request leaves is what the user asked for, or a younger edit is to come.
LEMMA ServeWants ==
    ASSUME IInv, SInv, NEW n \in 1..MaxEdits, op[n].pc = "sent", Serve(op[n].msg, TRUE), Goes(n),
           NEW e \in Entity \ excused, e \in Writes(op[n])
    PROVE  WantInv(obj, op', want, mem', e)
<1> DEFINE q == op[n].msg
<1>1. /\ OpInv /\ StoreInv /\ DocOK(mem) /\ RequestOK(q) /\ CleanRow(e)
      /\ q.kind = op[n].kind /\ q.e = op[n].e /\ q.kind \in Kinds
  <2>1. op[n] # NoOp
    BY NoOpIs
  <2> QED
    BY <2>1 DEF IInv, SInv, OpInv, ClosureOK, StoreInv, RequestOK, Fits
<1>2. Apart(e) /\ Serial(e) /\ RowInv(obj, op, srv, loc, want, e) /\ NewInv(e) /\ WantInv(obj, op, want, mem, e)
  BY <1>1 DEF CleanRow
<1>3. /\ \A m \in 1..MaxEdits : Writer(op'[m], e) => m # n /\ op'[m] = op[m] /\ Writer(op[m], e) /\ n < m
      /\ \A m \in 1..MaxEdits : Writer(op[m], e) /\ m # n => Writer(op'[m], e) /\ op'[m] = op[m]
      /\ \A m \in 1..MaxEdits : LastWriter(op', m, e) => LastWriter(op, m, e)
  BY <1>2, ServeFirst
<1>4. Writes(q) = Writes(op[n]) /\ Writer(op[n], e)
  BY <1>1 DEF Writes, Reach, Writer, Unserved
<1>5. op[n].kind = "create" => Makes(op[n], e)
  BY DEF Writes, Makes, Of
<1>6. /\ Refuses(mem, q) => mem' = mem
      /\ ~Refuses(mem, q) => mem' = Changed(mem, q)
      /\ mem'[e] # Absent => mem[e] # Absent \/ q.kind = "create"
  BY <1>1, ServeIs
<1>7. op[n].kind = "create" => ~Refuses(mem, q) /\ mem[e] = Absent
  BY <1>2, <1>5, CreateTaken
<1>8. Refuses(mem, q) => mem[e] = Absent
  <2> SUFFICES ASSUME Refuses(mem, q) PROVE mem[e] = Absent
    OBVIOUS
  <2>1. op[n].kind \in {"patch", "toggle", "delete"} /\ mem[q.e] = Absent
    BY <1>1, <1>7, <1>4 DEF Refuses, Kinds, Writes
  <2>2. e = q.e \/ (e \in Ing /\ RecipeOf[e] = q.e)
    BY <1>1, <2>1, ScopeIs DEF Writes, Reach
  <2> QED
    BY <1>1, <2>1, <2>2 DEF DocOK
<1> HIDE DEF q
<1>9. \A m \in 1..MaxEdits : Removes(op'[m], e) => Removes(op[m], e)
  BY <1>3 DEF Removes
<1>10. \A m \in 1..MaxEdits : Removes(op[m], e) /\ m # n => Removes(op'[m], e)
  BY <1>3 DEF Removes
<1>11. \A m \in 1..MaxEdits : Makes(op[m], e) /\ Unserved(op[m]) => Writer(op[m], e)
  BY ReachIs
<1>12. \A m \in 1..MaxEdits : Makes(op[m], e) /\ Unserved(op[m]) /\ m # n => Makes(op'[m], e) /\ Unserved(op'[m])
  BY <1>3, <1>11
<1>13. op[n].kind = "delete" => want[e] = Absent /\ (~Refuses(mem, q) => mem'[e] = Absent)
  <2>1. ASSUME op[n].kind = "delete" PROVE want[e] = Absent
    BY <1>2, <1>4, <2>1 DEF WantInv, Removes
  <2>2. ASSUME op[n].kind = "delete", ~Refuses(mem, q) PROVE mem'[e] = Absent
    BY <1>1, <1>4, <1>6, <2>2, ChangedIs
  <2> QED
    BY <2>1, <2>2
<1>14. op[n].kind = "create" => want[e] # Absent
  <2> SUFFICES ASSUME op[n].kind = "create" PROVE want[e] # Absent
    OBVIOUS
  <2>1. ClosureRow(obj, op, srv, loc, want, e, n)
    BY <1>2, <1>5 DEF RowInv, Makes
  <2> QED
    BY <2>1 DEF ClosureRow, Unserved
<1>15. want[e] = Absent /\ mem'[e] # Absent => \E m \in 1..MaxEdits : Removes(op'[m], e)
  <2> SUFFICES ASSUME want[e] = Absent, mem'[e] # Absent PROVE \E m \in 1..MaxEdits : Removes(op'[m], e)
    OBVIOUS
  <2>1. mem[e] # Absent
    BY <1>1, <1>6, <1>14
  <2>2. PICK m \in 1..MaxEdits : Removes(op[m], e)
    BY <1>2, <2>1 DEF WantInv
  <2>3. m # n
    BY <1>8, <1>13, <2>1, <2>2 DEF Removes
  <2> QED
    BY <1>10, <2>2, <2>3
<1>16. ASSUME want[e] # Absent, mem'[e] = Absent
       PROVE  \E m \in 1..MaxEdits : Makes(op'[m], e) /\ Unserved(op'[m])
  <2>1. op[n].kind # "create"
    <3> SUFFICES ASSUME op[n].kind = "create" PROVE FALSE
      OBVIOUS
    <3>1. q.e = e
      BY <1>1, <1>5 DEF Makes, Of
    <3> QED
      BY <1>1, <1>6, <1>7, <1>16, <3>1, ChangedIs
  <2>2. mem[e] = Absent
    <3> SUFFICES ASSUME mem[e] # Absent PROVE FALSE
      OBVIOUS
    <3>1. ~Refuses(mem, q) /\ mem' = Changed(mem, q)
      BY <1>6, <1>8
    <3>2. op[n].kind \in {"patch", "toggle", "reset"}
      BY <1>1, <1>4, <1>13, <1>16, <2>1 DEF Kinds, Writes, Writer
    <3>3. e = q.e \/ e # q.e
      OBVIOUS
    <3>4. Absent # "off" /\ Absent # "check" /\ Follows(q.mark) # Absent
      BY StoreAssumption, MarksAre DEF StoreAssumption
    <3>5. op[n].kind = "patch" => FALSE
      BY <1>1, <1>4, <1>16, <3>1, ChangedIs
    <3>6. op[n].kind = "toggle" => FALSE
      BY <1>1, <1>4, <1>16, <3>1, <3>4, ChangedIs
    <3>7. op[n].kind = "reset" => FALSE
      BY <1>1, <1>4, <1>16, <3>1, <3>4, ChangedIs
    <3> QED
      BY <3>2, <3>5, <3>6, <3>7
  <2>3. PICK m \in 1..MaxEdits : Makes(op[m], e) /\ Unserved(op[m])
    BY <1>2, <1>16, <2>2 DEF WantInv
  <2>4. m # n
    BY <2>1, <2>3 DEF Makes
  <2> QED
    BY <1>12, <2>3, <2>4
<1>17. ASSUME \A m \in 1..MaxEdits : ~Writer(op'[m], e), want[e] # Absent
       PROVE  mem'[e] = want[e]
  <2>1. \A m \in 1..MaxEdits : Writer(op[m], e) => m = n
    BY <1>3, <1>17
  <2>2. Asks(obj, op[n], want, e) = want[e]
    BY <1>2, <1>4, <1>17, <2>1 DEF WantInv, LastWriter
  <2>3. op[n].kind # "delete" /\ op[n].kind # "rename"
    BY <1>13, <1>17 DEF Writes
  <2>4. mem[e] = Absent => op[n].kind = "create"
    <3> SUFFICES ASSUME mem[e] = Absent PROVE op[n].kind = "create"
      OBVIOUS
    <3>1. PICK m \in 1..MaxEdits : Makes(op[m], e) /\ Unserved(op[m])
      BY <1>2, <1>17 DEF WantInv
    <3> QED
      BY <1>11, <2>1, <3>1 DEF Makes
  <2>5. mem' = Changed(mem, q) /\ ~Refuses(mem, q)
    BY <1>6, <1>7, <1>8, <2>4
  <2>6. MarkOf(obj, op[n]) = op[n].msg.mark
    BY DEF MarkOf
  <2>7. CASE op[n].kind = "create"
    <3>1. q.e = e
      BY <1>1, <1>5, <2>7 DEF Makes, Of
    <3>2. mem'[e] = NewMark(mem, e)
      BY <1>1, <2>5, <2>7, <3>1, ChangedIs
    <3>3. CASE e \in Ing
      <4> DEFINE r == RecipeOf[e]
      <4>1. r \in Entity \ excused /\ CleanRow(r) /\ r # e
        BY <3>3, RecipeClean, MarksAre
      <4>2. \A m \in 1..MaxEdits : ~Writer(op[m], r)
        <5> SUFFICES ASSUME NEW m \in 1..MaxEdits, Writer(op[m], r) PROVE FALSE
          OBVIOUS
        <5>1. m # n
          BY <2>7, <3>1, <4>1, <1>1 DEF Writer, Writes
        <5>2. ~Writer(op[m], e) /\ Unserved(op[m])
          BY <2>1, <5>1 DEF Writer
        <5>3. op[m].kind # "create" => r \in Reach(op[m]) /\ op[m].kind # "rename"
          BY DEF Writer, Writes
        <5>4. op[m].kind = "create" => op[m].e = r
          BY DEF Writer, Writes
        <5>5. CASE op[m].kind = "create"
          <6>1. Makes(op[m], r) /\ Of(op[n], e)
            BY <1>5, <2>7, <5>2, <5>4, <5>5 DEF Makes, Of, Unserved
          <6>2. m < n
            BY <3>3, <6>1 DEF SInv, FirstInv
          <6>3. e \in Reach(op[m])
            BY <3>3, <6>1, ReachIs DEF Makes
          <6>4. n < m
            BY <1>2, <1>4, <5>1, <5>2, <6>3, Ahead, ReachIs DEF Active
          <6> QED
            BY <6>2, <6>4
        <5>6. CASE op[m].kind # "create"
          <6>1. e \in Reach(op[m])
            <7>1. CASE op[m].kind = "reset"
              BY <7>1, ScopeIs DEF Reach
            <7>2. CASE op[m].kind # "reset"
              <8>1. op[m].e \in Entity /\ Of(op[m], op[m].e)
                BY <1>1, <5>2, <7>2, ClosureIs DEF Of, Unserved
              <8>2. op[m].e = r
                BY <3>3, <5>3, <5>6, <7>2, <8>1, ScopeIs, MarksAre DEF Reach
              <8> QED
                BY <3>3, <8>1, <8>2, ReachIs
            <7> QED
              BY <7>1, <7>2
          <6>2. Writes(op[m]) = Reach(op[m])
            BY <5>3, <5>6 DEF Writes
          <6> QED
            BY <5>2, <6>1, <6>2 DEF Writer
        <5> QED
          BY <5>5, <5>6
      <4>3. mem[r] = want[r]
        BY <4>1, <4>2 DEF CleanRow, WantInv
      <4>4. NewMark(mem, e) = Follows(mem[r])
        BY <3>3, MarksAre DEF NewMark
      <4>5. Asks(obj, op[n], want, e) = Follows(want[r])
        BY <2>7, <3>3, MarksAre DEF Asks
      <4> QED
        BY <2>2, <3>2, <4>3, <4>4, <4>5
    <3>4. CASE e \notin Ing
      <4>1. Asks(obj, op[n], want, e) = NewMark(mem, e)
        BY <2>7, <3>4, StoreAssumption DEF Asks, NewMark, Entity, Item, StoreAssumption
      <4> QED
        BY <2>2, <3>2, <4>1
    <3> QED
      BY <3>3, <3>4
  <2>8. CASE op[n].kind = "patch"
    <3>1. Asks(obj, op[n], want, e) = q.mark
      BY <2>6, <2>8 DEF Asks, q
    <3> QED
      BY <1>1, <1>4, <2>2, <2>5, <2>8, <3>1, ChangedIs
  <2>9. CASE op[n].kind = "toggle"
    <3>1. Asks(obj, op[n], want, e) = IF e = q.e THEN q.mark ELSE Follows(q.mark)
      BY <1>1, <2>6, <2>9 DEF Asks, q
    <3>2. mem[e] # Absent
      BY <2>4, <2>9
    <3> QED
      BY <1>1, <1>4, <2>2, <2>5, <2>9, <3>1, <3>2, ChangedIs
  <2>10. CASE op[n].kind = "reset"
    <3>1. Asks(obj, op[n], want, e) = IF e \in Recipe THEN "off" ELSE "check"
      BY <2>10 DEF Asks
    <3>2. mem[e] # Absent
      BY <2>4, <2>10
    <3> QED
      BY <1>1, <2>2, <2>5, <2>10, <3>1, <3>2, ChangedIs
  <2> QED
    BY <1>1, <2>3, <2>7, <2>8, <2>9, <2>10 DEF Kinds
<1>18. (\A m \in 1..MaxEdits : ~Writer(op'[m], e)) => mem'[e] = want[e]
  <2> SUFFICES ASSUME \A m \in 1..MaxEdits : ~Writer(op'[m], e) PROVE mem'[e] = want[e]
    OBVIOUS
  <2>1. CASE want[e] # Absent
    BY <1>17, <2>1
  <2>2. CASE want[e] = Absent
    BY <1>15, <2>2 DEF Removes
  <2> QED
    BY <2>1, <2>2
<1>19. want[e] # Absent => \A m \in 1..MaxEdits : LastWriter(op', m, e) => Asks(obj, op'[m], want, e) = want[e]
  <2> SUFFICES ASSUME want[e] # Absent, NEW m \in 1..MaxEdits, LastWriter(op', m, e)
               PROVE  Asks(obj, op'[m], want, e) = want[e]
    OBVIOUS
  <2>1. LastWriter(op, m, e) /\ op'[m] = op[m]
    BY <1>3 DEF LastWriter
  <2> QED
    BY <1>2, <2>1 DEF WantInv
<1>20. /\ e \in Ing /\ want[e] # Absent => want[RecipeOf[e]] # Absent
       /\ \A m \in 1..MaxEdits : Removes(op'[m], e) => want[e] = Absent
  BY <1>2, <1>9 DEF WantInv
<1> QED
  BY <1>15, <1>16, <1>18, <1>19, <1>20 DEF WantInv

LEMMA BooksGo ==
    ASSUME OrderInv, MadeInv, FirstInv, NEW n \in 1..MaxEdits, Goes(n),
           queue' = queue, turns' = turns, made' = made, want' = want,
           op'[n].pc = "repair" => op[n].kind = "delete",
           DOMAIN drain' = DOMAIN drain, \A d \in Turns : drain[d] = NoDrain => drain'[d] = NoDrain,
           \A e \in Entity : mem'[e] # Absent \/ disk'[e] # Absent => e \in made,
           \A e \in Entity : srv'[e] # 0 \/ loc'[e] # 0 => e \in made,
           \A k \in FetchSlots : \A part \in Part : fetch'[k][part].pc = "answered" => fetch'[k][part] = fetch[k][part],
           \A e \in Entity : op'[n].pc = "answered" /\ op'[n].msg.tag = "ok" /\ op'[n].msg.rows[e] # Absent => e \in made
    PROVE  OrderInv' /\ MadeInv' /\ FirstInv'
<1>1. \A m \in 1..MaxEdits : Ages(m)
  BY GoesIs
<1>2. \A m \in 1..MaxEdits : op'[m].pc = "queued" => op[m].pc = "queued"
  BY GoesIs DEF Unserved
<1>3. \A m \in 1..MaxEdits : op'[m].pc = "repair" => op'[m].kind = "delete"
  <2>1. op'[n].pc = "repair" => op'[n].kind = op[n].kind
    BY NoOpIs DEF Goes
  <2> QED
    BY <2>1 DEF Goes, OrderInv
<1>4. OrderInv'
  <2>1. turns \in Nat
    BY DEF OrderInv
  <2> QED
    BY <1>2, <1>3, <2>1, OrderStays
<1>5. \A k \in FetchSlots : \A part \in Part : \A e \in Entity :
               fetch'[k][part].pc = "answered" /\ fetch'[k][part].rows[e] # Absent => e \in made
  <2> SUFFICES ASSUME NEW k \in FetchSlots, NEW part \in Part, NEW e \in Entity,
                      fetch'[k][part].pc = "answered", fetch'[k][part].rows[e] # Absent
               PROVE  e \in made
    OBVIOUS
  <2>1. fetch'[k][part] = fetch[k][part]
    OBVIOUS
  <2> QED
    BY <2>1 DEF MadeInv
<1>6. \A m \in 1..MaxEdits : \A e \in Entity :
               op'[m].pc = "answered" /\ op'[m].msg.tag = "ok" /\ op'[m].msg.rows[e] # Absent => e \in made
  <2> SUFFICES ASSUME NEW m \in 1..MaxEdits, NEW e \in Entity,
                      op'[m].pc = "answered", op'[m].msg.tag = "ok", op'[m].msg.rows[e] # Absent
               PROVE  e \in made
    OBVIOUS
  <2>1. CASE m = n
    BY <2>1
  <2>2. CASE m # n
    BY <2>2 DEF Goes, MadeInv
  <2> QED
    BY <2>1, <2>2
<1>7. MadeInv'
  BY <1>1, <1>5, <1>6, MadeStays
<1>8. FirstInv'
  BY <1>1, FirstStays
<1> QED
  BY <1>4, <1>7, <1>8

\* What excuses a recipe's reach excuses the rows it owns.
LEMMA GhostGrows ==
    ASSUME GhostInv, NEW S, excused' = excused \cup S, \A g \in Ing : RecipeOf[g] \in S => g \in S,
           \A x \in dirty' : x \in dirty \/ x \in S
    PROVE  GhostInv'
BY DEF GhostInv

LEMMA ReachOwns == \A o : \A g \in Ing : RecipeOf[g] \in Reach(o) => g \in Reach(o)
<1> SUFFICES ASSUME NEW o, NEW g \in Ing, RecipeOf[g] \in Reach(o) PROVE g \in Reach(o)
  OBVIOUS
<1>1. CASE o.kind = "reset"
  BY <1>1, ScopeIs, MarksAre DEF Reach
<1>2. CASE o.kind # "reset" /\ o.e \in Recipe
  <2>1. Reach(o) = {o.e} \cup Owned(o.e) /\ RecipeOf[g] \in Recipe
    BY <1>2, ScopeIs, MarksAre DEF Reach
  <2>2. RecipeOf[g] = o.e
    BY <2>1, MarksAre DEF Owned
  <2> QED
    BY <2>1, <2>2 DEF Owned
<1>3. CASE o.kind # "reset" /\ o.e \notin Recipe
  BY <1>3, ScopeIs, MarksAre DEF Reach
<1> QED
  BY <1>1, <1>2, <1>3

LEMMA ServeOpSettles == ASSUME IInv, SInv, NEW n \in 1..MaxEdits, NEW saved \in BOOLEAN, ServeOp(n, saved) PROVE SInv'
<1> DEFINE q == op[n].msg
           ok == saved /\ ~Refuses(mem, q)
           rows == CASE q.kind = "create" -> {q.e}
                     [] q.kind \in {"toggle", "rename"} -> Item \cup {q.e}
                     [] q.kind = "reset" \/ (q.kind = "delete" /\ q.e \in Recipe) -> Item
                     [] OTHER -> {}
           answer == [tag |-> "ok", rows |-> [x \in Entity |-> IF x \in rows THEN mem'[x] ELSE Absent]]
           g == IF ok THEN answer ELSE [tag |-> "refused"]
<1>1. /\ op[n].pc = "sent" /\ Serve(q, saved)
      /\ op' = [op EXCEPT ![n].pc = "answered", ![n].msg = g]
      /\ excused' = IF saved THEN excused ELSE excused \cup Touches(n)
      /\ UNCHANGED <<pageVars, drain, fetch, sse, edits, rivals, turns, made, want>>
  BY DEF ServeOp
<1>2. /\ OpInv /\ StoreInv /\ OrderInv /\ MadeInv /\ FirstInv /\ GhostInv
      /\ RequestOK(q) /\ q.kind = op[n].kind /\ q.e = op[n].e
  <2>1. op[n] # NoOp
    BY <1>1, NoOpIs
  <2> QED
    BY <1>1, <2>1 DEF IInv, SInv, OpInv, ClosureOK
<1>3. /\ g.tag = "ok" => ok /\ \A x \in Entity : g.rows[x] \in {Absent, mem'[x]}
      /\ g.tag # "ok" => ~ok
  OBVIOUS
<1> HIDE DEF g
<1>4. Goes(n) /\ op'[n].pc = "answered" /\ op'[n].msg = g /\ op'[n].kind = op[n].kind
  BY <1>1, <1>2, OpSet DEF Goes
<1>5. Writes(q) = Writes(op[n]) /\ Reach(op[n]) = Touches(n) /\ Writes(op[n]) \subseteq Reach(op[n])
  BY <1>2, ReachIs DEF Writes, Reach, Touches
<1> HIDE DEF q
<1>6. /\ \A x \in Entity : x \notin Writes(op[n]) => mem'[x] = mem[x]
      /\ \A x \in Entity : mem'[x] # Absent \/ disk'[x] # Absent
                            => mem[x] # Absent \/ disk[x] # Absent \/ (op[n].kind = "create" /\ x = op[n].e)
      /\ \A x \in Entity : mem'[x] # Absent => mem[x] # Absent \/ (op[n].kind = "create" /\ x = op[n].e)
      /\ \A x \in dirty' : x \in dirty \/ (~saved /\ x \in Writes(op[n]))
  BY <1>1, <1>2, <1>5, ServeIs
<1>7. \A e \in Entity : mem'[e] # Absent \/ disk'[e] # Absent => e \in made
  <2>1. \A e \in Entity : op[n].kind = "create" /\ e = op[n].e => Of(op[n], e)
    BY <1>1 DEF Of
  <2> QED
    BY <1>2, <1>6, <2>1 DEF MadeInv
<1>8. OrderInv' /\ MadeInv' /\ FirstInv'
  <2>1. \A e \in Entity : op'[n].msg.tag = "ok" /\ op'[n].msg.rows[e] # Absent => e \in made
    BY <1>3, <1>4, <1>7
  <2>2. \A e \in Entity : srv'[e] # 0 \/ loc'[e] # 0 => e \in made
    BY <1>1, <1>2 DEF MadeInv, pageVars
  <2> QED
    BY <1>1, <1>2, <1>4, <1>7, <2>1, <2>2, BooksGo DEF pageVars
<1>9. GhostInv'
  <2> DEFINE S == IF saved THEN {} ELSE Touches(n)
  <2>1. excused' = excused \cup S
    BY <1>1
  <2>2. \A x \in dirty' : x \in dirty \/ x \in S
    BY <1>5, <1>6
  <2>3. \A x \in Ing : RecipeOf[x] \in S => x \in S
    BY <1>5, ReachOwns
  <2> QED
    BY <1>2, <2>1, <2>2, <2>3, GhostGrows
<1>10. ASSUME NEW e \in Entity \ excused'
       PROVE  CleanRow(e)'
  <2>1. e \in Entity \ excused /\ CleanRow(e) /\ (e \in Reach(op[n]) => saved)
    BY <1>1, <1>5, <1>10 DEF SInv
  <2>2. op'[n] # NoOp /\ Active(op[n]) /\ Active(op'[n])
    BY <1>1, <1>4, NoOpIs DEF Active
  <2>3. Apart(e)' /\ Serial(e)' /\ RowInv(obj, op', srv, loc, want, e)
    BY <1>1, <1>4, <2>1, <2>2, GoesOn DEF pageVars
  <2>4. NewInv(e)' /\ WantInv(obj, op', want, mem', e)
    <3>1. CASE e \notin Reach(op[n])
      <4>1. mem'[e] = mem[e] /\ (e \in Ing => mem'[RecipeOf[e]] = mem[RecipeOf[e]])
        <5>1. e \in Ing => RecipeOf[e] \notin Writes(op[n]) /\ RecipeOf[e] \in Entity
          BY <1>5, <3>1, ReachOwns, MarksAre
        <5> QED
          BY <1>5, <1>6, <2>1, <3>1, <5>1
      <4>2. ~Makes(op[n], e) /\ ~Writer(op[n], e)
        BY <3>1, ReachIs
      <4> QED
        BY <1>1, <1>3, <1>4, <2>1, <3>1, <4>1, <4>2, PassesBy
    <3>2. CASE e \in Reach(op[n])
      <4>1. saved /\ Serve(op[n].msg, TRUE)
        BY <1>1, <2>1, <3>2 DEF q
      <4>2. WantInv(obj, op', want, mem', e)
        <5>1. CASE e \in Writes(op[n])
          BY <1>1, <1>4, <2>1, <4>1, <5>1, ServeWants
        <5>2. CASE e \notin Writes(op[n])
          <6>1. ~Writer(op[n], e) /\ mem'[e] = mem[e]
            BY <1>6, <2>1, <5>2 DEF Writer
          <6>2. \A k \in 1..MaxEdits : Writer(op'[k], e) \/ Writer(op[k], e) => op'[k] = op[k]
            BY <1>4, <6>1, GoesIs DEF Goes
          <6>3. WantInv(obj, op, want, mem, e)
            BY <2>1 DEF CleanRow
          <6> QED
            BY <6>1, <6>2, <6>3, WantStays
        <5> QED
          BY <5>1, <5>2
      <4>3. NewInv(e)'
        <5> SUFFICES ASSUME NEW k \in 1..MaxEdits, Makes(op'[k], e)
                     PROVE  /\ Unserved(op'[k]) => Unseen(e)'
                            /\ op'[k].pc = "answered" => op'[k].msg.tag = "ok"
                            /\ op'[k].pc = "sent" /\ e \in Ing => op'[k].msg.rid = "real" /\ mem'[RecipeOf[e]] # Absent
          BY DEF NewInv
        <5>1. Makes(op[k], e) /\ NewInv(e) /\ Apart(e) /\ Serial(e)
          BY <1>4, <2>1, GoesIs DEF CleanRow
        <5>2. CASE k = n
          <6>1. ~Refuses(mem, q)
            BY <1>1, <2>1, <5>1, <5>2, CreateTaken DEF q
          <6>2. op'[k].pc = "answered" /\ op'[k].msg.tag = "ok"
            BY <1>3, <1>4, <4>1, <5>2, <6>1
          <6> QED
            BY <6>2 DEF Unserved
        <5>3. CASE k # n
          <6>1. op'[k] = op[k]
            BY <1>4, <5>3 DEF Goes
          <6>2. e \in Reach(op[k])
            BY <5>1, ReachIs
          <6>3. ~Active(op[k])
            BY <2>2, <3>2, <5>1, <5>3, <6>2 DEF Apart
          <6>4. Unserved(op[k]) => Unseen(e)'
            <7> SUFFICES ASSUME Unserved(op[k]) PROVE Unseen(e)'
              OBVIOUS
            <7>1. Unseen(e)
              BY <5>1 DEF NewInv
            <7>2. n < k
              BY <2>2, <3>2, <5>1, <5>3, <6>2, Ahead
            <7>3. ~Of(op[n], e)
              BY <1>2, <2>1, <5>1, <7>2 DEF FirstInv
            <7>4. mem'[e] = Absent
              BY <1>1, <1>6, <2>1, <7>1, <7>3 DEF Unseen, Of
            <7>5. \A m \in 1..MaxEdits : op'[m].pc = "answered" /\ op'[m].msg.tag = "ok" => op'[m].msg.rows[e] = Absent
              <8> SUFFICES ASSUME NEW m \in 1..MaxEdits, op'[m].pc = "answered", op'[m].msg.tag = "ok"
                           PROVE  op'[m].msg.rows[e] = Absent
                OBVIOUS
              <8>1. CASE m = n
                BY <1>3, <1>4, <2>1, <7>4, <8>1
              <8>2. CASE m # n
                BY <1>4, <7>1, <8>2 DEF Goes, Unseen
              <8> QED
                BY <8>1, <8>2
            <7> QED
              BY <1>1, <7>1, <7>4, <7>5 DEF Unseen
          <6> QED
            BY <6>1, <6>3, <6>4 DEF Active
        <5> QED
          BY <5>2, <5>3
      <4> QED
        BY <4>2, <4>3
    <3> QED
      BY <3>1, <3>2
  <2>5. obj' = obj /\ srv' = srv /\ loc' = loc /\ want' = want
    BY <1>1 DEF pageVars
  <2> QED
    BY <2>3, <2>4, <2>5 DEF CleanRow
<1> QED
  BY <1>8, <1>9, <1>10 DEF SInv

LEMMA LoseOpSettles == ASSUME IInv, SInv, NEW n \in 1..MaxEdits, LoseOp(n) PROVE SInv'
<1>1. /\ op[n].pc \in {"sent", "answered"}
      /\ op' = [op EXCEPT ![n].pc = "answered", ![n].msg = [tag |-> "lost"]]
      /\ excused' = excused \cup Touches(n)
      /\ UNCHANGED <<storeVars, pageVars, drain, fetch, sse, tick, edits, rivals, turns, made, want>>
  BY DEF LoseOp, Running
<1>2. OpInv /\ OrderInv /\ MadeInv /\ FirstInv /\ GhostInv
  BY DEF IInv, SInv
<1>3. Goes(n) /\ op'[n].pc = "answered" /\ op'[n].msg.tag # "ok"
  <2> DEFINE g == [tag |-> "lost"]
  <2>1. g.tag # "ok" /\ op' = [op EXCEPT ![n].pc = "answered", ![n].msg = g]
    BY <1>1
  <2> HIDE DEF g
  <2>2. /\ \A m \in 1..MaxEdits : m # n => op'[m] = op[m]
        /\ op'[n].kind = op[n].kind /\ op'[n].e = op[n].e /\ op'[n].o = op[n].o
        /\ op'[n].pc = "answered" /\ op'[n].msg = g
    <3>1. DOMAIN op = 1..MaxEdits /\ DOMAIN op[n] = {"kind", "e", "o", "pc", "msg", "tries"}
      BY <1>2 DEF OpInv, ClosureOK
    <3>2. op' = [op EXCEPT ![n].pc = "answered", ![n].msg = g]
      BY <2>1
    <3> QED
      BY <3>1, <3>2
  <2> QED
    BY <1>1, <2>1, <2>2 DEF Goes
<1>4. OrderInv' /\ MadeInv' /\ FirstInv'
  <2>1. /\ \A e \in Entity : mem'[e] # Absent \/ disk'[e] # Absent => e \in made
        /\ \A e \in Entity : srv'[e] # 0 \/ loc'[e] # 0 => e \in made
    BY <1>1, <1>2 DEF MadeInv, storeVars, pageVars
  <2> QED
    BY <1>1, <1>2, <1>3, <2>1, BooksGo DEF pageVars
<1>5. GhostInv'
  <2>1. \A x \in Ing : RecipeOf[x] \in Touches(n) => x \in Touches(n)
    BY ReachOwns DEF Touches, Reach
  <2> QED
    BY <1>1, <1>2, <2>1, GhostGrows DEF storeVars
<1>6. ASSUME NEW e \in Entity \ excused'
      PROVE  CleanRow(e)'
  <2>1. e \in Entity \ excused /\ CleanRow(e) /\ e \notin Reach(op[n])
    BY <1>1, <1>6 DEF SInv, Touches, Reach
  <2>2. op'[n] # NoOp /\ Active(op[n])
    BY <1>1, <1>3, NoOpIs DEF Active
  <2>3. Apart(e)' /\ Serial(e)' /\ RowInv(obj, op', srv, loc, want, e)
    BY <1>1, <1>3, <2>1, <2>2, GoesOn DEF pageVars
  <2>4. ~Makes(op[n], e) /\ ~Writer(op[n], e)
    BY <2>1, ReachIs
  <2>5. NewInv(e)' /\ WantInv(obj, op', want, mem', e)
    BY <1>1, <1>3, <2>1, <2>4, PassesBy DEF storeVars
  <2>6. obj' = obj /\ srv' = srv /\ loc' = loc /\ want' = want
    BY <1>1 DEF pageVars
  <2> QED
    BY <2>3, <2>5, <2>6 DEF CleanRow
<1> QED
  BY <1>4, <1>5, <1>6 DEF SInv

LEMMA RivalSettles == ASSUME IInv, SInv, NEW e \in Item, Rival(e) PROVE SInv'
<1> DEFINE q == [kind |-> "patch", e |-> e, mark |-> NextState[mem[e]], rid |-> "real"]
<1>1. /\ mem[e] # Absent /\ Serve(q, TRUE) /\ excused' = excused \cup {e}
      /\ UNCHANGED <<pageVars, op, drain, fetch, turns, made, want>>
  BY DEF Rival
<1>2. e \in Entity /\ mem[e] \in {"needed", "check", "not_needed"} /\ MarksOf(e) = {"needed", "check", "not_needed"}
  BY <1>1, MarksAre DEF IInv, StoreInv, DocOK, ListOK
<1>3. NextState[mem[e]] \in {"needed", "check", "not_needed"}
  BY <1>2 DEF NextState
<1>4. RequestOK(q) /\ q.kind = "patch"
  BY <1>2, <1>3 DEF RequestOK, Fits, Kinds
<1>5. Writes(q) = {e}
  BY ScopeIs, MarksAre DEF Writes, Reach
<1> HIDE DEF q
<1>6. /\ \A x \in Entity : x \notin {e} => mem'[x] = mem[x]
      /\ \A x \in Entity : mem'[x] # Absent \/ disk'[x] # Absent => mem[x] # Absent \/ disk[x] # Absent
      /\ \A x \in dirty' : x \in dirty
  BY <1>1, <1>4, <1>5, ServeIs DEF IInv
<1>7. MadeInv /\ GhostInv
  BY DEF SInv
<1>8. GhostInv'
  <2>1. \A g \in Ing : RecipeOf[g] \in {e} => g \in {e}
    BY MarksAre
  <2>2. \A x \in dirty' : x \in dirty \/ x \in {e}
    BY <1>6
  <2> QED
    BY <1>1, <1>7, <2>1, <2>2, GhostGrows
<1>9. \A x \in Entity : mem'[x] # Absent \/ disk'[x] # Absent => x \in made
  BY <1>6, <1>7 DEF MadeInv
<1>10. \A x \in Entity \ excused' : mem'[x] = mem[x]
  BY <1>1, <1>6
<1> QED
  BY <1>1, <1>8, <1>9, <1>10, OutsideSettles DEF pageVars

-----------------------------------------------------------------------------
\* The lists.

\* The objects closures hold are those of heap h.
Holds(h) == \A x \in Entity : \A s \in Slot : s \in HeldBy(op', x) => obj'[x][s] = h[x][s]

LEMMA WantHolds ==
    ASSUME OpInv', NEW h, Holds(h), NEW w, NEW m, NEW e \in Entity, WantInv(h, op', w, m, e)
    PROVE  WantInv(obj', op', w, m, e)
<1>1. ASSUME NEW n \in 1..MaxEdits, Writer(op'[n], e), op'[n].kind \in {"patch", "toggle"}
      PROVE  obj'[op'[n].e][op'[n].o].mark = h[op'[n].e][op'[n].o].mark
  <2>1. op'[n] # NoOp
    BY <1>1, NoOpIs
  <2>2. op'[n].e \in Entity /\ op'[n].o \in Slot /\ DOMAIN op' = 1..MaxEdits
    BY <1>1, <2>1 DEF OpInv, ClosureOK, Fits
  <2>3. op'[n].o \in HeldBy(op', op'[n].e)
    BY <2>2 DEF HeldBy
  <2> QED
    BY <2>2, <2>3 DEF Holds
<1> QED
  BY <1>1, WantStays

\* A row's new object is no closure's and not the row's other one.
LEMMA FreshSlot ==
    ASSUME OpInv, PageInv, NEW e \in Entity
    PROVE  LET slot == IF srv[e] # 0 /\ srv[e] \notin HeldBy(op, e) THEN srv[e] ELSE NewSlot(e, {})
           IN slot \in Slot /\ slot \notin HeldBy(op, e) /\ (slot = srv[e] \/ slot \notin {srv[e], loc[e]})
<1>1. srv[e] \in Slot \cup {0}
  BY DEF PageInv
<1>2. CASE srv[e] # 0 /\ srv[e] \notin HeldBy(op, e)
  BY <1>1, <1>2
<1>3. CASE ~(srv[e] # 0 /\ srv[e] \notin HeldBy(op, e))
  <2> DEFINE X == {loc[e]}
  <2>1. IsFiniteSet(X) /\ Cardinality(X) = 1
    BY FS_Singleton
  <2>2. edits + Cardinality(X) < MaxEdits + 2
    BY <2>1, SlotFacts DEF OpInv
  <2>3. \A s \in Slot : s \in {srv[e], loc[e]} \cup {} => s \in HeldBy(op, e) \cup X
    BY <1>3, SlotFacts
  <2> HIDE DEF X
  <2>4. NewSlot(e, {}) \in Slot \ (HeldBy(op, e) \cup {srv[e], loc[e]} \cup {})
    BY <2>1, <2>2, <2>3, SlotLeft
  <2> QED
    BY <1>3, <2>4
<1> QED
  BY <1>2, <1>3

\* A list of the server's rows is read: new objects for those it has; the rows
\* made here stay while their ids are the page's own.
LEMMA RowMerge ==
    ASSUME OpInv, OpInv', PageInv, NEW kinds, NEW rows, NEW h, Merge(kinds, rows, h), want' = want,
           NEW e \in Entity, RowInv(h, op', srv, loc, want, e),
           \A n \in 1..MaxEdits : Of(op'[n], e) => Of(op[n], e) /\ op'[n].o = op[n].o,
           e \in kinds /\ rows[e] # Absent => \A n \in 1..MaxEdits : Makes(op'[n], e) => ~Unserved(op'[n])
    PROVE  RowInv(obj', op', srv', loc', want', e)
<1> DEFINE slot(x) == IF srv[x] # 0 /\ srv[x] \notin HeldBy(op, x) THEN srv[x] ELSE NewSlot(x, {})
           read(x) == [id |-> "real", mark |-> rows[x], rid |-> "real", gone |-> FALSE]
           g == [x \in Entity |-> [t \in Slot |->
                    IF x \in kinds /\ rows[x] # Absent /\ t = slot(x) THEN read(x) ELSE h[x][t]]]
<1>1. /\ srv' = [x \in Entity |->
                    CASE x \notin kinds -> srv[x]
                      [] x \in kinds /\ rows[x] # Absent -> slot(x)
                      [] OTHER -> 0]
      /\ loc' = [x \in Entity |->
                    IF x \in kinds /\ loc[x] # 0 /\ h[x][loc[x]].id # "temp" THEN 0 ELSE loc[x]]
      /\ Heap(g)
  BY DEF Merge
<1>2. slot(e) \in Slot /\ slot(e) \notin HeldBy(op, e) /\ (slot(e) = srv[e] \/ slot(e) \notin {srv[e], loc[e]})
  BY FreshSlot
<1>3. \A t \in Slot : g[e][t] = IF e \in kinds /\ rows[e] # Absent /\ t = slot(e) THEN read(e) ELSE h[e][t]
  OBVIOUS
<1>4. ~read(e).gone /\ read(e).id = "real"
  OBVIOUS
<1> HIDE DEF slot, read, g
<1>5. ASSUME NEW n \in 1..MaxEdits, Of(op'[n], e)
      PROVE  op'[n].o \in Slot /\ op'[n].o \in HeldBy(op, e) /\ g[e][op'[n].o] = h[e][op'[n].o]
  <2>1. op'[n].o \in Slot
    <3>1. op'[n] # NoOp
      BY <1>5, NoOpIs
    <3> QED
      BY <1>5, <3>1 DEF OpInv, ClosureOK, Of
  <2>2. op'[n].o \in HeldBy(op, e)
    BY <1>5 DEF HeldBy, Of, OpInv
  <2> QED
    BY <1>2, <1>3, <2>1, <2>2
<1>6. loc'[e] # 0 => loc'[e] = loc[e] /\ (e \in kinds => h[e][loc[e]].id = "temp")
  BY <1>1
<1>7. ASSUME NEW n \in 1..MaxEdits, Of(op'[n], e)
      PROVE  ClosureRow(g, op', srv', loc', want', e, n)
  <2>1. ClosureRow(h, op', srv, loc, want, e, n) /\ g[e][op'[n].o] = h[e][op'[n].o] /\ op'[n].o # 0
    BY <1>5, <1>7, SlotFacts DEF RowInv
  <2>2. ASSUME op'[n].kind = "create", Unserved(op'[n])
        PROVE  srv'[e] = 0 /\ (want[e] # Absent => op'[n].o = loc'[e])
    <3>1. e \in kinds => rows[e] = Absent
      BY <1>7, <2>2 DEF Makes
    <3>2. srv[e] = 0 /\ h[e][op'[n].o].id = "temp" /\ (want[e] # Absent => op'[n].o = loc[e])
      BY <2>1, <2>2 DEF ClosureRow
    <3> QED
      BY <1>1, <2>1, <3>1, <3>2
  <2> QED
    BY <2>1, <2>2 DEF ClosureRow
<1>8. ASSUME NEW s \in Slot, s \in {srv'[e], loc'[e]}
      PROVE  ListedRow(g, op', e, s)
  <2>1. s # 0
    BY SlotFacts
  <2>2. CASE e \in kinds /\ rows[e] # Absent /\ s = slot(e)
    BY <1>3, <1>4, <2>2 DEF ListedRow
  <2>3. CASE ~(e \in kinds /\ rows[e] # Absent /\ s = slot(e))
    <3>1. s \in {srv[e], loc[e]}
      BY <1>1, <1>6, <1>8, <2>1, <2>3
    <3>2. ListedRow(h, op', e, s)
      BY <3>1 DEF RowInv
    <3> QED
      BY <1>3, <2>3, <3>2 DEF ListedRow
  <2> QED
    BY <2>2, <2>3
<1>9. RowInv(g, op', srv', loc', want', e)
  BY <1>7, <1>8 DEF RowInv
<1> QED
  BY <1>1, <1>9, RowHeap

\* What a merge leaves beside the row itself.
LEMMA MergeHolds ==
    ASSUME OpInv, PageInv, Sheds, NEW kinds, NEW rows, NEW h, Merge(kinds, rows, h)
    PROVE  /\ Holds(h)
           /\ \A e \in Entity : srv'[e] # 0 => srv[e] # 0 \/ (e \in kinds /\ rows[e] # Absent)
           /\ \A e \in Entity : loc'[e] # 0 => loc[e] # 0
<1> DEFINE slot(x) == IF srv[x] # 0 /\ srv[x] \notin HeldBy(op, x) THEN srv[x] ELSE NewSlot(x, {})
           read(x) == [id |-> "real", mark |-> rows[x], rid |-> "real", gone |-> FALSE]
           g == [x \in Entity |-> [t \in Slot |->
                    IF x \in kinds /\ rows[x] # Absent /\ t = slot(x) THEN read(x) ELSE h[x][t]]]
<1>1. /\ srv' = [x \in Entity |->
                    CASE x \notin kinds -> srv[x]
                      [] x \in kinds /\ rows[x] # Absent -> slot(x)
                      [] OTHER -> 0]
      /\ loc' = [x \in Entity |->
                    IF x \in kinds /\ loc[x] # 0 /\ h[x][loc[x]].id # "temp" THEN 0 ELSE loc[x]]
      /\ Heap(g)
  BY DEF Merge
<1>2. \A x \in Entity : slot(x) \notin HeldBy(op, x)
  BY FreshSlot
<1>3. \A x \in Entity : \A t \in Slot : t # slot(x) => g[x][t] = h[x][t]
  OBVIOUS
<1> HIDE DEF slot, g
<1>4. Holds(h)
  BY <1>1, <1>2, <1>3, HeapAt DEF Holds, Sheds
<1> QED
  BY <1>1, <1>4

\* The page after an answer: either list as before, or one of them read anew.
Shown(kinds, rows, h) == Keep(h) \/ Merge(kinds, rows, h)

LEMMA ShownRow ==
    ASSUME OpInv, OpInv', PageInv, NEW kinds, NEW rows, NEW h, Shown(kinds, rows, h), want' = want,
           NEW e \in Entity, RowInv(h, op', srv, loc, want, e),
           \A n \in 1..MaxEdits : Of(op'[n], e) => Of(op[n], e) /\ op'[n].o = op[n].o,
           e \in kinds /\ rows[e] # Absent => \A n \in 1..MaxEdits : Makes(op'[n], e) => ~Unserved(op'[n])
    PROVE  RowInv(obj', op', srv', loc', want', e)
<1>1. CASE Keep(h)
  BY <1>1, RowHeap DEF Keep
<1>2. CASE Merge(kinds, rows, h)
  BY <1>2, RowMerge
<1> QED
  BY <1>1, <1>2 DEF Shown

LEMMA ShownHolds ==
    ASSUME OpInv, PageInv, Sheds, NEW kinds, NEW rows, NEW h, Shown(kinds, rows, h)
    PROVE  /\ Holds(h)
           /\ \A e \in Entity : srv'[e] # 0 => srv[e] # 0 \/ (e \in kinds /\ rows[e] # Absent)
           /\ \A e \in Entity : loc'[e] # 0 => loc[e] # 0
<1>1. CASE Keep(h)
  BY <1>1, HeapAt DEF Keep, Holds
<1>2. CASE Merge(kinds, rows, h)
  BY <1>2, MergeHolds
<1> QED
  BY <1>1, <1>2 DEF Shown

\* A clean row is as before on the page when the lists and marks that came tell
\* nothing of what is still to be served.
LEMMA ShownSettles ==
    ASSUME OpInv, PageInv, OpInv', Sheds, NEW kinds, NEW rows, NEW h, Shown(kinds, rows, h), want' = want,
           \A n \in 1..MaxEdits : \A x : Of(op'[n], x) => Of(op[n], x) /\ op'[n].o = op[n].o,
           NEW e \in Entity, Apart(e)', Serial(e)', NewInv(e)',
           RowInv(obj, op', srv, loc, want, e), WantInv(obj, op', want, mem', e),
           Alike(obj, h, e),
           e \in kinds /\ rows[e] # Absent => \A n \in 1..MaxEdits : Makes(op'[n], e) => ~Unserved(op'[n]),
           \A n \in 1..MaxEdits : Writer(op'[n], e) /\ op'[n].pc = "queued" /\ op'[n].kind \in {"patch", "toggle"}
               => h[op'[n].e][op'[n].o].mark = obj[op'[n].e][op'[n].o].mark
    PROVE  CleanRow(e)'
<1>1. RowInv(h, op', srv, loc, want, e)
  <2>1. \A n \in 1..MaxEdits : Of(op'[n], e) => op'[n].o \in Slot
    BY NoOpIs DEF OpInv, ClosureOK, Of
  <2> QED
    BY <2>1, RowAlike
<1>2. RowInv(obj', op', srv', loc', want', e)
  BY <1>1, ShownRow
<1>3. WantInv(h, op', want, mem', e)
  BY WantStays
<1>4. Holds(h)
  BY ShownHolds
<1>5. WantInv(obj', op', want, mem', e)
  BY <1>3, <1>4, WantHolds
<1> QED
  BY <1>2, <1>5 DEF CleanRow

LEMMA AlikeSame == \A h, e : Alike(h, h, e)
BY DEF Alike

\* Closure n, which makes no row, is done with or read again.
LEMMA ReplySettles ==
    ASSUME IInv, IInv', SInv, NEW n \in 1..MaxEdits, Goes(n), op[n].pc \in {"answered", "repair"}, op[n].kind # "create",
           op'[n] = NoOp \/ (op'[n].pc = "repair" /\ op[n].kind = "delete"), Sheds,
           NEW kinds, NEW rows, NEW h, Shown(kinds, rows, h),
           UNCHANGED <<storeVars, queue, replaying, turns, made, want, excused>>,
           DOMAIN drain' = DOMAIN drain, \A d \in Turns : drain[d] = NoDrain => drain'[d] = NoDrain,
           \A d \in Turns : \A k \in 1..MaxEdits :
               k # n /\ drain[d] = [pc |-> "await", n |-> k] => drain'[d] = [pc |-> "await", n |-> k],
           \A k \in FetchSlots : \A part \in Part : fetch'[k][part].pc = "answered" => fetch'[k][part] = fetch[k][part],
           \A e \in Entity : e \in kinds /\ rows[e] # Absent => e \in made,
           \A e \in Entity \ excused : e \in kinds /\ rows[e] # Absent =>
               \A k \in 1..MaxEdits : Makes(op[k], e) => ~Unserved(op[k]),
           \A e \in Entity \ excused : Alike(obj, h, e),
           \A e \in Entity \ excused : \A k \in 1..MaxEdits :
               k # n /\ Writer(op[k], e) /\ op[k].pc = "queued" /\ op[k].kind \in {"patch", "toggle"}
               => h[op[k].e][op[k].o].mark = obj[op[k].e][op[k].o].mark
    PROVE  SInv'
<1>1. OpInv /\ PageInv /\ OpInv' /\ OrderInv /\ MadeInv /\ FirstInv /\ GhostInv
  BY DEF IInv, SInv
<1>2. /\ \A e \in Entity : srv'[e] # 0 => srv[e] # 0 \/ (e \in kinds /\ rows[e] # Absent)
      /\ \A e \in Entity : loc'[e] # 0 => loc[e] # 0
  BY <1>1, ShownHolds
<1>3. op'[n].pc \in {"none", "repair"} /\ ~Active(op'[n])
  BY NoOpIs DEF Active
<1>4. OrderInv' /\ MadeInv' /\ FirstInv'
  <2>1. \A e \in Entity : srv'[e] # 0 \/ loc'[e] # 0 => e \in made
    BY <1>1, <1>2 DEF MadeInv
  <2>2. \A e \in Entity : mem'[e] # Absent \/ disk'[e] # Absent => e \in made
    BY <1>1 DEF MadeInv, storeVars
  <2>3. op'[n].pc = "repair" => op[n].kind = "delete"
    BY NoOpIs
  <2> QED
    BY <1>1, <1>3, <2>1, <2>2, <2>3, BooksGo
<1>5. GhostInv'
  BY <1>1 DEF GhostInv, storeVars
<1>6. ASSUME NEW e \in Entity \ excused
      PROVE  CleanRow(e)'
  <2>1. CleanRow(e) /\ ~Makes(op[n], e) /\ (e \in Ing => ~Makes(op[n], RecipeOf[e])) /\ ~Writer(op[n], e)
    BY DEF SInv, Makes, Writer, Unserved
  <2>2. \A d \in Turns : \A k \in 1..MaxEdits :
               drain[d] = [pc |-> "await", n |-> k] /\ Active(op'[k]) => drain'[d] = [pc |-> "await", n |-> k]
    BY <1>3
  <2>3. Apart(e)' /\ Serial(e)' /\ RowInv(obj, op', srv, loc, want, e)
    BY <1>3, <2>1, <2>2, GoesOn
  <2>4. NewInv(e)' /\ WantInv(obj, op', want, mem', e)
    BY <1>3, <2>1, PassesBy DEF storeVars
  <2>5. \A k \in 1..MaxEdits : \A x : Of(op'[k], x) => Of(op[k], x) /\ op'[k].o = op[k].o
    BY GoesIs, NoOpIs
  <2>6. \A k \in 1..MaxEdits : Unserved(op'[k]) => k # n /\ op'[k] = op[k]
    BY GoesIs
  <2>7. e \in kinds /\ rows[e] # Absent => \A k \in 1..MaxEdits : Makes(op'[k], e) => ~Unserved(op'[k])
    BY <2>6
  <2>8. \A k \in 1..MaxEdits : Writer(op'[k], e) /\ op'[k].pc = "queued" /\ op'[k].kind \in {"patch", "toggle"}
               => h[op'[k].e][op'[k].o].mark = obj[op'[k].e][op'[k].o].mark
    BY <2>6 DEF Writer
  <2> QED
    BY <1>1, <2>3, <2>4, <2>5, <2>7, <2>8, ShownSettles
<1> QED
  BY <1>4, <1>5, <1>6 DEF SInv

\* A finished closure: what Finish does.
LEMMA FinishGoes ==
    ASSUME IInv, OrderInv, NEW n \in 1..MaxEdits, Finish(n), edits' = edits
    PROVE  /\ Goes(n) /\ op'[n] = NoOp /\ Sheds
           /\ DOMAIN drain' = DOMAIN drain
           /\ \A d \in Turns : drain[d] = NoDrain => drain'[d] = NoDrain
           /\ \A d \in Turns : \A k \in 1..MaxEdits :
                 k # n /\ drain[d] = [pc |-> "await", n |-> k] => drain'[d] = [pc |-> "await", n |-> k]
<1>1. op' = [op EXCEPT ![n] = NoOp] /\ DOMAIN op = 1..MaxEdits
  BY DEF Finish, IInv, OpInv
<1>2. Sheds /\ \A m \in 1..MaxEdits : m # n => op'[m] = op[m]
  BY FinishSheds DEF IInv
<1>3. DOMAIN drain' = DOMAIN drain /\ \A d \in Turns : drain'[d] = IF drain[d] = [pc |-> "await", n |-> n]
                                     THEN [pc |-> "loop", n |-> 0] ELSE drain[d]
  BY DEF Finish, Resume, OrderInv
<1>4. NoDrain # [pc |-> "await", n |-> n] /\ \A k : k # n => [pc |-> "await", n |-> k] # [pc |-> "await", n |-> n]
  <2>1. \A k : [pc |-> "await", n |-> k].n = k
    OBVIOUS
  <2>2. NoDrain.pc = "off" /\ [pc |-> "await", n |-> n].pc = "await"
    BY DEF NoDrain
  <2> QED
    BY <2>1, <2>2
<1> QED
  BY <1>1, <1>2, <1>3, <1>4 DEF Goes

\* An answer's list shows nothing that was not served.
LEMMA AnswerShows ==
    ASSUME SInv, NEW n \in 1..MaxEdits, op[n].pc = "answered", op[n].msg.tag = "ok"
    PROVE  /\ \A e \in Entity : op[n].msg.rows[e] # Absent => e \in made
           /\ \A e \in Entity \ excused : op[n].msg.rows[e] # Absent =>
                 \A k \in 1..MaxEdits : Makes(op[k], e) => ~Unserved(op[k])
<1>1. \A e \in Entity : op[n].msg.rows[e] # Absent => e \in made
  BY DEF SInv, MadeInv
<1>2. \A e \in Entity \ excused : \A k \in 1..MaxEdits : Makes(op[k], e) /\ Unserved(op[k]) => op[n].msg.rows[e] = Absent
  BY DEF SInv, CleanRow, NewInv, Unseen
<1> QED
  BY <1>1, <1>2

LEMMA ItemsShown ==
    ASSUME NEW rows, NEW h, MergeItems(rows, h)
    PROVE  Shown(Item, rows, h)
BY DEF MergeItems, Shown, Keep

\* The recipe whose answer is adopted is asked nothing more, unless a replay goes on.
LEMMA AdoptionSafe ==
    ASSUME IInv, SInv, NEW n \in 1..MaxEdits, op[n].pc = "answered", op[n].kind \in {"toggle", "rename"}, ~replaying,
           NEW e \in Entity \ excused, NEW k \in 1..MaxEdits, Writer(op[k], e), op[k].pc = "queued",
           op[k].kind \in {"patch", "toggle"}
    PROVE  op[k].e # op[n].e
<1> SUFFICES ASSUME op[k].e = op[n].e PROVE FALSE
  OBVIOUS
<1>1. e \in Reach(op[k]) /\ Reach(op[k]) = Reach(op[n])
  <2>1. e \in Reach(op[k])
    BY ReachIs
  <2>2. op[k].kind # "reset" /\ op[n].kind # "reset"
    OBVIOUS
  <2>3. Scope(op[k].kind, op[k].e) = Scope(op[n].kind, op[n].e)
    BY <2>2, ScopeIs
  <2> QED
    BY <2>1, <2>3 DEF Reach
<1>2. Serial(e)
  BY DEF SInv, CleanRow
<1> QED
  BY <1>1, <1>2 DEF Serial, Active

LEMMA PatchedSettles ==
    ASSUME IInv, IInv', SInv, NEW n \in 1..MaxEdits,
           PatchedItem(n) \/ PatchedRecipe(n, "toggle") \/ PatchedRecipe(n, "rename") \/ WasReset(n)
    PROVE  SInv'
<1> DEFINE r == op[n].e
           rows == op[n].msg.rows
           first == IF srv[r] # 0 THEN srv[r] ELSE loc[r]
           h == IF first # 0 /\ obj[r][first].id = "real"
                THEN [obj EXCEPT ![r][first].mark = op[n].msg.rows[r]] ELSE obj
<1>1. PICK kind : /\ Reply(n, kind) /\ Finish(n) /\ fetch' = fetch /\ kind # "create"
                  /\ \/ Keep(obj)
                     \/ op[n].msg.tag = "ok" /\ MergeItems(rows, obj)
                     \/ /\ kind \in {"toggle", "rename"} /\ op[n].msg.tag = "ok" /\ ~replaying
                        /\ MergeItems(rows, h)
  BY DEF PatchedItem, PatchedRecipe, WasReset
<1>2. /\ op[n].kind = kind /\ op[n].pc = "answered"
      /\ UNCHANGED <<storeVars, queue, replaying, turns, made, want, excused>> /\ edits' = edits
  BY <1>1 DEF Reply, boundVars, ghosts
<1>3. /\ Goes(n) /\ op'[n] = NoOp /\ Sheds
      /\ DOMAIN drain' = DOMAIN drain
      /\ \A d \in Turns : drain[d] = NoDrain => drain'[d] = NoDrain
      /\ \A d \in Turns : \A k \in 1..MaxEdits :
            k # n /\ drain[d] = [pc |-> "await", n |-> k] => drain'[d] = [pc |-> "await", n |-> k]
  BY <1>1, <1>2, FinishGoes DEF SInv
<1>4. op[n].msg.tag = "ok" =>
           /\ \A e \in Entity : rows[e] # Absent => e \in made
           /\ \A e \in Entity \ excused : rows[e] # Absent => \A k \in 1..MaxEdits : Makes(op[k], e) => ~Unserved(op[k])
  BY <1>2, AnswerShows
<1>5. CASE Keep(obj)
  <2>1. Shown({}, rows, obj)
    BY <1>5 DEF Shown
  <2> HIDE DEF rows, h, first
  <2> QED
    BY <1>1, <1>2, <1>3, <2>1, AlikeSame, ReplySettles
<1>6. CASE op[n].msg.tag = "ok" /\ MergeItems(rows, obj)
  <2>1. Shown(Item, rows, obj)
    BY <1>6, ItemsShown
  <2> HIDE DEF rows
  <2> QED
    BY <1>1, <1>2, <1>3, <1>4, <1>6, <2>1, AlikeSame, ReplySettles
<1>7. CASE kind \in {"toggle", "rename"} /\ op[n].msg.tag = "ok" /\ ~replaying /\ MergeItems(rows, h)
  <2>1. Shown(Item, rows, h)
    BY <1>7, ItemsShown
  <2>2. \A x : \A s : x # r => h[x][s] = obj[x][s]
    OBVIOUS
  <2>3. \A e \in Entity \ excused : \A k \in 1..MaxEdits :
               k # n /\ Writer(op[k], e) /\ op[k].pc = "queued" /\ op[k].kind \in {"patch", "toggle"}
               => h[op[k].e][op[k].o].mark = obj[op[k].e][op[k].o].mark
    <3> HIDE DEF h
    <3> SUFFICES ASSUME NEW e \in Entity \ excused, NEW k \in 1..MaxEdits, Writer(op[k], e), op[k].pc = "queued",
                        op[k].kind \in {"patch", "toggle"}
                 PROVE  h[op[k].e][op[k].o].mark = obj[op[k].e][op[k].o].mark
      OBVIOUS
    <3>1. op[k].e # r
      BY <1>2, <1>7, AdoptionSafe
    <3> QED
      BY <2>2, <3>1
  <2>4. \A e \in Entity \ excused : Alike(obj, h, e)
    <3> SUFFICES ASSUME NEW e \in Entity, NEW s \in Slot
                 PROVE  obj[e][s].id = h[e][s].id /\ obj[e][s].rid = h[e][s].rid /\ obj[e][s].gone = h[e][s].gone
      BY DEF Alike
    <3>1. HeapOK(obj)
      BY DEF IInv, PageInv
    <3>2. obj[e][s] \in Row /\ e \in DOMAIN obj /\ s \in DOMAIN obj[e]
      BY <3>1 DEF HeapOK
    <3>3. CASE first # 0 /\ obj[r][first].id = "real" /\ e = r /\ s = first
      <4>1. h[e][s] = [obj[e][s] EXCEPT !.mark = op[n].msg.rows[r]]
        BY <3>2, <3>3
      <4> QED
        BY <3>2, <4>1 DEF Row
    <3>4. CASE ~(first # 0 /\ obj[r][first].id = "real" /\ e = r /\ s = first)
      <4>1. h[e][s] = obj[e][s]
        BY <3>2, <3>4
      <4> QED
        BY <4>1
    <3> QED
      BY <3>3, <3>4
  <2> HIDE DEF rows, h, first
  <2> QED
    BY <1>1, <1>2, <1>3, <1>4, <1>7, <2>1, <2>3, <2>4, ReplySettles
<1> QED
  BY <1>1, <1>5, <1>6, <1>7

LEMMA RemovedSettles ==
    ASSUME IInv, IInv', SInv, NEW n \in 1..MaxEdits, Removed(n)
    PROVE  SInv'
<1> DEFINE rows == op[n].msg.rows
<1>1. /\ Reply(n, "delete")
      /\ \/ /\ op' = [op EXCEPT ![n].pc = "repair"] /\ drain' = drain
            /\ fetch' = [fetch EXCEPT ![RepairSlot(n)]["items"] = SentGet]
            /\ Keep(obj)
         \/ /\ Finish(n) /\ fetch' = fetch
            /\ Keep(obj) \/ (op[n].msg.tag = "ok" /\ MergeItems(rows, obj))
  BY DEF Removed
<1>2. /\ op[n].kind = "delete" /\ op[n].pc = "answered"
      /\ UNCHANGED <<storeVars, queue, replaying, turns, made, want, excused>> /\ edits' = edits
  BY <1>1 DEF Reply, boundVars, ghosts
<1>3. op[n].msg.tag = "ok" =>
           /\ \A e \in Entity : rows[e] # Absent => e \in made
           /\ \A e \in Entity \ excused : rows[e] # Absent => \A k \in 1..MaxEdits : Makes(op[k], e) => ~Unserved(op[k])
  BY <1>2, AnswerShows
<1> HIDE DEF rows
<1>4. CASE /\ op' = [op EXCEPT ![n].pc = "repair"] /\ drain' = drain
           /\ fetch' = [fetch EXCEPT ![RepairSlot(n)]["items"] = SentGet]
           /\ Keep(obj)
  <2>1. /\ DOMAIN op = 1..MaxEdits /\ DOMAIN op[n] = {"kind", "e", "o", "pc", "msg", "tries"}
        /\ FetchInv
    BY DEF IInv, OpInv, ClosureOK
  <2>2. /\ \A m \in 1..MaxEdits : m # n => op'[m] = op[m]
        /\ op'[n].kind = op[n].kind /\ op'[n].e = op[n].e /\ op'[n].o = op[n].o /\ op'[n].pc = "repair"
    BY <1>4, <2>1
  <2>3. Goes(n)
    BY <1>2, <2>2 DEF Goes
  <2>4. Sheds
    <3>1. DOMAIN op' = 1..MaxEdits /\ \A m \in 1..MaxEdits : op'[m].e = op[m].e /\ op'[m].o = op[m].o
      BY <1>4, <2>1, <2>2
    <3> QED
      BY <2>1, <3>1 DEF Sheds, HeldBy
  <2>5. ASSUME NEW k \in FetchSlots, NEW part \in Part, fetch'[k][part].pc = "answered"
        PROVE  fetch'[k][part] = fetch[k][part]
    BY <1>4, <2>1, <2>5 DEF FetchInv, SentGet
  <2>6. Shown({}, rows, obj)
    BY <1>4 DEF Shown
  <2> QED
    BY <1>2, <1>4, <2>2, <2>3, <2>4, <2>5, <2>6, AlikeSame, ReplySettles
<1>5. CASE /\ Finish(n) /\ fetch' = fetch
           /\ Keep(obj) \/ (op[n].msg.tag = "ok" /\ MergeItems(rows, obj))
  <2>1. /\ Goes(n) /\ op'[n] = NoOp /\ Sheds
        /\ DOMAIN drain' = DOMAIN drain
        /\ \A d \in Turns : drain[d] = NoDrain => drain'[d] = NoDrain
        /\ \A d \in Turns : \A k \in 1..MaxEdits :
              k # n /\ drain[d] = [pc |-> "await", n |-> k] => drain'[d] = [pc |-> "await", n |-> k]
    BY <1>2, <1>5, FinishGoes DEF SInv
  <2>2. CASE Keep(obj)
    <3>1. Shown({}, rows, obj)
      BY <2>2 DEF Shown
    <3> QED
      BY <1>2, <1>5, <2>1, <3>1, AlikeSame, ReplySettles
  <2>3. CASE op[n].msg.tag = "ok" /\ MergeItems(rows, obj)
    <3>1. Shown(Item, rows, obj)
      BY <2>3, ItemsShown
    <3> QED
      BY <1>2, <1>3, <1>5, <2>1, <2>3, <3>1, AlikeSame, ReplySettles
  <2> QED
    BY <1>5, <2>2, <2>3
<1> QED
  BY <1>1, <1>4, <1>5

LEMMA LandSettles ==
    ASSUME IInv, IInv', SInv, NEW k \in FetchSlots, NEW part \in Part, Land(k, part)
    PROVE  SInv'
<1> DEFINE rest == [fetch[k] EXCEPT ![part] = NoGet]
           rows == fetch[k][part].rows
           n == k - RepairSlot(0)
<1>1. /\ fetch[k][part].pc = "answered" /\ fetch' = [fetch EXCEPT ![k] = rest]
      /\ \/ op' = op /\ drain[k].pc = "refresh" /\ drain' = [drain EXCEPT ![k] = NoDrain] /\ k \in Turns
         \/ op' = op /\ drain' = drain /\ ~(k > RepairSlot(0))
         \/ k > RepairSlot(0) /\ Finish(n)
      /\ MergeItems(rows, obj) \/ Merge(Recipe, rows, obj)
      /\ UNCHANGED <<storeVars, queue, replaying, edits, turns, made, want, excused>>
  BY DEF Land, boundVars, ghosts
<1>2. OpInv /\ OpInv' /\ FetchInv /\ PageInv /\ OrderInv /\ MadeInv /\ FirstInv /\ GhostInv
  BY DEF IInv, SInv
<1>3. PICK kinds : Shown(kinds, rows, obj)
  BY <1>1, ItemsShown DEF Shown
<1>4. ASSUME NEW j \in FetchSlots, NEW p \in Part, fetch'[j][p].pc = "answered"
      PROVE  fetch'[j][p] = fetch[j][p]
  <2>1. rest[part].pc # "answered" /\ \A p2 \in Part : p2 # part => rest[p2] = fetch[k][p2]
    BY <1>2 DEF FetchInv, NoGet
  <2> HIDE DEF rest
  <2> QED
    BY <1>1, <1>2, <1>4, <2>1 DEF FetchInv
<1>5. \A e \in Entity : e \in kinds /\ rows[e] # Absent => e \in made
  BY <1>1, <1>2 DEF MadeInv
<1>6. \A e \in Entity \ excused : e \in kinds /\ rows[e] # Absent => \A m \in 1..MaxEdits : Makes(op[m], e) => ~Unserved(op[m])
  <2>1. \A e \in Entity \ excused : \A m \in 1..MaxEdits : Makes(op[m], e) /\ Unserved(op[m]) => rows[e] = Absent
    BY <1>1 DEF SInv, CleanRow, NewInv, Unseen
  <2> QED
    BY <2>1
<1> HIDE DEF rows, rest
<1>7. CASE k > RepairSlot(0) /\ Finish(n)
  <2>1. n \in 1..MaxEdits /\ k = RepairSlot(n)
    BY <1>7, FetchSlotFacts
  <2>2. op[n].pc = "repair" /\ op[n].kind = "delete"
    <3>1. fetch[k] # NoFetch
      BY <1>1 DEF NoFetch, NoGet
    <3> QED
      BY <1>2, <2>1, <3>1 DEF FetchInv, OrderInv
  <2> HIDE DEF n
  <2>3. /\ Goes(n) /\ op'[n] = NoOp /\ Sheds
        /\ DOMAIN drain' = DOMAIN drain
        /\ \A d \in Turns : drain[d] = NoDrain => drain'[d] = NoDrain
        /\ \A d \in Turns : \A m \in 1..MaxEdits :
              m # n /\ drain[d] = [pc |-> "await", n |-> m] => drain'[d] = [pc |-> "await", n |-> m]
    BY <1>1, <1>7, <2>1, FinishGoes DEF SInv
  <2> QED
    BY <1>1, <1>3, <1>4, <1>5, <1>6, <2>1, <2>2, <2>3, AlikeSame, ReplySettles
<1>8. CASE op' = op /\ (drain' = drain \/ (drain[k].pc = "refresh" /\ drain' = [drain EXCEPT ![k] = NoDrain]))
  <2>1. Sheds
    BY <1>8 DEF Sheds
  <2>2. /\ \A e \in Entity : srv'[e] # 0 => srv[e] # 0 \/ (e \in kinds /\ rows[e] # Absent)
        /\ \A e \in Entity : loc'[e] # 0 => loc[e] # 0
    BY <1>2, <1>3, <2>1, ShownHolds
  <2>3. \A m \in 1..MaxEdits : Ages(m)
    BY <1>8 DEF Ages
  <2>4. OrderInv'
    <3>1. turns \in Nat /\ \A m \in 1..MaxEdits : op[m].pc = "repair" => op[m].kind = "delete"
      BY <1>2 DEF OrderInv
    <3>2. DOMAIN drain' = DOMAIN drain /\ \A d \in Turns : drain[d] = NoDrain => drain'[d] = NoDrain
      <4>1. NoDrain.pc # "refresh"
        BY DEF NoDrain
      <4> QED
        BY <1>2, <1>8, <4>1 DEF OrderInv
    <3> QED
      BY <1>1, <1>2, <1>8, <3>1, <3>2, OrderStays
  <2>5. MadeInv'
    <3>1. /\ \A e \in Entity : srv'[e] # 0 \/ loc'[e] # 0 => e \in made
          /\ \A e \in Entity : mem'[e] # Absent \/ disk'[e] # Absent => e \in made
          /\ \A m \in 1..MaxEdits : \A e \in Entity :
                op'[m].pc = "answered" /\ op'[m].msg.tag = "ok" /\ op'[m].msg.rows[e] # Absent => e \in made
      BY <1>1, <1>2, <1>5, <1>8, <2>2 DEF MadeInv, storeVars
    <3>2. ASSUME NEW j \in FetchSlots, NEW p \in Part, NEW e \in Entity,
                 fetch'[j][p].pc = "answered", fetch'[j][p].rows[e] # Absent
          PROVE  e \in made
      <4>1. fetch'[j][p] = fetch[j][p]
        BY <1>4, <3>2
      <4> QED
        BY <1>2, <3>2, <4>1 DEF MadeInv
    <3> QED
      BY <1>1, <1>2, <2>3, <3>1, <3>2, MadeStays
  <2>6. FirstInv' /\ GhostInv'
    BY <1>1, <1>2, <2>3, FirstStays DEF GhostInv, storeVars
  <2>7. ASSUME NEW e \in Entity \ excused
        PROVE  CleanRow(e)'
    <3>1. CleanRow(e)
      BY DEF SInv
    <3>2. \A d \in Turns : \A m : drain[d] = [pc |-> "await", n |-> m] => drain'[d] = [pc |-> "await", n |-> m]
      <4> SUFFICES ASSUME NEW d \in Turns, NEW m, drain[d] = [pc |-> "await", n |-> m]
                   PROVE  drain'[d] = drain[d]
        OBVIOUS
      <4>1. drain[d].pc # "refresh"
        OBVIOUS
      <4> QED
        BY <1>2, <1>8, <4>1 DEF OrderInv
    <3>3. Apart(e)' /\ Serial(e)'
      BY <1>1, <1>8, <3>1, <3>2, WayStays DEF CleanRow
    <3>4. NewInv(e)'
      BY <1>1, <1>4, <1>8, <3>1, NewStays DEF CleanRow, storeVars
    <3>5. RowInv(obj, op', srv, loc, want, e) /\ WantInv(obj, op', want, mem', e)
      BY <1>1, <1>8, <3>1 DEF CleanRow, storeVars
    <3> QED
      BY <1>1, <1>2, <1>3, <1>6, <1>8, <2>1, <3>3, <3>4, <3>5, AlikeSame, ShownSettles
  <2> QED
    BY <1>1, <2>4, <2>5, <2>6, <2>7 DEF SInv
<1> QED
  BY <1>1, <1>7, <1>8

-----------------------------------------------------------------------------
\* A created row's answer.

\* Closure n goes on and the row is none of its business.
LEMMA Elsewhere ==
    ASSUME NEW e \in Entity, CleanRow(e), NEW n \in 1..MaxEdits, \A k \in 1..MaxEdits : k # n => op'[k] = op[k],
           Ages(n), op[n].pc # "none", e \notin Reach(op[n]), mem' = mem,
           \A k \in FetchSlots : \A part \in Part : fetch'[k][part].pc = "answered" => fetch'[k][part] = fetch[k][part],
           op'[n].pc = "answered" => op'[n] = op[n],
           replaying => replaying',
           \A d \in Turns : \A k \in 1..MaxEdits :
               k # n /\ drain[d] = [pc |-> "await", n |-> k] => drain'[d] = [pc |-> "await", n |-> k]
    PROVE  /\ Apart(e)' /\ Serial(e)' /\ NewInv(e)'
           /\ RowInv(obj, op', srv, loc, want, e) /\ WantInv(obj, op', want, mem', e)
<1>1. op'[n].pc = "none" \/ Reach(op'[n]) = Reach(op[n])
  BY NoOpIs DEF Ages, Reach
<1>2. /\ ~Of(op[n], e) /\ ~Writer(op[n], e) /\ ~Makes(op[n], e)
      /\ e \in Ing => ~Makes(op[n], RecipeOf[e])
  BY ReachIs
<1>3. /\ ~Of(op'[n], e) /\ ~Writer(op'[n], e) /\ ~Makes(op'[n], e)
      /\ e \in Ing => ~Makes(op'[n], RecipeOf[e])
  <2>1. CASE op'[n].pc = "none"
    BY <2>1 DEF Of, Makes, Writer, Unserved
  <2>2. CASE Reach(op'[n]) = Reach(op[n])
    BY <2>2, ReachIs
  <2> QED
    BY <1>1, <2>1, <2>2
<1>4. \A k \in 1..MaxEdits : op'[k].pc # "none" /\ e \in Reach(op'[k]) => k # n /\ op'[k] = op[k]
  BY <1>1
<1>5. CleanRow(e) => /\ RowInv(obj, op, srv, loc, want, e) /\ NewInv(e) /\ WantInv(obj, op, want, mem, e)
                     /\ Apart(e) /\ Serial(e)
  BY DEF CleanRow
<1>6. Apart(e)' /\ Serial(e)'
  <2>1. \A k \in 1..MaxEdits : Active(op'[k]) /\ e \in Reach(op'[k]) => k # n /\ Active(op[k]) /\ e \in Reach(op[k])
    BY <1>4 DEF Active
  <2>2. \A k \in 1..MaxEdits : op'[k].pc = "queued" /\ e \in Reach(op'[k]) => k # n /\ op[k].pc = "queued" /\ e \in Reach(op[k])
    BY <1>4
  <2>3. Apart(e)'
    BY <1>5, <2>1 DEF Apart
  <2>4. Serial(e)'
    <3> SUFFICES ASSUME NEW j \in 1..MaxEdits, NEW k \in 1..MaxEdits,
                        op'[j].pc = "queued", Active(op'[k]), e \in Reach(op'[j]), e \in Reach(op'[k])
                 PROVE  k < j /\ replaying' /\ \E d \in Turns : drain'[d] = [pc |-> "await", n |-> k]
      BY DEF Serial
    <3>1. k < j /\ replaying /\ \E d \in Turns : drain[d] = [pc |-> "await", n |-> k]
      BY <1>5, <2>1, <2>2 DEF Serial
    <3> QED
      BY <2>1, <3>1
  <2> QED
    BY <2>3, <2>4
<1>7. RowInv(obj, op', srv, loc, want, e)
  <2>1. \A k \in 1..MaxEdits : Of(op'[k], e) =>
            Of(op[k], e) /\ op'[k] = op[k]
    BY <1>3
  <2>2. \A k \in 1..MaxEdits : Makes(op[k], e) => Makes(op'[k], e) /\ op'[k].o = op[k].o
    BY <1>2
  <2>3. e \in Ing => (Underway(op', RecipeOf[e]) <=> Underway(op, RecipeOf[e]))
    BY <1>2, <1>3 DEF Underway
  <2> QED
    BY <1>5, <2>1, <2>2, <2>3, RowStays
<1>8. NewInv(e)'
  <2>1. \A k \in 1..MaxEdits : Makes(op'[k], e) => op'[k] = op[k]
    BY <1>3
  <2>2. \A k \in 1..MaxEdits : op'[k].pc = "answered" => op'[k] = op[k]
    OBVIOUS
  <2> QED
    BY <1>5, <2>1, <2>2, NewStays
<1>9. WantInv(obj, op', want, mem', e)
  <2>1. \A k \in 1..MaxEdits : Writer(op'[k], e) \/ Writer(op[k], e) => op'[k] = op[k]
    BY <1>2, <1>3
  <2> QED
    BY <1>5, <2>1, WantStays
<1> QED
  BY <1>6, <1>7, <1>8, <1>9

\* A row is made once.
LEMMA MadeOnce ==
    ASSUME FirstInv, NEW e \in Entity, NEW n \in 1..MaxEdits, Makes(op[n], e), NEW k \in 1..MaxEdits, Makes(op[k], e),
           OpInv
    PROVE  k = n
<1>1. Of(op[n], e) /\ Of(op[k], e)
  BY DEF Makes
<1>2. k <= n /\ n <= k
  BY <1>1 DEF FirstInv
<1> QED
  BY <1>2

\* The POST of clean row e is answered: its object has the server's id now, and
\* the rows of a new recipe have the recipe's.
LEMMA AnswerAdopted ==
    ASSUME IInv, OpInv', SInv, NEW n \in 1..MaxEdits, op[n].pc = "answered", op[n].kind = "create",
           Goes(n), op'[n] = NoOp,
           \A d \in Turns : \A k \in 1..MaxEdits :
               k # n /\ drain[d] = [pc |-> "await", n |-> k] => drain'[d] = [pc |-> "await", n |-> k],
           UNCHANGED <<storeVars, replaying, want, fetch, srv, loc>>,
           NEW h, Heap(h),
           \A x \in Entity : \A t \in Slot :
               /\ h[x][t].gone = obj[x][t].gone
               /\ h[x][t].id = IF x = op[n].e /\ t = op[n].o THEN "real" ELSE obj[x][t].id
               /\ h[x][t].rid # obj[x][t].rid =>
                     h[x][t].rid = "real" /\ (x = op[n].e \/ (x \in Ing /\ RecipeOf[x] = op[n].e))
               /\ x \in Ing /\ RecipeOf[x] = op[n].e /\ t \in {srv[x], loc[x]}
                  /\ obj[x][t].rid = obj[op[n].e][op[n].o].id => h[x][t].rid = "real"
               /\ h[x][t].mark # obj[x][t].mark => x = op[n].e /\ ~replaying,
           NEW e \in Entity \ excused, e \in Reach(op[n])
    PROVE  CleanRow(e)'
<1>1. OpInv /\ FirstInv /\ CleanRow(e) /\ OrderInv
  BY DEF IInv, SInv
<1>2. op[n].e \in Entity /\ op[n].o \in Slot /\ Makes(op[n], op[n].e)
  <2>1. Of(op[n], op[n].e)
    BY DEF Of
  <2> QED
    BY <1>1, <2>1, ClosureIs DEF Makes
<1>3. e = op[n].e \/ (e \in Ing /\ RecipeOf[e] = op[n].e)
  BY ScopeIs DEF Reach
<1>4. Apart(e)' /\ Serial(e)'
  <2>1. \A k \in 1..MaxEdits : op'[k].pc # "none" => k # n /\ op'[k] = op[k]
    BY NoOpIs DEF Goes
  <2>2. \A k \in 1..MaxEdits : Active(op'[k]) => k # n /\ op'[k] = op[k]
    BY <2>1 DEF Active
  <2>3. \A k \in 1..MaxEdits : op'[k].pc = "queued" => k # n /\ op'[k] = op[k]
    BY <2>1
  <2> QED
    BY <1>1, <2>2, <2>3, WayStays DEF CleanRow
<1>5. \A k \in 1..MaxEdits : Of(op'[k], e) => k # n /\ op'[k] = op[k] /\ Of(op[k], e) /\ op[k].o \in Slot
  BY <1>1, NoOpIs, ClosureIs DEF Goes
<1>6. \A k \in 1..MaxEdits : ~Makes(op'[k], op[n].e)
  <2> SUFFICES ASSUME NEW k \in 1..MaxEdits, Makes(op'[k], op[n].e) PROVE FALSE
    OBVIOUS
  <2>1. k # n /\ Makes(op[k], op[n].e)
    BY NoOpIs DEF Goes
  <2> QED
    BY <1>1, <1>2, <2>1, MadeOnce
<1>7. RowInv(obj, op, srv, loc, want, e) /\ Apart(e) /\ Serial(e) /\ NewInv(e) /\ WantInv(obj, op, want, mem, e)
  BY <1>1 DEF CleanRow
<1>8. RowInv(h, op', srv, loc, want, e)
  <2>1. ASSUME NEW k \in 1..MaxEdits, Of(op'[k], e)
        PROVE  ClosureRow(h, op', srv, loc, want, e, k)
    <3>1. k # n /\ op'[k] = op[k] /\ Of(op[k], e) /\ op[k].o \in Slot
      BY <1>5, <2>1
    <3>2. ClosureRow(obj, op, srv, loc, want, e, k)
      BY <1>7, <3>1 DEF RowInv
    <3>3. h[e][op[k].o].gone = obj[e][op[k].o].gone
      BY <3>1
    <3>4. CASE op[k].kind = "create"
      <4>1. e # op[n].e /\ e \in Ing /\ RecipeOf[e] = op[n].e
        BY <1>3, <1>6, <2>1, <3>1, <3>4 DEF Makes
      <4>2. h[e][op[k].o].id = obj[e][op[k].o].id
        BY <3>1, <4>1
      <4>3. op[k].pc = "queued" /\ want[e] # Absent => h[e][op[k].o].rid = "real"
        <5> SUFFICES ASSUME op[k].pc = "queued", want[e] # Absent PROVE h[e][op[k].o].rid = "real"
          OBVIOUS
        <5>1. op[k].o = loc[e]
          BY <3>2, <3>4 DEF ClosureRow, Unserved
        <5>2. obj[e][op[k].o].rid = "temp"
          <6>1. Underway(op, RecipeOf[e])
            BY <1>2, <4>1 DEF Underway
          <6> QED
            BY <3>2, <3>4, <4>1, <6>1 DEF ClosureRow
        <5>3. obj[op[n].e][op[n].o].id = "temp"
          <6>1. CleanRow(op[n].e)
            BY <4>1, RecipeClean
          <6>2. ClosureRow(obj, op, srv, loc, want, op[n].e, n)
            BY <1>2, <6>1 DEF CleanRow, RowInv, Makes
          <6> QED
            BY <6>2 DEF ClosureRow
        <5> QED
          BY <3>1, <4>1, <5>1, <5>2, <5>3
      <4>4. ~Underway(op', RecipeOf[e])
        BY <1>6, <4>1 DEF Underway
      <4> QED
        BY <3>1, <3>2, <3>3, <3>4, <4>1, <4>2, <4>3, <4>4 DEF ClosureRow
    <3>5. CASE op[k].kind # "create"
      <4>1. op[k].kind \in {"patch", "toggle", "rename"} /\ op[k].pc = "queued" /\ want[e] # Absent =>
                \/ h[e][op[k].o].id = "real"
                \/ \E j \in 1..MaxEdits : j < k /\ Makes(op'[j], e) /\ op'[j].o = op[k].o
        <5> SUFFICES ASSUME op[k].kind \in {"patch", "toggle", "rename"}, op[k].pc = "queued", want[e] # Absent,
                            h[e][op[k].o].id # "real"
                     PROVE  \E j \in 1..MaxEdits : j < k /\ Makes(op'[j], e) /\ op'[j].o = op[k].o
          OBVIOUS
        <5>1. obj[e][op[k].o].id # "real" /\ ~(e = op[n].e /\ op[k].o = op[n].o)
          BY <3>1
        <5>2. PICK j \in 1..MaxEdits : j < k /\ Makes(op[j], e) /\ op[j].o = op[k].o
          BY <3>2, <5>1 DEF ClosureRow
        <5>3. j # n
          BY <5>1, <5>2 DEF Makes, Of
        <5>4. op'[j] = op[j]
          BY <5>3 DEF Goes
        <5> QED
          BY <5>2, <5>4
      <4> QED
        BY <3>1, <3>2, <3>3, <3>5, <4>1 DEF ClosureRow
    <3> QED
      BY <3>4, <3>5
  <2>2. ASSUME NEW s \in Slot, s \in {srv[e], loc[e]}
        PROVE  ListedRow(h, op', e, s)
    <3>1. ListedRow(obj, op, e, s)
      BY <1>7, <2>2 DEF RowInv
    <3>2. h[e][s].gone = obj[e][s].gone /\ h[e][s].id = IF e = op[n].e /\ s = op[n].o THEN "real" ELSE obj[e][s].id
      OBVIOUS
    <3>3. h[e][s].id = "temp" => \E k \in 1..MaxEdits : Makes(op'[k], e) /\ op'[k].o = s
      <4> SUFFICES ASSUME h[e][s].id = "temp" PROVE \E k \in 1..MaxEdits : Makes(op'[k], e) /\ op'[k].o = s
        OBVIOUS
      <4>1. ~(e = op[n].e /\ s = op[n].o) /\ obj[e][s].id = "temp"
        BY <3>2
      <4>2. PICK k \in 1..MaxEdits : Makes(op[k], e) /\ op[k].o = s
        BY <3>1, <4>1 DEF ListedRow
      <4>3. k # n
        BY <4>1, <4>2 DEF Makes, Of
      <4> QED
        BY <4>2, <4>3 DEF Goes
    <3> QED
      BY <3>1, <3>2, <3>3 DEF ListedRow
  <2> QED
    BY <2>1, <2>2 DEF RowInv
<1>9. NewInv(e)'
  <2>1. CASE e = op[n].e
    BY <1>6, <2>1 DEF NewInv
  <2>2. CASE e # op[n].e
    <3>1. ~Makes(op[n], e) /\ ~Writer(op[n], e) /\ op'[n].pc # "answered"
      BY <2>2, NoOpIs DEF Makes, Of, Writer, Unserved
    <3> QED
      BY <1>1, <3>1, PassesBy DEF storeVars
  <2> QED
    BY <2>1, <2>2
<1>10. WantInv(h, op', want, mem', e)
  <2>1. \A k \in 1..MaxEdits : Writer(op'[k], e) \/ Writer(op[k], e) => op'[k] = op[k]
    BY GoesIs DEF Goes, Writer, Unserved
  <2>2. ASSUME NEW k \in 1..MaxEdits, Writer(op[k], e), op[k].pc = "queued", op[k].kind \in {"patch", "toggle"}
        PROVE  h[op[k].e][op[k].o].mark = obj[op[k].e][op[k].o].mark
    <3>1. op[k].e \in Entity /\ op[k].o \in Slot /\ e \in Reach(op[k])
      BY <1>1, <2>2, WriterHolds
    <3>2. replaying
      BY <1>7, <2>2, <3>1 DEF Serial, Active
    <3> QED
      BY <3>1, <3>2
  <2> QED
    BY <1>7, <2>1, <2>2, WantStays DEF storeVars
<1>11. RowInv(obj', op', srv', loc', want', e)
  BY <1>8, RowHeap
<1>12. WantInv(obj', op', want', mem', e)
  BY <1>10, WantHeap
<1> QED
  BY <1>4, <1>9, <1>11, <1>12 DEF CleanRow

LEMMA ReachThrough ==
    ASSUME NEW o, NEW c, NEW x, Of(c, x), x \in Reach(o), NEW e \in Reach(c)
    PROVE  e \in Reach(o)
<1>1. c.kind # "reset" /\ c.e = x
  BY DEF Of
<1>2. CASE x \in Recipe
  BY <1>1, <1>2, ScopeIs, ReachOwns DEF Reach
<1>3. CASE x \notin Recipe
  BY <1>1, <1>3, ScopeIs DEF Reach
<1> QED
  BY <1>2, <1>3

LEMMA CreateDone ==
    ASSUME IInv, IInv', SInv, NEW n \in 1..MaxEdits, Reply(n, "create"), Finish(n), fetch' = fetch, NEW h, Keep(h),
           \A x \in Entity : \A t \in Slot : x \notin Reach(op[n]) => h[x][t] = obj[x][t],
           op[n].msg.tag = "ok" => \A x \in Entity : \A t \in Slot :
               /\ h[x][t].gone = obj[x][t].gone
               /\ h[x][t].id = IF x = op[n].e /\ t = op[n].o THEN "real" ELSE obj[x][t].id
               /\ h[x][t].rid # obj[x][t].rid =>
                     h[x][t].rid = "real" /\ (x = op[n].e \/ (x \in Ing /\ RecipeOf[x] = op[n].e))
               /\ x \in Ing /\ RecipeOf[x] = op[n].e /\ t \in {srv[x], loc[x]}
                  /\ obj[x][t].rid = obj[op[n].e][op[n].o].id => h[x][t].rid = "real"
               /\ h[x][t].mark # obj[x][t].mark => x = op[n].e /\ ~replaying
    PROVE  SInv'
<1>1. /\ op[n].kind = "create" /\ op[n].pc = "answered"
      /\ UNCHANGED <<storeVars, queue, replaying, turns, made, want, excused>> /\ edits' = edits
  BY DEF Reply, boundVars, ghosts
<1>2. OpInv /\ OpInv' /\ PageInv /\ OrderInv /\ MadeInv /\ FirstInv /\ GhostInv
  BY DEF IInv, SInv
<1>3. /\ Goes(n) /\ op'[n] = NoOp /\ Sheds
      /\ DOMAIN drain' = DOMAIN drain
      /\ \A d \in Turns : drain[d] = NoDrain => drain'[d] = NoDrain
      /\ \A d \in Turns : \A k \in 1..MaxEdits :
            k # n /\ drain[d] = [pc |-> "await", n |-> k] => drain'[d] = [pc |-> "await", n |-> k]
  BY <1>1, <1>2, FinishGoes
<1>4. srv' = srv /\ loc' = loc /\ Heap(h)
  BY DEF Keep
<1>5. OrderInv' /\ MadeInv' /\ FirstInv' /\ GhostInv'
  <2>1. /\ \A e \in Entity : srv'[e] # 0 \/ loc'[e] # 0 => e \in made
        /\ \A e \in Entity : mem'[e] # Absent \/ disk'[e] # Absent => e \in made
    BY <1>1, <1>2, <1>4 DEF MadeInv, storeVars
  <2>2. op'[n].pc # "repair" /\ op'[n].pc # "answered"
    BY <1>3, NoOpIs
  <2>3. GhostInv'
    BY <1>1, <1>2 DEF GhostInv, storeVars
  <2> QED
    BY <1>1, <1>2, <1>3, <2>1, <2>2, <2>3, BooksGo
<1>6. Of(op[n], op[n].e) /\ Makes(op[n], op[n].e) /\ op[n].e \in Entity
  <2>1. Of(op[n], op[n].e)
    BY <1>1 DEF Of
  <2> QED
    BY <1>1, <1>2, <2>1, ClosureIs DEF Makes
<1>7. ASSUME NEW e \in Entity \ excused
      PROVE  CleanRow(e)'
  <2>1. CleanRow(e)
    BY DEF SInv
  <2>2. CASE e \in Reach(op[n])
    <3>1. op[n].e \notin excused
      BY <1>2, <1>6, <2>2, ReachExcused
    <3>2. op[n].msg.tag = "ok"
      BY <1>1, <1>6, <3>1 DEF SInv, CleanRow, NewInv
    <3> QED
      BY <1>1, <1>2, <1>3, <1>4, <2>2, <3>2, AnswerAdopted
  <2>3. CASE e \notin Reach(op[n])
    <3>1. /\ Apart(e)' /\ Serial(e)' /\ NewInv(e)'
          /\ RowInv(obj, op', srv, loc, want, e) /\ WantInv(obj, op', want, mem', e)
      <4>1. Ages(n) /\ op'[n].pc # "answered" /\ \A k \in 1..MaxEdits : k # n => op'[k] = op[k]
        BY <1>3, NoOpIs DEF Ages, Goes
      <4> QED
        BY <1>1, <1>3, <2>1, <2>3, <4>1, Elsewhere DEF storeVars
    <3>2. Alike(obj, h, e)
      BY <2>3 DEF Alike
    <3>3. \A k \in 1..MaxEdits : Writer(op'[k], e) /\ op'[k].pc = "queued" /\ op'[k].kind \in {"patch", "toggle"}
               => h[op'[k].e][op'[k].o].mark = obj[op'[k].e][op'[k].o].mark
      <4> SUFFICES ASSUME NEW k \in 1..MaxEdits, Writer(op'[k], e), op'[k].kind \in {"patch", "toggle"}
                   PROVE  h[op'[k].e][op'[k].o].mark = obj[op'[k].e][op'[k].o].mark
        OBVIOUS
      <4>1. op'[k] = op[k] /\ Writer(op[k], e)
        BY <1>3, GoesIs DEF Writer
      <4>2. op[k].e \in Entity /\ op[k].o \in Slot /\ e \in Reach(op[k]) /\ Of(op[k], op[k].e)
        BY <1>2, <4>1, WriterHolds
      <4>3. op[k].e \notin Reach(op[n])
        BY <2>3, <4>2, ReachThrough
      <4> QED
        BY <4>1, <4>2, <4>3
    <3>4. Shown({}, op[n].msg.rows, h)
      BY DEF Shown
    <3>5. \A k \in 1..MaxEdits : \A x : Of(op'[k], x) => Of(op[k], x) /\ op'[k].o = op[k].o
      BY <1>3, GoesIs, NoOpIs
    <3> QED
      BY <1>1, <1>2, <1>3, <3>1, <3>2, <3>3, <3>4, <3>5, ShownSettles
  <2> QED
    BY <2>2, <2>3
<1> QED
  BY <1>1, <1>5, <1>7 DEF SInv

LEMMA CreatedItemSettles ==
    ASSUME IInv, IInv', SInv, NEW n \in 1..MaxEdits, CreatedItem(n) \/ CreatedIngredient(n)
    PROVE  SInv'
<1> DEFINE e == op[n].e
           s == op[n].o
           rowI == [obj[e][s] EXCEPT !.id = "real", !.mark = IF replaying THEN @ ELSE op[n].msg.rows[e]]
           rowG == [obj[e][s] EXCEPT !.id = "real", !.rid = "real",
                                     !.mark = IF replaying THEN @ ELSE op[n].msg.rows[e]]
           hI == CASE op[n].msg.tag = "ok" -> [obj EXCEPT ![e][s] = rowI]
                   [] op[n].msg.tag = "refused" /\ replaying -> [obj EXCEPT ![e][s].id = "none"]
                   [] OTHER -> obj
           hG == IF op[n].msg.tag = "ok" THEN [obj EXCEPT ![e][s] = rowG] ELSE obj
<1>1. Reply(n, "create") /\ Finish(n) /\ UNCHANGED fetch /\ (Keep(hI) \/ Keep(hG)) /\ e \in Item
  BY DEF CreatedItem, CreatedIngredient, Item
<1>2. OpInv /\ PageInv /\ HeapOK(obj)
  BY DEF IInv, PageInv
<1>3. op[n].kind = "create" /\ op[n].pc = "answered"
  BY <1>1, AnswerHas
<1>4. e \in Entity /\ s \in Slot /\ obj[e][s] \in Row
  BY <1>2, <1>3, HeldMarked
<1>5. DOMAIN obj = Entity /\ \A x \in Entity : DOMAIN obj[x] = Slot
  BY <1>2 DEF HeapOK
<1>6. Reach(op[n]) = {e}
  BY <1>1, <1>3, ScopeIs, MarksAre DEF Reach
<1>7. /\ rowI.gone = obj[e][s].gone /\ rowI.id = "real" /\ rowI.rid = obj[e][s].rid
      /\ rowG.gone = obj[e][s].gone /\ rowG.id = "real" /\ rowG.rid = "real"
      /\ replaying => rowI.mark = obj[e][s].mark /\ rowG.mark = obj[e][s].mark
  BY <1>4 DEF Row
<1>8. \A x \in Entity : \A t \in Slot :
         /\ ~(x = e /\ t = s) => hI[x][t] = obj[x][t] /\ hG[x][t] = obj[x][t]
         /\ x = e /\ t = s /\ op[n].msg.tag = "ok" => hI[x][t] = rowI /\ hG[x][t] = rowG
  BY <1>4, <1>5
<1> HIDE DEF e, s, rowI, rowG, hI, hG
<1>9. ASSUME NEW h, h = hI \/ h = hG
      PROVE  /\ \A x \in Entity : \A t \in Slot : x \notin Reach(op[n]) => h[x][t] = obj[x][t]
             /\ op[n].msg.tag = "ok" => \A x \in Entity : \A t \in Slot :
                   /\ h[x][t].gone = obj[x][t].gone
                   /\ h[x][t].id = IF x = op[n].e /\ t = op[n].o THEN "real" ELSE obj[x][t].id
                   /\ h[x][t].rid # obj[x][t].rid =>
                         h[x][t].rid = "real" /\ (x = op[n].e \/ (x \in Ing /\ RecipeOf[x] = op[n].e))
                   /\ x \in Ing /\ RecipeOf[x] = op[n].e /\ t \in {srv[x], loc[x]}
                      /\ obj[x][t].rid = obj[op[n].e][op[n].o].id => h[x][t].rid = "real"
                   /\ h[x][t].mark # obj[x][t].mark => x = op[n].e /\ ~replaying
  <2>1. \A x \in Entity : \A t \in Slot : x \notin Reach(op[n]) => h[x][t] = obj[x][t]
    BY <1>6, <1>8, <1>9
  <2>2. ASSUME op[n].msg.tag = "ok", NEW x \in Entity, NEW t \in Slot
        PROVE  /\ h[x][t].gone = obj[x][t].gone
               /\ h[x][t].id = IF x = op[n].e /\ t = op[n].o THEN "real" ELSE obj[x][t].id
               /\ h[x][t].rid # obj[x][t].rid =>
                     h[x][t].rid = "real" /\ (x = op[n].e \/ (x \in Ing /\ RecipeOf[x] = op[n].e))
               /\ h[x][t].mark # obj[x][t].mark => x = op[n].e /\ ~replaying
    <3>1. CASE x = e /\ t = s
      BY <1>7, <1>8, <1>9, <2>2, <3>1 DEF e, s
    <3>2. CASE ~(x = e /\ t = s)
      BY <1>8, <1>9, <3>2 DEF e, s
    <3> QED
      BY <3>1, <3>2
  <2>3. \A x \in Ing : RecipeOf[x] # op[n].e
    BY <1>1, MarksAre DEF e
  <2> QED
    BY <2>1, <2>2, <2>3
<1> QED
  BY <1>1, <1>9, CreateDone

LEMMA CreatedRecipeSettles ==
    ASSUME IInv, IInv', SInv, NEW n \in 1..MaxEdits, CreatedRecipe(n)
    PROVE  SInv'
<1> DEFINE r == op[n].e
           s == op[n].o
           named == RowsOf(r, s)
           h == [x \in Entity |-> [t \in Slot |->
                    CASE x = r /\ t = s -> [obj[x][t] EXCEPT !.id = "real"]
                      [] <<x, t>> \in named -> [obj[x][t] EXCEPT !.rid = "real"]
                      [] OTHER -> obj[x][t]]]
<1>1. /\ Reply(n, "create") /\ fetch' = fetch /\ r \in Recipe
      /\ \/ /\ op' = [op EXCEPT ![n].pc = "sent", ![n].tries = @ + 1,
                                ![n].msg = Request("create", r, obj[r][s])]
            /\ op[n].msg.tag = "refused" /\ Keep(obj) /\ drain' = drain
         \/ Finish(n) /\ Keep(IF op[n].msg.tag = "ok" THEN h ELSE obj)
  BY DEF CreatedRecipe
<1>2. OpInv /\ OpInv' /\ PageInv /\ HeapOK(obj) /\ OrderInv /\ MadeInv /\ FirstInv /\ GhostInv
  BY DEF IInv, PageInv, SInv
<1>3. /\ op[n].kind = "create" /\ op[n].pc = "answered"
      /\ UNCHANGED <<storeVars, queue, replaying, turns, made, want, excused>> /\ edits' = edits
  BY <1>1 DEF Reply, boundVars, ghosts
<1>4. Reach(op[n]) = {r} \cup Owned(r) /\ r \in Entity /\ s \in Slot
  BY <1>1, <1>2, <1>3, ScopeIs, HeldMarked DEF Reach
<1>5. \A x \in Entity : \A t \in Slot : obj[x][t] \in Row
  BY <1>2 DEF HeapOK
<1>6. \A x : \A t \in Slot : <<x, t>> \in named <=>
          x \in Ing /\ RecipeOf[x] = r /\ t \in {srv[x], loc[x]} /\ obj[x][t].rid = obj[r][s].id
  BY DEF RowsOf, Owned
<1>7. CASE Finish(n) /\ Keep(IF op[n].msg.tag = "ok" THEN h ELSE obj)
  <2>1. CASE op[n].msg.tag = "ok"
    <3>1. ASSUME NEW x \in Entity, NEW t \in Slot
          PROVE  /\ x \notin Reach(op[n]) => h[x][t] = obj[x][t]
                 /\ h[x][t].gone = obj[x][t].gone
                 /\ h[x][t].id = IF x = r /\ t = s THEN "real" ELSE obj[x][t].id
                 /\ h[x][t].rid # obj[x][t].rid => h[x][t].rid = "real" /\ (x = r \/ (x \in Ing /\ RecipeOf[x] = r))
                 /\ x \in Ing /\ RecipeOf[x] = r /\ t \in {srv[x], loc[x]} /\ obj[x][t].rid = obj[r][s].id
                        => h[x][t].rid = "real"
                 /\ h[x][t].mark = obj[x][t].mark
      <4> HIDE DEF named, r, s
      <4>1. \A g \in Ing : g # r /\ g \in Entity
        BY <1>1, MarksAre
      <4>2. CASE x = r /\ t = s
        <5>0. <<x, t>> \notin named
          BY <1>6, <4>1, <4>2
        <5>1. h[x][t] = [obj[x][t] EXCEPT !.id = "real"]
          BY <4>2, <5>0
        <5> HIDE DEF h
        <5> QED
          BY <1>4, <1>5, <4>1, <4>2, <5>1 DEF Row
      <4>3. CASE ~(x = r /\ t = s) /\ <<x, t>> \in named
        <5>1. h[x][t] = [obj[x][t] EXCEPT !.rid = "real"]
          BY <4>3
        <5>2. x \in Ing /\ RecipeOf[x] = r
          BY <1>6, <4>3
        <5>3. x \in Reach(op[n])
          BY <1>4, <5>2, ScopeIs
        <5> HIDE DEF h
        <5> QED
          BY <1>5, <4>3, <5>1, <5>2, <5>3 DEF Row
      <4>4. CASE ~(x = r /\ t = s) /\ <<x, t>> \notin named
        <5>1. h[x][t] = obj[x][t]
          BY <4>4
        <5> HIDE DEF h
        <5> QED
          BY <1>6, <4>4, <5>1
      <4> QED
        BY <4>2, <4>3, <4>4
    <3> HIDE DEF h
    <3>2. Keep(h)
      BY <1>7, <2>1
    <3> QED
      <4>1. /\ Reply(n, "create") /\ Finish(n) /\ fetch' = fetch /\ r = op[n].e /\ s = op[n].o
            /\ \A x \in Entity : \A t \in Slot : x \notin Reach(op[n]) => h[x][t] = obj[x][t]
        BY <1>1, <1>7, <3>1
      <4> QED
        BY <3>1, <3>2, <4>1, CreateDone
  <2>2. CASE op[n].msg.tag # "ok"
    <3>1. Keep(obj)
      BY <1>7, <2>2
    <3> QED
      BY <1>1, <1>7, <2>2, <3>1, CreateDone
  <2> QED
    BY <2>1, <2>2
<1>8. CASE /\ op' = [op EXCEPT ![n].pc = "sent", ![n].tries = @ + 1,
                               ![n].msg = Request("create", r, obj[r][s])]
           /\ op[n].msg.tag = "refused" /\ Keep(obj) /\ drain' = drain
  <2>1. DOMAIN op = 1..MaxEdits /\ DOMAIN op[n] = {"kind", "e", "o", "pc", "msg", "tries"}
    BY <1>2 DEF OpInv, ClosureOK
  <2>2. /\ DOMAIN op' = 1..MaxEdits /\ \A m \in 1..MaxEdits : m # n => op'[m] = op[m]
        /\ op'[n].kind = op[n].kind /\ op'[n].e = op[n].e /\ op'[n].o = op[n].o /\ op'[n].pc = "sent"
    BY <1>8, <2>1
  <2>3. (\A m \in 1..MaxEdits : Ages(m)) /\ Sheds
    <3>1. \A m \in 1..MaxEdits : op'[m].e = op[m].e /\ op'[m].o = op[m].o
      BY <2>2
    <3> QED
      BY <1>3, <2>1, <2>2, <3>1 DEF Ages, Sheds, HeldBy
  <2>4. srv' = srv /\ loc' = loc /\ Shown({}, op[n].msg, obj)
    BY <1>8 DEF Keep, Shown
  <2>5. OrderInv'
    <3>1. turns \in Nat /\ \A m \in 1..MaxEdits : op'[m].pc = "repair" => op'[m].kind = "delete"
      BY <1>2, <2>2 DEF OrderInv
    <3>2. \A m \in 1..MaxEdits : op'[m].pc = "queued" => op[m].pc = "queued"
      BY <2>2
    <3> QED
      BY <1>2, <1>3, <1>8, <3>1, <3>2, OrderStays
  <2>6. MadeInv'
    <3>1. /\ \A e \in Entity : srv'[e] # 0 \/ loc'[e] # 0 => e \in made
          /\ \A e \in Entity : mem'[e] # Absent \/ disk'[e] # Absent => e \in made
          /\ \A k \in FetchSlots : \A part \in Part : \A e \in Entity :
                fetch'[k][part].pc = "answered" /\ fetch'[k][part].rows[e] # Absent => e \in made
      BY <1>1, <1>2, <1>3, <2>4 DEF MadeInv, storeVars
    <3>2. ASSUME NEW m \in 1..MaxEdits, NEW e \in Entity,
                 op'[m].pc = "answered", op'[m].msg.tag = "ok", op'[m].msg.rows[e] # Absent
          PROVE  e \in made
      <4>1. m # n /\ op'[m] = op[m]
        BY <2>2, <3>2
      <4> QED
        BY <1>2, <3>2, <4>1 DEF MadeInv
    <3> QED
      BY <1>2, <1>3, <2>3, <3>1, <3>2, MadeStays
  <2>7. FirstInv' /\ GhostInv'
    BY <1>2, <1>3, <2>3, FirstStays DEF GhostInv, storeVars
  <2>8. ASSUME NEW e \in Entity \ excused
        PROVE  CleanRow(e)'
    <3>1. CleanRow(e)
      BY DEF SInv
    <3>2. e \notin Reach(op[n])
      <4> SUFFICES ASSUME e \in Reach(op[n]) PROVE FALSE
        OBVIOUS
      <4>1. Of(op[n], r) /\ Makes(op[n], r)
        BY <1>3 DEF Of, Makes
      <4>2. r \in Entity \ excused
        BY <1>2, <1>4, <4>1, ReachExcused
      <4>3. op[n].msg.tag = "ok"
        BY <1>3, <4>1, <4>2 DEF SInv, CleanRow, NewInv
      <4> QED
        BY <1>8, <4>3
    <3>3. /\ Apart(e)' /\ Serial(e)' /\ NewInv(e)'
          /\ RowInv(obj, op', srv, loc, want, e) /\ WantInv(obj, op', want, mem', e)
      BY <1>1, <1>3, <1>8, <2>2, <2>3, <3>1, <3>2, Elsewhere DEF storeVars
    <3>4. \A k \in 1..MaxEdits : \A x : Of(op'[k], x) => Of(op[k], x) /\ op'[k].o = op[k].o
      <4>1. \A m \in 1..MaxEdits : op'[m].o = op[m].o
        BY <2>2
      <4> QED
        BY <2>3, <4>1, AgesIs
    <3> QED
      BY <1>2, <1>3, <2>3, <2>4, <3>3, <3>4, AlikeSame, ShownSettles
  <2> QED
    BY <1>3, <2>5, <2>6, <2>7, <2>8 DEF SInv
<1> QED
  BY <1>1, <1>7, <1>8

-----------------------------------------------------------------------------
\* A turn of the replay.

\* The queue's first is the oldest, and what follows it is in order.
LEMMA HeadOldest ==
    ASSUME QueueInv, OrderInv, queue # <<>>
    PROVE  /\ Head(queue) \in 1..MaxEdits
           /\ \A m \in 1..MaxEdits : op[m].pc = "queued" => Head(queue) <= m
           /\ \A i, j \in 1..Len(Tail(queue)) : i < j => Tail(queue)[i] < Tail(queue)[j]
           /\ \A m \in 1..MaxEdits : op[m].pc = "queued" /\ m # Head(queue)
                                     => \E i \in 1..Len(Tail(queue)) : Tail(queue)[i] = m
<1> DEFINE N == 1..MaxEdits
           z == Len(queue)
           n == Head(queue)
           t == Tail(queue)
<1>1. queue \in Seq(N) /\ queue # <<>>
  BY DEF QueueInv
<1> HIDE DEF N
<1>2. /\ z \in Nat /\ z >= 1 /\ n = queue[1] /\ \A i \in 1..z : queue[i] \in N
      /\ Len(t) = z - 1 /\ \A i \in 1..(z - 1) : t[i] = queue[i + 1]
  BY <1>1
<1>3. /\ \A i, j \in 1..z : i < j => queue[i] < queue[j]
      /\ \A m \in N : op[m].pc = "queued" => \E i \in 1..z : queue[i] = m
  BY DEF OrderInv, N
<1> HIDE DEF z, n, t
<1>4. n \in N /\ \A i \in 1..z : queue[i] \in Nat
  BY <1>2 DEF N
<1>5. ASSUME NEW m \in N, op[m].pc = "queued"
      PROVE  n <= m /\ (m # n => \E i \in 1..(z - 1) : t[i] = m)
  <2>1. PICK i \in 1..z : queue[i] = m
    BY <1>3, <1>5
  <2>2. CASE i = 1
    BY <1>2, <1>4, <2>1, <2>2
  <2>3. CASE i # 1
    <3>1. 1 \in 1..z /\ 1 < i /\ i - 1 \in 1..(z - 1) /\ (i - 1) + 1 = i
      BY <1>2, <2>1, <2>3
    <3>2. n < m
      BY <1>2, <1>3, <2>1, <3>1
    <3>3. t[i - 1] = m
      BY <1>2, <2>1, <3>1
    <3>4. n \in Nat /\ m \in Nat
      BY <1>2, <1>4, <2>1, <3>1
    <3>5. n <= m
      BY <3>2, <3>4
    <3> QED
      BY <3>1, <3>3, <3>5
  <2> QED
    BY <2>2, <2>3
<1>6. \A i, j \in 1..(z - 1) : i < j => t[i] < t[j]
  <2> SUFFICES ASSUME NEW i \in 1..(z - 1), NEW j \in 1..(z - 1), i < j PROVE t[i] < t[j]
    OBVIOUS
  <2>1. i + 1 \in 1..z /\ j + 1 \in 1..z /\ i + 1 < j + 1
    BY <1>2
  <2> QED
    BY <1>2, <1>3, <2>1
<1> QED
  BY <1>2, <1>4, <1>5, <1>6 DEF N, n, t

\* Closure n leaves the queue for the wire, or for good.
Pops(n, d) ==
    /\ queue # <<>> /\ n = Head(queue) /\ queue' = Tail(queue)
    /\ drain[d].pc = "loop"
    /\ UNCHANGED <<storeVars, fetch, replaying, turns, made, want, edits>>
    /\ Keep(obj)
    /\ excused' = excused \cup IF Overtaken(d) THEN Touches(n) ELSE {}
    /\ DOMAIN drain' = DOMAIN drain /\ \A x \in Turns : x # d => drain'[x] = drain[x]
    /\ \A m \in 1..MaxEdits : m # n => op'[m] = op[m]

\* What of row op[n] is sent, and what is not.
Carries(n) ==
    /\ op'[n].kind = op[n].kind /\ op'[n].e = op[n].e /\ op'[n].o = op[n].o /\ op'[n].pc = "sent"
    /\ op[n].kind \in {"patch", "toggle"} => op'[n].msg.mark = obj[op[n].e][op[n].o].mark
    /\ op[n].kind = "create" => op'[n].msg.rid = obj[op[n].e][op[n].o].rid /\ ~obj[op[n].e][op[n].o].gone

Drops(n) ==
    /\ op'[n] = NoOp
    /\ \/ op[n].kind = "create" /\ obj[op[n].e][op[n].o].gone
       \/ op[n].kind \in {"toggle", "rename"} /\ obj[op[n].e][op[n].o].gone
       \/ op[n].kind \in {"patch", "toggle", "rename"} /\ obj[op[n].e][op[n].o].id # "real"

LEMMA PopsIs ==
    ASSUME IInv, SInv, NEW d \in Turns, Replay(d), queue # <<>>
    PROVE  /\ Pops(Head(queue), d)
           /\ \/ Carries(Head(queue)) /\ drain'[d] = [pc |-> "await", n |-> Head(queue)]
              \/ Drops(Head(queue)) /\ drain' = drain
<1> DEFINE n == Head(queue)
           kind == op[n].kind
           ob == IF kind = "reset" THEN Blank ELSE obj[op[n].e][op[n].o]
           q == Request(kind, op[n].e, ob)
<1>1. OpInv /\ QueueInv /\ OrderInv
  BY DEF IInv, SInv
<1>2. n \in 1..MaxEdits /\ op[n].pc = "queued"
  BY <1>1, QueueHead
<1>3. /\ queue' = Tail(queue) /\ UNCHANGED <<replaying, fetch>> /\ Keep(obj)
      /\ excused' = excused \cup IF Overtaken(d) THEN Touches(n) ELSE {}
      /\ drain[d].pc = "loop" /\ UNCHANGED <<storeVars, turns, made, want, edits>>
  BY DEF Replay, boundVars
<1>4. \/ /\ Sends(kind, ob) /\ op' = [op EXCEPT ![n].pc = "sent", ![n].msg = q]
         /\ drain' = [drain EXCEPT ![d] = [pc |-> "await", n |-> n]]
      \/ ~Sends(kind, ob) /\ op' = [op EXCEPT ![n] = NoOp] /\ drain' = drain
  BY DEF Replay
<1> HIDE DEF n
<1>5. DOMAIN drain = Turns /\ DOMAIN op = 1..MaxEdits
  BY <1>1 DEF OrderInv, OpInv
<1>6. kind # "reset" => ob = obj[op[n].e][op[n].o]
  OBVIOUS
<1>7. CASE /\ Sends(kind, ob) /\ op' = [op EXCEPT ![n].pc = "sent", ![n].msg = q]
           /\ drain' = [drain EXCEPT ![d] = [pc |-> "await", n |-> n]]
  <2>1. /\ kind \in {"patch", "toggle"} => q.mark = ob.mark
        /\ kind = "create" => q.rid = ob.rid
    BY DEF Request
  <2>2. kind = "create" => ~ob.gone
    BY <1>7 DEF Sends
  <2> HIDE DEF q, ob
  <2>3. /\ \A m \in 1..MaxEdits : m # n => op'[m] = op[m]
        /\ op'[n].kind = op[n].kind /\ op'[n].e = op[n].e /\ op'[n].o = op[n].o
        /\ op'[n].pc = "sent" /\ op'[n].msg = q
    BY <1>1, <1>2, <1>7, OpSet
  <2>4. Carries(n)
    BY <1>6, <2>1, <2>2, <2>3 DEF Carries
  <2>5. DOMAIN drain' = DOMAIN drain /\ drain'[d] = [pc |-> "await", n |-> n] /\ \A x \in Turns : x # d => drain'[x] = drain[x]
    BY <1>5, <1>7
  <2> QED
    BY <1>3, <2>3, <2>4, <2>5 DEF Pops, n
<1>8. CASE ~Sends(kind, ob) /\ op' = [op EXCEPT ![n] = NoOp] /\ drain' = drain
  <2>1. op'[n] = NoOp /\ \A m \in 1..MaxEdits : m # n => op'[m] = op[m]
    BY <1>2, <1>5, <1>8
  <2>2. kind \in Kinds
    BY <1>1, <1>2, ClosureIs
  <2>3. \/ kind = "create" /\ ob.gone
        \/ kind \in {"toggle", "rename"} /\ ob.gone
        \/ kind \in {"patch", "toggle", "rename"} /\ ob.id # "real"
    <3> HIDE DEF ob
    <3> QED
      BY <1>8, <2>2 DEF Sends, Kinds
  <2>4. Drops(n)
    BY <1>6, <2>1, <2>3 DEF Drops
  <2> QED
    BY <1>3, <1>8, <2>1, <2>4 DEF Pops, n
<1> QED
  BY <1>4, <1>7, <1>8

\* A replayed closure of a clean row has the row to itself: all before it is
\* answered.
LEMMA PopsAlone ==
    ASSUME IInv, SInv, NEW d \in Turns, NEW n, Pops(n, d), NEW e \in Entity \ excused', e \in Reach(op[n])
    PROVE  /\ replaying /\ \A k \in 1..MaxEdits : ~(Active(op[k]) /\ e \in Reach(op[k]))
           /\ \A k \in 1..MaxEdits : op[k].pc = "queued" => n <= k
           /\ \A k \in 1..MaxEdits : k < n => ~Makes(op[k], e) /\ (e \in Ing => ~Makes(op[k], RecipeOf[e]))
<1>1. QueueInv /\ OrderInv /\ FirstInv /\ OpInv
  BY DEF IInv, SInv
<1>2. e \in Entity \ excused /\ CleanRow(e) /\ ~Overtaken(d)
  BY DEF Pops, SInv, Reach, Touches
<1>3. n \in 1..MaxEdits /\ op[n].pc = "queued" /\ \A k \in 1..MaxEdits : op[k].pc = "queued" => n <= k
  BY <1>1, HeadOldest, QueueHead DEF Pops
<1>4. replaying /\ \A x \in Turns : drain[x].pc # "await"
  BY <1>2 DEF Overtaken, Pops
<1>5. \A k \in 1..MaxEdits : ~(Active(op[k]) /\ e \in Reach(op[k]))
  <2> SUFFICES ASSUME NEW k \in 1..MaxEdits, Active(op[k]), e \in Reach(op[k]) PROVE FALSE
    OBVIOUS
  <2>1. \E x \in Turns : drain[x] = [pc |-> "await", n |-> k]
    BY <1>2, <1>3 DEF CleanRow, Serial
  <2> QED
    BY <1>4, <2>1
<1>6. ASSUME NEW k \in 1..MaxEdits, k < n, Makes(op[k], e) \/ (e \in Ing /\ Makes(op[k], RecipeOf[e]))
      PROVE  FALSE
  <2>1. e \in Reach(op[k]) /\ op[k].kind = "create" /\ op[k].pc # "none"
    BY <1>6, ReachIs DEF Makes, Of
  <2>2. op[k].pc # "queued"
    BY <1>3, <1>6
  <2>3. Active(op[k])
    BY <1>1, <2>1, <2>2, ClosureIs DEF OrderInv, Active
  <2> QED
    BY <1>5, <2>1, <2>3
<1> QED
  BY <1>3, <1>4, <1>5, <1>6

\* The request is built of what the row's object holds: a new row has its
\* recipe's id, and the mark is what was asked for last.
LEMMA CarriesSettles ==
    ASSUME IInv, SInv, OpInv', NEW d \in Turns, NEW n, Pops(n, d), Carries(n), drain'[d] = [pc |-> "await", n |-> n],
           NEW e \in Entity \ excused', e \in Reach(op[n])
    PROVE  CleanRow(e)'
<1>1. QueueInv /\ OrderInv /\ FirstInv /\ OpInv /\ GhostInv
  BY DEF IInv, SInv
<1>2. e \in Entity \ excused /\ CleanRow(e) /\ ~Overtaken(d)
  BY DEF Pops, SInv, Reach, Touches
<1>3. n \in 1..MaxEdits /\ op[n].pc = "queued"
  BY <1>1, QueueHead DEF Pops
<1>4. /\ replaying /\ \A k \in 1..MaxEdits : ~(Active(op[k]) /\ e \in Reach(op[k]))
      /\ \A k \in 1..MaxEdits : op[k].pc = "queued" => n <= k
      /\ \A k \in 1..MaxEdits : k < n => ~Makes(op[k], e) /\ (e \in Ing => ~Makes(op[k], RecipeOf[e]))
  BY PopsAlone
<1>5. /\ Apart(e) /\ Serial(e) /\ RowInv(obj, op, srv, loc, want, e) /\ NewInv(e) /\ WantInv(obj, op, want, mem, e)
  BY <1>2 DEF CleanRow
<1>6. /\ op'[n].kind = op[n].kind /\ op'[n].e = op[n].e /\ op'[n].o = op[n].o /\ op'[n].pc = "sent"
      /\ \A m \in 1..MaxEdits : m # n => op'[m] = op[m]
  BY DEF Carries, Pops
<1>7. \A x : /\ Of(op'[n], x) <=> Of(op[n], x)
             /\ Makes(op'[n], x) <=> Makes(op[n], x)
             /\ Writer(op'[n], x) <=> Writer(op[n], x)
  BY <1>3, <1>6 DEF Of, Makes, Writer, Unserved, Writes, Reach
<1>8. Reach(op'[n]) = Reach(op[n]) /\ Ages(n)
  BY <1>3, <1>6 DEF Reach, Ages
<1>9. UNCHANGED <<storeVars, fetch, replaying, want, srv, loc>> /\ Heap(obj)
  BY DEF Pops, Keep
<1>10. Apart(e)'
  <2>1. \A k \in 1..MaxEdits : Active(op'[k]) /\ e \in Reach(op'[k]) => k = n
    BY <1>4, <1>6
  <2> QED
    BY <2>1 DEF Apart
<1>11. Serial(e)'
  <2> SUFFICES ASSUME NEW j \in 1..MaxEdits, NEW k \in 1..MaxEdits,
                      op'[j].pc = "queued", Active(op'[k]), e \in Reach(op'[j]), e \in Reach(op'[k])
               PROVE  k < j /\ replaying' /\ \E x \in Turns : drain'[x] = [pc |-> "await", n |-> k]
    BY DEF Serial
  <2>1. k = n /\ j # n /\ op'[j] = op[j]
    BY <1>4, <1>6
  <2>2. n <= j /\ n # j
    BY <1>4, <2>1
  <2> QED
    BY <1>3, <1>4, <1>9, <2>1, <2>2
<1>12. op[n].kind = "create" /\ op[n].e = e => Makes(op[n], e) /\ want[e] # Absent /\ op[n].o \in Slot
  <2> SUFFICES ASSUME op[n].kind = "create", op[n].e = e
               PROVE  Makes(op[n], e) /\ want[e] # Absent /\ op[n].o \in Slot
    OBVIOUS
  <2>1. Makes(op[n], e) /\ Of(op[n], e)
    BY <1>3 DEF Makes, Of
  <2>2. ClosureRow(obj, op, srv, loc, want, e, n)
    BY <1>3, <1>5, <2>1 DEF RowInv
  <2>3. ~obj[e][op[n].o].gone
    BY DEF Carries
  <2>4. want[e] # Absent
    BY <1>3, <2>2, <2>3 DEF ClosureRow, Unserved
  <2> QED
    BY <1>1, <1>3, <2>1, <2>4, ClosureIs
<1>13. RowInv(obj', op', srv', loc', want', e)
  <2>1. \A k \in 1..MaxEdits : Of(op'[k], e) =>
               /\ Of(op[k], e) /\ op'[k].kind = op[k].kind /\ op'[k].o = op[k].o
               /\ \/ op'[k] = op[k]
                  \/ op'[k].pc \in {"answered", "repair"}
                  \/ op'[k].pc = "sent" /\ op[k].pc = "queued" /\ (op[k].kind = "create" => want[e] # Absent)
    <3> SUFFICES ASSUME NEW k \in 1..MaxEdits, Of(op'[k], e)
                 PROVE  /\ Of(op[k], e) /\ op'[k].kind = op[k].kind /\ op'[k].o = op[k].o
                        /\ \/ op'[k] = op[k]
                           \/ op'[k].pc \in {"answered", "repair"}
                           \/ op'[k].pc = "sent" /\ op[k].pc = "queued" /\ (op[k].kind = "create" => want[e] # Absent)
      OBVIOUS
    <3>1. CASE k = n
      BY <1>3, <1>6, <1>7, <1>12, <3>1 DEF Of
    <3>2. CASE k # n
      <4>1. op'[k] = op[k]
        BY <1>6, <3>2
      <4> QED
        BY <4>1
    <3> QED
      BY <3>1, <3>2
  <2>2. \A k \in 1..MaxEdits : Makes(op[k], e) => Makes(op'[k], e) /\ op'[k].o = op[k].o
    BY <1>6, <1>7
  <2>3. e \in Ing => (Underway(op', RecipeOf[e]) <=> Underway(op, RecipeOf[e]))
    BY <1>6, <1>7 DEF Underway
  <2>4. RowInv(obj, op', srv, loc, want, e)
    BY <1>5, <2>1, <2>2, <2>3, RowStays
  <2> QED
    BY <1>9, <2>4, RowHeap
<1>14. NewInv(e)'
  <2> SUFFICES ASSUME NEW k \in 1..MaxEdits, Makes(op'[k], e)
               PROVE  /\ Unserved(op'[k]) => Unseen(e)'
                      /\ op'[k].pc = "answered" => op'[k].msg.tag = "ok"
                      /\ op'[k].pc = "sent" /\ e \in Ing => op'[k].msg.rid = "real" /\ mem'[RecipeOf[e]] # Absent
    BY DEF NewInv
  <2>1. Makes(op[k], e) /\ (k # n => op'[k] = op[k])
    BY <1>6, <1>7
  <2>2. Unserved(op'[k]) => Unserved(op[k])
    BY <1>3, <2>1 DEF Unserved
  <2>3. Unserved(op[k]) => Unseen(e)
    BY <1>5, <2>1 DEF NewInv
  <2>4. Unseen(e) => Unseen(e)'
    BY <1>6, <1>9 DEF Unseen, storeVars
  <2>5. CASE k # n
    BY <1>5, <1>9, <2>1, <2>2, <2>3, <2>4, <2>5 DEF NewInv, storeVars
  <2>6. CASE k = n
    <3>1. ASSUME e \in Ing PROVE op'[n].msg.rid = "real" /\ mem[RecipeOf[e]] # Absent
      <4>1. op[n].kind = "create" /\ op[n].e = e
        BY <2>1, <2>6 DEF Makes, Of
      <4>2. ClosureRow(obj, op, srv, loc, want, e, n) /\ want[e] # Absent
        BY <1>3, <1>5, <1>12, <4>1 DEF RowInv, Makes
      <4>3. ~Underway(op, RecipeOf[e])
        <5> SUFFICES ASSUME NEW j \in 1..MaxEdits, Makes(op[j], RecipeOf[e]) PROVE FALSE
          BY DEF Underway
        <5>1. j < n
          BY <1>1, <1>3, <1>12, <3>1, <4>1 DEF FirstInv, Makes
        <5> QED
          BY <1>4, <3>1, <5>1
      <4>4. obj[e][op[n].o].rid = "real"
        BY <1>3, <3>1, <4>1, <4>2, <4>3 DEF ClosureRow
      <4>5. op'[n].msg.rid = "real"
        BY <4>1, <4>4 DEF Carries
      <4>6. WantInv(obj, op, want, mem, RecipeOf[e]) /\ want[RecipeOf[e]] # Absent
        <5>1. CleanRow(RecipeOf[e])
          BY <1>2, <3>1, RecipeClean
        <5> QED
          BY <1>5, <3>1, <4>2, <5>1 DEF CleanRow, WantInv
      <4>7. mem[RecipeOf[e]] # Absent
        BY <4>3, <4>6 DEF WantInv, Underway
      <4> QED
        BY <4>5, <4>7
    <3> QED
      BY <1>6, <1>9, <2>2, <2>3, <2>4, <2>6, <3>1 DEF storeVars
  <2> QED
    BY <2>5, <2>6
<1>15. WantInv(obj', op', want', mem', e)
  <2>1. \A k \in 1..MaxEdits : Writer(op'[k], e) <=> Writer(op[k], e)
    BY <1>6, <1>7
  <2>2. ASSUME NEW k \in 1..MaxEdits, Writer(op'[k], e)
        PROVE  /\ op'[k].kind = op[k].kind /\ op'[k].e = op[k].e
               /\ Asks(obj, op'[k], want, e) = Asks(obj, op[k], want, e)
    <3>1. CASE k # n
      <4>1. op'[k] = op[k]
        BY <1>6, <3>1
      <4> QED
        BY <4>1
    <3>2. CASE k = n
      <4>1. op[n].kind \in {"patch", "toggle"} => MarkOf(obj, op'[n]) = MarkOf(obj, op[n])
        BY <1>3, <1>6 DEF MarkOf, Carries
      <4>2. Asks(obj, op'[n], want, e) = Asks(obj, op[n], want, e)
        BY <1>6, <4>1 DEF Asks
      <4> QED
        BY <1>6, <3>2, <4>2
    <3> QED
      BY <3>1, <3>2
  <2>3. WantInv(obj, op', want', mem', e)
    BY <1>5, <1>9, <2>1, <2>2, WantLike DEF storeVars
  <2> QED
    BY <1>9, <2>3, WantHeap
<1> QED
  BY <1>10, <1>11, <1>13, <1>14, <1>15 DEF CleanRow

\* What is not sent had nothing more to say: the user has deleted the row since.
LEMMA DropsSettles ==
    ASSUME IInv, SInv, OpInv', NEW d \in Turns, NEW n, Pops(n, d), Drops(n), drain' = drain,
           NEW e \in Entity \ excused', e \in Reach(op[n])
    PROVE  CleanRow(e)'
<1>1. QueueInv /\ OrderInv /\ FirstInv /\ OpInv /\ GhostInv
  BY DEF IInv, SInv
<1>2. e \in Entity \ excused /\ CleanRow(e) /\ ~Overtaken(d)
  BY DEF Pops, SInv, Reach, Touches
<1>3. n \in 1..MaxEdits /\ op[n].pc = "queued"
  BY <1>1, QueueHead DEF Pops
<1>4. /\ Apart(e) /\ Serial(e) /\ RowInv(obj, op, srv, loc, want, e) /\ NewInv(e) /\ WantInv(obj, op, want, mem, e)
  BY <1>2 DEF CleanRow
<1>5. op'[n] = NoOp /\ \A m \in 1..MaxEdits : m # n => op'[m] = op[m]
  BY DEF Drops, Pops
<1>6. UNCHANGED <<storeVars, fetch, replaying, want, srv, loc>> /\ Heap(obj)
  BY DEF Pops, Keep
<1>7. \A k \in 1..MaxEdits : op'[k].pc # "none" => k # n /\ op'[k] = op[k]
  BY <1>5, NoOpIs
<1>8. op[n].kind # "reset" /\ op[n].kind # "delete" /\ Of(op[n], op[n].e) /\ op[n].e \in Entity
  <2>1. op[n].kind # "reset" /\ op[n].kind # "delete"
    BY DEF Drops
  <2>2. Of(op[n], op[n].e)
    BY <1>3, <2>1 DEF Of
  <2> QED
    BY <1>1, <1>3, <2>1, <2>2, ClosureIs
<1>9. want[op[n].e] = Absent
  <2> DEFINE x == op[n].e
  <2>1. x \in Entity \ excused' /\ x \in Entity \ excused
    <3>1. x \notin excused
      BY <1>1, <1>2, <1>8, ReachExcused
    <3> QED
      BY <1>2, <1>8, <3>1 DEF Pops
  <2>2. x \in Reach(op[n])
    BY <1>8, ReachIs
  <2>3. ClosureRow(obj, op, srv, loc, want, x, n)
    BY <1>3, <1>8, <2>1 DEF SInv, CleanRow, RowInv
  <2>4. \A k \in 1..MaxEdits : k < n => ~Makes(op[k], x)
    BY <2>1, <2>2, PopsAlone
  <2>5. CASE obj[x][op[n].o].gone
    BY <2>3, <2>5 DEF ClosureRow
  <2>6. CASE op[n].kind \in {"patch", "toggle", "rename"} /\ obj[x][op[n].o].id # "real"
    BY <1>3, <2>3, <2>4, <2>6 DEF ClosureRow
  <2> QED
    BY <2>5, <2>6 DEF Drops
<1>10. want[e] = Absent
  <2>1. e = op[n].e \/ (e \in Ing /\ RecipeOf[e] = op[n].e)
    BY <1>8, ScopeIs DEF Reach
  <2> QED
    BY <1>4, <1>9, <2>1 DEF WantInv
<1>11. Apart(e)' /\ Serial(e)'
  <2>1. \A k \in 1..MaxEdits : Active(op'[k]) => k # n /\ op'[k] = op[k]
    BY <1>7 DEF Active
  <2>2. \A k \in 1..MaxEdits : op'[k].pc = "queued" => k # n /\ op'[k] = op[k]
    BY <1>7
  <2> QED
    BY <1>4, <1>6, <2>1, <2>2, WayStays
<1>12. RowInv(obj', op', srv', loc', want', e)
  <2>1. ASSUME NEW k \in 1..MaxEdits, Of(op'[k], e)
        PROVE  ClosureRow(obj, op', srv, loc, want, e, k)
    <3>1. op'[k] = op[k] /\ Of(op[k], e)
      BY <1>7, <2>1 DEF Of
    <3>2. ClosureRow(obj, op, srv, loc, want, e, k)
      BY <1>4, <3>1 DEF RowInv
    <3> QED
      BY <1>10, <3>1, <3>2 DEF ClosureRow
  <2>2. ASSUME NEW s \in Slot, s \in {srv[e], loc[e]}
        PROVE  ListedRow(obj, op', e, s)
    <3>1. ListedRow(obj, op, e, s)
      BY <1>4, <2>2 DEF RowInv
    <3>2. ASSUME obj[e][s].id = "temp" PROVE \E k \in 1..MaxEdits : Makes(op'[k], e) /\ op'[k].o = s
      <4>1. PICK k \in 1..MaxEdits : Makes(op[k], e) /\ op[k].o = s
        BY <3>1, <3>2 DEF ListedRow
      <4>2. k # n
        BY <3>1, <4>1 DEF ListedRow, Drops, Makes, Of
      <4> QED
        BY <1>5, <4>1, <4>2
    <3> QED
      BY <3>1, <3>2 DEF ListedRow
  <2>3. RowInv(obj, op', srv, loc, want, e)
    BY <2>1, <2>2 DEF RowInv
  <2> QED
    BY <1>6, <2>3, RowHeap
<1>13. NewInv(e)'
  <2>1. \A k \in 1..MaxEdits : Makes(op'[k], e) => op'[k] = op[k]
    BY <1>7 DEF Makes, Of
  <2>2. \A k \in 1..MaxEdits : op'[k].pc = "answered" => op'[k] = op[k]
    BY <1>7
  <2> QED
    BY <1>2, <1>4, <1>6, <2>1, <2>2, NewStays DEF storeVars
<1>14. WantInv(obj', op', want', mem', e)
  <2>1. \A k \in 1..MaxEdits : Removes(op[k], e) => op'[k] = op[k]
    BY <1>5, <1>8 DEF Removes
  <2>2. \A k \in 1..MaxEdits : Removes(op[k], e) => Writer(op'[k], e) /\ Removes(op'[k], e)
    BY <2>1 DEF Removes
  <2>3. mem[e] # Absent => \E k \in 1..MaxEdits : Removes(op'[k], e)
    BY <1>4, <1>10, <2>2 DEF WantInv
  <2>4. WantInv(obj, op', want, mem, e)
    BY <1>10, <2>3 DEF WantInv, Removes
  <2> QED
    BY <1>2, <1>6, <2>4, WantHeap DEF storeVars
<1> QED
  BY <1>11, <1>12, <1>13, <1>14 DEF CleanRow

LEMMA PopSettles ==
    ASSUME IInv, IInv', SInv, NEW d \in Turns, Replay(d), queue # <<>>
    PROVE  SInv'
<1> DEFINE n == Head(queue)
<1>1. QueueInv /\ OrderInv /\ MadeInv /\ FirstInv /\ GhostInv /\ OpInv /\ OpInv' /\ PageInv
  BY DEF IInv, SInv
<1>2. /\ Pops(n, d)
      /\ \/ Carries(n) /\ drain'[d] = [pc |-> "await", n |-> n]
         \/ Drops(n) /\ drain' = drain
  BY PopsIs
<1>3. n \in 1..MaxEdits /\ op[n].pc = "queued"
  BY <1>1, <1>2, QueueHead DEF Pops
<1>4. /\ \A m \in 1..MaxEdits : op[m].pc = "queued" => n <= m
      /\ \A i, j \in 1..Len(Tail(queue)) : i < j => Tail(queue)[i] < Tail(queue)[j]
      /\ \A m \in 1..MaxEdits : op[m].pc = "queued" /\ m # n => \E i \in 1..Len(Tail(queue)) : Tail(queue)[i] = m
  BY <1>1, <1>2, HeadOldest DEF Pops
<1> HIDE DEF n
<1>5. /\ \A m \in 1..MaxEdits : m # n => op'[m] = op[m]
      /\ op'[n] = NoOp \/ (op'[n].kind = op[n].kind /\ op'[n].e = op[n].e /\ op'[n].o = op[n].o /\ op'[n].pc = "sent")
  BY <1>2 DEF Pops, Carries, Drops
<1>6. op'[n].pc \notin {"queued", "answered", "repair"}
  BY <1>5, NoOpIs
<1>7. \A m \in 1..MaxEdits : Ages(m)
  BY <1>3, <1>5 DEF Ages
<1>8. /\ UNCHANGED <<storeVars, fetch, replaying, turns, made, want, srv, loc>> /\ Heap(obj) /\ Keep(obj)
      /\ queue' = Tail(queue) /\ DOMAIN drain' = DOMAIN drain /\ drain[d].pc = "loop"
      /\ \A x \in Turns : x # d => drain'[x] = drain[x]
      /\ excused' = excused \cup IF Overtaken(d) THEN Touches(n) ELSE {}
  BY <1>2 DEF Pops, Keep
<1>9. OrderInv'
  <2>1. \A m \in 1..MaxEdits : op'[m].pc = "queued" => op[m].pc = "queued" /\ m # n
    BY <1>5, <1>6
  <2>2. \A m \in 1..MaxEdits : op'[m].pc = "repair" => op'[m].kind = "delete"
    BY <1>1, <1>5, <1>6 DEF OrderInv
  <2>3. d <= turns
    BY <1>1, <1>8 DEF OrderInv, NoDrain, Turns
  <2>4. \A x \in Turns : x > turns => drain'[x] = NoDrain
    <3> SUFFICES ASSUME NEW x \in Turns, x > turns PROVE drain'[x] = NoDrain
      OBVIOUS
    <3>1. x # d
      BY <1>1, <2>3 DEF OrderInv, Turns
    <3> QED
      BY <1>1, <1>8, <3>1 DEF OrderInv
  <2> QED
    BY <1>1, <1>4, <1>8, <2>1, <2>2, <2>4 DEF OrderInv
<1>10. MadeInv'
  <2>1. /\ \A e \in Entity : srv'[e] # 0 \/ loc'[e] # 0 => e \in made
        /\ \A e \in Entity : mem'[e] # Absent \/ disk'[e] # Absent => e \in made
        /\ \A k \in FetchSlots : \A part \in Part : \A e \in Entity :
              fetch'[k][part].pc = "answered" /\ fetch'[k][part].rows[e] # Absent => e \in made
    BY <1>1, <1>8 DEF MadeInv, storeVars
  <2>2. ASSUME NEW m \in 1..MaxEdits, NEW e \in Entity,
               op'[m].pc = "answered", op'[m].msg.tag = "ok", op'[m].msg.rows[e] # Absent
        PROVE  e \in made
    <3>1. op'[m] = op[m]
      BY <1>5, <1>6, <2>2
    <3> QED
      BY <1>1, <2>2, <3>1 DEF MadeInv
  <2> QED
    BY <1>1, <1>7, <1>8, <2>1, <2>2, MadeStays
<1>11. FirstInv'
  BY <1>1, <1>7, FirstStays
<1>12. GhostInv'
  <2> DEFINE S == IF Overtaken(d) THEN Touches(n) ELSE {}
  <2>1. \A g \in Ing : RecipeOf[g] \in S => g \in S
    BY ReachOwns DEF Reach, Touches
  <2>2. excused' = excused \cup S
    BY <1>8
  <2> HIDE DEF S
  <2>3. \A x \in dirty' : x \in dirty \/ x \in S
    BY <1>8 DEF storeVars
  <2> QED
    BY <1>1, <2>1, <2>2, <2>3, GhostGrows
<1>13. ASSUME NEW e \in Entity \ excused'
       PROVE  CleanRow(e)'
  <2>1. CleanRow(e) /\ e \in Entity
    BY <1>8 DEF SInv
  <2>2. CASE e \in Reach(op[n])
    BY <1>1, <1>2, <2>2, CarriesSettles, DropsSettles
  <2>3. CASE e \notin Reach(op[n])
    <3>1. \A x \in Turns : \A k \in 1..MaxEdits :
               k # n /\ drain[x] = [pc |-> "await", n |-> k] => drain'[x] = [pc |-> "await", n |-> k]
      BY <1>8
    <3>2. /\ Apart(e)' /\ Serial(e)' /\ NewInv(e)'
          /\ RowInv(obj, op', srv, loc, want, e) /\ WantInv(obj, op', want, mem', e)
      BY <1>3, <1>5, <1>6, <1>7, <1>8, <2>1, <2>3, <3>1, Elsewhere DEF storeVars
    <3>3. RowInv(obj', op', srv', loc', want', e)
      BY <1>1, <1>8, <2>1, <3>2, RowHeap
    <3>4. WantInv(obj', op', want', mem', e)
      BY <1>1, <1>8, <2>1, <3>2, WantHeap
    <3> QED
      BY <3>2, <3>3, <3>4 DEF CleanRow
  <2> QED
    BY <2>2, <2>3
<1> QED
  BY <1>9, <1>10, <1>11, <1>12, <1>13 DEF SInv

\* A replay that finds the queue empty ends every replay; nothing waits then.
LEMMA ReplaySettles ==
    ASSUME IInv, IInv', SInv, NEW d \in Turns, Replay(d)
    PROVE  SInv'
<1>1. CASE queue # <<>>
  BY <1>1, PopSettles
<1>2. CASE queue = <<>>
  <2>1. OrderInv /\ MadeInv /\ FirstInv /\ GhostInv /\ FetchInv
    BY DEF IInv, SInv
  <2>2. /\ drain[d].pc = "loop" /\ drain' = [drain EXCEPT ![d].pc = "refresh"]
        /\ fetch' = [fetch EXCEPT ![d] = FullFetch]
        /\ UNCHANGED <<storeVars, queue, op, obj, srv, loc, excused, turns, made, want>>
    BY <1>2 DEF Replay, boundVars
  <2>3. \A m \in 1..MaxEdits : op[m].pc # "queued"
    BY <1>2, <2>1 DEF OrderInv
  <2>4. \A k \in FetchSlots : \A part \in Part : fetch'[k][part].pc = "answered" => fetch'[k][part] = fetch[k][part]
    BY <2>1, <2>2 DEF FetchInv, FullFetch, SentGet
  <2>5. \A m \in 1..MaxEdits : Ages(m)
    BY <2>2 DEF Ages
  <2>6. OrderInv'
    <3>1. DOMAIN drain' = DOMAIN drain /\ \A x \in Turns : drain[x] = NoDrain => drain'[x] = NoDrain
      BY <2>1, <2>2 DEF OrderInv, NoDrain
    <3>2. turns \in Nat /\ \A m \in 1..MaxEdits : op'[m].pc = "repair" => op'[m].kind = "delete"
      BY <2>1, <2>2 DEF OrderInv
    <3> QED
      BY <2>1, <2>2, <3>1, <3>2, OrderStays
  <2>7. MadeInv' /\ FirstInv' /\ GhostInv'
    <3>1. /\ \A e \in Entity : srv'[e] # 0 \/ loc'[e] # 0 => e \in made
          /\ \A e \in Entity : mem'[e] # Absent \/ disk'[e] # Absent => e \in made
          /\ \A n \in 1..MaxEdits : \A e \in Entity :
                op'[n].pc = "answered" /\ op'[n].msg.tag = "ok" /\ op'[n].msg.rows[e] # Absent => e \in made
      BY <2>1, <2>2 DEF MadeInv, storeVars
    <3>2. \A k \in FetchSlots : \A part \in Part : \A e \in Entity :
              fetch'[k][part].pc = "answered" /\ fetch'[k][part].rows[e] # Absent => e \in made
      BY <2>1, <2>4 DEF MadeInv
    <3>3. MadeInv'
      BY <2>1, <2>2, <2>5, <3>1, <3>2, MadeStays
    <3> QED
      BY <2>1, <2>2, <2>5, <3>3, FirstStays DEF GhostInv, storeVars
  <2>8. ASSUME NEW e \in Entity \ excused
        PROVE  CleanRow(e)'
    <3>1. CleanRow(e) /\ e \in Entity
      BY DEF SInv
    <3>2. Apart(e)' /\ Serial(e)'
      BY <2>2, <2>3, <3>1 DEF CleanRow, Apart, Serial
    <3>3. RowInv(obj', op', srv', loc', want', e) /\ WantInv(obj', op', want', mem', e)
      BY <2>2, <3>1 DEF CleanRow, storeVars
    <3>4. NewInv(e)'
      <4>1. NewInv(e) /\ mem' = mem /\ op' = op
        BY <2>2, <3>1 DEF CleanRow, storeVars
      <4> QED
        BY <2>4, <3>1, <4>1, NewStays
    <3> QED
      BY <3>2, <3>3, <3>4 DEF CleanRow
  <2> QED
    BY <2>2, <2>6, <2>7, <2>8 DEF SInv
<1> QED
  BY <1>1, <1>2

-----------------------------------------------------------------------------
\* The user's edits: a new closure, younger than all others, or none.

Adds(n, kind, e, s, h) ==
    /\ op[n] = NoOp /\ \A k \in 1..MaxEdits : op[k].pc # "none" => k < n
    /\ \A k \in 1..MaxEdits : k # n => op'[k] = op[k]
    /\ op'[n] # NoOp => op'[n].kind = kind /\ op'[n].e = e /\ op'[n].o = s /\ op'[n].pc \in {"queued", "sent"}
    /\ op'[n].pc = "queued" => ~online /\ queue' = Append(queue, n)
    /\ op'[n].pc # "queued" => queue' = queue
    /\ op'[n].pc = "sent" =>
          /\ online
          /\ kind \in {"patch", "toggle"} => op'[n].msg.mark = h[e][s].mark
          /\ kind = "create" => op'[n].msg.rid = h[e][s].rid

LEMMA NextEdit ==
    ASSUME OpInv, edits < MaxEdits, NEW n, n = edits + 1
    PROVE  n \in 1..MaxEdits /\ op[n] = NoOp /\ \A k \in 1..MaxEdits : op[k].pc # "none" => k < n
<1>1. edits \in Nat /\ MaxEdits \in Nat
  BY SlotFacts DEF OpInv
<1>2. n \in 1..MaxEdits /\ ~(n <= edits)
  BY <1>1
<1>3. op[n] = NoOp
  BY <1>2 DEF OpInv, ClosureOK
<1>4. \A k \in 1..MaxEdits : op[k].pc # "none" => k <= edits
  BY ClosureIs
<1>5. \A k \in 1..MaxEdits : k <= edits => k < n
  BY <1>1
<1> QED
  BY <1>2, <1>3, <1>4, <1>5

LEMMA IssueAdds ==
    ASSUME OpInv, edits < MaxEdits, NEW n, n = edits + 1, NEW kind \in Kinds, NEW e, NEW s, NEW h, Issue(kind, e, s, h)
    PROVE  /\ Adds(n, kind, e, s, h)
           /\ op'[n] = NoOp => /\ online
                               /\ kind \in {"create", "patch", "toggle", "rename"}
                               /\ ~Sends(kind, h[e][s])
<1> DEFINE ob == IF kind = "reset" THEN Blank ELSE h[e][s]
           closure == [kind |-> kind, e |-> e, o |-> s, pc |-> "queued", msg |-> NoMsg, tries |-> 1]
           sent == [closure EXCEPT !.pc = "sent", !.msg = Request(kind, e, ob)]
           q == Request(kind, e, ob)
<1>1. n \in 1..MaxEdits /\ op[n] = NoOp /\ \A k \in 1..MaxEdits : op[k].pc # "none" => k < n
  BY NextEdit
<1>2. /\ op' = [op EXCEPT ![n] = CASE ~online -> closure
                                   [] online /\ Sends(kind, ob) -> sent
                                   [] OTHER -> NoOp]
      /\ queue' = IF online THEN queue ELSE Append(queue, n)
  BY DEF Issue
<1>3. /\ closure.kind = kind /\ closure.e = e /\ closure.o = s /\ closure.pc = "queued"
      /\ sent.kind = kind /\ sent.e = e /\ sent.o = s /\ sent.pc = "sent" /\ sent.msg = q
  OBVIOUS
<1>4. /\ kind \in {"patch", "toggle"} => q.mark = h[e][s].mark
      /\ kind = "create" => q.rid = h[e][s].rid
  BY DEF Request
<1>5. ~Sends(kind, ob) => kind \in {"create", "patch", "toggle", "rename"} /\ ~Sends(kind, h[e][s])
  <2>1. kind # "reset" => ob = h[e][s]
    OBVIOUS
  <2> HIDE DEF ob
  <2> QED
    BY <2>1 DEF Sends, Kinds
<1> HIDE DEF ob, closure, sent, q
<1>6. DOMAIN op = 1..MaxEdits
  BY DEF OpInv
<1>7. \A k \in 1..MaxEdits : k # n => op'[k] = op[k]
  BY <1>2, <1>6
<1>8. CASE ~online
  <2>1. op'[n] = closure
    BY <1>1, <1>2, <1>6, <1>8
  <2>2. closure # NoOp
    BY <1>3, NoOpIs
  <2> QED
    BY <1>1, <1>2, <1>3, <1>7, <1>8, <2>1, <2>2 DEF Adds
<1>9. CASE online /\ Sends(kind, ob)
  <2>1. op'[n] = sent
    BY <1>1, <1>2, <1>6, <1>9
  <2>2. sent # NoOp
    BY <1>3, NoOpIs
  <2> QED
    BY <1>1, <1>2, <1>3, <1>4, <1>7, <1>9, <2>1, <2>2 DEF Adds
<1>10. CASE online /\ ~Sends(kind, ob)
  <2>1. op'[n] = NoOp
    BY <1>1, <1>2, <1>6, <1>10
  <2> QED
    BY <1>1, <1>2, <1>5, <1>7, <1>10, <2>1, NoOpIs DEF Adds
<1> QED
  BY <1>8, <1>9, <1>10

LEMMA AddsIs ==
    ASSUME NEW n \in 1..MaxEdits, NEW kind, NEW e, NEW s, NEW h, Adds(n, kind, e, s, h)
    PROVE  /\ \A x : Of(op'[n], x) => kind # "reset" /\ x = e
           /\ \A x : Makes(op'[n], x) => kind = "create" /\ x = e
           /\ \A x : op'[n].pc # "none" /\ x \in Reach(op'[n]) => x \in Scope(kind, e)
           /\ \A x : Writer(op'[n], x) => x \in Scope(kind, e)
           /\ \A x : Removes(op'[n], x) => kind = "delete"
           /\ \A x : ~Of(op[n], x) /\ ~Makes(op[n], x) /\ ~Writer(op[n], x) /\ ~Removes(op[n], x)
           /\ op'[n].pc \in {"none", "queued", "sent"} /\ op[n].pc = "none"
           /\ op'[n] # NoOp => Unserved(op'[n]) /\ op'[n].kind = kind /\ Reach(op'[n]) = Scope(kind, e)
           /\ \A k \in 1..MaxEdits : k # n => op'[k] = op[k]
           /\ op'[n].pc = "queued" => ~online
           /\ op'[n].pc = "sent" => online
<1>0. /\ \A k \in 1..MaxEdits : k # n => op'[k] = op[k]
      /\ op'[n].pc = "queued" => ~online
      /\ op'[n].pc = "sent" => online
  BY DEF Adds
<1>1. CASE op'[n] = NoOp
  BY <1>1, NoOpIs DEF Adds
<1>2. CASE op'[n] # NoOp
  <2>1. op'[n].kind = kind /\ op'[n].e = e /\ op'[n].o = s /\ op'[n].pc \in {"queued", "sent"} /\ op[n] = NoOp
    BY <1>2 DEF Adds
  <2>2. Reach(op'[n]) = Scope(kind, e)
    BY <2>1 DEF Reach
  <2>3. \A x : Writer(op'[n], x) => x \in Scope(kind, e)
    BY <2>2, ReachIs
  <2>4. /\ \A x : Of(op'[n], x) => kind # "reset" /\ x = e
        /\ \A x : Makes(op'[n], x) => kind = "create" /\ x = e
        /\ \A x : Removes(op'[n], x) => kind = "delete"
    BY <2>1 DEF Of, Makes, Removes
  <2>5. /\ \A x : ~Of(op[n], x) /\ ~Makes(op[n], x) /\ ~Writer(op[n], x) /\ ~Removes(op[n], x)
        /\ op[n].pc = "none"
    BY <2>1, NoOpIs
  <2>6. Unserved(op'[n])
    BY <2>1 DEF Unserved
  <2> QED
    BY <1>0, <2>1, <2>2, <2>3, <2>4, <2>5, <2>6
<1> QED
  BY <1>0, <1>1, <1>2

\* Nothing about row x is on its way, and what is queued will wait.
Calm(x) ==
    \A k \in 1..MaxEdits : op[k].pc # "none" /\ x \in Reach(op[k]) =>
        op[k].pc = "repair" \/ (op[k].pc = "queued" /\ ~online)

LEMMA RacedIs ==
    ASSUME OpInv, NEW kind, NEW e, NEW x \in Scope(kind, e), x \notin Raced(kind, e)
    PROVE  /\ Calm(x)
           /\ kind \notin {"reset", "create"} /\ e \in made => want[e] # Absent
           /\ e \in Ing /\ RecipeOf[e] \in made => want[RecipeOf[e]] # Absent
<1> DEFINE T == Scope(kind, e)
           back(y) == y \in made /\ want[y] = Absent
           gone == \/ kind \notin {"reset", "create"} /\ back(e)
                   \/ e \in Ing /\ back(RecipeOf[e])
           waiting == {m \in DOMAIN op : Pending(m)}
<1>1. Raced(kind, e) = (UNION {T \cap Touches(m) : m \in waiting}) \cup IF gone THEN T ELSE {}
  BY DEF Raced
<1>2. DOMAIN op = 1..MaxEdits
  BY DEF OpInv
<1>3. ~gone
  BY <1>1
<1>4. \A k \in 1..MaxEdits : Pending(k) => x \notin Touches(k)
  <2> SUFFICES ASSUME NEW k \in 1..MaxEdits, Pending(k), x \in Touches(k) PROVE FALSE
    OBVIOUS
  <2>1. k \in waiting
    BY <1>2
  <2> HIDE DEF waiting, gone, T
  <2>2. x \in T \cap Touches(k)
    BY DEF T
  <2> QED
    BY <1>1, <2>1, <2>2
<1>5. Calm(x)
  <2> SUFFICES ASSUME NEW k \in 1..MaxEdits, op[k].pc # "none", x \in Reach(op[k])
               PROVE  op[k].pc = "repair" \/ (op[k].pc = "queued" /\ ~online)
    BY DEF Calm
  <2>1. ~Pending(k)
    BY <1>4 DEF Touches, Reach
  <2> QED
    BY <2>1, ClosureIs DEF Pending, Running
<1> QED
  BY <1>3, <1>5

LEMMA RacedOwns ==
    ASSUME NEW kind, NEW e, NEW g \in Ing, RecipeOf[g] \in Raced(kind, e)
    PROVE  g \in Raced(kind, e)
<1> DEFINE T == Scope(kind, e)
           back(y) == y \in made /\ want[y] = Absent
           gone == \/ kind \notin {"reset", "create"} /\ back(e)
                   \/ e \in Ing /\ back(RecipeOf[e])
           waiting == {m \in DOMAIN op : Pending(m)}
<1>1. Raced(kind, e) = (UNION {T \cap Touches(m) : m \in waiting}) \cup IF gone THEN T ELSE {}
  BY DEF Raced
<1>2. \A k : RecipeOf[g] \in Touches(k) => g \in Touches(k)
  BY ReachOwns DEF Touches, Reach
<1>3. RecipeOf[g] \in T => g \in T
  BY ScopeIs, MarksAre
<1> HIDE DEF T, gone, waiting
<1>4. CASE gone /\ RecipeOf[g] \in T
  BY <1>1, <1>3, <1>4
<1>5. CASE \E m \in waiting : RecipeOf[g] \in T \cap Touches(m)
  <2>1. PICK m \in waiting : RecipeOf[g] \in T \cap Touches(m)
    BY <1>5
  <2>2. g \in T \cap Touches(m)
    BY <1>2, <1>3, <2>1
  <2> QED
    BY <1>1, <2>1, <2>2
<1> QED
  BY <1>1, <1>4, <1>5

\* An edit is made of a row that is there, or makes one that never was.
Suits(kind, e) ==
    /\ kind \in Kinds
    /\ kind \notin {"create", "reset"} => e \in Entity /\ e \in made
    /\ kind # "create" => made' = made
    /\ kind = "create" => /\ e \in Entity /\ e \notin made /\ made' = made \cup {e}
                          /\ e \in Ing => RecipeOf[e] \in made

LEMMA EditBooks ==
    ASSUME OpInv, QueueInv, OrderInv, MadeInv, FirstInv,
           NEW n \in 1..MaxEdits, NEW kind, NEW e, NEW s, NEW h, Adds(n, kind, e, s, h), Suits(kind, e),
           UNCHANGED <<storeVars, drain, turns, fetch>>,
           DOMAIN want' = Entity, \A x \in Entity : want'[x] # Absent => x \in made',
           \A x \in Entity : srv'[x] # 0 \/ loc'[x] # 0 => x \in made'
    PROVE  OrderInv' /\ MadeInv' /\ FirstInv'
<1>1. /\ op[n] = NoOp /\ \A k \in 1..MaxEdits : op[k].pc # "none" => k < n
      /\ \A k \in 1..MaxEdits : k # n => op'[k] = op[k]
  BY DEF Adds
<1>2. /\ \A x : Of(op'[n], x) => kind # "reset" /\ x = e
      /\ \A x : Makes(op'[n], x) => kind = "create" /\ x = e
      /\ op'[n].pc \in {"none", "queued", "sent"}
  BY AddsIs
<1>3. made \subseteq made' /\ \A x \in Entity : Of(op'[n], x) => x \in made'
  BY <1>2 DEF Suits, Kinds
<1>4. OrderInv'
  <2> DEFINE N == 1..MaxEdits
             z == Len(queue)
  <2>1. queue \in Seq(N)
    BY DEF QueueInv
  <2>2. /\ \A i, j \in 1..z : i < j => queue[i] < queue[j]
        /\ \A m \in N : op[m].pc = "queued" => \E i \in 1..z : queue[i] = m
        /\ \A i \in 1..z : op[queue[i]].pc = "queued"
    BY DEF OrderInv, QueueInv
  <2> HIDE DEF N
  <2>3. z \in Nat /\ \A i \in 1..z : queue[i] \in N
    BY <2>1
  <2>4. \A i \in 1..z : queue[i] < n
    BY <1>1, <2>2, <2>3 DEF N
  <2>5. CASE op'[n].pc = "queued"
    <3>1. queue' = Append(queue, n)
      BY <2>5 DEF Adds
    <3>2. n \in N
      BY DEF N
    <3>3. Len(queue') = z + 1 /\ queue'[z + 1] = n /\ \A i \in 1..z : queue'[i] = queue[i]
      BY <2>1, <3>1, <3>2
    <3> HIDE DEF z
    <3>4. \A i, j \in 1..(z + 1) : i < j => queue'[i] < queue'[j]
      <4> SUFFICES ASSUME NEW i \in 1..(z + 1), NEW j \in 1..(z + 1), i < j PROVE queue'[i] < queue'[j]
        OBVIOUS
      <4>1. i \in 1..z /\ (j \in 1..z \/ j = z + 1)
        BY <2>3
      <4> QED
        BY <2>2, <2>4, <3>3, <4>1
    <3>5. \A m \in N : op'[m].pc = "queued" => \E i \in 1..(z + 1) : queue'[i] = m
      <4> SUFFICES ASSUME NEW m \in N, op'[m].pc = "queued" PROVE \E i \in 1..(z + 1) : queue'[i] = m
        OBVIOUS
      <4>1. CASE m = n
        <5>1. z + 1 \in 1..(z + 1)
          BY <2>3
        <5> QED
          BY <3>3, <4>1, <5>1
      <4>2. CASE m # n
        <5>1. PICK i \in 1..z : queue[i] = m
          BY <1>1, <2>2, <4>2 DEF N
        <5>2. i \in 1..(z + 1)
          BY <2>3, <5>1
        <5> QED
          BY <3>3, <5>1, <5>2
      <4> QED
        BY <4>1, <4>2
    <3>6. \A m \in 1..MaxEdits : op'[m].pc = "repair" => op'[m].kind = "delete"
      BY <1>1, <2>5 DEF OrderInv
    <3> QED
      BY <3>3, <3>4, <3>5, <3>6 DEF OrderInv, N
  <2>6. CASE op'[n].pc # "queued"
    <3>1. queue' = queue
      BY <2>6 DEF Adds
    <3>2. \A m \in 1..MaxEdits : op'[m].pc = "queued" => op[m].pc = "queued"
      BY <1>1, <2>6
    <3>3. \A m \in 1..MaxEdits : op'[m].pc = "repair" => op'[m].kind = "delete"
      BY <1>1, <1>2 DEF OrderInv
    <3> QED
      BY <3>1, <3>2, <3>3, OrderStays DEF OrderInv
  <2> QED
    BY <2>5, <2>6
<1>5. MadeInv'
  <2>1. \A m \in 1..MaxEdits : \A x \in Entity : Of(op'[m], x) => x \in made'
    BY <1>1, <1>3 DEF MadeInv
  <2>2. \A m \in 1..MaxEdits : \A x \in Entity :
            op'[m].pc = "answered" /\ op'[m].msg.tag = "ok" /\ op'[m].msg.rows[x] # Absent => x \in made'
    BY <1>1, <1>2, <1>3 DEF MadeInv
  <2>3. \A g \in Ing : g \in made' => RecipeOf[g] \in made'
    BY DEF MadeInv, Suits
  <2>4. /\ \A x \in Entity : mem'[x] # Absent \/ disk'[x] # Absent \/ want'[x] # Absent => x \in made'
        /\ \A k \in FetchSlots : \A part \in Part : \A x \in Entity :
              fetch'[k][part].pc = "answered" /\ fetch'[k][part].rows[x] # Absent => x \in made'
    BY <1>3 DEF MadeInv, storeVars
  <2> QED
    BY <2>1, <2>2, <2>3, <2>4 DEF MadeInv
<1>6. FirstInv'
  <2> SUFFICES ASSUME NEW k \in 1..MaxEdits, NEW m \in 1..MaxEdits, NEW x \in Entity
               PROVE  /\ Makes(op'[k], x) /\ Of(op'[m], x) => k <= m
                      /\ x \in Ing /\ Makes(op'[k], RecipeOf[x]) /\ Of(op'[m], x) => k < m
    BY DEF FirstInv
  <2>1. CASE k # n /\ m # n
    <3>1. op'[k] = op[k] /\ op'[m] = op[m]
      BY <1>1, <2>1
    <3> QED
      BY <3>1 DEF FirstInv
  <2>2. CASE m = n
    <3>1. op'[k].pc # "none" => k <= m
      BY <1>1, <2>2
    <3>2. ASSUME x \in Ing, Makes(op'[k], RecipeOf[x]), Of(op'[m], x) PROVE k < m
      <4>1. k # n
        BY <1>2, <2>2, <3>2, MarksAre
      <4> QED
        BY <1>1, <2>2, <3>2, <4>1 DEF Makes, Of
    <3> QED
      BY <3>1, <3>2 DEF Makes, Of
  <2>3. CASE k = n /\ m # n
    <3>1. op'[m] = op[m]
      BY <1>1, <2>3
    <3>2. Of(op[m], x) => x \in made /\ (x \in Ing => RecipeOf[x] \in made)
      BY DEF MadeInv
    <3> QED
      BY <1>2, <2>3, <3>1, <3>2 DEF Suits
  <2> QED
    BY <2>1, <2>2, <2>3
<1> QED
  BY <1>4, <1>5, <1>6

LEMMA EditWay ==
    ASSUME NEW x, Apart(x), Serial(x), NEW n \in 1..MaxEdits, NEW kind, NEW e, NEW s, NEW h, Adds(n, kind, e, s, h),
           x \in Scope(kind, e) => Calm(x), UNCHANGED <<replaying, drain>>
    PROVE  Apart(x)' /\ Serial(x)'
<1>1. \A k \in 1..MaxEdits : k # n => op'[k] = op[k]
  BY DEF Adds
<1>2. /\ op'[n].pc # "none" /\ x \in Reach(op'[n]) => x \in Scope(kind, e)
      /\ op'[n].pc = "queued" => ~online
      /\ op'[n].pc = "sent" => online
      /\ op'[n].pc \in {"none", "queued", "sent"}
  BY AddsIs
<1>3. CASE op'[n].pc # "none" /\ x \in Reach(op'[n])
  <2>1. \A k \in 1..MaxEdits : k # n /\ x \in Reach(op'[k]) => ~Active(op'[k]) /\ (op'[n].pc = "sent" => op'[k].pc # "queued")
    BY <1>1, <1>2, <1>3 DEF Calm, Active
  <2>2. Apart(x)'
    BY <2>1 DEF Apart
  <2>3. Serial(x)'
    BY <1>2, <2>1 DEF Serial, Active
  <2> QED
    BY <2>2, <2>3
<1>4. CASE op'[n].pc = "none" \/ x \notin Reach(op'[n])
  <2>1. \A k \in 1..MaxEdits : op'[k].pc # "none" /\ x \in Reach(op'[k]) => k # n /\ op'[k] = op[k]
    BY <1>1, <1>4
  <2>2. \A k \in 1..MaxEdits : Active(op'[k]) /\ x \in Reach(op'[k]) => Active(op[k]) /\ x \in Reach(op[k])
    BY <2>1 DEF Active
  <2>3. \A k \in 1..MaxEdits : op'[k].pc = "queued" /\ x \in Reach(op'[k]) => op[k].pc = "queued" /\ x \in Reach(op[k])
    BY <2>1
  <2> QED
    BY <2>2, <2>3, WayStays
<1> QED
  BY <1>3, <1>4

LEMMA EditNew ==
    ASSUME NEW x \in Entity, NewInv(x), NEW n \in 1..MaxEdits, NEW kind, NEW e, NEW s, NEW h, Adds(n, kind, e, s, h),
           kind = "create" => x # e, UNCHANGED <<storeVars, fetch>>
    PROVE  NewInv(x)'
<1>1. \A k \in 1..MaxEdits : Makes(op'[k], x) => op'[k] = op[k]
  BY AddsIs
<1>2. \A k \in 1..MaxEdits : op'[k].pc = "answered" => op'[k] = op[k]
  BY AddsIs
<1> QED
  BY <1>1, <1>2, NewStays DEF storeVars

\* Row x after the edit: only the new closure is to be looked at.
LEMMA EditRow ==
    ASSUME OpInv, NEW n \in 1..MaxEdits, NEW kind, NEW e, NEW s, NEW h, Adds(n, kind, e, s, h),
           NEW x \in Entity, NEW sv, NEW lc, NEW w, RowInv(obj, op, srv, loc, want, x),
           sv[x] = srv[x], lc[x] = loc[x], w[x] = Absent <=> want[x] = Absent,
           Alike(obj, h, x), x \in Ing => ~Makes(op'[n], RecipeOf[x]),
           Of(op'[n], x) => ClosureRow(h, op', sv, lc, w, x, n)
    PROVE  RowInv(h, op', sv, lc, w, x)
<1>1. \A k \in 1..MaxEdits : Makes(op[k], x) => Makes(op'[k], x) /\ op'[k] = op[k]
  BY AddsIs
<1>2. x \in Ing => (Underway(op', RecipeOf[x]) <=> Underway(op, RecipeOf[x]))
  <2>1. \A k \in 1..MaxEdits : x \in Ing => (Makes(op'[k], RecipeOf[x]) <=> Makes(op[k], RecipeOf[x]))
    <3> SUFFICES ASSUME NEW k \in 1..MaxEdits, x \in Ing
                 PROVE  Makes(op'[k], RecipeOf[x]) <=> Makes(op[k], RecipeOf[x])
      OBVIOUS
    <3>1. CASE k = n
      BY <3>1, AddsIs
    <3>2. CASE k # n
      <4>1. op'[k] = op[k]
        BY <3>2, AddsIs
      <4> QED
        BY <4>1
    <3> QED
      BY <3>1, <3>2
  <2> QED
    BY <2>1 DEF Underway
<1>3. ASSUME NEW k \in 1..MaxEdits, Of(op'[k], x)
      PROVE  ClosureRow(h, op', sv, lc, w, x, k)
  <2>1. CASE k = n
    BY <1>3, <2>1
  <2>2. CASE k # n
    <3>1. op'[k] = op[k] /\ Of(op[k], x)
      BY <1>3, <2>2 DEF Adds
    <3>2. ClosureRow(obj, op, srv, loc, want, x, k) /\ op[k].o \in Slot
      BY <3>1, ClosureIs DEF RowInv
    <3>3. h[x][op[k].o].id = obj[x][op[k].o].id /\ h[x][op[k].o].rid = obj[x][op[k].o].rid
          /\ h[x][op[k].o].gone = obj[x][op[k].o].gone
      BY <3>2 DEF Alike
    <3>4. \A j \in 1..MaxEdits : Makes(op[j], x) /\ op[j].o = op[k].o => Makes(op'[j], x) /\ op'[j].o = op'[k].o
      BY <1>1, <3>1
    <3> QED
      BY <1>2, <3>1, <3>2, <3>3, <3>4 DEF ClosureRow
  <2> QED
    BY <2>1, <2>2
<1>4. ASSUME NEW t \in Slot, t \in {sv[x], lc[x]}
      PROVE  ListedRow(h, op', x, t)
  <2>1. ListedRow(obj, op, x, t)
    BY <1>4 DEF RowInv
  <2> QED
    BY <1>1, <2>1 DEF ListedRow, Alike
<1> QED
  BY <1>3, <1>4 DEF RowInv

\* The new closure settles the row last, and asks for what is wanted now.
LEMMA EditWants ==
    ASSUME NEW n \in 1..MaxEdits, NEW kind, NEW e, NEW s, NEW h, Adds(n, kind, e, s, h), kind # "delete",
           NEW x, WantInv(obj, op, want, mem, x), NEW w, w[x] = Absent <=> want[x] = Absent,
           Writer(op'[n], x), x \in Ing /\ w[x] # Absent => w[RecipeOf[x]] # Absent,
           w[x] # Absent => Asks(h, op'[n], w, x) = w[x]
    PROVE  WantInv(h, op', w, mem, x)
<1>1. \A k \in 1..MaxEdits : k # n => op'[k] = op[k]
  BY DEF Adds
<1>2. \A k \in 1..MaxEdits : Removes(op'[k], x) <=> Removes(op[k], x)
  BY <1>1, AddsIs
<1>3. \A k \in 1..MaxEdits : Makes(op[k], x) => op'[k] = op[k]
  BY <1>1, AddsIs
<1>4. \A k \in 1..MaxEdits : LastWriter(op', k, x) => k = n
  <2> SUFFICES ASSUME NEW k \in 1..MaxEdits, LastWriter(op', k, x), k # n PROVE FALSE
    OBVIOUS
  <2>1. op'[k].pc # "none" /\ op'[k] = op[k]
    BY <1>1 DEF LastWriter, Writer, Unserved
  <2>2. k < n
    BY <2>1 DEF Adds
  <2>3. n <= k
    BY DEF LastWriter
  <2> QED
    BY <2>2, <2>3
<1> QED
  BY <1>2, <1>3, <1>4 DEF WantInv

LEMMA ScopeThrough ==
    ASSUME NEW kind, NEW e, NEW y \in Scope(kind, e)
    PROVE  /\ \A c : \A x \in Entity : Of(c, y) /\ x \in Reach(c) => x \in Scope(kind, e)
           /\ \A x \in Ing : RecipeOf[x] = y => x \in Scope(kind, e)
<1>1. ASSUME NEW x \in Ing, RecipeOf[x] = y PROVE x \in Scope(kind, e)
  BY <1>1, ScopeIs, MarksAre
<1>2. ASSUME NEW c, NEW x \in Entity, Of(c, y), x \in Reach(c) PROVE x \in Scope(kind, e)
  <2>1. x = y \/ (x \in Ing /\ RecipeOf[x] = y)
    BY <1>2, ScopeIs DEF Reach, Of
  <2> QED
    BY <1>1, <2>1
<1> QED
  BY <1>1, <1>2

\* The step changes nothing of the page outside these rows.
Spares(S, h) ==
    \A y \in Entity : y \notin S =>
        /\ \A t \in Slot : h[y][t] = obj[y][t]
        /\ srv'[y] = srv[y] /\ loc'[y] = loc[y] /\ want'[y] = want[y]

LEMMA EditPasses ==
    ASSUME OpInv, OpInv', NEW n \in 1..MaxEdits, NEW kind, NEW e, NEW s, NEW h, Adds(n, kind, e, s, h),
           NEW x \in Entity, x \notin Scope(kind, e), CleanRow(x), Spares(Scope(kind, e), h), Heap(h),
           UNCHANGED <<storeVars, fetch, replaying, drain>>
    PROVE  CleanRow(x)'
<1>1. /\ Apart(x) /\ Serial(x) /\ RowInv(obj, op, srv, loc, want, x) /\ NewInv(x) /\ WantInv(obj, op, want, mem, x)
  BY DEF CleanRow
<1>2. (\A t \in Slot : h[x][t] = obj[x][t]) /\ srv'[x] = srv[x] /\ loc'[x] = loc[x] /\ want'[x] = want[x]
  BY DEF Spares
<1>3. kind # "reset" => e \in Scope(kind, e)
  BY ScopeIs
<1>4. x \in Ing => RecipeOf[x] \notin Scope(kind, e)
  BY ScopeThrough
<1>5. Apart(x)' /\ Serial(x)'
  BY <1>1, EditWay
<1>6. NewInv(x)'
  BY <1>1, <1>3, EditNew
<1>7. RowInv(obj', op', srv', loc', want', x)
  <2>1. x \in Ing => ~Makes(op'[n], RecipeOf[x])
    BY <1>3, <1>4, AddsIs
  <2>2. ~Of(op'[n], x)
    <3>1. Of(op'[n], x) => kind # "reset" /\ x = e
      BY AddsIs
    <3> QED
      BY <1>3, <3>1
  <2>3. Alike(obj, h, x)
    BY <1>2 DEF Alike
  <2>4. RowInv(h, op', srv', loc', want', x)
    BY <1>1, <1>2, <2>1, <2>2, <2>3, EditRow
  <2> QED
    BY <2>4, RowHeap
<1>8. WantInv(obj', op', want', mem', x)
  <2>1. \A k \in 1..MaxEdits : Writer(op'[k], x) \/ Writer(op[k], x) => op'[k] = op[k]
    BY AddsIs
  <2>2. ASSUME NEW k \in 1..MaxEdits, Writer(op[k], x), op[k].kind \in {"patch", "toggle"}
        PROVE  h[op[k].e][op[k].o].mark = obj[op[k].e][op[k].o].mark
    <3>1. op[k].e \in Entity /\ op[k].o \in Slot /\ Of(op[k], op[k].e) /\ x \in Reach(op[k])
      BY <2>2, WriterHolds
    <3>2. op[k].e \notin Scope(kind, e)
      BY <3>1, ScopeThrough
    <3> QED
      BY <3>1, <3>2 DEF Spares
  <2>3. x \in Ing => want'[RecipeOf[x]] = want[RecipeOf[x]]
    BY <1>4, MarksAre DEF Spares
  <2>4. WantInv(h, op', want', mem', x)
    BY <1>1, <1>2, <2>1, <2>2, <2>3, WantStays DEF storeVars
  <2> QED
    BY <2>4, WantHeap
<1> QED
  BY <1>5, <1>6, <1>7, <1>8 DEF CleanRow

LEMMA CalmIs ==
    ASSUME OrderInv, OpInv, NEW x, Calm(x), NEW k \in 1..MaxEdits, op[k].pc # "none", op[k].kind # "delete", x \in Reach(op[k])
    PROVE  op[k].pc = "queued" /\ ~online /\ Unserved(op[k])
<1>1. op[k].pc # "repair"
  BY DEF OrderInv
<1> QED
  BY <1>1 DEF Calm, Unserved

\* The rows of a clean recipe that is there, and not on its way, all have the
\* one id.
LEMMA FoundId ==
    ASSUME OpInv, PageInv, NEW r \in Entity, RowInv(obj, op, srv, loc, want, r), want[r] # Absent,
           \A k \in 1..MaxEdits : Makes(op[k], r) => op[k].pc = "queued",
           NEW t \in Found(r)
    PROVE  /\ ~obj[r][t].gone
           /\ obj[r][t].id = IF Underway(op, r) THEN "temp" ELSE "real"
           /\ \A k \in 1..MaxEdits : Makes(op[k], r) => op[k].o = t
<1>1. t \in Slot /\ t \in {srv[r], loc[r]} /\ t # 0
  BY FoundIs, SlotFacts
<1>2. ListedRow(obj, op, r, t)
  BY <1>1 DEF RowInv
<1>3. ASSUME NEW k \in 1..MaxEdits, Makes(op[k], r)
      PROVE  op[k].o = t /\ obj[r][t].id = "temp"
  <2>1. ClosureRow(obj, op, srv, loc, want, r, k) /\ op[k].pc = "queued" /\ op[k].kind = "create"
    BY <1>3 DEF RowInv, Makes
  <2>2. srv[r] = 0 /\ op[k].o = loc[r] /\ obj[r][op[k].o].id = "temp"
    BY <2>1 DEF ClosureRow, Unserved
  <2> QED
    BY <1>1, <2>2
<1> QED
  BY <1>2, <1>3 DEF ListedRow, Underway

\* What every edit leaves alone.
LEMMA EditIs ==
    ASSUME IInv, SInv, NEW kind, Edit(kind)
    PROVE  /\ UNCHANGED <<storeVars, drain, turns, fetch, replaying, online>> /\ edits < MaxEdits
           /\ kind # "create" => made' = made
           /\ edits + 1 \in 1..MaxEdits
           /\ OpInv /\ QueueInv /\ OrderInv /\ MadeInv /\ FirstInv /\ GhostInv /\ PageInv
           /\ \A r \in Entity : \A s \in Found(r) : r \in made
<1>1. OpInv /\ QueueInv /\ OrderInv /\ MadeInv /\ FirstInv /\ GhostInv /\ PageInv
  BY DEF IInv, SInv
<1>2. UNCHANGED <<storeVars, drain, turns, fetch, replaying, online>> /\ edits < MaxEdits /\ (kind # "create" => made' = made)
  BY DEF Edit
<1>3. edits + 1 \in 1..MaxEdits
  BY <1>1, <1>2, SlotFacts DEF OpInv
<1>4. \A r \in Entity : \A s \in Found(r) : r \in made
  <2> SUFFICES ASSUME NEW r \in Entity, NEW s \in Found(r) PROVE r \in made
    OBVIOUS
  <2>1. s \in {srv[r], loc[r]} /\ s # 0
    BY <1>1, FoundIs, SlotFacts
  <2> QED
    BY <1>1, <2>1 DEF MadeInv
<1> QED
  BY <1>1, <1>2, <1>3, <1>4

LEMMA WantDomain == SInv => DOMAIN want = Entity
BY DEF SInv, MadeInv

LEMMA ResetSettles == IInv /\ IInv' /\ SInv /\ Reset => SInv'
<1> SUFFICES ASSUME IInv, IInv', SInv, Reset PROVE SInv'
  OBVIOUS
<1> DEFINE reset(x) == IF x \in Recipe THEN "off" ELSE "check"
           h == [x \in Entity |-> [t \in Slot |->
                    IF t \in {srv[x], loc[x]} THEN [obj[x][t] EXCEPT !.mark = reset(x)] ELSE obj[x][t]]]
<1>1. /\ Edit("reset") /\ want' = [x \in Entity |-> IF want[x] = Absent THEN Absent ELSE reset(x)]
      /\ excused' = excused \cup Raced("reset", Absent)
      /\ Issue("reset", Absent, 0, h) /\ UNCHANGED <<srv, loc>> /\ Heap(h)
  BY DEF Reset
<1>2. /\ UNCHANGED <<storeVars, drain, turns, fetch, replaying, online>> /\ edits < MaxEdits /\ made' = made
      /\ edits + 1 \in 1..MaxEdits
      /\ OpInv /\ OpInv' /\ QueueInv /\ OrderInv /\ MadeInv /\ FirstInv /\ GhostInv /\ PageInv
  BY <1>1, EditIs DEF IInv
<1>3. PICK n \in 1..MaxEdits : n = edits + 1
  BY <1>2
<1>4. \A x \in Entity : Alike(obj, h, x)
  <2>1. \A x \in Entity : \A t \in Slot : obj[x][t] \in Row
    BY <1>2 DEF PageInv, HeapOK
  <2> HIDE DEF reset
  <2>2. \A x \in Entity : \A t \in Slot :
            h[x][t] = IF t \in {srv[x], loc[x]} THEN [obj[x][t] EXCEPT !.mark = reset(x)] ELSE obj[x][t]
    OBVIOUS
  <2> HIDE DEF h
  <2> SUFFICES ASSUME NEW x \in Entity, NEW t \in Slot
               PROVE  obj[x][t].id = h[x][t].id /\ obj[x][t].rid = h[x][t].rid /\ obj[x][t].gone = h[x][t].gone
    BY DEF Alike
  <2>3. obj[x][t] \in Row /\ (h[x][t] = [obj[x][t] EXCEPT !.mark = reset(x)] \/ h[x][t] = obj[x][t])
    BY <2>1, <2>2
  <2> HIDE DEF reset
  <2> QED
    BY <2>3 DEF Row
<1>5. \A x \in Entity : /\ want'[x] = Absent <=> want[x] = Absent
                        /\ want[x] # Absent => want'[x] = reset(x)
  BY <1>1, StoreAssumption DEF StoreAssumption
<1> HIDE DEF h, reset
<1>6. "reset" \in Kinds
  BY DEF Kinds
<1>7. Adds(n, "reset", Absent, 0, h) /\ op'[n] # NoOp
  BY <1>1, <1>2, <1>3, <1>6, IssueAdds
<1>8. Unserved(op'[n]) /\ op'[n].kind = "reset" /\ Reach(op'[n]) = Entity /\ Writes(op'[n]) = Entity
  BY <1>7, AddsIs, ScopeIs DEF Writes
<1>9. OrderInv' /\ MadeInv' /\ FirstInv'
  <2>1. Suits("reset", Absent)
    BY <1>2, <1>6 DEF Suits
  <2>2. /\ \A x \in Entity : want'[x] # Absent => x \in made'
        /\ \A x \in Entity : srv'[x] # 0 \/ loc'[x] # 0 => x \in made'
    BY <1>1, <1>2, <1>5 DEF MadeInv
  <2> QED
    BY <1>1, <1>2, <1>7, <2>1, <2>2, EditBooks
<1>10. GhostInv'
  BY <1>1, <1>2, RacedOwns, GhostGrows DEF storeVars
<1>11. ASSUME NEW x \in Entity \ excused'
       PROVE  CleanRow(x)'
  <2>1. /\ Apart(x) /\ Serial(x) /\ RowInv(obj, op, srv, loc, want, x) /\ NewInv(x) /\ WantInv(obj, op, want, mem, x)
        /\ x \in Entity /\ x \notin Raced("reset", Absent) /\ x \in Scope("reset", Absent)
    BY <1>1, ScopeIs DEF SInv, CleanRow
  <2>2. Calm(x)
    BY <1>2, <2>1, RacedIs
  <2>3. Apart(x)' /\ Serial(x)'
    BY <1>2, <1>7, <2>1, <2>2, EditWay
  <2>4. NewInv(x)'
    BY <1>2, <1>7, <2>1, EditNew
  <2>5. RowInv(obj', op', srv', loc', want', x)
    <3>1. ~Of(op'[n], x) /\ (x \in Ing => ~Makes(op'[n], RecipeOf[x]))
      BY <1>8 DEF Of, Makes
    <3>2. RowInv(h, op', srv', loc', want', x)
      BY <1>1, <1>2, <1>4, <1>5, <1>7, <2>1, <3>1, EditRow
    <3> QED
      BY <1>1, <1>2, <2>1, <3>2, RowHeap
  <2>6. WantInv(obj', op', want', mem', x)
    <3>1. Writer(op'[n], x)
      BY <1>8, <2>1 DEF Writer
    <3>2. want'[x] # Absent => Asks(h, op'[n], want', x) = want'[x]
      BY <1>5, <1>8, <2>1 DEF Asks, reset
    <3>3. x \in Ing /\ want'[x] # Absent => want'[RecipeOf[x]] # Absent
      BY <1>5, <2>1, MarksAre DEF WantInv
    <3>4. WantInv(h, op', want', mem, x)
      BY <1>5, <1>7, <2>1, <3>1, <3>2, <3>3, EditWants
    <3> QED
      BY <1>1, <1>2, <2>1, <3>4, WantHeap DEF storeVars
  <2> QED
    BY <2>3, <2>4, <2>5, <2>6 DEF CleanRow
<1> QED
  BY <1>9, <1>10, <1>11 DEF SInv

\* An edit of a displayed, clean row finds the one object there is: it has the
\* server's id, or that of the closure that makes the row.
LEMMA EditedRow ==
    ASSUME IInv, SInv, NEW n \in 1..MaxEdits, NEW kind \in {"patch", "toggle", "rename"},
           NEW e \in Entity \ excused, NEW s \in Found(e), NEW h, Adds(n, kind, e, s, h), Alike(obj, h, e),
           op'[n] = NoOp => online /\ ~Sends(kind, h[e][s]),
           Calm(e), want[e] # Absent, NEW sv, NEW lc, NEW w
    PROVE  op'[n] # NoOp /\ ClosureRow(h, op', sv, lc, w, e, n)
<1>1. OpInv /\ PageInv /\ OrderInv /\ RowInv(obj, op, srv, loc, want, e)
  BY DEF IInv, SInv, CleanRow
<1>2. s \in Slot /\ s # 0
  BY <1>1, FoundIs, SlotFacts
<1>3. \A k \in 1..MaxEdits : Makes(op[k], e) => op[k].pc = "queued" /\ ~online
  <2> SUFFICES ASSUME NEW k \in 1..MaxEdits, Makes(op[k], e) PROVE op[k].pc = "queued" /\ ~online
    OBVIOUS
  <2>1. op[k].pc # "none" /\ op[k].kind = "create" /\ e \in Reach(op[k])
    BY ReachIs DEF Makes, Of
  <2> QED
    BY <1>1, <2>1, CalmIs
<1>4. /\ ~obj[e][s].gone
      /\ obj[e][s].id = IF Underway(op, e) THEN "temp" ELSE "real"
      /\ \A k \in 1..MaxEdits : Makes(op[k], e) => op[k].o = s
  BY <1>1, <1>3, FoundId
<1>5. h[e][s].gone = obj[e][s].gone /\ h[e][s].id = obj[e][s].id
  BY <1>2 DEF Alike
<1>6. op'[n] # NoOp
  <2> SUFFICES ASSUME online PROVE Sends(kind, h[e][s])
    OBVIOUS
  <2>1. ~Underway(op, e)
    BY <1>3 DEF Underway
  <2> QED
    BY <1>4, <1>5, <2>1 DEF Sends
<1>7. op'[n].kind = kind /\ op'[n].o = s
  BY <1>6 DEF Adds
<1>8. h[e][s].id = "real" \/ \E k \in 1..MaxEdits : k < n /\ Makes(op'[k], e) /\ op'[k].o = s
  <2> SUFFICES ASSUME NEW k \in 1..MaxEdits, Makes(op[k], e)
               PROVE  k < n /\ Makes(op'[k], e) /\ op'[k].o = s
    BY <1>4, <1>5 DEF Underway
  <2>1. op[k].pc # "none" /\ k # n
    BY AddsIs DEF Makes, Of
  <2>2. op'[k] = op[k] /\ k < n
    BY <2>1 DEF Adds
  <2> QED
    BY <1>4, <2>2
<1> QED
  BY <1>4, <1>5, <1>6, <1>7, <1>8 DEF ClosureRow

LEMMA CycleSettles ==
    ASSUME IInv, IInv', SInv, NEW e \in Entity, NEW s \in Slot, CycleState(e, s)
    PROVE  SInv'
<1> DEFINE row == [obj[e][s] EXCEPT !.mark = NextState[@]]
           h == [obj EXCEPT ![e][s].mark = NextState[@]]
<1>1. /\ Edit("patch") /\ e \in Item /\ s \in Found(e)
      /\ want' = [want EXCEPT ![e] = h[e][s].mark]
      /\ excused' = excused \cup Raced("patch", e)
      /\ Issue("patch", e, s, h) /\ UNCHANGED <<srv, loc>> /\ Heap(h)
  BY DEF CycleState
<1>2. /\ UNCHANGED <<storeVars, drain, turns, fetch, replaying, online>> /\ edits < MaxEdits /\ made' = made
      /\ edits + 1 \in 1..MaxEdits /\ e \in made
      /\ OpInv /\ OpInv' /\ QueueInv /\ OrderInv /\ MadeInv /\ FirstInv /\ GhostInv /\ PageInv
  BY <1>1, EditIs DEF IInv
<1>3. PICK n \in 1..MaxEdits : n = edits + 1
  BY <1>2
<1>4. obj[e][s] \in Row /\ obj[e][s].mark \in {"needed", "check", "not_needed"}
  BY <1>1, <1>2, FoundIs, MarksAre
<1>5. /\ row.id = obj[e][s].id /\ row.rid = obj[e][s].rid /\ row.gone = obj[e][s].gone
      /\ row.mark # Absent
  <2>1. NextState[obj[e][s].mark] \in {"needed", "check", "not_needed"}
    BY <1>4 DEF NextState
  <2>2. row.mark = NextState[obj[e][s].mark]
    BY <1>4 DEF Row
  <2> QED
    BY <1>4, <2>1, <2>2, StoreAssumption DEF Row, StoreAssumption
<1>6. h = Put(obj, e, s, row)
  BY <1>2 DEF PageInv, HeapOK, Put
<1>7. h[e][s] = row /\ \A x \in Entity : \A t \in Slot : x # e \/ t # s => h[x][t] = obj[x][t]
  <2>1. DOMAIN obj = Entity /\ DOMAIN obj[e] = Slot
    BY <1>2 DEF PageInv, HeapOK
  <2> HIDE DEF h, row
  <2> QED
    BY <1>6, <2>1 DEF Put
<1>8. Scope("patch", e) = {e}
  BY <1>1, ScopeIs, MarksAre
<1>9. want' = [want EXCEPT ![e] = row.mark]
  <2> HIDE DEF h, row
  <2> QED
    BY <1>1, <1>7
<1> HIDE DEF h, row
<1>10. /\ Alike(obj, h, e)
       /\ \A x \in Entity : x # e => want'[x] = want[x]
       /\ want'[e] = row.mark
  <2>1. DOMAIN want = Entity
    BY WantDomain
  <2>2. Alike(obj, h, e)
    BY <1>5, <1>7 DEF Alike
  <2> QED
    BY <1>9, <2>1, <2>2
<1>11. "patch" \in Kinds
  BY DEF Kinds
<1>12. /\ Adds(n, "patch", e, s, h)
       /\ op'[n] = NoOp => online /\ ~Sends("patch", h[e][s])
  BY <1>1, <1>2, <1>3, <1>11, IssueAdds
<1>13. OrderInv' /\ MadeInv' /\ FirstInv'
  <2>1. Suits("patch", e)
    BY <1>2, <1>11 DEF Suits
  <2>2. /\ \A x \in Entity : want'[x] # Absent => x \in made'
        /\ \A x \in Entity : srv'[x] # 0 \/ loc'[x] # 0 => x \in made'
    BY <1>1, <1>2, <1>10 DEF MadeInv
  <2> QED
    BY <1>2, <1>9, <1>12, <2>1, <2>2, EditBooks DEF MadeInv
<1>14. GhostInv'
  BY <1>1, <1>2, RacedOwns, GhostGrows DEF storeVars
<1>15. ASSUME NEW x \in Entity \ excused'
       PROVE  CleanRow(x)'
  <2>1. CleanRow(x) /\ x \in Entity \ excused /\ x \notin Raced("patch", e)
    BY <1>1 DEF SInv
  <2>2. CASE x # e
    <3>1. Spares(Scope("patch", e), h)
      BY <1>1, <1>7, <1>8, <1>10 DEF Spares
    <3> QED
      BY <1>1, <1>2, <1>8, <1>12, <2>1, <2>2, <3>1, EditPasses
  <2>3. CASE x = e
    <3>1. Calm(e) /\ want[e] # Absent /\ e \in Entity \ excused
      BY <1>2, <1>8, <2>1, <2>3, RacedIs
    <3>2. /\ Apart(e) /\ Serial(e) /\ RowInv(obj, op, srv, loc, want, e) /\ NewInv(e) /\ WantInv(obj, op, want, mem, e)
      BY <2>1, <2>3 DEF CleanRow
    <3>3. op'[n] # NoOp /\ ClosureRow(h, op', srv', loc', want', e, n)
      BY <1>1, <1>10, <1>12, <3>1, EditedRow
    <3>4. want'[e] = row.mark
      BY <1>10
    <3>5. Apart(e)' /\ Serial(e)' /\ NewInv(e)'
      BY <1>2, <1>12, <3>1, <3>2, EditWay, EditNew
    <3>6. RowInv(obj', op', srv', loc', want', e)
      <4>1. e \in Ing => ~Makes(op'[n], RecipeOf[e])
        BY <1>12, AddsIs
      <4>2. RowInv(h, op', srv', loc', want', e)
        BY <1>1, <1>2, <1>5, <1>10, <1>12, <3>1, <3>2, <3>3, <3>4, <4>1, EditRow
      <4> QED
        BY <1>1, <1>2, <4>2, RowHeap
    <3>7. WantInv(obj', op', want', mem', e)
      <4>1. /\ op'[n].kind = "patch" /\ op'[n].e = e /\ op'[n].o = s /\ op'[n].pc \in {"queued", "sent"}
            /\ op'[n].pc = "sent" => op'[n].msg.mark = h[e][s].mark
        BY <1>12, <3>3 DEF Adds
      <4>2. Writer(op'[n], e)
        BY <1>8, <4>1 DEF Writer, Writes, Unserved, Reach
      <4>3. Asks(h, op'[n], want', e) = want'[e]
        BY <1>7, <3>4, <4>1 DEF Asks, MarkOf
      <4>4. e \in Ing /\ want'[e] # Absent => want'[RecipeOf[e]] # Absent
        BY <1>10, <3>1, <3>2, MarksAre DEF WantInv
      <4>5. WantInv(h, op', want', mem, e)
        BY <1>5, <1>12, <3>1, <3>2, <3>4, <4>2, <4>3, <4>4, EditWants
      <4> QED
        BY <1>1, <1>2, <4>5, WantHeap DEF storeVars
    <3> QED
      BY <2>3, <3>5, <3>6, <3>7 DEF CleanRow
  <2> QED
    BY <2>2, <2>3
<1> QED
  BY <1>13, <1>14, <1>15 DEF SInv

LEMMA RenameSettles ==
    ASSUME IInv, IInv', SInv, NEW r \in Entity, NEW s \in Slot, RenameRecipe(r, s)
    PROVE  SInv'
<1>1. /\ Edit("rename") /\ r \in Recipe /\ s \in Found(r)
      /\ excused' = excused \cup Raced("rename", r)
      /\ Issue("rename", r, s, obj) /\ UNCHANGED <<srv, loc, want>> /\ Heap(obj)
  BY DEF RenameRecipe
<1>2. /\ UNCHANGED <<storeVars, drain, turns, fetch, replaying, online>> /\ edits < MaxEdits /\ made' = made
      /\ edits + 1 \in 1..MaxEdits /\ r \in made
      /\ OpInv /\ OpInv' /\ QueueInv /\ OrderInv /\ MadeInv /\ FirstInv /\ GhostInv /\ PageInv
  BY <1>1, EditIs DEF IInv
<1>3. PICK n \in 1..MaxEdits : n = edits + 1
  BY <1>2
<1>4. "rename" \in Kinds
  BY DEF Kinds
<1>5. /\ Adds(n, "rename", r, s, obj)
      /\ op'[n] = NoOp => online /\ ~Sends("rename", obj[r][s])
  BY <1>1, <1>2, <1>3, <1>4, IssueAdds
<1>6. Alike(obj, obj, r) /\ \A x \in Entity : Alike(obj, obj, x)
  BY DEF Alike
<1>7. OrderInv' /\ MadeInv' /\ FirstInv'
  <2>1. Suits("rename", r)
    BY <1>2, <1>4 DEF Suits
  <2>2. /\ \A x \in Entity : want'[x] # Absent => x \in made'
        /\ \A x \in Entity : srv'[x] # 0 \/ loc'[x] # 0 => x \in made'
        /\ DOMAIN want' = Entity
    BY <1>1, <1>2 DEF MadeInv
  <2> QED
    BY <1>2, <1>5, <2>1, <2>2, EditBooks
<1>8. GhostInv'
  BY <1>1, <1>2, RacedOwns, GhostGrows DEF storeVars
<1>9. ~Removes(op'[n], r) /\ \A x : ~Writer(op'[n], x) /\ ~Makes(op'[n], x)
  <2>1. op'[n].kind = "rename" \/ op'[n] = NoOp
    BY <1>5 DEF Adds
  <2> QED
    BY <2>1, NoOpIs DEF Writer, Writes, Makes, Removes
<1>10. ASSUME NEW x \in Entity \ excused'
       PROVE  CleanRow(x)'
  <2>1. CleanRow(x) /\ x \in Entity \ excused /\ x \notin Raced("rename", r)
    BY <1>1 DEF SInv
  <2>2. CASE x \notin Scope("rename", r)
    <3>1. Spares(Scope("rename", r), obj)
      BY <1>1 DEF Spares
    <3> QED
      BY <1>1, <1>2, <1>5, <2>1, <2>2, <3>1, EditPasses
  <2>3. CASE x \in Scope("rename", r)
    <3>1. Calm(x) /\ want[r] # Absent
      BY <1>2, <2>1, <2>3, RacedIs
    <3>2. /\ Apart(x) /\ Serial(x) /\ RowInv(obj, op, srv, loc, want, x) /\ NewInv(x) /\ WantInv(obj, op, want, mem, x)
      BY <2>1 DEF CleanRow
    <3>3. Apart(x)' /\ Serial(x)' /\ NewInv(x)'
      BY <1>2, <1>5, <3>1, <3>2, EditWay, EditNew
    <3>4. Of(op'[n], x) => ClosureRow(obj, op', srv', loc', want', x, n)
      <4> SUFFICES ASSUME Of(op'[n], x) PROVE ClosureRow(obj, op', srv', loc', want', x, n)
        OBVIOUS
      <4>1. x = r
        BY <1>5, AddsIs
      <4> QED
        BY <1>1, <1>5, <1>6, <2>1, <3>1, <4>1, EditedRow
    <3>5. RowInv(obj', op', srv', loc', want', x)
      <4>1. RowInv(obj, op', srv', loc', want', x)
        BY <1>1, <1>2, <1>5, <1>6, <1>9, <3>2, <3>4, EditRow
      <4> QED
        BY <1>1, <1>2, <4>1, RowHeap
    <3>6. WantInv(obj', op', want', mem', x)
      <4>1. \A k \in 1..MaxEdits : Writer(op'[k], x) \/ Writer(op[k], x) => op'[k] = op[k]
        BY <1>5, <1>9, AddsIs
      <4>2. WantInv(obj, op', want', mem', x)
        BY <1>1, <1>2, <3>2, <4>1, WantStays DEF storeVars
      <4> QED
        BY <1>1, <1>2, <4>2, WantHeap
    <3> QED
      BY <3>3, <3>5, <3>6 DEF CleanRow
  <2> QED
    BY <2>2, <2>3
<1> QED
  BY <1>7, <1>8, <1>10 DEF SInv

\* A row is made where nothing of that name ever was; its recipe is there.
LEMMA CreateSettles ==
    ASSUME IInv, IInv', SInv, NEW e \in Entity, NEW owner, Create(e, owner)
    PROVE  SInv'
<1> DEFINE s == NewSlot(e, {})
           row == [id |-> "temp", gone |-> FALSE,
                   mark |-> CASE e \in Free -> "needed"
                              [] e \in Recipe -> "off"
                              [] OTHER -> Follows(obj[RecipeOf[e]][owner].mark),
                   rid |-> IF e \in Ing THEN obj[RecipeOf[e]][owner].id ELSE "real"]
           h == [obj EXCEPT ![e][s] = row]
           first == IF e \in Ing THEN Follows(want[RecipeOf[e]]) ELSE row.mark
<1>1. /\ Edit("create") /\ owner \in (IF e \in Ing THEN Found(RecipeOf[e]) ELSE {0})
      /\ e \notin made /\ made' = made \cup {e}
      /\ loc' = [loc EXCEPT ![e] = s] /\ UNCHANGED srv
      /\ want' = [want EXCEPT ![e] = first]
      /\ excused' = excused \cup Raced("create", e)
      /\ Issue("create", e, s, h) /\ Heap(h)
  BY DEF Create
<1>2. /\ UNCHANGED <<storeVars, drain, turns, fetch, replaying, online>> /\ edits < MaxEdits
      /\ edits + 1 \in 1..MaxEdits /\ (e \in Ing => RecipeOf[e] \in made)
      /\ OpInv /\ OpInv' /\ QueueInv /\ OrderInv /\ MadeInv /\ FirstInv /\ GhostInv /\ PageInv
  BY <1>1, EditIs, MarksAre DEF IInv
<1>3. PICK n \in 1..MaxEdits : n = edits + 1
  BY <1>2
<1>4. s \in Slot
  <2> DEFINE X == {srv[e], loc[e]}
  <2>1. IsFiniteSet(X) /\ Cardinality(X) \in Nat /\ Cardinality(X) <= 2
    BY PairSize
  <2>2. edits + Cardinality(X) < MaxEdits + 2
    <3> HIDE DEF X
    <3> QED
      BY <1>2, <2>1, SlotFacts DEF OpInv
  <2> QED
    BY <1>2, <2>1, <2>2, SlotLeft
<1>5. /\ row.id = "temp" /\ row.gone = FALSE
      /\ row.rid = IF e \in Ing THEN obj[RecipeOf[e]][owner].id ELSE "real"
      /\ e \in Free => first = "needed"
      /\ e \in Recipe => first = "off"
      /\ e \in Ing => first = Follows(want[RecipeOf[e]])
  BY MarksAre DEF Entity, Item
<1>6. first # Absent
  <2>1. first \in {"needed", "not_needed", "off"}
    BY <1>5, MarksAre DEF Entity, Item
  <2> HIDE DEF first
  <2> QED
    BY <2>1, StoreAssumption DEF StoreAssumption
<1> HIDE DEF s, row, first
<1>7. h[e][s] = row /\ \A x \in Entity : \A t \in Slot : x # e \/ t # s => h[x][t] = obj[x][t]
  <2>1. DOMAIN obj = Entity /\ DOMAIN obj[e] = Slot
    BY <1>2 DEF PageInv, HeapOK
  <2> QED
    BY <1>4, <2>1
<1> HIDE DEF h
<1>8. /\ DOMAIN want' = Entity /\ want'[e] = first /\ \A x \in Entity : x # e => want'[x] = want[x]
      /\ loc'[e] = s /\ \A x \in Entity : x # e => loc'[x] = loc[x]
  <2>1. DOMAIN want = Entity /\ DOMAIN loc = Entity
    BY <1>2 DEF MadeInv, PageInv
  <2> QED
    BY <1>1, <2>1
<1>9. "create" \in Kinds
  BY DEF Kinds
<1>10. Adds(n, "create", e, s, h) /\ op'[n] # NoOp
  BY <1>1, <1>2, <1>3, <1>5, <1>7, <1>9, IssueAdds DEF Sends
<1>11. /\ op'[n].kind = "create" /\ op'[n].e = e /\ op'[n].o = s /\ op'[n].pc \in {"queued", "sent"}
       /\ op'[n].pc = "sent" => online /\ op'[n].msg.rid = row.rid
       /\ \A k \in 1..MaxEdits : k # n => op'[k] = op[k]
       /\ \A k \in 1..MaxEdits : op[k].pc # "none" => k < n
  BY <1>7, <1>10 DEF Adds
<1>12. Makes(op'[n], e) /\ Unserved(op'[n]) /\ Writes(op'[n]) = {e} /\ Writer(op'[n], e)
  BY <1>11 DEF Makes, Of, Unserved, Writes, Writer
<1>13. /\ \A k \in 1..MaxEdits : ~Of(op[k], e)
       /\ srv[e] = 0 /\ mem[e] = Absent
       /\ \A x \in Ing : RecipeOf[x] = e => x \notin made
  BY <1>1, <1>2 DEF MadeInv
<1>14. OrderInv' /\ MadeInv' /\ FirstInv'
  <2>1. Suits("create", e)
    BY <1>1, <1>2, <1>9 DEF Suits
  <2>2. /\ \A x \in Entity : want'[x] # Absent => x \in made'
        /\ \A x \in Entity : srv'[x] # 0 \/ loc'[x] # 0 => x \in made'
    BY <1>1, <1>2, <1>8 DEF MadeInv
  <2> QED
    BY <1>2, <1>8, <1>10, <2>1, <2>2, EditBooks
<1>15. GhostInv'
  BY <1>1, <1>2, RacedOwns, GhostGrows DEF storeVars
<1>16. ASSUME NEW x \in Entity \ excused', x \notin Scope("create", e)
       PROVE  CleanRow(x)'
  <2>1. CleanRow(x)
    BY <1>1, <1>16 DEF SInv
  <2>2. \A y \in Entity : y \notin Scope("create", e) => y # e
    BY ScopeIs
  <2>3. Spares(Scope("create", e), h)
    BY <1>1, <1>7, <1>8, <2>2 DEF Spares
  <2> QED
    BY <1>1, <1>2, <1>10, <1>16, <2>1, <2>3, EditPasses
<1>17. ASSUME NEW x \in Entity \ excused', x \in Scope("create", e), x # e
       PROVE  CleanRow(x)'
  <2>1. CleanRow(x) /\ x \in Entity \ excused /\ x \notin Raced("create", e)
    BY <1>1, <1>17 DEF SInv
  <2>2. Apart(x) /\ Serial(x) /\ NewInv(x) /\ Calm(x)
    BY <1>2, <1>17, <2>1, RacedIs DEF CleanRow
  <2>3. Apart(x)' /\ Serial(x)' /\ NewInv(x)'
    BY <1>2, <1>10, <1>17, <2>2, EditWay, EditNew
  <2>4. x \in Ing /\ RecipeOf[x] = e
    BY <1>17, ScopeIs
  <2>5. x \notin made
    BY <1>13, <2>4
  <2>6. /\ \A k \in 1..MaxEdits : ~Of(op[k], x)
        /\ srv[x] = 0 /\ loc[x] = 0 /\ mem[x] = Absent /\ want[x] = Absent
    BY <1>2, <2>5 DEF MadeInv
  <2>7. \A k \in 1..MaxEdits : ~Of(op'[k], x)
    BY <1>11, <1>17, <2>6 DEF Of
  <2>8. RowInv(obj', op', srv', loc', want', x)
    BY <1>1, <1>8, <1>17, <2>6, <2>7, SlotFacts DEF RowInv
  <2>9. WantInv(obj', op', want', mem', x)
    BY <1>2, <1>8, <1>17, <2>6 DEF WantInv, storeVars
  <2> QED
    BY <2>3, <2>8, <2>9 DEF CleanRow
<1>18. ASSUME e \notin excused'
       PROVE  CleanRow(e)'
  <2>1. CleanRow(e) /\ e \in Entity \ excused /\ e \notin Raced("create", e) /\ e \in Scope("create", e)
    BY <1>1, <1>18, ScopeIs DEF SInv
  <2>2. Apart(e) /\ Serial(e) /\ Calm(e) /\ (e \in Ing => want[RecipeOf[e]] # Absent)
    BY <1>2, <2>1, RacedIs DEF CleanRow
  <2>3. Apart(e)' /\ Serial(e)'
    BY <1>2, <1>10, <2>2, EditWay
  <2>4. ASSUME e \in Ing
        PROVE  /\ RecipeOf[e] \in Entity /\ RecipeOf[e] # e
               /\ row.rid = IF Underway(op, RecipeOf[e]) THEN "temp" ELSE "real"
               /\ Underway(op', RecipeOf[e]) <=> Underway(op, RecipeOf[e])
               /\ online => ~Underway(op, RecipeOf[e]) /\ mem[RecipeOf[e]] # Absent
               /\ \A k \in 1..MaxEdits : ~Removes(op[k], RecipeOf[e])
    <3> DEFINE R == RecipeOf[e]
    <3>1. R \in Entity \ excused /\ R # e /\ CleanRow(R) /\ R \in Recipe
      BY <2>1, <2>4, RecipeClean, MarksAre
    <3>2. RowInv(obj, op, srv, loc, want, R) /\ WantInv(obj, op, want, mem, R) /\ want[R] # Absent
      BY <2>2, <2>4, <3>1 DEF CleanRow
    <3>3. \A k \in 1..MaxEdits : Makes(op[k], R) => op[k].pc = "queued" /\ ~online
      <4> SUFFICES ASSUME NEW k \in 1..MaxEdits, Makes(op[k], R) PROVE op[k].pc = "queued" /\ ~online
        OBVIOUS
      <4>1. op[k].pc # "none" /\ op[k].kind = "create" /\ e \in Reach(op[k])
        BY <2>4, ReachIs DEF Makes, Of
      <4> QED
        BY <1>2, <2>2, <4>1, CalmIs
    <3>4. owner \in Found(R) /\ row.rid = obj[R][owner].id
      BY <1>1, <1>5, <2>4
    <3> HIDE DEF R
    <3>5. row.rid = IF Underway(op, R) THEN "temp" ELSE "real"
      BY <1>2, <3>1, <3>2, <3>3, <3>4, FoundId
    <3>6. online => ~Underway(op, R)
      BY <3>3 DEF Underway
    <3>7. ~Underway(op, R) => mem[R] # Absent
      BY <3>2 DEF WantInv, Underway
    <3>8. \A k \in 1..MaxEdits : Makes(op'[k], R) <=> Makes(op[k], R)
      <4>1. ~Makes(op'[n], R) /\ ~Makes(op[n], R)
        BY <1>10, <3>1, AddsIs
      <4> QED
        BY <1>11, <4>1
    <3>9. \A k \in 1..MaxEdits : ~Removes(op[k], R)
      BY <3>2 DEF WantInv
    <3> QED
      BY <3>1, <3>5, <3>6, <3>7, <3>8, <3>9 DEF Underway, R
  <2>5. \A k \in 1..MaxEdits : Of(op'[k], e) => k = n
    BY <1>11, <1>13
  <2>6. NewInv(e)'
    <3>1. /\ \A k \in FetchSlots : \A part \in Part :
                fetch[k][part].pc = "answered" => fetch[k][part].rows[e] = Absent
          /\ \A m \in 1..MaxEdits : op[m].pc = "answered" /\ op[m].msg.tag = "ok" => op[m].msg.rows[e] = Absent
      BY <1>1, <1>2 DEF MadeInv
    <3>2. Unseen(e)'
      BY <1>2, <1>11, <1>13, <3>1 DEF Unseen, storeVars
    <3>3. op'[n].pc = "sent" /\ e \in Ing => op'[n].msg.rid = "real" /\ mem'[RecipeOf[e]] # Absent
      BY <1>2, <1>11, <2>4 DEF storeVars
    <3>4. op'[n].pc # "answered"
      BY <1>11
    <3> QED
      BY <2>5, <3>2, <3>3, <3>4 DEF NewInv, Makes
  <2>7. RowInv(obj', op', srv', loc', want', e)
    <3>1. ClosureRow(h, op', srv', loc', want', e, n)
      BY <1>1, <1>5, <1>6, <1>7, <1>8, <1>11, <1>13, <2>4 DEF ClosureRow
    <3>2. \A t \in Slot : t \in {srv'[e], loc'[e]} => ListedRow(h, op', e, t)
      BY <1>1, <1>5, <1>7, <1>8, <1>11, <1>12, <1>13, SlotFacts DEF ListedRow
    <3>3. RowInv(h, op', srv', loc', want', e)
      BY <2>5, <3>1, <3>2 DEF RowInv
    <3> QED
      BY <1>1, <1>2, <3>3, RowHeap
  <2>8. WantInv(obj', op', want', mem', e)
    <3>1. e \in Ing => want'[RecipeOf[e]] # Absent
      BY <1>8, <2>2, <2>4
    <3>2. ASSUME NEW k \in 1..MaxEdits, Removes(op'[k], e) PROVE FALSE
      <4>1. k # n /\ op'[k] = op[k]
        BY <1>11, <3>2 DEF Removes
      <4>2. Removes(op[k], e) /\ ~Of(op[k], e) /\ op[k].kind = "delete" /\ op[k].pc # "none"
        BY <1>13, <3>2, <4>1 DEF Removes, Writer, Unserved
      <4>3. e \in Reach(op[k]) /\ op[k].e # e
        BY <4>2 DEF Removes, Writer, Writes, Of
      <4>4. e \in Ing /\ op[k].e = RecipeOf[e]
        BY <4>2, <4>3, ScopeIs DEF Reach
      <4>5. Removes(op[k], RecipeOf[e])
        BY <4>2, <4>4, ScopeIs, MarksAre DEF Removes, Writer, Writes, Reach
      <4> QED
        BY <2>4, <4>4, <4>5
    <3>3. \A k \in 1..MaxEdits : LastWriter(op', k, e) => k = n
      <4> SUFFICES ASSUME NEW k \in 1..MaxEdits, LastWriter(op', k, e), k # n PROVE FALSE
        OBVIOUS
      <4>1. op'[k] = op[k] /\ op'[k].pc # "none"
        BY <1>11 DEF LastWriter, Writer, Unserved
      <4>2. k < n
        BY <1>11, <4>1
      <4>3. n <= k
        BY <1>12 DEF LastWriter
      <4> QED
        BY <4>2, <4>3
    <3>4. Asks(h, op'[n], want', e) = want'[e]
      <4>1. e \in Ing => want'[RecipeOf[e]] = want[RecipeOf[e]]
        BY <1>8, <2>4
      <4>2. op'[n].kind \notin {"patch", "toggle", "reset"}
        BY <1>11
      <4> QED
        BY <1>5, <1>8, <4>1, <4>2, MarksAre DEF Asks, Entity, Item
    <3>5. WantInv(h, op', want', mem, e)
      BY <1>6, <1>8, <1>12, <3>1, <3>2, <3>3, <3>4 DEF WantInv
    <3> QED
      BY <1>1, <1>2, <3>5, WantHeap DEF storeVars
  <2> QED
    BY <2>3, <2>6, <2>7, <2>8 DEF CleanRow
<1>19. \A x \in Entity \ excused' : CleanRow(x)'
  BY <1>16, <1>17, <1>18
<1> QED
  BY <1>14, <1>15, <1>19 DEF SInv

\* A toggle reaches the rows its recipe owns through new objects in the lists;
\* what closures hold of them stays as it was.
LEMMA ToggleSettles ==
    ASSUME IInv, IInv', SInv, NEW r \in Entity, NEW s \in Slot, ToggleRecipe(r, s)
    PROVE  SInv'
<1> DEFINE mark == IF obj[r][s].mark = "on" THEN "off" ELSE "on"
           new(g, t) == IF <<g, t>> \notin RowsOf(r, s) \/ t \notin HeldBy(op, g) THEN t
                        ELSE NewSlot(g, IF t = srv[g] THEN {} ELSE {NewSlot(g, {})})
           marked == [obj EXCEPT ![r][s].mark = mark]
           hit(x, t) == \E row \in RowsOf(r, s) : row[1] = x /\ new(x, row[2]) = t
           put(x, t) == LET row == CHOOSE y \in RowsOf(r, s) : y[1] = x /\ new(x, y[2]) = t
                        IN [obj[x][row[2]] EXCEPT !.mark = Follows(mark)]
           h == [x \in Entity |-> [t \in Slot |-> IF hit(x, t) THEN put(x, t) ELSE marked[x][t]]]
           stranded == {g \in Owned(r) : \E n \in DOMAIN op : op[n].kind = "create" /\ op[n].e = g}
           wanted(x) == CASE x = r -> mark
                          [] x \in Owned(r) /\ want[x] # Absent -> Follows(mark)
                          [] OTHER -> want[x]
<1>1. /\ Edit("toggle") /\ r \in Recipe /\ s \in Found(r)
      /\ srv' = [g \in Entity |-> IF g \in Ing THEN new(g, srv[g]) ELSE srv[g]]
      /\ loc' = [g \in Entity |-> IF g \in Ing THEN new(g, loc[g]) ELSE loc[g]]
      /\ want' = [x \in Entity |-> wanted(x)]
      /\ excused' = excused \cup Raced("toggle", r) \cup stranded
      /\ Issue("toggle", r, s, h) /\ Heap(h)
  BY DEF ToggleRecipe
<1>2. /\ UNCHANGED <<storeVars, drain, turns, fetch, replaying, online>> /\ edits < MaxEdits /\ made' = made
      /\ edits + 1 \in 1..MaxEdits /\ r \in made
      /\ OpInv /\ OpInv' /\ QueueInv /\ OrderInv /\ MadeInv /\ FirstInv /\ GhostInv /\ PageInv
  <2>1. Edit("toggle") /\ s \in Found(r)
    BY <1>1
  <2>2. OpInv'
    BY DEF IInv
  <2> QED
    BY <2>1, <2>2, EditIs
<1>3. PICK n \in 1..MaxEdits : n = edits + 1
  BY <1>2
<1>4. ASSUME NEW g \in Ing, NEW t, <<g, t>> \in RowsOf(r, s)
      PROVE  new(g, t) \in Slot /\ (t \notin HeldBy(op, g) => new(g, t) = t)
             /\ (t \in HeldBy(op, g) => new(g, t) \notin HeldBy(op, g))
  <2>0. t \in Slot /\ t \in {srv[g], loc[g]}
    BY <1>4, RowsAre
  <2>1. CASE t \notin HeldBy(op, g)
    BY <2>0, <2>1
  <2>2. CASE t \in HeldBy(op, g) /\ t = srv[g]
    <3> DEFINE X == {srv[g], loc[g]}
    <3>1. IsFiniteSet(X) /\ Cardinality(X) \in Nat /\ Cardinality(X) <= 2
      BY PairSize
    <3>2. edits + Cardinality(X) < MaxEdits + 2
      <4> HIDE DEF X
      <4> QED
        BY <1>2, <3>1, SlotFacts DEF OpInv
    <3>3. NewSlot(g, {}) \in Slot \ HeldBy(op, g)
      BY <1>2, <3>1, <3>2, SlotLeft
    <3> QED
      BY <1>4, <2>2, <3>3
  <2>3. CASE t \in HeldBy(op, g) /\ t # srv[g]
    <3> DEFINE other == NewSlot(g, {})
               X == {srv[g], other}
    <3>1. IsFiniteSet(X) /\ Cardinality(X) \in Nat /\ Cardinality(X) <= 2
      BY PairSize
    <3>2. edits + Cardinality(X) < MaxEdits + 2
      <4> HIDE DEF X
      <4> QED
        BY <1>2, <3>1, SlotFacts DEF OpInv
    <3>3. loc[g] \in HeldBy(op, g)
      BY <2>0, <2>3
    <3> HIDE DEF other
    <3>4. NewSlot(g, {other}) \in Slot \ HeldBy(op, g)
      <4>1. \A u \in Slot : u \in {srv[g], loc[g]} \cup {other} => u \in HeldBy(op, g) \cup X
        BY <3>3
      <4> QED
        BY <1>2, <3>1, <3>2, <4>1, SlotLeft
    <3> QED
      BY <1>4, <2>3, <3>4 DEF other
  <2> QED
    BY <2>1, <2>2, <2>3
<1>5. \A x, t : <<x, t>> \notin RowsOf(r, s) => new(x, t) = t
  OBVIOUS
<1>6. mark \in {"on", "off"} /\ mark # Absent /\ Follows(mark) # Absent
  <2>1. mark \in {"on", "off"}
    OBVIOUS
  <2> HIDE DEF mark
  <2>2. Follows(mark) \in {"needed", "not_needed"}
    BY MarksAre
  <2> QED
    BY <2>1, <2>2, StoreAssumption DEF StoreAssumption
<1>7. /\ marked[r][s] = [obj[r][s] EXCEPT !.mark = mark]
      /\ \A x \in Entity : \A t \in Slot : x # r \/ t # s => marked[x][t] = obj[x][t]
  <2>1. DOMAIN obj = Entity /\ DOMAIN obj[r] = Slot
    BY <1>2 DEF PageInv, HeapOK
  <2> HIDE DEF mark
  <2> QED
    BY <2>1
<1>8. /\ wanted(r) = mark
      /\ \A x \in Entity : x # r /\ x \notin Owned(r) => wanted(x) = want[x]
      /\ \A x \in Owned(r) : x # r => wanted(x) = IF want[x] # Absent THEN Follows(mark) ELSE want[x]
  <2> HIDE DEF mark
  <2>1. r \notin Owned(r)
    BY <1>1, ScopeIs, MarksAre
  <2>2. wanted(r) = mark
    BY <2>1
  <2>3. \A x \in Entity : x # r /\ x \notin Owned(r) => wanted(x) = want[x]
    OBVIOUS
  <2>4. \A x \in Owned(r) : x # r => wanted(x) = IF want[x] # Absent THEN Follows(mark) ELSE want[x]
    OBVIOUS
  <2> HIDE DEF wanted
  <2> QED
    BY <2>2, <2>3, <2>4
<1>9. \A x \in Owned(r) : x \in Ing /\ x \in Entity /\ RecipeOf[x] = r /\ x # r
    <3>1. r \in Recipe
      BY <1>1
    <3> QED
      BY <3>1, ScopeIs, MarksAre
<1> HIDE DEF mark, marked, new, wanted
\* An object a step puts in a list is a copy of one that was in it.
<1>10. ASSUME NEW x \in Entity, NEW t, hit(x, t)
       PROVE  /\ x \in Owned(r) /\ x \in Ing /\ t \notin HeldBy(op, x) /\ t \in Slot
              /\ \E u \in Slot : /\ u \in {srv[x], loc[x]}
                                 /\ put(x, t).id = obj[x][u].id /\ put(x, t).gone = obj[x][u].gone
  <2> DEFINE row == CHOOSE y \in RowsOf(r, s) : y[1] = x /\ new(x, y[2]) = t
  <2>1. row \in RowsOf(r, s) /\ row[1] = x /\ new(x, row[2]) = t
    BY <1>10
  <2>2. put(x, t) = [obj[x][row[2]] EXCEPT !.mark = Follows(mark)]
    OBVIOUS
  <2> HIDE DEF row, put
  <2>3. row = <<x, row[2]>> /\ x \in Owned(r) /\ row[2] \in Slot /\ row[2] \in {srv[x], loc[x]}
    BY <2>1 DEF RowsOf
  <2>4. x \in Ing /\ <<x, row[2]>> \in RowsOf(r, s)
    BY <1>9, <2>1, <2>3
  <2>5. t \in Slot /\ t \notin HeldBy(op, x)
    BY <1>4, <2>1, <2>4
  <2>6. put(x, t).id = obj[x][row[2]].id /\ put(x, t).gone = obj[x][row[2]].gone
    <3>1. obj[x][row[2]] \in Row
      BY <1>2, <2>3 DEF PageInv, HeapOK
    <3> QED
      BY <2>2, <3>1 DEF Row
  <2> QED
    BY <2>3, <2>4, <2>5, <2>6
<1>11. \A x \in Entity : \A t : <<x, t>> \in RowsOf(r, s) => hit(x, new(x, t))
  <2>1. \A x, u : <<x, u>>[1] = x /\ <<x, u>>[2] = u
    OBVIOUS
  <2> QED
    BY <2>1
<1>12. \A x \in Entity : \A t \in Slot : h[x][t] = IF hit(x, t) THEN put(x, t) ELSE marked[x][t]
  OBVIOUS
<1> HIDE DEF hit, put, h
<1>13. /\ \A x \in Entity : x \notin Owned(r) => \A t \in Slot : h[x][t] = marked[x][t]
       /\ \A x \in Entity : x # r => \A t \in Slot : t \in HeldBy(op, x) => h[x][t] = obj[x][t]
  BY <1>7, <1>10, <1>12
<1>14. /\ DOMAIN want' = Entity /\ want'[r] = mark
       /\ \A x \in Entity : x # r /\ x \notin Owned(r) => want'[x] = want[x]
       /\ \A x \in Owned(r) : /\ want'[x] = Absent <=> want[x] = Absent
                              /\ want[x] # Absent => want'[x] = Follows(mark)
  BY <1>1, <1>6, <1>8, <1>9
<1>15. "toggle" \in Kinds /\ Scope("toggle", r) = {r} \cup Owned(r)
  BY <1>1, ScopeIs DEF Kinds
<1>16. /\ Adds(n, "toggle", r, s, h)
       /\ op'[n] = NoOp => online /\ ~Sends("toggle", h[r][s])
  BY <1>1, <1>2, <1>3, <1>15, IssueAdds
<1>17. /\ \A x \in Entity : srv'[x] # 0 => srv[x] # 0
       /\ \A x \in Entity : loc'[x] # 0 => loc[x] # 0
       /\ \A x \in Entity : x \notin Owned(r) => srv'[x] = srv[x] /\ loc'[x] = loc[x]
  <2>1. \A x \in Entity : \A t : new(x, t) = t \/ (x \in Owned(r) /\ t # 0)
    <3>1. \A x \in Entity : \A t : <<x, t>> \in RowsOf(r, s) => x \in Owned(r) /\ t # 0
      BY SlotFacts DEF RowsOf
    <3> SUFFICES ASSUME NEW x \in Entity, NEW t, <<x, t>> \in RowsOf(r, s) \/ <<x, t>> \notin RowsOf(r, s)
                 PROVE  new(x, t) = t \/ (x \in Owned(r) /\ t # 0)
      OBVIOUS
    <3>2. <<x, t>> \notin RowsOf(r, s) => new(x, t) = t
      BY <1>5
    <3> QED
      BY <3>1, <3>2
  <2> QED
    BY <1>1, <2>1
<1>18. OrderInv' /\ MadeInv' /\ FirstInv'
  <2>1. Suits("toggle", r)
    BY <1>2, <1>15 DEF Suits
  <2>2. /\ \A x \in Entity : want'[x] # Absent => x \in made'
        /\ \A x \in Entity : srv'[x] # 0 \/ loc'[x] # 0 => x \in made'
    BY <1>2, <1>14, <1>17 DEF MadeInv
  <2> QED
    BY <1>2, <1>14, <1>16, <2>1, <2>2, EditBooks
<1>19. GhostInv'
  <2> DEFINE S == Raced("toggle", r) \cup stranded
  <2>1. ASSUME NEW g \in Ing, RecipeOf[g] \in S PROVE g \in S
    <3>1. RecipeOf[g] \notin stranded
      BY <1>9, MarksAre
    <3>2. g \in Raced("toggle", r)
      BY <2>1, <3>1, RacedOwns
    <3> QED
      BY <3>2
  <2>2. excused' = excused \cup S
    BY <1>1
  <2> HIDE DEF S
  <2> QED
    BY <1>2, <2>1, <2>2, GhostGrows DEF storeVars
<1>20. ASSUME NEW x \in Entity \ excused', x \notin Scope("toggle", r)
       PROVE  CleanRow(x)'
  <2>1. CleanRow(x)
    BY <1>1, <1>20 DEF SInv
  <2>2. Spares(Scope("toggle", r), h)
    BY <1>7, <1>13, <1>14, <1>15, <1>17 DEF Spares
  <2> QED
    BY <1>1, <1>2, <1>16, <1>20, <2>1, <2>2, EditPasses
\* The recipe itself.
<1>21. r \notin Owned(r) /\ Alike(obj, h, r) /\ h[r][s].mark = mark
  <2>1. r \notin Owned(r)
    BY <1>9
  <2>2. obj[r][s] \in Row /\ \A t \in Slot : h[r][t] = marked[r][t]
    BY <1>2, <1>13, <2>1 DEF PageInv, HeapOK
  <2>3. /\ h[r][s].id = obj[r][s].id /\ h[r][s].rid = obj[r][s].rid /\ h[r][s].gone = obj[r][s].gone
        /\ h[r][s].mark = mark
    BY <1>7, <2>2 DEF Row
  <2>4. \A t \in Slot : t # s => h[r][t] = obj[r][t]
    BY <1>7, <2>2
  <2> QED
    BY <2>1, <2>3, <2>4 DEF Alike
<1>22. ASSUME r \notin excused'
       PROVE  /\ r \in Entity \ excused /\ CleanRow(r) /\ r \notin Raced("toggle", r)
              /\ Calm(r) /\ want[r] # Absent
              /\ ClosureRow(h, op', srv', loc', want', r, n)
              /\ op'[n].kind = "toggle" /\ op'[n].e = r /\ op'[n].o = s /\ op'[n].pc \in {"queued", "sent"}
              /\ MarkOf(h, op'[n]) = mark
              /\ \A x \in Scope("toggle", r) : Writer(op'[n], x)
  <2>1. r \in Entity \ excused /\ CleanRow(r) /\ r \notin Raced("toggle", r)
    BY <1>1, <1>22 DEF SInv
  <2>2. r \in Scope("toggle", r)
    BY <1>15
  <2>3. Calm(r) /\ want[r] # Absent
    BY <1>2, <2>1, <2>2, RacedIs
  <2>4. op'[n] # NoOp /\ ClosureRow(h, op', srv', loc', want', r, n)
    BY <1>1, <1>16, <1>21, <2>1, <2>3, EditedRow
  <2>5. /\ op'[n].kind = "toggle" /\ op'[n].e = r /\ op'[n].o = s /\ op'[n].pc \in {"queued", "sent"}
        /\ op'[n].pc = "sent" => op'[n].msg.mark = h[r][s].mark
    BY <1>16, <2>4 DEF Adds
  <2>6. MarkOf(h, op'[n]) = mark
    BY <1>21, <2>5 DEF MarkOf
  <2>7. \A x \in Scope("toggle", r) : Writer(op'[n], x)
    BY <2>5 DEF Writer, Writes, Unserved, Reach
  <2> QED
    BY <2>1, <2>3, <2>4, <2>5, <2>6, <2>7
<1>23. ASSUME r \notin excused'
       PROVE  CleanRow(r)'
  <2>1. /\ Apart(r) /\ Serial(r) /\ RowInv(obj, op, srv, loc, want, r) /\ NewInv(r) /\ WantInv(obj, op, want, mem, r)
        /\ Calm(r) /\ want[r] # Absent /\ ClosureRow(h, op', srv', loc', want', r, n)
    BY <1>22, <1>23 DEF CleanRow
  <2>2. Apart(r)' /\ Serial(r)' /\ NewInv(r)'
    BY <1>2, <1>16, <2>1, EditWay, EditNew
  <2>3. r \notin Ing
    BY <1>1, MarksAre
  <2>4. RowInv(obj', op', srv', loc', want', r)
    <3>1. RowInv(h, op', srv', loc', want', r)
      BY <1>2, <1>6, <1>14, <1>16, <1>17, <1>21, <2>1, <2>3, EditRow
    <3> QED
      BY <1>1, <1>2, <3>1, RowHeap
  <2>5. WantInv(obj', op', want', mem', r)
    <3>1. Writer(op'[n], r) /\ Asks(h, op'[n], want', r) = want'[r]
      BY <1>14, <1>15, <1>22, <1>23 DEF Asks
    <3>2. WantInv(h, op', want', mem, r)
      BY <1>6, <1>14, <1>16, <2>1, <2>3, <3>1, EditWants
    <3> QED
      BY <1>1, <1>2, <3>2, WantHeap DEF storeVars
  <2> QED
    BY <2>2, <2>4, <2>5 DEF CleanRow
\* A row it owns.
<1>24. ASSUME NEW x \in Entity \ excused', x \in Owned(r)
       PROVE  CleanRow(x)'
  <2>1. /\ CleanRow(x) /\ x \in Entity \ excused /\ x \notin Raced("toggle", r) /\ x \notin stranded
        /\ x \in Ing /\ RecipeOf[x] = r /\ x # r /\ x \in Scope("toggle", r)
    BY <1>1, <1>9, <1>15, <1>24 DEF SInv
  <2>2. r \notin excused'
    BY <1>19, <1>24, <2>1 DEF GhostInv
  <2>3. \A k \in 1..MaxEdits : ~Makes(op[k], x)
    <3>1. DOMAIN op = 1..MaxEdits
      BY <1>2 DEF OpInv
    <3> QED
      BY <1>24, <2>1, <3>1 DEF Makes, Of
  <2>4. /\ Apart(x) /\ Serial(x) /\ RowInv(obj, op, srv, loc, want, x) /\ NewInv(x) /\ WantInv(obj, op, want, mem, x)
        /\ Calm(x)
    BY <1>2, <2>1, RacedIs DEF CleanRow
  <2>5. Apart(x)' /\ Serial(x)' /\ NewInv(x)'
    BY <1>2, <1>16, <2>4, EditWay, EditNew
  <2>6. ASSUME NEW u \in Slot, u \in {srv[x], loc[x]} PROVE ~obj[x][u].gone /\ obj[x][u].id = "real"
    <3>1. ListedRow(obj, op, x, u)
      BY <2>4, <2>6 DEF RowInv
    <3> QED
      BY <2>3, <3>1 DEF ListedRow
  <2>7. ASSUME NEW k \in 1..MaxEdits, Of(op'[k], x)
        PROVE  ClosureRow(h, op', srv', loc', want', x, k)
    <3>1. k # n
      <4>1. ~Of(op'[n], x)
        BY <1>16, <2>1, AddsIs
      <4> QED
        BY <2>7, <4>1
    <3>2. op'[k] = op[k]
      BY <1>16, <3>1, AddsIs
    <3>3. Of(op[k], x) /\ op[k].o \in Slot /\ op[k].o \in HeldBy(op, x) /\ op[k].kind # "create"
      BY <1>2, <2>3, <2>7, <3>2, ClosureIs DEF HeldBy, Of, Makes, OpInv
    <3>4. h[x][op[k].o] = obj[x][op[k].o]
      BY <1>13, <2>1, <3>3
    <3>5. ClosureRow(obj, op, srv, loc, want, x, k)
      BY <2>4, <3>3 DEF RowInv
    <3> QED
      BY <1>14, <1>24, <2>3, <3>2, <3>3, <3>4, <3>5 DEF ClosureRow
  <2>8. ASSUME NEW t \in Slot, t \in {srv'[x], loc'[x]}
        PROVE  ListedRow(h, op', x, t)
    <3>1. PICK u : u \in {srv[x], loc[x]} /\ t = new(x, u)
      BY <1>1, <2>1, <2>8
    <3>2. CASE hit(x, t)
      <4>1. PICK v \in Slot : v \in {srv[x], loc[x]} /\ put(x, t).id = obj[x][v].id /\ put(x, t).gone = obj[x][v].gone
        BY <1>10, <2>1, <3>2
      <4>2. h[x][t] = put(x, t)
        BY <1>12, <2>1, <3>2
      <4> QED
        BY <2>6, <4>1, <4>2 DEF ListedRow
    <3>3. CASE ~hit(x, t)
      <4>1. t = u
        BY <1>5, <1>11, <2>1, <3>1, <3>3
      <4>2. h[x][t] = obj[x][t]
        BY <1>7, <1>12, <2>1, <3>3
      <4> QED
        BY <2>6, <3>1, <4>1, <4>2 DEF ListedRow
    <3> QED
      BY <3>2, <3>3
  <2>9. RowInv(obj', op', srv', loc', want', x)
    <3>1. RowInv(h, op', srv', loc', want', x)
      BY <2>7, <2>8 DEF RowInv
    <3> QED
      BY <1>1, <1>2, <2>1, <3>1, RowHeap
  <2>10. WantInv(obj', op', want', mem', x)
    <3>1. Writer(op'[n], x) /\ op'[n].kind = "toggle" /\ op'[n].e = r /\ MarkOf(h, op'[n]) = mark
      BY <1>22, <2>1, <2>2
    <3>2. want'[x] # Absent => Asks(h, op'[n], want', x) = want'[x]
      BY <1>14, <1>24, <2>1, <3>1 DEF Asks
    <3>3. WantInv(h, op', want', mem, x)
      BY <1>6, <1>14, <1>16, <1>24, <2>1, <2>4, <3>1, <3>2, EditWants
    <3> QED
      BY <1>1, <1>2, <2>1, <3>3, WantHeap DEF storeVars
  <2> QED
    BY <2>5, <2>9, <2>10 DEF CleanRow
<1>25. \A x \in Entity \ excused' : CleanRow(x)'
  BY <1>15, <1>20, <1>23, <1>24
<1> QED
  BY <1>18, <1>19, <1>25 DEF SInv

\* A deletion flags what would still be sent of the row, and of a recipe's
\* rows; the server is asked unless it never heard of the row.
LEMMA RemoveSettles ==
    ASSUME IInv, IInv', SInv, NEW e \in Entity, NEW s \in Slot, Remove(e, s)
    PROVE  SInv'
<1> DEFINE flagged == {<<e, s>>} \cup IF e \in Recipe THEN RowsOf(e, s) ELSE {}
           left == flagged \cup {<<e, t>> : t \in {u \in {srv[e], loc[e]} \ {0} : obj[e][u].id = obj[e][s].id}}
           h == [x \in Entity |-> [t \in Slot |->
                    IF <<x, t>> \in flagged THEN [obj[x][t] EXCEPT !.gone = TRUE] ELSE obj[x][t]]]
           kept(x, t) == IF <<x, t>> \in left THEN 0 ELSE t
<1>1. /\ Edit("delete") /\ s \in Found(e)
      /\ srv' = [x \in Entity |-> kept(x, srv[x])]
      /\ loc' = [x \in Entity |-> kept(x, loc[x])]
      /\ want' = [x \in Entity |-> IF x \in Scope("delete", e) THEN Absent ELSE want[x]]
      /\ excused' = excused \cup Raced("delete", e)
      /\ IF obj[e][s].id = "temp"
         THEN edits' = edits + 1 /\ UNCHANGED <<op, queue>>
         ELSE Issue("delete", e, s, h)
      /\ Heap(h)
  BY DEF Remove
<1>2. /\ UNCHANGED <<storeVars, drain, turns, fetch, replaying, online>> /\ edits < MaxEdits /\ made' = made
      /\ edits + 1 \in 1..MaxEdits /\ e \in made
      /\ OpInv /\ OpInv' /\ QueueInv /\ OrderInv /\ MadeInv /\ FirstInv /\ GhostInv /\ PageInv /\ DocOK(mem)
  BY <1>1, EditIs DEF IInv, StoreInv
<1>3. PICK n \in 1..MaxEdits : n = edits + 1
  BY <1>2
<1>4. "delete" \in Kinds /\ e \in Scope("delete", e)
  BY ScopeIs DEF Kinds
<1>5. Adds(n, "delete", e, s, h) /\ (op'[n] = NoOp => obj[e][s].id = "temp")
  <2> HIDE DEF h
  <2>1. CASE obj[e][s].id = "temp"
    <3>1. op[n] = NoOp /\ \A k \in 1..MaxEdits : op[k].pc # "none" => k < n
      BY <1>2, <1>3, NextEdit
    <3>2. op' = op /\ queue' = queue
      BY <1>1, <2>1
    <3> QED
      BY <2>1, <3>1, <3>2, NoOpIs DEF Adds
  <2>2. CASE obj[e][s].id # "temp"
    BY <1>1, <1>2, <1>3, <1>4, <2>2, IssueAdds
  <2> QED
    BY <2>1, <2>2
<1>6. /\ <<e, s>> \in flagged /\ flagged \subseteq left
      /\ e \in Recipe => RowsOf(e, s) \subseteq flagged
      /\ \A x \in Entity : \A t : <<x, t>> \in left => x \in Scope("delete", e)
  <2>1. /\ <<e, s>> \in flagged /\ flagged \subseteq left
        /\ e \in Recipe => RowsOf(e, s) \subseteq flagged
    OBVIOUS
  <2>2. \A x \in Entity : \A t : <<x, t>> \in left => x = e \/ (e \in Recipe /\ <<x, t>> \in RowsOf(e, s))
    OBVIOUS
  <2>3. \A x, t : <<x, t>> \in RowsOf(e, s) => x \in Owned(e)
    BY DEF RowsOf
  <2> HIDE DEF left, flagged
  <2> QED
    BY <2>1, <2>2, <2>3, ScopeIs
<1>7. /\ \A x \in Entity : kept(x, 0) = 0
      /\ \A x \in Entity : \A t : kept(x, t) # 0 => kept(x, t) = t /\ <<x, t>> \notin left
      /\ \A x \in Entity : \A t : x \notin Scope("delete", e) => kept(x, t) = t
  <2> HIDE DEF left
  <2> QED
    BY <1>6
<1> HIDE DEF flagged, left, kept
<1>8. ASSUME NEW x \in Entity, NEW t \in Slot
      PROVE  /\ h[x][t].id = obj[x][t].id /\ h[x][t].rid = obj[x][t].rid
             /\ <<x, t>> \in flagged \/ obj[x][t].gone = TRUE => h[x][t].gone = TRUE
             /\ <<x, t>> \notin flagged => h[x][t] = obj[x][t]
  <2>1. obj[x][t] \in Row
    BY <1>2 DEF PageInv, HeapOK
  <2>2. h[x][t] = IF <<x, t>> \in flagged THEN [obj[x][t] EXCEPT !.gone = TRUE] ELSE obj[x][t]
    OBVIOUS
  <2> HIDE DEF h
  <2> QED
    BY <2>1, <2>2 DEF Row
<1> HIDE DEF h
<1>9. /\ \A x \in Entity : srv[x] = 0 => srv'[x] = 0
      /\ \A x \in Entity : loc[x] = 0 => loc'[x] = 0
      /\ \A x \in Entity : x \notin Scope("delete", e) => srv'[x] = srv[x] /\ loc'[x] = loc[x]
      /\ \A x \in Entity : \A t \in Slot : t \in {srv'[x], loc'[x]} =>
            t \in {srv[x], loc[x]} /\ <<x, t>> \notin flagged
  <2>1. \A x \in Entity : srv'[x] = kept(x, srv[x]) /\ loc'[x] = kept(x, loc[x])
    BY <1>1
  <2>2. \A t \in Slot : t # 0
    BY SlotFacts
  <2>3. \A x \in Entity : x \notin Scope("delete", e) => srv'[x] = srv[x] /\ loc'[x] = loc[x]
    BY <1>7, <2>1
  <2>4. \A x \in Entity : (srv[x] = 0 => srv'[x] = 0) /\ (loc[x] = 0 => loc'[x] = 0)
    <3> SUFFICES ASSUME NEW x \in Entity PROVE (srv[x] = 0 => srv'[x] = 0) /\ (loc[x] = 0 => loc'[x] = 0)
      OBVIOUS
    <3>1. kept(x, 0) = 0
      BY <1>7
    <3> QED
      BY <2>1, <3>1
  <2>5. ASSUME NEW x \in Entity, NEW t \in Slot, t \in {srv'[x], loc'[x]}
        PROVE  t \in {srv[x], loc[x]} /\ <<x, t>> \notin flagged
    <3>1. t = kept(x, srv[x]) \/ t = kept(x, loc[x])
      BY <2>1, <2>5
    <3>2. \A u : t = kept(x, u) => t = u /\ <<x, t>> \notin left
      BY <1>7, <2>2
    <3>3. t \in {srv[x], loc[x]} /\ <<x, t>> \notin left
      BY <3>1, <3>2
    <3> QED
      BY <1>6, <3>3
  <2> QED
    BY <2>3, <2>4, <2>5
<1>10. /\ DOMAIN want' = Entity
       /\ \A x \in Entity : want'[x] = IF x \in Scope("delete", e) THEN Absent ELSE want[x]
  BY <1>1
<1>11. OrderInv' /\ MadeInv' /\ FirstInv'
  <2>1. Suits("delete", e)
    BY <1>2, <1>4 DEF Suits
  <2>2. /\ \A x \in Entity : want'[x] # Absent => x \in made'
        /\ \A x \in Entity : srv'[x] # 0 \/ loc'[x] # 0 => x \in made'
    BY <1>2, <1>9, <1>10 DEF MadeInv
  <2> QED
    BY <1>2, <1>5, <1>10, <2>1, <2>2, EditBooks
<1>12. GhostInv'
  BY <1>1, <1>2, RacedOwns, GhostGrows DEF storeVars
<1>13. ASSUME NEW x \in Entity \ excused', x \notin Scope("delete", e)
       PROVE  CleanRow(x)'
  <2>1. CleanRow(x)
    BY <1>1, <1>13 DEF SInv
  <2>2. \A y \in Entity : y \notin Scope("delete", e) => \A t \in Slot : h[y][t] = obj[y][t]
    BY <1>6, <1>8
  <2>3. Spares(Scope("delete", e), h)
    BY <1>9, <1>10, <2>2 DEF Spares
  <2> QED
    BY <1>1, <1>2, <1>5, <1>13, <2>1, <2>3, EditPasses
<1>14. ASSUME NEW x \in Entity \ excused', x \in Scope("delete", e)
       PROVE  CleanRow(x)'
  <2>1. x = e \/ (x \in Ing /\ RecipeOf[x] = e /\ e \in Recipe /\ x \in Owned(e))
    BY <1>14, ScopeIs
  <2>2. e \notin excused'
    BY <1>12, <1>14, <2>1 DEF GhostInv
  <2>3. x \in Entity \ excused /\ CleanRow(x) /\ e \in Entity \ excused /\ CleanRow(e)
        /\ x \notin Raced("delete", e) /\ e \notin Raced("delete", e)
    BY <1>1, <1>14, <2>2 DEF SInv
  <2>4. Calm(x) /\ Calm(e) /\ want[e] # Absent
    BY <1>2, <1>4, <1>14, <2>3, RacedIs
  <2>5. /\ Apart(x) /\ Serial(x) /\ RowInv(obj, op, srv, loc, want, x) /\ NewInv(x)
        /\ RowInv(obj, op, srv, loc, want, e) /\ NewInv(e)
    BY <2>3 DEF CleanRow
  <2>6. Apart(x)' /\ Serial(x)' /\ NewInv(x)'
    BY <1>2, <1>5, <2>4, <2>5, EditWay, EditNew
  <2>7. ASSUME NEW y, NEW k \in 1..MaxEdits, Makes(op[k], y), Calm(y)
        PROVE  op[k].pc = "queued" /\ Unserved(op[k])
    <3>1. op[k].pc # "none" /\ op[k].kind = "create" /\ y \in Reach(op[k])
      BY <2>7, ReachIs DEF Makes, Of
    <3> QED
      BY <1>2, <2>7, <3>1, CalmIs
  <2>8. /\ obj[e][s].id = IF Underway(op, e) THEN "temp" ELSE "real"
        /\ \A k \in 1..MaxEdits : Makes(op[k], e) => op[k].o = s
    BY <1>1, <1>2, <2>4, <2>5, <2>7, FoundId
  <2>9. want'[x] = Absent
    BY <1>10, <1>14
  <2>10. ASSUME NEW k \in 1..MaxEdits, Of(op'[k], x)
         PROVE  ClosureRow(h, op', srv', loc', want', x, k)
    <3>1. CASE k = n
      <4>1. op'[n].kind = "delete"
        <5>1. op'[n] # NoOp
          BY <2>10, <3>1, NoOpIs
        <5> QED
          BY <1>5, <5>1 DEF Adds
      <4> QED
        BY <2>9, <3>1, <4>1 DEF ClosureRow
    <3>2. CASE k # n /\ op[k].kind # "create"
      <4>1. op'[k] = op[k]
        BY <1>5, <3>2 DEF Adds
      <4> QED
        BY <2>9, <3>2, <4>1 DEF ClosureRow
    <3>3. CASE k # n /\ op[k].kind = "create"
      <4>1. op'[k] = op[k]
        BY <1>5, <3>3 DEF Adds
      <4>2. Makes(op[k], x) /\ Of(op[k], x) /\ op[k].o \in Slot
        BY <1>2, <2>10, <3>3, <4>1, ClosureIs DEF Makes
      <4>3. ClosureRow(obj, op, srv, loc, want, x, k) /\ op[k].pc = "queued" /\ Unserved(op[k])
        BY <2>4, <2>5, <2>7, <4>2 DEF RowInv
      <4>4. obj[x][op[k].o].id = "temp" /\ srv[x] = 0
        BY <3>3, <4>3 DEF ClosureRow
      <4>5. <<x, op[k].o>> \in flagged \/ obj[x][op[k].o].gone = TRUE
        <5>1. CASE x = e
          BY <1>6, <2>8, <4>2, <5>1
        <5>2. CASE x # e /\ want[x] = Absent
          <6>1. obj[x][op[k].o].gone
            BY <3>3, <4>3, <5>2 DEF ClosureRow
          <6>2. obj[x][op[k].o] \in Row
            BY <1>2, <4>2 DEF PageInv, HeapOK
          <6> QED
            BY <6>1, <6>2 DEF Row
        <5>3. CASE x # e /\ want[x] # Absent
          <6>1. x \in Ing /\ RecipeOf[x] = e /\ e \in Recipe /\ x \in Owned(e)
            BY <2>1, <5>3
          <6>2. op[k].o = loc[x] /\ obj[x][op[k].o].rid = IF Underway(op, e) THEN "temp" ELSE "real"
            BY <3>3, <4>3, <5>3, <6>1 DEF ClosureRow
          <6>3. obj[x][op[k].o].rid = obj[e][s].id
            BY <2>8, <6>2
          <6>4. <<x, op[k].o>> \in RowsOf(e, s)
            BY <4>2, <6>1, <6>2, <6>3 DEF RowsOf
          <6> QED
            BY <1>6, <6>1, <6>4
        <5> QED
          BY <5>1, <5>2, <5>3
      <4>6. h[x][op[k].o].gone = TRUE /\ h[x][op[k].o].id = "temp"
        BY <1>8, <4>2, <4>4, <4>5
      <4>7. srv'[x] = 0
        BY <1>9, <4>4
      <4> QED
        BY <2>9, <3>3, <4>1, <4>3, <4>6, <4>7 DEF ClosureRow
    <3> QED
      BY <3>1, <3>2, <3>3
  <2>11. ASSUME NEW t \in Slot, t \in {srv'[x], loc'[x]}
         PROVE  ListedRow(h, op', x, t)
    <3>1. t \in {srv[x], loc[x]} /\ h[x][t] = obj[x][t]
      <4>1. t \in {srv[x], loc[x]} /\ <<x, t>> \notin flagged
        BY <1>9, <2>11
      <4> QED
        BY <1>8, <4>1
    <3>2. ListedRow(obj, op, x, t)
      BY <2>5, <3>1 DEF RowInv
    <3>3. \A k \in 1..MaxEdits : Makes(op[k], x) => op'[k] = op[k]
      BY <1>5, AddsIs
    <3> QED
      BY <3>1, <3>2, <3>3 DEF ListedRow
  <2>12. RowInv(obj', op', srv', loc', want', x)
    <3>1. RowInv(h, op', srv', loc', want', x)
      BY <2>10, <2>11 DEF RowInv
    <3> QED
      BY <1>1, <1>2, <1>14, <3>1, RowHeap
  <2>13. WantInv(obj', op', want', mem', x)
    <3>1. CASE op'[n] # NoOp
      <4>1. Removes(op'[n], x)
        BY <1>5, <1>14, <3>1 DEF Adds, Removes, Writer, Unserved, Writes, Reach
      <4> QED
        BY <2>9, <4>1 DEF WantInv, Removes
    <3>2. CASE op'[n] = NoOp
      <4>1. obj[e][s].id = "temp"
        BY <1>5, <3>2
      <4>2. Underway(op, e)
        BY <2>8, <4>1
      <4>3. PICK k \in 1..MaxEdits : Makes(op[k], e)
        BY <4>2 DEF Underway
      <4>4. Unserved(op[k])
        BY <2>4, <2>7, <4>3
      <4>5. mem[e] = Absent
        BY <2>5, <4>3, <4>4 DEF NewInv, Unseen
      <4>6. mem[x] = Absent
        BY <1>2, <2>1, <4>5 DEF DocOK
      <4> QED
        BY <1>2, <2>9, <4>6 DEF WantInv, storeVars
    <3> QED
      BY <3>1, <3>2
  <2> QED
    BY <2>6, <2>12, <2>13 DEF CleanRow
<1>15. \A x \in Entity \ excused' : CleanRow(x)'
  BY <1>13, <1>14
<1> QED
  BY <1>11, <1>12, <1>15 DEF SInv

-----------------------------------------------------------------------------
\* What the user asked for, in every state.

LEMMA SettledStarts == Init => SInv
<1> SUFFICES ASSUME Init PROVE SInv
  OBVIOUS
<1>1. IInv
  BY Starts
<1>2. /\ want = mem /\ disk = mem /\ dirty = {} /\ made = Known /\ excused = {} /\ queue = <<>> /\ turns = 0
      /\ drain = [d \in Turns |-> NoDrain]
      /\ fetch = [k \in FetchSlots |-> NoFetch]
      /\ srv = [e \in Entity |-> IF e \in Known THEN 1 ELSE 0] /\ loc = [e \in Entity |-> 0]
  BY DEF Init
<1>3. \A n \in 1..MaxEdits : op[n] = NoOp /\ op[n].pc = "none"
  BY NoOpIs DEF Init
<1>4. \A k \in FetchSlots : \A part \in Part : fetch[k][part].pc = "idle"
  BY <1>2 DEF NoFetch, NoGet
<1>5. DOMAIN mem = Entity /\ \A e \in Entity : e \notin Known => mem[e] = Absent
  BY DEF Init
<1>6. \A g \in Ing : mem[g] # Absent => mem[RecipeOf[g]] # Absent
  BY <1>1 DEF IInv, StoreInv, DocOK
<1>7. OrderInv
  <2>1. Len(queue) = 0
    BY <1>2
  <2> QED
    BY <1>2, <1>3, <2>1 DEF OrderInv
<1>8. MadeInv
  <2>1. \A g \in Ing : g \in made => RecipeOf[g] \in made
    BY <1>2, SyncAssumption DEF SyncAssumption
  <2>2. \A e \in Entity : mem[e] # Absent \/ disk[e] # Absent \/ want[e] # Absent => e \in made
    BY <1>2, <1>5
  <2>3. \A e \in Entity : srv[e] # 0 \/ loc[e] # 0 => e \in made
    BY <1>2
  <2> QED
    BY <1>2, <1>3, <1>4, <1>5, <2>1, <2>2, <2>3, NoOpIs DEF MadeInv
<1>9. FirstInv /\ GhostInv
  BY <1>2, <1>3, NoOpIs DEF FirstInv, GhostInv
<1>10. ASSUME NEW e \in Entity PROVE CleanRow(e)
  <2>1. Apart(e) /\ Serial(e) /\ NewInv(e)
    BY <1>3, NoOpIs DEF Apart, Serial, NewInv
  <2>2. ASSUME NEW t \in Slot, t \in {srv[e], loc[e]} PROVE ListedRow(obj, op, e, t)
    <3>1. e \in Known /\ t = 1
      BY <1>2, <2>2, SlotFacts
    <3>2. obj[e][t].id = "real" /\ obj[e][t].gone = FALSE
      BY <3>1, <2>2 DEF Init
    <3> QED
      BY <3>2 DEF ListedRow
  <2>3. RowInv(obj, op, srv, loc, want, e)
    BY <1>3, <2>2, NoOpIs DEF RowInv
  <2>4. WantInv(obj, op, want, mem, e)
    <3>1. \A n \in 1..MaxEdits : ~Writer(op[n], e) /\ ~Removes(op[n], e)
      BY <1>3, NoOpIs
    <3> QED
      BY <1>2, <1>6, <3>1 DEF WantInv, LastWriter
  <2> QED
    BY <2>1, <2>3, <2>4 DEF CleanRow
<1> QED
  BY <1>7, <1>8, <1>9, <1>10 DEF SInv

LEMMA SettledStep == IInv /\ SInv /\ [Next]_vars => SInv'
<1> SUFFICES ASSUME IInv, SInv, [Next]_vars PROVE SInv'
  OBVIOUS
<1>1. IInv'
  BY StepKeeps
<1>2. CASE UserEdit
  <2>1. CASE \E e \in Entity, s \in Slot \cup {0} : Create(e, s)
    BY <1>1, <2>1, CreateSettles
  <2>2. CASE \E e \in Entity, s \in Slot : CycleState(e, s) \/ ToggleRecipe(e, s)
    BY <1>1, <2>2, CycleSettles, ToggleSettles
  <2>3. CASE \E e \in Entity, s \in Slot : RenameRecipe(e, s) \/ Remove(e, s)
    BY <1>1, <2>3, RenameSettles, RemoveSettles
  <2>4. CASE Reset
    BY <1>1, <2>4, ResetSettles
  <2> QED
    BY <1>2, <2>1, <2>2, <2>3, <2>4 DEF UserEdit
<1>3. CASE SwitchOff \/ SwitchOn
  BY <1>3, SwitchSettles
<1>4. CASE Fault
  BY <1>4, ServeOpSettles, LoseOpSettles, GetSettles, StreamSettles DEF Fault
<1>5. CASE \E e \in Item : Rival(e)
  BY <1>5, RivalSettles
<1>6. CASE Progress
  <2>1. CASE \E n \in 1..MaxEdits : ServeOp(n, TRUE)
    BY <2>1, ServeOpSettles
  <2>2. CASE \E n \in 1..MaxEdits : Replied(n)
    BY <1>1, <2>2, CreatedItemSettles, CreatedRecipeSettles, PatchedSettles, RemovedSettles DEF Replied
  <2>3. CASE \E k \in FetchSlots, part \in Part : ServeGet(k, part) \/ Land(k, part)
    BY <1>1, <2>3, GetSettles, LandSettles
  <2>4. CASE \E d \in Turns : Replay(d)
    BY <1>1, <2>4, ReplaySettles
  <2>5. CASE Register
    BY <2>5, RegisterSettles
  <2> QED
    BY <1>6, <2>1, <2>2, <2>3, <2>4, <2>5 DEF Progress
<1>7. CASE \E k \in TickSlots : Refresh(k)
  BY <1>7, RefreshSettles
<1>8. CASE UNCHANGED vars
  BY <1>8, IdleSettles
<1> QED
  BY <1>2, <1>3, <1>4, <1>5, <1>6, <1>7, <1>8 DEF Next

\* What closures, lists, requests and the server hold of a row no race or fault
\* touched, at every moment between an edit and its last answer.
THEOREM IntentKept == Spec => []SInv
<1>1. Init => IInv /\ SInv
  BY Starts, SettledStarts
<1>2. IInv /\ SInv /\ [Next]_vars => (IInv /\ SInv)'
  BY StepKeeps, SettledStep
<1> QED
  BY <1>1, <1>2, PTL DEF Spec

\* Newest wins (main.ts:31-35): whatever is queued, replayed, merged and
\* answered in between, once nothing is queued or under way the server has, of
\* every row no race or fault touched, what the user last asked for.
THEOREM SettledHolds == Spec => []SettledAsAsked
<1>1. SInv => SettledAsAsked
  <2> SUFFICES ASSUME SInv, Settled, NEW e \in Entity \ excused PROVE mem[e] = want[e]
    BY DEF SettledAsAsked
  <2>1. \A n \in 1..MaxEdits : ~Writer(op[n], e)
    BY DEF Settled, Writer, Unserved
  <2> QED
    BY <2>1 DEF SInv, CleanRow, WantInv
<1> QED
  BY <1>1, IntentKept, PTL
=============================================================================
