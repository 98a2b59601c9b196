---------------------------- MODULE GroceryStore -----------------------------
(***************************************************************************)
(* The grocery server's store (internal/grocery/store.go): items and       *)
(* recipes in memory, written whole to one file by every operation.        *)
(* An item is reduced to its state, a recipe to its switch; names, groups  *)
(* and orders tell no property apart.                                      *)
(***************************************************************************)
EXTENDS Naturals, Sequences, FiniteSets

CONSTANTS
    Free,           \* items on the list itself
    Recipe,
    Ing,            \* ingredients: items a recipe owns
    RecipeOf,       \* the recipe_id of every ingredient
    Absent          \* no such row

ASSUME StoreAssumption ==
    /\ Free \cap Ing = {} /\ Recipe \cap (Free \cup Ing) = {}
    /\ RecipeOf \in [Ing -> Recipe]
    /\ Absent \notin {"needed", "check", "not_needed", "on", "off"}

VARIABLES
    mem,            \* Store.items and Store.recipes
    disk,           \* what the file holds
    dirty           \* history: rows that a failed, not undone, write has touched

storeVars == <<mem, disk, dirty>>

Item == Free \cup Ing
Entity == Item \cup Recipe
MarksOf(e) == IF e \in Recipe THEN {"on", "off"} ELSE {"needed", "check", "not_needed"}
Owned(r) == {g \in Ing : RecipeOf[g] = r}

\* The rows an operation of this kind on e may change.
Scope(kind, e) ==
    CASE kind = "reset" -> Entity
      [] kind # "reset" /\ e \in Recipe -> {e} \cup Owned(e)
      [] OTHER -> {e}

\* Mutant of Follows: the recipe's switch itself.
FollowsSwitch(mark) == mark

\* The state an ingredient takes from its recipe's switch.
Follows(mark) == IF mark = "on" THEN "needed" ELSE "not_needed"

\* Add, AddRecipe, AddIngredient: the state of a new row.
NewMark(m, e) ==
    CASE e \in Recipe -> "off"
      [] e \in Ing -> Follows(m[RecipeOf[e]])
      [] OTHER -> "needed"

\* Mutant of Refuses: an ingredient's recipe is not looked up.
RefusesTempOnly(m, q) ==
    CASE q.kind = "create" /\ q.e \in Ing -> q.rid = "temp"
      [] q.kind \in {"patch", "toggle", "rename", "delete"} -> m[q.e] = Absent
      [] OTHER -> FALSE

\* A request names a row the store does not have: 404.  An ingredient's POST
\* carries its recipe's id, and "temp" is an id only the browser knows.
Refuses(m, q) ==
    CASE q.kind = "create" /\ q.e \in Ing -> q.rid = "temp" \/ m[RecipeOf[q.e]] = Absent
      [] q.kind \in {"patch", "toggle", "rename", "delete"} -> m[q.e] = Absent
      [] OTHER -> FALSE

\* What the operation leaves in memory when its write succeeds.
Changed(m, q) ==
    CASE q.kind = "create" -> [m EXCEPT ![q.e] = NewMark(m, q.e)]
      [] q.kind = "patch" -> [m EXCEPT ![q.e] = q.mark]
      [] q.kind = "toggle" ->
            [x \in Entity |->
                CASE x = q.e -> q.mark
                  [] x \in Owned(q.e) /\ m[x] # Absent -> Follows(q.mark)
                  [] OTHER -> m[x]]
      [] q.kind = "delete" -> [x \in Entity |-> IF x \in Scope("delete", q.e) THEN Absent ELSE m[x]]
      [] q.kind = "reset" ->
            [x \in Entity |->
                CASE m[x] = Absent -> Absent
                  [] m[x] # Absent /\ x \in Recipe -> "off"
                  [] OTHER -> "check"]
      [] OTHER -> m     \* a rename

\* Mutant of Undoes: a failed toggle keeps its change.
UndoesCreates(q) == q.kind = "create"

\* The operations that restore what they changed when save() fails: the
\* creates, and everything done to a recipe or through one.
Undoes(q) == q.kind \in {"create", "toggle", "rename"} \/ (q.kind = "delete" /\ q.e \notin Free)

\* Those that keep their change, for a later save to write.
Keeps(q) == q.kind \in {"patch", "reset"} \/ (q.kind = "delete" /\ q.e \in Free)

\* One request under the store's lock; saved: did save() reach the file?
Serve(q, saved) ==
    IF Refuses(mem, q) THEN UNCHANGED storeVars
    ELSE LET m == Changed(mem, q) IN
         /\ mem' = IF saved \/ ~Undoes(q) THEN m ELSE mem
         /\ disk' = IF saved THEN m ELSE disk
         /\ dirty' = CASE saved -> {}
                       [] ~saved /\ Keeps(q) -> dirty \cup {x \in Entity : m[x] # mem[x]}
                       [] OTHER -> dirty

\* The process starts again and loads the file.
Reload ==
    /\ mem' = disk
    /\ dirty' = {}
    /\ UNCHANGED disk

StoreTypeOK ==
    /\ mem \in [Entity -> (UNION {MarksOf(e) : e \in Entity}) \cup {Absent}]
    /\ disk \in [Entity -> (UNION {MarksOf(e) : e \in Entity}) \cup {Absent}]
    /\ \A e \in Entity : {mem[e], disk[e]} \subseteq MarksOf(e) \cup {Absent}
    /\ dirty \subseteq Entity

\* Memory and file agree on every row except those a failed PATCH, DELETE or
\* reset of plain items has changed in memory only (store.go:82-83, 96, 226):
\* a refused change to a recipe leaves nothing behind that a later, unrelated
\* save would commit (store.go:340-345, 403-411).  Of items, recipes and
\* ingredients; the other mutations that keep a failed change (SaveGroups,
\* store.go:86, moves, the bulk sync) are not modelled.
MemoryMatchesDisk == \A e \in Entity : mem[e] # disk[e] => e \in dirty

\* An ingredient never outlives its recipe, in memory or on disk.
NoOrphanIngredient ==
    \A g \in Ing : /\ mem[g] # Absent => mem[RecipeOf[g]] # Absent
                   /\ disk[g] # Absent => disk[RecipeOf[g]] # Absent
=============================================================================
