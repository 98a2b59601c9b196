\* Every edit, online and offline, one reconnect, one fault.
SPECIFICATION Spec
CONSTANTS
    bread = bread
    soup = soup
    leek = leek
    Absent = Absent
    Free = {bread}
    Recipe = {soup}
    Ing = {leek}
    RecipeOf <- OneRecipe
    Known = {soup}
    Ops = {"create", "patch", "toggle", "rename", "delete", "reset"}
    MaxEdits = 2
    MaxSwitches = 1
    MaxFaults = 1
    MaxRivals = 0
    MaxRefresh = 1
INVARIANT TypeOK
INVARIANT SettledAsAsked
INVARIANT MemoryMatchesDisk
INVARIANT NoOrphanIngredient
CHECK_DEADLOCK FALSE
