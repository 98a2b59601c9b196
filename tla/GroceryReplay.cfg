\* The queue replayed among faults and another client's edits.
SPECIFICATION FairSpec
CONSTANTS
    bread = bread
    soup = soup
    leek = leek
    Absent = Absent
    Free = {bread}
    Recipe = {soup}
    Ing = {leek}
    RecipeOf <- OneRecipe
    Known = {}
    Ops = {"create"}
    MaxEdits = 2
    MaxSwitches = 1
    MaxFaults = 1
    MaxRivals = 1
    MaxRefresh = 1
PROPERTY ReplayEnds
CHECK_DEADLOCK FALSE
