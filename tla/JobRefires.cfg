\* A job canceled between the poll's snapshot and its lookup.
SPECIFICATION Spec
CONSTANTS
    Shell = {}
    Func = {J}
    Lane = {L}
    NoTask = NoTask
    wide = 1
    LaneOf <- OneLane
    Width <- EveryWidth
    Rank <- NoRank
    Repeats = {}
    MaxExecs = 2
    MaxStops = 0
    MaxEngages = 0
    Survivors = FALSE
    Ops = {"submit", "cancel"}
PROPERTY JobNeverRefires
