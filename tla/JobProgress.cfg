\* Two jobs in a lane of width one; one close or crash.
SPECIFICATION FairSpec
CONSTANTS
    Shell = {}
    Func = {J, K}
    Lane = {L}
    NoTask = NoTask
    wide = 1
    LaneOf <- OneLane
    Width <- EveryWidth
    Rank <- NoRank
    Repeats = {}
    MaxExecs = 2
    MaxStops = 1
    MaxEngages = 0
    Survivors = FALSE
    Ops = {"submit", "cancel"}
PROPERTY QueuedJobServed
PROPERTY RunningJobClosed
PROPERTY QueueOrder
