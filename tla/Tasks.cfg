\* A job and a repeating command that may outlive a crash, in one lane: every client
\* request, the pruner, one close or crash and the reboot.
SPECIFICATION Spec
CONSTANTS
    Shell = {S}
    Func = {J}
    Lane = {L}
    NoTask = NoTask
    wide = 1
    LaneOf <- OneLane
    Width <- EveryWidth
    Rank <- NoRank
    Repeats = {S}
    MaxExecs = 2
    MaxStops = 1
    MaxEngages = 0
    Survivors = TRUE
    Ops = {"up-next", "delete", "cancel", "pause-task", "rerun", "submit", "remove", "prune"}
INVARIANT TypeOK
INVARIANT OneRunnerPerTask
INVARIANT JobRunsUnderItsRow
PROPERTY CancelMissesNothing
PROPERTY KeepsLedger
PROPERTY CleanClose
