\* A broadcast to two targets and one to a single target, from the same page.
SPECIFICATION FairSpec
CONSTANTS
    Job <- JobsOfMC
    Targets <- TargetsOfMC
    SubSize = 1
CHECK_DEADLOCK FALSE
INVARIANT TypeOK
INVARIANT ButtonMeansOver
PROPERTY EveryBroadcastEnds
