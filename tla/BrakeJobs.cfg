\* A command and a job under one press of the hand brake, and its release.
SPECIFICATION Spec
CONSTANTS
    Shell = {S}
    Func = {J}
    Lane = {L}
    NoTask = NoTask
    wide = 2
    LaneOf <- OneLane
    Width <- EveryWidth
    Rank <- NoRank
    Repeats = {}
    MaxExecs = 2
    MaxStops = 0
    MaxEngages = 1
    Survivors = FALSE
    Ops = {"submit", "cancel", "brake"}
PROPERTY KeepsLedger
PROPERTY SweepMissesNothing
