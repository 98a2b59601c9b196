\* Failed database calls, restarts and operators at every point of the handlers.
SPECIFICATION Spec
CONSTANTS
    Lane = {A, B, C}
    MaxFaults = 3
SYMMETRY LaneSymmetry
INVARIANT BrakeDurable
PROPERTY ReleaseRestores
