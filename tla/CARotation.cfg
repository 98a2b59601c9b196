SPECIFICATION Spec
CONSTANTS
    f1 = f1
    f2 = f2
    l1 = l1
    l2 = l2
    s1 = s1
    s2 = s2
    Fqdn = {f1, f2}
    Leaf = {l1, l2}
    NoLeaf = NoLeaf
    Request = {s1, s2}
    Legacy <- LegacyOfMC
    Stored <- StoredOfMC
    MaxRequests = 4
    MaxFailures = 1
SYMMETRY Symmetric
CHECK_DEADLOCK FALSE
INVARIANT TypeOK
INVARIANT StructurallySound
INVARIANT SignedByRecorded
INVARIANT PreviousInUse
PROPERTY ReplacedAsRead
PROPERTY NoNameLost
