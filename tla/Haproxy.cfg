SPECIFICATION Spec
CONSTANTS
    a = a
    b = b
    c = c
    Cert = {a, b, c}
    Found = {c}
    Plain = {c}
    NoFile = NoFile
    Original = Original
    MaxModels = 2
    MaxRequests = 3
    MaxFaults = 2
    MaxPulls = 2
    BackupKeep = 1
INVARIANT TypeOK
INVARIANT OutcomeIsTrue
INVARIANT RunsWhatIsLive
INVARIANT LiveCertsKept
INVARIANT FoundIsBackedUp
SYMMETRY PulledAlike
CONSTRAINT FewTogether
