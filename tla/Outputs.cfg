SPECIFICATION FairSpec
CONSTANTS
    v1 = v1
    Viewer = {v1}
    RingSize = 2
    ChanSize = 1
    MaxLines = 3
    MaxBreaks = 1
    MaxRestarts = 1
CHECK_DEADLOCK FALSE
INVARIANT TypeOK
INVARIANT InOrder
INVARIANT DoneLosesNothingElse
PROPERTY ModalSpeaks
