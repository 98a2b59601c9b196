SPECIFICATION FairSpec
CONSTANTS
    Image <- ImagesOfMC
    NoImage = NoImage
    MaxControls = 2
    MaxScans = 2
CHECK_DEADLOCK FALSE
INVARIANT TypeOK
INVARIANT NothingSkipped
PROPERTY StaysPut
PROPERTY EveryImageComesUp
