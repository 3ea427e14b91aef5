SPECIFICATION FairSpec
CONSTANTS
    Kinds <- MCKinds
    MUX_BUFFER_SIZE = 1
    FIFOLEN = 3
    Level = 1
    Backlogs = {TRUE}
    Letters <- MCLetters
    MaxKeys = 3
    MaxGuest = 1
INVARIANTS Fits Decoded Routed NoStall OpenedTruth
PROPERTIES PtyTruth InputDrains
