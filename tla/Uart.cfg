SPECIFICATION Spec
CONSTANTS
    FIFOLEN = 3
    Levels = {2}
    Chars = {0, 1, 2}
    IerSets <- MCIerSets
    LineSets <- MCLineSets
    MaxChars = 4
INVARIANTS IrqLevel TxDone FifosRight Signalled
CHECK_DEADLOCK FALSE
