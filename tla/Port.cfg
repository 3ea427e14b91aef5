SPECIFICATION Spec
CONSTANTS
    FIFOLEN = 2
    Levels = {1, 2}
    Chars = {0, 1, 2, 3, 4, 5, 6, 7}
    Trig = 2
    LoadSize = 1
    XMIT_SIZE = 2
    Modes = {"irq", "backup", "polled"}
    CtsFlow = TRUE
    MaxEvents = 4
INVARIANTS ShadowRight ProbedRight TxOrder TxNoStall RxOrder StatusNotLost
CHECK_DEADLOCK FALSE
