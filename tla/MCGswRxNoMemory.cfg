CONSTANTS
    RFD_NUM = 3
    WEIGHT = 2
    Frame = {p1, p2, p3, p4}
    NoFrame = NoFrame
    AllocMayFail = TRUE
SPECIFICATION Spec
INVARIANT CurEmptyRingEmpty
CHECK_DEADLOCK FALSE
