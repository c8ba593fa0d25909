CONSTANTS
    RFD_NUM = 3
    WEIGHT = 2
    Frame = {p1, p2, p3}
    NoFrame = NoFrame
    AllocMayFail = TRUE
SPECIFICATION FairSpec
INVARIANT PollOwnsInterrupt StopIsRemembered CurIsOldest OneLossNoWedge
PROPERTY OvertakesFullRingOnly ImplementsFifo TakenUnlessMissed RestartedUnlessRotting
CHECK_DEADLOCK FALSE
