CONSTANTS
    TFD_NUM = 3
    MAX_SKB_FRAGS = 2
    Skb = {s1, s2, s3}
    NULL = NULL
SPECIFICATION FairSpec
INVARIANT EngineReadsHeldSkb EachSkbRemembered WholeFramesWhileRunning
PROPERTY EngineSlotsUntouched ImplementsFifo SentUnlessStalled ReclaimedBySends
CHECK_DEADLOCK FALSE
