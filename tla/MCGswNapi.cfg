CONSTANTS
    Dev = {lan, wan}
    RING = 2
    RequestMayFail = TRUE
SPECIFICATION FairSpec
CHECK_DEADLOCK FALSE
INVARIANT UpMeansHandlers AccountCountsDevices DownMeansQuiet OneUserNoBug
PROPERTY CloseEnds
