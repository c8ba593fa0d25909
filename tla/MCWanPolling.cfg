CONSTANTS
    Hcd = {0, 3, 7}
    ReadMayFail = TRUE
SPECIFICATION FairSpec
INVARIANT SpeedFollows
PROPERTY CarrierFollows Settles
