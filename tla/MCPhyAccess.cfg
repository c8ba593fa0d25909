CONSTANTS
    Phy = {0, 9}
SPECIFICATION FairSpec
INVARIANT TypeOK OneBitUnlessHit
PROPERTY PollReadsStatus NeverTheOtherPhy PowerDownReturns
