CONSTANTS
    TFD_NUM = 2
    MAX_SKB_FRAGS = 1
    Skb = {s1, s2, s3}
    NULL = NULL
SPECIFICATION FairSpec
PROPERTY RefusedIsSentLater
