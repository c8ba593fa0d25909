CONSTANTS
    TFD_NUM = 3
    MAX_SKB_FRAGS = 1
    Skb = {s1, s2, s3, s4}
    NULL = NULL
SPECIFICATION Spec
INVARIANT SkbFreeFits
