SPECIFICATION FairSpec
CONSTANTS
    p1 = p1
    p2 = p2
    w1 = w1
    w2 = w2
    i1 = i1
    i2 = i2
    None = None
    Instances = {i1, i2}
    Workers = {w1, w2}
    Points = {p1, p2}
    Parent <- ChainParent
    Targets = {t1}
    Settings <- AllSettings
CHECK_DEADLOCK FALSE
INVARIANT SingleTransfer
INVARIANT SucceededIsPublished
INVARIANT PublishedIsWhole
 
