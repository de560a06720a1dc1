SPECIFICATION FairSpec
CONSTANTS
    Instances = {i1, i2}
    Supervised = TRUE
    MaxCuts = 2
    MaxErrors = 1
    MaxStartErrors = 1
    MaxExits = 2
    MaxRunErrors = 1
    None = None
INVARIANT OneLeader
PROPERTY CutLeaderStops
PROPERTY SomeoneLeads
CHECK_DEADLOCK FALSE
