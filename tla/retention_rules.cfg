SPECIFICATION Spec
CONSTANTS
    Policies <- MCPolicies
    MaxPoints = 4
    MaxTime = 4
INVARIANTS TypeOK ChainsWhole  BucketsServed MaxAgeHonoured
CHECK_DEADLOCK FALSE
