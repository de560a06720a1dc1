SPECIFICATION Spec
CONSTANTS
    s1 = s1
    s2 = s2
    d1 = d1
    d2 = d2
    MaxPoints = 3
    Primary = s1
    Replicas = {s2}
    Policies <- LastOnly
    Deleters = {d1, d2}
    Settings <- SafetySettings
INVARIANTS TypeOK BaseStays LiveHasData  
SYMMETRY Symmetry
CHECK_DEADLOCK FALSE
