SPECIFICATION Spec
CONSTANTS
    s1 = s1
    s2 = s2
    d1 = d1
    d2 = d2
    MaxPoints = 2
    Primary = s1
    Replicas = {s2}
    Policies <- LastOnly
    Deleters = {d1}
    Settings <- MirrorSettings
PROPERTIES OnlyOwnObjects
CHECK_DEADLOCK FALSE
