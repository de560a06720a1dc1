SPECIFICATION FairSpec
CONSTANTS
    Instances = {"a", "b"}
    None = None
    Settings <- PassSettings
INVARIANT TypeOK
INVARIANT ReleasedIsClean
INVARIANT DeltaBeforeStart
INVARIANT LeftAlone
 
PROPERTY PausedStays
 
CHECK_DEADLOCK FALSE
