SPECIFICATION FairSpec
CONSTANTS
    MaxRuns = 2
    MaxBackups = 5
    Settings <- JobSettings
INVARIANTS LevelHonest StrictKept CopiedIsOpen FrozenIsReported
PROPERTIES  FreezeEnds
CHECK_DEADLOCK FALSE
