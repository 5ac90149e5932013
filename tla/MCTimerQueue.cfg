CONSTANTS
    once1 = once1
    once2 = once2
    every = every
    Timer = {once1, once2, every}
    Interval <- MCInterval
    Second = 2
    MaxTime = 5
SPECIFICATION FairSpec
INVARIANTS
    TypeOK
    ReadSucceeds
    Covered
PROPERTIES
    NeverEarly
    EveryTimerRuns
