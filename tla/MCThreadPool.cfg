CONSTANTS
    Worker = {w1, w2}
    Poster = {owner, other}
    Owner = owner
    t1 = t1
    t2 = t2
    t3 = t3
    t4 = t4
    None = none
    Task <- MCTask
    Spawned <- MCSpawned
    Spawns <- MCSpawns
    Sizes = {0, 2}
SPECIFICATION Spec
CHECK_DEADLOCK FALSE
INVARIANTS
    TypeOK
    NoLostNotify
    StopRunsTaken
PROPERTIES
    KeepsPromise
    PostedRuns
    StopReturns
