CONSTANTS
    Thread = {t1, t2}
    Functor = {f1, f2, f3}
    Channel = {io}
    wakeupChannel = wakeup
SPECIFICATION FairSpec
INVARIANTS
    TypeOK
    NoLostWakeup
PROPERTIES
    KeepsPromise
    QueuedRuns
    QuitLeaves
