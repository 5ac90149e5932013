CONSTANTS
    m1 = m1
    m2 = m2
    m3 = m3
    Thread = {t1}
    Message = {m1, m2, m3}
    Size <- MCSize
    Stale = stale
    highWaterMark_ = 2
    SndBuf = 1
SPECIFICATION FairSpec
CHECK_DEADLOCK FALSE
INVARIANTS
    TypeOK
    WritesWhilePending
    Accounted
    SafeUnlessRaced
PROPERTIES
    EndsAfterOutput
    GoneIsDestroyed
    ShutdownEnds
