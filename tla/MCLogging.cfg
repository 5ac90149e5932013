CONSTANTS
    kSmallBuffer = 50
    kMaxNumbericSize = 12
    HeaderLen = 5
    FuncLen = 2
    FileLen = 2
    StrErrorLen = 6
    g_logLevel = 2
    Bits = 5
    rollSize_ = 60
    flushInterval_ = 0
    checkEveryN_ = 2
    kSecondsPerRoll = 2
    Clock <- MCClock
    t1 = t1
    t2 = t2
    Thread = {t1, t2}
    Messages <- MCMessages
    kLargeBuffer = 52
    kMaxBuffers = 2
    Null = null
    MaxLines = 3
    NoteLen = 6
SPECIFICATION Spec
CHECK_DEADLOCK FALSE
INVARIANTS
    TypeOK
    Complete
    LinesRight
PROPERTIES
    BackEndDelivers
