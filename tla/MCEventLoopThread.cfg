CONSTANTS
    Owner = owner
    Thread = {owner, user}
    Functor = {f1, f2}
    Channel = {io}
    wakeupChannel = wakeup
SPECIFICATION ETSpec
CHECK_DEADLOCK FALSE
PROPERTIES
    SentRuns
    QuitInLoopJoins
