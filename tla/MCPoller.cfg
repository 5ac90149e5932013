CONSTANTS
    c0 = c0
    c1 = c1
    c2 = c2
    NoChannel = NoChannel
    Channel = {c0, c1, c2}
    FdOf <- MCFdOf
SPECIFICATION Spec
INVARIANTS
    TypeOK
    IndexConsistent
    AssertsHold
    NoneEventIgnored
    ActiveRegistered
PROPERTY FrontStays
