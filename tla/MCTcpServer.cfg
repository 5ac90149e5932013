CONSTANTS
    MaxConn = 5
    MaxFds = 5
    Radix = 2
    Room = 2
SPECIFICATION Spec
CHECK_DEADLOCK FALSE
INVARIANTS
    TypeOK
    OwnsTheLiving
PROPERTIES
    GoneIsRemoved
