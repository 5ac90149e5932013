CONSTANTS
    Byte = {a, b}
    Zero = zero
    Stale = stale
    kCheapPrepend = 1
    kInitialSize = 2
    MaxLen = 2
    MaxStored = 4
SPECIFICATION Spec
INVARIANT ReadsBack
