\* The image is loaded over memory that is not zero.
CONSTANTS
    OtherRequests <- NoOthers
    OtherDevices  = {}
    BssZeroed     = FALSE
    EarlyKeys     = FALSE
    Paced         = TRUE
    MaxKeys       = 2
    NoneKeys      = {2}
    TickMod       = 3
SPECIFICATION Spec
CHECK_DEADLOCK FALSE
INVARIANT PanicIsDoubleLock
