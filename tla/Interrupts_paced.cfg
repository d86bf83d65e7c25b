\* SnakeOS as it is: paced devices, no key before the PIC is set up.
CONSTANTS
    OtherRequests <- NoOthers
    OtherDevices  = {}
    BssZeroed     = TRUE
    EarlyKeys     = FALSE
    Paced         = TRUE
    MaxKeys       = 3
    NoneKeys      = {2}
    TickMod       = 3
SPECIFICATION FairSpec
INVARIANT TicksCounted
PROPERTIES
    RaisedIsServed
    EveryByteHandled
