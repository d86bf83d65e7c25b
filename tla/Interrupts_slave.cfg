\* A driver requests a line of the slave chip.
CONSTANTS
    OtherRequests <- OnSlave
    OtherDevices  = {12}
    BssZeroed     = TRUE
    EarlyKeys     = FALSE
    Paced         = TRUE
    MaxKeys       = 1
    NoneKeys      = {}
    TickMod       = 3
SPECIFICATION FairSpec
PROPERTY RaisedIsServed
