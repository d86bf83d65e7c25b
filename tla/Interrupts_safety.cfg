\* Unpaced devices, a driver on the slave and a refused request.
CONSTANTS
    OtherRequests <- ViaCascade
    OtherDevices  = {12}
    BssZeroed     = TRUE
    EarlyKeys     = TRUE
    Paced         = FALSE
    MaxKeys       = 3
    NoneKeys      = {2}
    TickMod       = 3
SPECIFICATION Spec
INVARIANTS
    TypeOK
    
    HandlersDontNest
    InServiceMatches
    
    KeysInOrder
    MainInterruptible
    
