\* Both shift keys and an extended key; a letter and the arrow repeat.
CONSTANTS
    LeftShift  = LeftShift
    RightShift = RightShift
    CapsLock   = CapsLock
    Keys      <- EveryClass
    Letters    = {0}
    Signs      = {0}
    Typematic <- SomeRepeat
SPECIFICATION Spec
INVARIANTS
    TypeOK
    ShiftRecovers
    
PROPERTY TypedAsHeld
