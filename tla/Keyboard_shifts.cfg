\* Both shift keys.
CONSTANTS
    LeftShift  = LeftShift
    RightShift = RightShift
    CapsLock   = CapsLock
    Keys      <- TwoShifts
    Letters    = {0}
    Signs      = {0}
    Typematic <- NoRepeat
SPECIFICATION Spec
INVARIANT ShiftTracksKeys
