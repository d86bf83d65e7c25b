\* Nibbles of one bit, ints of five, a screen of 4 x 4; nothing printed by kmain.
CONSTANTS
    VGA_NUM_ROWS = 4
    VGA_NUM_COLS = 4
    CLOCK_COLS   = 0
    INT_VALUES   = 32
    Chars       <- Printable
    Calls       <- SomeCalls
    MaxCalls     = 0
    NIBBLE       = 2
    Vectors     <- SomeVectors
    ErrorVectors = {13, 14}
    PIC_IDT_BASE = 32
    StubAt      <- Stubs
    TssAt        = 173
    TssSize      = 20
    Rips         = {0, 31, 33}
    ErrorCodes   = {0, 17}
SPECIFICATION Spec
CHECK_DEADLOCK FALSE
PROPERTY AllRegistersKept
