\* A screen of 2 x 4 with the prompt in one column: lines of up to 2 characters
\* fit, a third reaches the edge and fills the buffer.  Two handlers run while
\* kmain prints the prompt.
CONSTANTS
    VGA_NUM_ROWS = 2
    VGA_NUM_COLS = 4
    CLOCK_COLS   = 1
    TTY_BUF_SIZE = 3
    Chars        = {"a", "b"}
    Prompt      <- OneSign
    MaxHits      = 2
SPECIFICATION PromptSpec
INVARIANTS
    TypeOK
    CursorRecovers
    SettledAligned
    SettledRow
PROPERTIES
    ImplementsLineEditor
    SettledEditsStay
