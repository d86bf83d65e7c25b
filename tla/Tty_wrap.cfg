\* The screen of Tty_fits, one column wider; the line may reach the next row.
CONSTANTS
    VGA_NUM_ROWS = 2
    VGA_NUM_COLS = 5
    CLOCK_COLS   = 1
    TTY_BUF_SIZE = 5
    Chars        = {"a", "b"}
    Prompt      <- OneSign
SPECIFICATION Spec
INVARIANT AlwaysAligned
