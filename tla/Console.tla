------------------------------ MODULE Console ------------------------------
(***************************************************************************)
(* The VGA console (drivers/console.c over drivers/vga.c): a grid of cells *)
(* and a cursor.  The module has no variables: a console is one value,     *)
(*     [row, col : cursor,  cells : contents of the screen],               *)
(* and every call of the API maps a console to a console.  Colours are     *)
(* left out: all cells have the default one.                               *)
(***************************************************************************)
EXTENDS Integers, Sequences, SequencesExt

CONSTANTS
    VGA_NUM_ROWS,    \* 25 in the source
    VGA_NUM_COLS,    \* 80 in the source
    CLOCK_COLS       \* width of the clock overlay, 8 in the source

ASSUME GridAssumption ==
    /\ VGA_NUM_ROWS \in Nat \ {0}
    /\ VGA_NUM_COLS \in Nat \ {0}
    /\ CLOCK_COLS \in 0..VGA_NUM_COLS

Rows == 0 .. VGA_NUM_ROWS - 1
Cols == 0 .. VGA_NUM_COLS - 1
LastRow == VGA_NUM_ROWS - 1

Newline == "\n"
Blank   == " "
Clock   == "clock"   (* any character of the overlay hh:mm:ss              *)

(* The cells vga_draw_clock writes.                                        *)
ClockCells == {LastRow} \X {c \in Cols : c >= VGA_NUM_COLS - CLOCK_COLS}

BlankRow == [col \in Cols |-> Blank]

vga_put_char(cells, row, col, c) ==
    IF row \in Rows /\ col \in Cols
    THEN [cells EXCEPT ![row][col] = c]
    ELSE cells

vga_scroll_up_no_clear(cells) ==
    [row \in Rows |-> cells[IF row < LastRow THEN row + 1 ELSE row]]

vga_scroll_up(cells) ==
    [row \in Rows |-> IF row < LastRow THEN cells[row + 1] ELSE BlankRow]

(* console_init: the cleared screen with the cursor at its origin.         *)
console_init == [row |-> 0, col |-> 0, cells |-> [row \in Rows |-> BlankRow]]

(* The cursor falls off the bottom: scroll, and stay on the last row.      *)
CheckScroll(con) ==
    IF con.row < VGA_NUM_ROWS
    THEN con
    ELSE [row |-> LastRow, col |-> con.col, cells |-> vga_scroll_up(con.cells)]

LineFeed(con) == [row |-> con.row + 1, col |-> 0, cells |-> con.cells]

Advance_wrap_late(con) ==
    IF con.col = VGA_NUM_COLS THEN LineFeed(con) ELSE [con EXCEPT !.col = @ + 1]

Advance_wrap_early(con) ==
    IF con.col + 2 >= VGA_NUM_COLS THEN LineFeed(con)
                                   ELSE [con EXCEPT !.col = @ + 1]

Advance(con) ==
    IF con.col + 1 >= VGA_NUM_COLS THEN LineFeed(con)
                                   ELSE [con EXCEPT !.col = @ + 1]

console_putc(con, c) ==
    IF c = Newline
    THEN CheckScroll(LineFeed(con))
    ELSE CheckScroll(Advance(
             [con EXCEPT !.cells = vga_put_char(@, con.row, con.col, c)]))

(* The console after each of the first n characters of s.                  *)
Written(con, s) ==
    LET after[n \in 0..Len(s)] ==
            IF n = 0 THEN con ELSE console_putc(after[n - 1], s[n])
    IN  after

console_write(con, s) == Written(con, s)[Len(s)]

(* The cursor is clamped to the screen: it does not move to another row.   *)
Clamp(n, max) == IF n < 0 THEN 0 ELSE IF n > max THEN max ELSE n

console_move_cursor(con, dx, dy) ==
    [row   |-> Clamp(con.row + dy, VGA_NUM_ROWS - 1),
     col   |-> Clamp(con.col + dx, VGA_NUM_COLS - 1),
     cells |-> con.cells]

(* The timer's hook: the overlay is drawn past the cursor and the console. *)
vga_draw_clock(con) ==
    [con EXCEPT !.cells = [row \in Rows |-> [col \in Cols |->
        IF <<row, col>> \in ClockCells THEN Clock ELSE @[row][col]]]]
=============================================================================
