-------------------------------- MODULE Tty --------------------------------
(***************************************************************************)
(* The terminal (kernel/tty.c): the line being typed, kept in a buffer and *)
(* echoed on the console.  tty_handle_key runs in the keyboard's handler,  *)
(* which no other handler interrupts, so a key is one step; the clock is   *)
(* drawn between keys by the timer's handler.  kmain prints nothing more   *)
(* once the prompt is out, which is where Init starts (BootPrompt starts   *)
(* before it).  echo is always on: nothing in the source clears it.        *)
(***************************************************************************)
EXTENDS Console

CONSTANTS
    TTY_BUF_SIZE,    \* 256 in the source
    Chars,           \* printable characters
    Prompt           \* "<SnakeOS> ", ten characters in the source

ASSUME BufferAssumption == TTY_BUF_SIZE \in Nat \ {0}
ASSUME PromptAssumption == Prompt \in Seq(STRING) /\ Len(Prompt) < VGA_NUM_COLS
ASSUME PrintableAssumption ==   (* Enter is handled before the buffer is.  *)
    /\ Newline \notin Chars
    /\ \A i \in 1..Len(Prompt) : Prompt[i] # Newline

VARIABLES
    buf, len, cursor,    \* tty_active
    con,                 \* the console
    wrapped              \* has the line reached the edge of the screen?
                         \* (history: no step depends on it)

ttyVars == <<buf, len, cursor>>
vars == <<buf, len, cursor, con, wrapped>>

Index == 0 .. TTY_BUF_SIZE - 1

TypeOK ==
    /\ buf \in [Index -> Chars \cup {Blank}]
    /\ len \in 0..TTY_BUF_SIZE
    /\ cursor \in 0..len
    /\ con.row \in Nat
    /\ con.col \in Nat
    /\ wrapped \in BOOLEAN

(* The characters of the line from position i on.                          *)
TailFrom(b, i, n) == [k \in 1 .. n - i |-> b[i + k - 1]]

(* Echoing s, then stepping back to the position it started from plus      *)
(* keep characters.                                                        *)
EchoAndReturn_no_return(c, s, keep) == console_write(c, s)
EchoAndReturn(c, s, keep) ==
    console_move_cursor(console_write(c, s), keep - Len(s), 0)

(* A line of n characters leaves no free column behind the prompt.         *)
Overflows(n) == Len(Prompt) + n >= VGA_NUM_COLS

Init ==
    /\ buf = [i \in Index |-> Blank]
    /\ len = 0
    /\ cursor = 0
    /\ \E row \in Rows :
          con = console_write([console_init EXCEPT !.row = row], Prompt)
    /\ wrapped = FALSE

-----------------------------------------------------------------------------
(* The keys.                                                               *)

Shifted_forward(b, c) ==
    [i \in Index |-> IF i = cursor THEN c
                     ELSE IF i > cursor /\ i =< len THEN b[cursor]
                     ELSE b[i]]

(* The tail moves up one place, from its end, and c takes the gap.         *)
Inserted(b, c) ==
    [i \in Index |-> IF i = cursor THEN c
                     ELSE IF i > cursor /\ i =< len THEN b[i - 1]
                     ELSE b[i]]

HasRoom_off_by_one(n) == n =< TTY_BUF_SIZE
HasRoom(n) == n < TTY_BUF_SIZE

tty_insert_char(c) ==
    /\ HasRoom(len)
    /\ buf' = Inserted(buf, c)
    /\ len' = len + 1
    /\ cursor' = cursor + 1
    /\ con' = EchoAndReturn(con, <<c>> \o TailFrom(buf', cursor', len'), 1)
    /\ wrapped' = (wrapped \/ Overflows(len'))

(* The tail moves down one place; what was last stays where it was.        *)
Deleted(b) ==
    [i \in Index |-> IF i >= cursor - 1 /\ i < len - 1 THEN b[i + 1] ELSE b[i]]

EraseTail_keep_last(s) == s
EraseTail(s) == Append(s, Blank)

tty_backspace ==
    /\ cursor > 0
    /\ buf' = Deleted(buf)
    /\ cursor' = cursor - 1
    /\ len' = len - 1
    /\ con' = EchoAndReturn(console_move_cursor(con, -1, 0),
                            EraseTail(TailFrom(buf', cursor', len')), 0)
    /\ UNCHANGED wrapped

tty_cursor_left ==
    /\ cursor > 0
    /\ cursor' = cursor - 1
    /\ con' = console_move_cursor(con, -1, 0)
    /\ UNCHANGED <<buf, len, wrapped>>

tty_cursor_right ==
    /\ cursor < len
    /\ cursor' = cursor + 1
    /\ con' = console_move_cursor(con, 1, 0)
    /\ UNCHANGED <<buf, len, wrapped>>

tty_newline ==
    /\ con' = console_write(con, <<Newline>> \o Prompt)
    /\ len' = 0
    /\ cursor' = 0
    /\ wrapped' = FALSE
    /\ UNCHANGED buf

(* A release, a key the terminal ignores, or one of the early returns:     *)
(* a full buffer, nothing to delete, nowhere to move.                      *)
KeyIgnored == UNCHANGED vars

EditKey ==
    \/ \E c \in Chars : tty_insert_char(c)
    \/ tty_backspace
    \/ tty_cursor_left
    \/ tty_cursor_right
    \/ KeyIgnored

(* The keyboard handler's call.                                            *)
tty_handle_key == EditKey \/ tty_newline

(* The timer handler's call, once a second.                                *)
DrawClock ==
    /\ con' = vga_draw_clock(con)
    /\ UNCHANGED <<buf, len, cursor, wrapped>>

Next == tty_handle_key \/ DrawClock

Spec == Init /\ [][Next]_vars

-----------------------------------------------------------------------------
(* Properties.                                                             *)

(* The line in the buffer is the line LineEditor describes: insertions in  *)
(* the middle, deletions and a full buffer never lose, duplicate or swap   *)
(* a character.                                                            *)
Editor == INSTANCE LineEditor WITH
             Capacity <- TTY_BUF_SIZE,
             before   <- TailFrom(buf, 0, cursor),
             after    <- TailFrom(buf, cursor, len)

ImplementsLineEditor == Editor!Spec

(* "Align console cursor with tty's cursor" (tty.c:55): as long as the     *)
(* line has not reached the edge of the screen, the next character is      *)
(* echoed in the column of the buffer's cursor.                            *)
CursorAligned == ~wrapped => con.col = Len(Prompt) + cursor

(* What the row of the prompt should show.                                 *)
Shown(col) ==
    IF col < Len(Prompt) THEN Prompt[col + 1]
    ELSE IF col < Len(Prompt) + len THEN buf[col - Len(Prompt)]
    ELSE Blank

(* The row of the cursor shows the prompt, the line and nothing else, but  *)
(* for the clock over its last columns: no echo leaves a stale character   *)
(* and no deletion leaves the old end of the line behind.                  *)
RowShowsLine ==
    ~wrapped =>
        \A col \in Cols :
            \/ con.cells[con.row][col] = Shown(col)
            \/ <<con.row, col>> \in ClockCells

(* Editing the line changes no other row: only a line that reached the     *)
(* edge, or Enter, touches the rest of the screen.                         *)
StaysOnRow ==
    ~wrapped' /\ len' # 0 =>
        \A row \in Rows \ {con.row} : \A col \in Cols :
            \/ con'.cells[row][col] = con.cells[row][col]
            \/ <<row, col>> \in ClockCells

EditsStayOnRow == [][StaysOnRow]_vars

(* The same alignment for a line of any length, as the comment states it:  *)
(* the console cursor is where the buffer's cursor is, counting the rows   *)
(* the line occupies.                                                      *)
AlwaysAligned == con.col = (Len(Prompt) + cursor) % VGA_NUM_COLS
=============================================================================
