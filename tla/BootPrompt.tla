----------------------------- MODULE BootPrompt -----------------------------
(***************************************************************************)
(* kmain prints the first prompt after keyboard_init (kmain.c:27-28), with *)
(* interrupts on: keys are handled and the clock is drawn between the      *)
(* instructions of console_vga_putc.  The terminal and its handlers are    *)
(* those of Tty, one step each (HandlersDontNest); console_putc is broken  *)
(* up here, as gcc -O0 (Makefile:7) compiles it, into the instructions     *)
(* between which an interrupt makes a difference.                          *)
(*                                                                         *)
(* The stub gives back neither rsi, rdx nor rcx (idt.asm:28-54), and the   *)
(* build does not turn off the red zone, so the processor pushes its frame *)
(* over the locals of vga_put_char, which calls nothing.  What kmain held  *)
(* in either is then anything.  A store it sends outside the screen is     *)
(* dropped: memory other than the screen is not modelled.                  *)
(***************************************************************************)
EXTENDS Tty

CONSTANT MaxHits     \* handlers that run while the prompt is printed

ASSUME HitsAssumption == MaxHits \in Nat

VARIABLES
    at,         \* kmain's next step
    left,       \* what is left of the prompt to print
    rdx,        \* the register that takes col + 1 and row + 1, or the row
                \* that vga_scroll_up moves next
    target,     \* the arguments of vga_put_char
    hits,       \* how many handlers ran before kmain was done
    disturbed   \* did one, and was no prompt begun on a new last row since?
                \* (history)

kmainVars == <<at, left, rdx, target>>
bootVars  == <<vars, kmainVars, hits, disturbed>>

Garbage == "garbage"
Nowhere == [row |-> VGA_NUM_ROWS, col |-> VGA_NUM_COLS, c |-> Garbage]

(* What a register holds that the stub did not give back, as far as the    *)
(* comparisons that follow can tell.                                       *)
Junk == 0 .. (IF VGA_NUM_ROWS > VGA_NUM_COLS THEN VGA_NUM_ROWS
                                             ELSE VGA_NUM_COLS) + 1
JunkTargets == [row : Rows, col : Cols, c : {Garbage}] \cup {Nowhere}

PromptInit ==
    /\ buf = [i \in Index |-> Blank]
    /\ len = 0 /\ cursor = 0 /\ wrapped = FALSE
    /\ \E row \in Rows : con = [console_init EXCEPT !.row = row]
    /\ at = "next" /\ left = Prompt /\ rdx = 0 /\ target = Nowhere
    /\ hits = 0 /\ disturbed = FALSE

-----------------------------------------------------------------------------
(* kmain.                                                                  *)

Goto(from, to) == at = from /\ at' = to

(* The next character: row and col are read for the call.                  *)
CallPutChar ==
    /\ left # <<>>
    /\ Goto("next", "put")
    /\ target' = [row |-> con.row, col |-> con.col, c |-> Head(left)]
    /\ left' = Tail(left)
    /\ UNCHANGED <<con, rdx>>

PutChar ==
    /\ Goto("put", "col")
    /\ con' = [con EXCEPT !.cells =
                  vga_put_char(@, target.row, target.col, target.c)]
    /\ target' = Nowhere
    /\ UNCHANGED <<left, rdx>>

(* con->col++                                                              *)
LoadCol ==
    /\ Goto("col", "store_col")
    /\ rdx' = con.col + 1
    /\ UNCHANGED <<con, left, target>>

StoreCol ==
    /\ Goto("store_col", "wrap")
    /\ con' = [con EXCEPT !.col = rdx]
    /\ UNCHANGED <<left, rdx, target>>

MustWrap_exact(c) == c.col = VGA_NUM_COLS
MustWrap(c) == c.col >= VGA_NUM_COLS

TestCol ==
    /\ at = "wrap"
    /\ at' = IF MustWrap(con) THEN "carriage_return" ELSE "scroll"
    /\ UNCHANGED <<con, left, rdx, target>>

CarriageReturn ==
    /\ Goto("carriage_return", "row")
    /\ con' = [con EXCEPT !.col = 0]
    /\ UNCHANGED <<left, rdx, target>>

(* con->row++                                                              *)
LoadRow ==
    /\ Goto("row", "store_row")
    /\ rdx' = con.row + 1
    /\ UNCHANGED <<con, left, target>>

StoreRow ==
    /\ Goto("store_row", "scroll")
    /\ con' = [con EXCEPT !.row = rdx]
    /\ UNCHANGED <<left, rdx, target>>

TestRow ==
    /\ at = "scroll"
    /\ \/ con.row <  VGA_NUM_ROWS /\ at' = "next" /\ UNCHANGED rdx
       \/ con.row >= VGA_NUM_ROWS /\ at' = "move_row" /\ rdx' = 1
    /\ UNCHANGED <<con, left, target>>

(* vga_scroll_up, row by row; the last one is cleared.                     *)
MoveRow ==
    /\ at = "move_row"
    /\ \/ /\ rdx < VGA_NUM_ROWS
          /\ con' = [con EXCEPT !.cells[rdx - 1] = con.cells[rdx]]
          /\ rdx' = rdx + 1
          /\ UNCHANGED at
       \/ /\ rdx = VGA_NUM_ROWS
          /\ con' = [con EXCEPT !.cells[LastRow] = BlankRow]
          /\ Goto("move_row", "last_row")
          /\ UNCHANGED rdx
    /\ UNCHANGED <<left, target>>

StayOnScreen ==
    /\ Goto("last_row", "next")
    /\ con' = [con EXCEPT !.row = LastRow]
    /\ UNCHANGED <<left, rdx, target>>

Printed == at = "next" /\ left = <<>>

kmain ==
    /\ \/ CallPutChar \/ PutChar \/ LoadCol \/ StoreCol \/ TestCol
       \/ CarriageReturn \/ LoadRow \/ StoreRow \/ TestRow \/ MoveRow
       \/ StayOnScreen
    /\ UNCHANGED <<ttyVars, wrapped, hits, disturbed>>

-----------------------------------------------------------------------------
(* The handlers.                                                           *)

(* What kmain held at this step and does not get back.                     *)
Clobber ==
    /\ rdx' \in IF at \in {"store_col", "store_row"} THEN Junk \cup {rdx}
                                                     ELSE {rdx}
    /\ target' \in IF at = "put" THEN JunkTargets \cup {target} ELSE {target}
    /\ UNCHANGED <<at, left>>

(* A handler before the prompt is out.                                     *)
Hit ==
    /\ ~Printed /\ hits < MaxHits
    /\ tty_handle_key \/ DrawClock
    /\ Clobber
    /\ hits' = hits + 1
    /\ disturbed' = TRUE

(* One after it: kmain is in hlt and holds nothing.  Enter on the last row *)
(* begins a prompt on a row that was just cleared.                         *)
Served ==
    /\ Printed
    /\ \/ /\ tty_newline
          /\ disturbed' = (disturbed /\ con.row # LastRow)
       \/ /\ EditKey \/ DrawClock
          /\ UNCHANGED disturbed
    /\ UNCHANGED <<kmainVars, hits>>

PromptNext == kmain \/ Hit \/ Served

PromptSpec == PromptInit /\ [][PromptNext]_bootVars

-----------------------------------------------------------------------------
(* Properties.                                                             *)

(* Between two characters the cursor is on the screen, whatever handlers   *)
(* did to it, and to the registers, in the middle of console_vga_putc: its *)
(* tests are inequalities of unsigned numbers, made after each store.      *)
(* Were it off the screen once, vga_put_char would drop all that follows.  *)
CursorRecovers == at = "next" => con.row \in Rows /\ con.col \in Cols

(* The prompt is out and nothing disturbed it, or Enter has since begun    *)
(* another on a clear row: a race lasts no longer than that.               *)
Settled == Printed /\ ~disturbed

(* "Align console cursor with tty's cursor" (tty.c:55), as soon as the     *)
(* terminal has settled: CursorAligned of Tty.                             *)
SettledAligned == Settled => CursorAligned

(* The row shows the prompt and the line as soon as the terminal has       *)
(* settled, whatever the race before left on the screen.                   *)
SettledRow == Settled => RowShowsLine

(* Editing a line of a settled terminal changes no other row.              *)
SettledEditsStay == [][Settled => StaysOnRow]_bootVars
=============================================================================
