--------------------------- MODULE ConsoleProofs ---------------------------
(***************************************************************************)
(* What the calls of the console do to it, for a screen of any size and    *)
(* any text: the cursor comes back to the screen after every character,    *)
(* a text that fits the row appears there as it is and nothing else        *)
(* changes, and text written below an empty screen leaves it empty.        *)
(***************************************************************************)
EXTENDS Console, WellFoundedInduction, TLAPS

(* Consoles whose cells hold characters of G, and those of them whose      *)
(* cursor is on the screen.                                                *)
Consoles(G) == [row : Nat, col : Nat, cells : [Rows -> [Cols -> G]]]
OnScreen(G) == [row : Rows, col : Cols, cells : [Rows -> [Cols -> G]]]

(* The rows below the cursor are empty, but for the clock.                 *)
Below(con) ==
    \A row \in Rows : row > con.row =>
        \A col \in Cols : \/ con.cells[row][col] = Blank
                          \/ <<row, col>> \in ClockCells

-----------------------------------------------------------------------------
(* Induction.                                                              *)

LEMMA Least ==
    ASSUME NEW T, T \subseteq Nat, T # {}
    PROVE  \E x \in T : \A y \in T : x =< y
  <1>1. IsWellFoundedOn(OpToRel(<, Nat), Nat)
    BY NatLessThanWellFounded
  <1>2. PICK x \in T : \A y \in T : ~(<<y, x>> \in OpToRel(<, Nat))
    BY <1>1, WFMin
  <1>3. \A y \in T : ~(y < x)
    BY <1>2 DEF OpToRel
  <1> QED
    BY <1>3

(* Along the characters of a text: T holds before the first, and with each *)
(* it holds for one more.                                                  *)
LEMMA Along ==
    ASSUME NEW N \in Nat, NEW T, T \subseteq 0..N, 0 \in T,
           \A n \in 1..N : n - 1 \in T => n \in T
    PROVE  T = 0..N
  <1> SUFFICES ASSUME (0..N) \ T # {} PROVE FALSE
    OBVIOUS
  <1>1. PICK x \in (0..N) \ T : \A y \in (0..N) \ T : x =< y
    <2>1. (0..N) \ T \subseteq Nat
      OBVIOUS
    <2> QED
      BY <2>1, Least
  <1>2. x # 0 /\ x \in 1..N /\ x - 1 \in 0..N /\ x - 1 \notin (0..N) \ T
    BY <1>1
  <1> QED
    BY <1>2

-----------------------------------------------------------------------------
(* The recursive function of console_write.                                *)

(* g is its start, up to n characters of s.                                *)
IsWritten(g, n, con, s) ==
    g = [i \in 0..n |-> IF i = 0 THEN con ELSE console_putc(g[i - 1], s[i])]

LEMMA WrittenExists ==
    ASSUME NEW con, NEW s, NEW N \in Nat
    PROVE  \E g : IsWritten(g, N, con, s)
  <1> DEFINE T == {n \in 0..N : \E g : IsWritten(g, n, con, s)}
  <1>1. 0 \in T
    <2>1. IsWritten([i \in 0..0 |-> con], 0, con, s)
      BY DEF IsWritten
    <2> QED
      BY <2>1
  <1>2. ASSUME NEW n \in 1..N, n - 1 \in T
        PROVE  n \in T
    <2>1. PICK g : IsWritten(g, n - 1, con, s)
      BY <1>2
    <2> DEFINE Step(i) == IF i = 0 THEN con ELSE console_putc(g[i - 1], s[i])
               h == [i \in 0..n |-> Step(i)]
    <2>2. \A i \in 0 .. n - 1 : g[i] = Step(i)
      BY <2>1 DEF IsWritten
    <2>3. \A i \in 0 .. n - 1 : h[i] = g[i]
      BY <2>2
    <2>4. \A i \in 0..n : Step(i) = IF i = 0 THEN con
                                    ELSE console_putc(h[i - 1], s[i])
      <3>1. \A i \in 0..n : i # 0 => i - 1 \in 0 .. n - 1
        OBVIOUS
      <3>2. \A i \in 0..n : i # 0 => h[i - 1] = g[i - 1]
        BY <2>3, <3>1
      <3> HIDE DEF h
      <3> QED
        BY <3>2
    <2>5. IsWritten(h, n, con, s)
      <3> SUFFICES h = [i \in 0..n |-> IF i = 0 THEN con
                                       ELSE console_putc(h[i - 1], s[i])]
        BY DEF IsWritten
      <3> QED
        BY <2>4, Zenon
    <2> QED
      BY <2>5
  <1>3. T = 0..N
    <2> HIDE DEF T
    <2>1. T \subseteq 0..N
      BY DEF T
    <2> QED
      BY <1>1, <1>2, <2>1, Along
  <1>4. N \in 0..N
    OBVIOUS
  <1> QED
    BY <1>3, <1>4

(* One character after the other.                                          *)
LEMMA WrittenUnfolds ==
    ASSUME NEW con, NEW s, Len(s) \in Nat
    PROVE  /\ Written(con, s)[0] = con
           /\ \A n \in 1..Len(s) :
                Written(con, s)[n] = console_putc(Written(con, s)[n - 1], s[n])
  <1> DEFINE N == Len(s)
             after == CHOOSE g : g = [n \in 0..N |->
                          IF n = 0 THEN con ELSE console_putc(g[n - 1], s[n])]
  <1>1. \E g : g = [n \in 0..N |->
                       IF n = 0 THEN con ELSE console_putc(g[n - 1], s[n])]
    <2>1. PICK g : IsWritten(g, N, con, s)
      BY WrittenExists
    <2> QED
      BY <2>1, Zenon DEF IsWritten
  <1>2. after = [n \in 0..N |->
                    IF n = 0 THEN con ELSE console_putc(after[n - 1], s[n])]
    BY <1>1, Zenon
  <1>3. Written(con, s) = after
    BY Zenon DEF Written
  <1> HIDE DEF after
  <1>4. after[0] = con /\ \A n \in 1..N : after[n] = console_putc(after[n - 1], s[n])
    BY <1>2
  <1> QED
    BY <1>3, <1>4

(* What every character preserves, the text preserves.                     *)
LEMMA WriteStays ==
    ASSUME NEW con, NEW s, Len(s) \in Nat, NEW S, con \in S,
           \A n \in 1..Len(s) : \A c \in S : console_putc(c, s[n]) \in S
    PROVE  console_write(con, s) \in S
  <1> DEFINE N == Len(s)
             w == Written(con, s)
             T == {n \in 0..N : w[n] \in S}
  <1>1. w[0] = con /\ \A n \in 1..N : w[n] = console_putc(w[n - 1], s[n])
    BY WrittenUnfolds
  <1> HIDE DEF w
  <1>2. 0 \in T /\ T \subseteq 0..N
    BY <1>1
  <1>3. \A n \in 1..N : n - 1 \in T => n \in T
    BY <1>1
  <1>4. N \in T
    <2> HIDE DEF T
    <2>1. T = 0..N
      BY <1>2, <1>3, Along
    <2> QED
      BY <2>1
  <1> QED
    BY <1>4 DEF console_write, w
-----------------------------------------------------------------------------
(* The cursor.                                                             *)

(* Every character leaves the cursor on the screen, wherever it was.       *)
LEMMA PutcOnScreen ==
    ASSUME NEW G, Blank \in G, NEW con \in Consoles(G), NEW c \in G
    PROVE  console_putc(con, c) \in OnScreen(G)
  <1> USE GridAssumption
  <1> DEFINE Placed == [con EXCEPT !.cells = vga_put_char(@, con.row, con.col, c)]
  <1>1. /\ con = [row |-> con.row, col |-> con.col, cells |-> con.cells]
        /\ con.row \in Nat /\ con.col \in Nat /\ con.cells \in [Rows -> [Cols -> G]]
    BY DEF Consoles
  <1>2. Placed \in Consoles(G)
    <2>1. vga_put_char(con.cells, con.row, con.col, c) \in [Rows -> [Cols -> G]]
      BY <1>1 DEF vga_put_char
    <2> QED
      BY <1>1, <2>1 DEF Consoles
  <1>3. ASSUME NEW d \in [row : Nat, col : Cols, cells : [Rows -> [Cols -> G]]]
        PROVE  CheckScroll(d) \in OnScreen(G)
    <2>1. CASE d.row < VGA_NUM_ROWS
      BY <2>1 DEF CheckScroll, OnScreen, Rows
    <2>2. CASE ~(d.row < VGA_NUM_ROWS)
      <3>1. BlankRow \in [Cols -> G]
        BY DEF BlankRow
      <3>2. vga_scroll_up(d.cells) \in [Rows -> [Cols -> G]]
        <4>1. \A row \in Rows : row < LastRow => row + 1 \in Rows
          BY DEF Rows, LastRow
        <4> QED
          BY <3>1, <4>1 DEF vga_scroll_up
      <3>3. LastRow \in Rows
        BY DEF Rows, LastRow
      <3> QED
        BY <2>2, <3>2, <3>3 DEF CheckScroll, OnScreen
    <2> QED
      BY <2>1, <2>2
  <1>4. ASSUME NEW d \in Consoles(G)
        PROVE  LineFeed(d) \in [row : Nat, col : Cols, cells : [Rows -> [Cols -> G]]]
    <2>1. 0 \in Cols /\ d.row + 1 \in Nat /\ d.cells \in [Rows -> [Cols -> G]]
      BY DEF Cols, Consoles
    <2> QED
      BY <2>1 DEF LineFeed
  <1>5. ASSUME NEW d \in Consoles(G)
        PROVE  Advance(d) \in [row : Nat, col : Cols, cells : [Rows -> [Cols -> G]]]
    <2>1. CASE d.col + 1 >= VGA_NUM_COLS
      BY <1>4, <2>1 DEF Advance
    <2>2. CASE ~(d.col + 1 >= VGA_NUM_COLS)
      BY <2>2 DEF Advance, Consoles, Cols
    <2> QED
      BY <2>1, <2>2
  <1> HIDE DEF Placed
  <1>6. CheckScroll(LineFeed(con)) \in OnScreen(G)
    BY <1>3, <1>4
  <1>7. CheckScroll(Advance(Placed)) \in OnScreen(G)
    BY <1>2, <1>3, <1>5
  <1> QED
    BY <1>6, <1>7 DEF console_putc, Placed

LEMMA OnScreenIsConsole ==
    ASSUME NEW G, NEW con \in OnScreen(G)
    PROVE  con \in Consoles(G)
  BY GridAssumption DEF OnScreen, Consoles, Rows, Cols

(* So does every text that is not empty, and every move of the cursor.     *)
LEMMA WriteOnScreen ==
    ASSUME NEW G, Blank \in G, NEW con \in Consoles(G),
           NEW s \in Seq(G), Len(s) # 0
    PROVE  console_write(con, s) \in OnScreen(G)
  <1> DEFINE N == Len(s)
             w == Written(con, s)
             T == {n \in 0..N : w[n] \in Consoles(G)}
  <1>1. N \in Nat \ {0} /\ \A n \in 1..N : s[n] \in G
    OBVIOUS
  <1>2. w[0] = con /\ \A n \in 1..N : w[n] = console_putc(w[n - 1], s[n])
    BY WrittenUnfolds
  <1> HIDE DEF w, N
  <1>3. 0 \in T /\ T \subseteq 0..N
    BY <1>1, <1>2
  <1>4. \A n \in 1..N : n - 1 \in T => w[n] \in OnScreen(G)
    BY <1>1, <1>2, PutcOnScreen
  <1>5. \A n \in 1..N : n - 1 \in T => n \in T
    BY <1>4, OnScreenIsConsole
  <1>6. N - 1 \in T
    <2> HIDE DEF T
    <2>1. T = 0..N
      BY <1>1, <1>3, <1>5, Along
    <2> QED
      BY <1>1, <2>1
  <1>7. N \in 1..N
    BY <1>1
  <1> QED
    BY <1>4, <1>6, <1>7 DEF console_write, w, N

LEMMA MoveOnScreen ==
    ASSUME NEW G, NEW con \in Consoles(G), NEW dx \in Int
    PROVE  console_move_cursor(con, dx, 0) \in OnScreen(G)
  <1> USE GridAssumption
  <1>1. Clamp(con.row + 0, VGA_NUM_ROWS - 1) \in Rows
    BY DEF Clamp, Rows, Consoles
  <1>2. Clamp(con.col + dx, VGA_NUM_COLS - 1) \in Cols
    BY DEF Clamp, Cols, Consoles
  <1> QED
    BY <1>1, <1>2 DEF console_move_cursor, Consoles, OnScreen

(* A move that does not leave the row is exact.                            *)
LEMMA MoveExact ==
    ASSUME NEW G, NEW con \in OnScreen(G), NEW dx \in Int, con.col + dx \in Cols
    PROVE  console_move_cursor(con, dx, 0)
             = [row |-> con.row, col |-> con.col + dx, cells |-> con.cells]
  <1> USE GridAssumption
  <1>1. Clamp(con.row + 0, VGA_NUM_ROWS - 1) = con.row
    BY DEF Clamp, Rows, OnScreen
  <1>2. Clamp(con.col + dx, VGA_NUM_COLS - 1) = con.col + dx
    BY DEF Clamp, Cols, OnScreen
  <1> QED
    BY <1>1, <1>2 DEF console_move_cursor

(* The clock changes only its own cells.                                   *)
LEMMA ClockDrawn ==
    ASSUME NEW G, Clock \in G, NEW con \in Consoles(G)
    PROVE  LET d == vga_draw_clock(con) IN
           /\ d \in Consoles(G) /\ d.row = con.row /\ d.col = con.col
           /\ \A row \in Rows : \A col \in Cols :
                 \/ d.cells[row][col] = con.cells[row][col]
                 \/ <<row, col>> \in ClockCells
  <1> DEFINE d == vga_draw_clock(con)
             grid == [row \in Rows |-> [col \in Cols |->
                        IF <<row, col>> \in ClockCells THEN Clock
                                                       ELSE con.cells[row][col]]]
  <1>1. con.cells \in [Rows -> [Cols -> G]]
    BY DEF Consoles
  <1>2. grid \in [Rows -> [Cols -> G]]
    BY <1>1
  <1>3. d = [con EXCEPT !.cells = grid]
    BY DEF vga_draw_clock, Consoles
  <1>4. d.cells = grid /\ d.row = con.row /\ d.col = con.col /\ d \in Consoles(G)
    <2> HIDE DEF grid, d
    <2> QED
      BY <1>2, <1>3 DEF Consoles
  <1>5. \A row \in Rows : \A col \in Cols :
           \/ grid[row][col] = con.cells[row][col]
           \/ <<row, col>> \in ClockCells
    OBVIOUS
  <1> HIDE DEF grid, d
  <1>6. QED
    BY <1>4, <1>5 DEF d

-----------------------------------------------------------------------------
(* Text that fits the row.                                                 *)

LEMMA PutcFits ==
    ASSUME NEW G, NEW con \in OnScreen(G), NEW c \in G, c # Newline,
           con.col + 1 < VGA_NUM_COLS
    PROVE  console_putc(con, c)
             = [row |-> con.row, col |-> con.col + 1,
                cells |-> [con.cells EXCEPT ![con.row][con.col] = c]]
  <1> USE GridAssumption
  <1> DEFINE grid == [con.cells EXCEPT ![con.row][con.col] = c]
  <1>1. con = [row |-> con.row, col |-> con.col, cells |-> con.cells]
        /\ con.row \in Rows /\ con.col \in Cols
    BY DEF OnScreen
  <1>2. vga_put_char(con.cells, con.row, con.col, c) = grid
    BY <1>1 DEF vga_put_char
  <1> HIDE DEF grid
  <1>3. [con EXCEPT !.cells = vga_put_char(@, con.row, con.col, c)]
          = [row |-> con.row, col |-> con.col, cells |-> grid]
    BY <1>1, <1>2
  <1>4. Advance([row |-> con.row, col |-> con.col, cells |-> grid])
          = [row |-> con.row, col |-> con.col + 1, cells |-> grid]
    BY <1>1 DEF Advance, Cols
  <1>5. CheckScroll([row |-> con.row, col |-> con.col + 1, cells |-> grid])
          = [row |-> con.row, col |-> con.col + 1, cells |-> grid]
    BY <1>1 DEF CheckScroll, Rows
  <1> QED
    BY <1>3, <1>4, <1>5 DEF console_putc, grid

(* The row of the cursor with the first n characters of s written from the *)
(* cursor on.                                                              *)
RowWith(con, s, n) ==
    [col \in Cols |-> IF con.col =< col /\ col < con.col + n
                      THEN s[col - con.col + 1]
                      ELSE con.cells[con.row][col]]

With(con, s, n) ==
    [row |-> con.row, col |-> con.col + n,
     cells |-> [con.cells EXCEPT ![con.row] = RowWith(con, s, n)]]

LEMMA WithOnScreen ==
    ASSUME NEW G, NEW con \in OnScreen(G), NEW s \in Seq(G),
           NEW n \in 0..Len(s), con.col + n < VGA_NUM_COLS
    PROVE  With(con, s, n) \in OnScreen(G)
  <1> USE GridAssumption
  <1>1. con.row \in Rows /\ con.col \in Cols /\ con.cells \in [Rows -> [Cols -> G]]
    BY DEF OnScreen
  <1>2. RowWith(con, s, n) \in [Cols -> G]
    <2>1. ASSUME NEW col \in Cols, con.col =< col, col < con.col + n
          PROVE  s[col - con.col + 1] \in G
      <3>1. col - con.col + 1 \in 1..Len(s)
        BY <1>1, <2>1 DEF Cols
      <3> QED
        BY <3>1
    <2> QED
      BY <1>1, <2>1 DEF RowWith
  <1>3. con.col + n \in Cols
    BY <1>1 DEF Cols
  <1>4. [con.cells EXCEPT ![con.row] = RowWith(con, s, n)] \in [Rows -> [Cols -> G]]
    BY <1>1, <1>2
  <1> QED
    BY <1>1, <1>3, <1>4 DEF With, OnScreen

(* A text that leaves a free column stays on its row and changes no other  *)
(* cell than those it is written to.                                       *)
LEMMA WriteFits ==
    ASSUME NEW G, NEW con \in OnScreen(G), NEW s \in Seq(G),
           \A n \in 1..Len(s) : s[n] # Newline,
           con.col + Len(s) < VGA_NUM_COLS
    PROVE  console_write(con, s) = With(con, s, Len(s))
  <1> USE GridAssumption
  <1> DEFINE N == Len(s)
             w == Written(con, s)
             T == {n \in 0..N : w[n] = With(con, s, n)}
  <1>1. N \in Nat /\ \A n \in 1..N : s[n] \in G
    OBVIOUS
  <1>2. w[0] = con /\ \A n \in 1..N : w[n] = console_putc(w[n - 1], s[n])
    BY WrittenUnfolds
  <1>3. con = [row |-> con.row, col |-> con.col, cells |-> con.cells]
        /\ con.row \in Rows /\ con.col \in Cols /\ con.cells \in [Rows -> [Cols -> G]]
    BY DEF OnScreen
  <1> HIDE DEF w
  <1>4. With(con, s, 0) = con
    <2>1. RowWith(con, s, 0) = con.cells[con.row]
      <3>1. \A col \in Cols : ~(con.col =< col /\ col < con.col + 0)
        BY <1>3 DEF Cols
      <3>2. con.cells[con.row] = [col \in Cols |-> con.cells[con.row][col]]
        BY <1>3
      <3> QED
        BY <3>1, <3>2 DEF RowWith
    <2>2. [con.cells EXCEPT ![con.row] = con.cells[con.row]] = con.cells
      BY <1>3
    <2>3. con.col + 0 = con.col
      BY <1>3 DEF Cols
    <2> QED
      BY <1>3, <2>1, <2>2, <2>3 DEF With
  <1>5. ASSUME NEW n \in 1..N, w[n - 1] = With(con, s, n - 1)
        PROVE  w[n] = With(con, s, n)
    <2> DEFINE d == With(con, s, n - 1)
               old == RowWith(con, s, n - 1)
               new == RowWith(con, s, n)
    <2>1. d \in OnScreen(G)
      <3>1. n - 1 \in 0..N /\ con.col + (n - 1) < VGA_NUM_COLS
        BY <1>1, <1>3 DEF Cols
      <3> QED
        BY <3>1, WithOnScreen
    <2>2. d.row = con.row /\ d.col = con.col + (n - 1)
          /\ d.cells = [con.cells EXCEPT ![con.row] = old]
      BY DEF With
    <2>3. d.col + 1 = con.col + n /\ d.col + 1 < VGA_NUM_COLS /\ d.col \in Cols
      BY <1>1, <1>3, <2>2 DEF Cols
    <2>4. new = [old EXCEPT ![d.col] = s[n]]
      <3>1. ASSUME NEW col \in Cols
            PROVE  new[col] = IF col = d.col THEN s[n] ELSE old[col]
        <4>1. CASE col = d.col
          <5>1. con.col =< col /\ col < con.col + n /\ col - con.col + 1 = n
            BY <1>3, <2>2, <4>1, SMTT(30) DEF Cols
          <5> QED
            BY <4>1, <5>1 DEF RowWith
        <4>2. CASE col # d.col
          <5>1. col < con.col + n <=> col < con.col + (n - 1)
            BY <1>3, <2>2, <4>2 DEF Cols
          <5> QED
            BY <4>2, <5>1 DEF RowWith
        <4> QED
          BY <4>1, <4>2
      <3>2. old = [col \in Cols |-> old[col]] /\ new = [col \in Cols |-> new[col]]
        BY DEF RowWith
      <3> HIDE DEF d, old, new
      <3> QED
        BY <3>1, <3>2
    <2>5. [d.cells EXCEPT ![d.row][d.col] = s[n]] = [con.cells EXCEPT ![con.row] = new]
      <3> HIDE DEF old, new, d
      <3> QED
        BY <1>3, <2>2, <2>4
    <2>6. console_putc(d, s[n])
            = [row |-> d.row, col |-> d.col + 1,
               cells |-> [d.cells EXCEPT ![d.row][d.col] = s[n]]]
      <3> HIDE DEF d
      <3> QED
        BY <1>1, <2>1, <2>3, PutcFits
    <2>7. w[n] = console_putc(d, s[n])
      BY <1>2, <1>5
    <2> HIDE DEF d
    <2> QED
      BY <2>2, <2>3, <2>5, <2>6, <2>7 DEF With
  <1>6. 0 \in T /\ T \subseteq 0..N
    BY <1>1, <1>2, <1>4
  <1>7. \A n \in 1..N : n - 1 \in T => n \in T
    BY <1>5
  <1>8. N \in T
    <2> HIDE DEF T, N
    <2>1. T = 0..N
      BY <1>1, <1>6, <1>7, Along
    <2> QED
      BY <1>1, <2>1
  <1> QED
    BY <1>8 DEF console_write, w

-----------------------------------------------------------------------------
(* The rows below the cursor.                                              *)

LEMMA ScrollBelow ==
    ASSUME NEW G, NEW con \in [row : Nat, col : Cols, cells : [Rows -> [Cols -> G]]],
           Below(con)
    PROVE  Below(CheckScroll(con))
  <1> USE GridAssumption
  <1>1. CASE con.row < VGA_NUM_ROWS
    BY <1>1 DEF CheckScroll
  <1>2. CASE ~(con.row < VGA_NUM_ROWS)
    <2>1. CheckScroll(con).row = LastRow
      BY <1>2 DEF CheckScroll
    <2>2. \A row \in Rows : ~(row > LastRow)
      BY DEF Rows, LastRow
    <2> QED
      BY <2>1, <2>2 DEF Below
  <1> QED
    BY <1>1, <1>2

(* Writing never puts anything below the cursor.                           *)
LEMMA PutcBelow ==
    ASSUME NEW G, Blank \in G, NEW con \in OnScreen(G), NEW c \in G, Below(con)
    PROVE  Below(console_putc(con, c))
  <1> USE GridAssumption
  <1> DEFINE Placed == [con EXCEPT !.cells = vga_put_char(@, con.row, con.col, c)]
             Wide == [row : Nat, col : Cols, cells : [Rows -> [Cols -> G]]]
  <1>1. /\ con = [row |-> con.row, col |-> con.col, cells |-> con.cells]
        /\ con.row \in Rows /\ con.col \in Cols /\ con.row \in Nat /\ con.col \in Nat
        /\ con.cells \in [Rows -> [Cols -> G]] /\ con \in Wide
    BY DEF OnScreen, Rows, Cols
  <1>2. ASSUME NEW d \in Wide, Below(d)
        PROVE  Below(LineFeed(d)) /\ LineFeed(d) \in Wide
    <2>1. LineFeed(d) \in Wide
      BY DEF LineFeed, Cols
    <2>2. LineFeed(d).row = d.row + 1 /\ LineFeed(d).cells = d.cells
      BY DEF LineFeed
    <2>3. \A row \in Rows : row > d.row + 1 => row > d.row
      BY DEF Rows
    <2>4. Below(LineFeed(d))
      BY <1>2, <2>2, <2>3 DEF Below
    <2> QED
      BY <2>1, <2>4
  <1>3. Placed \in Wide /\ Placed.row = con.row /\ Below(Placed)
    <2>1. Placed = [row |-> con.row, col |-> con.col,
                    cells |-> [con.cells EXCEPT ![con.row][con.col] = c]]
      <3> DEFINE grid == [con.cells EXCEPT ![con.row][con.col] = c]
      <3>1. vga_put_char(con.cells, con.row, con.col, c) = grid
        BY <1>1 DEF vga_put_char
      <3> HIDE DEF grid
      <3>2. Placed = [con EXCEPT !.cells = grid]
        BY <3>1
      <3>3. [con EXCEPT !.cells = grid]
              = [row |-> con.row, col |-> con.col, cells |-> grid]
        <4> HIDE DEF Placed, Wide
        <4> QED
          BY <1>1
      <3> QED
        BY <3>2, <3>3, Zenon DEF grid
    <2>2. \A row \in Rows : row > con.row =>
             [con.cells EXCEPT ![con.row][con.col] = c][row] = con.cells[row]
      BY <1>1
    <2>3. [con.cells EXCEPT ![con.row][con.col] = c] \in [Rows -> [Cols -> G]]
      BY <1>1
    <2> HIDE DEF Placed
    <2>4. Placed \in Wide
      BY <1>1, <2>1, <2>3
    <2>5. Placed.row = con.row
          /\ Placed.cells = [con.cells EXCEPT ![con.row][con.col] = c]
      BY <2>1
    <2>6. Below(Placed)
      BY <2>2, <2>5 DEF Below
    <2> QED
      BY <2>4, <2>5, <2>6
  <1>4. Advance(Placed) \in Wide /\ Below(Advance(Placed))
    <2> HIDE DEF Placed
    <2>1. CASE Placed.col + 1 >= VGA_NUM_COLS
      BY <1>2, <1>3, <2>1 DEF Advance
    <2>2. CASE ~(Placed.col + 1 >= VGA_NUM_COLS)
      <3>1. Advance(Placed) = [Placed EXCEPT !.col = @ + 1]
        BY <2>2 DEF Advance
      <3>2. Placed.col + 1 \in Cols
        BY <1>3, <2>2 DEF Cols
      <3>3. Advance(Placed) \in Wide /\ Advance(Placed).row = Placed.row
            /\ Advance(Placed).cells = Placed.cells
        BY <1>3, <3>1, <3>2
      <3> QED
        BY <1>3, <3>3 DEF Below
    <2> QED
      BY <2>1, <2>2
  <1> HIDE DEF Placed
  <1>5. Below(CheckScroll(Advance(Placed)))
    BY <1>4, ScrollBelow
  <1>6. Below(CheckScroll(LineFeed(con)))
    BY <1>1, <1>2, ScrollBelow
  <1> QED
    BY <1>5, <1>6 DEF console_putc, Placed

LEMMA WriteBelow ==
    ASSUME NEW G, Blank \in G, NEW con \in OnScreen(G), NEW s \in Seq(G), Below(con)
    PROVE  console_write(con, s) \in OnScreen(G) /\ Below(console_write(con, s))
  <1> DEFINE S == {d \in OnScreen(G) : Below(d)}
  <1>1. Len(s) \in Nat /\ \A n \in 1..Len(s) : s[n] \in G
    OBVIOUS
  <1>2. \A n \in 1..Len(s) : \A d \in S : console_putc(d, s[n]) \in S
    BY <1>1, PutcBelow, PutcOnScreen, OnScreenIsConsole
  <1>3. con \in S
    OBVIOUS
  <1>4. console_write(con, s) \in S
    <2> HIDE DEF S
    <2> QED
      BY <1>1, <1>2, <1>3, WriteStays
  <1> QED
    BY <1>4

(* A newline on the last row, or above empty rows, comes to an empty row.  *)
LEMMA NewlineClears ==
    ASSUME NEW G, Blank \in G, Newline \in G, NEW con \in OnScreen(G),
           con.row = LastRow \/ Below(con)
    PROVE  LET d == console_putc(con, Newline) IN
           /\ d \in OnScreen(G) /\ d.col = 0 /\ Below(d)
           /\ \A col \in Cols : \/ d.cells[d.row][col] = Blank
                                 \/ <<d.row, col>> \in ClockCells
  <1> USE GridAssumption
  <1> DEFINE d == console_putc(con, Newline)
  <1>1. /\ con = [row |-> con.row, col |-> con.col, cells |-> con.cells]
        /\ con.row \in Rows /\ con.cells \in [Rows -> [Cols -> G]]
    BY DEF OnScreen
  <1>2. d = CheckScroll([row |-> con.row + 1, col |-> 0, cells |-> con.cells])
    BY DEF console_putc, LineFeed
  <1>3. d \in OnScreen(G)
    BY PutcOnScreen, OnScreenIsConsole
  <1> HIDE DEF d
  <1>4. CASE con.row = LastRow
    <2>1. d.row = LastRow /\ d.col = 0 /\ d.cells = vga_scroll_up(con.cells)
      BY <1>1, <1>2, <1>4 DEF CheckScroll, LastRow
    <2>2. LastRow \in Rows /\ \A row \in Rows : ~(row > LastRow)
      BY DEF Rows, LastRow
    <2>3. d.cells[d.row] = BlankRow
      BY <2>1, <2>2 DEF vga_scroll_up
    <2>4. Below(d)
      BY <2>1, <2>2 DEF Below
    <2> QED
      BY <1>3, <2>1, <2>3, <2>4 DEF d, BlankRow
  <1>5. CASE con.row # LastRow
    <2>1. con.row + 1 \in Rows /\ con.row + 1 < VGA_NUM_ROWS
      BY <1>1, <1>5 DEF Rows, LastRow
    <2>2. d.row = con.row + 1 /\ d.col = 0 /\ d.cells = con.cells
      BY <1>2, <2>1 DEF CheckScroll
    <2>3. \A row \in Rows : row > con.row + 1 => row > con.row
      BY <1>1 DEF Rows
    <2>4. con.row + 1 > con.row
      BY <1>1 DEF Rows
    <2>5. Below(con)
      BY <1>5
    <2>6. Below(d)
      BY <2>2, <2>3, <2>5 DEF Below
    <2>7. \A col \in Cols : \/ d.cells[d.row][col] = Blank
                            \/ <<d.row, col>> \in ClockCells
      BY <2>1, <2>2, <2>4, <2>5 DEF Below
    <2> QED
      BY <1>3, <2>2, <2>6, <2>7 DEF d
  <1> QED
    BY <1>4, <1>5

(* A text is its first character, then the rest.                           *)
LEMMA WriteCons ==
    ASSUME NEW G, NEW con, NEW c \in G, NEW s \in Seq(G)
    PROVE  console_write(con, <<c>> \o s) = console_write(console_putc(con, c), s)
  <1> DEFINE all == <<c>> \o s
             N == Len(s)
             w == Written(con, all)
             v == Written(console_putc(con, c), s)
             T == {n \in 0..N : w[n + 1] = v[n]}
  <1>1. N \in Nat /\ all \in Seq(G) /\ Len(all) = N + 1 /\ all[1] = c
        /\ \A n \in 1..N : all[n + 1] = s[n]
    OBVIOUS
  <1>2. /\ w[0] = con
        /\ \A n \in 1..N + 1 : w[n] = console_putc(w[n - 1], all[n])
    <2> HIDE DEF all
    <2> QED
      BY <1>1, WrittenUnfolds
  <1>3. /\ v[0] = console_putc(con, c)
        /\ \A n \in 1..N : v[n] = console_putc(v[n - 1], s[n])
    BY WrittenUnfolds
  <1> HIDE DEF w, v, all, N
  <1>4. 0 \in T /\ T \subseteq 0..N
    <2>1. w[1] = console_putc(w[1 - 1], all[1])
      BY <1>1, <1>2
    <2> QED
      BY <1>1, <1>2, <1>3, <2>1
  <1>5. \A n \in 1..N : n - 1 \in T => n \in T
    <2> SUFFICES ASSUME NEW n \in 1..N, w[(n - 1) + 1] = v[n - 1]
                 PROVE  w[n + 1] = v[n]
      BY <1>1
    <2>1. n + 1 \in 1..N + 1 /\ (n + 1) - 1 = n /\ (n - 1) + 1 = n
      BY <1>1
    <2>2. w[n + 1] = console_putc(w[(n + 1) - 1], all[n + 1])
      BY <1>2, <2>1
    <2>3. v[n] = console_putc(v[n - 1], s[n])
      BY <1>3
    <2> QED
      BY <1>1, <2>1, <2>2, <2>3
  <1>6. N \in T
    <2> HIDE DEF T
    <2>1. T = 0..N
      BY <1>1, <1>4, <1>5, Along
    <2> QED
      BY <1>1, <2>1
  <1>7. console_write(con, all) = w[N + 1]
    BY <1>1 DEF console_write, w
  <1>8. console_write(console_putc(con, c), s) = v[N]
    BY DEF console_write, v, N
  <1> QED
    BY <1>6, <1>7, <1>8 DEF all
=============================================================================
