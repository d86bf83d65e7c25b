----------------------------- MODULE TtyProofs -----------------------------
(***************************************************************************)
(* The terminal implements LineEditor, for a buffer of any size and any    *)
(* characters, whether kmain is still printing or not; and what it shows:  *)
(* for a screen of any size, the cursor survives the handlers that come    *)
(* between kmain's steps, and a settled prompt shows its line.             *)
(***************************************************************************)
EXTENDS BootPrompt, ConsoleProofs, SequenceTheorems

(* What the buffer holds, and where the line and its cursor are in it.     *)
Text == Chars \cup {Blank}

BufInv ==
    /\ buf \in [Index -> Text]
    /\ len \in 0..TTY_BUF_SIZE
    /\ cursor \in 0..len

Before == TailFrom(buf, 0, cursor)
After  == TailFrom(buf, cursor, len)

-----------------------------------------------------------------------------
(* A piece of the buffer is a sequence of text.                            *)
LEMMA Piece ==
    ASSUME NEW b \in [Index -> Text], NEW n \in 0..TTY_BUF_SIZE, NEW i \in 0..n
    PROVE  /\ TailFrom(b, i, n) \in Seq(Text)
           /\ Len(TailFrom(b, i, n)) = n - i
           /\ \A k \in 1 .. n - i : TailFrom(b, i, n)[k] = b[i + k - 1]
  <1> DEFINE s == TailFrom(b, i, n)
  <1>1. n - i \in Nat
    BY BufferAssumption
  <1>2. \A k \in 1 .. n - i : i + k - 1 \in Index
    BY BufferAssumption DEF Index
  <1>3. s \in [1 .. n - i -> Text]
    BY <1>2 DEF TailFrom
  <1>4. s \in Seq(Text)
    BY <1>1, <1>3, SeqDef
  <1>5. DOMAIN s = 1 .. n - i /\ \A k \in 1 .. n - i : s[k] = b[i + k - 1]
    BY DEF TailFrom
  <1>6. Len(s) = n - i
    BY <1>1, <1>4, <1>5, LenProperties
  <1>7. QED
    BY <1>4, <1>5, <1>6

(* A piece of length zero is empty, and only that.                         *)
LEMMA PieceEmpty ==
    ASSUME NEW b \in [Index -> Text], NEW n \in 0..TTY_BUF_SIZE, NEW i \in 0..n
    PROVE  TailFrom(b, i, n) = <<>> <=> i = n
  <1>1. TailFrom(b, i, n) \in Seq(Text) /\ Len(TailFrom(b, i, n)) = n - i
    BY Piece
  <1>2. <<>> \in Seq(Text) /\ Len(<<>>) = 0
    BY EmptySeq
  <1>3. i = n => TailFrom(b, i, n) = <<>>
    <2> SUFFICES ASSUME i = n PROVE TailFrom(b, i, n) = <<>>
      OBVIOUS
    <2>1. Len(TailFrom(b, i, n)) = 0
      BY <1>1, BufferAssumption
    <2>2. QED
      BY <1>1, <1>2, <2>1, EmptySeq
  <1>4. TailFrom(b, i, n) = <<>> => i = n
    BY <1>1, <1>2, BufferAssumption
  <1>5. QED
    BY <1>3, <1>4

(* Pieces of two buffers with the same elements are the same.              *)
LEMMA SamePiece ==
    ASSUME NEW b \in [Index -> Text], NEW n \in 0..TTY_BUF_SIZE, NEW i \in 0..n,
           NEW s \in Seq(Text), Len(s) = n - i,
           \A k \in 1 .. n - i : s[k] = b[i + k - 1]
    PROVE  TailFrom(b, i, n) = s
  <1>1. /\ TailFrom(b, i, n) \in Seq(Text)
        /\ Len(TailFrom(b, i, n)) = n - i
        /\ \A k \in 1 .. n - i : TailFrom(b, i, n)[k] = b[i + k - 1]
    BY Piece
  <1>2. \A k \in 1 .. Len(s) : TailFrom(b, i, n)[k] = s[k]
    BY <1>1
  <1>3. QED
    BY <1>1, <1>2, SeqEqual

(* One character more at the end, and one less.                            *)
LEMMA PieceAppend ==
    ASSUME NEW b \in [Index -> Text], NEW n \in 0 .. TTY_BUF_SIZE - 1, NEW i \in 0..n
    PROVE  TailFrom(b, i, n + 1) = Append(TailFrom(b, i, n), b[n])
  <1> DEFINE s == TailFrom(b, i, n)
             t == Append(s, b[n])
  <1>1. n \in 0..TTY_BUF_SIZE /\ n \in Index /\ n + 1 \in 0..TTY_BUF_SIZE
        /\ i \in 0 .. n + 1
    BY BufferAssumption DEF Index
  <1>2. s \in Seq(Text) /\ Len(s) = n - i /\ \A k \in 1 .. n - i : s[k] = b[i + k - 1]
    BY <1>1, Piece
  <1>3. b[n] \in Text
    BY <1>1
  <1> HIDE DEF s
  <1>4. t \in Seq(Text) /\ Len(t) = n + 1 - i
    BY <1>1, <1>2, <1>3
  <1>5. \A k \in 1 .. n + 1 - i : t[k] = b[i + k - 1]
    <2> TAKE k \in 1 .. n + 1 - i
    <2>1. CASE k = n + 1 - i
      BY <1>1, <1>2, <1>3, <2>1
    <2>2. CASE k # n + 1 - i
      <3>1. k \in 1 .. n - i
        BY <1>1, <2>2
      <3>2. QED
        BY <1>1, <1>2, <1>3, <3>1
    <2>3. QED
      BY <2>1, <2>2
  <1> HIDE DEF t
  <1>6. TailFrom(b, i, n + 1) = t
    BY <1>1, <1>4, <1>5, SamePiece, SMTT(30)
  <1>7. QED
    BY <1>6 DEF s, t

LEMMA PieceShorter ==
    ASSUME NEW b \in [Index -> Text], NEW n \in 1..TTY_BUF_SIZE, NEW i \in 0 .. n - 1
    PROVE  TailFrom(b, i, n - 1)
             = SubSeq(TailFrom(b, i, n), 1, Len(TailFrom(b, i, n)) - 1)
  <1> DEFINE s == TailFrom(b, i, n)
             t == SubSeq(s, 1, n - i - 1)
  <1>1. n \in 0..TTY_BUF_SIZE /\ n - 1 \in 0..TTY_BUF_SIZE /\ i \in 0..n
        /\ n - i - 1 \in Nat
    BY BufferAssumption
  <1>2. s \in Seq(Text) /\ Len(s) = n - i /\ \A k \in 1 .. n - i : s[k] = b[i + k - 1]
    BY <1>1, Piece
  <1> HIDE DEF s
  <1>3. \A k \in 1 .. n - i - 1 : s[k] \in Text
    BY <1>1, <1>2, ElementOfSeq
  <1>4. /\ t \in Seq(Text)
        /\ Len(t) = IF 1 =< n - i - 1 THEN n - i - 1 - 1 + 1 ELSE 0
        /\ \A k \in 1 .. n - i - 1 - 1 + 1 : t[k] = s[1 + k - 1]
    BY <1>1, <1>3, SubSeqProperties
  <1> HIDE DEF t
  <1>5. Len(t) = (n - 1) - i
    BY <1>1, <1>4
  <1>6. \A k \in 1 .. (n - 1) - i : t[k] = b[i + k - 1]
    <2> TAKE k \in 1 .. (n - 1) - i
    <2>1. k \in 1 .. n - i - 1 - 1 + 1 /\ k \in 1 .. n - i /\ 1 + k - 1 = k
      BY <1>1
    <2>2. t[k] = s[1 + k - 1]
      BY <1>4, <2>1
    <2>3. s[k] = b[i + k - 1]
      BY <1>2, <2>1
    <2>4. QED
      BY <2>1, <2>2, <2>3
  <1>7. TailFrom(b, i, n - 1) = t
    BY <1>1, <1>4, <1>5, <1>6, SamePiece
  <1>8. QED
    BY <1>2, <1>7 DEF s, t

(* One character more at the start.                                        *)
LEMMA PieceCons ==
    ASSUME NEW b \in [Index -> Text], NEW n \in 1..TTY_BUF_SIZE, NEW i \in 0 .. n - 1
    PROVE  /\ TailFrom(b, i, n) = <<b[i]>> \o TailFrom(b, i + 1, n)
           /\ Head(TailFrom(b, i, n)) = b[i]
           /\ Tail(TailFrom(b, i, n)) = TailFrom(b, i + 1, n)
  <1> DEFINE s == TailFrom(b, i, n)
             t == TailFrom(b, i + 1, n)
  <1>1. n \in 0..TTY_BUF_SIZE /\ i \in 0..n /\ i + 1 \in 0..n /\ i \in Index
    BY BufferAssumption DEF Index
  <1>2. s \in Seq(Text) /\ Len(s) = n - i /\ \A k \in 1 .. n - i : s[k] = b[i + k - 1]
    BY <1>1, Piece
  <1>3. t \in Seq(Text) /\ Len(t) = n - (i + 1)
        /\ \A k \in 1 .. n - (i + 1) : t[k] = b[(i + 1) + k - 1]
    BY <1>1, Piece
  <1>4. s # <<>>
    BY <1>1, PieceEmpty
  <1> HIDE DEF s, t
  <1>5. Len(Tail(s)) = Len(s) - 1 /\ Tail(s) \in Seq(Text)
        /\ \A k \in 1 .. Len(Tail(s)) : Tail(s)[k] = s[k + 1]
    BY <1>2, <1>4, HeadTailProperties
  <1>6. \A k \in 1 .. Len(t) : Tail(s)[k] = t[k]
    BY <1>1, <1>2, <1>3, <1>5
  <1>7. Len(Tail(s)) = Len(t)
    BY <1>1, <1>2, <1>3, <1>5
  <1>8. Tail(s) = t
    BY <1>3, <1>5, <1>6, <1>7, SeqEqual
  <1>9. Head(s) = s[1] /\ s[1] = b[i]
    <2>1. 1 \in 1 .. n - i /\ i + 1 - 1 = i
      BY <1>1
    <2>2. s[1] = b[i]
      BY <1>2, <2>1
    <2>3. Head(s) = s[1]
      OBVIOUS
    <2>4. QED
      BY <2>2, <2>3
  <1>10. s = <<b[i]>> \o t
    <2> DEFINE u == <<b[i]>>
    <2>1. b[i] \in Text
      BY <1>1
    <2>2. u \in Seq(Text) /\ Len(u) = 1 /\ u[1] = b[i]
      BY <2>1
    <2> HIDE DEF u
    <2>3. /\ u \o t \in Seq(Text)
          /\ Len(u \o t) = Len(u) + Len(t)
          /\ \A k \in 1 .. Len(u) + Len(t) :
                (u \o t)[k] = IF k =< Len(u) THEN u[k] ELSE t[k - Len(u)]
      BY <1>3, <2>2, ConcatProperties
    <2>4. Len(u \o t) = Len(s)
      BY <1>1, <1>2, <1>3, <2>2, <2>3
    <2>5. \A k \in 1 .. Len(s) : s[k] = (u \o t)[k]
      <3> TAKE k \in 1 .. Len(s)
      <3>1. CASE k = 1
        BY <1>1, <1>2, <1>3, <1>9, <2>2, <2>3, <3>1
      <3>2. CASE k # 1
        <4>1. k - 1 \in 1 .. Len(t)
          BY <1>1, <1>2, <1>3, <3>2
        <4>2. (u \o t)[k] = t[k - 1]
          BY <1>1, <1>3, <2>2, <2>3, <3>2, <4>1
        <4>3. t[k - 1] = b[(i + 1) + (k - 1) - 1]
          BY <1>3, <4>1
        <4>4. s[k] = b[i + k - 1]
          BY <1>2
        <4>5. (i + 1) + (k - 1) - 1 = i + k - 1
          BY <1>1
        <4>6. QED
          BY <4>2, <4>3, <4>4, <4>5
      <3>3. QED
        BY <3>1, <3>2
    <2>6. s = u \o t
      BY <1>2, <2>3, <2>4, <2>5, SeqEqual
    <2>7. QED
      BY <2>6 DEF u
  <1>11. QED
    BY <1>8, <1>9, <1>10 DEF s, t
-----------------------------------------------------------------------------
(* The keys.                                                               *)

(* A piece that an operation leaves alone, or moves.                       *)
LEMMA MovedPiece ==
    ASSUME NEW b \in [Index -> Text], NEW d \in [Index -> Text],
           NEW n \in 0..TTY_BUF_SIZE, NEW i \in 0..n,
           NEW m \in 0..TTY_BUF_SIZE, NEW j \in 0..m, m - j = n - i,
           \A k \in 1 .. n - i : d[j + k - 1] = b[i + k - 1]
    PROVE  TailFrom(d, j, m) = TailFrom(b, i, n)
  <1>1. /\ TailFrom(b, i, n) \in Seq(Text)
        /\ Len(TailFrom(b, i, n)) = n - i
        /\ \A k \in 1 .. n - i : TailFrom(b, i, n)[k] = b[i + k - 1]
    BY Piece
  <1>2. /\ Len(TailFrom(b, i, n)) = m - j
        /\ \A k \in 1 .. m - j : TailFrom(b, i, n)[k] = d[j + k - 1]
    BY <1>1
  <1>3. QED
    BY <1>1, <1>2, SamePiece

(* Inserting at p: the text before p takes c at its end, the text from p   *)
(* on moves up.                                                            *)
LEMMA InsertedPieces ==
    ASSUME NEW b \in [Index -> Text], NEW d \in [Index -> Text],
           NEW n \in 0 .. TTY_BUF_SIZE - 1, NEW p \in 0..n, NEW c,
           d[p] = c,
           \A i \in Index : i < p => d[i] = b[i],
           \A i \in Index : i > p /\ i =< n => d[i] = b[i - 1]
    PROVE  /\ TailFrom(d, 0, p + 1) = Append(TailFrom(b, 0, p), c)
           /\ TailFrom(d, p + 1, n + 1) = TailFrom(b, p, n)
  <1> USE BufferAssumption
  <1>1. /\ p \in 0 .. TTY_BUF_SIZE - 1 /\ p \in 0..TTY_BUF_SIZE
        /\ n \in 0..TTY_BUF_SIZE /\ n + 1 \in 0..TTY_BUF_SIZE
        /\ 0 \in 0..p /\ p + 1 \in 0 .. n + 1
        /\ (n + 1) - (p + 1) = n - p
    OBVIOUS
  <1>2. TailFrom(d, 0, p + 1) = Append(TailFrom(d, 0, p), d[p])
    BY <1>1, PieceAppend
  <1>3. \A k \in 1 .. p - 0 : d[0 + k - 1] = b[0 + k - 1]
    <2> TAKE k \in 1 .. p - 0
    <2>1. 0 + k - 1 \in Index /\ 0 + k - 1 < p
      BY <1>1 DEF Index
    <2>2. QED
      BY <2>1
  <1>4. TailFrom(d, 0, p) = TailFrom(b, 0, p)
    BY <1>1, <1>3, MovedPiece
  <1>5. \A k \in 1 .. n - p : d[(p + 1) + k - 1] = b[p + k - 1]
    <2> TAKE k \in 1 .. n - p
    <2> DEFINE i == (p + 1) + k - 1
    <2>1. i \in Index /\ i > p /\ i =< n /\ i - 1 = p + k - 1
      BY <1>1 DEF Index
    <2> HIDE DEF i
    <2>2. d[i] = b[i - 1]
      BY <2>1
    <2>3. QED
      BY <2>1, <2>2 DEF i
  <1>6. TailFrom(d, p + 1, n + 1) = TailFrom(b, p, n)
    <2> DEFINE j == p + 1
               m == n + 1
    <2>1. j \in 0..m /\ m \in 0..TTY_BUF_SIZE /\ m - j = n - p /\ p \in 0..n
      BY <1>1
    <2>2. \A k \in 1 .. n - p : d[j + k - 1] = b[p + k - 1]
      BY <1>5
    <2>3. n \in 0..TTY_BUF_SIZE
      OBVIOUS
    <2> HIDE DEF j, m
    <2>4. TailFrom(d, j, m) = TailFrom(b, p, n)
      BY ONLY <2>1, <2>2, <2>3, MovedPiece,
              b \in [Index -> Text], d \in [Index -> Text], Zenon
    <2>5. QED
      BY <2>4 DEF j, m
  <1>7. QED
    BY <1>2, <1>4, <1>6

(* Deleting before p: the text before p loses its last character, the text *)
(* from p on moves down.                                                   *)
LEMMA DeletedPieces ==
    ASSUME NEW b \in [Index -> Text], NEW d \in [Index -> Text],
           NEW n \in 0..TTY_BUF_SIZE, NEW p \in 1..n,
           \A i \in Index : i < p - 1 => d[i] = b[i],
           \A i \in Index : i >= p - 1 /\ i < n - 1 => d[i] = b[i + 1]
    PROVE  /\ TailFrom(d, 0, p - 1)
                = SubSeq(TailFrom(b, 0, p), 1, Len(TailFrom(b, 0, p)) - 1)
           /\ TailFrom(d, p - 1, n - 1) = TailFrom(b, p, n)
  <1> USE BufferAssumption
  <1>1. /\ p \in 1..TTY_BUF_SIZE /\ p - 1 \in 0..TTY_BUF_SIZE
        /\ n - 1 \in 0..TTY_BUF_SIZE /\ 0 \in 0 .. p - 1 /\ 0 \in 0..p
        /\ p - 1 \in 0 .. n - 1 /\ p \in 0..n
        /\ (n - 1) - (p - 1) = n - p
    OBVIOUS
  <1>2. TailFrom(b, 0, p - 1)
          = SubSeq(TailFrom(b, 0, p), 1, Len(TailFrom(b, 0, p)) - 1)
    BY <1>1, PieceShorter
  <1>3. \A k \in 1 .. (p - 1) - 0 : d[0 + k - 1] = b[0 + k - 1]
    <2> TAKE k \in 1 .. (p - 1) - 0
    <2>1. 0 + k - 1 \in Index /\ 0 + k - 1 < p - 1
      BY <1>1 DEF Index
    <2>2. QED
      BY <2>1
  <1>4. TailFrom(d, 0, p - 1) = TailFrom(b, 0, p - 1)
    BY <1>1, <1>3, MovedPiece
  <1>5. \A k \in 1 .. n - p : d[(p - 1) + k - 1] = b[p + k - 1]
    <2> TAKE k \in 1 .. n - p
    <2> DEFINE i == (p - 1) + k - 1
    <2>1. i \in Index /\ i >= p - 1 /\ i < n - 1 /\ i + 1 = p + k - 1
      BY <1>1 DEF Index
    <2> HIDE DEF i
    <2>2. d[i] = b[i + 1]
      BY <2>1
    <2>3. QED
      BY <2>1, <2>2 DEF i
  <1>6. TailFrom(d, p - 1, n - 1) = TailFrom(b, p, n)
    <2> DEFINE j == p - 1
               m == n - 1
    <2>1. j \in 0..m /\ m \in 0..TTY_BUF_SIZE /\ m - j = n - p /\ p \in 0..n
      BY <1>1
    <2>2. \A k \in 1 .. n - p : d[j + k - 1] = b[p + k - 1]
      BY <1>5
    <2>3. n \in 0..TTY_BUF_SIZE
      OBVIOUS
    <2> HIDE DEF j, m
    <2>4. TailFrom(d, j, m) = TailFrom(b, p, n)
      BY ONLY <2>1, <2>2, <2>3, MovedPiece,
              b \in [Index -> Text], d \in [Index -> Text], Zenon
    <2>5. QED
      BY <2>4 DEF j, m
  <1>7. QED
    BY <1>2, <1>4, <1>6

(* The pieces of the line while BufInv holds.                              *)
LEMMA Pieces ==
    ASSUME BufInv
    PROVE  /\ Before \in Seq(Text) /\ Len(Before) = cursor
           /\ After \in Seq(Text) /\ Len(After) = len - cursor
           /\ Len(Before \o After) = len
           /\ Before = <<>> <=> cursor = 0
           /\ After = <<>> <=> cursor = len
           /\ cursor > 0 => Before[Len(Before)] = buf[cursor - 1]
  <1> USE BufferAssumption
  <1>1. /\ buf \in [Index -> Text] /\ len \in 0..TTY_BUF_SIZE /\ cursor \in 0..len
        /\ cursor \in 0..TTY_BUF_SIZE /\ 0 \in 0..cursor
    BY DEF BufInv
  <1>2. /\ Before \in Seq(Text) /\ Len(Before) = cursor - 0
        /\ \A k \in 1 .. cursor - 0 : Before[k] = buf[0 + k - 1]
    BY <1>1, Piece DEF Before
  <1>3. After \in Seq(Text) /\ Len(After) = len - cursor
    BY <1>1, Piece DEF After
  <1>4. cursor - 0 = cursor
    BY <1>1
  <1>5. Len(Before \o After) = Len(Before) + Len(After)
    BY <1>2, <1>3, ConcatProperties
  <1>6. Len(Before \o After) = len
    BY <1>1, <1>2, <1>3, <1>5
  <1>7. Before = <<>> <=> cursor = 0
    BY <1>1, PieceEmpty DEF Before
  <1>8. After = <<>> <=> cursor = len
    BY <1>1, PieceEmpty DEF After
  <1>9. cursor > 0 => Before[Len(Before)] = buf[cursor - 1]
    <2> SUFFICES ASSUME cursor > 0 PROVE Before[Len(Before)] = buf[cursor - 1]
      OBVIOUS
    <2>1. cursor \in 1 .. cursor - 0 /\ 0 + cursor - 1 = cursor - 1
      BY <1>1
    <2>2. QED
      BY <1>2, <1>4, <2>1
  <1>10. QED
    BY <1>2, <1>3, <1>4, <1>6, <1>7, <1>8, <1>9

LEMMA TypeStep ==
    ASSUME BufInv, NEW c \in Chars, tty_insert_char(c)
    PROVE  BufInv' /\ Editor!Type(c)
  <1> USE BufferAssumption
  <1>1. /\ len \in 0 .. TTY_BUF_SIZE - 1 /\ cursor \in 0..len /\ cursor \in Index
        /\ len' = len + 1 /\ cursor' = cursor + 1 /\ buf' = Inserted(buf, c)
        /\ buf \in [Index -> Text]
    BY DEF BufInv, tty_insert_char, HasRoom, Index
  <1>2. \A i \in Index : i > cursor => i - 1 \in Index
    BY <1>1 DEF Index
  <1>3. c \in Text
    BY DEF Text
  <1>4. buf' \in [Index -> Text]
    BY <1>1, <1>2, <1>3 DEF Inserted
  <1>5. BufInv'
    BY <1>1, <1>4 DEF BufInv
  <1>6. /\ buf'[cursor] = c
        /\ \A i \in Index : i < cursor => buf'[i] = buf[i]
        /\ \A i \in Index : i > cursor /\ i =< len => buf'[i] = buf[i - 1]
    BY <1>1 DEF Inserted, Index
  <1>7. /\ TailFrom(buf', 0, cursor + 1) = Append(Before, c)
        /\ TailFrom(buf', cursor + 1, len + 1) = After
    BY <1>1, <1>4, <1>6, InsertedPieces DEF Before, After
  <1>8. Before' = Append(Before, c) /\ After' = After
    BY <1>1, <1>7 DEF Before, After
  <1>9. Len(Before \o After) < TTY_BUF_SIZE
    BY <1>1, Pieces
  <1>10. Editor!Type(c)
    BY <1>8, <1>9 DEF Editor!Type, Editor!Line, Before, After
  <1>11. QED
    BY <1>5, <1>10

LEMMA DeleteStep ==
    ASSUME BufInv, tty_backspace
    PROVE  BufInv' /\ Editor!Delete
  <1> USE BufferAssumption
  <1>1. /\ len \in 0..TTY_BUF_SIZE /\ cursor \in 1..len
        /\ len' = len - 1 /\ cursor' = cursor - 1 /\ buf' = Deleted(buf)
        /\ buf \in [Index -> Text]
    BY DEF BufInv, tty_backspace
  <1>2. \A i \in Index : i < len - 1 => i + 1 \in Index
    BY <1>1 DEF Index
  <1>3. buf' \in [Index -> Text]
    BY <1>1, <1>2 DEF Deleted
  <1>4. BufInv'
    BY <1>1, <1>3 DEF BufInv
  <1>5. /\ \A i \in Index : i < cursor - 1 => buf'[i] = buf[i]
        /\ \A i \in Index : i >= cursor - 1 /\ i < len - 1 => buf'[i] = buf[i + 1]
    BY <1>1 DEF Deleted, Index
  <1>6. /\ TailFrom(buf', 0, cursor - 1) = SubSeq(Before, 1, Len(Before) - 1)
        /\ TailFrom(buf', cursor - 1, len - 1) = After
    BY <1>1, <1>3, <1>5, DeletedPieces, SMTT(30) DEF Before, After
  <1>7. Before' = SubSeq(Before, 1, Len(Before) - 1) /\ After' = After
    BY <1>1, <1>6 DEF Before, After
  <1>8. Before # <<>>
    BY <1>1, Pieces
  <1>9. Editor!Delete
    BY <1>7, <1>8 DEF Editor!Delete, Before, After
  <1>10. QED
    BY <1>4, <1>9

LEMMA LeftStep ==
    ASSUME BufInv, tty_cursor_left
    PROVE  BufInv' /\ Editor!Left
  <1> USE BufferAssumption
  <1>1. /\ len \in 0..TTY_BUF_SIZE /\ cursor \in 1..len
        /\ len' = len /\ cursor' = cursor - 1 /\ buf' = buf
        /\ buf \in [Index -> Text]
    BY DEF BufInv, tty_cursor_left
  <1>2. BufInv'
    BY <1>1 DEF BufInv
  <1>3. /\ cursor \in 1..TTY_BUF_SIZE /\ 0 \in 0 .. cursor - 1
        /\ len \in 1..TTY_BUF_SIZE /\ cursor - 1 \in 0 .. len - 1
        /\ (cursor - 1) + 1 = cursor
    BY <1>1
  <1>4. TailFrom(buf, 0, cursor - 1) = SubSeq(Before, 1, Len(Before) - 1)
    BY <1>1, <1>3, PieceShorter DEF Before
  <1>5. TailFrom(buf, cursor - 1, len)
          = <<buf[cursor - 1]>> \o TailFrom(buf, (cursor - 1) + 1, len)
    BY <1>1, <1>3, PieceCons
  <1>6. Before[Len(Before)] = buf[cursor - 1] /\ Before # <<>>
    BY <1>1, Pieces
  <1>7. Before' = SubSeq(Before, 1, Len(Before) - 1)
    BY <1>1, <1>4 DEF Before
  <1>8. After' = <<Before[Len(Before)]>> \o After
    BY <1>1, <1>3, <1>5, <1>6 DEF After
  <1>9. Editor!Left
    BY <1>6, <1>7, <1>8 DEF Editor!Left, Before, After
  <1>10. QED
    BY <1>2, <1>9

LEMMA RightStep ==
    ASSUME BufInv, tty_cursor_right
    PROVE  BufInv' /\ Editor!Right
  <1> USE BufferAssumption
  <1>1. /\ len \in 0..TTY_BUF_SIZE /\ cursor \in 0 .. len - 1
        /\ len' = len /\ cursor' = cursor + 1 /\ buf' = buf
        /\ buf \in [Index -> Text]
    BY DEF BufInv, tty_cursor_right
  <1>2. BufInv'
    BY <1>1 DEF BufInv
  <1>3. /\ cursor \in 0 .. TTY_BUF_SIZE - 1 /\ 0 \in 0..cursor
        /\ len \in 1..TTY_BUF_SIZE
    BY <1>1
  <1>4. TailFrom(buf, 0, cursor + 1) = Append(Before, buf[cursor])
    BY <1>1, <1>3, PieceAppend DEF Before
  <1>5. Head(After) = buf[cursor] /\ Tail(After) = TailFrom(buf, cursor + 1, len)
    BY <1>1, <1>3, PieceCons DEF After
  <1>6. Before' = Append(Before, Head(After)) /\ After' = Tail(After)
    BY <1>1, <1>4, <1>5 DEF Before, After
  <1>7. After # <<>>
    BY <1>1, Pieces
  <1>8. Editor!Right
    BY <1>6, <1>7 DEF Editor!Right, Before, After
  <1>9. QED
    BY <1>2, <1>8

LEMMA EnterStep ==
    ASSUME BufInv, tty_newline
    PROVE  BufInv' /\ Editor!Enter
  <1>1. len' = 0 /\ cursor' = 0 /\ buf' = buf /\ buf \in [Index -> Text]
    BY DEF BufInv, tty_newline
  <1>2. BufInv'
    BY <1>1, BufferAssumption DEF BufInv
  <1>3. 0 \in 0..TTY_BUF_SIZE /\ 0 \in 0..0
    BY BufferAssumption
  <1>4. TailFrom(buf, 0, 0) = <<>>
    BY <1>1, <1>3, PieceEmpty
  <1>5. QED
    BY <1>1, <1>2, <1>4 DEF Editor!Enter, TailFrom

-----------------------------------------------------------------------------
(* A step that leaves the line alone.                                      *)
LEMMA SameLine ==
    ASSUME BufInv, UNCHANGED ttyVars
    PROVE  BufInv' /\ UNCHANGED <<Before, After>>
  BY DEF BufInv, ttyVars, Before, After, TailFrom

(* A key is a step of the editor, or leaves the line alone.                *)
LEMMA KeyStep ==
    ASSUME BufInv, tty_handle_key
    PROVE  BufInv' /\ (Editor!Next \/ UNCHANGED <<Before, After>>)
  <1>1. CASE \E c \in Chars : tty_insert_char(c)
    BY <1>1, TypeStep DEF Editor!Next
  <1>2. CASE tty_backspace
    BY <1>2, DeleteStep DEF Editor!Next
  <1>3. CASE tty_cursor_left
    BY <1>3, LeftStep DEF Editor!Next
  <1>4. CASE tty_cursor_right
    BY <1>4, RightStep DEF Editor!Next
  <1>5. CASE KeyIgnored
    <2>1. UNCHANGED ttyVars
      BY <1>5 DEF KeyIgnored, vars, ttyVars
    <2>2. QED
      BY <2>1, SameLine
  <1>6. CASE tty_newline
    BY <1>6, EnterStep DEF Editor!Next
  <1>7. QED
    BY <1>1, <1>2, <1>3, <1>4, <1>5, <1>6 DEF tty_handle_key, EditKey

LEMMA EmptyLine ==
    ASSUME buf = [i \in Index |-> Blank], len = 0, cursor = 0
    PROVE  BufInv /\ Editor!Init
  <1>1. BufInv
    BY BufferAssumption DEF BufInv, Text
  <1>2. Before = <<>> /\ After = <<>>
    BY <1>1, Pieces
  <1>3. QED
    BY <1>1, <1>2 DEF Editor!Init, Before, After

(* The terminal alone: every sequence of keys and of redraws of the clock  *)
(* does to the buffer what an editor of one line does to its text.         *)
THEOREM LineIsEdited == Spec => ImplementsLineEditor
  <1>1. Init => BufInv /\ Editor!Init
    BY EmptyLine DEF Init
  <1>2. BufInv /\ [Next]_vars => BufInv' /\ [Editor!Next]_<<Before, After>>
    <2> SUFFICES ASSUME BufInv, [Next]_vars
                 PROVE  BufInv' /\ [Editor!Next]_<<Before, After>>
      OBVIOUS
    <2>1. CASE tty_handle_key
      BY <2>1, KeyStep
    <2>2. CASE UNCHANGED ttyVars
      BY <2>2, SameLine
    <2>3. QED
      BY <2>1, <2>2 DEF Next, DrawClock, vars, ttyVars
  <1>3. QED
    BY <1>1, <1>2, PTL DEF Spec, ImplementsLineEditor, Editor!Spec, Before, After

(* The same while kmain prints the prompt: what the interrupted console    *)
(* does to the screen never reaches the line.                              *)
THEOREM LineIsEditedAtBoot == PromptSpec => ImplementsLineEditor
  <1>1. PromptInit => BufInv /\ Editor!Init
    BY EmptyLine DEF PromptInit
  <1>2. BufInv /\ [PromptNext]_bootVars
          => BufInv' /\ [Editor!Next]_<<Before, After>>
    <2> SUFFICES ASSUME BufInv, [PromptNext]_bootVars
                 PROVE  BufInv' /\ [Editor!Next]_<<Before, After>>
      OBVIOUS
    <2>1. CASE tty_handle_key
      BY <2>1, KeyStep
    <2>2. CASE UNCHANGED ttyVars
      BY <2>2, SameLine
    <2>3. CASE Hit
      BY <2>1, <2>2, <2>3 DEF Hit, DrawClock, ttyVars
    <2>4. CASE Served
      BY <2>1, <2>2, <2>4 DEF Served, DrawClock, ttyVars, tty_handle_key
    <2>5. CASE kmain
      BY <2>2, <2>5 DEF kmain
    <2>6. CASE UNCHANGED bootVars
      BY <2>2, <2>6 DEF bootVars, vars, ttyVars
    <2>7. QED
      BY <2>3, <2>4, <2>5, <2>6 DEF PromptNext
  <1>3. QED
    BY <1>1, <1>2, PTL DEF PromptSpec, ImplementsLineEditor, Editor!Spec, Before, After
-----------------------------------------------------------------------------
(* The screen.  Whatever handlers do between the steps of kmain, and       *)
(* whatever registers they leave behind, each test of console_vga_putc     *)
(* brings the cursor back before the next character.                       *)

(* The cursor and the registers of kmain.                                  *)
Glyphs == STRING \cup Chars \cup {Blank, Clock, Newline, Garbage}

Steps == {"next", "put", "col", "store_col", "wrap", "carriage_return", "row",
          "store_row", "scroll", "move_row", "last_row"}

ScreenInv ==
    /\ con \in Consoles(Glyphs)
    /\ at \in Steps
    /\ at \notin {"scroll", "move_row", "last_row"} => con.row \in Rows
    /\ at \notin {"wrap", "carriage_return"} => con.col \in Cols
    /\ rdx \in Nat
    /\ at = "move_row" => rdx \in 1..VGA_NUM_ROWS
    /\ target \in [row : Nat, col : Nat, c : Glyphs]
    /\ left \in Seq(STRING)
    /\ wrapped \in BOOLEAN
    /\ disturbed \in BOOLEAN

(* The row of the cursor shows the first n characters of the prompt.       *)
ShowsPrompt(n) ==
    \A col \in Cols :
        \/ con.cells[con.row][col] = IF col < n THEN Prompt[col + 1] ELSE Blank
        \/ <<con.row, col>> \in ClockCells

(* kmain prints undisturbed: Taken characters are out, or the last of them *)
(* is on its way.                                                          *)
Taken == Len(Prompt) - Len(left)

Printing ==
    /\ len = 0 /\ cursor = 0 /\ wrapped = FALSE
    /\ Taken >= 0
    /\ \A i \in 1..Len(left) : left[i] = Prompt[Taken + i]
    /\ at \in {"next", "put", "col", "store_col", "wrap", "scroll"}
    /\ con.row \in Rows
    /\ at \in {"next", "wrap", "scroll"} => con.col = Taken /\ ShowsPrompt(Taken)
    /\ at \in {"put", "col", "store_col"} => Taken >= 1 /\ con.col = Taken - 1
    /\ at = "put" =>
          /\ ShowsPrompt(Taken - 1)
          /\ target = [row |-> con.row, col |-> con.col, c |-> Prompt[Taken]]
    /\ at \in {"col", "store_col"} => ShowsPrompt(Taken)
    /\ at = "store_col" => rdx = Taken

(* Afterwards the line and the screen agree while the line fits.           *)
Agree ==
    ~wrapped => /\ Len(Prompt) + len < VGA_NUM_COLS
                /\ con.col = Len(Prompt) + cursor
                /\ RowShowsLine

Undisturbed ==
    ~disturbed => Below(con) /\ IF Printed THEN Agree ELSE Printing
-----------------------------------------------------------------------------
(* What the handlers write.                                                *)

LEMMA GlyphsHold ==
    /\ Blank \in Glyphs /\ Clock \in Glyphs /\ Newline \in Glyphs /\ Garbage \in Glyphs
    /\ Chars \subseteq Glyphs /\ STRING \subseteq Glyphs
    /\ Text \subseteq Glyphs
    /\ Seq(STRING) \subseteq Seq(Glyphs)
    /\ Prompt \in Seq(Glyphs) /\ Len(Prompt) \in Nat
  <1>1. /\ Blank \in Glyphs /\ Clock \in Glyphs /\ Newline \in Glyphs /\ Garbage \in Glyphs
        /\ Chars \subseteq Glyphs /\ STRING \subseteq Glyphs /\ Text \subseteq Glyphs
    BY DEF Glyphs, Text
  <1>2. ASSUME NEW s \in Seq(STRING)
        PROVE  s \in Seq(Glyphs)
    <2>1. Len(s) \in Nat /\ s \in [1..Len(s) -> STRING]
      OBVIOUS
    <2>2. s \in [1..Len(s) -> Glyphs]
      BY <1>1, <2>1
    <2> QED
      BY <2>1, <2>2, SeqDef
  <1>3. Prompt \in Seq(STRING)
    BY PromptAssumption
  <1>4. Prompt \in Seq(Glyphs) /\ Len(Prompt) \in Nat
    BY <1>2, <1>3
  <1>5. Seq(STRING) \subseteq Seq(Glyphs)
    BY <1>2
  <1> QED
    BY <1>1, <1>4, <1>5

(* A piece of the line can be echoed.                                      *)
LEMMA PieceEchoes ==
    ASSUME NEW b \in [Index -> Text], NEW n \in 0..TTY_BUF_SIZE, NEW i \in 0..n
    PROVE  /\ TailFrom(b, i, n) \in Seq(Glyphs)
           /\ Len(TailFrom(b, i, n)) = n - i
           /\ \A k \in 1 .. n - i : /\ TailFrom(b, i, n)[k] = b[i + k - 1]
                                   /\ TailFrom(b, i, n)[k] # Newline
  <1> DEFINE s == TailFrom(b, i, n)
  <1>1. s \in Seq(Text) /\ Len(s) = n - i /\ n - i \in Nat
        /\ \A k \in 1 .. n - i : s[k] = b[i + k - 1]
    <2>1. n - i \in Nat
      BY BufferAssumption
    <2> QED
      BY <2>1, Piece
  <1> HIDE DEF s
  <1>2. s \in [1..Len(s) -> Text] /\ Len(s) \in Nat
    BY <1>1
  <1>3. s \in [1..Len(s) -> Glyphs]
    BY <1>2, GlyphsHold
  <1>4. s \in Seq(Glyphs)
    BY <1>2, <1>3, SeqDef
  <1>5. Newline \notin Text
    BY PrintableAssumption DEF Text, Blank, Newline
  <1>6. \A k \in 1 .. n - i : s[k] # Newline
    BY <1>1, <1>2, <1>5
  <1> QED
    BY <1>1, <1>4, <1>6 DEF s

LEMMA Echoed ==
    ASSUME NEW c \in Consoles(Glyphs), NEW s \in Seq(Glyphs), Len(s) # 0,
           NEW keep \in Int
    PROVE  EchoAndReturn(c, s, keep) \in OnScreen(Glyphs)
  <1>1. console_write(c, s) \in Consoles(Glyphs)
    BY GlyphsHold, WriteOnScreen, OnScreenIsConsole
  <1>2. keep - Len(s) \in Int
    OBVIOUS
  <1> QED
    BY <1>1, <1>2, MoveOnScreen DEF EchoAndReturn

(* The echo of an insertion and that of a deletion.                        *)
LEMMA InsertEcho ==
    ASSUME BufInv, NEW c \in Chars, tty_insert_char(c)
    PROVE  LET s == <<c>> \o TailFrom(buf', cursor', len') IN
           /\ s \in Seq(Glyphs) /\ Len(s) = len - cursor + 1
           /\ s[1] = c
           /\ \A k \in 2..Len(s) : s[k] = buf'[cursor + k - 1]
           /\ \A k \in 1..Len(s) : s[k] # Newline
  <1> USE BufferAssumption
  <1> DEFINE t == TailFrom(buf', cursor', len')
             s == <<c>> \o t
  <1>1. /\ len \in 0 .. TTY_BUF_SIZE - 1 /\ cursor \in 0..len
        /\ len' = len + 1 /\ cursor' = cursor + 1
        /\ buf' \in [Index -> Text]
    BY TypeStep DEF BufInv, tty_insert_char, HasRoom
  <1>2. len' \in 0..TTY_BUF_SIZE /\ cursor' \in 0..len'
    BY <1>1
  <1>3. /\ t \in Seq(Glyphs) /\ Len(t) = len' - cursor'
        /\ \A k \in 1 .. len' - cursor' : t[k] = buf'[cursor' + k - 1] /\ t[k] # Newline
    BY <1>1, <1>2, PieceEchoes
  <1>4. c \in Glyphs /\ c # Newline
    BY GlyphsHold, PrintableAssumption
  <1> HIDE DEF t
  <1>5. s \in Seq(Glyphs) /\ Len(s) = Len(t) + 1 /\ s[1] = c
        /\ \A k \in 2..Len(s) : s[k] = t[k - 1]
    BY <1>3, <1>4
  <1> HIDE DEF s
  <1>6. Len(s) = len - cursor + 1
    BY <1>1, <1>3, <1>5
  <1>7. ASSUME NEW k \in 2..Len(s)
        PROVE  s[k] = buf'[cursor + k - 1] /\ s[k] # Newline
    <2>1. k - 1 \in 1 .. len' - cursor' /\ cursor' + (k - 1) - 1 = cursor + k - 1
      BY <1>1, <1>6, <1>7
    <2> QED
      BY <1>3, <1>5, <2>1
  <1>8. \A k \in 1..Len(s) : k = 1 \/ k \in 2..Len(s)
    BY <1>1, <1>6
  <1>9. \A k \in 1..Len(s) : s[k] # Newline
    BY <1>4, <1>5, <1>7, <1>8
  <1> QED
    BY <1>5, <1>6, <1>7, <1>9 DEF s, t

LEMMA DeleteEcho ==
    ASSUME BufInv, tty_backspace
    PROVE  LET s == EraseTail(TailFrom(buf', cursor', len')) IN
           /\ s \in Seq(Glyphs) /\ Len(s) = len - cursor + 1
           /\ \A k \in 1 .. len - cursor : s[k] = buf'[cursor + k - 2]
           /\ s[Len(s)] = Blank
           /\ \A k \in 1..Len(s) : s[k] # Newline
  <1> USE BufferAssumption
  <1> DEFINE t == TailFrom(buf', cursor', len')
             s == Append(t, Blank)
  <1>1. /\ len \in 0..TTY_BUF_SIZE /\ cursor \in 1..len
        /\ len' = len - 1 /\ cursor' = cursor - 1
        /\ buf' \in [Index -> Text]
    BY DeleteStep DEF BufInv, tty_backspace
  <1>2. len' \in 0..TTY_BUF_SIZE /\ cursor' \in 0..len'
    BY <1>1
  <1>3. /\ t \in Seq(Glyphs) /\ Len(t) = len' - cursor'
        /\ \A k \in 1 .. len' - cursor' : t[k] = buf'[cursor' + k - 1] /\ t[k] # Newline
    BY <1>1, <1>2, PieceEchoes
  <1>4. Blank \in Glyphs /\ Blank # Newline
    BY GlyphsHold DEF Blank, Newline
  <1> HIDE DEF t
  <1>5. s \in Seq(Glyphs) /\ Len(s) = Len(t) + 1 /\ s[Len(s)] = Blank
        /\ \A k \in 1..Len(t) : s[k] = t[k]
    BY <1>3, <1>4
  <1> HIDE DEF s
  <1>6. Len(t) = len - cursor /\ Len(s) = len - cursor + 1
    BY <1>1, <1>3, <1>5
  <1>7. ASSUME NEW k \in 1 .. len - cursor
        PROVE  s[k] = buf'[cursor + k - 2] /\ s[k] # Newline
    <2>1. k \in 1 .. len' - cursor' /\ cursor' + k - 1 = cursor + k - 2
      BY <1>1, <1>7
    <2> QED
      BY <1>3, <1>5, <1>6, <2>1
  <1>8. \A k \in 1..Len(s) : k = Len(s) \/ k \in 1 .. len - cursor
    BY <1>1, <1>6
  <1>9. \A k \in 1..Len(s) : s[k] # Newline
    BY <1>4, <1>5, <1>7, <1>8
  <1> QED
    BY <1>5, <1>6, <1>7, <1>9 DEF s, t, EraseTail

(* The text of Enter.                                                      *)
LEMMA EnterEcho ==
    /\ <<Newline>> \o Prompt \in Seq(Glyphs)
    /\ Len(<<Newline>> \o Prompt) # 0
  <1>1. Prompt \in Seq(Glyphs) /\ Newline \in Glyphs
    BY GlyphsHold
  <1> QED
    BY <1>1

(* A handler keeps the cursor on the screen, or brings it back.            *)
LEMMA HandlerScreen ==
    ASSUME BufInv, con \in Consoles(Glyphs), wrapped \in BOOLEAN,
           tty_handle_key \/ DrawClock
    PROVE  /\ con' \in Consoles(Glyphs) /\ wrapped' \in BOOLEAN
           /\ con.row \in Rows => con'.row \in Rows
           /\ con.col \in Cols => con'.col \in Cols
  <1> DEFINE Back == con' \in OnScreen(Glyphs)
  <1>1. Back => /\ con' \in Consoles(Glyphs)
                /\ con'.row \in Rows /\ con'.col \in Cols
    BY OnScreenIsConsole DEF OnScreen
  <1>2. CASE \E c \in Chars : tty_insert_char(c)
    <2>1. PICK c \in Chars : tty_insert_char(c)
      BY <1>2
    <2> DEFINE s == <<c>> \o TailFrom(buf', cursor', len')
    <2>2. s \in Seq(Glyphs) /\ Len(s) # 0
      <3>1. s \in Seq(Glyphs) /\ Len(s) = len - cursor + 1
        BY <2>1, InsertEcho
      <3> HIDE DEF s
      <3> QED
        BY <3>1, BufferAssumption DEF BufInv
    <2>3. con' = EchoAndReturn(con, s, 1) /\ wrapped' = (wrapped \/ Overflows(len'))
      BY <2>1 DEF tty_insert_char
    <2> HIDE DEF s
    <2>4. Back
      BY <2>2, <2>3, Echoed
    <2>5. wrapped' \in BOOLEAN
      BY <2>3
    <2> QED
      BY <1>1, <2>4, <2>5
  <1>3. CASE tty_backspace
    <2> DEFINE s == EraseTail(TailFrom(buf', cursor', len'))
               d == console_move_cursor(con, -1, 0)
    <2>1. s \in Seq(Glyphs) /\ Len(s) # 0
      <3>1. s \in Seq(Glyphs) /\ Len(s) = len - cursor + 1
        BY <1>3, DeleteEcho
      <3> HIDE DEF s
      <3> QED
        BY <3>1, BufferAssumption DEF BufInv
    <2>2. con' = EchoAndReturn(d, s, 0) /\ wrapped' = wrapped
      BY <1>3 DEF tty_backspace
    <2>3. d \in Consoles(Glyphs)
      BY MoveOnScreen, OnScreenIsConsole
    <2> HIDE DEF s, d
    <2>4. Back
      BY <2>1, <2>2, <2>3, Echoed
    <2> QED
      BY <1>1, <2>2, <2>4
  <1>4. CASE tty_cursor_left
    <2>1. con' = console_move_cursor(con, -1, 0) /\ wrapped' = wrapped
      BY <1>4 DEF tty_cursor_left
    <2> QED
      BY <1>1, <2>1, MoveOnScreen
  <1>5. CASE tty_cursor_right
    <2>1. con' = console_move_cursor(con, 1, 0) /\ wrapped' = wrapped
      BY <1>5 DEF tty_cursor_right
    <2> QED
      BY <1>1, <2>1, MoveOnScreen
  <1>6. CASE KeyIgnored
    BY <1>6 DEF KeyIgnored, vars
  <1>7. CASE tty_newline
    <2>1. con' = console_write(con, <<Newline>> \o Prompt) /\ wrapped' = FALSE
      BY <1>7 DEF tty_newline
    <2>2. Back
      BY <2>1, EnterEcho, GlyphsHold, WriteOnScreen
    <2> QED
      BY <1>1, <2>1, <2>2
  <1>8. CASE DrawClock
    <2>1. con' = vga_draw_clock(con) /\ wrapped' = wrapped
      BY <1>8 DEF DrawClock
    <2> QED
      BY <2>1, ClockDrawn, GlyphsHold
  <1> HIDE DEF Back
  <1> QED
    BY <1>2, <1>3, <1>4, <1>5, <1>6, <1>7, <1>8 DEF tty_handle_key, EditKey

-----------------------------------------------------------------------------
(* kmain's steps.                                                          *)

LEMMA PromptInitScreen == PromptInit => ScreenInv
  <1> SUFFICES ASSUME PromptInit PROVE ScreenInv
    OBVIOUS
  <1> USE GridAssumption
  <1>1. PICK row \in Rows : con = [console_init EXCEPT !.row = row]
    BY DEF PromptInit
  <1>2. con = [row |-> row, col |-> 0, cells |-> [r \in Rows |-> BlankRow]]
    BY <1>1 DEF console_init
  <1>3. BlankRow \in [Cols -> Glyphs]
    BY GlyphsHold DEF BlankRow
  <1>4. row \in Nat /\ 0 \in Cols
    BY DEF Rows, Cols
  <1>5. con \in Consoles(Glyphs) /\ con.row \in Rows /\ con.col \in Cols
    BY <1>2, <1>3, <1>4 DEF Consoles
  <1>6. Nowhere \in [row : Nat, col : Nat, c : Glyphs]
    BY GlyphsHold DEF Nowhere
  <1>7. at = "next" /\ left = Prompt /\ rdx = 0 /\ target = Nowhere
        /\ wrapped = FALSE /\ disturbed = FALSE
    BY DEF PromptInit
  <1> QED
    BY <1>5, <1>6, <1>7, PromptAssumption DEF ScreenInv, Steps

LEMMA KmainScreen ==
    ASSUME ScreenInv, kmain
    PROVE  ScreenInv'
  <1> USE GridAssumption
  <1>1. /\ con \in Consoles(Glyphs) /\ rdx \in Nat
        /\ target \in [row : Nat, col : Nat, c : Glyphs] /\ left \in Seq(STRING)
        /\ wrapped' \in BOOLEAN /\ disturbed' \in BOOLEAN
        /\ con = [row |-> con.row, col |-> con.col, cells |-> con.cells]
        /\ con.row \in Nat /\ con.col \in Nat /\ con.cells \in [Rows -> [Cols -> Glyphs]]
    BY DEF ScreenInv, kmain, Consoles
  <1>2. CASE CallPutChar
    <2>1. left # <<>> /\ at = "next" /\ at' = "put" /\ left' = Tail(left)
          /\ target' = [row |-> con.row, col |-> con.col, c |-> Head(left)]
          /\ con' = con /\ rdx' = rdx
      BY <1>2 DEF CallPutChar, Goto
    <2>2. Head(left) \in STRING /\ Tail(left) \in Seq(STRING)
      BY <1>1, <2>1
    <2>3. target' \in [row : Nat, col : Nat, c : Glyphs]
      BY <1>1, <2>1, <2>2, GlyphsHold
    <2>4. con.row \in Rows /\ con.col \in Cols
      BY <2>1 DEF ScreenInv
    <2> QED
      BY <1>1, <2>1, <2>2, <2>3, <2>4 DEF ScreenInv, Steps
  <1>3. CASE PutChar
    <2>1. at = "put" /\ at' = "col" /\ left' = left /\ rdx' = rdx /\ target' = Nowhere
          /\ con' = [con EXCEPT !.cells =
                        vga_put_char(@, target.row, target.col, target.c)]
      BY <1>3 DEF PutChar, Goto
    <2>2. Nowhere \in [row : Nat, col : Nat, c : Glyphs]
      BY GlyphsHold DEF Nowhere
    <2>3. vga_put_char(con.cells, target.row, target.col, target.c)
            \in [Rows -> [Cols -> Glyphs]]
      BY <1>1 DEF vga_put_char
    <2>4. con' \in Consoles(Glyphs) /\ con'.row = con.row /\ con'.col = con.col
      BY <1>1, <2>1, <2>3 DEF Consoles
    <2>5. con.row \in Rows /\ con.col \in Cols
      BY <2>1 DEF ScreenInv
    <2> QED
      BY <1>1, <2>1, <2>2, <2>4, <2>5 DEF ScreenInv, Steps
  <1>4. CASE LoadCol
    <2>1. at = "col" /\ at' = "store_col" /\ rdx' = con.col + 1
          /\ con' = con /\ left' = left /\ target' = target
      BY <1>4 DEF LoadCol, Goto
    <2>2. con.row \in Rows /\ con.col \in Cols
      BY <2>1 DEF ScreenInv
    <2> QED
      BY <1>1, <2>1, <2>2 DEF ScreenInv, Steps
  <1>5. CASE StoreCol
    <2>1. at = "store_col" /\ at' = "wrap" /\ con' = [con EXCEPT !.col = rdx]
          /\ rdx' = rdx /\ left' = left /\ target' = target
      BY <1>5 DEF StoreCol, Goto
    <2>2. con.row \in Rows
      BY <2>1 DEF ScreenInv
    <2>3. con' \in Consoles(Glyphs) /\ con'.row = con.row
      BY <1>1, <2>1 DEF Consoles
    <2> QED
      BY <1>1, <2>1, <2>2, <2>3 DEF ScreenInv, Steps
  <1>6. CASE TestCol
    <2>1. at = "wrap" /\ con' = con /\ rdx' = rdx /\ left' = left /\ target' = target
          /\ at' = IF con.col >= VGA_NUM_COLS THEN "carriage_return" ELSE "scroll"
      BY <1>6 DEF TestCol, MustWrap
    <2>2. con.row \in Rows /\ (at' # "carriage_return" => con.col \in Cols)
      BY <1>1, <2>1 DEF ScreenInv, Cols
    <2>3. at' \in {"carriage_return", "scroll"}
      BY <2>1
    <2> QED
      BY <1>1, <2>1, <2>2, <2>3 DEF ScreenInv, Steps
  <1>7. CASE CarriageReturn
    <2>1. at = "carriage_return" /\ at' = "row" /\ con' = [con EXCEPT !.col = 0]
          /\ rdx' = rdx /\ left' = left /\ target' = target
      BY <1>7 DEF CarriageReturn, Goto
    <2>2. con.row \in Rows /\ 0 \in Cols
      BY <2>1 DEF ScreenInv, Cols
    <2>3. con' \in Consoles(Glyphs) /\ con'.row = con.row /\ con'.col = 0
      BY <1>1, <2>1 DEF Consoles
    <2> QED
      BY <1>1, <2>1, <2>2, <2>3 DEF ScreenInv, Steps
  <1>8. CASE LoadRow
    <2>1. at = "row" /\ at' = "store_row" /\ rdx' = con.row + 1
          /\ con' = con /\ left' = left /\ target' = target
      BY <1>8 DEF LoadRow, Goto
    <2>2. con.row \in Rows /\ con.col \in Cols
      BY <2>1 DEF ScreenInv
    <2> QED
      BY <1>1, <2>1, <2>2 DEF ScreenInv, Steps
  <1>9. CASE StoreRow
    <2>1. at = "store_row" /\ at' = "scroll" /\ con' = [con EXCEPT !.row = rdx]
          /\ rdx' = rdx /\ left' = left /\ target' = target
      BY <1>9 DEF StoreRow, Goto
    <2>2. con.col \in Cols
      BY <2>1 DEF ScreenInv
    <2>3. con' \in Consoles(Glyphs) /\ con'.col = con.col
      BY <1>1, <2>1 DEF Consoles
    <2> QED
      BY <1>1, <2>1, <2>2, <2>3 DEF ScreenInv, Steps
  <1>10. CASE TestRow
    <2>1. at = "scroll" /\ con' = con /\ left' = left /\ target' = target
          /\ con.col \in Cols
      BY <1>10 DEF TestRow, ScreenInv
    <2>2. CASE con.row < VGA_NUM_ROWS /\ at' = "next" /\ rdx' = rdx
      <3>1. con.row \in Rows
        BY <1>1, <2>2 DEF Rows
      <3> QED
        BY <1>1, <2>1, <2>2, <3>1 DEF ScreenInv, Steps
    <2>3. CASE con.row >= VGA_NUM_ROWS /\ at' = "move_row" /\ rdx' = 1
      BY <1>1, <2>1, <2>3 DEF ScreenInv, Steps
    <2> QED
      BY <1>10, <2>2, <2>3 DEF TestRow
  <1>11. CASE MoveRow
    <2>1. at = "move_row" /\ left' = left /\ target' = target
          /\ con.col \in Cols /\ rdx \in 1..VGA_NUM_ROWS
      BY <1>11 DEF MoveRow, Goto, ScreenInv
    <2>2. CASE /\ rdx < VGA_NUM_ROWS
               /\ con' = [con EXCEPT !.cells[rdx - 1] = con.cells[rdx]]
               /\ rdx' = rdx + 1 /\ at' = at
      <3>1. rdx \in Rows /\ rdx - 1 \in Rows /\ rdx + 1 \in 1..VGA_NUM_ROWS
        BY <2>1, <2>2 DEF Rows
      <3>2. [con.cells EXCEPT ![rdx - 1] = con.cells[rdx]] \in [Rows -> [Cols -> Glyphs]]
        BY <1>1, <3>1
      <3>3. con' \in Consoles(Glyphs) /\ con'.col = con.col
        BY <1>1, <2>2, <3>2 DEF Consoles
      <3> QED
        BY <1>1, <2>1, <2>2, <3>1, <3>3 DEF ScreenInv, Steps
    <2>3. CASE /\ rdx = VGA_NUM_ROWS
               /\ con' = [con EXCEPT !.cells[LastRow] = BlankRow]
               /\ at' = "last_row" /\ rdx' = rdx
      <3>1. BlankRow \in [Cols -> Glyphs]
        BY GlyphsHold DEF BlankRow
      <3>2. [con.cells EXCEPT ![LastRow] = BlankRow] \in [Rows -> [Cols -> Glyphs]]
        BY <1>1, <3>1
      <3>3. con' \in Consoles(Glyphs) /\ con'.col = con.col
        BY <1>1, <2>3, <3>2 DEF Consoles
      <3> QED
        BY <1>1, <2>1, <2>3, <3>3 DEF ScreenInv, Steps
    <2> QED
      BY <1>11, <2>2, <2>3 DEF MoveRow, Goto
  <1>12. CASE StayOnScreen
    <2>1. at = "last_row" /\ at' = "next" /\ con' = [con EXCEPT !.row = LastRow]
          /\ rdx' = rdx /\ left' = left /\ target' = target /\ con.col \in Cols
      BY <1>12 DEF StayOnScreen, Goto, ScreenInv
    <2>2. LastRow \in Rows /\ LastRow \in Nat
      BY DEF LastRow, Rows
    <2>3. con' \in Consoles(Glyphs) /\ con'.row = LastRow /\ con'.col = con.col
      BY <1>1, <2>1, <2>2 DEF Consoles
    <2> QED
      BY <1>1, <2>1, <2>2, <2>3 DEF ScreenInv, Steps
  <1> QED
    BY <1>2, <1>3, <1>4, <1>5, <1>6, <1>7, <1>8, <1>9, <1>10, <1>11, <1>12 DEF kmain

LEMMA HitScreen ==
    ASSUME BufInv, ScreenInv, Hit
    PROVE  ScreenInv'
  <1> USE GridAssumption
  <1>1. /\ con' \in Consoles(Glyphs) /\ wrapped' \in BOOLEAN
        /\ con.row \in Rows => con'.row \in Rows
        /\ con.col \in Cols => con'.col \in Cols
    BY HandlerScreen DEF ScreenInv, Hit
  <1>2. at' = at /\ left' = left /\ disturbed' = TRUE
    BY DEF Hit, Clobber
  <1>3. rdx' \in Nat /\ (at = "move_row" => rdx' = rdx)
    <2>1. Junk \subseteq Nat
      BY DEF Junk
    <2>2. rdx' \in (IF at \in {"store_col", "store_row"} THEN Junk \cup {rdx} ELSE {rdx})
      BY DEF Hit, Clobber
    <2>3. rdx \in Nat
      BY DEF ScreenInv
    <2> QED
      BY <2>1, <2>2, <2>3
  <1>4. target' \in [row : Nat, col : Nat, c : Glyphs]
    <2>1. Rows \subseteq Nat /\ Cols \subseteq Nat /\ Garbage \in Glyphs
      BY GlyphsHold DEF Rows, Cols
    <2>2. JunkTargets \subseteq [row : Nat, col : Nat, c : Glyphs]
      <3>1. [row : Rows, col : Cols, c : {Garbage}] \subseteq [row : Nat, col : Nat, c : Glyphs]
        BY <2>1
      <3>2. Nowhere \in [row : Nat, col : Nat, c : Glyphs]
        BY <2>1 DEF Nowhere
      <3> QED
        BY <3>1, <3>2 DEF JunkTargets
    <2>3. target' \in JunkTargets \cup {target}
      BY DEF Hit, Clobber
    <2> QED
      BY <2>2, <2>3 DEF ScreenInv
  <1> QED
    BY <1>1, <1>2, <1>3, <1>4 DEF ScreenInv

LEMMA ServedScreen ==
    ASSUME BufInv, ScreenInv, Served
    PROVE  ScreenInv'
  <1>1. tty_handle_key \/ DrawClock
    BY DEF Served, tty_handle_key
  <1>2. /\ con' \in Consoles(Glyphs) /\ wrapped' \in BOOLEAN
        /\ con.row \in Rows => con'.row \in Rows
        /\ con.col \in Cols => con'.col \in Cols
    BY <1>1, HandlerScreen DEF ScreenInv
  <1>3. at' = at /\ left' = left /\ rdx' = rdx /\ target' = target
    BY DEF Served, kmainVars
  <1>4. disturbed' \in BOOLEAN
    BY DEF Served, ScreenInv
  <1> QED
    BY <1>2, <1>3, <1>4 DEF ScreenInv

LEMMA BufStep ==
    ASSUME BufInv, [PromptNext]_bootVars
    PROVE  BufInv'
  <1>1. CASE tty_handle_key
    BY <1>1, KeyStep
  <1>2. CASE UNCHANGED ttyVars
    BY <1>2, SameLine
  <1> QED
    BY <1>1, <1>2 DEF PromptNext, kmain, Hit, Served, DrawClock, tty_handle_key,
                      bootVars, vars, ttyVars

LEMMA ScreenStep ==
    ASSUME BufInv, ScreenInv, [PromptNext]_bootVars
    PROVE  ScreenInv'
  <1>1. CASE UNCHANGED bootVars
    BY <1>1 DEF ScreenInv, bootVars, vars, kmainVars
  <1> QED
    BY <1>1, KmainScreen, HitScreen, ServedScreen DEF PromptNext

(* The buffer, the registers and the screen have their types.              *)
THEOREM TerminalTypes == PromptSpec => []TypeOK
  <1>1. PromptInit => BufInv /\ ScreenInv
    BY EmptyLine, PromptInitScreen DEF PromptInit
  <1>2. BufInv /\ ScreenInv /\ [PromptNext]_bootVars => (BufInv /\ ScreenInv)'
    BY BufStep, ScreenStep
  <1>3. BufInv /\ ScreenInv => TypeOK
    BY DEF BufInv, ScreenInv, TypeOK, Text, Consoles
  <1> QED
    BY <1>1, <1>2, <1>3, PTL DEF PromptSpec

(* Between two characters the cursor is on the screen, however many        *)
(* handlers moved it, or lost kmain's registers, while the last one was    *)
(* being printed.                                                          *)
THEOREM CursorComesBack == PromptSpec => []CursorRecovers
  <1>1. PromptInit => BufInv /\ ScreenInv
    BY EmptyLine, PromptInitScreen DEF PromptInit
  <1>2. BufInv /\ ScreenInv /\ [PromptNext]_bootVars => (BufInv /\ ScreenInv)'
    BY BufStep, ScreenStep
  <1>3. ScreenInv => CursorRecovers
    BY DEF ScreenInv, CursorRecovers
  <1> QED
    BY <1>1, <1>2, <1>3, PTL DEF PromptSpec

-----------------------------------------------------------------------------
(* A settled terminal: the line on the screen.                             *)

(* What column col shows of a buffer b with n characters.                  *)
LineAt(b, n, col) ==
    IF col < Len(Prompt) THEN Prompt[col + 1]
    ELSE IF col < Len(Prompt) + n THEN b[col - Len(Prompt)]
    ELSE Blank

(* Text that fits is echoed as it is, and the cursor stops where it should. *)
LEMMA EchoFits ==
    ASSUME NEW c \in OnScreen(Glyphs), NEW s \in Seq(Glyphs),
           \A k \in 1..Len(s) : s[k] # Newline,
           c.col + Len(s) < VGA_NUM_COLS, NEW keep \in 0..Len(s)
    PROVE  LET d == EchoAndReturn(c, s, keep) IN
           /\ d.row = c.row /\ d.col = c.col + keep
           /\ d.cells = [c.cells EXCEPT ![c.row] = RowWith(c, s, Len(s))]
  <1> DEFINE n == Len(s)
             w == With(c, s, n)
  <1>1. console_write(c, s) = w
    BY WriteFits
  <1>2. n \in Nat /\ c.col \in Cols /\ c.col \in Nat
        /\ keep \in 0..n /\ c.col + n < VGA_NUM_COLS
    BY DEF OnScreen, Cols
  <1>3. w \in OnScreen(Glyphs)
    BY <1>2, WithOnScreen
  <1>4. w.row = c.row /\ w.col = c.col + n
        /\ w.cells = [c.cells EXCEPT ![c.row] = RowWith(c, s, n)]
    BY DEF With
  <1> HIDE DEF n, w
  <1>5. w.col + (keep - n) = c.col + keep /\ c.col + keep \in Cols /\ keep - n \in Int
    BY <1>2, <1>4, GridAssumption DEF Cols
  <1>6. console_move_cursor(w, keep - n, 0)
          = [row |-> w.row, col |-> w.col + (keep - n), cells |-> w.cells]
    BY <1>3, <1>5, MoveExact
  <1>7. EchoAndReturn(c, s, keep)
          = [row |-> w.row, col |-> c.col + keep, cells |-> w.cells]
    BY <1>1, <1>5, <1>6 DEF EchoAndReturn, n
  <1> QED
    BY <1>4, <1>7 DEF n

LEMMA InsertAgrees ==
    ASSUME BufInv, con \in OnScreen(Glyphs), Agree, NEW c \in Chars, tty_insert_char(c)
    PROVE  Agree' /\ StaysOnRow
  <1> SUFFICES ASSUME ~wrapped' PROVE Agree' /\ StaysOnRow
    BY DEF Agree, StaysOnRow
  <1> USE GridAssumption, BufferAssumption
  <1> DEFINE P == Len(Prompt)
             s == <<c>> \o TailFrom(buf', cursor', len')
             new == RowWith(con, s, Len(s))
  <1>1. /\ len \in 0 .. TTY_BUF_SIZE - 1 /\ cursor \in 0..len /\ P \in Nat
        /\ len' = len + 1 /\ cursor' = cursor + 1 /\ buf' = Inserted(buf, c)
    BY GlyphsHold DEF BufInv, tty_insert_char, HasRoom
  <1>2. P + len' < VGA_NUM_COLS /\ ~wrapped
    <2>1. ~wrapped /\ ~Overflows(len')
      BY Zenon DEF tty_insert_char
    <2> QED
      BY <1>1, <2>1 DEF Overflows
  <1>3. con.col = P + cursor /\ con.col \in Nat
        /\ \A col \in Cols : \/ con.cells[con.row][col] = LineAt(buf, len, col)
                             \/ <<con.row, col>> \in ClockCells
    BY <1>1, <1>2 DEF Agree, RowShowsLine, Shown, LineAt
  <1>4. /\ s \in Seq(Glyphs) /\ Len(s) = len - cursor + 1 /\ s[1] = c
        /\ \A k \in 2..Len(s) : s[k] = buf'[cursor + k - 1]
        /\ \A k \in 1..Len(s) : s[k] # Newline
    BY InsertEcho
  <1>5. con' = EchoAndReturn(con, s, 1)
    BY DEF tty_insert_char
  <1> HIDE DEF s
  <1>6. con.col + Len(s) = P + len' /\ 1 \in 0..Len(s)
    BY <1>1, <1>3, <1>4
  <1>7. con'.row = con.row /\ con'.col = con.col + 1
        /\ con'.cells = [con.cells EXCEPT ![con.row] = new]
    BY <1>2, <1>4, <1>5, <1>6, EchoFits
  <1>8. ASSUME NEW col \in Cols
        PROVE  \/ new[col] = LineAt(buf', len', col)
               \/ <<con.row, col>> \in ClockCells
    <2>1. col \in Nat
      BY DEF Cols
    <2>2. CASE col < con.col
      <3>1. new[col] = con.cells[con.row][col]
        BY <2>1, <2>2, <1>3 DEF RowWith
      <3>2. LineAt(buf', len', col) = LineAt(buf, len, col)
        <4>1. CASE col < P
          BY <4>1 DEF LineAt
        <4>2. CASE ~(col < P)
          <5>1. col - P \in Index /\ col - P < cursor /\ col < P + len /\ col < P + len'
            BY <1>1, <1>3, <2>1, <2>2, <4>2 DEF Index
          <5>2. buf'[col - P] = buf[col - P]
            BY <1>1, <5>1 DEF Inserted, Index
          <5> QED
            BY <4>2, <5>1, <5>2 DEF LineAt
        <4> QED
          BY <4>1, <4>2
      <3> QED
        BY <1>3, <3>1, <3>2
    <2>3. CASE con.col =< col /\ col < con.col + Len(s)
      <3> DEFINE k == col - con.col + 1
      <3>1. new[col] = s[k]
        BY <2>3 DEF RowWith
      <3>2. k \in 1..Len(s) /\ cursor + k - 1 = col - P
            /\ ~(col < P) /\ col < P + len'
        <4>1. con.col = P + cursor /\ Len(s) = len - cursor + 1
          BY <1>3, <1>4
        <4> QED
          BY <1>1, <2>1, <2>3, <4>1
      <3>3. s[k] = buf'[col - P]
        <4>1. CASE k = 1
          <5>1. cursor \in Index /\ col - P = cursor
            BY <1>1, <3>2, <4>1 DEF Index
          <5>2. buf'[cursor] = c
            BY <1>1, <5>1 DEF Inserted
          <5> QED
            BY <1>4, <4>1, <5>1, <5>2
        <4>2. CASE k # 1
          <5>1. k \in 2..Len(s)
            BY <1>4, <3>2, <4>2
          <5> QED
            BY <1>4, <3>2, <5>1
        <4> QED
          BY <4>1, <4>2
      <3> HIDE DEF k
      <3> QED
        BY <3>1, <3>2, <3>3 DEF LineAt
    <2>4. CASE ~(col < con.col + Len(s))
      <3>1. new[col] = con.cells[con.row][col]
        BY <2>4 DEF RowWith
      <3>2. ~(col < P) /\ ~(col < P + len) /\ ~(col < P + len')
        BY <1>1, <1>6, <2>1, <2>4
      <3>3. LineAt(buf', len', col) = LineAt(buf, len, col)
        BY <3>2 DEF LineAt
      <3> QED
        BY <1>3, <3>1, <3>3
    <2> QED
      BY <1>3, <2>1, <2>2, <2>3, <2>4
  <1> HIDE DEF new
  <1>9. con'.cells[con.row] = new
        /\ \A row \in Rows \ {con.row} : con'.cells[row] = con.cells[row]
    BY <1>7 DEF OnScreen
  <1>10. RowShowsLine'
    BY <1>7, <1>8, <1>9 DEF RowShowsLine, Shown, LineAt
  <1>11. StaysOnRow
    BY <1>9 DEF StaysOnRow
  <1> QED
    BY <1>1, <1>2, <1>3, <1>7, <1>10, <1>11 DEF Agree

LEMMA DeleteAgrees ==
    ASSUME BufInv, con \in OnScreen(Glyphs), Agree, tty_backspace
    PROVE  Agree' /\ StaysOnRow
  <1> SUFFICES ASSUME ~wrapped' PROVE Agree' /\ StaysOnRow
    BY DEF Agree, StaysOnRow
  <1> USE GridAssumption, BufferAssumption
  <1> DEFINE P == Len(Prompt)
             s == EraseTail(TailFrom(buf', cursor', len'))
             d == console_move_cursor(con, -1, 0)
             new == RowWith(d, s, Len(s))
  <1>1. /\ len \in 0..TTY_BUF_SIZE /\ cursor \in 1..len /\ P \in Nat
        /\ len' = len - 1 /\ cursor' = cursor - 1 /\ buf' = Deleted(buf)
        /\ ~wrapped
    BY GlyphsHold DEF BufInv, tty_backspace
  <1>2. con.col = P + cursor /\ P + len < VGA_NUM_COLS
        /\ \A col \in Cols : \/ con.cells[con.row][col] = LineAt(buf, len, col)
                             \/ <<con.row, col>> \in ClockCells
    BY <1>1 DEF Agree, RowShowsLine, Shown, LineAt
  <1>3. d = [row |-> con.row, col |-> con.col + (-1), cells |-> con.cells]
    <2>1. con.col + (-1) \in Cols /\ -1 \in Int
      BY <1>1, <1>2 DEF Cols
    <2> QED
      BY <2>1, MoveExact
  <1>4. d \in OnScreen(Glyphs)
    <2>1. -1 \in Int
      OBVIOUS
    <2> QED
      BY <2>1, MoveOnScreen, OnScreenIsConsole
  <1>5. /\ s \in Seq(Glyphs) /\ Len(s) = len - cursor + 1
        /\ \A k \in 1 .. len - cursor : s[k] = buf'[cursor + k - 2]
        /\ s[Len(s)] = Blank
        /\ \A k \in 1..Len(s) : s[k] # Newline
    BY DeleteEcho
  <1>6. con' = EchoAndReturn(d, s, 0)
    BY DEF tty_backspace
  <1>7. d.row = con.row /\ d.col = P + cursor - 1 /\ d.cells = con.cells /\ d.col \in Nat
    BY <1>1, <1>2, <1>3
  <1> HIDE DEF s, d
  <1>8. d.col + Len(s) = P + len /\ 0 \in 0..Len(s)
    BY <1>1, <1>5, <1>7
  <1>9. con'.row = con.row /\ con'.col = d.col + 0
        /\ con'.cells = [con.cells EXCEPT ![con.row] = new]
    <2>1. d.col + Len(s) < VGA_NUM_COLS
      BY <1>2, <1>8
    <2>2. LET e == EchoAndReturn(d, s, 0) IN
          /\ e.row = d.row /\ e.col = d.col + 0
          /\ e.cells = [d.cells EXCEPT ![d.row] = new]
      BY <1>4, <1>5, <1>8, <2>1, EchoFits
    <2> HIDE DEF new
    <2> QED
      BY <1>6, <1>7, <2>2
  <1>10. ASSUME NEW col \in Cols
         PROVE  \/ new[col] = LineAt(buf', len', col)
                \/ <<con.row, col>> \in ClockCells
    <2>1. col \in Nat
      BY DEF Cols
    <2>2. CASE col < d.col
      <3>1. new[col] = con.cells[con.row][col]
        BY <2>1, <2>2, <1>7 DEF RowWith
      <3>2. LineAt(buf', len', col) = LineAt(buf, len, col)
        <4>1. CASE col < P
          BY <4>1 DEF LineAt
        <4>2. CASE ~(col < P)
          <5>1. col - P \in Index /\ col - P < cursor - 1
                /\ col < P + len /\ col < P + len'
            BY <1>1, <1>7, <2>1, <2>2, <4>2 DEF Index
          <5>2. buf'[col - P] = buf[col - P]
            BY <1>1, <5>1 DEF Deleted, Index
          <5> QED
            BY <4>2, <5>1, <5>2 DEF LineAt
        <4> QED
          BY <4>1, <4>2
      <3> QED
        BY <1>2, <3>1, <3>2
    <2>3. CASE d.col =< col /\ col < d.col + Len(s)
      <3> DEFINE k == col - d.col + 1
      <3>1. new[col] = s[k]
        BY <2>3 DEF RowWith
      <3>2. k \in 1..Len(s) /\ cursor + k - 2 = col - P
        BY <1>1, <1>5, <1>7, <1>8, <2>1, <2>3
      <3>3. CASE k = Len(s)
        <4>1. ~(col < P) /\ ~(col < P + len')
          BY <1>1, <1>5, <1>7, <2>1, <2>3, <3>3
        <4> QED
          BY <1>5, <3>1, <3>3, <4>1 DEF LineAt
      <3>4. CASE k # Len(s)
        <4>1. k \in 1 .. len - cursor /\ ~(col < P) /\ col < P + len'
          BY <1>1, <1>5, <1>7, <2>1, <2>3, <3>2, <3>4, SMTT(30)
        <4>2. s[k] = buf'[col - P]
          BY <1>5, <3>2, <4>1
        <4> QED
          BY <3>1, <4>1, <4>2 DEF LineAt
      <3> QED
        BY <3>3, <3>4
    <2>4. CASE ~(col < d.col + Len(s))
      <3>1. new[col] = con.cells[con.row][col]
        BY <1>7, <2>4 DEF RowWith
      <3>2. ~(col < P) /\ ~(col < P + len) /\ ~(col < P + len')
        BY <1>1, <1>8, <2>1, <2>4
      <3>3. LineAt(buf', len', col) = LineAt(buf, len, col)
        BY <3>2 DEF LineAt
      <3> QED
        BY <1>2, <3>1, <3>3
    <2> QED
      BY <1>7, <2>1, <2>2, <2>3, <2>4
  <1> HIDE DEF new
  <1>11. con'.cells[con.row] = new
         /\ \A row \in Rows \ {con.row} : con'.cells[row] = con.cells[row]
    BY <1>9 DEF OnScreen
  <1>12. RowShowsLine'
    BY <1>9, <1>10, <1>11 DEF RowShowsLine, Shown, LineAt
  <1>13. StaysOnRow
    BY <1>11 DEF StaysOnRow
  <1>14. P + len' < VGA_NUM_COLS /\ con'.col = P + cursor'
    BY <1>1, <1>2, <1>7, <1>9
  <1> QED
    BY <1>12, <1>13, <1>14 DEF Agree

(* Keys that edit, and the clock, keep line and screen in agreement and    *)
(* the rows below the cursor empty.                                        *)
LEMMA ServiceAgrees ==
    ASSUME BufInv, con \in OnScreen(Glyphs), Agree, EditKey \/ DrawClock
    PROVE  Agree' /\ StaysOnRow
  <1> USE GridAssumption, BufferAssumption
  <1>1. CASE \E c \in Chars : tty_insert_char(c)
    BY <1>1, InsertAgrees
  <1>2. CASE tty_backspace
    BY <1>2, DeleteAgrees
  <1>3. ASSUME tty_cursor_left \/ tty_cursor_right
        PROVE  Agree' /\ StaysOnRow
    <2> SUFFICES ASSUME ~wrapped PROVE Agree' /\ StaysOnRow
      BY <1>3 DEF tty_cursor_left, tty_cursor_right, Agree, StaysOnRow
    <2>1. /\ len \in Nat /\ cursor \in 0..len /\ Len(Prompt) \in Nat
          /\ len' = len /\ buf' = buf /\ wrapped' = wrapped
      BY <1>3, GlyphsHold DEF BufInv, tty_cursor_left, tty_cursor_right
    <2>2. PICK dx \in {-1, 1} : /\ cursor' = cursor + dx /\ cursor + dx \in 0..len
                                /\ con' = console_move_cursor(con, dx, 0)
      <3>1. CASE tty_cursor_left
        <4>1. cursor' = cursor + (-1) /\ cursor + (-1) \in 0..len
              /\ con' = console_move_cursor(con, -1, 0)
          BY <2>1, <3>1 DEF tty_cursor_left
        <4> QED
          BY <4>1
      <3>2. CASE tty_cursor_right
        <4>1. cursor' = cursor + 1 /\ cursor + 1 \in 0..len
              /\ con' = console_move_cursor(con, 1, 0)
          BY <2>1, <3>2 DEF tty_cursor_right
        <4> QED
          BY <4>1
      <3> QED
        BY <1>3, <3>1, <3>2
    <2>3. con.col = Len(Prompt) + cursor /\ Len(Prompt) + len < VGA_NUM_COLS
          /\ RowShowsLine
      BY DEF Agree
    <2>4. con.col + dx \in Cols /\ con.col + dx = Len(Prompt) + cursor' /\ dx \in Int
      BY <2>1, <2>2, <2>3 DEF Cols
    <2>5. con' = [row |-> con.row, col |-> con.col + dx, cells |-> con.cells]
      BY <2>2, <2>4, MoveExact
    <2>6. con'.row = con.row /\ con'.col = con.col + dx /\ con'.cells = con.cells
      BY <2>5
    <2>7. RowShowsLine'
      BY <2>1, <2>3, <2>6 DEF RowShowsLine, Shown
    <2> QED
      BY <2>1, <2>3, <2>4, <2>6, <2>7 DEF Agree, StaysOnRow
  <1>4. CASE KeyIgnored
    BY <1>4 DEF KeyIgnored, vars, Agree, RowShowsLine, Shown, StaysOnRow
  <1>5. CASE DrawClock
    <2>1. /\ con'.row = con.row /\ con'.col = con.col /\ con.row \in Rows
          /\ \A row \in Rows : \A col \in Cols :
                \/ con'.cells[row][col] = con.cells[row][col]
                \/ <<row, col>> \in ClockCells
      BY <1>5, ClockDrawn, OnScreenIsConsole, GlyphsHold DEF DrawClock, OnScreen
    <2>2. buf' = buf /\ len' = len /\ cursor' = cursor /\ wrapped' = wrapped
      BY <1>5 DEF DrawClock
    <2>3. RowShowsLine => RowShowsLine'
      BY <2>1, <2>2 DEF RowShowsLine, Shown
    <2> QED
      BY <2>1, <2>2, <2>3 DEF Agree, StaysOnRow
  <1> QED
    BY <1>1, <1>2, <1>3, <1>4, <1>5 DEF EditKey

LEMMA ServiceBelow ==
    ASSUME BufInv, con \in OnScreen(Glyphs), Below(con), EditKey \/ DrawClock
    PROVE  Below(con')
  <1> USE GridAssumption, BufferAssumption
  <1>1. ASSUME NEW c \in OnScreen(Glyphs), Below(c), NEW dx \in Int
        PROVE  Below(console_move_cursor(c, dx, 0))
    <2>1. console_move_cursor(c, dx, 0).cells = c.cells
          /\ console_move_cursor(c, dx, 0).row = Clamp(c.row + 0, VGA_NUM_ROWS - 1)
      BY DEF console_move_cursor
    <2>2. Clamp(c.row + 0, VGA_NUM_ROWS - 1) = c.row
      BY DEF Clamp, OnScreen, Rows
    <2> QED
      BY <1>1, <2>1, <2>2 DEF Below
  <1>2. ASSUME NEW c \in OnScreen(Glyphs), Below(c), NEW s \in Seq(Glyphs), NEW keep \in Int
        PROVE  Below(EchoAndReturn(c, s, keep))
    <2>1. console_write(c, s) \in OnScreen(Glyphs) /\ Below(console_write(c, s))
      BY <1>2, GlyphsHold, WriteBelow
    <2>2. keep - Len(s) \in Int
      OBVIOUS
    <2> QED
      BY <1>1, <2>1, <2>2 DEF EchoAndReturn
  <1>3. -1 \in Int /\ 1 \in Int /\ 0 \in Int
    OBVIOUS
  <1>4. CASE \E c \in Chars : tty_insert_char(c)
    <2>1. PICK c \in Chars : tty_insert_char(c)
      BY <1>4
    <2> DEFINE s == <<c>> \o TailFrom(buf', cursor', len')
    <2>2. s \in Seq(Glyphs)
      BY <2>1, InsertEcho
    <2>3. con' = EchoAndReturn(con, s, 1)
      BY <2>1 DEF tty_insert_char
    <2> HIDE DEF s
    <2> QED
      BY <1>2, <1>3, <2>2, <2>3
  <1>5. CASE tty_backspace
    <2> DEFINE s == EraseTail(TailFrom(buf', cursor', len'))
               d == console_move_cursor(con, -1, 0)
    <2>1. s \in Seq(Glyphs)
      BY <1>5, DeleteEcho
    <2>2. con' = EchoAndReturn(d, s, 0)
      BY <1>5 DEF tty_backspace
    <2>3. d \in OnScreen(Glyphs) /\ Below(d)
      BY <1>1, <1>3, MoveOnScreen, OnScreenIsConsole
    <2> HIDE DEF s, d
    <2> QED
      BY <1>2, <1>3, <2>1, <2>2, <2>3
  <1>6. CASE tty_cursor_left
    BY <1>1, <1>3, <1>6 DEF tty_cursor_left
  <1>7. CASE tty_cursor_right
    BY <1>1, <1>3, <1>7 DEF tty_cursor_right
  <1>8. CASE KeyIgnored
    BY <1>8 DEF KeyIgnored, vars
  <1>9. CASE DrawClock
    <2>1. /\ con'.row = con.row
          /\ \A row \in Rows : \A col \in Cols :
                \/ con'.cells[row][col] = con.cells[row][col]
                \/ <<row, col>> \in ClockCells
      BY <1>9, ClockDrawn, OnScreenIsConsole, GlyphsHold DEF DrawClock
    <2> QED
      BY <2>1 DEF Below
  <1> QED
    BY <1>4, <1>5, <1>6, <1>7, <1>8, <1>9 DEF EditKey

(* Enter on the last row, or above empty rows: the new row shows the       *)
(* prompt and nothing else, whatever the screen showed before.             *)
LEMMA EnterAgrees ==
    ASSUME con \in OnScreen(Glyphs), con.row = LastRow \/ Below(con), tty_newline
    PROVE  Agree' /\ Below(con')
  <1> USE GridAssumption
  <1> DEFINE P == Len(Prompt)
             d == console_putc(con, Newline)
             new == RowWith(d, Prompt, P)
  <1>1. con' = console_write(con, <<Newline>> \o Prompt)
        /\ len' = 0 /\ cursor' = 0 /\ wrapped' = FALSE /\ buf' = buf
    BY DEF tty_newline
  <1>2. Prompt \in Seq(Glyphs) /\ P \in Nat /\ P < VGA_NUM_COLS
        /\ \A n \in 1..P : Prompt[n] # Newline
    BY GlyphsHold, PromptAssumption, PrintableAssumption
  <1>3. con' = console_write(d, Prompt)
    BY <1>1, <1>2, GlyphsHold, WriteCons
  <1>4. /\ d \in OnScreen(Glyphs) /\ d.col = 0 /\ Below(d)
        /\ \A col \in Cols : \/ d.cells[d.row][col] = Blank
                             \/ <<d.row, col>> \in ClockCells
    BY GlyphsHold, NewlineClears
  <1> HIDE DEF d
  <1>5. Below(con')
    BY <1>2, <1>3, <1>4, GlyphsHold, WriteBelow
  <1>6. con' = With(d, Prompt, P)
    <2>1. d.col + P < VGA_NUM_COLS
      BY <1>2, <1>4
    <2> QED
      BY <1>2, <1>3, <1>4, <2>1, WriteFits
  <1>7. con'.row = d.row /\ con'.col = 0 + P
        /\ con'.cells = [d.cells EXCEPT ![d.row] = new]
    BY <1>4, <1>6 DEF With
  <1>8. con'.cells[con'.row] = new
    BY <1>4, <1>7 DEF OnScreen
  <1>9. ASSUME NEW col \in Cols
        PROVE  \/ new[col] = LineAt(buf', 0, col)
               \/ <<d.row, col>> \in ClockCells
    <2>1. col \in Nat
      BY DEF Cols
    <2>2. CASE col < P
      <3>1. new[col] = Prompt[col - 0 + 1] /\ col - 0 + 1 = col + 1
        BY <1>2, <1>4, <2>1, <2>2 DEF RowWith
      <3> QED
        BY <2>2, <3>1 DEF LineAt
    <2>3. CASE ~(col < P)
      <3>1. new[col] = d.cells[d.row][col]
        BY <1>2, <1>4, <2>1, <2>3 DEF RowWith
      <3>2. LineAt(buf', 0, col) = Blank
        BY <1>2, <2>1, <2>3 DEF LineAt
      <3> QED
        BY <1>4, <3>1, <3>2
    <2> QED
      BY <2>2, <2>3
  <1> HIDE DEF new
  <1>10. RowShowsLine'
    BY <1>1, <1>7, <1>8, <1>9 DEF RowShowsLine, Shown, LineAt
  <1>11. P + len' < VGA_NUM_COLS /\ con'.col = P + cursor'
    BY <1>1, <1>2, <1>7
  <1> QED
    BY <1>5, <1>10, <1>11 DEF Agree

-----------------------------------------------------------------------------
(* kmain undisturbed: the prompt appears character by character.           *)

LEMMA PrintingStarts == PromptInit => Below(con) /\ Printing
  <1> SUFFICES ASSUME PromptInit PROVE Below(con) /\ Printing
    OBVIOUS
  <1> USE GridAssumption
  <1>1. PICK row \in Rows : con = [console_init EXCEPT !.row = row]
    BY DEF PromptInit
  <1>2. con = [row |-> row, col |-> 0, cells |-> [r \in Rows |-> BlankRow]]
    BY <1>1 DEF console_init
  <1>3. \A r \in Rows : \A col \in Cols : con.cells[r][col] = Blank
    BY <1>2 DEF BlankRow
  <1>4. /\ at = "next" /\ left = Prompt /\ len = 0 /\ cursor = 0 /\ wrapped = FALSE
        /\ con.row \in Rows /\ con.col = 0
    BY <1>2 DEF PromptInit
  <1>5. Taken = 0 /\ \A i \in 1..Len(left) : Taken + i = i
    <2>1. Len(Prompt) \in Nat
      BY GlyphsHold
    <2> QED
      BY <1>4, <2>1 DEF Taken
  <1>6. ShowsPrompt(0)
    <2>1. \A col \in Cols : ~(col < 0)
      BY DEF Cols
    <2> QED
      BY <1>3, <1>4, <2>1 DEF ShowsPrompt
  <1> QED
    BY <1>3, <1>4, <1>5, <1>6 DEF Below, Printing

(* When the last character is out, the empty line and the screen agree.    *)
LEMMA PrintingEnds ==
    ASSUME Printing, Printed
    PROVE  Agree
  <1>1. /\ left = <<>> /\ at = "next" /\ Len(Prompt) \in Nat
        /\ Len(Prompt) < VGA_NUM_COLS
    BY GlyphsHold, PromptAssumption DEF Printed
  <1>2. Taken = Len(Prompt)
    BY <1>1 DEF Taken
  <1>3. len = 0 /\ cursor = 0 /\ con.col = Len(Prompt) /\ ShowsPrompt(Len(Prompt))
    BY <1>1, <1>2 DEF Printing
  <1>4. RowShowsLine
    BY <1>1, <1>3 DEF RowShowsLine, Shown, ShowsPrompt, Cols
  <1> QED
    BY <1>1, <1>3, <1>4 DEF Agree

LEMMA PrintingStep ==
    ASSUME ScreenInv, Printing, Below(con), kmain
    PROVE  Printing' /\ Below(con')
  <1> USE GridAssumption
  <1> DEFINE P == Len(Prompt)
  <1>1. /\ P \in Nat /\ P < VGA_NUM_COLS /\ left \in Seq(STRING) /\ Len(left) \in Nat
        /\ Taken = P - Len(left) /\ Taken \in 0..P
    BY GlyphsHold, PromptAssumption DEF ScreenInv, Printing, Taken
  <1>2. /\ len' = 0 /\ cursor' = 0 /\ wrapped' = FALSE
        /\ \A i \in 1..Len(left) : left[i] = Prompt[Taken + i]
        /\ at \in {"next", "put", "col", "store_col", "wrap", "scroll"}
    BY DEF Printing, kmain, ttyVars
  <1>3. /\ con = [row |-> con.row, col |-> con.col, cells |-> con.cells]
        /\ con.row \in Rows /\ con.cells \in [Rows -> [Cols -> Glyphs]]
    BY DEF ScreenInv, Printing, Consoles
  <1>4. left' = left => Taken' = Taken /\ \A i \in 1..Len(left') : left'[i] = Prompt[Taken' + i]
    BY <1>2 DEF Taken
  <1>5. CASE CallPutChar
    <2>1. /\ left # <<>> /\ at = "next" /\ at' = "put" /\ left' = Tail(left) /\ con' = con
          /\ target' = [row |-> con.row, col |-> con.col, c |-> Head(left)]
      BY <1>5 DEF CallPutChar, Goto
    <2>2. /\ Len(left) >= 1 /\ Head(left) = left[1] /\ Len(left') = Len(left) - 1
          /\ \A i \in 1..Len(left') : left'[i] = left[i + 1]
      BY <1>1, <2>1
    <2>3. Taken' = Taken + 1
      BY <1>1, <2>2 DEF Taken
    <2>4. Head(left) = Prompt[Taken']
      BY <1>1, <1>2, <2>2, <2>3
    <2>5. \A i \in 1..Len(left') : left'[i] = Prompt[Taken' + i]
      <3> TAKE i \in 1..Len(left')
      <3>1. i + 1 \in 1..Len(left) /\ Taken + (i + 1) = Taken' + i
        BY <1>1, <2>2, <2>3
      <3> QED
        BY <1>2, <2>2, <3>1
    <2>6. con.col = Taken /\ ShowsPrompt(Taken)
      BY <2>1 DEF Printing
    <2>7. Taken' - 1 = Taken /\ Taken' >= 1
      BY <1>1, <2>3
    <2>8. \A col \in Cols :
             \/ con'.cells[con'.row][col] = IF col < Taken' - 1 THEN Prompt[col + 1]
                                                                ELSE Blank
             \/ <<con'.row, col>> \in ClockCells
      BY <2>1, <2>6, <2>7 DEF ShowsPrompt
    <2>9. /\ con'.row \in Rows /\ con'.col = Taken' - 1
          /\ target' = [row |-> con'.row, col |-> con'.col, c |-> Prompt[Taken']]
      BY <1>3, <2>1, <2>4, <2>6, <2>7
    <2>10. Taken' >= 0
      BY <1>1, <2>3
    <2>11. Printing'
      BY <1>2, <2>1, <2>5, <2>7, <2>8, <2>9, <2>10 DEF Printing, ShowsPrompt
    <2> QED
      BY <2>1, <2>11
  <1>6. CASE PutChar
    <2>1. /\ at = "put" /\ at' = "col" /\ left' = left
          /\ con' = [con EXCEPT !.cells =
                        vga_put_char(@, target.row, target.col, target.c)]
      BY <1>6 DEF PutChar, Goto
    <2>2. /\ Taken >= 1 /\ con.col = Taken - 1 /\ ShowsPrompt(Taken - 1)
          /\ target = [row |-> con.row, col |-> con.col, c |-> Prompt[Taken]]
      BY <2>1 DEF Printing
    <2>3. con.col \in Cols
      BY <1>1, <2>2 DEF Cols
    <2> DEFINE grid == [con.cells EXCEPT ![con.row][con.col] = Prompt[Taken]]
    <2>4. vga_put_char(con.cells, target.row, target.col, target.c) = grid
      BY <1>3, <2>2, <2>3 DEF vga_put_char
    <2> HIDE DEF grid
    <2>5. con'.row = con.row /\ con'.col = con.col /\ con'.cells = grid
      BY <1>3, <2>1, <2>4
    <2>6. /\ \A row \in Rows : row # con.row => grid[row] = con.cells[row]
          /\ \A col \in Cols : grid[con.row][col] = IF col = con.col THEN Prompt[Taken]
                                                    ELSE con.cells[con.row][col]
      BY <1>3, <2>3 DEF grid
    <2>7. Below(con')
      <3>1. \A row \in Rows : row > con.row => row # con.row
        BY <1>3 DEF Rows
      <3> QED
        BY <2>5, <2>6, <3>1 DEF Below
    <2>8. ShowsPrompt(Taken)'
      <3>1. ASSUME NEW col \in Cols
            PROVE  \/ grid[con.row][col] = IF col < Taken THEN Prompt[col + 1] ELSE Blank
                   \/ <<con.row, col>> \in ClockCells
        <4>1. col \in Nat
          BY DEF Cols
        <4>2. CASE col = con.col
          <5>1. col < Taken /\ col + 1 = Taken
            BY <1>1, <2>2, <4>2
          <5> QED
            BY <2>6, <4>2, <5>1
        <4>3. CASE col # con.col
          <5>1. col < Taken <=> col < Taken - 1
            BY <1>1, <2>2, <4>1, <4>3
          <5> QED
            BY <2>2, <2>6, <4>3, <5>1 DEF ShowsPrompt
        <4> QED
          BY <4>2, <4>3
      <3> QED
        BY <1>4, <2>1, <2>5, <3>1 DEF ShowsPrompt
    <2> QED
      BY <1>1, <1>2, <1>3, <1>4, <2>1, <2>2, <2>5, <2>7, <2>8 DEF Printing, ShowsPrompt
  <1>7. CASE LoadCol
    <2>1. at = "col" /\ at' = "store_col" /\ rdx' = con.col + 1 /\ con' = con /\ left' = left
      BY <1>7 DEF LoadCol, Goto
    <2>2. Taken >= 1 /\ con.col = Taken - 1 /\ ShowsPrompt(Taken)
      BY <2>1 DEF Printing
    <2>3. con.col + 1 = Taken
      BY <1>1, <2>2
    <2> QED
      BY <1>1, <1>2, <1>3, <1>4, <2>1, <2>2, <2>3 DEF Printing, ShowsPrompt
  <1>8. CASE StoreCol
    <2>1. at = "store_col" /\ at' = "wrap" /\ con' = [con EXCEPT !.col = rdx] /\ left' = left
      BY <1>8 DEF StoreCol, Goto
    <2>2. rdx = Taken /\ ShowsPrompt(Taken)
      BY <2>1 DEF Printing
    <2>3. con'.row = con.row /\ con'.col = Taken /\ con'.cells = con.cells
      BY <1>3, <2>1, <2>2
    <2> QED
      BY <1>1, <1>2, <1>3, <1>4, <2>1, <2>2, <2>3 DEF Printing, ShowsPrompt, Below
  <1>9. CASE TestCol
    <2>1. at = "wrap" /\ con' = con /\ left' = left
          /\ at' = IF con.col >= VGA_NUM_COLS THEN "carriage_return" ELSE "scroll"
      BY <1>9 DEF TestCol, MustWrap
    <2>2. con.col = Taken /\ ShowsPrompt(Taken)
      BY <2>1 DEF Printing
    <2>3. at' = "scroll"
      BY <1>1, <2>1, <2>2
    <2> QED
      BY <1>1, <1>2, <1>3, <1>4, <2>1, <2>2, <2>3 DEF Printing, ShowsPrompt
  <1>10. CASE TestRow
    <2>1. at = "scroll" /\ con' = con /\ left' = left
      BY <1>10 DEF TestRow
    <2>2. con.col = Taken /\ ShowsPrompt(Taken)
      BY <2>1 DEF Printing
    <2>3. at' = "next"
      BY <1>3, <1>10 DEF TestRow, Rows
    <2> QED
      BY <1>1, <1>2, <1>3, <1>4, <2>1, <2>2, <2>3 DEF Printing, ShowsPrompt
  <1>11. ~(CarriageReturn \/ LoadRow \/ StoreRow \/ MoveRow \/ StayOnScreen)
    BY <1>2 DEF CarriageReturn, LoadRow, StoreRow, MoveRow, StayOnScreen, Goto
  <1> QED
    BY <1>5, <1>6, <1>7, <1>8, <1>9, <1>10, <1>11 DEF kmain

-----------------------------------------------------------------------------
(* All steps.                                                              *)

SettleInv == BufInv /\ ScreenInv /\ Undisturbed

LEMMA SettleInit == PromptInit => SettleInv
  <1> SUFFICES ASSUME PromptInit PROVE SettleInv
    OBVIOUS
  <1>1. BufInv /\ ScreenInv
    BY EmptyLine, PromptInitScreen DEF PromptInit
  <1> QED
    BY <1>1, PrintingStarts, PrintingEnds DEF SettleInv, Undisturbed

(* kmain has nothing to do once the prompt is out.                         *)
LEMMA PrintedIsIdle ==
    ASSUME Printed
    PROVE  ~kmain
  BY DEF Printed, kmain, CallPutChar, PutChar, LoadCol, StoreCol, TestCol,
         CarriageReturn, LoadRow, StoreRow, TestRow, MoveRow, StayOnScreen, Goto

(* The step of a handler after the prompt.                                 *)
LEMMA ServedSettles ==
    ASSUME SettleInv, Served
    PROVE  Undisturbed'
  <1>1. Printed /\ Printed'
    BY DEF Served, Printed, kmainVars
  <1>2. con \in OnScreen(Glyphs)
    BY <1>1 DEF SettleInv, ScreenInv, Printed, Consoles, OnScreen
  <1> SUFFICES ASSUME ~disturbed' PROVE Agree' /\ Below(con')
    BY <1>1 DEF Undisturbed
  <1>3. CASE tty_newline /\ disturbed' = (disturbed /\ con.row # LastRow)
    <2>1. con.row = LastRow \/ Below(con)
      BY <1>3 DEF SettleInv, Undisturbed
    <2> QED
      BY <1>2, <1>3, <2>1, EnterAgrees
  <1>4. CASE (EditKey \/ DrawClock) /\ disturbed' = disturbed
    <2>1. Agree /\ Below(con) /\ BufInv
      BY <1>1, <1>4 DEF SettleInv, Undisturbed
    <2> QED
      BY <1>2, <1>4, <2>1, ServiceAgrees, ServiceBelow
  <1> QED
    BY <1>3, <1>4 DEF Served

LEMMA SettleStep ==
    ASSUME SettleInv, [PromptNext]_bootVars
    PROVE  SettleInv'
  <1>1. BufInv' /\ ScreenInv'
    BY BufStep, ScreenStep DEF SettleInv
  <1>2. CASE kmain
    <2>1. disturbed' = disturbed /\ ~Printed
      BY <1>2, PrintedIsIdle DEF kmain
    <2>2. ~disturbed => Printing' /\ Below(con')
      BY <1>2, <2>1, PrintingStep DEF SettleInv, Undisturbed
    <2>3. Printing' /\ Printed' => Agree'
      BY PrintingEnds, PTL
    <2>4. Undisturbed'
      BY <2>1, <2>2, <2>3 DEF Undisturbed
    <2> QED
      BY <1>1, <2>4 DEF SettleInv
  <1>3. CASE Hit
    BY <1>1, <1>3 DEF SettleInv, Undisturbed, Hit
  <1>4. CASE Served
    BY <1>1, <1>4, ServedSettles DEF SettleInv
  <1>5. CASE UNCHANGED bootVars
    BY <1>1, <1>5 DEF SettleInv, Undisturbed, Printed, Agree, Printing, Taken,
       ShowsPrompt, RowShowsLine, Shown, bootVars, vars, kmainVars
  <1> QED
    BY <1>2, <1>3, <1>4, <1>5 DEF PromptNext

(* "Align console cursor with tty's cursor" (tty.c:55), once a prompt was  *)
(* begun undisturbed: every key and every redraw of the clock leaves the   *)
(* console's cursor where the buffer's is, while the line fits its row.    *)
THEOREM CursorsAlign == PromptSpec => []SettledAligned
  <1>1. SettleInv => SettledAligned
    BY DEF SettleInv, Undisturbed, SettledAligned, Settled, CursorAligned, Agree
  <1> QED
    BY <1>1, SettleInit, SettleStep, PTL DEF PromptSpec

(* The row shows the prompt, the line and nothing else: no echo leaves a   *)
(* stale character, whatever a race before the prompt left on the screen.  *)
THEOREM RowIsLine == PromptSpec => []SettledRow
  <1>1. SettleInv => SettledRow
    BY DEF SettleInv, Undisturbed, SettledRow, Settled, RowShowsLine, Agree
  <1> QED
    BY <1>1, SettleInit, SettleStep, PTL DEF PromptSpec

(* Editing a line that fits its row changes no other row.                  *)
THEOREM EditsTouchOneRow == PromptSpec => SettledEditsStay
  <1>1. SettleInv /\ [PromptNext]_bootVars => [Settled => StaysOnRow]_bootVars
    <2> SUFFICES ASSUME SettleInv, PromptNext, Settled
                 PROVE  StaysOnRow
      BY Zenon
    <2>1. Printed /\ ~disturbed
      BY DEF Settled
    <2>2. Served
      BY <2>1, PrintedIsIdle DEF PromptNext, Hit
    <2>3. con \in OnScreen(Glyphs) /\ Agree /\ BufInv
      BY <2>1 DEF SettleInv, Undisturbed, ScreenInv, Printed, Consoles, OnScreen
    <2>4. CASE tty_newline
      BY <2>4 DEF tty_newline, StaysOnRow
    <2>5. CASE EditKey \/ DrawClock
      BY <2>3, <2>5, ServiceAgrees
    <2> QED
      BY <2>2, <2>4, <2>5 DEF Served
  <1> QED
    BY <1>1, SettleInit, SettleStep, PTL DEF PromptSpec, SettledEditsStay
=============================================================================
