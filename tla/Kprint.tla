------------------------------- MODULE Kprint -------------------------------
(***************************************************************************)
(* kprint (kernel/kprint.c): the text it makes of a format and its         *)
(* arguments, printed on the console.  A format is a sequence of           *)
(* characters; a piece of text whose wording does not matter is one.       *)
(*                                                                         *)
(* The reference is an unbounded roll of paper, a sequence of rows, and    *)
(* writes numbers by their positions: the screen is to show its last       *)
(* VGA_NUM_ROWS rows, however the text wraps and scrolls.                  *)
(***************************************************************************)
EXTENDS Console

CONSTANTS
    INT_VALUES,     \* how many values an int has, 2^32 in the source
    Chars,          \* the characters calls print, but for the newline
    Calls,          \* calls of kprint: formats with their arguments
    MaxCalls        \* calls of kprint in all

ASSUME IntAssumption   == INT_VALUES \in Nat \ {0} /\ INT_VALUES % 2 = 0
ASSUME CallsAssumption == MaxCalls \in Nat

VARIABLES
    con,            \* the console
    paper,          \* every row ever written, the last one unfinished
    calls           \* how many calls were made

printVars == <<con, paper, calls>>

PrintInit ==
    /\ con = console_init
    /\ paper = << <<>> >>
    /\ calls = 0

IntMin == -(INT_VALUES \div 2)

DigitChars == <<"0", "1", "2", "3", "4", "5", "6", "7", "8", "9",
                "A", "B", "C", "D", "E", "F">>

ASSUME CharsAssumption ==
    /\ {DigitChars[n] : n \in 1..16} \cup {"-", "x", "%"} \subseteq Chars
    /\ Newline \notin Chars

(* The loop that takes off the last digit, and the reversal.               *)
Digits(value, base) ==
    LET digits[n \in 0..value] ==
            IF n = 0 THEN <<>>
            ELSE Append(digits[n \div base], DigitChars[(n % base) + 1])
    IN  digits[value]

(* -value of an int.  That of the least one is itself, and the loop ends   *)
(* before its first digit.                                                 *)
Negation(value) == IF value = IntMin THEN value ELSE -value

itoa_dec(value) ==
    IF value = 0 THEN <<"0">>
    ELSE LET magnitude == IF value < 0 THEN Negation(value) ELSE value
         IN  (IF value < 0 THEN <<"-">> ELSE <<>>) \o
             (IF magnitude > 0 THEN Digits(magnitude, 10) ELSE <<>>)

itoa_hex(value) ==
    IF value = 0 THEN <<"0">> ELSE <<"0", "x">> \o Digits(value, 16)

(* What a directive prints; an argument of %x is cut to an unsigned int,   *)
(* and an unknown directive prints itself.                                 *)
Directive(d, arg) ==
    CASE d = "d" -> itoa_dec(arg)
      [] d = "x" -> itoa_hex(arg % INT_VALUES)
      [] d = "s" -> arg
      [] d = "c" -> <<arg>>
      [] OTHER   -> <<"%", d>>

TakesArgument(d) == d \in {"d", "x", "s", "c"}

-----------------------------------------------------------------------------
(* The reference: digit i of n is that of base^(n-i).                      *)
Power(base, n) ==
    LET power[k \in 0..n] == IF k = 0 THEN 1 ELSE base * power[k - 1]
    IN  power[n]

Width(value, base) ==
    CHOOSE n \in 1 .. value + 1 : /\ value < Power(base, n)
                                  /\ n = 1 \/ value >= Power(base, n - 1)

Positional(value, base) ==
    LET n == Width(value, base)
    IN  [i \in 1..n |-> DigitChars[((value \div Power(base, n - i)) % base) + 1]]

ReferenceDirective(d, arg) ==
    CASE d = "d" -> IF arg < 0 THEN <<"-">> \o Positional(-arg, 10)
                               ELSE Positional(arg, 10)
      [] d = "x" /\ arg % INT_VALUES # 0 ->
             <<"0", "x">> \o Positional(arg % INT_VALUES, 16)
      [] OTHER   -> Directive(d, arg)

-----------------------------------------------------------------------------
(* The loop over the format: i is its place there, a that of the next      *)
(* argument, out what was printed.  No format of the source ends with a    *)
(* percent sign.                                                           *)
Scan(call, reference, s) ==
    LET c == call.fmt[s.i]
        d == call.fmt[s.i + 1]
        print(arg) == s.out \o IF reference THEN ReferenceDirective(d, arg)
                                            ELSE Directive(d, arg)
    IN  IF s.i > Len(call.fmt) THEN s
        ELSE IF c # "%" THEN [i |-> s.i + 1, a |-> s.a, out |-> Append(s.out, c)]
        ELSE IF TakesArgument(d)
             THEN [i |-> s.i + 2, a |-> s.a + 1, out |-> print(call.args[s.a])]
             ELSE [i |-> s.i + 2, a |-> s.a, out |-> print(0)]

Scanned(call, reference) ==
    LET after[n \in 0..Len(call.fmt)] ==
            IF n = 0 THEN [i |-> 1, a |-> 1, out |-> <<>>]
            ELSE Scan(call, reference, after[n - 1])
    IN  after

TextOf(call, reference) == Scanned(call, reference)[Len(call.fmt)].out

(* What the calls of the source keep to, none of which the compiler        *)
(* checks: every directive of the format has its argument, of the type it  *)
(* reads, and none of those of %d is the least int.                        *)
Printed == Chars \cup {Newline}

Fitting(d, arg) ==
    CASE d = "d" -> arg \in Int /\ arg # IntMin
      [] d = "x" -> arg \in Int
      [] d = "s" -> arg \in Seq(Printed)
      [] d = "c" -> arg \in Printed
      [] OTHER   -> d \in Chars

WellFormed(call) ==
    \A n \in 0..Len(call.fmt) :
        LET s == Scanned(call, TRUE)[n]
            d == call.fmt[s.i + 1]
        IN  s.i =< Len(call.fmt) =>
                IF call.fmt[s.i] = "%"
                THEN /\ s.i < Len(call.fmt)
                     /\ Fitting(d, IF TakesArgument(d) THEN call.args[s.a] ELSE 0)
                ELSE call.fmt[s.i] \in Printed

ASSUME FormatsAssumption ==
    \A call \in Calls : Len(call.fmt) \in Nat /\ WellFormed(call)

(* The text of calls of kprint, one after the other.                       *)
Text(cs, reference) == FlattenSeq([n \in 1..Len(cs) |-> TextOf(cs[n], reference)])

(* The roll of paper: a newline or a full row begins the next row.         *)
PaperPut(p, c) ==
    LET row == p[Len(p)]
        full == Append(row, c)
    IN  IF c = Newline THEN Append(p, <<>>)
        ELSE IF Len(full) = VGA_NUM_COLS
             THEN Append([p EXCEPT ![Len(p)] = full], <<>>)
             ELSE [p EXCEPT ![Len(p)] = full]

Rolled(p, s) ==
    LET after[n \in 0..Len(s)] == IF n = 0 THEN p ELSE PaperPut(after[n - 1], s[n])
    IN  after

kprint(cs) ==
    /\ con' = console_write(con, Text(cs, FALSE))
    /\ paper' = Rolled(paper, Text(cs, TRUE))[Len(Text(cs, TRUE))]

KernelPrints ==
    /\ calls < MaxCalls
    /\ calls' = calls + 1
    /\ \E call \in Calls : kprint(<<call>>)

-----------------------------------------------------------------------------
(* Properties.                                                             *)

(* The number of rows that have left the screen.                           *)
Gone == IF Len(paper) > VGA_NUM_ROWS THEN Len(paper) - VGA_NUM_ROWS ELSE 0

OnPaper(row, col) ==
    IF Gone + row + 1 =< Len(paper) /\ col + 1 =< Len(paper[Gone + row + 1])
    THEN paper[Gone + row + 1][col + 1]
    ELSE Blank

(* The screen is the window on the last rows of the paper and the cursor   *)
(* is where the next character goes: conversion, wrapping, scrolling and   *)
(* clearing the last row lose no character but those of the rows that left *)
(* the top.                                                                *)
ScreenShowsOutput ==
    /\ \A row \in Rows : \A col \in Cols :
          con.cells[row][col] = OnPaper(row, col)
    /\ con.row = Len(paper) - Gone - 1
    /\ con.col = Len(paper[Len(paper)])
=============================================================================
