------------------------------ MODULE MCTraps ------------------------------
(***************************************************************************)
(* Values of the constants of Traps for TLC: nibbles of one bit, so that   *)
(* addresses have 16 bits.                                                 *)
(***************************************************************************)
EXTENDS Traps

(* Division by zero, general protection, another with an error code, one   *)
(* without, and the two IRQs; the stubs differ in every field of a gate.   *)
SomeVectors == {0, 6, 13, 14, 32, 33}
Stubs == (0 :> 5) @@ (6 :> 9) @@ (13 :> 21) @@ (14 :> 69) @@ (32 :> 86) @@ (33 :> 255)

Printable == {"0", "1", "2", "3", "4", "5", "6", "7", "8", "9", "A", "B", "C",
              "D", "E", "F", "-", "x", "%", "a", "vector", "RIP", "halted"}
SomeCalls ==
    {Said(<<"a">>), Said(<<"a", Newline>>), Said(<<"%", "%">>),
     SaidOf("a", "s", <<"a", "a">>), SaidOf("a", "c", "a")} \cup
    {SaidOf("a", "d", n) : n \in {-15, -10, 0, 9, 10}} \cup
    {SaidOf("a", "x", n) : n \in {0, 15, 16, 33}}
=============================================================================
