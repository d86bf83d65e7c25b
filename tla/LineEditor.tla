----------------------------- MODULE LineEditor -----------------------------
(***************************************************************************)
(* What the terminal promises about the line being typed: a text with a    *)
(* cursor in it, at most Capacity characters long, and keys that insert    *)
(* before the cursor, delete the character before it, move it by one       *)
(* character or start an empty line.  How the line is stored and shown is  *)
(* the business of the module that implements this one.                    *)
(***************************************************************************)
EXTENDS Integers, Sequences

CONSTANTS Chars, Capacity

VARIABLES
    before,      \* the text left of the cursor
    after        \* the text right of the cursor

Line == before \o after

Init == before = <<>> /\ after = <<>>

Type(c) ==
    /\ Len(Line) < Capacity
    /\ before' = Append(before, c)
    /\ UNCHANGED after

Delete ==
    /\ before # <<>>
    /\ before' = SubSeq(before, 1, Len(before) - 1)
    /\ UNCHANGED after

Left ==
    /\ before # <<>>
    /\ after'  = <<before[Len(before)]>> \o after
    /\ before' = SubSeq(before, 1, Len(before) - 1)

Right ==
    /\ after # <<>>
    /\ before' = Append(before, Head(after))
    /\ after'  = Tail(after)

Enter == before' = <<>> /\ after' = <<>>

Next == \/ \E c \in Chars : Type(c)
        \/ Delete \/ Left \/ Right \/ Enter

Spec == Init /\ [][Next]_<<before, after>>
=============================================================================
