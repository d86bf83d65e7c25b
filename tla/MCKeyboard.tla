----------------------------- MODULE MCKeyboard -----------------------------
(***************************************************************************)
(* Values of the constants of Keyboard for TLC.                            *)
(***************************************************************************)
EXTENDS Keyboard

(* Both shift keys, Caps Lock, and keys of every class.                    *)
EveryClass == {LeftShift, RightShift, CapsLock, Key("letter", 0),
               Key("digit", 1), Key("digit", 2), Key("sign", 0), Space, Enter,
               Arrow, Dead}
(* The modifiers and a letter.                                             *)
TwoShifts == {LeftShift, RightShift, CapsLock, Key("letter", 0)}

NoRepeat    == {}
SomeRepeat  == {Key("letter", 0), Arrow}
=============================================================================
