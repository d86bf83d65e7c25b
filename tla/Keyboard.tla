------------------------------ MODULE Keyboard ------------------------------
(***************************************************************************)
(* The keyboard driver (drivers/keyboard.c): physical keys go down and up, *)
(* the keyboard sends a make or a break code for each, and                 *)
(* keyboard_handle_scancode turns the code into a key event for the        *)
(* terminal while it tracks the modifiers.  The codes are handled one by   *)
(* one, in the order of the keys (module Interrupts), so a key and its     *)
(* handler are one step here.                                              *)
(*                                                                         *)
(* A scancode stands for its key and a release bit; keys come in classes   *)
(* (letters, digits, punctuation, control keys) and a character is the     *)
(* key with the form it takes.                                             *)
(***************************************************************************)
EXTENDS Integers, Sequences

CONSTANTS
    LeftShift, RightShift, CapsLock,    \* physical modifier keys
    Keys,          \* the keys in play: modifiers, keycodes and dead keys
    Letters,       \* codes of the letter keys
    Signs,         \* codes of the punctuation keys
    Typematic      \* the keys that repeat their make code while held

Modifiers == {LeftShift, RightShift, CapsLock}
Digits == 0..9

(* A key with a keycode: its class and its number in the class.            *)
Key(class, n) == [class |-> class, n |-> n]
Space == Key("space", 0)
Enter == Key("control", 0)       (* and Backspace alike                    *)
Arrow == Key("control", 1)       (* the arrows, sent with the prefix E0    *)
Dead  == Key("dead", 0)          (* scancodes that translate to KEY_NONE   *)
KEY_NONE == Key("none", 0)
Keycodes == {Key("letter", n) : n \in Letters} \cup
            {Key("digit", n) : n \in Digits} \cup
            {Key("sign", n) : n \in Signs} \cup {Space, Enter, Arrow}

ASSUME ModifiersAssumption ==
    /\ LeftShift # RightShift /\ CapsLock \notin {LeftShift, RightShift}
    /\ Modifiers \cap (Keycodes \cup {Dead, KEY_NONE}) = {}
ASSUME KeysAssumption == Keys \subseteq Modifiers \cup Keycodes \cup {Dead}

VARIABLES
    kbd,             \* kbd.shift and kbd.caps, and in kbd.event the last event
                     \* tty_handle_key received, or NoEvent
    held,            \* the keys that are down
    fake,            \* the shift code the keyboard sent ahead of Arrow
    locks,           \* has Caps Lock been struck an odd number of times?
    mixed            \* did the shift codes of two keys overlap since no shift
                     \* code was pending?  (locks and mixed are history: no
                     \* step of the driver depends on them)

vars == <<kbd, held, fake, locks, mixed>>

NoChar  == <<>>
NoEvent == [key |-> KEY_NONE, press |-> FALSE, mods |-> FALSE, ascii |-> NoChar]

-----------------------------------------------------------------------------
(* The translation tables.                                                 *)

(* The modifiers' scancodes have no keycode.                               *)
scancode_to_keycode_no_default(key) == IF key \in Modifiers THEN KEY_NONE ELSE key
scancode_to_keycode(key) == IF key \in Keycodes THEN key ELSE KEY_NONE

(* Shifted digits by the index of shifted[], one entry a byte: the pound   *)
(* sign of the string literal takes two bytes of UTF-8.                    *)
ShiftedDigits == <<")", "!", "\"", "0xC2", "0xA3", "$", "%", "^", "&", "*">>

Capital_or(shifted, capital) == shifted \/ capital
Capital(shifted, capital) == shifted # capital

keycode_to_ascii(key, shifted, capital) ==
    CASE key.class = "letter" -> <<"letter", key.n, Capital(shifted, capital)>>
      [] key.class = "digit"  -> IF shifted THEN <<ShiftedDigits[key.n + 1]>>
                                 ELSE <<"digit", key.n>>
      [] key.class = "sign"   -> <<"sign", key.n, shifted>>
      [] key.class = "space"  -> <<"space">>
      [] OTHER                -> NoChar

-----------------------------------------------------------------------------
Init ==
    /\ kbd = [shift |-> FALSE, caps |-> FALSE, event |-> NoEvent]
    /\ held = {}
    /\ fake = "none"
    /\ locks = FALSE
    /\ mixed = FALSE

(* kbd.shift follows the last shift key that moved.                        *)
Shift_sticky(was, key, down) == was \/ key \in {LeftShift, RightShift}
Shift(was, key, down) == IF key \in {LeftShift, RightShift} THEN down ELSE was

CapsAfter_any_edge(was, key, down) == IF key = CapsLock THEN ~was ELSE was
CapsAfter(was, key, down) == IF key = CapsLock /\ down THEN ~was ELSE was

(* The state k after one scancode: the modifiers first, then the event, if *)
(* there is one.                                                           *)
keyboard_handle_scancode(k, key, down) ==
    LET code == scancode_to_keycode(key)
        mods == Shift(k.shift, key, down)
        caps == CapsAfter(k.caps, key, down)
    IN  [shift |-> mods,
         caps  |-> caps,
         event |-> IF code = KEY_NONE THEN k.event
                   ELSE [key   |-> code,
                         press |-> down,
                         mods  |-> mods,
                         ascii |-> IF down THEN keycode_to_ascii(code, mods, caps)
                                   ELSE NoChar]]

(* The prefix E0 is the release of a dead key to the driver.               *)
Prefixed(k, key, down) ==
    keyboard_handle_scancode(keyboard_handle_scancode(k, Dead, FALSE), key, down)

(* The keyboard: a struck key, a repeated make code, a released key.       *)
KeyDown(key) ==
    /\ key \notin held
    /\ kbd' = keyboard_handle_scancode(kbd, key, TRUE)
    /\ held' = held \cup {key}
    /\ locks' = (locks # (key = CapsLock))
    /\ UNCHANGED fake

KeyRepeat(key) ==
    /\ key \in held \cap Typematic
    /\ kbd' = IF key = Arrow THEN Prefixed(kbd, key, TRUE)
              ELSE keyboard_handle_scancode(kbd, key, TRUE)
    /\ UNCHANGED <<held, locks, fake>>

KeyUp(key) ==
    /\ key \in held
    /\ kbd' = keyboard_handle_scancode(kbd, key, FALSE)
    /\ held' = held \ {key}
    /\ UNCHANGED <<locks, fake>>

(* An extended key may be wrapped in a shift code that nobody struck: a    *)
(* make with Num Lock on, a break of the shift key that is down without    *)
(* it; the keyboard takes its code back when the key comes up.             *)
ArrowDown(code) ==
    /\ Arrow \notin held
    /\ code = "make"  => held \cap {LeftShift, RightShift} = {}
    /\ code = "break" => LeftShift \in held
    /\ fake' = code
    /\ kbd' = LET wrapped == IF code = "none" THEN kbd
                             ELSE Prefixed(kbd, LeftShift, code = "make")
              IN  Prefixed(wrapped, Arrow, TRUE)
    /\ held' = held \cup {Arrow}
    /\ UNCHANGED locks

ArrowUp ==
    /\ Arrow \in held
    /\ kbd' = LET released == Prefixed(kbd, Arrow, FALSE)
              IN  IF fake = "make" THEN Prefixed(released, LeftShift, FALSE)
                  ELSE IF fake = "break" /\ LeftShift \in held
                       THEN Prefixed(released, LeftShift, TRUE)
                       ELSE released
    /\ fake' = "none"
    /\ held' = held \ {Arrow}
    /\ UNCHANGED locks

ShiftHeld == held \cap {LeftShift, RightShift} # {}

(* Two sources of shift codes overlap, until none is pending.              *)
Mix ==
    mixed' = (/\ ShiftHeld' \/ fake' # "none"
              /\ mixed \/ fake' # "none" \/ {LeftShift, RightShift} \subseteq held')

Next ==
    /\ \/ \E key \in Keys \ {Arrow} : KeyDown(key) \/ KeyUp(key)
       \/ \E key \in Keys : KeyRepeat(key)
       \/ \E code \in {"none", "make", "break"} : Arrow \in Keys /\ ArrowDown(code)
       \/ ArrowUp
    /\ Mix

Spec == Init /\ [][Next]_vars

-----------------------------------------------------------------------------
(* Properties.                                                             *)

Ascii == {NoChar, <<"space">>} \cup
         {<<"letter", n, b>> : n \in Letters, b \in BOOLEAN} \cup
         {<<"sign", n, b>>   : n \in Signs, b \in BOOLEAN} \cup
         {<<"digit", n>>     : n \in Digits} \cup
         {<<ShiftedDigits[i]>> : i \in DOMAIN ShiftedDigits}

TypeOK ==
    /\ kbd \in [shift : BOOLEAN, caps : BOOLEAN,
                event : [key : Keycodes \cup {KEY_NONE}, press : BOOLEAN,
                         mods : BOOLEAN, ascii : Ascii]]
    /\ held \subseteq Keys
    /\ fake \in {"none", "make", "break"}
    /\ locks \in BOOLEAN
    /\ mixed \in BOOLEAN

(* "State of modifier keys" (keyboard.c:22): kbd.shift says whether a      *)
(* shift key is down, after any sequence of presses and releases.          *)
ShiftTracksKeys == kbd.shift <=> ShiftHeld

(* What remains of it: the shift state is right while one source of shift  *)
(* codes is active, and is right again as soon as an overlap of both shift *)
(* keys, or of a shift key and an extended key, has ended.                 *)
ShiftRecovers == ~mixed => ShiftTracksKeys

(* "Toggle capslock on the press only" (keyboard.c:174): kbd.caps changes  *)
(* once each time Caps Lock is struck.                                     *)
CapsTracksStrokes == kbd.caps <=> locks

(* The signs over the digits of a UK keyboard, up to the pound sign.       *)
UKSigns == [n \in 0..2 |-> <<")", "!", "\"">>[n + 1]]

(* A character reaches the terminal as the keys that are down say (no      *)
(* overlap of shift codes pending): letters in the case that shift and     *)
(* Caps Lock make together, signs and digits shifted by shift alone, a     *)
(* space always a space.                                                   *)
TypedAsHeld ==
    [][kbd'.event # kbd.event /\ kbd'.event.press /\ ~mixed' =>
          LET key   == kbd'.event.key
              typed == kbd'.event.ascii
          IN
          /\ key.class = "letter" => typed = <<"letter", key.n, ShiftHeld' # locks'>>
          /\ key.class = "sign"   => typed = <<"sign", key.n, ShiftHeld'>>
          /\ key.class = "digit" /\ ~ShiftHeld' => typed = <<"digit", key.n>>
          /\ key.class = "digit" /\ ShiftHeld' /\ key.n \in DOMAIN UKSigns =>
                typed = <<UKSigns[key.n]>>
          /\ key.class = "space"   => typed = <<"space">>
          /\ key.class = "control" => typed = NoChar]_vars
=============================================================================
