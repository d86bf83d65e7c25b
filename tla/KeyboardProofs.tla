--------------------------- MODULE KeyboardProofs ---------------------------
(***************************************************************************)
(* Proofs about the keyboard driver, for any set of keys and any keys that *)
(* repeat.                                                                 *)
(***************************************************************************)
EXTENDS Keyboard, TLAPS

(* The two keys that move kbd.shift.                                       *)
ShiftKeys == {LeftShift, RightShift}

(* A dead key and the arrow leave the modifiers alone.                     *)
LEMMA SpecialKeys ==
    /\ Dead \notin ShiftKeys /\ Dead # CapsLock
    /\ Arrow \notin ShiftKeys /\ Arrow # CapsLock
    /\ LeftShift # CapsLock /\ RightShift # CapsLock
    /\ Dead \notin Keycodes /\ Arrow \in Keycodes
  <1>1. Arrow \in Keycodes
    BY DEF Keycodes
  <1>2. Dead \notin Keycodes
    BY DEF Keycodes, Dead, Space, Enter, Arrow, Key
  <1>3. QED
    BY <1>1, <1>2, ModifiersAssumption DEF ShiftKeys, Modifiers

-----------------------------------------------------------------------------
(* Types.                                                                  *)

Events == [key : Keycodes \cup {KEY_NONE}, press : BOOLEAN, mods : BOOLEAN,
           ascii : Ascii]
KbdType == [shift : BOOLEAN, caps : BOOLEAN, event : Events]

LEMMA AsciiType ==
    ASSUME NEW key \in Keycodes, NEW shifted \in BOOLEAN, NEW capital \in BOOLEAN
    PROVE  keycode_to_ascii(key, shifted, capital) \in Ascii
  <1> DEFINE typed == keycode_to_ascii(key, shifted, capital)
  <1>1. CASE \E n \in Letters : key = Key("letter", n)
    <2>1. PICK n \in Letters : key = Key("letter", n)
      BY <1>1
    <2>2. typed = <<"letter", n, Capital(shifted, capital)>>
      BY <2>1 DEF keycode_to_ascii, Key
    <2>3. Capital(shifted, capital) \in BOOLEAN
      BY DEF Capital
    <2>4. QED
      BY <2>2, <2>3 DEF Ascii
  <1>2. CASE \E n \in Signs : key = Key("sign", n)
    <2>1. PICK n \in Signs : key = Key("sign", n)
      BY <1>2
    <2>2. typed = <<"sign", n, shifted>>
      BY <2>1 DEF keycode_to_ascii, Key
    <2>3. QED
      BY <2>2 DEF Ascii
  <1>3. CASE \E n \in Digits : key = Key("digit", n)
    <2>1. PICK n \in Digits : key = Key("digit", n)
      BY <1>3
    <2>2. typed = IF shifted THEN <<ShiftedDigits[n + 1]>> ELSE <<"digit", n>>
      BY <2>1 DEF keycode_to_ascii, Key
    <2>3. n + 1 \in DOMAIN ShiftedDigits
      BY DEF ShiftedDigits, Digits
    <2>4. QED
      BY <2>2, <2>3 DEF Ascii
  <1>4. CASE key = Space
    BY <1>4 DEF keycode_to_ascii, Space, Key, Ascii
  <1>5. CASE key = Enter \/ key = Arrow
    BY <1>5 DEF keycode_to_ascii, Enter, Arrow, Key, Ascii
  <1>6. QED
    BY <1>1, <1>2, <1>3, <1>4, <1>5 DEF Keycodes

LEMMA HandlerType ==
    ASSUME NEW k \in KbdType, NEW key, NEW down \in BOOLEAN
    PROVE  keyboard_handle_scancode(k, key, down) \in KbdType
  <1> DEFINE code == scancode_to_keycode(key)
             mods == Shift(k.shift, key, down)
             caps == CapsAfter(k.caps, key, down)
             typed == IF down THEN keycode_to_ascii(code, mods, caps) ELSE NoChar
             event == IF code = KEY_NONE THEN k.event
                      ELSE [key |-> code, press |-> down, mods |-> mods,
                            ascii |-> typed]
  <1>1. mods \in BOOLEAN /\ caps \in BOOLEAN
    BY DEF Shift, CapsAfter, KbdType
  <1>2. code = KEY_NONE \/ code \in Keycodes
    BY DEF scancode_to_keycode
  <1>3. code \in Keycodes => typed \in Ascii
    <2>1. NoChar \in Ascii
      BY DEF Ascii
    <2>2. QED
      BY <1>1, <2>1, AsciiType
  <1> HIDE DEF code, mods, caps, typed
  <1>4. event \in Events
    BY <1>1, <1>2, <1>3 DEF KbdType, Events
  <1>5. keyboard_handle_scancode(k, key, down)
            = [shift |-> mods, caps |-> caps, event |-> event]
    BY DEF keyboard_handle_scancode, code, mods, caps, typed
  <1> HIDE DEF event
  <1>6. QED
    BY <1>1, <1>4, <1>5 DEF KbdType

LEMMA PrefixedType ==
    ASSUME NEW k \in KbdType, NEW key, NEW down \in BOOLEAN
    PROVE  Prefixed(k, key, down) \in KbdType
  BY HandlerType DEF Prefixed

LEMMA NextType == TypeOK /\ [Next]_vars => TypeOK'
  <1> SUFFICES ASSUME TypeOK, [Next]_vars PROVE TypeOK'
    OBVIOUS
  <1> USE DEF TypeOK
  <1>0. /\ kbd \in KbdType
        /\ Keys \subseteq Modifiers \cup Keycodes \cup {Dead}
    BY KeysAssumption DEF KbdType, Events
  <1>1. ASSUME NEW key \in Keys, KeyDown(key), Mix PROVE TypeOK'
    <2>1. kbd' \in KbdType
      BY <1>0, <1>1, HandlerType DEF KeyDown
    <2>2. held' \subseteq Keys /\ fake' = fake /\ locks' \in BOOLEAN
      BY <1>1 DEF KeyDown
    <2>3. QED
      BY <1>1, <2>1, <2>2 DEF Mix, KbdType, Events
  <1>2. ASSUME NEW key \in Keys, KeyRepeat(key), Mix PROVE TypeOK'
    <2>1. kbd' \in KbdType
      BY <1>0, <1>2, HandlerType, PrefixedType DEF KeyRepeat
    <2>2. QED
      BY <1>2, <2>1 DEF KeyRepeat, Mix, KbdType, Events
  <1>3. ASSUME NEW key \in Keys, KeyUp(key), Mix PROVE TypeOK'
    <2>1. kbd' \in KbdType
      BY <1>0, <1>3, HandlerType DEF KeyUp
    <2>2. QED
      BY <1>3, <2>1 DEF KeyUp, Mix, KbdType, Events
  <1>4. ASSUME NEW code \in {"none", "make", "break"}, Arrow \in Keys,
               ArrowDown(code), Mix
        PROVE TypeOK'
    <2> DEFINE wrapped == IF code = "none" THEN kbd
                          ELSE Prefixed(kbd, LeftShift, code = "make")
    <2>1. wrapped \in KbdType
      BY <1>0, PrefixedType
    <2>2. kbd' = Prefixed(wrapped, Arrow, TRUE)
      BY <1>4 DEF ArrowDown
    <2> HIDE DEF wrapped
    <2>3. kbd' \in KbdType
      BY <2>1, <2>2, PrefixedType
    <2>4. QED
      BY <1>4, <2>3 DEF ArrowDown, Mix, KbdType, Events
  <1>5. ASSUME ArrowUp, Mix PROVE TypeOK'
    <2> DEFINE released == Prefixed(kbd, Arrow, FALSE)
    <2>1. released \in KbdType
      BY <1>0, PrefixedType
    <2>2. \/ kbd' = Prefixed(released, LeftShift, FALSE)
          \/ kbd' = Prefixed(released, LeftShift, TRUE)
          \/ kbd' = released
      BY <1>5 DEF ArrowUp
    <2> HIDE DEF released
    <2>3. kbd' \in KbdType
      BY <2>1, <2>2, PrefixedType
    <2>4. QED
      BY <1>5, <2>3 DEF ArrowUp, Mix, KbdType, Events
  <1>6. CASE UNCHANGED vars
    BY <1>6 DEF vars
  <1>7. QED
    BY <1>1, <1>2, <1>3, <1>4, <1>5, <1>6 DEF Next

LEMMA InitType == Init => TypeOK
  <1> SUFFICES ASSUME Init PROVE TypeOK
    OBVIOUS
  <1>1. NoChar \in Ascii
    BY DEF Ascii
  <1>2. NoEvent \in Events
    BY <1>1 DEF NoEvent, Events
  <1>3. kbd \in KbdType
    BY <1>2 DEF Init, KbdType
  <1>4. QED
    BY <1>3 DEF Init, TypeOK, KbdType, Events

(* Every variable keeps its type: whatever keys are in play, an event the  *)
(* terminal receives is one of its keycodes with a character of its table. *)
THEOREM TypeCorrect == Spec => []TypeOK
  BY InitType, NextType, PTL DEF Spec

-----------------------------------------------------------------------------
(* The modifiers.                                                          *)

(* ShiftRecovers is not inductive: why the shift state is right when an    *)
(* overlap ends depends on what is known while it lasts.                   *)
ShiftInv ==
    /\ fake # "none" => Arrow \in held
    /\ fake # "none" \/ ShiftKeys \subseteq held => mixed
    /\ mixed => ShiftHeld \/ fake # "none"
    /\ fake = "break" /\ ~ShiftHeld => kbd.shift = FALSE
    /\ ShiftRecovers


(* What the actions of the keyboard do to the two modifiers.               *)
LEMMA DownEffect ==
    ASSUME NEW key, KeyDown(key)
    PROVE  /\ kbd'.shift = IF key \in ShiftKeys THEN TRUE ELSE kbd.shift
           /\ kbd'.caps = IF key = CapsLock THEN ~kbd.caps ELSE kbd.caps
  BY DEF KeyDown, keyboard_handle_scancode, Shift, CapsAfter, ShiftKeys

LEMMA UpEffect ==
    ASSUME NEW key, KeyUp(key)
    PROVE  /\ kbd'.shift = IF key \in ShiftKeys THEN FALSE ELSE kbd.shift
           /\ kbd'.caps = kbd.caps
  BY DEF KeyUp, keyboard_handle_scancode, Shift, CapsAfter, ShiftKeys

LEMMA RepeatEffect ==
    ASSUME NEW key, KeyRepeat(key)
    PROVE  /\ kbd'.shift = IF key \in ShiftKeys THEN TRUE ELSE kbd.shift
           /\ key # CapsLock => kbd'.caps = kbd.caps
  <1>1. CASE key = Arrow
    <2>1. kbd' = Prefixed(kbd, key, TRUE)
      BY <1>1 DEF KeyRepeat
    <2>2. QED
      BY <1>1, <2>1, SpecialKeys DEF Prefixed, keyboard_handle_scancode, Shift,
         CapsAfter, ShiftKeys
  <1>2. CASE key # Arrow
    BY <1>2 DEF KeyRepeat, keyboard_handle_scancode, Shift, CapsAfter, ShiftKeys
  <1>3. QED
    BY <1>1, <1>2

LEMMA ArrowDownEffect ==
    ASSUME NEW code \in {"none", "make", "break"}, ArrowDown(code)
    PROVE  /\ kbd'.shift = IF code = "none" THEN kbd.shift ELSE code = "make"
           /\ kbd'.caps = kbd.caps
  <1> DEFINE wrapped == IF code = "none" THEN kbd
                        ELSE Prefixed(kbd, LeftShift, code = "make")
  <1>1. /\ wrapped.shift = IF code = "none" THEN kbd.shift ELSE code = "make"
        /\ wrapped.caps = kbd.caps
    BY SpecialKeys DEF Prefixed, keyboard_handle_scancode, Shift, CapsAfter, ShiftKeys
  <1>2. kbd' = Prefixed(wrapped, Arrow, TRUE)
    BY DEF ArrowDown
  <1> HIDE DEF wrapped
  <1>3. kbd'.shift = wrapped.shift /\ kbd'.caps = wrapped.caps
    BY <1>2, SpecialKeys DEF Prefixed, keyboard_handle_scancode, Shift, CapsAfter, ShiftKeys
  <1>4. QED
    BY <1>1, <1>3

LEMMA ArrowUpEffect ==
    ASSUME ArrowUp
    PROVE  /\ fake = "make" => kbd'.shift = FALSE
           /\ fake = "break" /\ LeftShift \in held => kbd'.shift = TRUE
           /\ fake = "none" \/ (fake = "break" /\ LeftShift \notin held) =>
                 kbd'.shift = kbd.shift
           /\ kbd'.caps = kbd.caps
  <1> DEFINE released == Prefixed(kbd, Arrow, FALSE)
  <1>1. released.shift = kbd.shift /\ released.caps = kbd.caps
    BY SpecialKeys DEF Prefixed, keyboard_handle_scancode, Shift, CapsAfter, ShiftKeys
  <1>2. kbd' = IF fake = "make" THEN Prefixed(released, LeftShift, FALSE)
               ELSE IF fake = "break" /\ LeftShift \in held
                    THEN Prefixed(released, LeftShift, TRUE)
                    ELSE released
    BY DEF ArrowUp
  <1> HIDE DEF released
  <1>3. QED
    BY <1>1, <1>2, SpecialKeys DEF Prefixed, keyboard_handle_scancode, Shift,
       CapsAfter, ShiftKeys

LEMMA MixEffect ==
    ASSUME Mix
    PROVE  mixed' <=> /\ ShiftHeld' \/ fake' # "none"
                      /\ mixed \/ fake' # "none" \/ ShiftKeys \subseteq held'
  BY DEF Mix, ShiftKeys

LEMMA NextShift == TypeOK /\ ShiftInv /\ [Next]_vars => ShiftInv'
  <1> SUFFICES ASSUME TypeOK, ShiftInv, [Next]_vars PROVE ShiftInv'
    OBVIOUS
  <1> USE DEF ShiftInv, ShiftRecovers, ShiftTracksKeys, ShiftHeld, ShiftKeys
  <1>0. kbd.shift \in BOOLEAN /\ mixed \in BOOLEAN
        /\ fake \in {"none", "make", "break"}
    BY DEF TypeOK
  <1>1. ASSUME NEW key \in Keys \ {Arrow}, KeyDown(key), Mix PROVE ShiftInv'
    <2>1. held' = held \cup {key} /\ fake' = fake
      BY <1>1 DEF KeyDown
    <2>2. kbd'.shift = IF key \in ShiftKeys THEN TRUE ELSE kbd.shift
      BY <1>1, DownEffect
    <2>3. QED
      BY <1>0, <1>1, <2>1, <2>2, MixEffect
  <1>2. ASSUME NEW key \in Keys \ {Arrow}, KeyUp(key), Mix PROVE ShiftInv'
    <2>1. held' = held \ {key} /\ fake' = fake /\ key \in held
      BY <1>2 DEF KeyUp
    <2>2. kbd'.shift = IF key \in ShiftKeys THEN FALSE ELSE kbd.shift
      BY <1>2, UpEffect
    <2>3. QED
      BY <1>0, <1>2, <2>1, <2>2, MixEffect
  <1>3. ASSUME NEW key \in Keys, KeyRepeat(key), Mix PROVE ShiftInv'
    <2>1. held' = held /\ fake' = fake /\ key \in held
      BY <1>3 DEF KeyRepeat
    <2>2. kbd'.shift = IF key \in ShiftKeys THEN TRUE ELSE kbd.shift
      BY <1>3, RepeatEffect
    <2>3. QED
      BY <1>0, <1>3, <2>1, <2>2, MixEffect
  <1>4. ASSUME NEW code \in {"none", "make", "break"}, ArrowDown(code), Mix
        PROVE ShiftInv'
    <2>1. /\ Arrow \notin held
          /\ held' = held \cup {Arrow} /\ fake' = code
      BY <1>4 DEF ArrowDown
    <2>2. kbd'.shift = IF code = "none" THEN kbd.shift ELSE code = "make"
      BY <1>4, ArrowDownEffect
    <2>3. QED
      BY <1>0, <1>4, <2>1, <2>2, MixEffect, SpecialKeys
  <1>5. ASSUME ArrowUp, Mix PROVE ShiftInv'
    <2>1. held' = held \ {Arrow} /\ fake' = "none"
      BY <1>5 DEF ArrowUp
    <2>2. QED
      BY <1>0, <1>5, <2>1, ArrowUpEffect, MixEffect, SpecialKeys
  <1>6. CASE UNCHANGED vars
    BY <1>6 DEF vars
  <1>7. QED
    BY <1>1, <1>2, <1>3, <1>4, <1>5, <1>6 DEF Next

(* Whatever keys are in play and whichever repeat: once no two sources of  *)
(* shift codes overlap, kbd.shift (keyboard_handle_scancode) says whether  *)
(* a shift key is down.                                                    *)
THEOREM ShiftAfterOverlap == Spec => []ShiftRecovers
  <1>1. Init => ShiftInv
    BY ModifiersAssumption DEF Init, ShiftInv, ShiftRecovers, ShiftTracksKeys, ShiftHeld, ShiftKeys
  <1>2. ShiftInv => ShiftRecovers
    BY DEF ShiftInv
  <1>3. QED
    BY <1>1, <1>2, InitType, NextType, NextShift, PTL DEF Spec

LEMMA NextCaps ==
    ASSUME CapsLock \notin Typematic, TypeOK, CapsTracksStrokes, [Next]_vars
    PROVE  CapsTracksStrokes'
  <1> USE DEF CapsTracksStrokes
  <1>0. kbd.caps \in BOOLEAN /\ locks \in BOOLEAN
    BY DEF TypeOK
  <1>1. ASSUME NEW key, KeyDown(key) PROVE CapsTracksStrokes'
    BY <1>0, <1>1, DownEffect DEF KeyDown
  <1>2. ASSUME NEW key, KeyUp(key) PROVE CapsTracksStrokes'
    BY <1>0, <1>2, UpEffect DEF KeyUp
  <1>3. ASSUME NEW key, KeyRepeat(key) PROVE CapsTracksStrokes'
    <2>1. key # CapsLock
      BY <1>3 DEF KeyRepeat
    <2>2. QED
      BY <1>0, <1>3, <2>1, RepeatEffect DEF KeyRepeat
  <1>4. ASSUME NEW code \in {"none", "make", "break"}, ArrowDown(code)
        PROVE  CapsTracksStrokes'
    BY <1>0, <1>4, ArrowDownEffect DEF ArrowDown
  <1>5. ASSUME ArrowUp PROVE CapsTracksStrokes'
    BY <1>0, <1>5, ArrowUpEffect DEF ArrowUp
  <1>6. CASE UNCHANGED vars
    BY <1>6 DEF vars
  <1>7. QED
    BY <1>1, <1>2, <1>3, <1>4, <1>5, <1>6 DEF Next

(* kbd.caps is the parity of the strokes of Caps Lock, on a keyboard that  *)
(* does not repeat that key: keyboard_handle_scancode cannot tell a        *)
(* repeated make code from a stroke.                                       *)
THEOREM CapsLockParity ==
    ASSUME CapsLock \notin Typematic
    PROVE  Spec => []CapsTracksStrokes
  <1>1. Init => CapsTracksStrokes
    BY DEF Init, CapsTracksStrokes
  <1>2. TypeOK /\ CapsTracksStrokes /\ [Next]_vars => CapsTracksStrokes'
    BY NextCaps
  <1>3. QED
    BY <1>1, <1>2, InitType, NextType, PTL DEF Spec

-----------------------------------------------------------------------------
(* What is typed.                                                          *)

(* k sends a character: a keycode in the form its modifiers give it.       *)
Sends(k) ==
    /\ k.event.key \in Keycodes
    /\ k.event.ascii = keycode_to_ascii(k.event.key, k.shift, k.caps)

(* One scancode keeps the last event, or makes a new one of its key.       *)
LEMMA HandlerEvent ==
    ASSUME NEW k, NEW key, NEW down
    PROVE  LET after == keyboard_handle_scancode(k, key, down)
           IN  IF key \in Keycodes /\ key # KEY_NONE
               THEN after.event.press = down /\ (down => Sends(after))
               ELSE after.event = k.event
  BY DEF keyboard_handle_scancode, scancode_to_keycode, Sends

LEMMA PrefixedEvent ==
    ASSUME NEW k, NEW key, NEW down
    PROVE  LET after == Prefixed(k, key, down)
           IN  IF key \in Keycodes /\ key # KEY_NONE
               THEN after.event.press = down /\ (down => Sends(after))
               ELSE after.event = k.event
  <1> DEFINE before == keyboard_handle_scancode(k, Dead, FALSE)
  <1>1. before.event = k.event
    BY SpecialKeys, HandlerEvent
  <1>2. Prefixed(k, key, down) = keyboard_handle_scancode(before, key, down)
    BY DEF Prefixed
  <1> HIDE DEF before
  <1>3. QED
    BY <1>1, <1>2, HandlerEvent

(* A step that makes a new event of a pressed key sends a character.       *)
LEMMA NextSends ==
    ASSUME [Next]_vars, kbd'.event # kbd.event, kbd'.event.press
    PROVE  Sends(kbd')
  <1>0. LeftShift \notin Keycodes
    BY ModifiersAssumption DEF Modifiers
  <1>1. ASSUME NEW key, KeyDown(key) PROVE Sends(kbd')
    BY <1>1, HandlerEvent DEF KeyDown
  <1>2. ASSUME NEW key, KeyUp(key) PROVE FALSE
    BY <1>2, HandlerEvent DEF KeyUp
  <1>3. ASSUME NEW key, KeyRepeat(key) PROVE Sends(kbd')
    BY <1>3, HandlerEvent, PrefixedEvent DEF KeyRepeat
  <1>4. ASSUME NEW code \in {"none", "make", "break"}, ArrowDown(code)
        PROVE  Sends(kbd')
    <2> DEFINE wrapped == IF code = "none" THEN kbd
                          ELSE Prefixed(kbd, LeftShift, code = "make")
    <2>1. wrapped.event = kbd.event
      BY <1>0, PrefixedEvent
    <2>2. kbd' = Prefixed(wrapped, Arrow, TRUE)
      BY <1>4 DEF ArrowDown
    <2> HIDE DEF wrapped
    <2>3. QED
      BY <2>1, <2>2, PrefixedEvent
  <1>5. ASSUME ArrowUp PROVE FALSE
    <2> DEFINE released == Prefixed(kbd, Arrow, FALSE)
    <2>1. released.event = kbd.event \/ released.event.press = FALSE
      BY PrefixedEvent
    <2>2. \/ kbd' = Prefixed(released, LeftShift, FALSE)
          \/ kbd' = Prefixed(released, LeftShift, TRUE)
          \/ kbd' = released
      BY <1>5 DEF ArrowUp
    <2> HIDE DEF released
    <2>3. kbd'.event = released.event
      BY <1>0, <2>2, PrefixedEvent
    <2>4. QED
      BY <2>1, <2>3
  <1>6. CASE UNCHANGED vars
    BY <1>6 DEF vars
  <1>7. QED
    BY <1>1, <1>2, <1>3, <1>4, <1>5, <1>6 DEF Next

(* The character of a key, class by class.                                 *)
LEMMA CharacterOf ==
    ASSUME NEW key \in Keycodes, NEW shifted \in BOOLEAN, NEW capital \in BOOLEAN
    PROVE  LET typed == keycode_to_ascii(key, shifted, capital)
           IN
           /\ key.class = "letter" => typed = <<"letter", key.n, shifted # capital>>
           /\ key.class = "sign"   => typed = <<"sign", key.n, shifted>>
           /\ key.class = "digit" /\ ~shifted => typed = <<"digit", key.n>>
           /\ key.class = "digit" /\ shifted /\ key.n \in DOMAIN UKSigns =>
                 typed = <<UKSigns[key.n]>>
           /\ key.class = "space"   => typed = <<"space">>
           /\ key.class = "control" => typed = NoChar
  <1> DEFINE typed == keycode_to_ascii(key, shifted, capital)
  <1>1. key.class = "letter" => typed = <<"letter", key.n, shifted # capital>>
    BY DEF keycode_to_ascii, Capital
  <1>2. key.class = "sign" => typed = <<"sign", key.n, shifted>>
    BY DEF keycode_to_ascii
  <1>3. key.class = "digit" /\ ~shifted => typed = <<"digit", key.n>>
    BY DEF keycode_to_ascii
  <1>4. ASSUME key.class = "digit", shifted, key.n \in DOMAIN UKSigns
        PROVE  typed = <<UKSigns[key.n]>>
    <2>1. typed = <<ShiftedDigits[key.n + 1]>>
      BY <1>4 DEF keycode_to_ascii
    <2>2. key.n \in 0..2
      BY <1>4 DEF UKSigns
    <2>3. ShiftedDigits[key.n + 1] = UKSigns[key.n]
      <3>1. UKSigns[key.n] = <<")", "!", "\"">>[key.n + 1]
        BY <2>2 DEF UKSigns
      <3>2. key.n + 1 = 1 \/ key.n + 1 = 2 \/ key.n + 1 = 3
        BY <2>2
      <3>3. /\ ShiftedDigits[1] = ")"
            /\ ShiftedDigits[2] = "!"
            /\ ShiftedDigits[3] = "\""
        BY DEF ShiftedDigits
      <3>4. /\ <<")", "!", "\"">>[1] = ")"
            /\ <<")", "!", "\"">>[2] = "!"
            /\ <<")", "!", "\"">>[3] = "\""
        OBVIOUS
      <3>5. QED
        BY <3>1, <3>2, <3>3, <3>4
    <2>4. QED
      BY <2>1, <2>3
  <1>5. key.class = "space" => typed = <<"space">>
    BY DEF keycode_to_ascii
  <1>6. key.class = "control" => typed = NoChar
    BY DEF keycode_to_ascii
  <1> HIDE DEF typed
  <1>7. QED
    BY <1>1, <1>2, <1>3, <1>4, <1>5, <1>6 DEF typed

(* On a keyboard that does not repeat Caps Lock, whatever its keys: each   *)
(* character that keyboard_handle_scancode hands to the terminal while no  *)
(* overlap of shift codes is pending is the one the keys that are down and *)
(* the strokes of Caps Lock say.                                           *)
THEOREM CharactersAsHeld ==
    ASSUME CapsLock \notin Typematic
    PROVE  Spec => TypedAsHeld
  <1> DEFINE Inv == TypeOK /\ ShiftInv /\ CapsTracksStrokes
             Typed ==
                 kbd'.event # kbd.event /\ kbd'.event.press /\ ~mixed' =>
                   LET key   == kbd'.event.key
                       typed == kbd'.event.ascii
                   IN
                   /\ key.class = "letter" =>
                         typed = <<"letter", key.n, ShiftHeld' # locks'>>
                   /\ key.class = "sign"   => typed = <<"sign", key.n, ShiftHeld'>>
                   /\ key.class = "digit" /\ ~ShiftHeld' =>
                         typed = <<"digit", key.n>>
                   /\ key.class = "digit" /\ ShiftHeld' /\ key.n \in DOMAIN UKSigns =>
                         typed = <<UKSigns[key.n]>>
                   /\ key.class = "space"   => typed = <<"space">>
                   /\ key.class = "control" => typed = NoChar
  <1>1. Init => Inv
    BY InitType, ModifiersAssumption DEF Init, ShiftInv, ShiftRecovers,
       ShiftTracksKeys, ShiftHeld, ShiftKeys, CapsTracksStrokes
  <1>2. Inv /\ [Next]_vars => Inv'
    BY NextType, NextShift, NextCaps
  <1>3. Inv /\ [Next]_vars => Typed
    <2> SUFFICES ASSUME Inv, [Next]_vars,
                        kbd'.event # kbd.event, kbd'.event.press, ~mixed'
                 PROVE  Typed
      OBVIOUS
    <2>1. Sends(kbd')
      BY NextSends
    <2>2. TypeOK' /\ ShiftInv' /\ CapsTracksStrokes'
      BY <1>2
    <2>3. /\ kbd'.shift \in BOOLEAN /\ kbd'.caps \in BOOLEAN
          /\ locks' \in BOOLEAN
      BY <2>2 DEF TypeOK
    <2>4. kbd'.shift <=> ShiftHeld'
      BY <2>2 DEF ShiftInv, ShiftRecovers, ShiftTracksKeys
    <2>5. ShiftHeld' \in BOOLEAN
      BY DEF ShiftHeld
    <2>6. kbd'.shift = ShiftHeld' /\ kbd'.caps = locks'
      BY <2>2, <2>3, <2>4, <2>5 DEF CapsTracksStrokes
    <2>7. kbd'.event.key \in Keycodes
          /\ kbd'.event.ascii = keycode_to_ascii(kbd'.event.key, ShiftHeld', locks')
      BY <2>1, <2>6 DEF Sends
    <2>8. QED
      BY <2>3, <2>5, <2>7, CharacterOf
  <1>4. QED
    BY <1>1, <1>2, <1>3, PTL DEF Spec, TypedAsHeld
=============================================================================
