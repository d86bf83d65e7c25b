--------------------------- MODULE DeliveryProofs ---------------------------
(***************************************************************************)
(* Proofs that no scancode and no tick is lost, counted twice or put out   *)
(* of order, for every boot that finds the statics zero.  They rest on the *)
(* invariant of InterruptsProofs and add what is known of the bytes and    *)
(* the edges under way.                                                    *)
(***************************************************************************)
EXTENDS InterruptsProofs

(* Scancodes.  The bytes the handlers have read, and those fed on.         *)
ReadOut == sent - Len(obf)
Fed == {fed[i] : i \in DOMAIN fed}

(* A handler holds a byte between inb and the end of tty_handle_key.       *)
InHand == stack # <<>> /\ Top.at \in {"lock", "unlock", "tty"}

(* A latched keyboard interrupt, or one on its way to inb, has a byte to   *)
(* read; the byte in hand is the last one read and has not been fed on.    *)
KeyInv ==
    /\ ReadOut \in Nat /\ \A i \in DOMAIN obf : obf[i] = ReadOut + i
    /\ Latched(I8042_KEYBOARD_IRQ) => obf # <<>>
    /\ stack # <<>> /\ Top.irq = I8042_KEYBOARD_IRQ /\ Top.at \in {"irq_handle", "inb"}
          => obf # <<>> /\ ~Latched(I8042_KEYBOARD_IRQ)
    /\ InHand => Top.key = ReadOut /\ ReadOut > 0 /\ ReadOut \notin Fed
    /\ stack # <<>> /\ Top.at = "tty" => Top.key \notin NoneKeys
    /\ Fed \subseteq (1..ReadOut) \ NoneKeys
    /\ \A n \in (1..ReadOut) \ NoneKeys : n \in Fed \/ (InHand /\ n = ReadOut)
    /\ \A i, j \in DOMAIN fed : i < j => fed[i] < fed[j]

(* Ticks.  A handler of the timer has not counted its edge yet.            *)
Counting == stack # <<>> /\ Top.irq = TIMER_IRQ /\ Top.at \in {"irq_handle", "timer"}

(* An edge the PIC holds, or a handler is about to count, keeps the timer  *)
(* from signalling again; nothing is counted before line 0 is requested.   *)
TickInv ==
    /\ mpc \in EarlyStages => req = 1
    /\ req = 1 => tick = 0 /\ (irq_chip_active => ~IrqOn(TIMER_IRQ))
    /\ stack # <<>> /\ Top.irq = TIMER_IRQ => IrqOn(TIMER_IRQ)
    /\ irq_chip_active /\ IrqOn(TIMER_IRQ) /\ Latched(TIMER_IRQ) => TIMER_IRQ \in due
    /\ Counting => TIMER_IRQ \in due
    /\ irq_chip_active /\ IrqOn(TIMER_IRQ) =>
          LET counted == IF Counting THEN Next1(tick) ELSE tick
          IN  edges = IF Latched(TIMER_IRQ) THEN Next1(counted) ELSE counted

-----------------------------------------------------------------------------
(* What the registers of the master say of lines 0 and 1.                  *)
LEMMA MasterLines ==
    /\ TIMER_IRQ \in Lines /\ I8042_KEYBOARD_IRQ \in Lines
    /\ TIMER_IRQ # I8042_KEYBOARD_IRQ
    /\ Latched(TIMER_IRQ) <=> 0 \in pic["PIC1"].irr
    /\ Latched(I8042_KEYBOARD_IRQ) <=> 1 \in pic["PIC1"].irr
    /\ IrqOn(TIMER_IRQ) <=> 0 \notin pic["PIC1"].imr
  BY DEF Latched, IrqOn, PortOf, BitOf, TIMER_IRQ, I8042_KEYBOARD_IRQ, Lines

LEMMA MasterIrr ==
    ASSUME NEW p \in [Chips -> Registers]
    PROVE  /\ i8259A_init(p)["PIC1"].irr = {}
           /\ \A irq \in Lines : i8259A_unmask_irq(p, irq)["PIC1"].irr = p["PIC1"].irr
           /\ \A irq \in Lines : i8259A_send_eoi(p, irq)["PIC1"].irr = p["PIC1"].irr
           /\ \A irq \in Lines : Edge(p, irq)["PIC1"].irr =
                 IF irq < 8 THEN p["PIC1"].irr \cup {irq} ELSE p["PIC1"].irr
           /\ \A irq \in Lines : Acknowledge(p, irq)["PIC1"].irr =
                 p["PIC1"].irr \ {IF irq < 8 THEN irq ELSE CascadeBit}
<1> USE DEF Chips, Registers, PortOf, BitOf, Lines
<1>1. i8259A_init(p)["PIC1"].irr = {}
  BY DEF i8259A_init, i8259A_mask_all, Initialise
<1>2. ASSUME NEW irq \in Lines
      PROVE  i8259A_unmask_irq(p, irq)["PIC1"].irr = p["PIC1"].irr
  BY DEF i8259A_unmask_irq
<1>3. ASSUME NEW irq \in Lines
      PROVE  i8259A_send_eoi(p, irq)["PIC1"].irr = p["PIC1"].irr
  BY DEF i8259A_send_eoi, NonSpecificEoi
<1>4. ASSUME NEW irq \in Lines
      PROVE  Edge(p, irq)["PIC1"].irr =
                 IF irq < 8 THEN p["PIC1"].irr \cup {irq} ELSE p["PIC1"].irr
  BY DEF Edge
<1>5. ASSUME NEW irq \in Lines
      PROVE  Acknowledge(p, irq)["PIC1"].irr =
                 p["PIC1"].irr \ {IF irq < 8 THEN irq ELSE CascadeBit}
  <2>1. \A r \in Registers, b \in 0..7 : TakeIntoService(r, b).irr = r.irr \ {b}
    BY DEF TakeIntoService
  <2>2. p["PIC1"] \in Registers /\ CascadeBit \in 0..7
    BY DEF CascadeBit
  <2>3. Acknowledge(p, irq)["PIC1"] =
            TakeIntoService(p["PIC1"], IF irq < 8 THEN irq ELSE CascadeBit)
    BY DEF Acknowledge
  <2>4. (IF irq < 8 THEN irq ELSE CascadeBit) \in 0..7
    BY <2>2
  <2> HIDE DEF Registers
  <2> QED
    BY <2>1, <2>2, <2>3, <2>4
<1> QED
  BY <1>1, <1>2, <1>3, <1>4, <1>5

(* A line the PIC delivers was latched and is not masked.                  *)
LEMMA DeliveredLatched ==
    ASSUME pic \in [Chips -> Registers], NEW irq \in {0, 1}, Delivers(pic, irq)
    PROVE  irq \in pic["PIC1"].irr \ pic["PIC1"].imr
<1>1. Forwards(MasterInputs(pic), irq)
  BY DEF Delivers
<1>2. /\ MasterInputs(pic).imr = pic["PIC1"].imr
      /\ MasterInputs(pic).irr \subseteq pic["PIC1"].irr \cup {CascadeBit}
  BY DEF MasterInputs, Chips, Registers
<1> QED
  BY <1>1, <1>2 DEF Forwards, CascadeBit

(* The other way round for the timer, when nothing is in service.          *)
LEMMA LatchedDelivered ==
    ASSUME pic \in [Chips -> Registers], pic["PIC1"].isr = {},
           0 \in pic["PIC1"].irr \ pic["PIC1"].imr
    PROVE  INTR(pic)
<1>1. /\ MasterInputs(pic).imr = pic["PIC1"].imr /\ MasterInputs(pic).isr = {}
      /\ 0 \in MasterInputs(pic).irr
      /\ MasterInputs(pic).irr \subseteq 0..7
  BY DEF MasterInputs, Chips, Registers, Bits, CascadeBit
<1>2. Forwards(MasterInputs(pic), 0)
  BY <1>1 DEF Forwards
<1>3. 0 \in Lines /\ 0 # CascadeBit
  BY DEF Lines, CascadeBit
<1> QED
  BY <1>2, <1>3 DEF INTR, Delivers

-----------------------------------------------------------------------------
(* The scancodes.                                                          *)

(* A step that reads no byte and feeds none.                               *)
LEMMA KeyKept ==
    ASSUME KeyInv, UNCHANGED <<sent, obf, fed>>,
           Latched(I8042_KEYBOARD_IRQ)' => Latched(I8042_KEYBOARD_IRQ),
           (/\ stack' # <<>> /\ Top'.irq = I8042_KEYBOARD_IRQ
            /\ Top'.at \in {"irq_handle", "inb"}) =>
               obf # <<>> /\ ~Latched(I8042_KEYBOARD_IRQ)',
           InHand' => InHand /\ Top'.key = Top.key,
           InHand => InHand' \/ Top.key \in NoneKeys,
           stack' # <<>> /\ Top'.at = "tty" => Top'.key \notin NoneKeys
    PROVE  KeyInv'
<1>1. ReadOut' = ReadOut /\ Fed' = Fed
  BY DEF ReadOut, Fed
<1>2. \A n \in (1..ReadOut) \ NoneKeys : n \in Fed \/ (InHand' /\ n = ReadOut)
  BY DEF KeyInv
<1> QED
  BY <1>1, <1>2 DEF KeyInv

LEMMA KeyMain == IInv /\ KeyInv /\ Main => KeyInv'
<1> SUFFICES ASSUME IInv, KeyInv, Main PROVE KeyInv'
  OBVIOUS
<1>1. UNCHANGED <<sent, obf, fed, stack>> /\ stack = <<>>
  BY DEF Main, MainStep, idt_init, irq_arch_init, sti, irq_request_install,
         irq_request_unmask, spinlock_init, hlt, keyVars
<1>2. pic["PIC1"].irr = pic'["PIC1"].irr \/ pic'["PIC1"].irr = {}
  <2>1. pic \in [Chips -> Registers]
    BY DEF IInv, TypeOK
  <2>2. CASE irq_arch_init
    BY <2>1, <2>2, MasterIrr DEF irq_arch_init
  <2>3. CASE irq_request_unmask
    <3>1. Requests[req] \in Lines
      BY <2>3 DEF irq_request_unmask, MainStep, IInv, TableInv
    <3> QED
      BY <2>1, <2>3, <3>1, MasterIrr DEF irq_request_unmask
  <2> QED
    BY <2>2, <2>3 DEF Main, idt_init, sti, irq_request_install, spinlock_init, hlt
<1>3. Latched(I8042_KEYBOARD_IRQ)' <=> 1 \in pic'["PIC1"].irr
  BY DEF Latched, PortOf, BitOf, I8042_KEYBOARD_IRQ
<1>4. Latched(I8042_KEYBOARD_IRQ)' => Latched(I8042_KEYBOARD_IRQ)
  BY <1>2, <1>3, MasterLines
<1>5. ~InHand /\ ~InHand'
  BY <1>1 DEF InHand
<1> QED
  BY <1>1, <1>4, <1>5, KeyKept

LEMMA KeyTake == IInv /\ KeyInv /\ (TakeInterrupt \/ TakeSpurious) => KeyInv'
<1> SUFFICES ASSUME IInv, KeyInv, TakeInterrupt \/ TakeSpurious PROVE KeyInv'
  OBVIOUS
<1>1. UNCHANGED <<sent, obf, fed>>
  BY DEF TakeInterrupt, TakeSpurious, keyVars
<1>2. stack = <<>> /\ pic \in [Chips -> Registers]
  BY TakeContext
<1>3. PICK irq \in Lines, acked \in BOOLEAN :
          /\ pic' = IF acked THEN Acknowledge(pic, irq) ELSE pic
          /\ IF acked THEN Delivers(pic, irq) ELSE irq = 7
          /\ stack' # <<>> /\ Top'.irq = irq /\ Top'.at = "irq_handle"
  BY TakeFrame
<1>4. Latched(I8042_KEYBOARD_IRQ)' <=> 1 \in pic'["PIC1"].irr
  BY DEF Latched, PortOf, BitOf, I8042_KEYBOARD_IRQ
<1>5. Latched(I8042_KEYBOARD_IRQ)' => Latched(I8042_KEYBOARD_IRQ)
  BY <1>2, <1>3, <1>4, MasterIrr, MasterLines
<1>6. irq = I8042_KEYBOARD_IRQ => obf # <<>> /\ ~Latched(I8042_KEYBOARD_IRQ)'
  <2> SUFFICES ASSUME irq = 1 PROVE obf # <<>> /\ ~Latched(I8042_KEYBOARD_IRQ)'
    BY DEF I8042_KEYBOARD_IRQ
  <2>1. acked /\ Delivers(pic, 1) /\ pic' = Acknowledge(pic, irq)
    BY <1>3
  <2>2. 1 \in pic["PIC1"].irr
    BY <1>2, <2>1, DeliveredLatched
  <2>3. 1 \notin pic'["PIC1"].irr
    BY <1>2, <2>1, MasterIrr
  <2> QED
    BY <1>4, <2>2, <2>3, MasterLines DEF KeyInv
<1>7. ~InHand /\ ~InHand'
  BY <1>2, <1>3 DEF InHand
<1> QED
  BY <1>1, <1>3, <1>5, <1>6, <1>7, KeyKept

LEMMA Moved ==
    ASSUME IInv, NEW from, At(from), NEW point, GoTo(point)
    PROVE  /\ stack # <<>> /\ Top.at = from
           /\ stack' # <<>> /\ Top'.at = point
           /\ Top'.irq = Top.irq /\ Top'.key = Top.key
<1>1. stack # <<>> /\ Top.at = from /\ Top \in Frames
  BY HandlerContext
<1>2. stack' # <<>> /\ Top' = [Top EXCEPT !.at = point]
  BY <1>1, OneFrame DEF GoTo, Top, IInv
<1> QED
  BY <1>1, <1>2 DEF Frames

(* A handler that neither reads nor feeds and leaves the latches alone.    *)
LEMMA KeyQuiet ==
    ASSUME IInv, KeyInv, NEW from, At(from), UNCHANGED <<sent, obf, fed>>,
           pic'["PIC1"].irr = pic["PIC1"].irr,
           \/ stack' = stack
           \/ from \notin {"lock", "unlock", "tty"} /\ GoTo("timer")
           \/ from = "irq_handle" /\ GoTo("inb")
           \/ from \notin {"lock", "unlock", "tty"} /\ GoTo("eoi")
           \/ from \notin {"lock", "unlock", "tty"} /\ GoTo("iret")
           \/ from = "lock" /\ GoTo("unlock")
           \/ from = "unlock" /\ Top.key \notin NoneKeys /\ GoTo("tty")
           \/ from = "unlock" /\ Top.key \in NoneKeys /\ GoTo("eoi")
    PROVE  KeyInv'
<1>1. Latched(I8042_KEYBOARD_IRQ)' <=> Latched(I8042_KEYBOARD_IRQ)
  <2>1. Latched(I8042_KEYBOARD_IRQ)' <=> 1 \in pic'["PIC1"].irr
    BY DEF Latched, PortOf, BitOf, I8042_KEYBOARD_IRQ
  <2> QED
    BY <2>1, MasterLines
<1>2. CASE stack' = stack
  BY <1>1, <1>2, KeyKept DEF KeyInv, InHand, Top
<1>3. CASE stack' # stack
  <2>1. PICK point \in {"timer", "inb", "eoi", "iret", "unlock", "tty"} :
            /\ GoTo(point)
            /\ \/ from \notin {"lock", "unlock", "tty"} /\ point \in {"timer", "eoi", "iret"}
               \/ from = "irq_handle" /\ point = "inb"
               \/ from = "lock" /\ point = "unlock"
               \/ from = "unlock" /\ Top.key \notin NoneKeys /\ point = "tty"
               \/ from = "unlock" /\ Top.key \in NoneKeys /\ point = "eoi"
    BY <1>3
  <2>2. /\ stack # <<>> /\ Top.at = from /\ stack' # <<>> /\ Top'.at = point
        /\ Top'.irq = Top.irq /\ Top'.key = Top.key
    BY <2>1, Moved
  <2> QED
    BY <1>1, <2>1, <2>2, KeyKept DEF KeyInv, InHand
<1> QED
  BY <1>2, <1>3

(* The byte at the front is the next one, and comes into the handler's     *)
(* hand; another edge is raised only for a byte that is left.              *)
LEMMA KeyRead == IInv /\ TypeOK' /\ KeyInv /\ i8042_irq_handler => KeyInv'
<1> SUFFICES ASSUME IInv, TypeOK', KeyInv, i8042_irq_handler PROVE KeyInv'
  OBVIOUS
<1>1. At("inb")
  BY DEF i8042_irq_handler
<1>2. /\ stack # <<>> /\ Len(stack) = 1 /\ Top.at = "inb" /\ Top \in Frames
      /\ pic \in [Chips -> Registers] /\ Top.irq = I8042_KEYBOARD_IRQ
  BY <1>1, HandlerContext DEF IInv, StackInv, KeyboardPoints
<1>3. obf # <<>> /\ ~Latched(I8042_KEYBOARD_IRQ) /\ obf \in Seq(1..MaxKeys)
  BY <1>2 DEF KeyInv, IInv, TypeOK
<1>4. /\ Len(obf) \in Nat \ {0} /\ obf' = Tail(obf) /\ Len(obf') = Len(obf) - 1
      /\ Head(obf) = ReadOut + 1
      /\ \A i \in DOMAIN obf' : obf'[i] = obf[i + 1] /\ i + 1 \in DOMAIN obf
      /\ sent' = sent /\ fed' = fed /\ sent \in Nat
  <2>1. Len(obf) \in Nat \ {0} /\ obf' = Tail(obf) /\ sent' = sent /\ fed' = fed
    BY <1>3, EmptySeq DEF i8042_irq_handler
  <2>2. Head(obf) = obf[1] /\ 1 \in DOMAIN obf
    BY <1>3, <2>1, LenProperties
  <2>3. Len(obf') = Len(obf) - 1
        /\ \A i \in 1..Len(obf) - 1 : Tail(obf)[i] = obf[i + 1]
    BY <1>3, <2>1, HeadTailProperties
  <2>4. DOMAIN obf' = 1..Len(obf) - 1 /\ DOMAIN obf = 1..Len(obf)
    BY <1>3, <2>1, <2>3, HeadTailProperties, LenProperties
  <2>5. sent \in Nat
    BY KeysAssumption DEF IInv, TypeOK
  <2> QED
    BY <2>1, <2>2, <2>3, <2>4, <2>5 DEF KeyInv
<1>5. /\ stack' # <<>> /\ Top'.at = "lock" /\ Top'.key = ReadOut + 1
  <2> DEFINE k == IF obf = <<>> THEN 0 ELSE Head(obf)
  <2>1. stack \in [1..1 -> Frames]
    BY <1>2, LenProperties DEF IInv, TypeOK
  <2>2. stack' = [stack EXCEPT ![1] =
                    [[stack[1] EXCEPT !.at = "lock"] EXCEPT !.key = k]]
    BY <2>1 DEF i8042_irq_handler
  <2>3. k = ReadOut + 1
    BY <1>3, <1>4
  <2> HIDE DEF k
  <2>4. stack'[1] = [[stack[1] EXCEPT !.at = "lock"] EXCEPT !.key = k]
    BY <2>1, <2>2
  <2>5. stack' # <<>>
    BY <2>1, <2>2
  <2> QED
    BY <1>2, <2>3, <2>4, <2>5 DEF Top, Frames
<1>6. ReadOut' = ReadOut + 1 /\ Fed' = Fed
  BY <1>3, <1>4 DEF ReadOut, Fed
<1>7. Latched(I8042_KEYBOARD_IRQ)' => obf' # <<>>
  <2>1. CASE Len(obf) > 1
    BY <1>4, <2>1
  <2>2. CASE ~(Len(obf) > 1)
    <3>1. pic' = pic
      BY <2>2 DEF i8042_irq_handler
    <3> QED
      BY <1>3, <3>1 DEF Latched
  <2> QED
    BY <2>1, <2>2
<1>8. InHand' /\ ~InHand
  BY <1>2, <1>5 DEF InHand
<1>9. \A i \in DOMAIN obf' : obf'[i] = ReadOut' + i
  BY <1>4, <1>6 DEF KeyInv
<1>10. ReadOut \in Nat
  BY DEF KeyInv
<1>11. ReadOut + 1 \notin Fed /\ Fed \subseteq (1..ReadOut + 1) \ NoneKeys
  BY <1>10 DEF KeyInv
<1>12. \A n \in (1..ReadOut + 1) \ NoneKeys : n \in Fed \/ n = ReadOut + 1
  BY <1>8, <1>10 DEF KeyInv
<1> QED
  BY <1>4, <1>5, <1>6, <1>7, <1>8, <1>9, <1>10, <1>11, <1>12 DEF KeyInv

(* The byte fed on is later than all before it.                            *)
LEMMA KeyFeed == IInv /\ KeyInv /\ tty_handle_key => KeyInv'
<1> SUFFICES ASSUME IInv, KeyInv, tty_handle_key PROVE KeyInv'
  OBVIOUS
<1>1. /\ At("tty") /\ GoTo("eoi") /\ UNCHANGED <<sent, obf, pic>>
      /\ fed' = Append(fed, Top.key)
  BY DEF tty_handle_key
<1>2. /\ stack # <<>> /\ Top.at = "tty" /\ stack' # <<>> /\ Top'.at = "eoi"
  BY <1>1, Moved
<1>3. Top.key = ReadOut /\ ReadOut > 0 /\ ReadOut \in Nat /\ ReadOut \notin NoneKeys
  BY <1>2 DEF KeyInv, InHand
<1>4. /\ fed' = Append(fed, ReadOut) /\ fed \in Seq(0..MaxKeys) /\ Len(fed) \in Nat
      /\ DOMAIN fed = 1..Len(fed)
  BY <1>1, <1>3, LenProperties DEF IInv, TypeOK
<1>5. /\ DOMAIN fed' = 1..Len(fed) + 1 /\ fed'[Len(fed) + 1] = ReadOut
      /\ \A i \in 1..Len(fed) : fed'[i] = fed[i]
  <2> DEFINE n == ReadOut
  <2>1. fed \in Seq(Nat) /\ n \in Nat
    BY <1>3, <1>4, KeysAssumption
  <2> HIDE DEF n
  <2>2. /\ Append(fed, n) \in Seq(Nat) /\ Len(Append(fed, n)) = Len(fed) + 1
        /\ \A i \in 1..Len(fed) : Append(fed, n)[i] = fed[i]
        /\ Append(fed, n)[Len(fed) + 1] = n
    BY <2>1, AppendProperties
  <2>3. DOMAIN Append(fed, n) = 1..Len(fed) + 1
    BY <2>2, LenProperties
  <2> QED
    BY <1>4, <2>2, <2>3 DEF n
<1>6. Fed' = Fed \cup {ReadOut} /\ ReadOut' = ReadOut
  BY <1>1, <1>4, <1>5 DEF Fed, ReadOut
<1>7. \A i \in DOMAIN fed : fed[i] < ReadOut
  <2> SUFFICES ASSUME NEW i \in DOMAIN fed PROVE fed[i] < ReadOut
    OBVIOUS
  <2>1. fed[i] \in Fed /\ ReadOut \notin Fed /\ Fed \subseteq 1..ReadOut
    BY <1>2 DEF Fed, KeyInv, InHand
  <2>2. fed[i] \in 1..ReadOut /\ fed[i] # ReadOut
    BY <2>1
  <2> HIDE DEF ReadOut
  <2> QED
    BY <1>3, <2>2
<1>8. \A i, j \in DOMAIN fed' : i < j => fed'[i] < fed'[j]
  BY <1>4, <1>5, <1>7 DEF KeyInv
<1>9. ~InHand'
  BY <1>2 DEF InHand
<1>10. Latched(I8042_KEYBOARD_IRQ)' <=> Latched(I8042_KEYBOARD_IRQ)
  BY <1>1 DEF Latched
<1>11. \A n \in (1..ReadOut) \ NoneKeys : n \in Fed \cup {ReadOut}
  BY DEF KeyInv
<1>12. /\ (ReadOut \in Nat /\ \A i \in DOMAIN obf : obf[i] = ReadOut + i)'
       /\ (Latched(I8042_KEYBOARD_IRQ) => obf # <<>>)'
  BY <1>1, <1>6, <1>10 DEF KeyInv
<1>13. /\ Fed' \subseteq (1..ReadOut') \ NoneKeys
       /\ \A n \in (1..ReadOut') \ NoneKeys : n \in Fed'
  <2>1. Fed \subseteq (1..ReadOut) \ NoneKeys /\ ReadOut \in 1..ReadOut
    BY <1>3 DEF KeyInv
  <2> HIDE DEF ReadOut, Fed
  <2> QED
    BY <2>1, <1>3, <1>6, <1>11
<1>14. Top'.at \notin {"irq_handle", "inb", "tty"}
  BY <1>2
<1> QED
  BY <1>8, <1>9, <1>12, <1>13, <1>14 DEF KeyInv

LEMMA KeyHandler == IInv /\ TypeOK' /\ KeyInv /\ Handler => KeyInv'
<1> SUFFICES ASSUME IInv, TypeOK', KeyInv, Handler PROVE KeyInv'
  OBVIOUS
<1> USE DEF keyVars
<1>1. CASE irq_handle
  <2>1. At("irq_handle") /\ UNCHANGED <<sent, obf, fed, pic>>
    BY <1>1 DEF irq_handle
  <2>2. stack' = stack \/ GoTo("timer") \/ GoTo("inb") \/ GoTo("eoi")
    BY <1>1 DEF irq_handle
  <2> QED
    BY <2>1, <2>2, KeyQuiet
<1>2. CASE timer_handle_tick
  <2>1. At("timer") /\ UNCHANGED <<sent, obf, fed, pic>> /\ GoTo("eoi")
    BY <1>2 DEF timer_handle_tick
  <2> QED
    BY <2>1, KeyQuiet
<1>3. CASE i8042_irq_handler
  BY <1>3, KeyRead
<1>4. CASE spin_lock
  <2>1. At("lock") /\ UNCHANGED <<sent, obf, fed, pic>>
        /\ (stack' = stack \/ GoTo("unlock"))
    BY <1>4 DEF spin_lock
  <2> QED
    BY <2>1, KeyQuiet
<1>5. CASE spin_unlock
  <2>1. At("unlock") /\ UNCHANGED <<sent, obf, fed, pic>>
    BY <1>5 DEF spin_unlock
  <2>2. \/ stack' = stack
        \/ Top.key \notin NoneKeys /\ GoTo("tty")
        \/ Top.key \in NoneKeys /\ GoTo("eoi")
    BY <1>5 DEF spin_unlock, Translates
  <2> QED
    BY <2>1, <2>2, KeyQuiet
<1>6. CASE tty_handle_key
  BY <1>6, KeyFeed
<1>7. CASE irq_eoi
  <2>1. At("eoi") /\ UNCHANGED <<sent, obf, fed>> /\ GoTo("iret")
    BY <1>7 DEF irq_eoi
  <2>2. pic \in [Chips -> Registers] /\ Top.irq \in Lines
    BY <2>1, HandlerContext
  <2>3. pic'["PIC1"].irr = pic["PIC1"].irr
    BY <1>7, <2>2, MasterIrr DEF irq_eoi
  <2> QED
    BY <2>1, <2>3, KeyQuiet
<1>8. CASE iretq
  <2>1. At("iret") /\ UNCHANGED <<sent, obf, fed, pic>> /\ stack' = Tail(stack)
    BY <1>8 DEF iretq
  <2>2. stack' = <<>> /\ Top.at = "iret"
    BY <2>1, HandlerContext
  <2>3. ~InHand /\ ~InHand'
    BY <2>2 DEF InHand
  <2> QED
    BY <2>1, <2>2, <2>3, KeyKept DEF Latched
<1> QED
  BY <1>1, <1>2, <1>3, <1>4, <1>5, <1>6, <1>7, <1>8 DEF Handler

LEMMA KeyDevices == IInv /\ KeyInv /\ Devices => KeyInv'
<1> SUFFICES ASSUME IInv, KeyInv, Devices PROVE KeyInv'
  OBVIOUS
<1> USE DEF keyVars
<1>0. pic \in [Chips -> Registers] /\ stack' = stack
  BY DEF IInv, TypeOK, Devices, TimerEdge, KeyEdge, OtherEdge
<1>1. Latched(I8042_KEYBOARD_IRQ)' <=> 1 \in pic'["PIC1"].irr
  BY DEF Latched, PortOf, BitOf, I8042_KEYBOARD_IRQ
<1>2. InHand' <=> InHand
  BY <1>0 DEF InHand, Top
<1>3. CASE TimerEdge \/ \E irq \in OtherDevices : OtherEdge(irq)
  <2>1. PICK irq \in Lines \ {1} : pic' = Edge(pic, irq)
    BY <1>3, DevicesAssumption DEF TimerEdge, OtherEdge, TIMER_IRQ, Lines
  <2>2. UNCHANGED <<sent, obf, fed>>
    BY <1>3 DEF TimerEdge, OtherEdge
  <2>3. Latched(I8042_KEYBOARD_IRQ)' <=> Latched(I8042_KEYBOARD_IRQ)
    <3>1. pic'["PIC1"].irr = IF irq < 8 THEN pic["PIC1"].irr \cup {irq}
                             ELSE pic["PIC1"].irr
      BY <1>0, <2>1, MasterIrr
    <3>2. 1 \in pic'["PIC1"].irr <=> 1 \in pic["PIC1"].irr
      BY <2>1, <3>1
    <3> QED
      BY <1>1, <3>2, MasterLines
  <2> QED
    BY <1>0, <1>2, <2>2, <2>3, KeyKept DEF KeyInv, Top
<1>4. CASE KeyEdge
  <2>1. /\ sent' = sent + 1 /\ obf' = Append(obf, sent + 1) /\ fed' = fed
        /\ pic' = IF obf = <<>> THEN Edge(pic, I8042_KEYBOARD_IRQ) ELSE pic
    BY <1>4 DEF KeyEdge
  <2>2. sent \in Nat /\ obf \in Seq(Nat)
    BY KeysAssumption DEF IInv, TypeOK
  <2>3. /\ Len(obf') = Len(obf) + 1 /\ obf' # <<>> /\ Len(obf) \in Nat
        /\ DOMAIN obf' = 1..Len(obf) + 1 /\ DOMAIN obf = 1..Len(obf)
        /\ obf'[Len(obf) + 1] = sent + 1 /\ \A i \in DOMAIN obf : obf'[i] = obf[i]
    <3> DEFINE n == sent + 1
    <3>1. n \in Nat
      BY <2>2
    <3> HIDE DEF n
    <3>2. /\ Append(obf, n) \in Seq(Nat) /\ Len(Append(obf, n)) = Len(obf) + 1
          /\ \A i \in 1..Len(obf) : Append(obf, n)[i] = obf[i]
          /\ Append(obf, n)[Len(obf) + 1] = n /\ Append(obf, n) # <<>>
      BY <2>2, <3>1, AppendProperties
    <3>3. /\ DOMAIN Append(obf, n) = 1..Len(obf) + 1 /\ Len(obf) \in Nat
          /\ DOMAIN obf = 1..Len(obf)
      BY <2>2, <3>2, LenProperties
    <3> QED
      BY <2>1, <3>2, <3>3 DEF n
  <2>4. ReadOut' = ReadOut /\ Fed' = Fed
    BY <2>1, <2>2, <2>3 DEF ReadOut, Fed
  <2>5. \A i \in DOMAIN obf' : obf'[i] = ReadOut + i
    <3>1. sent + 1 = ReadOut + (Len(obf) + 1)
      BY <2>2, <2>3 DEF ReadOut
    <3> QED
      BY <2>3, <3>1 DEF KeyInv
  <2>6. obf # <<>> => (Latched(I8042_KEYBOARD_IRQ)' <=> Latched(I8042_KEYBOARD_IRQ))
    BY <2>1 DEF Latched
  <2> QED
    BY <1>0, <1>2, <2>1, <2>3, <2>4, <2>5, <2>6 DEF KeyInv, Top
<1> QED
  BY <1>3, <1>4 DEF Devices

(* Every scancode with a key event that a handler has read, and no longer  *)
(* holds, reached the terminal once and in the order of the keys, however  *)
(* ticks, spurious interrupts and further keys fall between                *)
(* (i8042_irq_handler, keyboard_handle_scancode, irq_handle).              *)
THEOREM KeysStayInOrder ==
    ASSUME BssZeroed = TRUE
    PROVE  Spec => []KeysInOrder
<1>1. Init /\ IInv => KeyInv
  <2> SUFFICES ASSUME Init PROVE KeyInv
    OBVIOUS
  <2>1. /\ stack = <<>> /\ obf = <<>> /\ fed = <<>> /\ sent = 0
        /\ pic["PIC1"].irr = {}
    BY DEF Init, Chips
  <2>2. ReadOut = 0 /\ Fed = {} /\ DOMAIN fed = {} /\ DOMAIN obf = {}
    <3>1. Len(obf) = 0 /\ DOMAIN obf = {} /\ DOMAIN fed = {}
      BY <2>1
    <3>2. ReadOut = 0
      <4>1. sent = 0 /\ Len(obf) = 0
        BY <2>1, <3>1
      <4> QED
        BY <4>1 DEF ReadOut
    <3>3. Fed = {}
      BY <3>1 DEF Fed
    <3> QED
      BY <3>1, <3>2, <3>3
  <2> QED
    BY <2>1, <2>2, MasterLines DEF KeyInv, InHand
<1>2. IInv /\ TypeOK' /\ KeyInv /\ [Next]_vars => KeyInv'
  <2>1. CASE UNCHANGED vars
    BY <2>1 DEF vars, KeyInv, ReadOut, Fed, InHand, Top, Latched
  <2> QED
    BY <2>1, KeyMain, KeyTake, KeyHandler, KeyDevices DEF Next, Cpu
<1>3. IInv /\ KeyInv => KeysInOrder
  <2> SUFFICES ASSUME IInv, KeyInv PROVE KeysInOrder
    OBVIOUS
  <2>1. InHand => Top \in InFlight /\ Top.key = ReadOut
    <3> SUFFICES ASSUME InHand PROVE Top \in InFlight /\ Top.key = ReadOut
      OBVIOUS
    <3>1. stack # <<>> /\ stack \in Seq(Frames)
      BY DEF InHand, IInv, TypeOK
    <3>2. 1 \in DOMAIN stack
      BY <3>1, EmptySeq, LenProperties
    <3> QED
      BY <3>2 DEF InFlight, Top, KeyInv
  <2>2. Settled \ NoneKeys \subseteq Fed
    BY <2>1 DEF Settled, KeyInv, ReadOut
  <2> QED
    BY <2>2 DEF KeysInOrder, KeyInv, Fed, ReadOut
<1> QED
  BY <1>1, <1>2, <1>3, Invariance, TypeCorrect, PTL DEF Spec

-----------------------------------------------------------------------------
(* The ticks.                                                              *)

LEMMA MasterImr ==
    ASSUME NEW p \in [Chips -> Registers]
    PROVE  /\ i8259A_init(p)["PIC1"].imr = 0..7
           /\ \A irq \in Lines : i8259A_unmask_irq(p, irq)["PIC1"].imr =
                 IF irq < 8 THEN p["PIC1"].imr \ {irq} ELSE p["PIC1"].imr
           /\ \A irq \in Lines : i8259A_send_eoi(p, irq)["PIC1"].imr = p["PIC1"].imr
           /\ \A irq \in Lines : Edge(p, irq)["PIC1"].imr = p["PIC1"].imr
           /\ \A irq \in Lines : Acknowledge(p, irq)["PIC1"].imr = p["PIC1"].imr
<1> USE DEF Chips, Registers, PortOf, BitOf, Lines
<1>1. i8259A_init(p)["PIC1"].imr = 0..7
  BY DEF i8259A_init, i8259A_mask_all, Initialise, Bits
<1>2. ASSUME NEW irq \in Lines
      PROVE  i8259A_unmask_irq(p, irq)["PIC1"].imr =
                 IF irq < 8 THEN p["PIC1"].imr \ {irq} ELSE p["PIC1"].imr
  BY DEF i8259A_unmask_irq
<1>3. ASSUME NEW irq \in Lines
      PROVE  i8259A_send_eoi(p, irq)["PIC1"].imr = p["PIC1"].imr
  BY DEF i8259A_send_eoi, NonSpecificEoi
<1>4. ASSUME NEW irq \in Lines
      PROVE  Edge(p, irq)["PIC1"].imr = p["PIC1"].imr
  BY DEF Edge
<1>5. ASSUME NEW irq \in Lines
      PROVE  Acknowledge(p, irq)["PIC1"].imr = p["PIC1"].imr
  <2>1. \A r \in Registers, b \in 0..7 : TakeIntoService(r, b).imr = r.imr
    BY DEF TakeIntoService
  <2>2. p["PIC1"] \in Registers /\ CascadeBit \in 0..7
    BY DEF CascadeBit
  <2>3. Acknowledge(p, irq)["PIC1"] =
            TakeIntoService(p["PIC1"], IF irq < 8 THEN irq ELSE CascadeBit)
    BY DEF Acknowledge
  <2>4. (IF irq < 8 THEN irq ELSE CascadeBit) \in 0..7
    BY <2>2
  <2> HIDE DEF Registers
  <2> QED
    BY <2>1, <2>2, <2>3, <2>4
<1> QED
  BY <1>1, <1>2, <1>3, <1>4, <1>5

LEMMA EdgeMaster ==
    ASSUME NEW p \in [Chips -> Registers], NEW irq \in Lines
    PROVE  /\ Edge(p, irq)["PIC1"].irr = IF irq < 8 THEN p["PIC1"].irr \cup {irq}
                                         ELSE p["PIC1"].irr
           /\ Edge(p, irq)["PIC1"].imr = p["PIC1"].imr
  BY MasterIrr, MasterImr

LEMMA EdgeLow ==
    ASSUME NEW p \in [Chips -> Registers], NEW irq \in {0, 1}
    PROVE  /\ Edge(p, irq)["PIC1"].irr = p["PIC1"].irr \cup {irq}
           /\ Edge(p, irq)["PIC1"].imr = p["PIC1"].imr
<1>1. irq \in Lines /\ irq < 8
  BY DEF Lines
<1> QED
  BY <1>1, EdgeMaster

LEMMA NextLines ==
    /\ Latched(TIMER_IRQ)' <=> 0 \in pic'["PIC1"].irr
    /\ IrqOn(TIMER_IRQ)' <=> 0 \notin pic'["PIC1"].imr
  BY DEF Latched, IrqOn, PortOf, BitOf, TIMER_IRQ

(* A step that touches neither the timer's line nor a handler of it.       *)
LEMMA TickKept ==
    ASSUME TickInv, UNCHANGED <<tick, edges, irq_chip_active, req, mpc>>,
           due \subseteq due',
           0 \in pic'["PIC1"].irr <=> 0 \in pic["PIC1"].irr,
           0 \in pic'["PIC1"].imr <=> 0 \in pic["PIC1"].imr,
           stack' # <<>> /\ Top'.irq = TIMER_IRQ => stack # <<>> /\ Top.irq = TIMER_IRQ,
           Counting' <=> Counting
    PROVE  TickInv'
  BY MasterLines, NextLines DEF TickInv

(* When kmain executes with interrupts on, the PIC holds no edge of the    *)
(* timer back.                                                             *)
LEMMA NoneLatched ==
    ASSUME IInv, TickInv, NEW from, MainStep(from),
           irq_chip_active, IrqOn(TIMER_IRQ)
    PROVE  ~Latched(TIMER_IRQ)
<1>1. stack = <<>> /\ ~(iflag /\ INTR(pic)) /\ pic \in [Chips -> Registers]
  BY DEF MainStep, Executes, IInv, TypeOK
<1>2. mpc \notin EarlyStages
  BY DEF TickInv
<1>3. iflag
  BY <1>1, <1>2 DEF IInv, BootInv
<1>4. pic["PIC1"].isr = {}
  BY <1>1 DEF IInv, ServiceInv, Owed, Chips
<1> QED
  BY <1>1, <1>3, <1>4, LatchedDelivered, MasterLines

(* A step of kmain that leaves the timer's mask alone.                     *)
LEMMA TickIdle ==
    ASSUME IInv, TickInv, NEW from, MainStep(from),
           UNCHANGED <<stack, tick, edges, irq_chip_active>>,
           pic'["PIC1"].irr = pic["PIC1"].irr,
           0 \in pic'["PIC1"].imr <=> 0 \in pic["PIC1"].imr,
           mpc' \in EarlyStages => req' = 1,
           req' = 1 => req = 1
    PROVE  TickInv'
<1>1. /\ IrqOn(TIMER_IRQ)' <=> IrqOn(TIMER_IRQ)
      /\ Latched(TIMER_IRQ)' <=> Latched(TIMER_IRQ)
  BY MasterLines, NextLines
<1>2. ~Counting /\ ~Counting' /\ stack' = <<>>
  BY DEF MainStep, Counting
<1>3. irq_chip_active /\ IrqOn(TIMER_IRQ) => ~Latched(TIMER_IRQ)
  BY NoneLatched
<1> QED
  BY <1>1, <1>2, <1>3 DEF TickInv

(* Every other line is requested with another number.                      *)
TimerRequestedOnce == \A i \in DOMAIN OtherRequests : OtherRequests[i] # TIMER_IRQ

LEMMA OneRequest ==
    ASSUME TimerRequestedOnce
    PROVE  /\ Requests[1] = 0 /\ Len(Requests) > 1
           /\ \A i \in 1..Len(Requests) : i # 1 => Requests[i] # 0
<1>1. OtherRequests \in Seq(Int) /\ Requests = <<0, 1>> \o OtherRequests
  BY RequestsAssumption DEF Requests, TIMER_IRQ, I8042_KEYBOARD_IRQ
<1>2. /\ <<0, 1>> \in Seq(Int) /\ Len(<<0, 1>>) = 2
      /\ <<0, 1>>[1] = 0 /\ <<0, 1>>[2] = 1
  OBVIOUS
<1>3. /\ Len(Requests) = 2 + Len(OtherRequests)
      /\ \A i \in 1..Len(Requests) :
            Requests[i] = IF i =< 2 THEN <<0, 1>>[i] ELSE OtherRequests[i - 2]
  BY <1>1, <1>2, ConcatProperties
<1>4. Len(OtherRequests) \in Nat /\ DOMAIN OtherRequests = 1..Len(OtherRequests)
  BY <1>1, LenProperties
<1>5. Requests[1] = 0 /\ Len(Requests) > 1
  BY <1>2, <1>3, <1>4
<1>6. ASSUME NEW i \in 1..Len(Requests), i # 1
      PROVE  Requests[i] # 0
  <2>1. CASE i = 2
    BY <1>2, <1>3, <2>1
  <2>2. CASE i # 2
    <3>1. i - 2 \in DOMAIN OtherRequests /\ ~(i =< 2)
      BY <1>3, <1>4, <1>6, <2>2
    <3> QED
      BY <1>3, <3>1 DEF TimerRequestedOnce, TIMER_IRQ
  <2> QED
    BY <2>1, <2>2
<1> QED
  BY <1>5, <1>6

LEMMA TickMain ==
    ASSUME TimerRequestedOnce, IInv, TickInv, Main
    PROVE  TickInv'
<1> USE DEF lockVars, keyVars, timeVars
<1>0. /\ pic \in [Chips -> Registers] /\ req \in 1..Len(Requests)
      /\ Len(Requests) \in Nat
  BY RequestsType DEF IInv, TypeOK
<1>1. CASE idt_init
  BY <1>1, TickIdle DEF idt_init, EarlyStages, TickInv, MainStep
<1>2. CASE irq_arch_init
  <2>1. /\ MainStep("irq_arch_init") /\ UNCHANGED <<stack, tick, req>>
        /\ pic' = i8259A_init(pic)
    BY <1>2 DEF irq_arch_init
  <2>2. 0 \in pic'["PIC1"].imr
    BY <1>0, <2>1, MasterImr
  <2>3. ~IrqOn(TIMER_IRQ)' /\ stack' = <<>> /\ ~Counting'
    BY <2>1, <2>2, NextLines DEF MainStep, Counting
  <2>4. req = 1 /\ tick = 0
    BY <2>1 DEF MainStep, TickInv, EarlyStages
  <2> QED
    BY <2>1, <2>3, <2>4 DEF TickInv
<1>3. CASE sti
  BY <1>3, TickIdle DEF sti, EarlyStages
<1>4. CASE irq_request_install
  <2>1. /\ MainStep("install")
        /\ UNCHANGED <<stack, tick, edges, irq_chip_active, pic>>
    BY <1>4 DEF irq_request_install
  <2>2. mpc' \in {"unmask", "install", "hlt"} /\ (req' = req \/ req' = req + 1)
    BY <1>4 DEF irq_request_install, RequestDone
  <2>3. req' = 1 => req = 1
    BY <1>0, <2>2
  <2>4. mpc' \notin EarlyStages
    BY <2>2 DEF EarlyStages
  <2> QED
    BY <2>1, <2>3, <2>4, TickIdle
<1>5. CASE irq_request_unmask
  <2>1. /\ MainStep("unmask")
        /\ UNCHANGED <<stack, tick, irq_chip_active>>
        /\ pic' = i8259A_unmask_irq(pic, Requests[req])
        /\ edges' = IF Requests[req] # 0 THEN edges
                    ELSE IF Latched(Requests[req]) THEN 1 ELSE 0
        /\ due' = IF Latched(Requests[req]) THEN {Requests[req]} ELSE {}
        /\ IF Requests[req] = 1
           THEN mpc' = "spinlock_init" /\ UNCHANGED req
           ELSE RequestDone
    BY <1>5 DEF irq_request_unmask, TIMER_IRQ, I8042_KEYBOARD_IRQ
  <2>2. /\ mpc' \in {"spinlock_init", "install", "hlt"}
        /\ req' = req \/ req' = req + 1
    BY <2>1 DEF RequestDone
  <2>3. Requests[req] \in Lines
    BY <2>1 DEF MainStep, IInv, TableInv
  <2>4. pic'["PIC1"].irr = pic["PIC1"].irr
    BY <1>0, <2>1, <2>3, MasterIrr
  <2>5. pic'["PIC1"].imr = IF Requests[req] < 8
                           THEN pic["PIC1"].imr \ {Requests[req]} ELSE pic["PIC1"].imr
    BY <1>0, <2>1, <2>3, MasterImr
  <2>6. mpc' \notin EarlyStages
    BY <2>2 DEF EarlyStages
  <2>7. CASE req = 1
    <3>1. Requests[req] = 0 /\ req' = 2
      BY <2>1, <2>7, OneRequest DEF RequestDone
    <3>2. Latched(TIMER_IRQ)' <=> Latched(TIMER_IRQ)
      BY <2>4, MasterLines, NextLines
    <3>3. tick' = 0 /\ stack' = <<>> /\ ~Counting'
      BY <2>1, <2>7 DEF TickInv, MainStep, Counting
    <3>4. edges' = (IF Latched(TIMER_IRQ) THEN 1 ELSE 0)
          /\ (Latched(TIMER_IRQ) => TIMER_IRQ \in due')
      BY <2>1, <3>1 DEF TIMER_IRQ
    <3>5. Next1(0) = 1
      BY TickAssumption DEF Next1
    <3> QED
      BY <2>6, <3>1, <3>2, <3>3, <3>4, <3>5 DEF TickInv
  <2>8. CASE req # 1
    <3>1. Requests[req] # 0
      BY <1>0, <2>8, OneRequest
    <3>2. edges' = edges /\ (0 \in pic'["PIC1"].imr <=> 0 \in pic["PIC1"].imr)
      BY <2>1, <2>5, <3>1
    <3>3. req' # 1
      BY <1>0, <2>2, <2>8
    <3> QED
      BY <2>1, <2>4, <2>6, <3>2, <3>3, TickIdle
  <2> QED
    BY <2>7, <2>8
<1>6. CASE spinlock_init
  <2>1. /\ MainStep("spinlock_init")
        /\ UNCHANGED <<stack, tick, edges, irq_chip_active, pic>>
    BY <1>6 DEF spinlock_init
  <2>2. mpc' \in {"install", "hlt"} /\ (req' = req \/ req' = req + 1)
    BY <1>6 DEF spinlock_init, RequestDone
  <2>3. (req' = 1 => req = 1) /\ mpc' \notin EarlyStages
    BY <1>0, <2>2 DEF EarlyStages
  <2> QED
    BY <2>1, <2>3, TickIdle
<1>7. CASE hlt
  BY <1>7, TickIdle DEF hlt, MainStep, EarlyStages
<1> QED
  BY <1>1, <1>2, <1>3, <1>4, <1>5, <1>6, <1>7 DEF Main

(* The acknowledge cycle hands the latched edge over to the handler.       *)
LEMMA TickTake == IInv /\ TickInv /\ (TakeInterrupt \/ TakeSpurious) => TickInv'
<1> SUFFICES ASSUME IInv, TickInv, TakeInterrupt \/ TakeSpurious PROVE TickInv'
  OBVIOUS
<1>1. UNCHANGED <<tick, edges, irq_chip_active, req, mpc>> /\ due \subseteq due'
  BY DEF TakeInterrupt, TakeSpurious, mainVars, timeVars
<1>2. stack = <<>> /\ pic \in [Chips -> Registers] /\ mpc \notin EarlyStages
  BY TakeContext
<1>3. PICK irq \in Lines, acked \in BOOLEAN :
          /\ pic' = IF acked THEN Acknowledge(pic, irq) ELSE pic
          /\ IF acked THEN Delivers(pic, irq) ELSE irq = 7
          /\ stack' # <<>> /\ Top'.irq = irq /\ Top'.at = "irq_handle"
  BY TakeFrame
<1>4. ~Counting /\ (Counting' <=> irq = 0)
  BY <1>2, <1>3 DEF Counting, TIMER_IRQ
<1>5. pic'["PIC1"].imr = pic["PIC1"].imr
  BY <1>2, <1>3, MasterImr
<1>6. CASE irq = 0
  <2>1. acked /\ Delivers(pic, 0) /\ pic' = Acknowledge(pic, irq)
    BY <1>3, <1>6
  <2>2. 0 \in pic["PIC1"].irr \ pic["PIC1"].imr
    BY <1>2, <2>1, DeliveredLatched
  <2>3. 0 \notin pic'["PIC1"].irr
    BY <1>2, <1>6, <2>1, MasterIrr
  <2>4. /\ IrqOn(TIMER_IRQ) /\ Latched(TIMER_IRQ)
        /\ IrqOn(TIMER_IRQ)' /\ ~Latched(TIMER_IRQ)'
    BY <1>5, <2>2, <2>3, MasterLines, NextLines
  <2>5. irq_chip_active
    BY <1>2 DEF IInv, BootInv, EarlyStages
  <2>6. TIMER_IRQ \in due /\ edges = Next1(tick)
    BY <1>4, <2>4, <2>5 DEF TickInv
  <2> QED
    BY <1>1, <1>4, <1>6, <2>4, <2>5, <2>6 DEF TickInv
<1>7. CASE irq # 0
  <2>1. 0 \in pic'["PIC1"].irr <=> 0 \in pic["PIC1"].irr
    <3>1. CASE acked
      <4>1. pic'["PIC1"].irr =
                pic["PIC1"].irr \ {IF irq < 8 THEN irq ELSE CascadeBit}
        BY <1>2, <1>3, <3>1, MasterIrr
      <4> QED
        BY <1>7, <4>1 DEF CascadeBit
    <3>2. CASE ~acked
      BY <1>3, <3>2
    <3> QED
      BY <3>1, <3>2
  <2> QED
    BY <1>1, <1>3, <1>4, <1>5, <1>7, <2>1, TickKept DEF TIMER_IRQ
<1> QED
  BY <1>6, <1>7

(* A handler that counts nothing and stays on its side of the count.       *)
LEMMA TickQuiet ==
    ASSUME IInv, TickInv, NEW from, At(from),
           UNCHANGED <<tick, edges, irq_chip_active, req, mpc>>,
           due \subseteq due',
           pic'["PIC1"].imr = pic["PIC1"].imr,
           0 \in pic'["PIC1"].irr <=> 0 \in pic["PIC1"].irr,
           \/ stack' = stack
           \/ /\ stack' # <<>> /\ Top'.irq = Top.irq
              /\ Top.irq = TIMER_IRQ =>
                    (from \in {"irq_handle", "timer"} <=>
                        Top'.at \in {"irq_handle", "timer"})
    PROVE  TickInv'
<1>1. stack # <<>> /\ Top.at = from
  BY HandlerContext
<1>2. CASE stack' = stack
  BY <1>1, <1>2, TickKept DEF Counting, Top
<1>3. CASE stack' # stack
  BY <1>1, <1>3, TickKept DEF Counting
<1> QED
  BY <1>2, <1>3

LEMMA TickHandler == IInv /\ TickInv /\ Handler => TickInv'
<1> SUFFICES ASSUME IInv, TickInv, Handler PROVE TickInv'
  OBVIOUS
<1> USE DEF mainVars, keyVars, timeVars
<1>1. CASE irq_handle
  <2>1. /\ At("irq_handle") /\ UNCHANGED <<irq_table, pic, due>>
        /\ UNCHANGED <<tick, edges, irq_chip_active, req, mpc>>
    BY <1>1 DEF irq_handle
  <2>2. /\ stack # <<>> /\ Top.irq \in Lines /\ mpc \notin EarlyStages
    BY <2>1, HandlerContext
  <2>3. Top.irq = TIMER_IRQ => irq_table[Top.irq] = "i8253_irq_handle"
    <3>1. Top.irq = TIMER_IRQ => IrqOn(TIMER_IRQ)
      BY <2>2 DEF TickInv
    <3>2. TIMER_IRQ \in Lines /\ HandlerOf(TIMER_IRQ) = "i8253_irq_handle"
      BY MasterLines DEF HandlerOf
    <3>3. IrqOn(TIMER_IRQ) => irq_table[TIMER_IRQ] = HandlerOf(TIMER_IRQ)
      BY <2>2, <3>2 DEF IInv, TableInv, EarlyStages
    <3> QED
      BY <3>1, <3>2, <3>3
  <2>4. \/ stack' = stack
        \/ \E point \in {"timer", "inb", "eoi"} :
              GoTo(point) /\ (Top.irq = TIMER_IRQ => point = "timer")
    BY <1>1, <2>3 DEF irq_handle
  <2>5. CASE stack' = stack
    BY <2>1, <2>5, TickQuiet
  <2>6. CASE stack' # stack
    <3>1. PICK point : GoTo(point) /\ (Top.irq = TIMER_IRQ => point = "timer")
      BY <2>4, <2>6
    <3>2. stack' # <<>> /\ Top'.irq = Top.irq /\ Top'.at = point
      BY <2>1, <3>1, Moved
    <3> QED
      BY <2>1, <3>1, <3>2, TickQuiet
  <2> QED
    BY <2>5, <2>6
<1>2. CASE timer_handle_tick
  <2>1. /\ At("timer") /\ GoTo("eoi") /\ tick' = Next1(tick)
        /\ UNCHANGED <<edges, irq_chip_active, req, mpc, pic, due>>
    BY <1>2 DEF timer_handle_tick
  <2>2. /\ stack # <<>> /\ Top.at = "timer" /\ stack' # <<>>
        /\ Top'.at = "eoi" /\ Top'.irq = Top.irq
    BY <2>1, Moved
  <2>3. Top.irq = TIMER_IRQ
    BY <2>2 DEF IInv, StackInv
  <2>4. IrqOn(TIMER_IRQ) /\ mpc \notin EarlyStages /\ irq_chip_active
    BY <2>1, <2>2, <2>3, HandlerContext DEF TickInv
  <2>5. Counting /\ ~Counting'
    BY <2>2, <2>3 DEF Counting
  <2>6. /\ IrqOn(TIMER_IRQ)' <=> IrqOn(TIMER_IRQ)
        /\ Latched(TIMER_IRQ)' <=> Latched(TIMER_IRQ)
    BY <2>1 DEF IrqOn, Latched
  <2>7. req # 1
    BY <2>4 DEF TickInv
  <2> QED
    BY <2>1, <2>2, <2>3, <2>4, <2>5, <2>6, <2>7 DEF TickInv
<1>3. ASSUME NEW from \in {"inb", "lock", "unlock", "tty", "eoi"},
             NEW point \in Points \ {"irq_handle", "timer"},
             At(from),
             UNCHANGED <<tick, edges, irq_chip_active, req, mpc, due>>,
             pic'["PIC1"].imr = pic["PIC1"].imr,
             0 \in pic'["PIC1"].irr <=> 0 \in pic["PIC1"].irr,
             stack' = stack \/ GoTo(point)
      PROVE  TickInv'
  <2>1. CASE stack' = stack
    BY <1>3, <2>1, TickQuiet
  <2>2. CASE stack' # stack
    <3>1. stack' # <<>> /\ Top'.irq = Top.irq /\ Top'.at = point
      BY <1>3, <2>2, Moved
    <3> QED
      BY <1>3, <3>1, TickQuiet
  <2> QED
    BY <2>1, <2>2
<1>4. CASE i8042_irq_handler
  <2>1. /\ At("inb") /\ UNCHANGED <<tick, edges, irq_chip_active, req, mpc, due>>
        /\ pic' = pic \/ pic' = Edge(pic, 1)
        /\ stack' = [stack EXCEPT ![1].at  = "lock",
                                  ![1].key = IF obf = <<>> THEN 0 ELSE Head(obf)]
    BY <1>4 DEF i8042_irq_handler, I8042_KEYBOARD_IRQ
  <2>2. /\ stack # <<>> /\ Top.at = "inb" /\ Top \in Frames /\ Len(stack) = 1
        /\ pic \in [Chips -> Registers]
    BY <2>1, HandlerContext
  <2>3. stack \in [1..1 -> Frames]
    BY <2>2, LenProperties DEF IInv, TypeOK
  <2>4. stack' # <<>> /\ Top'.irq = Top.irq /\ Top'.at = "lock"
    <3> DEFINE k == IF obf = <<>> THEN 0 ELSE Head(obf)
    <3>1. stack' = [stack EXCEPT ![1] =
                      [[stack[1] EXCEPT !.at = "lock"] EXCEPT !.key = k]]
      BY <2>1, <2>3
    <3> HIDE DEF k
    <3>2. stack'[1] = [[stack[1] EXCEPT !.at = "lock"] EXCEPT !.key = k]
      BY <2>3, <3>1
    <3>3. stack' # <<>>
      BY <2>3, <3>1
    <3> QED
      BY <2>2, <3>2, <3>3 DEF Top, Frames
  <2>5. /\ pic'["PIC1"].imr = pic["PIC1"].imr
        /\ 0 \in pic'["PIC1"].irr <=> 0 \in pic["PIC1"].irr
    <3>1. 1 \in Lines
      BY DEF Lines
    <3>2. /\ Edge(pic, 1)["PIC1"].irr = pic["PIC1"].irr \cup {1}
          /\ Edge(pic, 1)["PIC1"].imr = pic["PIC1"].imr
      BY <2>2, <3>1, EdgeLow
    <3> QED
      BY <2>1, <3>2
  <2> QED
    BY <2>1, <2>4, <2>5, TickQuiet DEF TIMER_IRQ
<1>5. CASE spin_lock
  <2>1. "unlock" \in Points \ {"irq_handle", "timer"}
    BY DEF Points
  <2> QED
    BY <1>3, <1>5, <2>1 DEF spin_lock
<1>6. CASE spin_unlock
  <2>1. /\ "tty" \in Points \ {"irq_handle", "timer"}
        /\ "eoi" \in Points \ {"irq_handle", "timer"}
    BY DEF Points
  <2>2. \E point \in {"tty", "eoi"} : stack' = stack \/ GoTo(point)
    BY <1>6 DEF spin_unlock
  <2> QED
    BY <1>3, <1>6, <2>1, <2>2 DEF spin_unlock
<1>7. CASE tty_handle_key
  <2>1. "eoi" \in Points \ {"irq_handle", "timer"}
    BY DEF Points
  <2> QED
    BY <1>3, <1>7, <2>1 DEF tty_handle_key
<1>8. CASE irq_eoi
  <2>1. "iret" \in Points \ {"irq_handle", "timer"}
    BY DEF Points
  <2>2. At("eoi") /\ UNCHANGED <<tick, edges, irq_chip_active, req, mpc, due>>
        /\ GoTo("iret")
    BY <1>8 DEF irq_eoi
  <2>3. pic \in [Chips -> Registers] /\ Top.irq \in Lines
    BY <2>2, HandlerContext
  <2>4. /\ pic'["PIC1"].irr = pic["PIC1"].irr
        /\ pic'["PIC1"].imr = pic["PIC1"].imr
    BY <1>8, <2>3, MasterIrr, MasterImr DEF irq_eoi
  <2> QED
    BY <1>3, <2>1, <2>2, <2>4
<1>9. CASE iretq
  <2>1. At("iret") /\ UNCHANGED <<tick, edges, irq_chip_active, req, mpc, due, pic>>
        /\ stack' = Tail(stack)
    BY <1>9 DEF iretq
  <2>2. stack' = <<>> /\ Top.at = "iret"
    BY <2>1, HandlerContext
  <2>3. ~Counting /\ ~Counting'
    BY <2>2 DEF Counting
  <2> QED
    BY <2>1, <2>2, <2>3, TickKept
<1> QED
  BY <1>1, <1>2, <1>4, <1>5, <1>6, <1>7, <1>8, <1>9 DEF Handler

(* A paced timer signals only when its last edge has been counted.         *)
LEMMA TickDevices ==
    ASSUME Paced = TRUE, IInv, TickInv, Devices
    PROVE  TickInv'
<1> USE DEF mainVars, keyVars, timeVars
<1>0. /\ pic \in [Chips -> Registers] /\ due \subseteq due'
      /\ UNCHANGED <<stack, tick, irq_chip_active, req, mpc>>
  BY DEF IInv, TypeOK, Devices, TimerEdge, KeyEdge, OtherEdge, MaySignal
<1>1. Counting' <=> Counting
  BY <1>0 DEF Counting, Top
<1>2. CASE TimerEdge
  <2>1. /\ TIMER_IRQ \notin due /\ TIMER_IRQ \in due' /\ pic' = Edge(pic, 0)
        /\ edges' = IF IrqOn(TIMER_IRQ) THEN Next1(edges) ELSE edges
    BY <1>2 DEF TimerEdge, MaySignal, TIMER_IRQ
  <2>2. 0 \in Lines
    BY DEF Lines
  <2>3. /\ 0 \in pic'["PIC1"].irr
        /\ pic'["PIC1"].imr = pic["PIC1"].imr
    BY <1>0, <2>1, <2>2, EdgeLow
  <2>4. /\ Latched(TIMER_IRQ)'
        /\ IrqOn(TIMER_IRQ)' <=> IrqOn(TIMER_IRQ)
    BY <2>3, MasterLines, NextLines
  <2>5. ~Counting
    BY <2>1 DEF TickInv
  <2>6. irq_chip_active /\ IrqOn(TIMER_IRQ) =>
            ~Latched(TIMER_IRQ) /\ edges = tick /\ edges' = Next1(tick)
    BY <2>1, <2>5 DEF TickInv
  <2>7. stack # <<>> /\ Top.irq = TIMER_IRQ => IrqOn(TIMER_IRQ)
    BY DEF TickInv
  <2> QED
    BY <1>0, <1>1, <2>1, <2>4, <2>5, <2>6, <2>7 DEF TickInv, Top
<1>3. CASE KeyEdge \/ \E irq \in OtherDevices : OtherEdge(irq)
  <2>1. PICK irq \in Lines \ {0} : pic' = pic \/ pic' = Edge(pic, irq)
    BY <1>3, DevicesAssumption DEF KeyEdge, OtherEdge, I8042_KEYBOARD_IRQ, Lines
  <2>2. edges' = edges
    BY <1>3 DEF KeyEdge, OtherEdge
  <2>3. /\ 0 \in pic'["PIC1"].irr <=> 0 \in pic["PIC1"].irr
        /\ 0 \in pic'["PIC1"].imr <=> 0 \in pic["PIC1"].imr
    <3>1. /\ Edge(pic, irq)["PIC1"].irr = IF irq < 8 THEN pic["PIC1"].irr \cup {irq}
                                          ELSE pic["PIC1"].irr
          /\ Edge(pic, irq)["PIC1"].imr = pic["PIC1"].imr
      BY <1>0, EdgeMaster
    <3>2. 0 \notin {irq}
      OBVIOUS
    <3> QED
      BY <2>1, <3>1, <3>2
  <2> QED
    BY <1>0, <1>1, <2>2, <2>3, TickKept DEF Top
<1> QED
  BY <1>2, <1>3 DEF Devices

(* tick is the number of PIT edges since line 0 was unmasked, less the one *)
(* a handler is about to count and the one the PIC holds, however keys,    *)
(* spurious interrupts and other lines fall between, if a period of the    *)
(* PIT is longer than the handlers take (i8253_irq_handle, irq_request).   *)
THEOREM TicksAreCounted ==
    ASSUME BssZeroed = TRUE, Paced = TRUE, TimerRequestedOnce
    PROVE  Spec => []TicksCounted
<1>1. Init => TickInv
  BY DEF Init, Bss, TickInv, Counting
<1>2. IInv /\ TickInv /\ [Next]_vars => TickInv'
  <2>1. CASE UNCHANGED vars
    BY <2>1 DEF vars, TickInv, Counting, Top, Latched, IrqOn
  <2> QED
    BY <2>1, TickMain, TickTake, TickHandler, TickDevices DEF Next, Cpu
<1>3. IInv /\ TickInv => TicksCounted
  <2> SUFFICES ASSUME IInv, TickInv PROVE TicksCounted
    OBVIOUS
  <2>1. Uncounted # {} <=> Counting
    <3>1. CASE stack = <<>>
      BY <3>1 DEF Uncounted, InFlight, Counting
    <3>2. CASE stack # <<>>
      <4>1. Len(stack) = 1 /\ stack \in Seq(Frames)
        BY <3>2, OneFrame DEF IInv, TypeOK
      <4>2. InFlight = {Top}
        BY <4>1, LenProperties DEF InFlight, Top
      <4> QED
        BY <3>2, <4>2 DEF Uncounted, Counting
    <3> QED
      BY <3>1, <3>2
  <2> QED
    BY <2>1 DEF TicksCounted, TickInv
<1> QED
  BY <1>1, <1>2, <1>3, Invariance, PTL DEF Spec
=============================================================================
