-------------------------- MODULE InterruptsProofs --------------------------
(***************************************************************************)
(* Proofs about Interrupts, for every sequence of requested lines, every   *)
(* set of devices and every number of keys.                                *)
(***************************************************************************)
EXTENDS Interrupts, SequenceTheorems, TLAPS

(* What the driver and the hardware do to the registers keeps them typed.  *)
LEMMA PicTypes ==
    ASSUME NEW p \in [Chips -> Registers]
    PROVE  /\ i8259A_init(p) \in [Chips -> Registers]
           /\ \A irq \in Int : i8259A_unmask_irq(p, irq) \in [Chips -> Registers]
           /\ \A irq \in Int : i8259A_send_eoi(p, irq) \in [Chips -> Registers]
           /\ \A irq \in Lines : Edge(p, irq) \in [Chips -> Registers]
           /\ \A irq \in Lines : Acknowledge(p, irq) \in [Chips -> Registers]
           /\ \A irq \in Lines : Vector(p, irq) \in 0..255
<1> USE DEF Chips, Registers
<1>1. i8259A_init(p) \in [Chips -> Registers]
  BY DEF i8259A_init, i8259A_mask_all, Initialise, PIC1_IDT_POS, PIC2_IDT_POS
<1>2. ASSUME NEW irq \in Int
      PROVE  i8259A_unmask_irq(p, irq) \in [Chips -> Registers]
  BY DEF i8259A_unmask_irq, PortOf
<1>3. ASSUME NEW irq \in Int
      PROVE  i8259A_send_eoi(p, irq) \in [Chips -> Registers]
  BY DEF i8259A_send_eoi, NonSpecificEoi
<1>4. ASSUME NEW irq \in Lines
      PROVE  Edge(p, irq) \in [Chips -> Registers]
  BY DEF Edge, PortOf, BitOf, Lines, Bits
<1>5. ASSUME NEW irq \in Lines
      PROVE  Acknowledge(p, irq) \in [Chips -> Registers]
  <2>1. \A r \in Registers : \A b \in Bits : TakeIntoService(r, b) \in Registers
    BY DEF TakeIntoService
  <2>2. BitOf(irq) \in Bits /\ CascadeBit \in Bits
    BY DEF BitOf, Lines, Bits, CascadeBit
  <2> HIDE DEF Registers, Chips
  <2> QED
    BY <2>1, <2>2 DEF Acknowledge
<1>6. ASSUME NEW irq \in Lines
      PROVE  Vector(p, irq) \in 0..255
  BY DEF Vector, PortOf, BitOf, Lines, Bits, BiosBases, PIC1_IDT_POS,
         PIC2_IDT_POS
<1> QED
  BY <1>1, <1>2, <1>3, <1>4, <1>5, <1>6

(* kmain requests a nonempty sequence of integers.                         *)
LEMMA RequestsType ==
    /\ Requests \in Seq(Int)
    /\ Len(Requests) \in Nat \ {0, 1}
    /\ \A i \in 1..Len(Requests) : Requests[i] \in Int
  BY RequestsAssumption DEF Requests, TIMER_IRQ, I8042_KEYBOARD_IRQ

(* irq_request accepts the lines of the pair, and only they can be latched *)
(* in registers of eight bits.                                             *)
LEMMA RangeIsLines == \A irq : InRange(irq) <=> irq \in Lines
  BY DEF InRange, NMBR_IRQS, Lines

LEMMA LatchedIsLine ==
    ASSUME pic \in [Chips -> Registers], NEW irq \in Int, Latched(irq)
    PROVE  irq \in Lines
<1>1. PortOf(irq) \in Chips
  BY DEF PortOf, Chips
<1>2. BitOf(irq) \in 0..7
  BY <1>1 DEF Latched, Registers, Bits
<1> QED
  BY <1>2 DEF BitOf, Lines

LEMMA Next1Type == \A n \in 0 .. TickMod - 1 : Next1(n) \in 0 .. TickMod - 1
  BY TickAssumption DEF Next1

-----------------------------------------------------------------------------
(* Type correctness.                                                       *)

LEMMA MainType == TypeOK /\ Main => TypeOK'
<1> SUFFICES ASSUME TypeOK, Main PROVE TypeOK'
  OBVIOUS
<1> USE RequestsType DEF TypeOK, MainStep, Stages, mainVars, lockVars,
        keyVars, timeVars
<1>1. CASE idt_init
  BY <1>1 DEF idt_init
<1>2. CASE irq_arch_init
  BY <1>2, PicTypes DEF irq_arch_init
<1>3. CASE sti
  BY <1>3 DEF sti
<1>4. CASE irq_request_install
  <2>1. irq_table' \in [Lines -> Handlers]
    <3>1. HandlerOf(Requests[req]) \in Handlers
      BY DEF HandlerOf, Handlers
    <3>2. InRange(Requests[req]) <=> Requests[req] \in Lines
      BY RangeIsLines
    <3> QED
      BY <1>4, <3>1, <3>2 DEF irq_request_install
  <2> QED
    BY <1>4, <2>1 DEF irq_request_install, RequestDone
<1>5. CASE irq_request_unmask
  <2> DEFINE irq == Requests[req]
  <2>1. irq \in Int
    OBVIOUS
  <2>2. Latched(irq) => irq \in Lines
    BY <2>1, LatchedIsLine
  <2>3. pic' \in [Chips -> Registers]
    BY <1>5, <2>1, PicTypes DEF irq_request_unmask
  <2>4. due' \subseteq Lines
    BY <1>5, <2>2 DEF irq_request_unmask
  <2>5. edges' \in 0 .. TickMod - 1
    BY <1>5, TickAssumption DEF irq_request_unmask
  <2> QED
    BY <1>5, <2>3, <2>4, <2>5 DEF irq_request_unmask, RequestDone
<1>6. CASE spinlock_init
  <2>1. req' \in 1..Len(Requests) /\ mpc' \in Stages
    BY <1>6 DEF spinlock_init, RequestDone
  <2> QED
    BY <1>6, <2>1 DEF spinlock_init
<1>7. CASE hlt
  BY <1>7 DEF hlt
<1> QED
  BY <1>1, <1>2, <1>3, <1>4, <1>5, <1>6, <1>7 DEF Main

(* Entering a vector pushes a well-typed frame.                            *)
LEMMA EnterType ==
    ASSUME TypeOK, NEW v \in 0..255, NEW acked \in BOOLEAN,
           EnterVector(v, acked)
    PROVE  /\ stack' \in Seq(Frames)
           /\ iflag' \in BOOLEAN
           /\ halted' \in Reasons
<1> DEFINE f == [irq |-> v - PIC_IDT_BASE, at |-> "irq_handle", key |-> 0,
                 rflags |-> iflag, acked |-> acked]
<1>1. CASE ~idt
  BY <1>1 DEF EnterVector, TypeOK, Reasons
<1>2. CASE idt /\ v < PIC_IDT_BASE
  BY <1>2 DEF EnterVector, TypeOK, Reasons, IFAfterGate
<1>3. CASE idt /\ v >= PIC_IDT_BASE
  <2>1. f \in Frames
    BY <1>3, KeysAssumption, SMTT(30) DEF Frames, Points, PIC_IDT_BASE, TypeOK
  <2>2. stack' = <<f>> \o stack /\ iflag' = FALSE /\ halted' = halted
    BY <1>3 DEF EnterVector, IFAfterGate, PIC_IDT_BASE
  <2>3. stack \in Seq(Frames) /\ <<f>> \in Seq(Frames)
    BY <2>1 DEF TypeOK
  <2>4. stack' \in Seq(Frames)
    BY <2>2, <2>3, ConcatProperties
  <2> QED
    BY <2>2, <2>4 DEF TypeOK
<1> QED
  BY <1>1, <1>2, <1>3 DEF PIC_IDT_BASE

LEMMA TakeType == TypeOK /\ (TakeInterrupt \/ TakeSpurious) => TypeOK'
<1> SUFFICES ASSUME TypeOK, TakeInterrupt \/ TakeSpurious PROVE TypeOK'
  OBVIOUS
<1> USE DEF mainVars, lockVars, keyVars, timeVars
<1>0. pic \in [Chips -> Registers]
  BY DEF TypeOK
<1>1. CASE TakeInterrupt
  <2>1. PICK irq \in Lines : /\ EnterVector(Vector(pic, irq), TRUE)
                             /\ pic' = Acknowledge(pic, irq)
    BY <1>1 DEF TakeInterrupt
  <2>2. pic' \in [Chips -> Registers] /\ Vector(pic, irq) \in 0..255
    BY <1>0, <2>1, PicTypes
  <2>3. stack' \in Seq(Frames) /\ iflag' \in BOOLEAN /\ halted' \in Reasons
    BY <2>1, <2>2, EnterType
  <2> QED
    BY <1>1, <2>2, <2>3 DEF TakeInterrupt, TypeOK
<1>2. CASE TakeSpurious
  <2>1. Vector(pic, 7) \in 0..255
    BY <1>0, PicTypes DEF Lines
  <2>2. stack' \in Seq(Frames) /\ iflag' \in BOOLEAN /\ halted' \in Reasons
    BY <1>2, <2>1, EnterType DEF TakeSpurious
  <2> QED
    <3>1. 7 \in Lines
      BY DEF Lines
    <3> QED
      BY <1>2, <2>2, <3>1 DEF TakeSpurious, TypeOK
<1> QED
  BY <1>1, <1>2

(* Moving the innermost handler to its next step keeps the stack typed.    *)
LEMMA GoToType ==
    ASSUME TypeOK, stack # <<>>, NEW point \in Points
    PROVE  /\ [stack EXCEPT ![1].at = point] \in Seq(Frames)
           /\ Top \in Frames
           /\ Tail(stack) \in Seq(Frames)
<1>1. stack \in Seq(Frames) /\ 1 \in 1..Len(stack)
  BY DEF TypeOK
<1>2. Top \in Frames
  BY <1>1 DEF Top
<1>3. [stack[1] EXCEPT !.at = point] \in Frames
  BY <1>2 DEF Top, Frames
<1> QED
  BY <1>1, <1>2, <1>3

LEMMA HandlerType == TypeOK /\ Handler => TypeOK'
<1> SUFFICES ASSUME TypeOK, Handler PROVE TypeOK'
  OBVIOUS
<1> USE DEF At, GoTo, mainVars, lockVars, keyVars, timeVars, Reasons
<1>0. /\ stack # <<>> => Top \in Frames /\ Tail(stack) \in Seq(Frames)
      /\ \A point \in Points :
             stack # <<>> => [stack EXCEPT ![1].at = point] \in Seq(Frames)
  BY GoToType DEF Points
<1>1. CASE irq_handle
  BY <1>0, <1>1 DEF irq_handle, TypeOK, Points
<1>2. CASE timer_handle_tick
  BY <1>0, <1>2, Next1Type DEF timer_handle_tick, TypeOK, Points
<1>3. CASE i8042_irq_handler
  <2> DEFINE k == IF obf = <<>> THEN 0 ELSE Head(obf)
  <2>0. /\ obf \in Seq(1..MaxKeys) /\ stack \in Seq(Frames)
        /\ stack # <<>> /\ Top \in Frames
    BY <1>0, <1>3 DEF i8042_irq_handler, TypeOK
  <2>1. k \in 0..MaxKeys
    <3>1. CASE obf = <<>>
      BY <3>1, KeysAssumption
    <3>2. CASE obf # <<>>
      <4>1. Head(obf) \in 1..MaxKeys
        BY <2>0, <3>2, HeadTailProperties
      <4> QED
        BY <3>2, <4>1, KeysAssumption
    <3> QED
      BY <3>1, <3>2
  <2>2. obf' \in Seq(1..MaxKeys)
    BY <1>3, <2>0, HeadTailProperties DEF i8042_irq_handler
  <2>3. 1 \in 1..Len(stack)
    BY <2>0, EmptySeq
  <2>4. [[stack[1] EXCEPT !.at = "lock"] EXCEPT !.key = k] \in Frames
    BY <2>0, <2>1 DEF Top, Frames, Points
  <2>5. stack' = [stack EXCEPT ![1] =
                    [[stack[1] EXCEPT !.at = "lock"] EXCEPT !.key = k]]
    BY <1>3, <2>0, <2>3, LenProperties DEF i8042_irq_handler
  <2>6. stack' \in Seq(Frames)
    BY <2>0, <2>3, <2>4, <2>5, ExceptSeq
  <2>7. pic' \in [Chips -> Registers]
    <3>1. I8042_KEYBOARD_IRQ \in Lines
      BY DEF Lines, I8042_KEYBOARD_IRQ
    <3> QED
      BY <1>3, <3>1, PicTypes DEF i8042_irq_handler, TypeOK
  <2> QED
    BY <1>3, <2>2, <2>6, <2>7 DEF i8042_irq_handler, TypeOK
<1>4. CASE spin_lock
  BY <1>0, <1>4 DEF spin_lock, TypeOK, Points
<1>5. CASE spin_unlock
  BY <1>0, <1>5 DEF spin_unlock, TypeOK, Points, StillLocked, Restored
<1>6. CASE tty_handle_key
  <2>1. fed' \in Seq(0..MaxKeys)
    <3>1. Top.key \in 0..MaxKeys /\ fed \in Seq(0..MaxKeys)
      BY <1>0, <1>6 DEF tty_handle_key, TypeOK, Frames
    <3> QED
      BY <1>6, <3>1, AppendProperties DEF tty_handle_key
  <2> QED
    BY <1>0, <1>6, <2>1 DEF tty_handle_key, TypeOK, Points
<1>7. CASE irq_eoi
  <2>1. Top.irq \in Int
    BY <1>0, <1>7 DEF irq_eoi, Frames
  <2>2. pic' \in [Chips -> Registers]
    BY <1>7, <2>1, PicTypes DEF irq_eoi, TypeOK
  <2> QED
    BY <1>0, <1>7, <2>2 DEF irq_eoi, TypeOK, Points
<1>8. CASE iretq
  BY <1>0, <1>8 DEF iretq, TypeOK, Frames
<1> QED
  BY <1>1, <1>2, <1>3, <1>4, <1>5, <1>6, <1>7, <1>8 DEF Handler

LEMMA DevicesType == TypeOK /\ Devices => TypeOK'
<1> SUFFICES ASSUME TypeOK, Devices PROVE TypeOK'
  OBVIOUS
<1> USE DEF TypeOK, MaySignal, mainVars, lockVars, keyVars, timeVars
<1>0. TIMER_IRQ \in Lines /\ I8042_KEYBOARD_IRQ \in Lines
  BY DEF TIMER_IRQ, I8042_KEYBOARD_IRQ, Lines
<1>1. CASE TimerEdge
  <2>1. edges' \in 0 .. TickMod - 1
    BY <1>1, Next1Type DEF TimerEdge
  <2>2. pic' \in [Chips -> Registers]
    BY <1>1, <1>0, PicTypes DEF TimerEdge
  <2>3. due' \subseteq Lines
    BY <1>1, <1>0 DEF TimerEdge
  <2> QED
    BY <1>1, <2>1, <2>2, <2>3 DEF TimerEdge
<1>2. CASE KeyEdge
  <2>1. sent' \in 1..MaxKeys
    <3>1. sent \in 0..MaxKeys /\ sent < MaxKeys /\ sent' = sent + 1
      BY <1>2 DEF KeyEdge
    <3> QED
      BY <3>1, KeysAssumption
  <2>2. obf' \in Seq(1..MaxKeys)
    <3>1. obf \in Seq(1..MaxKeys) /\ obf' = Append(obf, sent')
      BY <1>2 DEF KeyEdge
    <3> QED
      BY <2>1, <3>1, AppendProperties
  <2>3. pic' \in [Chips -> Registers]
    BY <1>0, <1>2, PicTypes DEF KeyEdge
  <2>4. due' \subseteq Lines
    BY <1>0, <1>2 DEF KeyEdge
  <2>5. sent' \in 0..MaxKeys
    BY <2>1
  <2> QED
    BY <1>2, <2>2, <2>3, <2>4, <2>5 DEF KeyEdge
<1>3. CASE \E irq \in OtherDevices : OtherEdge(irq)
  <2>1. PICK irq \in OtherDevices : OtherEdge(irq)
    BY <1>3
  <2>2. irq \in Lines
    BY DevicesAssumption
  <2> QED
    BY <2>1, <2>2, PicTypes DEF OtherEdge
<1> QED
  BY <1>1, <1>2, <1>3 DEF Devices

(* Every variable keeps its type, whatever the memory of the statics holds *)
(* at entry, whatever is requested and however fast the devices signal.    *)
THEOREM TypeCorrect == Spec => []TypeOK
<1>1. Init => TypeOK
  <2> SUFFICES ASSUME Init PROVE TypeOK
    OBVIOUS
  <2> USE DEF Init, Bss
  <2>1. pic \in [Chips -> Registers]
    BY DEF Chips, Registers, BiosBases
  <2>2. irq_table \in [Lines -> Handlers]
    BY DEF Handlers
  <2>3. req \in 1..Len(Requests)
    BY RequestsType
  <2>4. tick \in 0 .. TickMod - 1 /\ edges \in 0 .. TickMod - 1
    BY TickAssumption
  <2>5. sent \in 0..MaxKeys
    BY KeysAssumption
  <2>6. /\ stack \in Seq(Frames)
        /\ obf \in Seq(1..MaxKeys)
        /\ fed \in Seq(0..MaxKeys)
    BY EmptySeq
  <2> QED
    BY <2>1, <2>2, <2>3, <2>4, <2>5, <2>6 DEF TypeOK, Stages, Reasons
<1>2. TypeOK /\ [Next]_vars => TypeOK'
  <2>1. CASE UNCHANGED vars
    BY <2>1 DEF TypeOK, vars
  <2> QED
    BY <2>1, MainType, TakeType, HandlerType, DevicesType DEF Next, Cpu
<1> QED
  BY <1>1, <1>2, PTL DEF Spec

-----------------------------------------------------------------------------
(* The inductive invariant.                                                *)

(* The two chips keep their masks and their vector bases.                  *)
SameMasks(p, q) ==
    \A c \in Chips : q[c].imr = p[c].imr /\ q[c].base = p[c].base

LEMMA InitRegisters ==
    ASSUME NEW p \in [Chips -> Registers]
    PROVE  \A c \in Chips :
              /\ i8259A_init(p)[c].isr = {}
              /\ i8259A_init(p)[c].imr = Bits
              /\ i8259A_init(p)[c].base =
                     IF c = "PIC1" THEN PIC1_IDT_POS ELSE PIC2_IDT_POS
  BY DEF i8259A_init, i8259A_mask_all, Initialise, Chips

LEMMA UnmaskRegisters ==
    ASSUME NEW p \in [Chips -> Registers], NEW irq \in Lines
    PROVE  LET q == i8259A_unmask_irq(p, irq) IN
           /\ \A c \in Chips : q[c].isr = p[c].isr /\ q[c].base = p[c].base
           /\ \A l \in Lines \ {irq} : BitOf(l) \notin q[PortOf(l)].imr
                                         => BitOf(l) \notin p[PortOf(l)].imr
<1>1. PortOf(irq) \in Chips /\ \A l \in Lines : PortOf(l) \in Chips
  BY DEF PortOf, Chips
<1>2. \A l \in Lines \ {irq} : PortOf(l) = PortOf(irq) => BitOf(l) # BitOf(irq)
  BY DEF PortOf, BitOf, Lines
<1> QED
  BY <1>1, <1>2 DEF i8259A_unmask_irq, Registers

LEMMA EdgeRegisters ==
    ASSUME NEW p \in [Chips -> Registers], NEW irq \in Lines
    PROVE  /\ SameMasks(p, Edge(p, irq))
           /\ \A c \in Chips : Edge(p, irq)[c].isr = p[c].isr
<1>1. PortOf(irq) \in Chips
  BY DEF PortOf, Chips
<1> QED
  BY <1>1 DEF Edge, Registers, SameMasks

(* Acknowledging a line with nothing in service puts exactly its bit, and  *)
(* for the slave the cascade bit, in service.                              *)
LEMMA AcknowledgeRegisters ==
    ASSUME NEW p \in [Chips -> Registers], NEW irq \in Lines,
           \A c \in Chips : p[c].isr = {}
    PROVE  /\ SameMasks(p, Acknowledge(p, irq))
           /\ \A c \in Chips : Acknowledge(p, irq)[c].isr =
                  IF c = PortOf(irq) THEN {BitOf(irq)}
                  ELSE IF c = "PIC1" THEN {CascadeBit} ELSE {}
<1>1. \A r \in Registers, b \in Bits :
          /\ TakeIntoService(r, b).imr = r.imr
          /\ TakeIntoService(r, b).base = r.base
          /\ TakeIntoService(r, b).isr = r.isr \cup {b}
  BY DEF TakeIntoService, Registers
<1>2. BitOf(irq) \in Bits /\ CascadeBit \in Bits /\ PortOf(irq) \in Chips
  BY DEF BitOf, Bits, Lines, CascadeBit, PortOf, Chips
<1>3. /\ irq >= 8 <=> PortOf(irq) = "PIC2"
      /\ PortOf(irq) \in Chips
  BY DEF PortOf, Lines, Chips
<1> DEFINE q == Acknowledge(p, irq)
<1>4. q[PortOf(irq)] = TakeIntoService(p[PortOf(irq)], BitOf(irq))
  BY <1>3 DEF Acknowledge
<1>5. ASSUME NEW c \in Chips, c # PortOf(irq)
      PROVE  q[c] = IF c = "PIC1" THEN TakeIntoService(p[c], CascadeBit)
                                  ELSE p[c]
  BY <1>3, <1>5 DEF Acknowledge, Chips
<1> HIDE DEF q
<1>6. ASSUME NEW c \in Chips
      PROVE  /\ q[c].imr = p[c].imr /\ q[c].base = p[c].base
             /\ q[c].isr = IF c = PortOf(irq) THEN {BitOf(irq)}
                           ELSE IF c = "PIC1" THEN {CascadeBit} ELSE {}
  <2>1. p[c] \in Registers /\ p[c].isr = {}
    OBVIOUS
  <2>2. CASE c = PortOf(irq)
    BY <1>1, <1>2, <1>4, <2>1, <2>2
  <2>3. CASE c # PortOf(irq)
    <3>1. q[c] = IF c = "PIC1" THEN TakeIntoService(p[c], CascadeBit)
                               ELSE p[c]
      BY <1>5, <2>3
    <3>2. CASE c = "PIC1"
      BY <1>1, <1>2, <2>1, <2>3, <3>1, <3>2
    <3>3. CASE c # "PIC1"
      BY <2>1, <2>3, <3>1, <3>3
    <3> QED
      BY <3>2, <3>3
  <2> QED
    BY <2>2, <2>3
<1> QED
  BY <1>6 DEF SameMasks, q

(* The EOI of the only handler leaves nothing in service.                  *)
LEMMA EoiRegisters ==
    ASSUME NEW p \in [Chips -> Registers], NEW irq \in Lines,
           \/ \A c \in Chips : p[c].isr = {}
           \/ \A c \in Chips : p[c].isr =
                  IF c = PortOf(irq) THEN {BitOf(irq)}
                  ELSE IF c = "PIC1" THEN {CascadeBit} ELSE {}
    PROVE  /\ SameMasks(p, i8259A_send_eoi(p, irq))
           /\ \A c \in Chips : i8259A_send_eoi(p, irq)[c].isr = {}
<1>1. \A r \in Registers : /\ NonSpecificEoi(r).imr = r.imr
                           /\ NonSpecificEoi(r).base = r.base
                           /\ r.isr = {} => NonSpecificEoi(r).isr = {}
                           /\ \A b \in Bits :
                                 r.isr = {b} => NonSpecificEoi(r).isr = {}
  BY DEF NonSpecificEoi, Registers, Bits
<1>2. BitOf(irq) \in Bits /\ CascadeBit \in Bits
  BY DEF BitOf, Bits, Lines, CascadeBit
<1>3. irq >= 8 <=> PortOf(irq) = "PIC2"
  BY DEF PortOf, Lines
<1> QED
  BY <1>1, <1>2, <1>3 DEF i8259A_send_eoi, SameMasks, Chips, PortOf

(* With one handler on the stack, a handler step changes its point only.   *)
LEMMA OneFrame ==
    ASSUME TypeOK, StackInv, stack # <<>>, NEW point
    PROVE  /\ Len(stack) = 1
           /\ Tail(stack) = <<>>
           /\ LET s == [stack EXCEPT ![1].at = point] IN
              /\ Len(s) = 1
              /\ s # <<>>
              /\ s[1] = [Top EXCEPT !.at = point]
<1>0. stack \in Seq(Frames)
  BY DEF TypeOK
<1>1. Len(stack) = 1
  <2> DEFINE n == Len(stack)
  <2>1. n \in Nat \ {0}
    BY <1>0, EmptySeq
  <2>2. n =< 1
    BY DEF StackInv
  <2> HIDE DEF n
  <2>3. n = 1
    BY <2>1, <2>2
  <2> QED
    BY <2>3 DEF n
<1>2. Tail(stack) = <<>>
  <2>1. Tail(stack) \in Seq(Frames) /\ Len(Tail(stack)) = 0
    BY <1>0, <1>1, HeadTailProperties
  <2>2. Tail(stack) # <<>> => Len(Tail(stack)) \in Nat \ {0}
    BY <2>1, EmptySeq
  <2> QED
    BY <2>1, <2>2
<1>3. stack \in [1..1 -> Frames]
  BY <1>0, <1>1, LenProperties
<1> QED
  BY <1>1, <1>2, <1>3 DEF Top

(* What every handler step starts from: one frame, interrupts off, kmain   *)
(* past its early stages.                                                  *)
LEMMA HandlerContext ==
    ASSUME IInv, NEW point, At(point)
    PROVE  /\ stack # <<>> /\ Len(stack) = 1 /\ Tail(stack) = <<>>
           /\ Top.at = point /\ Top \in Frames /\ Top.rflags /\ Top.irq \in Lines
           /\ ~iflag /\ idt /\ irq_chip_active
           /\ mpc \notin EarlyStages
           /\ pic \in [Chips -> Registers]
<1>1. stack # <<>> /\ Top.at = point
  BY DEF At
<1>2. TypeOK /\ StackInv /\ BootInv
  BY DEF IInv
<1>3. Len(stack) = 1 /\ Tail(stack) = <<>>
  BY <1>1, <1>2, OneFrame
<1>4. Top \in Frames
  BY <1>1, <1>2, GoToType DEF Points
<1> QED
  BY <1>1, <1>2, <1>3, <1>4 DEF StackInv, BootInv, EarlyStages, TypeOK

(* A step of the innermost handler that leaves kmain, the table, the masks *)
(* and the interrupt flag alone preserves the invariant if it respects     *)
(* what the invariant says of the point it goes to.                        *)
LEMMA PointStep ==
    ASSUME IInv, TypeOK', NEW from, At(from), NEW point, GoTo(point),
           UNCHANGED <<iflag, mainVars, halted>>,
           SameMasks(pic, pic'),
           point = "timer" => Top.irq = TIMER_IRQ,
           point \in KeyboardPoints => Top.irq = I8042_KEYBOARD_IRQ,
           ~irq_flags',
           locked' <=> point = "unlock",
           \A c \in Chips : pic'[c].isr =
               IF point \in BeforeEoi THEN Owed(c) ELSE {},
           from \in BeforeEoi \/ point \notin BeforeEoi
    PROVE  IInv'
<1> USE HandlerContext
<1>1. /\ stack' # <<>> /\ Len(stack') = 1
      /\ Top' = [Top EXCEPT !.at = point]
  BY OneFrame DEF GoTo, Top, IInv
<1>2. /\ Top'.at = point /\ Top'.irq = Top.irq /\ Top'.rflags = Top.rflags
      /\ Top'.acked = Top.acked
  BY <1>1 DEF Frames
<1>3. NoHalt'
  BY DEF IInv, NoHalt
<1>4. BootInv'
  BY <1>1 DEF IInv, BootInv, SameMasks, mainVars, Chips
<1>5. TableInv'
  <2>1. \A irq : PortOf(irq) \in Chips
    BY DEF PortOf, Chips
  <2>2. \A irq \in Lines : IrqOn(irq)' <=> IrqOn(irq)
    BY <2>1 DEF IrqOn, SameMasks
  <2> QED
    BY <2>2 DEF IInv, TableInv, mainVars
<1>6. StackInv'
  BY <1>1, <1>2 DEF StackInv, mainVars
<1>7. LockInv'
  BY <1>1, <1>2 DEF LockInv
<1>8. ServiceInv'
  <2> SUFFICES ASSUME NEW c \in Chips
               PROVE  pic'[c].isr = Owed(c)'
    BY DEF ServiceInv
  <2>1. CASE point \in BeforeEoi
    <3>1. Owed(c)' = Owed(c)
      BY <1>1, <1>2, <2>1 DEF Owed
    <3> QED
      BY <2>1, <3>1
  <2>2. CASE point \notin BeforeEoi
    BY <1>1, <1>2, <2>2 DEF Owed
  <2> QED
    BY <2>1, <2>2
<1> QED
  BY <1>3, <1>4, <1>5, <1>6, <1>7, <1>8 DEF IInv

LEMMA HandlerInv == IInv /\ TypeOK' /\ Handler => IInv'
<1> SUFFICES ASSUME IInv, TypeOK', Handler PROVE IInv'
  OBVIOUS
<1> USE DEF mainVars, lockVars, keyVars, timeVars, BeforeEoi, KeyboardPoints
<1>0. /\ SameMasks(pic, pic)
      /\ ~irq_flags /\ (locked <=> stack # <<>> /\ Top.at = "unlock")
      /\ \A c \in Chips : pic[c].isr = Owed(c)
  BY DEF SameMasks, IInv, LockInv, ServiceInv
<1>1. CASE irq_handle
  <2>0. At("irq_handle")
    BY <1>1 DEF irq_handle
  <2> DEFINE handler == irq_table[Top.irq]
             point == CASE handler = "i8253_irq_handle"  -> "timer"
                        [] handler = "i8042_irq_handler" -> "inb"
                        [] OTHER                         -> "eoi"
  <2>1. Top.irq \in Lines /\ Top.at = "irq_handle"
    BY <2>0, HandlerContext
  <2>2. handler \in {"none", HandlerOf(Top.irq)}
    BY <2>1 DEF IInv, TableInv
  <2>3. /\ handler # "garbage"
        /\ handler = "i8253_irq_handle" => Top.irq = TIMER_IRQ
        /\ handler = "i8042_irq_handler" => Top.irq = I8042_KEYBOARD_IRQ
    BY <2>2 DEF HandlerOf
  <2>4. /\ GoTo(point)
        /\ UNCHANGED <<iflag, mainVars, halted, pic, lockVars>>
    BY <1>1, <2>1, <2>3, RangeIsLines DEF irq_handle
  <2>5. point \in {"timer", "inb", "eoi"}
    OBVIOUS
  <2>6. /\ point = "timer" => Top.irq = TIMER_IRQ
        /\ point = "inb" => Top.irq = I8042_KEYBOARD_IRQ
    BY <2>3
  <2> HIDE DEF point
  <2> QED
    BY <1>0, <2>0, <2>1, <2>4, <2>5, <2>6, PointStep
<1>2. CASE timer_handle_tick
  <2>1. At("timer") /\ GoTo("eoi") /\ pic' = pic
    BY <1>2 DEF timer_handle_tick
  <2>2. Top.at = "timer"
    BY <2>1, HandlerContext
  <2> QED
    BY <1>0, <1>2, <2>1, <2>2, PointStep DEF timer_handle_tick
<1>3. CASE i8042_irq_handler
  <2>0. At("inb")
    BY <1>3 DEF i8042_irq_handler
  <2> USE <2>0, HandlerContext
  <2> DEFINE k == IF obf = <<>> THEN 0 ELSE Head(obf)
  <2>1. /\ stack' # <<>> /\ Len(stack') = 1
        /\ Top'.at = "lock" /\ Top'.irq = Top.irq /\ Top'.rflags = Top.rflags
        /\ Top'.acked = Top.acked
    <3>1. stack \in [1..1 -> Frames]
      BY LenProperties DEF IInv, TypeOK
    <3>2. stack' = [stack EXCEPT ![1] =
                      [[stack[1] EXCEPT !.at = "lock"] EXCEPT !.key = k]]
      BY <1>3, <3>1 DEF i8042_irq_handler
    <3>3. Len(stack') = 1 /\ stack' # <<>>
      <4>1. stack \in Seq(Frames) /\ 1 \in 1..Len(stack)
        BY DEF IInv, TypeOK
      <4>2. stack' \in [1..1 -> Frames]
        BY <1>3, <3>1, LenProperties DEF i8042_irq_handler, TypeOK
      <4>3. stack' \in Seq(Frames)
        BY DEF TypeOK
      <4> QED
        BY <4>2, <4>3, LenProperties
    <3> QED
      BY <3>1, <3>2, <3>3 DEF Top, Frames
  <2>2. /\ SameMasks(pic, pic')
        /\ \A c \in Chips : pic'[c].isr = pic[c].isr
    <3>1. I8042_KEYBOARD_IRQ \in Lines
      BY DEF I8042_KEYBOARD_IRQ, Lines
    <3> QED
      BY <1>0, <1>3, <3>1, EdgeRegisters DEF i8042_irq_handler
  <2>3. UNCHANGED <<iflag, mainVars, halted, lockVars>>
    BY <1>3 DEF i8042_irq_handler
  <2>4. NoHalt' /\ BootInv'
    BY <2>1, <2>2, <2>3 DEF IInv, NoHalt, BootInv, SameMasks, Chips
  <2>5. TableInv'
    <3>1. \A irq \in Lines : IrqOn(irq)' <=> IrqOn(irq)
      BY <2>2 DEF IrqOn, SameMasks, PortOf, Chips
    <3> QED
      BY <2>3, <3>1 DEF IInv, TableInv
  <2>6. StackInv' /\ LockInv'
    BY <1>0, <2>1, <2>3 DEF IInv, StackInv, LockInv
  <2>7. ServiceInv'
    <3>1. \A c \in Chips : Owed(c)' = Owed(c)
      BY <2>1 DEF Owed
    <3> QED
      BY <1>0, <2>2, <3>1 DEF ServiceInv
  <2> QED
    BY <2>4, <2>5, <2>6, <2>7 DEF IInv
<1>4. CASE spin_lock
  <2>0. At("lock") /\ Top.at = "lock" /\ ~iflag
    BY <1>4, HandlerContext DEF spin_lock
  <2>1. locked = FALSE /\ iflag = FALSE
    BY <1>0, <2>0 DEF IInv, TypeOK
  <2>2. /\ locked' /\ ~irq_flags' /\ iflag' = iflag
        /\ GoTo("unlock") /\ UNCHANGED <<mainVars, halted, pic>>
    BY <1>4, <2>0, <2>1 DEF spin_lock
  <2>3. Top.irq = I8042_KEYBOARD_IRQ
    BY <2>0, HandlerContext DEF IInv, StackInv
  <2> QED
    BY <1>0, <2>0, <2>2, <2>3, PointStep
<1>5. CASE spin_unlock
  <2> DEFINE point == IF Translates(Top.key) THEN "tty" ELSE "eoi"
  <2>0. At("unlock") /\ Top.at = "unlock" /\ ~iflag /\ stack # <<>>
    BY <1>5, HandlerContext DEF spin_unlock
  <2>1. locked = TRUE /\ iflag = FALSE /\ irq_flags = FALSE
    BY <1>0, <2>0 DEF IInv, TypeOK
  <2>2. /\ ~locked' /\ irq_flags' = irq_flags /\ iflag' = iflag
        /\ GoTo(point) /\ UNCHANGED <<mainVars, halted, pic>>
    BY <1>0, <1>5, <2>0, <2>1 DEF spin_unlock, StillLocked, Restored
  <2>3. Top.irq = I8042_KEYBOARD_IRQ
    BY <2>0, HandlerContext DEF IInv, StackInv
  <2>4. point \in {"tty", "eoi"}
    OBVIOUS
  <2> HIDE DEF point
  <2> QED
    BY <1>0, <2>0, <2>2, <2>3, <2>4, PointStep
<1>6. CASE tty_handle_key
  <2>1. At("tty") /\ GoTo("eoi") /\ pic' = pic /\ Top.at = "tty"
    BY <1>6, HandlerContext DEF tty_handle_key
  <2> QED
    BY <1>0, <1>6, <2>1, PointStep DEF tty_handle_key
<1>7. CASE irq_eoi
  <2>0. /\ At("eoi") /\ Top.at = "eoi" /\ Top.irq \in Lines /\ irq_chip_active
        /\ pic \in [Chips -> Registers]
    BY <1>7, HandlerContext DEF irq_eoi
  <2>1. /\ pic' = i8259A_send_eoi(pic, Top.irq) /\ GoTo("iret")
        /\ UNCHANGED <<iflag, mainVars, halted, lockVars>>
    BY <1>7, <2>0 DEF irq_eoi
  <2>2. \/ \A c \in Chips : pic[c].isr = {}
        \/ \A c \in Chips : pic[c].isr =
               IF c = PortOf(Top.irq) THEN {BitOf(Top.irq)}
               ELSE IF c = "PIC1" THEN {CascadeBit} ELSE {}
    BY <1>0, <2>0 DEF Owed
  <2>3. /\ SameMasks(pic, pic')
        /\ \A c \in Chips : pic'[c].isr = {}
    BY <2>0, <2>1, <2>2, EoiRegisters
  <2> QED
    BY <1>0, <2>0, <2>1, <2>3, PointStep
<1>8. CASE iretq
  <2>0. At("iret")
    BY <1>8 DEF iretq
  <2>1. /\ Top.at = "iret" /\ Top.rflags /\ Tail(stack) = <<>>
        /\ mpc \notin EarlyStages
    BY <2>0, HandlerContext
  <2>2. /\ stack' = <<>> /\ iflag' = TRUE
        /\ UNCHANGED <<mainVars, halted, pic, lockVars>>
    BY <1>8, <2>1 DEF iretq, Frames
  <2>3. Len(stack') = 0
    BY <2>2, EmptySeq
  <2>4. NoHalt' /\ BootInv'
    BY <2>1, <2>2 DEF IInv, NoHalt, BootInv
  <2>5. TableInv'
    BY <2>2 DEF IInv, TableInv, IrqOn
  <2>6. StackInv' /\ LockInv'
    BY <1>0, <2>1, <2>2, <2>3 DEF StackInv, LockInv
  <2>7. ServiceInv'
    BY <1>0, <2>1, <2>2 DEF ServiceInv, Owed
  <2> QED
    BY <2>4, <2>5, <2>6, <2>7 DEF IInv
<1> QED
  BY <1>1, <1>2, <1>3, <1>4, <1>5, <1>6, <1>7, <1>8 DEF Handler

(* An interrupt is taken with interrupts on: nothing is on the stack and   *)
(* nothing in service.                                                     *)
LEMMA TakeContext ==
    ASSUME IInv, TakeInterrupt \/ TakeSpurious
    PROVE  /\ iflag = TRUE /\ stack = <<>> /\ mpc \notin EarlyStages /\ idt = TRUE
           /\ pic \in [Chips -> Registers]
           /\ pic["PIC1"].base = PIC1_IDT_POS /\ pic["PIC2"].base = PIC2_IDT_POS
           /\ \A c \in Chips : pic[c].isr = {}
<1>1. iflag = TRUE
  BY DEF TakeInterrupt, TakeSpurious, IInv, TypeOK
<1>2. stack = <<>> /\ mpc \notin EarlyStages
  BY <1>1 DEF IInv, BootInv
<1> QED
  BY <1>1, <1>2 DEF IInv, BootInv, EarlyStages, TypeOK, ServiceInv, Owed

(* Acknowledged or spurious, one frame for a line of the pair is pushed.   *)
LEMMA TakeFrame ==
    ASSUME IInv, TakeInterrupt \/ TakeSpurious
    PROVE  \E irq \in Lines, acked \in BOOLEAN :
               /\ pic' = IF acked THEN Acknowledge(pic, irq) ELSE pic
               /\ IF acked THEN Delivers(pic, irq) ELSE irq = 7
               /\ stack' # <<>> /\ Len(stack') = 1
               /\ Top'.irq = irq /\ Top'.at = "irq_handle" /\ Top'.rflags
               /\ Top'.acked = acked
               /\ iflag' = FALSE /\ halted' = halted
<1>0. /\ iflag = TRUE /\ stack = <<>> /\ idt = TRUE
      /\ pic["PIC1"].base = PIC1_IDT_POS /\ pic["PIC2"].base = PIC2_IDT_POS
  BY TakeContext
<1>1. ASSUME NEW irq \in Lines, NEW acked \in BOOLEAN,
             EnterVector(Vector(pic, irq), acked)
      PROVE  /\ stack' # <<>> /\ Len(stack') = 1
             /\ Top'.irq = irq /\ Top'.at = "irq_handle" /\ Top'.rflags
             /\ Top'.acked = acked
             /\ iflag' = FALSE /\ halted' = halted
  <2>1. Vector(pic, irq) = PIC_IDT_BASE + irq /\ ~(Vector(pic, irq) < PIC_IDT_BASE)
    BY <1>0 DEF Vector, PortOf, BitOf, Lines, PIC1_IDT_POS, PIC2_IDT_POS,
                PIC_IDT_BASE
  <2> DEFINE v == Vector(pic, irq)
             f == [irq |-> v - PIC_IDT_BASE, at |-> "irq_handle", key |-> 0,
                   rflags |-> iflag, acked |-> acked]
  <2>2. stack' = <<f>> \o <<>> /\ iflag' = FALSE /\ halted' = halted
    BY <1>0, <1>1, <2>1 DEF EnterVector, IFAfterGate
  <2>3. v - PIC_IDT_BASE = irq
    BY <2>1 DEF PIC_IDT_BASE, Lines
  <2>4. stack' = <<f>>
    BY <2>2
  <2> HIDE DEF v
  <2> QED
    BY <2>2, <2>3, <2>4, <1>0 DEF Top
<1>2. CASE TakeInterrupt
  <2>1. PICK irq \in Lines : /\ Delivers(pic, irq)
                             /\ EnterVector(Vector(pic, irq), TRUE)
                             /\ pic' = Acknowledge(pic, irq)
    BY <1>2 DEF TakeInterrupt
  <2> QED
    BY <1>1, <2>1
<1>3. CASE TakeSpurious
  <2>1. EnterVector(Vector(pic, 7), FALSE) /\ pic' = pic
    BY <1>3 DEF TakeSpurious
  <2>2. 7 \in Lines
    BY DEF Lines
  <2> QED
    BY <1>1, <2>1, <2>2
<1> QED
  BY <1>2, <1>3

LEMMA TakeInv == IInv /\ TypeOK' /\ (TakeInterrupt \/ TakeSpurious) => IInv'
<1> SUFFICES ASSUME IInv, TypeOK', TakeInterrupt \/ TakeSpurious PROVE IInv'
  OBVIOUS
<1> USE DEF mainVars, lockVars, keyVars, timeVars
<1>0. /\ iflag = TRUE /\ stack = <<>> /\ mpc \notin EarlyStages /\ idt = TRUE
      /\ pic \in [Chips -> Registers]
      /\ \A c \in Chips : pic[c].isr = {}
  BY TakeContext
<1>2. PICK irq \in Lines, acked \in BOOLEAN :
          /\ pic' = IF acked THEN Acknowledge(pic, irq) ELSE pic
          /\ stack' # <<>> /\ Len(stack') = 1
          /\ Top'.irq = irq /\ Top'.at = "irq_handle" /\ Top'.rflags
          /\ Top'.acked = acked
          /\ iflag' = FALSE /\ halted' = halted
  BY TakeFrame
<1>4. /\ SameMasks(pic, pic')
      /\ \A c \in Chips : pic'[c].isr =
             IF ~acked THEN {}
             ELSE IF c = PortOf(irq) THEN {BitOf(irq)}
             ELSE IF c = "PIC1" THEN {CascadeBit} ELSE {}
  <2>1. CASE acked
    BY <1>0, <1>2, <2>1, AcknowledgeRegisters
  <2>2. CASE ~acked
    BY <1>0, <1>2, <2>2 DEF SameMasks
  <2> QED
    BY <2>1, <2>2
<1>5. UNCHANGED <<mainVars, lockVars>>
  BY DEF TakeInterrupt, TakeSpurious
<1>6. NoHalt' /\ BootInv'
  BY <1>0, <1>2, <1>4, <1>5 DEF IInv, NoHalt, BootInv, SameMasks, Chips
<1>7. TableInv'
  <2>1. \A l \in Lines : IrqOn(l)' <=> IrqOn(l)
    BY <1>4 DEF IrqOn, SameMasks, PortOf, Chips
  <2> QED
    BY <1>5, <2>1 DEF IInv, TableInv
<1>8. StackInv'
  BY <1>0, <1>2, <1>5 DEF StackInv, KeyboardPoints
<1>9. LockInv'
  BY <1>0, <1>2, <1>5 DEF IInv, LockInv
<1>10. ServiceInv'
  BY <1>2, <1>4 DEF ServiceInv, Owed, BeforeEoi
<1> QED
  BY <1>6, <1>7, <1>8, <1>9, <1>10 DEF IInv

LEMMA DevicesInv == IInv /\ TypeOK' /\ Devices => IInv'
<1> SUFFICES ASSUME IInv, TypeOK', Devices PROVE IInv'
  OBVIOUS
<1> USE DEF mainVars, lockVars, keyVars, timeVars
<1>1. UNCHANGED <<iflag, stack, halted, mainVars, lockVars>>
  BY DEF Devices, TimerEdge, KeyEdge, OtherEdge
<1>2. /\ SameMasks(pic, pic')
      /\ \A c \in Chips : pic'[c].isr = pic[c].isr
  <2>1. pic' = pic \/ \E irq \in Lines : pic' = Edge(pic, irq)
    BY DevicesAssumption DEF Devices, TimerEdge, KeyEdge, OtherEdge,
       TIMER_IRQ, I8042_KEYBOARD_IRQ, Lines
  <2>2. pic \in [Chips -> Registers]
    BY DEF IInv, TypeOK
  <2> QED
    BY <2>1, <2>2, EdgeRegisters DEF SameMasks
<1>3. NoHalt' /\ BootInv'
  BY <1>1, <1>2 DEF IInv, NoHalt, BootInv, SameMasks, Chips
<1>4. TableInv'
  <2>1. \A l \in Lines : IrqOn(l)' <=> IrqOn(l)
    BY <1>2 DEF IrqOn, SameMasks, PortOf, Chips
  <2> QED
    BY <1>1, <2>1 DEF IInv, TableInv
<1>5. StackInv' /\ LockInv'
  BY <1>1 DEF IInv, StackInv, LockInv, Top
<1>6. ServiceInv'
  BY <1>1, <1>2 DEF IInv, ServiceInv, Owed, Top
<1> QED
  BY <1>3, <1>4, <1>5, <1>6 DEF IInv

LEMMA MainInv == IInv /\ TypeOK' /\ Main => IInv'
<1> SUFFICES ASSUME IInv, TypeOK', Main PROVE IInv'
  OBVIOUS
<1> USE DEF MainStep, EarlyStages, mainVars, lockVars, keyVars, timeVars
<1>0. /\ TypeOK /\ NoHalt /\ BootInv /\ TableInv /\ StackInv /\ LockInv
      /\ ServiceInv
  BY DEF IInv
<1>1. stack = <<>> /\ stack' = stack /\ halted' = halted
  BY DEF Main, idt_init, irq_arch_init, sti, irq_request_install,
         irq_request_unmask, spinlock_init, hlt
<1>2. NoHalt' /\ StackInv'
  BY <1>0, <1>1 DEF NoHalt, StackInv
<1>3. LockInv'
  <2>1. UNCHANGED lockVars \/ (locked' = FALSE /\ irq_flags' = FALSE)
    BY DEF Main, idt_init, irq_arch_init, sti, irq_request_install,
           irq_request_unmask, spinlock_init, hlt
  <2> QED
    BY <1>0, <1>1, <2>1 DEF LockInv
<1>4. ASSUME \A c \in Chips : pic'[c].isr = {}
      PROVE  ServiceInv'
  BY <1>1, <1>4 DEF ServiceInv, Owed
<1>5. \A c \in Chips : pic[c].isr = {}
  BY <1>0, <1>1 DEF ServiceInv, Owed
<1>6. ASSUME BootInv', TableInv', \A c \in Chips : pic'[c].isr = {}
      PROVE  IInv'
  BY <1>2, <1>3, <1>4, <1>6 DEF IInv
<1>7. pic \in [Chips -> Registers] /\ irq_table \in [Lines -> Handlers]
  BY <1>0 DEF TypeOK
<1>8. CASE idt_init
  BY <1>0, <1>1, <1>5, <1>6, <1>8 DEF idt_init, BootInv, TableInv
<1>9. CASE irq_arch_init
  <2>1. \A c \in Chips : /\ pic'[c].isr = {} /\ pic'[c].imr = Bits
                         /\ pic'[c].base = IF c = "PIC1" THEN PIC1_IDT_POS
                                                         ELSE PIC2_IDT_POS
    BY <1>7, <1>9, InitRegisters DEF irq_arch_init
  <2>2. BootInv'
    BY <1>0, <1>1, <1>9, <2>1 DEF irq_arch_init, BootInv, Chips
  <2>3. \A irq \in Lines : ~IrqOn(irq)'
    BY <2>1 DEF IrqOn, PortOf, BitOf, Lines, Bits, Chips
  <2>4. TableInv'
    BY <1>0, <1>9, <2>3 DEF irq_arch_init, TableInv
  <2> QED
    BY <1>6, <2>1, <2>2, <2>4
<1>10. CASE sti
  BY <1>0, <1>1, <1>5, <1>6, <1>10 DEF sti, BootInv, TableInv, IrqOn
<1>11. CASE irq_request_install
  <2> DEFINE irq == Requests[req]
  <2>1. BootInv'
    BY <1>0, <1>1, <1>11 DEF irq_request_install, RequestDone, BootInv
  <2>2. CASE InRange(irq) /\ irq_chip_active
    <3>1. irq \in Lines /\ DOMAIN irq_table \cup {irq} = Lines
      BY <1>7, <2>2, RangeIsLines
    <3>2. /\ irq_table' = [l \in Lines |-> IF l = irq THEN HandlerOf(irq)
                                                      ELSE irq_table[l]]
          /\ mpc' = "unmask" /\ req' = req /\ pic' = pic /\ mpc = "install"
      BY <1>11, <2>2, <3>1 DEF irq_request_install
    <3>3. TableInv'
      BY <1>0, <3>1, <3>2 DEF TableInv, IrqOn
    <3> QED
      BY <1>5, <1>6, <2>1, <3>2, <3>3
  <2>3. CASE ~(InRange(irq) /\ irq_chip_active)
    <3>1. /\ irq_table' = irq_table /\ pic' = pic /\ mpc = "install"
          /\ mpc' \in {"install", "hlt"}
      BY <1>11, <2>3 DEF irq_request_install, RequestDone
    <3>2. TableInv'
      BY <1>0, <3>1 DEF TableInv, IrqOn
    <3> QED
      BY <1>5, <1>6, <2>1, <3>1, <3>2
  <2> QED
    BY <2>2, <2>3
<1>12. CASE irq_request_unmask
  <2> DEFINE irq == Requests[req]
  <2>0. /\ mpc = "unmask" /\ mpc' \in {"install", "hlt", "spinlock_init"}
        /\ pic' = i8259A_unmask_irq(pic, irq)
        /\ UNCHANGED <<iflag, idt, irq_chip_active, irq_table>>
    BY <1>12 DEF irq_request_unmask, RequestDone
  <2>1. irq \in Lines /\ irq_table[irq] = HandlerOf(irq)
    BY <1>0, <2>0 DEF TableInv
  <2>2. /\ \A c \in Chips : pic'[c].isr = {} /\ pic'[c].base = pic[c].base
        /\ \A l \in Lines \ {irq} : IrqOn(l)' => IrqOn(l)
    BY <1>5, <1>7, <2>0, <2>1, UnmaskRegisters DEF IrqOn
  <2>3. BootInv'
    BY <1>0, <1>1, <2>0, <2>2 DEF BootInv, Chips
  <2>4. TableInv'
    BY <1>0, <2>0, <2>1, <2>2 DEF TableInv
  <2> QED
    BY <1>6, <2>2, <2>3, <2>4
<1>13. CASE spinlock_init
  <2>1. /\ mpc = "spinlock_init" /\ mpc' \in {"install", "hlt"}
        /\ UNCHANGED <<iflag, pic, idt, irq_chip_active, irq_table>>
    BY <1>13 DEF spinlock_init, RequestDone
  <2> QED
    BY <1>0, <1>1, <1>5, <1>6, <2>1 DEF BootInv, TableInv, IrqOn
<1>14. CASE hlt
  BY <1>0, <1>1, <1>5, <1>6, <1>14 DEF hlt, BootInv, TableInv, IrqOn
<1> QED
  BY <1>8, <1>9, <1>10, <1>11, <1>12, <1>13, <1>14 DEF Main

(* The invariant holds of every boot that finds the statics zero.          *)
THEOREM Invariance ==
    ASSUME BssZeroed = TRUE
    PROVE  Spec => []IInv
<1>1. Init /\ TypeOK => IInv
  <2> SUFFICES ASSUME Init, TypeOK PROVE IInv
    OBVIOUS
  <2>1. Len(<<>>) = 0
    OBVIOUS
  <2> QED
    BY <2>1 DEF Init, Bss, IInv, NoHalt, BootInv, TableInv, StackInv, LockInv,
                ServiceInv, Owed, EarlyStages, Chips
<1>2. IInv /\ TypeOK' /\ [Next]_vars => IInv'
  <2>1. CASE UNCHANGED vars
    <3>1. /\ UNCHANGED <<iflag, stack, mpc, halted, idt, pic>>
          /\ UNCHANGED <<irq_chip_active, irq_table, req, locked, irq_flags>>
      BY <2>1 DEF vars
    <3> QED
      BY <3>1 DEF IInv, NoHalt, BootInv, TableInv, IrqOn, StackInv,
                  LockInv, ServiceInv, Owed, Top
  <2> QED
    BY <2>1, MainInv, TakeInv, HandlerInv, DevicesInv DEF Next, Cpu
<1> QED
  BY <1>1, <1>2, TypeCorrect, PTL DEF Spec

-----------------------------------------------------------------------------
(* The properties, each for every boot that finds the statics zero.        *)

(* No request order, key, tick, spurious or unexpected interrupt makes the *)
(* kernel panic, take an exception or call through an empty table entry.   *)
THEOREM NeverHalts ==
    ASSUME BssZeroed = TRUE
    PROVE  Spec => []NoHalt
<1>1. IInv => NoHalt
  BY DEF IInv
<1> QED
  BY <1>1, Invariance, PTL

(* At most one handler runs at any time.                                   *)
THEOREM NeverNested ==
    ASSUME BssZeroed = TRUE
    PROVE  Spec => []HandlersDontNest
<1>1. IInv => HandlersDontNest
  BY DEF IInv, StackInv, HandlersDontNest
<1> QED
  BY <1>1, Invariance, PTL

(* Every EOI retires the interrupt of the handler that sends it.           *)
THEOREM EoiRetiresOwn ==
    ASSUME BssZeroed = TRUE
    PROVE  Spec => []InServiceMatches
<1>1. IInv => InServiceMatches
  <2> SUFFICES ASSUME IInv, NEW irq \in Lines \ {CascadeBit}
               PROVE  BitOf(irq) \in pic[PortOf(irq)].isr <=>
                          \E f \in InFlight : /\ f.acked /\ f.irq = irq
                                              /\ f.at \in BeforeEoi
    BY DEF InServiceMatches
  <2>1. pic[PortOf(irq)].isr = Owed(PortOf(irq))
    BY DEF IInv, ServiceInv, PortOf, Chips
  <2>2. CASE stack = <<>>
    <3>1. InFlight = {}
      BY <2>2 DEF InFlight
    <3> QED
      BY <2>1, <2>2, <3>1 DEF Owed
  <2>3. CASE stack # <<>>
    <3>1. Len(stack) = 1 /\ stack \in Seq(Frames)
      BY <2>3, OneFrame DEF IInv, TypeOK
    <3>2. InFlight = {Top}
      BY <3>1, LenProperties DEF InFlight, Top
    <3>3. Top.irq \in Lines
      BY <2>3 DEF IInv, StackInv
    <3>4. BitOf(irq) \in Owed(PortOf(irq)) <=>
              Top.acked /\ Top.at \in BeforeEoi /\ Top.irq = irq
      <4>1. PortOf(irq) = PortOf(Top.irq) =>
                (BitOf(irq) = BitOf(Top.irq) <=> irq = Top.irq)
        BY <3>3 DEF PortOf, BitOf, Lines
      <4>2. PortOf(irq) = "PIC1" => BitOf(irq) # CascadeBit
        BY DEF PortOf, BitOf, Lines, CascadeBit
      <4> QED
        BY <2>3, <4>1, <4>2 DEF Owed
    <3> QED
      BY <2>1, <3>2, <3>4
  <2> QED
    BY <2>2, <2>3
<1> QED
  BY <1>1, Invariance, PTL

(* No line is live without its handler.                                    *)
THEOREM HandlerBeforeUnmask ==
    ASSUME BssZeroed = TRUE
    PROVE  Spec => []UnmaskedHasHandler
<1>1. IInv => UnmaskedHasHandler
  BY DEF IInv, BootInv, TableInv, EarlyStages, UnmaskedHasHandler
<1> QED
  BY <1>1, Invariance, PTL

(* kmain resumes from every handler with interrupts on and the lock free.  *)
THEOREM MainResumes ==
    ASSUME BssZeroed = TRUE
    PROVE  Spec => []MainInterruptible
<1>1. IInv => MainInterruptible
  BY DEF IInv, BootInv, LockInv, EarlyStages, MainInterruptible
<1> QED
  BY <1>1, Invariance, PTL
=============================================================================
