----------------------------- MODULE Interrupts -----------------------------
(***************************************************************************)
(* The interrupt path of SnakeOS: kmain brings the machine up while the    *)
(* timer and the keyboard interrupt it.  One processor runs either kmain   *)
(* or the handlers stacked on top of it; the devices run beside it.        *)
(*                                                                         *)
(* kmain (init/kmain.c) is reduced to the steps that change interrupt      *)
(* state, and every handler (idt.asm stub, irq_handle, i8253 or i8042      *)
(* handler, keyboard lock, EOI, iretq) is a chain of steps, so an edge     *)
(* may arrive between any two of them.  What is printed, what a scancode   *)
(* means and what the terminal does with a key are left to other modules.  *)
(***************************************************************************)
EXTENDS I8259, Sequences

CONSTANTS
    OtherRequests,   \* lines requested after the timer and the keyboard
    OtherDevices,    \* lines, besides 0 and 1, on which a device signals
    BssZeroed,       \* is the memory of the zero-initialised statics zero?
    EarlyKeys,       \* may a key be pressed before the PIC is initialised?
    Paced,           \* do devices wait for kmain to run between two edges?
    MaxKeys,         \* bytes the keyboard sends
    NoneKeys,        \* those of them that translate to KEY_NONE
    TickMod          \* tick and edges are counted modulo TickMod

ASSUME RequestsAssumption == OtherRequests \in Seq(Int)
ASSUME DevicesAssumption  == OtherDevices \subseteq Lines \ {0, 1, CascadeBit}
ASSUME FlagsAssumption    == {BssZeroed, EarlyKeys, Paced} \subseteq BOOLEAN
ASSUME KeysAssumption     == MaxKeys \in Nat /\ NoneKeys \subseteq 1..MaxKeys
ASSUME TickAssumption     == TickMod \in Nat /\ TickMod > 2

VARIABLES
    iflag,           \* the interrupt flag of RFLAGS
    stack,           \* frames of the running handlers, the innermost first
    mpc,             \* the next step of kmain
    halted,          \* why the processor stopped for good, or "no"
    idt,             \* has lidt loaded the filled table?
    pic,             \* registers of the two 8259A chips
    irq_chip_active, \* has the PIC driver been registered?
    irq_table,       \* handler of every line
    req,             \* index in Requests of the irq_request under way
    locked,          \* kbd.lock.locked
    irq_flags,       \* kbd.lock.irq_flags (the interrupt flag in it)
    obf,             \* bytes waiting in the keyboard and its controller
    sent,            \* bytes the keyboard has sent
    fed,             \* bytes whose key event tty_handle_key has received
    tick,            \* the timer's tick
    edges,           \* PIT edges since line 0 was unmasked
    due              \* lines that signalled since kmain last executed

mainVars   == <<mpc, idt, irq_chip_active, irq_table, req>>
lockVars   == <<locked, irq_flags>>
keyVars    == <<obf, sent, fed>>
timeVars   == <<tick, edges>>
vars == <<iflag, stack, mpc, halted, idt, pic, irq_chip_active, irq_table, req,
          locked, irq_flags, obf, sent, fed, tick, edges, due>>

TIMER_IRQ == 0
I8042_KEYBOARD_IRQ == 1
PIC_IDT_BASE == 32
NMBR_IRQS == 16

(* The lines requested by kmain: timer_init, then keyboard_init.           *)
Requests == <<TIMER_IRQ, I8042_KEYBOARD_IRQ>> \o OtherRequests

Handlers == {"none", "i8253_irq_handle", "i8042_irq_handler", "other",
             "garbage"}
HandlerOf(irq) == CASE irq = TIMER_IRQ          -> "i8253_irq_handle"
                    [] irq = I8042_KEYBOARD_IRQ -> "i8042_irq_handler"
                    [] OTHER                    -> "other"

Stages == {"idt_init", "irq_arch_init", "sti", "install", "unmask",
           "spinlock_init", "hlt"}
Points == {"irq_handle", "timer", "inb", "lock", "unlock", "tty", "eoi",
           "iret"}
Reasons == {"no", "triple fault", "exception", "invalid IRQ",
            "wild handler", "double lock", "unlock without lock"}

(* irq: the number the stub passes; at: the handler's next step; key: the  *)
(* scancode it holds; rflags: the interrupted interrupt flag; acked: FALSE *)
(* for a spurious interrupt, which no in-service bit stands for.           *)
Frames == [irq : 0 .. 255 - PIC_IDT_BASE, at : Points, key : 0..MaxKeys,
           rflags : BOOLEAN, acked : BOOLEAN]

TypeOK ==
    /\ iflag \in BOOLEAN
    /\ stack \in Seq(Frames)
    /\ mpc \in Stages
    /\ halted \in Reasons
    /\ idt \in BOOLEAN
    /\ pic \in [Chips -> Registers]
    /\ irq_chip_active \in BOOLEAN
    /\ irq_table \in [Lines -> Handlers]
    /\ req \in 1..Len(Requests)
    /\ locked \in BOOLEAN
    /\ irq_flags \in BOOLEAN
    /\ obf \in Seq(1..MaxKeys)
    /\ sent \in 0..MaxKeys
    /\ fed \in Seq(0..MaxKeys)
    /\ tick \in 0 .. TickMod - 1
    /\ edges \in 0 .. TickMod - 1
    /\ due \subseteq Lines

-----------------------------------------------------------------------------
(* Counting modulo TickMod, for n in 0 .. TickMod - 1.                     *)
Next1(n) == IF n + 1 = TickMod THEN 0 ELSE n + 1

(* A static the C source leaves to .bss: zero, unless nothing cleared it.  *)
Bss(zero, other) == IF BssZeroed THEN {zero} ELSE {zero, other}

(* kmain is entered with interrupts off and the PIC as the BIOS left it.   *)
Init ==
    /\ iflag = FALSE
    /\ stack = <<>>
    /\ mpc = "idt_init"
    /\ halted = "no"
    /\ idt = FALSE
    /\ pic = [c \in Chips |->
                 [irr  |-> {}, isr |-> {}, imr |-> {},
                  base |-> IF c = "PIC1" THEN 8 ELSE 112]]
    /\ irq_chip_active \in Bss(FALSE, TRUE)
    /\ \E h \in Bss("none", "garbage") : irq_table = [irq \in Lines |-> h]
    /\ req = 1
    /\ locked \in Bss(FALSE, TRUE)
    /\ irq_flags \in Bss(FALSE, TRUE)
    /\ obf = <<>>
    /\ sent = 0
    /\ fed = <<>>
    /\ tick \in Bss(0, TickMod - 1)
    /\ edges = 0
    /\ due = {}

Running == halted = "no"

(* The processor polls INTR between two instructions, and takes a pending  *)
(* interrupt before the next one.                                          *)
Executes == Running /\ ~(iflag /\ INTR(pic))

IrqOn(irq) == BitOf(irq) \notin pic[PortOf(irq)].imr
Latched(irq) == BitOf(irq) \in pic[PortOf(irq)].irr

-----------------------------------------------------------------------------
(* kmain.                                                                  *)

(* kmain executes: no handler runs and none is due.                        *)
MainStep(from) ==
    /\ Executes
    /\ stack = <<>>
    /\ mpc = from

idt_init ==
    /\ MainStep("idt_init")
    /\ idt' = TRUE
    /\ mpc' = "irq_arch_init"
    /\ due' = {}
    /\ UNCHANGED <<iflag, stack, halted, pic, irq_chip_active, irq_table, req,
                   lockVars, keyVars, timeVars>>

(* irq_set_chip(&i8259A_chip): register the driver, then irq_init.         *)
irq_arch_init ==
    /\ MainStep("irq_arch_init")
    /\ irq_chip_active' = TRUE
    /\ pic' = i8259A_init(pic)
    /\ mpc' = "sti"
    /\ due' = {}
    /\ UNCHANGED <<iflag, stack, halted, idt, irq_table, req,
                   lockVars, keyVars, timeVars>>

sti ==
    /\ MainStep("sti")
    /\ iflag' = TRUE
    /\ mpc' = "install"
    /\ due' = {}
    /\ UNCHANGED <<stack, halted, idt, pic, irq_chip_active, irq_table, req,
                   lockVars, keyVars, timeVars>>

(* irq_request returned: on to the next request, or to the idle loop.      *)
RequestDone ==
    IF req < Len(Requests)
    THEN req' = req + 1 /\ mpc' = "install"
    ELSE mpc' = "hlt" /\ UNCHANGED req

InRange_off_by_one(irq) == irq \in 0..NMBR_IRQS
InRange(irq) == irq \in 0 .. NMBR_IRQS - 1

(* irq_request up to the table entry.  A bad line, or no chip: return 1.   *)
irq_request_install ==
    LET irq == Requests[req] IN
    /\ MainStep("install")
    /\ due' = {}
    /\ IF InRange(irq) /\ irq_chip_active
       THEN /\ irq_table' = [l \in DOMAIN irq_table \cup {irq} |->
                                IF l = irq THEN HandlerOf(irq)
                                           ELSE irq_table[l]]
            /\ mpc' = "unmask"
            /\ UNCHANGED req
       ELSE /\ UNCHANGED irq_table
            /\ RequestDone
    /\ UNCHANGED <<iflag, stack, halted, idt, pic, irq_chip_active,
                   lockVars, keyVars, timeVars>>

(* irq_request's last call: the line is live when it returns, and a        *)
(* request latched while it was masked is presented at once.               *)
irq_request_unmask ==
    LET irq == Requests[req] IN
    /\ MainStep("unmask")
    /\ pic' = i8259A_unmask_irq(pic, irq)
    /\ due' = IF Latched(irq) THEN {irq} ELSE {}
    /\ edges' = IF irq # TIMER_IRQ THEN edges
                ELSE IF Latched(irq) THEN 1 ELSE 0
    /\ IF irq = I8042_KEYBOARD_IRQ
       THEN mpc' = "spinlock_init" /\ UNCHANGED req
       ELSE RequestDone
    /\ UNCHANGED <<iflag, stack, halted, idt, irq_chip_active, irq_table,
                   lockVars, keyVars, tick>>

(* The second half of keyboard_init.                                       *)
spinlock_init ==
    /\ MainStep("spinlock_init")
    /\ locked' = FALSE
    /\ irq_flags' = FALSE
    /\ due' = {}
    /\ RequestDone
    /\ UNCHANGED <<iflag, stack, halted, idt, pic, irq_chip_active, irq_table,
                   keyVars, timeVars>>

(* while (1) hlt                                                           *)
hlt ==
    /\ MainStep("hlt")
    /\ due' = {}
    /\ UNCHANGED <<iflag, stack, mpc, halted, idt, pic, irq_chip_active,
                   irq_table, req, lockVars, keyVars, timeVars>>

Main == \/ idt_init \/ irq_arch_init \/ sti
        \/ irq_request_install \/ irq_request_unmask
        \/ spinlock_init \/ hlt

-----------------------------------------------------------------------------
(* Entry of an interrupt: the gates of the IDT and the STUB of idt.asm.    *)

(* type_attr 0x8E is an interrupt gate, 0x8F would be a trap gate.         *)
IFAfterGate_trap(flag) == flag
IFAfterGate(flag) == FALSE

(* Vectors below PIC_IDT_BASE go to exception_handle, which never returns. *)
EnterVector(v, acked) ==
    IF ~idt
    THEN halted' = "triple fault" /\ UNCHANGED <<iflag, stack>>
    ELSE IF v < PIC_IDT_BASE
    THEN halted' = "exception" /\ iflag' = IFAfterGate(iflag) /\ UNCHANGED stack
    ELSE /\ stack' = <<[irq |-> v - PIC_IDT_BASE, at |-> "irq_handle",
                        key |-> 0, rflags |-> iflag, acked |-> acked]>> \o stack
         /\ iflag' = IFAfterGate(iflag)
         /\ UNCHANGED halted

TakeInterrupt ==
    /\ Running
    /\ iflag
    /\ \E irq \in Lines :
          /\ Delivers(pic, irq)
          /\ EnterVector(Vector(pic, irq), TRUE)
          /\ pic' = Acknowledge(pic, irq)
    /\ UNCHANGED <<mainVars, lockVars, keyVars, timeVars, due>>

(* A request that vanished before the acknowledge cycle is answered with   *)
(* the vector of input 7, and no in-service bit is set.                    *)
TakeSpurious ==
    /\ Executes
    /\ iflag
    /\ Paced => 7 \notin due
    /\ due' = due \cup {7}
    /\ EnterVector(Vector(pic, 7), FALSE)
    /\ UNCHANGED <<mainVars, pic, lockVars, keyVars, timeVars>>

-----------------------------------------------------------------------------
(* The handlers.                                                           *)

Top == stack[1]
At(point) == Executes /\ stack # <<>> /\ Top.at = point
GoTo(point) == stack' = [stack EXCEPT ![1].at = point]

(* irq_handle: range check, then the handler of the line, if it has one.   *)
irq_handle ==
    /\ At("irq_handle")
    /\ IF ~InRange(Top.irq)
       THEN halted' = "invalid IRQ" /\ UNCHANGED stack
       ELSE LET handler == irq_table[Top.irq] IN
            IF handler = "garbage"
            THEN halted' = "wild handler" /\ UNCHANGED stack
            ELSE /\ GoTo(CASE handler = "i8253_irq_handle"  -> "timer"
                           [] handler = "i8042_irq_handler" -> "inb"
                           [] OTHER                         -> "eoi")
                 /\ UNCHANGED halted
    /\ UNCHANGED <<iflag, mainVars, pic, lockVars, keyVars, timeVars, due>>

timer_handle_tick ==
    /\ At("timer")
    /\ tick' = Next1(tick)
    /\ GoTo("eoi")
    /\ UNCHANGED <<iflag, mainVars, halted, pic, lockVars, keyVars, edges, due>>

(* inb(I8042_DATA) frees the output buffer; a waiting byte moves in and    *)
(* makes a new edge.  An empty buffer would return a stale byte, here 0.   *)
i8042_irq_handler ==
    /\ At("inb")
    /\ stack' = [stack EXCEPT ![1].at  = "lock",
                              ![1].key = IF obf = <<>> THEN 0 ELSE Head(obf)]
    /\ obf' = IF obf = <<>> THEN obf ELSE Tail(obf)
    /\ pic' = IF Len(obf) > 1 THEN Edge(pic, I8042_KEYBOARD_IRQ) ELSE pic
    /\ UNCHANGED <<iflag, mainVars, halted, lockVars, sent, fed, timeVars, due>>

(* spin_lock(&kbd.lock): irq_save, the check, the lock.                    *)
spin_lock ==
    /\ At("lock")
    /\ iflag' = FALSE
    /\ IF locked
       THEN halted' = "double lock" /\ UNCHANGED <<stack, lockVars>>
       ELSE /\ locked' = TRUE
            /\ irq_flags' = iflag
            /\ GoTo("unlock")
            /\ UNCHANGED halted
    /\ UNCHANGED <<mainVars, pic, keyVars, timeVars, due>>

(* The early return for KEY_NONE also unlocks, and what is restored is the *)
(* flag that was saved.                                                    *)
Translates_all(key) == TRUE
Translates(key) == key \notin NoneKeys
StillLocked_none_path(key) == key \in NoneKeys
StillLocked(key) == FALSE
Restored_sti(flags) == TRUE
Restored(flags) == flags

(* spin_unlock(&kbd.lock), on the KEY_NONE path or before the key event.   *)
spin_unlock ==
    /\ At("unlock")
    /\ IF ~locked
       THEN /\ halted' = "unlock without lock"
            /\ iflag' = FALSE
            /\ UNCHANGED <<stack, locked>>
       ELSE /\ locked' = StillLocked(Top.key)
            /\ iflag' = Restored(irq_flags)
            /\ GoTo(IF Translates(Top.key) THEN "tty" ELSE "eoi")
            /\ UNCHANGED halted
    /\ UNCHANGED <<mainVars, pic, irq_flags, keyVars, timeVars, due>>

tty_handle_key ==
    /\ At("tty")
    /\ fed' = Append(fed, Top.key)
    /\ GoTo("eoi")
    /\ UNCHANGED <<iflag, mainVars, halted, pic, lockVars, obf, sent, timeVars,
                   due>>

(* irq_handle's last call: irq_chip_active->irq_eoi(irq).                  *)
irq_eoi ==
    /\ At("eoi")
    /\ pic' = IF irq_chip_active THEN i8259A_send_eoi(pic, Top.irq) ELSE pic
    /\ GoTo("iret")
    /\ UNCHANGED <<iflag, mainVars, halted, lockVars, keyVars, timeVars, due>>

iretq ==
    /\ At("iret")
    /\ iflag' = Top.rflags
    /\ stack' = Tail(stack)
    /\ UNCHANGED <<mainVars, halted, pic, lockVars, keyVars, timeVars, due>>

Handler == \/ irq_handle \/ timer_handle_tick
           \/ i8042_irq_handler \/ spin_lock \/ spin_unlock \/ tty_handle_key
           \/ irq_eoi \/ iretq

-----------------------------------------------------------------------------
(* The devices.  With Paced, a device that has signalled does not signal   *)
(* again before kmain has run: the PIT's period (10 ms at 100 Hz) and the  *)
(* keyboard's (about 1 ms a byte) are far longer than any handler.         *)

MaySignal(irq) ==
    /\ Running
    /\ Paced => irq \notin due
    /\ due' = due \cup {irq}

TimerEdge ==
    /\ MaySignal(TIMER_IRQ)
    /\ pic' = Edge(pic, TIMER_IRQ)
    /\ edges' = IF IrqOn(TIMER_IRQ) THEN Next1(edges) ELSE edges
    /\ UNCHANGED <<iflag, stack, halted, mainVars, lockVars, keyVars, tick>>

(* A byte raises the line only when it fills the empty output buffer.      *)
KeyEdge ==
    /\ MaySignal(I8042_KEYBOARD_IRQ)
    /\ sent < MaxKeys
    /\ EarlyKeys \/ mpc \notin {"idt_init", "irq_arch_init"}
    /\ sent' = sent + 1
    /\ obf' = Append(obf, sent')
    /\ pic' = IF obf = <<>> THEN Edge(pic, I8042_KEYBOARD_IRQ) ELSE pic
    /\ UNCHANGED <<iflag, stack, halted, mainVars, lockVars, fed, timeVars>>

OtherEdge(irq) ==
    /\ MaySignal(irq)
    /\ pic' = Edge(pic, irq)
    /\ UNCHANGED <<iflag, stack, halted, mainVars, lockVars, keyVars, timeVars>>

Devices == TimerEdge \/ KeyEdge \/ (\E irq \in OtherDevices : OtherEdge(irq))

-----------------------------------------------------------------------------
Cpu  == Main \/ TakeInterrupt \/ TakeSpurious \/ Handler
Next == Cpu \/ Devices

Spec == Init /\ [][Next]_vars

(* The processor keeps executing; spurious interrupts, keys and ticks are  *)
(* never owed.                                                             *)
Fairness == WF_vars(Main \/ TakeInterrupt \/ Handler)
FairSpec == Spec /\ Fairness

-----------------------------------------------------------------------------
(* Properties.                                                             *)

(* No panic, exception, invalid vector, wild handler or triple fault: the  *)
(* bring-up order of kmain (IDT, PIC, sti, then one device after another)  *)
(* and the locking in keyboard_handle_scancode never stop the machine.     *)
NoHalt == halted = "no"

(* A handler runs to its iretq before another starts: the gates clear IF   *)
(* and spin_unlock restores it, never sets it.  Console, terminal and      *)
(* timer state are shared by the handlers without any other protection.    *)
HandlersDontNest == Len(stack) =< 1

BeforeEoi == {"irq_handle", "timer", "inb", "lock", "unlock", "tty", "eoi"}

InFlight == {stack[i] : i \in DOMAIN stack}

(* The in-service bits of the 8259A pair are exactly the acknowledged      *)
(* interrupts whose handler has not reached its EOI: no non-specific EOI   *)
(* ever retires the interrupt of another line, and none is left in         *)
(* service, blocking the lines below it.                                   *)
InServiceMatches ==
    \A irq \in Lines \ {CascadeBit} :
        BitOf(irq) \in pic[PortOf(irq)].isr <=>
            \E f \in InFlight : f.acked /\ f.irq = irq /\ f.at \in BeforeEoi

(* A line the PIC lets through has a handler in irq_table: irq_request     *)
(* fills the entry before it unmasks the line, with interrupts on.  Holds  *)
(* from sti on; before it the BIOS masks are still in place.               *)
UnmaskedHasHandler ==
    iflag => \A irq \in Lines :
                IrqOn(irq) => irq_table[irq] = HandlerOf(irq)

(* The scancodes read from the controller and not in a handler's hands.    *)
Settled == (1 .. sent - Len(obf)) \ {f.key : f \in InFlight}

(* Every scancode with a key event reaches the terminal exactly once, in   *)
(* the order the keys were pressed, whatever interrupts its handler.       *)
KeysInOrder ==
    /\ \A i, j \in DOMAIN fed : i < j => fed[i] < fed[j]
    /\ Settled \ NoneKeys \subseteq {fed[i] : i \in DOMAIN fed}
    /\ {fed[i] : i \in DOMAIN fed} \subseteq (1 .. sent - Len(obf)) \ NoneKeys

(* kmain never runs while a handler's critical section is open, and once   *)
(* interrupts are on it never finds them off.                              *)
MainInterruptible ==
    stack = <<>> /\ halted = "no" =>
        /\ iflag \/ mpc \in {"idt_init", "irq_arch_init", "sti"}
        /\ ~locked

Uncounted == {f \in InFlight : /\ f.irq = TIMER_IRQ
                               /\ f.at \in {"irq_handle", "timer"}}

(* tick misses no PIT edge and counts none twice: the edges since line 0   *)
(* was unmasked are those counted, the one a handler is about to count and *)
(* the one the PIC holds.  Needs Paced: the PIC latches one edge a line.   *)
TicksCounted ==
    irq_chip_active /\ IrqOn(TIMER_IRQ) =>
        LET counted == IF Uncounted # {} THEN Next1(tick) ELSE tick
        IN  edges = IF Latched(TIMER_IRQ) THEN Next1(counted) ELSE counted

(* The panic "spin_lock: double lock" (spinlock.c:42) means what it says:  *)
(* another handler is between spin_lock and spin_unlock.                   *)
PanicIsDoubleLock ==
    halted = "double lock" => \E i \in 2..Len(stack) : stack[i].at = "unlock"

(* A request latched on a line whose irq_request has returned is taken by  *)
(* the processor: the line is active (i8259.c:90).                         *)
RaisedIsServed ==
    \A irq \in {Requests[i] : i \in DOMAIN Requests} \cap Lines :
        IrqOn(irq) /\ Latched(irq) /\ iflag ~> ~Latched(irq)

(* Every byte the keyboard sends is read out of the controller and, if it  *)
(* is a key event, reaches the terminal.                                   *)
EveryByteHandled ==
    \A k \in 1..MaxKeys :
        sent >= k ~> k \in (1 .. sent - Len(obf)) /\
                     (k \in NoneKeys \/ k \in {fed[i] : i \in DOMAIN fed})

-----------------------------------------------------------------------------
(* The inductive invariant behind NoHalt, HandlersDontNest,                *)
(* InServiceMatches, UnmaskedHasHandler and MainInterruptible, for a boot  *)
(* in which the statics are zero.                                          *)

EarlyStages == {"idt_init", "irq_arch_init", "sti"}

(* How far the bring-up has come, and what it has set up by then.          *)
BootInv ==
    /\ mpc # "idt_init" => idt
    /\ mpc \notin {"idt_init", "irq_arch_init"} =>
          /\ irq_chip_active
          /\ pic["PIC1"].base = PIC1_IDT_POS
          /\ pic["PIC2"].base = PIC2_IDT_POS
    /\ iflag <=> stack = <<>> /\ mpc \notin EarlyStages

(* An entry is filled before its line is unmasked, and never with another  *)
(* line's handler.                                                         *)
TableInv ==
    /\ \A irq \in Lines : irq_table[irq] \in {"none", HandlerOf(irq)}
    /\ mpc = "unmask" =>
          /\ Requests[req] \in Lines
          /\ irq_table[Requests[req]] = HandlerOf(Requests[req])
    /\ mpc \notin {"idt_init", "irq_arch_init"} =>
          \A irq \in Lines : IrqOn(irq) => irq_table[irq] = HandlerOf(irq)

KeyboardPoints == {"inb", "lock", "unlock", "tty"}

(* The one handler that may run interrupted kmain with interrupts on.      *)
StackInv ==
    /\ Len(stack) =< 1
    /\ stack # <<>> =>
          /\ mpc \notin EarlyStages
          /\ Top.rflags
          /\ Top.irq \in Lines
          /\ Top.at = "timer" => Top.irq = TIMER_IRQ
          /\ Top.at \in KeyboardPoints => Top.irq = I8042_KEYBOARD_IRQ

LockInv ==
    /\ ~irq_flags
    /\ locked <=> stack # <<>> /\ Top.at = "unlock"

(* The in-service bits of chip c that the running handler accounts for.    *)
Owed(c) ==
    IF stack # <<>> /\ Top.acked /\ Top.at \in BeforeEoi
    THEN IF c = PortOf(Top.irq) THEN {BitOf(Top.irq)}
         ELSE IF c = "PIC1"     THEN {CascadeBit}
         ELSE {}
    ELSE {}

ServiceInv == \A c \in Chips : pic[c].isr = Owed(c)

IInv == /\ TypeOK
        /\ NoHalt
        /\ BootInv
        /\ TableInv
        /\ StackInv
        /\ LockInv
        /\ ServiceInv
=============================================================================
