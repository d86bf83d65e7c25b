------------------------------- MODULE I8259 -------------------------------
(***************************************************************************)
(* The cascaded pair of 8259A interrupt controllers and the driver that    *)
(* programs them (arch/x86/i8259.c).  The module has no variables: the     *)
(* registers of both chips are one value, pic, owned by the state machine  *)
(* that extends this module.                                               *)
(*                                                                         *)
(* The first half is the hardware, which is not part of the repository: it *)
(* is modelled from the commands the driver sends and from the documented  *)
(* edge-triggered, fully nested mode they select.  The second half is the  *)
(* driver.                                                                 *)
(***************************************************************************)
EXTENDS Integers

Chips == {"PIC1", "PIC2"}      (* master and slave                         *)
Bits  == 0..7                  (* the inputs of one chip                   *)
Lines == 0..15                 (* IRQ numbers of the pair                  *)
CascadeBit == 2                (* the master's input the slave drives      *)

PIC1_IDT_POS == 32
PIC2_IDT_POS == 40
BiosBases == {8, 112}          (* vector bases the BIOS leaves behind      *)

(* Which data port the driver selects for a line, and the bit within it.   *)
PortOf(irq) == IF irq < 8 THEN "PIC1" ELSE "PIC2"
BitOf(irq)  == IF irq < 8 THEN irq ELSE irq - 8

(* irr: latched requests; isr: requests in service; imr: masked inputs;    *)
(* base: vector of input 0.                                                *)
Registers == [irr  : SUBSET Bits,
              isr  : SUBSET Bits,
              imr  : SUBSET Bits,
              base : BiosBases \cup {PIC1_IDT_POS, PIC2_IDT_POS}]

-----------------------------------------------------------------------------
(* The hardware.                                                           *)

(* Chip registers r signal input b: it is the unmasked request of highest  *)
(* priority and outranks everything in service.                            *)
Forwards(r, b) ==
    /\ b \in r.irr \ r.imr
    /\ \A q \in r.irr \ r.imr : b =< q
    /\ \A s \in r.isr : b < s

(* The slave's output is the master's input 2.                             *)
MasterInputs(pic) ==
    IF \E b \in Bits : Forwards(pic["PIC2"], b)
    THEN [pic["PIC1"] EXCEPT !.irr = @ \cup {CascadeBit}]
    ELSE pic["PIC1"]

(* The pair presents irq to the processor.                                 *)
Delivers(pic, irq) ==
    \/ /\ irq < 8
       /\ irq # CascadeBit
       /\ Forwards(MasterInputs(pic), irq)
    \/ /\ irq >= 8
       /\ Forwards(MasterInputs(pic), CascadeBit)
       /\ Forwards(pic["PIC2"], irq - 8)

(* The INTR pin.                                                           *)
INTR(pic) == \E irq \in Lines : Delivers(pic, irq)

(* An edge on an input is latched whether or not the input is masked.      *)
Edge(pic, irq) == [pic EXCEPT ![PortOf(irq)].irr = @ \cup {BitOf(irq)}]

TakeIntoService(r, b) == [r EXCEPT !.irr = @ \ {b}, !.isr = @ \cup {b}]

(* The interrupt acknowledge cycle for line irq.                           *)
Acknowledge(pic, irq) ==
    [c \in Chips |->
        CASE c = PortOf(irq)             -> TakeIntoService(pic[c], BitOf(irq))
          [] c = "PIC1" /\ irq >= 8      -> TakeIntoService(pic[c], CascadeBit)
          [] OTHER                       -> pic[c]]

(* The vector the pair answers with.                                       *)
Vector(pic, irq) == pic[PortOf(irq)].base + BitOf(irq)

(* A non-specific EOI clears the in-service bit of highest priority.       *)
NonSpecificEoi(r) == [r EXCEPT !.isr = {b \in @ : \E h \in @ : h < b}]

(* ICW1..ICW4: the edge latches, the in-service and the mask registers are *)
(* cleared and the vector base is set.                                     *)
Initialise(base) == [irr |-> {}, isr |-> {}, imr |-> {}, base |-> base]

-----------------------------------------------------------------------------
(* The driver.                                                             *)

i8259A_mask_all(pic) == [c \in Chips |-> [pic[c] EXCEPT !.imr = Bits]]

i8259A_init_no_mask(pic) ==
    [c \in Chips |-> Initialise(IF c = "PIC1" THEN PIC1_IDT_POS
                                              ELSE PIC2_IDT_POS)]

i8259A_init(pic) ==
    i8259A_mask_all([c \in Chips |->
        Initialise(IF c = "PIC1" THEN PIC1_IDT_POS ELSE PIC2_IDT_POS)])

i8259A_unmask_irq(pic, irq) ==
    [pic EXCEPT ![PortOf(irq)].imr = @ \ {BitOf(irq)}]

i8259A_send_eoi_slave_only(pic, irq) ==
    [pic EXCEPT !["PIC2"] = IF irq >= 8 THEN NonSpecificEoi(@) ELSE @]

i8259A_send_eoi(pic, irq) ==
    [c \in Chips |->
        IF c = "PIC1" \/ irq >= 8 THEN NonSpecificEoi(pic[c]) ELSE pic[c]]
=============================================================================
