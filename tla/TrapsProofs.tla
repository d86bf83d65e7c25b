----------------------------- MODULE TrapsProofs -----------------------------
(***************************************************************************)
(* Proofs about the tables of the processor, the way of a trap through     *)
(* them, and what kprint makes of the calls it is given: for any set of    *)
(* vectors, any addresses of the stubs and of the TSS, fields, ints and    *)
(* screens of any size, and any formats that keep to WellFormed.           *)
(***************************************************************************)
EXTENDS Traps, ConsoleProofs, SequenceTheorems

(* Integer division.                                                       *)
LEMMA DivMod ==
    ASSUME NEW n \in Nat, NEW d \in Nat \ {0}
    PROVE  /\ n \div d \in Nat /\ n % d \in 0 .. d - 1
           /\ n = d * (n \div d) + (n % d)
  OBVIOUS

LEMMA Monotone ==
    ASSUME NEW a \in Nat, NEW b \in Nat, NEW c \in Nat, a =< b
    PROVE  c * a =< c * b
  <1>1. PICK k \in Nat : b = a + k
    <2>1. b - a \in Nat /\ b = a + (b - a)
      OBVIOUS
    <2> QED
      BY <2>1
  <1>2. c * b = c * a + c * k /\ c * k \in Nat /\ c * a \in Nat
    BY <1>1
  <1> QED
    BY <1>2

LEMMA DivUnique ==
    ASSUME NEW n \in Nat, NEW d \in Nat \ {0}, NEW q \in Nat, NEW r \in 0 .. d - 1,
           n = d * q + r
    PROVE  n \div d = q /\ n % d = r
  <1> DEFINE p == n \div d
             t == n % d
  <1>1. p \in Nat /\ t \in 0 .. d - 1 /\ n = d * p + t
    BY DivMod
  <1> HIDE DEF p, t
  <1>2. ~(p < q)
    <2> SUFFICES ASSUME p < q PROVE FALSE
      OBVIOUS
    <2>1. d * (p + 1) =< d * q
      BY <1>1, Monotone
    <2>2. d * (p + 1) = d * p + d
      BY <1>1
    <2> QED
      BY <1>1, <2>1, <2>2
  <1>3. ~(q < p)
    <2> SUFFICES ASSUME q < p PROVE FALSE
      OBVIOUS
    <2>1. d * (q + 1) =< d * p
      BY <1>1, Monotone
    <2>2. d * (q + 1) = d * q + d
      OBVIOUS
    <2> QED
      BY <1>1, <2>1, <2>2
  <1>4. p = q
    BY <1>1, <1>2, <1>3
  <1>5. t = r
    BY <1>1, <1>4
  <1> QED
    BY <1>4, <1>5 DEF p, t

LEMMA DivDiv ==
    ASSUME NEW n \in Nat, NEW c \in Nat \ {0}, NEW d \in Nat \ {0}
    PROVE  n \div (c * d) = (n \div c) \div d
  <1> DEFINE q == n \div c
             p == q \div d
             low == c * (q % d) + (n % c)
  <1>1. q \in Nat /\ n % c \in 0 .. c - 1 /\ n = c * q + (n % c)
    BY DivMod
  <1>2. p \in Nat /\ q % d \in 0 .. d - 1 /\ q = d * p + (q % d)
    <2> HIDE DEF q
    <2> QED
      BY <1>1, DivMod
  <1> HIDE DEF q, p
  <1>3. c * d \in Nat \ {0}
    OBVIOUS
  <1>4. n = (c * d) * p + low
    <2>1. c * q = c * (d * p) + c * (q % d)
      BY <1>1, <1>2
    <2>2. c * (d * p) = (c * d) * p
      BY <1>2
    <2> QED
      BY <1>1, <1>2, <2>1, <2>2
  <1>5. low \in 0 .. (c * d) - 1
    <2>1. c * ((q % d) + 1) =< c * d
      BY <1>2, Monotone
    <2>2. c * ((q % d) + 1) = c * (q % d) + c /\ c * (q % d) \in Nat
      BY <1>2
    <2> QED
      BY <1>1, <1>3, <2>1, <2>2
  <1> HIDE DEF low
  <1>6. n \div (c * d) = p
    BY <1>2, <1>3, <1>4, <1>5, DivUnique
  <1> QED
    BY <1>6 DEF p, q

(* The quotient of a number below c * d fits d.                            *)
LEMMA DivBound ==
    ASSUME NEW c \in Nat \ {0}, NEW d \in Nat \ {0}, NEW n \in 0 .. (c * d) - 1
    PROVE  n \div c \in 0 .. d - 1 /\ (n \div c) % d = n \div c
  <1> DEFINE q == n \div c
  <1>1. n \in Nat /\ c * d \in Nat
    OBVIOUS
  <1>2. q \in Nat /\ n % c \in 0 .. c - 1 /\ n = c * q + (n % c)
    BY <1>1, DivMod
  <1> HIDE DEF q
  <1>3. ~(d =< q)
    <2> SUFFICES ASSUME d =< q PROVE FALSE
      OBVIOUS
    <2>1. c * d =< c * q
      BY <1>2, Monotone
    <2> QED
      BY <1>1, <1>2, <2>1
  <1>4. q \in 0 .. d - 1 /\ q = d * 0 + q
    BY <1>2, <1>3
  <1>5. q % d = q
    BY <1>2, <1>4, DivUnique
  <1> QED
    BY <1>4, <1>5 DEF q

-----------------------------------------------------------------------------
(* The fields of a descriptor put together again.                          *)

LEMMA Widths ==
    /\ BYTE \in Nat \ {0} /\ WORD \in Nat \ {0} /\ DWORD \in Nat \ {0}
    /\ DWORD = WORD * WORD /\ NIBBLE \in Nat \ {0}
    /\ WORD * BYTE \in Nat \ {0} /\ DWORD = (WORD * BYTE) * BYTE
  <1>1. NIBBLE \in Nat \ {0}
    BY NibbleAssumption
  <1>2. BYTE \in Nat \ {0} /\ WORD = BYTE * BYTE /\ DWORD = WORD * WORD
    BY <1>1 DEF BYTE, WORD, DWORD
  <1> HIDE DEF BYTE, WORD, DWORD
  <1>3. WORD \in Nat \ {0}
    BY <1>2
  <1>4. DWORD \in Nat \ {0} /\ WORD * BYTE \in Nat \ {0}
    BY <1>2, <1>3
  <1>5. DWORD = (WORD * BYTE) * BYTE
    BY <1>2, <1>3
  <1> QED
    BY <1>1, <1>2, <1>3, <1>4, <1>5

(* The three offset fields of a gate that set_idt_entry writes hold the    *)
(* whole address of the stub, wherever it is.                              *)
THEOREM GateHoldsAddress ==
    ASSUME NEW isr_addr \in Addresses
    PROVE  GateOffset(set_idt_entry(isr_addr)) = isr_addr
  <1> DEFINE mid == isr_addr \div WORD
             high == isr_addr \div DWORD
  <1>1. isr_addr \in 0 .. (DWORD * DWORD) - 1 /\ isr_addr \in Nat
    BY Widths DEF Addresses
  <1>2. isr_addr = WORD * mid + (isr_addr % WORD) /\ mid \in Nat
        /\ isr_addr % WORD \in 0 .. WORD - 1
    BY <1>1, Widths, DivMod
  <1>3. high = mid \div WORD
    <2>1. isr_addr \div (WORD * WORD) = (isr_addr \div WORD) \div WORD
      BY <1>1, Widths, DivDiv
    <2> QED
      BY <2>1, Widths
  <1>4. high % DWORD = high
    BY <1>1, Widths, DivBound
  <1> HIDE DEF mid
  <1>5. mid = WORD * high + (mid % WORD) /\ high \in Nat /\ mid % WORD \in Nat
    <2>1. mid \div WORD \in Nat /\ mid % WORD \in 0 .. WORD - 1
          /\ mid = WORD * (mid \div WORD) + (mid % WORD)
      BY <1>2, Widths, DivMod
    <2> QED
      BY <1>3, <2>1, Widths
  <1> HIDE DEF high
  <1>6. GateOffset(set_idt_entry(isr_addr)) =
            (isr_addr % WORD) + WORD * (mid % WORD) + DWORD * (high % DWORD)
    BY DEF GateOffset, set_idt_entry, mid, high
  <1>7. DWORD * high = WORD * (WORD * high)
    BY <1>5, Widths
  <1>8. WORD * mid = WORD * (WORD * high) + WORD * (mid % WORD)
    BY <1>5, Widths
  <1>9. isr_addr = (isr_addr % WORD) + WORD * (mid % WORD) + DWORD * high
    <2> DEFINE a == WORD * mid
               b == WORD * (mid % WORD)
               c == DWORD * high
    <2>1. a = b + c
      BY <1>7, <1>8, <1>5, Widths
    <2>2. b \in Nat /\ c \in Nat
      BY <1>5, Widths
    <2>3. isr_addr = a + (isr_addr % WORD)
      BY <1>2
    <2> HIDE DEF a, b, c
    <2>4. isr_addr % WORD \in Nat
      BY <1>2, Widths
    <2>5. isr_addr = (isr_addr % WORD) + b + c
      BY <2>1, <2>2, <2>3, <2>4
    <2> QED
      BY <2>5 DEF b, c
  <1> QED
    BY <1>4, <1>6, <1>9

(* The five fields of a system descriptor over its two slots hold the      *)
(* whole base, and its two limit fields the limit.                         *)
THEOREM DescriptorHoldsBase ==
    ASSUME NEW base \in Addresses, NEW limit \in 0..MaxLimit
    PROVE  /\ SysBase(gdt_generate_sys_desc(base, limit)) = base
           /\ SegLimit(gdt_generate_sys_desc(base, limit)[1]) = limit
  <1> DEFINE q == base \div WORD
             r == base \div (WORD * BYTE)
             up == base \div DWORD
             lq == limit \div WORD
  <1>0. base \in 0 .. (DWORD * DWORD) - 1 /\ base \in Nat
        /\ limit \in 0 .. (WORD * NIBBLE) - 1 /\ limit \in Nat
    BY Widths DEF Addresses, MaxLimit
  <1>1. base = WORD * q + (base % WORD) /\ q \in Nat
        /\ base % WORD \in 0 .. WORD - 1
    BY <1>0, Widths, DivMod
  <1>2. r = q \div BYTE /\ up = r \div BYTE
    <2>1. r = (base \div WORD) \div BYTE
      BY <1>0, Widths, DivDiv
    <2>2. base \div ((WORD * BYTE) * BYTE) = (base \div (WORD * BYTE)) \div BYTE
      BY <1>0, Widths, DivDiv
    <2> QED
      BY <2>1, <2>2, Widths
  <1>3. up % DWORD = up
    BY <1>0, Widths, DivBound
  <1>4. limit = WORD * lq + (limit % WORD) /\ lq \in Nat
        /\ limit % WORD \in 0 .. WORD - 1
    BY <1>0, Widths, DivMod
  <1>5. lq % NIBBLE = lq
    BY <1>0, Widths, DivBound
  <1> HIDE DEF q
  <1>6. q = BYTE * r + (q % BYTE) /\ r \in Nat /\ q % BYTE \in Nat
    <2>1. q \div BYTE \in Nat /\ q % BYTE \in 0 .. BYTE - 1
          /\ q = BYTE * (q \div BYTE) + (q % BYTE)
      BY <1>1, Widths, DivMod
    <2> QED
      BY <1>2, <2>1, Widths
  <1> HIDE DEF r
  <1>7. r = BYTE * up + (r % BYTE) /\ up \in Nat /\ r % BYTE \in Nat
    <2>1. r \div BYTE \in Nat /\ r % BYTE \in 0 .. BYTE - 1
          /\ r = BYTE * (r \div BYTE) + (r % BYTE)
      BY <1>6, Widths, DivMod
    <2> QED
      BY <1>2, <2>1, Widths
  <1> HIDE DEF up, lq
  <1>8. /\ SysBase(gdt_generate_sys_desc(base, limit)) =
              (base % WORD) + WORD * (q % BYTE) + (WORD * BYTE) * (r % BYTE)
                + DWORD * (up % DWORD)
        /\ SegLimit(gdt_generate_sys_desc(base, limit)[1]) =
              (limit % WORD) + WORD * (lq % NIBBLE)
    BY DEF SysBase, SegBase, SegLimit, gdt_generate_sys_desc, gdt_generate_seg_desc,
           q, r, up, lq
  <1>9. /\ WORD * q = WORD * (BYTE * r) + WORD * (q % BYTE)
        /\ WORD * (BYTE * r) = (WORD * BYTE) * r
    BY <1>6, Widths
  <1>10. /\ (WORD * BYTE) * r = (WORD * BYTE) * (BYTE * up) + (WORD * BYTE) * (r % BYTE)
         /\ (WORD * BYTE) * (BYTE * up) = DWORD * up
    BY <1>7, Widths
  <1>11. base = (base % WORD) + WORD * (q % BYTE) + (WORD * BYTE) * (r % BYTE)
                  + DWORD * up
    <2> DEFINE a == WORD * q
               b == WORD * (q % BYTE)
               c == (WORD * BYTE) * r
               d == (WORD * BYTE) * (r % BYTE)
               e == DWORD * up
               w == base % WORD
    <2>1. a = c + b /\ c = e + d
      BY <1>9, <1>10
    <2>2. base = a + w
      BY <1>1
    <2>3. b \in Nat /\ d \in Nat /\ e \in Nat /\ w \in Nat
      BY <1>1, <1>6, <1>7, Widths
    <2> HIDE DEF a, b, c, d, e, w
    <2>4. base = w + b + d + e
      BY <2>1, <2>2, <2>3
    <2> QED
      BY <2>4 DEF b, d, e, w
  <1>12. limit = (limit % WORD) + WORD * lq
    <2> DEFINE a == WORD * lq
               w == limit % WORD
    <2>1. limit = a + w
      BY <1>4
    <2>2. a \in Nat /\ w \in Nat
      BY <1>4, Widths
    <2> HIDE DEF a, w
    <2>3. limit = w + a
      BY <2>1, <2>2
    <2> QED
      BY <2>3 DEF a, w
  <1> QED
    BY <1>3, <1>5, <1>8, <1>11, <1>12

-----------------------------------------------------------------------------
(* The way of a trap.                                                      *)

(* What the GDT and the registers that name its slots hold after gdt_init. *)
GdtLoaded ==
    /\ IsCode64(gdt[KERNEL_CS]) /\ IsData(gdt[KERNEL_DS])
    /\ gdt[TSS_SLOT] = gdt_generate_sys_desc(TssAt, TssSize - 1)[1]
    /\ gdt[TSS_SLOT + 1] = gdt_generate_sys_desc(TssAt, TssSize - 1)[2]
    /\ tr = TSS_SLOT

IdtLoaded == idt = [v \in Vectors |-> set_idt_entry(StubAt[v])]

(* While the handler of an IRQ runs: kmain was interrupted and nothing     *)
(* else, by a vector without an error code, and the stack holds what the   *)
(* processor and the stub pushed.                                          *)
InIrq ==
    LET t == trap[1] IN
    /\ Len(trap) = 1 /\ trap = <<t>>
    /\ t.vector \in Vectors /\ ~IsException(t.vector)
    /\ t.stack = <<>> /\ t.rflags = 1
    /\ Len(stack) = 7
    /\ stack[7] = t.regs["rax"] /\ stack[6] = t.regs["rdi"] /\ stack[5] = t.rip
    /\ stack[4] = KERNEL_CS /\ stack[3] = 1 /\ stack[2] = 0 /\ stack[1] = KERNEL_DS
    /\ \A reg \in CalleeSaved : regs[reg] = t.regs[reg]

TrapsInv ==
    /\ DOMAIN regs = Registers /\ DOMAIN gdt = Slots
    /\ cs = KERNEL_CS /\ ds = KERNEL_DS
    /\ pc # "gdt_init" => GdtLoaded
    /\ pc \notin {"gdt_init", "idt_init"} => IdtLoaded
    /\ pc \in {"gdt_init", "idt_init", "kmain"} => stack = <<>> /\ trap = <<>>
    /\ pc = "kmain" => rflags = 1
    /\ pc \in {"irq_handle", "done"} => rflags = 0 /\ InIrq
    /\ pc = "irq_handle" => regs["rdi"] = Top.vector - PIC_IDT_BASE
    /\ pc = "exception_handle" => regs["rdi"] = Top.vector /\ IsException(Top.vector)
    /\ pc # "shutdown"

LEMMA StubIsOwn ==
    ASSUME IdtLoaded, GdtLoaded, NEW v \in Vectors
    PROVE  StubBehind(v) = {v}
  <1>1. StubAt[v] \in Addresses
    BY StubsAssumption
  <1>2. GateOffset(idt[v]) = StubAt[v]
    BY <1>1, GateHoldsAddress DEF IdtLoaded
  <1>3. /\ idt[v].type_attr = {"present", "interrupt_gate"}
        /\ idt[v].selector = KERNEL_CS
    BY DEF IdtLoaded, set_idt_entry, IDT_FLAG_INTERRUPT_GATE
  <1>4. \A w \in Vectors : StubAt[w] = StubAt[v] <=> w = v
    BY StubsAssumption
  <1> QED
    BY <1>2, <1>3, <1>4 DEF StubBehind, GdtLoaded

(* Two facts about short sequences.                                        *)
LEMMA AppendSecond ==
    ASSUME NEW a, NEW b
    PROVE  Len(Append(<<a>>, b)) = 2 /\ Append(<<a>>, b)[2] = b /\ <<a>> # <<>>
  OBVIOUS

LEMMA AboveFrame ==
    ASSUME NEW a, NEW b, NEW c, NEW d, NEW e, NEW f, NEW g
    PROVE  LET s == <<a, b, c, d, e>> \o <<f, g>> IN
           /\ Len(s) = 7 /\ s[7] = g /\ s[6] = f /\ s[5] = e /\ s[4] = d
           /\ s[3] = c /\ s[2] = b /\ s[1] = a
  OBVIOUS

LEMMA InitTraps == Init => TrapsInv
  BY DEF Init, TrapsInv

LEMMA GdtStep == TrapsInv /\ gdt_init => TrapsInv'
  <1> SUFFICES ASSUME TrapsInv, gdt_init PROVE TrapsInv'
    OBVIOUS
  <1>1. /\ pc = "gdt_init" /\ pc' = "idt_init" /\ UNCHANGED <<idt, regs, stack, trap>>
        /\ cs' = KERNEL_CS /\ ds' = KERNEL_DS /\ tr' = TSS_SLOT
    BY DEF gdt_init, gdt_load
  <1> DEFINE sys == gdt_generate_sys_desc(TssAt, TssSize - 1)
             code == gdt_generate_seg_desc(0, MaxLimit, KERNEL_CODE, FLAGS_CODE64)
             data == gdt_generate_seg_desc(0, MaxLimit, KERNEL_DATA, FLAGS_DATA)
  <1>2. /\ gdt'[1] = code /\ gdt'[2] = data /\ gdt'[5] = sys[1] /\ gdt'[6] = sys[2]
        /\ DOMAIN gdt' = Slots
    <2>1. DOMAIN gdt = 0..6
      BY DEF TrapsInv, Slots
    <2> HIDE DEF sys, code, data
    <2>2. QED
      BY <2>1 DEF gdt_init, sys, code, data, Slots
  <1>3. IsCode64(code) /\ IsData(data)
    BY DEF gdt_generate_seg_desc, IsCode64, IsData, KERNEL_CODE, KERNEL_DATA,
           FLAGS_CODE64, FLAGS_DATA
  <1> HIDE DEF sys, code, data
  <1>4. GdtLoaded'
    BY <1>1, <1>2, <1>3 DEF GdtLoaded, KERNEL_CS, KERNEL_DS, TSS_SLOT, sys
  <1> QED
    BY <1>1, <1>2, <1>4 DEF TrapsInv

LEMMA IdtStep == TrapsInv /\ idt_init => TrapsInv'
  <1> SUFFICES ASSUME TrapsInv, idt_init PROVE TrapsInv'
    OBVIOUS
  <1>1. /\ pc = "idt_init" /\ pc' = "kmain" /\ rflags' = 1
        /\ UNCHANGED <<gdt, cs, ds, tr, regs, stack, trap>>
    BY DEF idt_init
  <1>2. GdtLoaded' /\ IdtLoaded'
    BY <1>1 DEF TrapsInv, GdtLoaded, IdtLoaded, idt_init
  <1> QED
    BY <1>1, <1>2 DEF TrapsInv

(* A step that leaves the tables alone keeps what they hold.               *)
LEMMA TablesKept ==
    ASSUME UNCHANGED tables
    PROVE  /\ GdtLoaded => GdtLoaded'
           /\ IdtLoaded => IdtLoaded'
           /\ cs' = cs /\ ds' = ds /\ gdt' = gdt
  BY DEF tables, GdtLoaded, IdtLoaded

LEMMA KmainStep == TrapsInv /\ KmainRuns => TrapsInv'
  <1> SUFFICES ASSUME TrapsInv, KmainRuns PROVE TrapsInv'
    OBVIOUS
  <1>1. pc = "kmain" /\ UNCHANGED <<pc, regs, rflags, stack, trap>> /\ UNCHANGED tables
    BY DEF KmainRuns
  <1> QED
    BY <1>1, TablesKept DEF TrapsInv

(* What a vector does on its way to the call in its own stub.              *)
Taken(v, err) ==
    LET frame == stack \o Pushed(v, err)
        t == [vector |-> v, err |-> err, rip |-> rip, rflags |-> rflags,
              regs |-> regs, stack |-> stack]
    IN  /\ pc' = IF IsException(v) THEN "exception_handle" ELSE "irq_handle"
        /\ stack' = frame \o <<regs["rdi"], regs["rax"]>>
        /\ regs' = [regs EXCEPT !["rsi"] = Len(frame),
                       !["rdi"] = IF IsException(v) THEN v ELSE v - PIC_IDT_BASE]
        /\ rip' = StubAt[v] /\ rflags' = 0
        /\ Top' = t /\ Len(trap') =< 2 /\ (trap = <<>> => trap' = <<t>>)

LEMMA StubTaken ==
    ASSUME TrapsInv, NEW v \in Vectors, stub(v)
    PROVE  \E err \in IF v \in ErrorVectors THEN ErrorCodes ELSE {0} : Taken(v, err)
  <1>1. pc \in {"kmain", "irq_handle"}
    BY DEF stub
  <1>2. /\ StubBehind(v) = {v} /\ (CHOOSE w \in {v} : TRUE) = v
        /\ GateOffset(idt[v]) = StubAt[v]
    <2>1. StubBehind(v) = {v}
      BY <1>1, StubIsOwn DEF TrapsInv
    <2> QED
      BY <2>1 DEF StubBehind
  <1>3. PICK err \in IF v \in ErrorVectors THEN ErrorCodes ELSE {0} :
            LET frame == stack \o Pushed(v, err) IN
            /\ pc' = IF IsException(v) THEN "exception_handle" ELSE "irq_handle"
            /\ stack' = frame \o <<regs["rdi"], regs["rax"]>>
            /\ regs' = [regs EXCEPT !["rsi"] = Len(frame),
                           !["rdi"] = IF IsException(v) THEN v ELSE v - PIC_IDT_BASE]
            /\ rip' = GateOffset(idt[v]) /\ rflags' = 0
            /\ trap' = Append(trap, [vector |-> v, err |-> err, rip |-> rip,
                                     rflags |-> rflags, regs |-> regs,
                                     stack |-> stack])
    BY <1>2 DEF stub
  <1> DEFINE t == [vector |-> v, err |-> err, rip |-> rip, rflags |-> rflags,
                   regs |-> regs, stack |-> stack]
  <1>5. trap = <<>> \/ trap = <<trap[1]>>
    BY <1>1 DEF TrapsInv, InIrq
  <1>6. /\ trap'[Len(trap')] = t /\ (trap = <<>> => trap' = <<t>>)
        /\ Len(trap') =< 2
    <2>0. trap' = Append(trap, t)
      BY <1>3
    <2> HIDE DEF t
    <2>1. CASE trap = <<>>
      <3>1. trap' = <<t>>
        BY <2>0, <2>1
      <3> QED
        BY <3>1
    <2>2. CASE trap = <<trap[1]>>
      <3> DEFINE below == trap[1]
      <3>1. trap = <<below>>
        BY <2>2
      <3> HIDE DEF below
      <3>2. Len(trap') = 2 /\ trap'[2] = t /\ trap # <<>>
        BY <2>0, <3>1, AppendSecond
      <3> QED
        BY <3>2
    <2> QED
      BY <1>5, <2>1, <2>2
  <1>7. Top' = t
    BY <1>6 DEF Top
  <1> QED
    BY <1>2, <1>3, <1>6, <1>7 DEF Taken

(* An IRQ comes only while kmain runs: the gate has cleared the flag in    *)
(* the handlers.  Its frame is the one InIrq describes.                    *)
LEMMA StubStep ==
    ASSUME TrapsInv, NEW v \in Vectors, stub(v)
    PROVE  TrapsInv'
  <1> USE DEF Registers, CallerSaved, CalleeSaved
  <1>1. /\ pc \in {"kmain", "irq_handle"} /\ UNCHANGED tables
        /\ ~IsException(v) => rflags = 1
    BY DEF stub
  <1>2. PICK err \in IF v \in ErrorVectors THEN ErrorCodes ELSE {0} : Taken(v, err)
    BY StubTaken
  <1> DEFINE t == [vector |-> v, err |-> err, rip |-> rip, rflags |-> rflags,
                   regs |-> regs, stack |-> stack]
             frame == stack \o Pushed(v, err)
  <1>3. /\ pc' = IF IsException(v) THEN "exception_handle" ELSE "irq_handle"
        /\ stack' = frame \o <<regs["rdi"], regs["rax"]>>
        /\ regs' = [regs EXCEPT !["rsi"] = Len(frame),
                       !["rdi"] = IF IsException(v) THEN v ELSE v - PIC_IDT_BASE]
        /\ rflags' = 0 /\ Top' = t /\ (trap = <<>> => trap' = <<t>>)
    BY <1>2 DEF Taken
  <1>4. /\ DOMAIN regs' = Registers
        /\ regs'["rdi"] = IF IsException(v) THEN v ELSE v - PIC_IDT_BASE
        /\ \A reg \in CalleeSaved : regs'[reg] = regs[reg]
    BY <1>3 DEF TrapsInv
  <1>7. /\ GdtLoaded' /\ IdtLoaded' /\ cs' = KERNEL_CS /\ ds' = KERNEL_DS
        /\ DOMAIN gdt' = Slots
    BY <1>1, TablesKept DEF TrapsInv
  <1>8. CASE IsException(v)
    <2>1. pc' = "exception_handle" /\ regs'["rdi"] = v /\ Top'.vector = v
      BY <1>3, <1>4, <1>8
    <2> QED
      BY <1>4, <1>7, <1>8, <2>1 DEF TrapsInv
  <1>9. CASE ~IsException(v)
    <2>1. pc = "kmain" /\ stack = <<>> /\ trap = <<>> /\ rflags = 1
      BY <1>1, <1>9 DEF TrapsInv
    <2>2. Pushed(v, err) = <<KERNEL_DS, 0, 1, KERNEL_CS, rip>>
      <3>1. v \notin ErrorVectors
        BY <1>9, VectorsAssumption DEF IsException
      <3>2. Pushed(v, err) = <<ds, Len(stack), rflags, cs, rip>> \o <<>>
        BY <3>1 DEF Pushed
      <3> QED
        BY <2>1, <3>2 DEF TrapsInv
    <2>3. /\ Len(stack') = 7
          /\ stack'[7] = regs["rax"] /\ stack'[6] = regs["rdi"] /\ stack'[5] = rip
          /\ stack'[4] = KERNEL_CS /\ stack'[3] = 1 /\ stack'[2] = 0
          /\ stack'[1] = KERNEL_DS
      <3> DEFINE own == <<regs["rdi"], regs["rax"]>>
                 pushed == <<KERNEL_DS, 0, 1, KERNEL_CS, rip>>
      <3>1. stack' = (<<>> \o pushed) \o own
        BY <1>3, <2>1, <2>2
      <3>2. <<>> \o pushed = pushed
        OBVIOUS
      <3>3. stack' = pushed \o own
        BY <3>1, <3>2
      <3> QED
        BY <3>3, AboveFrame
    <2>4. pc' = "irq_handle" /\ rflags' = 0
      BY <1>3, <1>9
    <2>5. trap' = <<t>>
      BY <1>3, <2>1
    <2>6. InIrq'
      BY <1>4, <1>9, <2>1, <2>3, <2>5 DEF InIrq
    <2>7. Top' = t /\ regs'["rdi"] = v - PIC_IDT_BASE
      BY <1>3, <1>4, <1>9
    <2> QED
      BY <1>4, <1>7, <2>4, <2>6, <2>7 DEF TrapsInv
  <1> QED
    BY <1>8, <1>9

LEMMA HandleStep == TrapsInv /\ irq_handle => TrapsInv'
  <1> SUFFICES ASSUME TrapsInv, irq_handle PROVE TrapsInv'
    OBVIOUS
  <1>1. /\ pc = "irq_handle" /\ pc' = "done"
        /\ UNCHANGED tables /\ UNCHANGED <<rip, rflags, stack, trap>>
    BY DEF irq_handle
  <1>2. /\ DOMAIN regs' = Registers
        /\ \A reg \in CalleeSaved : regs'[reg] = regs[reg]
    BY DEF irq_handle, Registers, CallerSaved, CalleeSaved
  <1>3. InIrq'
    BY <1>1, <1>2 DEF TrapsInv, InIrq
  <1> QED
    BY <1>1, <1>2, <1>3, TablesKept DEF TrapsInv

(* What iretq finds on the stack.                                          *)
LEMMA ReturnStep ==
    ASSUME TrapsInv, iretq
    PROVE  /\ TrapsInv'
           /\ rip' = Top.rip /\ rflags' = Top.rflags /\ stack' = Top.stack
           /\ cs' = KERNEL_CS /\ ds' = KERNEL_DS
           /\ \A reg \in CalleeSaved \cup {"rax", "rdi"} : regs'[reg] = Top.regs[reg]
  <1> DEFINE t == trap[1]
  <1>1. pc = "done" /\ InIrq /\ pc' = "kmain"
    BY DEF iretq, TrapsInv, InIrq
  <1>2. Len(stack) = 7 /\ Top = t /\ trap' = <<>>
    BY <1>1 DEF iretq, InIrq, Top
  <1>3. /\ regs' = [regs EXCEPT !["rax"] = stack[7], !["rdi"] = stack[6]]
        /\ rip' = stack[5] /\ cs' = stack[4] /\ rflags' = stack[3]
        /\ stack' = SubSeq(stack, 1, stack[2]) /\ ds' = stack[1]
        /\ UNCHANGED <<gdt, idt, tss, tr>>
    BY <1>2 DEF iretq
  <1>4. /\ stack[7] = t.regs["rax"] /\ stack[6] = t.regs["rdi"]
        /\ stack[5] = t.rip /\ stack[4] = KERNEL_CS /\ stack[3] = 1
        /\ stack[2] = 0 /\ stack[1] = KERNEL_DS
    BY <1>1 DEF InIrq
  <1>5. stack' = <<>>
    BY <1>2, <1>3, <1>4
  <1>6. DOMAIN regs' = Registers
    BY <1>3 DEF TrapsInv
  <1>7. \A reg \in CalleeSaved \cup {"rax", "rdi"} : regs'[reg] = t.regs[reg]
    <2>1. DOMAIN regs = Registers /\ \A reg \in CalleeSaved : regs[reg] = t.regs[reg]
      BY <1>1 DEF TrapsInv, InIrq
    <2> HIDE DEF t
    <2> QED
      BY <1>3, <1>4, <2>1 DEF Registers, CallerSaved, CalleeSaved
  <1>8. GdtLoaded' /\ IdtLoaded' /\ DOMAIN gdt' = Slots
    BY <1>1, <1>3 DEF TrapsInv, GdtLoaded, IdtLoaded
  <1>9. TrapsInv'
    BY <1>1, <1>2, <1>3, <1>4, <1>5, <1>6, <1>8 DEF TrapsInv
  <1> QED
    BY <1>1, <1>2, <1>3, <1>4, <1>5, <1>7, <1>9 DEF InIrq

LEMMA ReportStep == TrapsInv /\ exception_handle => TrapsInv'
  <1> SUFFICES ASSUME TrapsInv, exception_handle PROVE TrapsInv'
    OBVIOUS
  <1>1. /\ pc = "exception_handle" /\ pc' = "halted"
        /\ UNCHANGED tables /\ UNCHANGED <<regs, rflags, stack, trap>>
    BY DEF exception_handle, Halts
  <1> QED
    BY <1>1, TablesKept DEF TrapsInv

(* In every reachable state the tables and the registers that name them    *)
(* hold what gdt_init and idt_init wrote, and while the handler of an IRQ  *)
(* runs the stack holds what its return will pop.                          *)
THEOREM TrapsInvariance == Spec => []TrapsInv
  <1>1. TrapsInv /\ UNCHANGED vars => TrapsInv'
    <2> SUFFICES ASSUME TrapsInv, UNCHANGED vars PROVE TrapsInv'
      OBVIOUS
    <2>1. UNCHANGED tables /\ UNCHANGED <<pc, regs, rflags, stack, trap>>
      BY DEF vars, cpu
    <2>2. InIrq => InIrq'
      BY <2>1 DEF InIrq
    <2> QED
      BY <2>1, <2>2, TablesKept DEF TrapsInv, Top
  <1>2. TrapsInv /\ [Next]_vars => TrapsInv'
    BY <1>1, GdtStep, IdtStep, KmainStep, StubStep, HandleStep, ReturnStep,
       ReportStep DEF Next
  <1> QED
    BY <1>2, InitTraps, PTL DEF Spec

(* No trap shuts the machine down or is handled under another's number,    *)
(* wherever the assembler put the stubs (set_idt_entry, STUB in idt.asm).  *)
THEOREM EveryTrapItsStub == Spec => []OwnStub
  <1>1. TrapsInv => OwnStub
    <2> SUFFICES ASSUME TrapsInv PROVE OwnStub
      OBVIOUS
    <2>1. pc = "irq_handle" => ~IsException(Top.vector)
      BY DEF TrapsInv, InIrq, Top
    <2> QED
      BY <2>1 DEF TrapsInv, OwnStub
  <1> QED
    BY <1>1, TrapsInvariance, PTL

(* The loaded segment registers name a code and data segment, and tr a     *)
(* descriptor of exactly the TSS, for any address and size of it           *)
(* (gdt_generate_sys_desc, gdt_load).                                      *)
THEOREM TablesHold == Spec => []TablesDescribe
  <1>1. TrapsInv => TablesDescribe
    <2> SUFFICES ASSUME TrapsInv, Running PROVE
            /\ IsCode64(gdt[cs]) /\ IsData(gdt[ds]) /\ IsTss(gdt[tr])
            /\ SysBase(<<gdt[tr], gdt[tr + 1]>>) = TssAt
            /\ SegLimit(gdt[tr]) = TssSize - 1
      BY DEF TablesDescribe
    <2> DEFINE sys == gdt_generate_sys_desc(TssAt, TssSize - 1)
    <2>1. /\ IsCode64(gdt[cs]) /\ IsData(gdt[ds])
          /\ gdt[tr] = sys[1] /\ gdt[tr + 1] = sys[2]
      BY DEF TrapsInv, GdtLoaded, Running, TSS_SLOT
    <2>2. TssAt \in Addresses /\ TssSize - 1 \in 0..MaxLimit
      <3>1. MaxLimit \in Nat
        <4>1. WORD * NIBBLE \in Nat \ {0}
          BY Widths
        <4> QED
          BY <4>1 DEF MaxLimit
      <3> QED
        BY <3>1, TssAssumption
    <2>3. SysBase(sys) = TssAt /\ SegLimit(sys[1]) = TssSize - 1
      BY <2>2, DescriptorHoldsBase
    <2>4. sys[1].access = TSS_DESC_ACCESS
      BY DEF gdt_generate_sys_desc, gdt_generate_seg_desc
    <2> HIDE DEF sys
    <2>5. SysBase(<<gdt[tr], gdt[tr + 1]>>) = SysBase(sys)
      BY <2>1 DEF SysBase
    <2> QED
      BY <2>1, <2>3, <2>4, <2>5 DEF IsTss
  <1> QED
    BY <1>1, TrapsInvariance, PTL

(* Every return from a trap resumes what it interrupted, whatever the      *)
(* handler did to the caller-saved registers (pop rax, pop rdi, iretq).    *)
THEOREM ReturnsRight == Spec => ResumesInterrupted
  <1>1. TrapsInv /\ [Next]_vars =>
          [pc = "done" =>
             /\ rip' = Top.rip /\ rflags' = Top.rflags /\ stack' = Top.stack
             /\ cs' = KERNEL_CS /\ ds' = KERNEL_DS
             /\ \A r \in CalleeSaved \cup {"rax", "rdi"} : regs'[r] = Top.regs[r]]_vars
    <2> SUFFICES ASSUME TrapsInv, Next, pc = "done"
                 PROVE  /\ rip' = Top.rip /\ rflags' = Top.rflags /\ stack' = Top.stack
                        /\ cs' = KERNEL_CS /\ ds' = KERNEL_DS
                        /\ \A r \in CalleeSaved \cup {"rax", "rdi"} :
                              regs'[r] = Top.regs[r]
      OBVIOUS
    <2>1. iretq
      BY DEF Next, gdt_init, idt_init, KmainRuns, stub, irq_handle, exception_handle
    <2> QED
      BY <2>1, ReturnStep
  <1> QED
    BY <1>1, TrapsInvariance, PTL DEF Spec, ResumesInterrupted
-----------------------------------------------------------------------------
(* The screen and the paper, whatever is printed.                          *)

LeftTop(p) == IF Len(p) > VGA_NUM_ROWS THEN Len(p) - VGA_NUM_ROWS ELSE 0

On(p, row, col) ==
    IF LeftTop(p) + row + 1 =< Len(p) /\ col + 1 =< Len(p[LeftTop(p) + row + 1])
    THEN p[LeftTop(p) + row + 1][col + 1]
    ELSE Blank

Glyphs == Chars \cup {Blank}

(* cells show the last rows of p, the last of them in row.                 *)
ShowsGrid(cells, row, p) ==
    /\ p \in Seq(Seq(Chars)) /\ Len(p) # 0
    /\ cells \in [Rows -> [Cols -> Glyphs]]
    /\ \A r \in Rows : \A col \in Cols : cells[r][col] = On(p, r, col)
    /\ row \in Rows /\ row = Len(p) - LeftTop(p) - 1

Shows(c, p) ==
    /\ c = [row |-> c.row, col |-> c.col, cells |-> c.cells]
    /\ ShowsGrid(c.cells, c.row, p)
    /\ c.col \in Cols /\ c.col = Len(p[Len(p)])

(* A new row on the paper is a line feed on the screen, with a scroll when *)
(* the screen is full.                                                     *)
LEMMA NewRowShows ==
    ASSUME NEW cells, NEW row, NEW col, NEW p, ShowsGrid(cells, row, p)
    PROVE  Shows(CheckScroll(LineFeed([row |-> row, col |-> col, cells |-> cells])),
                 Append(p, <<>>))
  <1> USE GridAssumption
  <1> DEFINE n == Len(p)
             q == Append(p, <<>>)
             d == CheckScroll(LineFeed([row |-> row, col |-> col, cells |-> cells]))
  <1>1. /\ n \in Nat \ {0} /\ p \in Seq(Seq(Chars)) /\ row \in Rows
        /\ cells \in [Rows -> [Cols -> Glyphs]]
        /\ \A r \in Rows : \A k \in Cols : cells[r][k] = On(p, r, k)
        /\ row = n - LeftTop(p) - 1
    BY DEF ShowsGrid
  <1>2. <<>> \in Seq(Chars) /\ Len(<<>>) = 0
    OBVIOUS
  <1>3. /\ q \in Seq(Seq(Chars)) /\ Len(q) = n + 1 /\ q[n + 1] = <<>>
        /\ \A i \in 1..n : q[i] = p[i]
    BY <1>1, <1>2
  <1>4. d = CheckScroll([row |-> row + 1, col |-> 0, cells |-> cells])
    BY DEF LineFeed
  <1>5. 0 \in Cols
    BY DEF Cols
  <1> HIDE DEF q, d, n
  <1>6. CASE n < VGA_NUM_ROWS
    <2>1. LeftTop(p) = 0 /\ LeftTop(q) = 0 /\ row = n - 1 /\ row + 1 \in Rows
      BY <1>1, <1>3, <1>6, SMTT(30) DEF LeftTop, Rows, n
    <2>2. d.row = row + 1 /\ d.col = 0 /\ d.cells = cells
          /\ d = [row |-> d.row, col |-> d.col, cells |-> d.cells]
      BY <1>1, <1>4, <2>1 DEF CheckScroll, Rows
    <2>3. ASSUME NEW r \in Rows, NEW k \in Cols
          PROVE  cells[r][k] = On(q, r, k)
      <3>1. r \in Nat /\ k \in Nat
        BY DEF Rows, Cols
      <3>2. CASE r + 1 \in 1..n
        <4>1. On(q, r, k) = On(p, r, k)
          <5>1. 0 + r + 1 = r + 1 /\ q[r + 1] = p[r + 1]
                /\ 0 + r + 1 =< Len(p) /\ 0 + r + 1 =< Len(q)
            BY <1>1, <1>3, <3>1, <3>2 DEF n
          <5> QED
            BY <2>1, <5>1 DEF On
        <4> QED
          BY <1>1, <4>1
      <3>3. CASE r + 1 = n + 1
        <4>1. On(q, r, k) = Blank /\ On(p, r, k) = Blank
          BY <1>1, <1>2, <1>3, <2>1, <3>1, <3>3, SMTT(30) DEF On, n
        <4> QED
          BY <1>1, <4>1
      <3>4. CASE r + 1 > n + 1
        <4>1. On(q, r, k) = Blank /\ On(p, r, k) = Blank
          BY <1>1, <1>3, <2>1, <3>1, <3>4, SMTT(30) DEF On, n
        <4> QED
          BY <1>1, <4>1
      <3> QED
        BY <1>1, <3>1, <3>2, <3>3, <3>4
    <2>4. d.row = Len(q) - LeftTop(q) - 1 /\ Len(q[Len(q)]) = 0 /\ Len(q) # 0
      BY <1>1, <1>2, <1>3, <2>1, <2>2
    <2> QED
      BY <1>1, <1>3, <1>5, <2>1, <2>2, <2>3, <2>4 DEF Shows, ShowsGrid, q, d
  <1>7. CASE n >= VGA_NUM_ROWS
    <2>1. LeftTop(p) = n - VGA_NUM_ROWS /\ LeftTop(q) = LeftTop(p) + 1
          /\ LeftTop(p) \in Nat /\ row = LastRow
      <3>1. n > VGA_NUM_ROWS \/ n = VGA_NUM_ROWS
        BY <1>1, <1>7
      <3>2. LeftTop(p) = n - VGA_NUM_ROWS
        <4>1. LeftTop(p) = IF n > VGA_NUM_ROWS THEN n - VGA_NUM_ROWS ELSE 0
          BY DEF LeftTop, n
        <4>2. n = VGA_NUM_ROWS => n - VGA_NUM_ROWS = 0
          BY <1>1
        <4> QED
          BY <1>1, <3>1, <4>1, <4>2
      <3>3. LeftTop(q) = n + 1 - VGA_NUM_ROWS
        BY <1>1, <1>3, <1>7 DEF LeftTop
      <3> QED
        BY <1>1, <1>7, <3>2, <3>3 DEF LastRow
    <2>2. d.row = LastRow /\ d.col = 0 /\ d.cells = vga_scroll_up(cells)
          /\ d = [row |-> d.row, col |-> d.col, cells |-> d.cells]
      <3>1. ~(row + 1 < VGA_NUM_ROWS)
        BY <2>1 DEF LastRow
      <3> QED
        BY <1>4, <3>1 DEF CheckScroll
    <2>3. BlankRow \in [Cols -> Glyphs]
      BY DEF BlankRow, Glyphs
    <2>4. vga_scroll_up(cells) \in [Rows -> [Cols -> Glyphs]]
      <3>1. \A r \in Rows : r < LastRow => r + 1 \in Rows
        BY DEF Rows, LastRow
      <3> QED
        BY <1>1, <2>3, <3>1 DEF vga_scroll_up
    <2>5. ASSUME NEW r \in Rows, NEW k \in Cols
          PROVE  d.cells[r][k] = On(q, r, k)
      <3>1. r \in Nat /\ k \in Nat
        BY DEF Rows, Cols
      <3>2. CASE r < LastRow
        <4>1. r + 1 \in Rows /\ d.cells[r] = cells[r + 1]
          BY <2>2, <3>2 DEF vga_scroll_up, Rows, LastRow
        <4> DEFINE i == LeftTop(p) + (r + 1) + 1
        <4>2. i \in 1..n /\ LeftTop(q) + r + 1 = i /\ i =< n + 1
          BY <1>1, <2>1, <3>1, <3>2 DEF LastRow
        <4> HIDE DEF i
        <4>3. On(q, r, k) = IF k + 1 =< Len(p[i]) THEN p[i][k + 1] ELSE Blank
          BY <1>3, <4>2 DEF On
        <4>4. On(p, r + 1, k) = IF k + 1 =< Len(p[i]) THEN p[i][k + 1] ELSE Blank
          BY <4>2 DEF On, n, i
        <4> QED
          BY <1>1, <4>1, <4>3, <4>4
      <3>3. CASE r = LastRow
        <4>1. d.cells[r][k] = Blank
          BY <2>2, <3>3 DEF vga_scroll_up, BlankRow, LastRow
        <4>2. LeftTop(q) + r + 1 = n + 1
          BY <1>1, <2>1, <3>3 DEF LastRow
        <4>3. ~(k + 1 =< Len(q[n + 1]))
          BY <1>2, <1>3, <3>1
        <4> QED
          BY <4>1, <4>2, <4>3 DEF On
      <3> QED
        BY <3>1, <3>2, <3>3 DEF Rows, LastRow
    <2>6. d.row = Len(q) - LeftTop(q) - 1 /\ Len(q[Len(q)]) = 0 /\ Len(q) # 0
          /\ LastRow \in Rows
      BY <1>1, <1>2, <1>3, <2>1, <2>2, SMTT(30) DEF LastRow, Rows
    <2> QED
      BY <1>1, <1>3, <1>5, <2>2, <2>4, <2>5, <2>6 DEF Shows, ShowsGrid, q, d
  <1> QED
    BY <1>1, <1>6, <1>7

(* A character in the row of the cursor on the paper and on the screen.    *)
LEMMA PlacedShows ==
    ASSUME NEW c, NEW p, Shows(c, p), NEW ch \in Chars
    PROVE  LET full == Append(p[Len(p)], ch)
               q == [p EXCEPT ![Len(p)] = full] IN
           /\ ShowsGrid([c.cells EXCEPT ![c.row][c.col] = ch], c.row, q)
           /\ Len(q) = Len(p) /\ q[Len(q)] = full /\ Len(full) = c.col + 1
  <1> USE GridAssumption
  <1> DEFINE n == Len(p)
             old == p[n]
             full == Append(old, ch)
             q == [p EXCEPT ![n] = full]
             cells == [c.cells EXCEPT ![c.row][c.col] = ch]
  <1>1. /\ n \in Nat \ {0} /\ p \in Seq(Seq(Chars)) /\ c.row \in Rows /\ c.col \in Cols
        /\ c.cells \in [Rows -> [Cols -> Glyphs]]
        /\ \A r \in Rows : \A k \in Cols : c.cells[r][k] = On(p, r, k)
        /\ c.row = n - LeftTop(p) - 1 /\ c.col = Len(old)
    BY DEF Shows, ShowsGrid
  <1>2. old \in Seq(Chars)
    BY <1>1
  <1> HIDE DEF old
  <1>3. /\ full \in Seq(Chars) /\ Len(full) = c.col + 1 /\ full[c.col + 1] = ch
        /\ \A i \in 1..c.col : full[i] = old[i]
    BY <1>1, <1>2
  <1> HIDE DEF full
  <1>4. /\ q \in Seq(Seq(Chars)) /\ Len(q) = n /\ q[n] = full
        /\ \A i \in 1..n : i # n => q[i] = p[i]
    BY <1>1, <1>3
  <1> HIDE DEF q
  <1>5. LeftTop(q) = LeftTop(p) /\ LeftTop(p) \in Nat
    BY <1>1, <1>4 DEF LeftTop, n
  <1>6. cells \in [Rows -> [Cols -> Glyphs]]
    BY <1>1 DEF Glyphs
  <1>7. ASSUME NEW r \in Rows, NEW k \in Cols
        PROVE  cells[r][k] = On(q, r, k)
    <2> DEFINE i == LeftTop(p) + r + 1
    <2>1. r \in Nat /\ k \in Nat /\ c.row \in Nat /\ c.col \in Nat /\ i \in Nat
      BY <1>1, <1>5, SMTT(30) DEF Rows, Cols
    <2>2. i = n <=> r = c.row
      BY <1>1, <1>5, <2>1
    <2>3. On(p, r, k) = IF i =< n /\ k + 1 =< Len(p[i]) THEN p[i][k + 1] ELSE Blank
      BY DEF On, n
    <2>4. On(q, r, k) = IF i =< n /\ k + 1 =< Len(q[i]) THEN q[i][k + 1] ELSE Blank
      BY <1>4, <1>5 DEF On
    <2>5. c.cells[r][k] = On(p, r, k)
      BY <1>1
    <2>6. i \in Nat \ {0}
      BY <1>5, <2>1
    <2> HIDE DEF i
    <2>7. CASE r # c.row
      <3>1. cells[r][k] = c.cells[r][k]
        BY <1>1, <2>7
      <3>2. i =< n => q[i] = p[i]
        BY <1>1, <1>4, <2>2, <2>6, <2>7
      <3> HIDE DEF cells
      <3> QED
        BY <2>3, <2>4, <2>5, <3>1, <3>2
    <2>8. CASE r = c.row /\ k # c.col
      <3>1. cells[r][k] = c.cells[r][k]
        BY <1>1, <2>8
      <3>2. p[i] = old /\ q[i] = full /\ i = n
        BY <1>4, <2>2, <2>8 DEF old
      <3>3. k + 1 =< c.col + 1 <=> k + 1 =< c.col
        BY <2>1, <2>8
      <3>4. k + 1 =< c.col => full[k + 1] = old[k + 1]
        <4>1. k + 1 =< c.col => k + 1 \in 1..c.col
          BY <2>1
        <4> QED
          BY <1>3, <4>1
      <3> HIDE DEF cells
      <3> QED
        BY <1>1, <1>3, <2>3, <2>4, <2>5, <3>1, <3>2, <3>3, <3>4
    <2>9. CASE r = c.row /\ k = c.col
      <3>1. cells[r][k] = ch
        BY <1>1, <2>9
      <3>2. q[i] = full /\ i = n
        BY <1>4, <2>2, <2>9
      <3>3. k + 1 =< Len(full) /\ full[k + 1] = ch /\ i =< n
        BY <1>1, <1>3, <2>1, <2>9, <3>2
      <3> HIDE DEF cells
      <3> QED
        BY <2>4, <3>1, <3>2, <3>3
    <2> QED
      BY <2>7, <2>8, <2>9
  <1> HIDE DEF cells
  <1>8. ShowsGrid(cells, c.row, q)
    BY <1>1, <1>4, <1>5, <1>6, <1>7 DEF ShowsGrid
  <1> QED
    BY <1>3, <1>4, <1>8 DEF cells, q, full, old, n

(* One character.                                                          *)
LEMMA PutShows ==
    ASSUME NEW c, NEW p, Shows(c, p), NEW ch \in Chars \cup {Newline}
    PROVE  Shows(console_putc(c, ch), PaperPut(p, ch))
  <1> USE GridAssumption
  <1>1. c = [row |-> c.row, col |-> c.col, cells |-> c.cells]
        /\ ShowsGrid(c.cells, c.row, p) /\ c.row \in Rows /\ c.col \in Cols
    BY DEF Shows, ShowsGrid
  <1>2. CASE ch = Newline
    <2>1. Shows(CheckScroll(LineFeed(c)), Append(p, <<>>))
      BY <1>1, NewRowShows
    <2> QED
      BY <1>2, <2>1 DEF console_putc, PaperPut
  <1>3. CASE ch # Newline
    <2> DEFINE full == Append(p[Len(p)], ch)
               q == [p EXCEPT ![Len(p)] = full]
               cells == [c.cells EXCEPT ![c.row][c.col] = ch]
               placed == [row |-> c.row, col |-> c.col, cells |-> cells]
    <2>1. /\ ShowsGrid(cells, c.row, q) /\ q[Len(q)] = full /\ Len(full) = c.col + 1
          /\ Len(q) = Len(p)
      BY <1>3, PlacedShows
    <2>2. vga_put_char(c.cells, c.row, c.col, ch) = cells
      BY <1>1 DEF vga_put_char
    <2> HIDE DEF cells, q, full
    <2>3. console_putc(c, ch) = CheckScroll(Advance(placed))
      <3>1. [c EXCEPT !.cells = vga_put_char(@, c.row, c.col, ch)] = placed
        BY <1>1, <2>2
      <3> QED
        BY <1>3, <3>1 DEF console_putc
    <2>4. PaperPut(p, ch) = IF c.col + 1 = VGA_NUM_COLS THEN Append(q, <<>>) ELSE q
      BY <1>3, <2>1 DEF PaperPut, full, q
    <2>5. CASE c.col + 1 = VGA_NUM_COLS
      <3>1. Advance(placed) = LineFeed(placed)
        BY <1>1, <2>5 DEF Advance, Cols
      <3>2. Shows(CheckScroll(LineFeed(placed)), Append(q, <<>>))
        BY <2>1, NewRowShows
      <3> QED
        BY <2>3, <2>4, <2>5, <3>1, <3>2
    <2>6. CASE c.col + 1 # VGA_NUM_COLS
      <3>1. c.col + 1 \in Cols /\ ~(c.col + 1 >= VGA_NUM_COLS) /\ c.row < VGA_NUM_ROWS
        BY <1>1, <2>6 DEF Cols, Rows
      <3>2. Advance(placed) = [row |-> c.row, col |-> c.col + 1, cells |-> cells]
        BY <3>1 DEF Advance
      <3>3. CheckScroll(Advance(placed))
              = [row |-> c.row, col |-> c.col + 1, cells |-> cells]
        BY <3>1, <3>2 DEF CheckScroll
      <3>4. Shows([row |-> c.row, col |-> c.col + 1, cells |-> cells], q)
        BY <2>1, <3>1 DEF Shows
      <3> QED
        BY <2>3, <2>4, <2>6, <3>3, <3>4
    <2> QED
      BY <2>5, <2>6
  <1> QED
    BY <1>2, <1>3

(* g starts at x and follows the steps F from each place to the next; such *)
(* a function exists.                                                      *)
Follows(g, N, S, x, F) ==
    g \in [0..N -> S] /\ g[0] = x /\ \A n \in 1..N : g[n] = F[n][g[n - 1]]

LEMMA Recursion ==
    ASSUME NEW N \in Nat, NEW S, NEW x \in S, NEW F \in [1..N -> [S -> S]]
    PROVE  \E g : Follows(g, N, S, x, F)
  <1> DEFINE T == {m \in 0..N : \E g : Follows(g, m, S, x, F)}
  <1>1. 0 \in T
    <2>1. [i \in 0..0 |-> x] \in [0..0 -> S] /\ [i \in 0..0 |-> x][0] = x
      OBVIOUS
    <2>2. \A n \in 1..0 : FALSE
      OBVIOUS
    <2>3. Follows([i \in 0..0 |-> x], 0, S, x, F)
      BY <2>1, <2>2 DEF Follows
    <2> QED
      BY <2>3
  <1>2. ASSUME NEW m \in 1..N, m - 1 \in T
        PROVE  m \in T
    <2>0. PICK g : Follows(g, m - 1, S, x, F)
      BY <1>2
    <2>1. /\ g \in [0 .. m - 1 -> S] /\ g[0] = x
          /\ \A n \in 1 .. m - 1 : g[n] = F[n][g[n - 1]]
      BY <2>0 DEF Follows
    <2> DEFINE h == [i \in 0..m |-> IF i = m THEN F[m][g[m - 1]] ELSE g[i]]
    <2>2. m - 1 \in 0 .. m - 1 /\ g[m - 1] \in S /\ F[m][g[m - 1]] \in S
      BY <2>1
    <2>3. h \in [0..m -> S] /\ h[0] = x /\ h[m] = F[m][g[m - 1]]
      BY <2>1, <2>2
    <2>4. \A i \in 0 .. m - 1 : h[i] = g[i]
      OBVIOUS
    <2> HIDE DEF h
    <2>5. ASSUME NEW n \in 1..m PROVE h[n] = F[n][h[n - 1]]
      <3>1. h[n - 1] = g[n - 1]
        BY <2>4
      <3>2. n = m \/ n \in 1 .. m - 1
        OBVIOUS
      <3> QED
        BY <2>1, <2>3, <2>4, <3>1, <3>2
    <2>6. Follows(h, m, S, x, F)
      BY <2>3, <2>5 DEF Follows
    <2> QED
      BY <2>6
  <1>3. T = 0..N
    <2>1. T \subseteq 0..N
      OBVIOUS
    <2> HIDE DEF T
    <2> QED
      BY <1>1, <1>2, <2>1, Along
  <1>4. N \in T
    <2> HIDE DEF T
    <2> QED
      BY <1>3
  <1> QED
    BY <1>4

Papers == {p \in Seq(Seq(Chars)) : Len(p) # 0}

LEMMA PaperStays ==
    ASSUME NEW p \in Papers, NEW ch \in Chars \cup {Newline}
    PROVE  PaperPut(p, ch) \in Papers
  <1> DEFINE full == Append(p[Len(p)], ch)
             q == [p EXCEPT ![Len(p)] = full]
  <1>1. p \in Seq(Seq(Chars)) /\ Len(p) \in Nat \ {0} /\ p[Len(p)] \in Seq(Chars)
    BY DEF Papers
  <1>2. \A r \in Papers : Append(r, <<>>) \in Papers
    <2>1. <<>> \in Seq(Chars)
      OBVIOUS
    <2>2. ASSUME NEW r \in Seq(Seq(Chars)), NEW row \in Seq(Chars)
          PROVE  Append(r, row) \in Seq(Seq(Chars)) /\ Len(Append(r, row)) # 0
      OBVIOUS
    <2> QED
      BY <2>1, <2>2 DEF Papers
  <1>3. CASE ch = Newline
    BY <1>2, <1>3 DEF PaperPut
  <1>4. CASE ch # Newline
    <2>1. full \in Seq(Chars)
      BY <1>1, <1>4
    <2> HIDE DEF full
    <2>2. q \in Papers
      BY <1>1, <2>1 DEF Papers
    <2> HIDE DEF q
    <2>3. PaperPut(p, ch) = Append(q, <<>>) \/ PaperPut(p, ch) = q
      BY <1>4 DEF PaperPut, q, full
    <2> QED
      BY <1>2, <2>2, <2>3
  <1> QED
    BY <1>3, <1>4

(* The paper after each character.                                         *)
LEMMA RolledUnfolds ==
    ASSUME NEW p \in Papers, NEW s \in Seq(Chars \cup {Newline})
    PROVE  /\ Rolled(p, s)[0] = p
           /\ \A n \in 1..Len(s) : Rolled(p, s)[n] = PaperPut(Rolled(p, s)[n - 1], s[n])
  <1> DEFINE N == Len(s)
             F == [n \in 1..N |-> [q \in Papers |-> PaperPut(q, s[n])]]
             after == CHOOSE g : g = [n \in 0..N |->
                          IF n = 0 THEN p ELSE PaperPut(g[n - 1], s[n])]
  <1>1. N \in Nat /\ \A n \in 1..N : s[n] \in Chars \cup {Newline}
    OBVIOUS
  <1>2. F \in [1..N -> [Papers -> Papers]]
    BY <1>1, PaperStays
  <1>3. PICK g : Follows(g, N, Papers, p, F)
    <2> HIDE DEF F, N
    <2> QED
      BY <1>1, <1>2, Recursion
  <1>4. /\ g \in [0..N -> Papers] /\ g[0] = p
        /\ \A n \in 1..N : g[n] = F[n][g[n - 1]]
    <2> HIDE DEF F, N
    <2> QED
      BY <1>3 DEF Follows
  <1>5. \A n \in 1..N : g[n] = PaperPut(g[n - 1], s[n])
    <2>1. \A n \in 1..N : n - 1 \in 0..N
      BY <1>1
    <2> QED
      BY <1>4, <2>1
  <1>6. g = [n \in 0..N |-> IF n = 0 THEN p ELSE PaperPut(g[n - 1], s[n])]
    <2>1. \A n \in 0..N : n = 0 \/ n \in 1..N
      BY <1>1
    <2>2. \A n \in 0..N : g[n] = IF n = 0 THEN p ELSE PaperPut(g[n - 1], s[n])
      BY <1>4, <1>5, <2>1
    <2>3. g = [n \in 0..N |-> g[n]]
      BY <1>4
    <2> QED
      BY <2>2, <2>3
  <1>7. after = [n \in 0..N |-> IF n = 0 THEN p ELSE PaperPut(after[n - 1], s[n])]
    <2> HIDE DEF N
    <2> QED
      BY <1>6, Zenon
  <1>8. Rolled(p, s) = after
    BY Zenon DEF Rolled
  <1> HIDE DEF after
  <1>9. after[0] = p /\ \A n \in 1..N : after[n] = PaperPut(after[n - 1], s[n])
    BY <1>1, <1>7
  <1> QED
    BY <1>8, <1>9

(* A text.                                                                 *)
LEMMA WriteShows ==
    ASSUME NEW c, NEW p, Shows(c, p), NEW s \in Seq(Chars \cup {Newline})
    PROVE  Shows(console_write(c, s), Rolled(p, s)[Len(s)])
  <1> DEFINE N == Len(s)
             w == Written(c, s)
             r == Rolled(p, s)
             T == {n \in 0..N : Shows(w[n], r[n])}
  <1>1. N \in Nat /\ \A n \in 1..N : s[n] \in Chars \cup {Newline}
    OBVIOUS
  <1>2. w[0] = c /\ \A n \in 1..N : w[n] = console_putc(w[n - 1], s[n])
    BY WrittenUnfolds
  <1>3. r[0] = p /\ \A n \in 1..N : r[n] = PaperPut(r[n - 1], s[n])
    <2>1. p \in Papers
      BY DEF Shows, ShowsGrid, Papers
    <2> QED
      BY <2>1, RolledUnfolds
  <1> HIDE DEF w, r, N
  <1>4. 0 \in T /\ T \subseteq 0..N
    BY <1>1, <1>2, <1>3
  <1>5. \A n \in 1..N : n - 1 \in T => n \in T
    BY <1>1, <1>2, <1>3, PutShows
  <1>6. N \in T
    <2> HIDE DEF T
    <2>1. T = 0..N
      BY <1>1, <1>4, <1>5, Along
    <2> QED
      BY <1>1, <2>1
  <1> QED
    BY <1>6 DEF console_write, w, r, N

-----------------------------------------------------------------------------
(* Numbers: the loop of itoa_dec and itoa_hex takes the digits off in the  *)
(* order that their positions give.                                        *)

LEMMA Times ==
    ASSUME NEW b \in Nat, NEW k \in Nat
    PROVE  b * k \in Nat
  OBVIOUS

(* Power(b, N) is the end of a path of multiplications.                    *)
PowersTo(g, b, N) ==
    g \in [0..N -> Nat] /\ g[0] = 1 /\ \A n \in 1..N : g[n] = b * g[n - 1]

LEMMA PowerPath ==
    ASSUME NEW b \in Nat, NEW N \in Nat
    PROVE  \E g : PowersTo(g, b, N) /\ Power(b, N) = g[N]
  <1> DEFINE F == [n \in 1..N |-> [k \in Nat |-> b * k]]
             power == CHOOSE g : g = [k \in 0..N |-> IF k = 0 THEN 1 ELSE b * g[k - 1]]
  <1>1. F \in [1..N -> [Nat -> Nat]]
    BY Times
  <1>2. PICK g : Follows(g, N, Nat, 1, F)
    <2> HIDE DEF F
    <2> QED
      BY <1>1, Recursion
  <1>3. g \in [0..N -> Nat] /\ g[0] = 1 /\ \A n \in 1..N : g[n] = F[n][g[n - 1]]
    <2> HIDE DEF F
    <2> QED
      BY <1>2 DEF Follows
  <1>4. \A n \in 1..N : g[n] = b * g[n - 1]
    <2>1. \A n \in 1..N : n - 1 \in 0..N
      OBVIOUS
    <2> QED
      BY <1>3, <2>1
  <1>5. g = [k \in 0..N |-> IF k = 0 THEN 1 ELSE b * g[k - 1]]
    <2>1. \A k \in 0..N : k = 0 \/ k \in 1..N
      OBVIOUS
    <2>2. \A k \in 0..N : g[k] = IF k = 0 THEN 1 ELSE b * g[k - 1]
      BY <1>3, <1>4, <2>1
    <2>3. g = [k \in 0..N |-> g[k]]
      BY <1>3
    <2> QED
      BY <2>2, <2>3
  <1>6. power = [k \in 0..N |-> IF k = 0 THEN 1 ELSE b * power[k - 1]]
    BY <1>5, Zenon
  <1>7. Power(b, N) = power[N]
    BY Zenon DEF Power
  <1> HIDE DEF power
  <1>8. power[0] = 1 /\ \A n \in 1..N : power[n] = b * power[n - 1]
    BY <1>6
  <1>9. power \in [0..N -> Nat]
    <2> DEFINE T == {n \in 0..N : power[n] \in Nat}
    <2>1. 0 \in T /\ T \subseteq 0..N
      BY <1>8
    <2>2. \A n \in 1..N : n - 1 \in T => n \in T
      BY <1>8, Times
    <2>3. T = 0..N
      <3> HIDE DEF T
      <3> QED
        BY <2>1, <2>2, Along
    <2> QED
      BY <1>6, <2>3
  <1> QED
    BY <1>7, <1>8, <1>9 DEF PowersTo

LEMMA PowersAgree ==
    ASSUME NEW b \in Nat, NEW N \in Nat, NEW M \in Nat, N =< M, NEW g, NEW h,
           PowersTo(g, b, N), PowersTo(h, b, M)
    PROVE  g[N] = h[N]
  <1> DEFINE T == {n \in 0..N : g[n] = h[n]}
  <1>1. 0 \in T /\ T \subseteq 0..N
    BY DEF PowersTo
  <1>2. \A n \in 1..N : n - 1 \in T => n \in T
    <2>1. \A n \in 1..N : n \in 1..M
      OBVIOUS
    <2> QED
      BY <2>1 DEF PowersTo
  <1>3. N \in T
    <2> HIDE DEF T
    <2>1. T = 0..N
      BY <1>1, <1>2, Along
    <2> QED
      BY <2>1
  <1> QED
    BY <1>3

LEMMA PowerUnfolds ==
    ASSUME NEW b \in Nat, NEW n \in Nat
    PROVE  /\ Power(b, 0) = 1
           /\ Power(b, n) \in Nat
           /\ Power(b, n + 1) = b * Power(b, n)
  <1>1. PICK g : PowersTo(g, b, n) /\ Power(b, n) = g[n]
    BY PowerPath
  <1>2. PICK h : PowersTo(h, b, n + 1) /\ Power(b, n + 1) = h[n + 1]
    BY PowerPath
  <1>3. PICK f : PowersTo(f, b, 0) /\ Power(b, 0) = f[0]
    BY PowerPath
  <1>4. g[n] = h[n]
    BY <1>1, <1>2, PowersAgree
  <1>5. h[n + 1] = b * h[n]
    <2>1. n + 1 \in 1 .. n + 1 /\ (n + 1) - 1 = n
      OBVIOUS
    <2> QED
      BY <1>2, <2>1 DEF PowersTo
  <1>6. f[0] = 1 /\ g[n] \in Nat
    BY <1>1, <1>3 DEF PowersTo
  <1> QED
    BY <1>1, <1>2, <1>3, <1>4, <1>5, <1>6

(* Powers grow: past their exponent, and with it.                          *)
LEMMA PowerGrows ==
    ASSUME NEW b \in Nat, b > 1, NEW n \in Nat
    PROVE  Power(b, n) > n
  <1> DEFINE T == {m \in 0..n : Power(b, m) > m}
  <1>1. 0 \in T /\ T \subseteq 0..n
    BY PowerUnfolds
  <1>2. ASSUME NEW m \in 1..n, m - 1 \in T
        PROVE  m \in T
    <2> DEFINE k == m - 1
               p == Power(b, k)
    <2>1. k \in Nat /\ k + 1 = m /\ p \in Nat /\ p > k /\ Power(b, m) = b * p
      <3>1. k \in Nat /\ k + 1 = m
        OBVIOUS
      <3>2. p \in Nat /\ Power(b, k + 1) = b * p
        BY <3>1, PowerUnfolds
      <3> QED
        BY <1>2, <3>1, <3>2
    <2> HIDE DEF k, p
    <2>2. p * 2 =< p * b
      BY <2>1, Monotone
    <2>3. p * b = b * p /\ p * 2 = p + p
      BY <2>1
    <2>4. b * p > m
      BY <2>1, <2>2, <2>3
    <2> QED
      BY <2>1, <2>4
  <1>3. n \in T
    <2> HIDE DEF T
    <2>1. T = 0..n
      BY <1>1, <1>2, Along
    <2> QED
      BY <2>1
  <1> QED
    BY <1>3

LEMMA PowerMonotone ==
    ASSUME NEW b \in Nat, b > 1, NEW m \in Nat, NEW n \in Nat, m =< n
    PROVE  Power(b, m) =< Power(b, n)
  <1> DEFINE d == n - m
             T == {k \in 0..d : Power(b, m) =< Power(b, m + k)}
  <1>1. d \in Nat /\ m + d = n
    OBVIOUS
  <1> HIDE DEF d
  <1>2. 0 \in T /\ T \subseteq 0..d
    <2>1. Power(b, m) \in Nat /\ m + 0 = m
      BY PowerUnfolds
    <2> QED
      BY <1>1, <2>1
  <1>3. ASSUME NEW k \in 1..d, k - 1 \in T
        PROVE  k \in T
    <2> DEFINE l == m + (k - 1)
               p == Power(b, l)
    <2>1. l \in Nat /\ l + 1 = m + k
      BY <1>1
    <2>2. p \in Nat /\ Power(b, l + 1) = b * p /\ Power(b, m) \in Nat
      BY <2>1, PowerUnfolds
    <2>3. Power(b, m) =< p
      BY <1>3
    <2> HIDE DEF l, p
    <2>4. p * 1 =< p * b
      BY <2>2, Monotone
    <2>5. p =< b * p /\ b * p \in Nat
      BY <2>2, <2>4
    <2> QED
      BY <2>1, <2>2, <2>3, <2>5
  <1>4. d \in T
    <2> HIDE DEF T
    <2>1. T = 0..d
      BY <1>1, <1>2, <1>3, Along
    <2> QED
      BY <1>1, <2>1
  <1> QED
    BY <1>1, <1>4

(* n digits are the width of value.                                        *)
Fits(value, b, n) ==
    /\ value < Power(b, n)
    /\ n = 1 \/ value >= Power(b, n - 1)

LEMMA WidthFits ==
    ASSUME NEW b \in Nat, b > 1, NEW value \in Nat
    PROVE  Width(value, b) \in Nat \ {0} /\ Fits(value, b, Width(value, b))
  <1> DEFINE T == {n \in Nat : n # 0 /\ value < Power(b, n)}
  <1>1. value + 1 \in T
    <2>1. Power(b, value + 1) > value + 1 /\ Power(b, value + 1) \in Nat
      BY PowerGrows, PowerUnfolds
    <2> QED
      BY <2>1
  <1>2. PICK n \in T : \A m \in T : n =< m
    <2>1. T \subseteq Nat /\ T # {}
      BY <1>1
    <2> HIDE DEF T
    <2> QED
      BY <2>1, Least
  <1>3. n \in Nat \ {0} /\ n =< value + 1 /\ value < Power(b, n)
    BY <1>1, <1>2
  <1>4. n = 1 \/ value >= Power(b, n - 1)
    <2>1. n = 1 \/ n - 1 \notin T
      BY <1>2, <1>3
    <2>2. n # 1 => n - 1 \in Nat /\ n - 1 # 0
      BY <1>3
    <2>3. n # 1 => Power(b, n - 1) \in Nat
      BY <2>2, PowerUnfolds
    <2> QED
      BY <2>1, <2>2, <2>3
  <1>5. n \in 1 .. value + 1 /\ Fits(value, b, n)
    BY <1>3, <1>4 DEF Fits
  <1>6. Width(value, b) \in 1 .. value + 1 /\ Fits(value, b, Width(value, b))
    BY <1>5, Zenon DEF Width, Fits
  <1> QED
    BY <1>6

LEMMA WidthIs ==
    ASSUME NEW b \in Nat, b > 1, NEW value \in Nat,
           NEW n \in Nat \ {0}, Fits(value, b, n)
    PROVE  Width(value, b) = n
  <1>1. ASSUME NEW k \in Nat \ {0}, NEW m \in Nat \ {0},
               Fits(value, b, k), Fits(value, b, m), k < m
        PROVE  FALSE
    <2>1. k =< m - 1 /\ m - 1 \in Nat /\ m # 1
      BY <1>1
    <2>2. Power(b, k) =< Power(b, m - 1)
      BY <2>1, PowerMonotone
    <2>3. value < Power(b, k) /\ value >= Power(b, m - 1)
      BY <1>1, <2>1 DEF Fits
    <2>4. Power(b, k) \in Nat /\ Power(b, m - 1) \in Nat
      BY <2>1, PowerUnfolds
    <2> QED
      BY <2>2, <2>3, <2>4
  <1> DEFINE w == Width(value, b)
  <1>2. w \in Nat \ {0} /\ Fits(value, b, w)
    BY WidthFits
  <1> HIDE DEF w
  <1>3. ~(w < n) /\ ~(n < w)
    BY <1>1, <1>2
  <1>4. w = n
    BY <1>2, <1>3
  <1> QED
    BY <1>4 DEF w

(* The first digit stands alone; every further one follows those of the    *)
(* quotient.                                                               *)
LEMMA PositionalOne ==
    ASSUME NEW b \in Nat, b > 1, NEW v \in 0 .. b - 1
    PROVE  Positional(v, b) = <<DigitChars[v + 1]>>
  <1>1. Power(b, 1) = b /\ Power(b, 0) = 1
    <2>1. Power(b, 0 + 1) = b * Power(b, 0) /\ Power(b, 0) = 1
      BY PowerUnfolds
    <2> QED
      BY <2>1
  <1>2. Width(v, b) = 1
    <2>1. Fits(v, b, 1)
      BY <1>1 DEF Fits
    <2> QED
      BY <2>1, WidthIs
  <1>3. (v \div Power(b, 1 - 1)) % b = v
    <2>1. v \div 1 = v /\ v = b * 0 + v
      OBVIOUS
    <2>2. v % b = v
      BY <2>1, DivUnique
    <2> QED
      BY <1>1, <2>1, <2>2
  <1>4. Positional(v, b)
          = [i \in 1..1 |-> DigitChars[((v \div Power(b, 1 - i)) % b) + 1]]
    BY <1>2 DEF Positional
  <1>5. \A i \in 1..1 : DigitChars[((v \div Power(b, 1 - i)) % b) + 1] = DigitChars[v + 1]
    <2>1. \A i \in 1..1 : i = 1
      OBVIOUS
    <2> QED
      BY <1>3, <2>1
  <1>6. <<DigitChars[v + 1]>> = [i \in 1..1 |-> DigitChars[v + 1]]
    OBVIOUS
  <1> QED
    BY <1>4, <1>5, <1>6

LEMMA WidthOfQuotient ==
    ASSUME NEW b \in Nat, b > 1, NEW v \in Nat, v >= b
    PROVE  /\ v \div b \in 1 .. v - 1
           /\ Width(v, b) = Width(v \div b, b) + 1
  <1> DEFINE q == v \div b
             n == Width(q, b)
  <1>1. q \in Nat /\ v % b \in 0 .. b - 1 /\ v = b * q + (v % b)
    <2>1. b \in Nat \ {0}
      OBVIOUS
    <2> QED
      BY <2>1, DivMod
  <1> HIDE DEF q
  <1>2. q \in 1 .. v - 1
    <2>1. q # 0
      <3>1. b * 0 = 0
        OBVIOUS
      <3> QED
        BY <1>1, <3>1
    <2>2. q * 2 =< q * b /\ q * b = b * q /\ q * 2 = q + q
      BY <1>1, Monotone
    <2> QED
      BY <1>1, <2>1, <2>2
  <1>3. n \in Nat \ {0} /\ Fits(q, b, n)
    BY <1>1, WidthFits
  <1> HIDE DEF n
  <1> DEFINE p == Power(b, n)
             l == Power(b, n - 1)
  <1>4. /\ n - 1 \in Nat /\ p \in Nat /\ l \in Nat /\ (n - 1) + 1 = n
        /\ Power(b, n + 1) = b * p /\ p = b * l
    <2>1. n - 1 \in Nat /\ (n - 1) + 1 = n
      BY <1>3
    <2>2. Power(b, (n - 1) + 1) = b * Power(b, n - 1) /\ Power(b, n - 1) \in Nat
      BY <2>1, PowerUnfolds
    <2>3. Power(b, n + 1) = b * Power(b, n) /\ Power(b, n) \in Nat
      BY <1>3, PowerUnfolds
    <2> QED
      BY <2>1, <2>2, <2>3
  <1>5. q < p /\ (n = 1 \/ q >= l) /\ (n = 1 => l = 1)
    BY <1>3, PowerUnfolds DEF Fits
  <1> HIDE DEF p, l
  <1>6. v < b * p
    <2>1. b * (q + 1) =< b * p
      BY <1>1, <1>4, <1>5, Monotone
    <2>2. b * (q + 1) = b * q + b /\ b * q \in Nat /\ b * p \in Nat
      BY <1>1, <1>4
    <2> QED
      BY <1>1, <2>1, <2>2
  <1>7. v >= p
    <2>1. q >= l
      BY <1>2, <1>5
    <2>2. b * l =< b * q
      BY <1>1, <1>4, <2>1, Monotone
    <2>3. b * q \in Nat /\ b * l \in Nat
      BY <1>1, <1>4
    <2> QED
      BY <1>1, <1>4, <2>2, <2>3
  <1>8. Fits(v, b, n + 1)
    <2>1. (n + 1) - 1 = n
      BY <1>3
    <2> QED
      BY <1>4, <1>6, <1>7, <2>1 DEF Fits, p
  <1>9. Width(v, b) = n + 1
    BY <1>3, <1>8, WidthIs
  <1> QED
    BY <1>2, <1>9 DEF q, n

LEMMA PositionalMore ==
    ASSUME NEW b \in Nat, b > 1, NEW v \in Nat, v >= b
    PROVE  Positional(v, b) = Append(Positional(v \div b, b), DigitChars[(v % b) + 1])
  <1> DEFINE q == v \div b
             n == Width(q, b)
             digit(i) == DigitChars[((v \div Power(b, (n + 1) - i)) % b) + 1]
             of(i) == DigitChars[((q \div Power(b, n - i)) % b) + 1]
             last == DigitChars[(v % b) + 1]
  <1>1. q \in Nat /\ n \in Nat \ {0} /\ Width(v, b) = n + 1
    <2>1. q \in 1 .. v - 1 /\ Width(v, b) = n + 1
      BY WidthOfQuotient
    <2>2. q \in Nat
      BY <2>1
    <2> HIDE DEF q
    <2> QED
      BY <2>1, <2>2, WidthFits
  <1>2. Positional(v, b) = [i \in 1 .. n + 1 |-> digit(i)]
    <2> HIDE DEF n, q
    <2> QED
      BY <1>1 DEF Positional
  <1>3. Positional(q, b) = [i \in 1..n |-> of(i)]
    BY DEF Positional
  <1>4. ASSUME NEW i \in 1..n
        PROVE  digit(i) = of(i)
    <2> DEFINE k == n - i
    <2> HIDE DEF q, n
    <2>1. k \in Nat /\ (n + 1) - i = k + 1
      BY <1>1
    <2> HIDE DEF k
    <2>2. Power(b, k + 1) = b * Power(b, k) /\ Power(b, k) \in Nat \ {0}
      <3>1. Power(b, k) > k
        BY <2>1, PowerGrows
      <3>2. Power(b, k) \in Nat /\ Power(b, k + 1) = b * Power(b, k)
        BY <2>1, PowerUnfolds
      <3> QED
        BY <2>1, <3>1, <3>2
    <2>3. v \div (b * Power(b, k)) = q \div Power(b, k)
      BY <2>2, DivDiv DEF q
    <2>4. v \div Power(b, (n + 1) - i) = q \div Power(b, n - i)
      BY <2>1, <2>2, <2>3 DEF k
    <2> QED
      BY <2>4
  <1>5. digit(n + 1) = last
    <2> HIDE DEF q, n
    <2>1. (n + 1) - (n + 1) = 0 /\ Power(b, 0) = 1 /\ v \div 1 = v
      BY <1>1, PowerUnfolds
    <2>2. v \div Power(b, (n + 1) - (n + 1)) = v
      BY <2>1
    <2> QED
      BY <2>2
  <1> HIDE DEF digit, of, last
  <1>6. Append([i \in 1..n |-> of(i)], last) = [i \in 1 .. n + 1 |-> digit(i)]
    <2> HIDE DEF n
    <2> DEFINE s == [i \in 1..n |-> of(i)]
               t == Append(s, last)
    <2>1. n \in Nat /\ Len(s) = n
      BY <1>1
    <2>2. t = [i \in 1 .. n + 1 |-> IF i = n + 1 THEN last ELSE s[i]]
      BY <2>1
    <2>3. \A i \in 1 .. n + 1 : (IF i = n + 1 THEN last ELSE s[i]) = digit(i)
      BY <1>4, <1>5, <2>1
    <2> HIDE DEF s, t
    <2>4. t = [i \in 1 .. n + 1 |-> digit(i)]
      BY <2>2, <2>3, Zenon
    <2> QED
      BY <2>4 DEF t, s
  <1> QED
    BY <1>2, <1>3, <1>6 DEF last, q

(* g is the start of the recursive function of Digits, up to n.            *)
IsDigits(g, n, b) ==
    g = [k \in 0..n |-> IF k = 0 THEN <<>>
                        ELSE Append(g[k \div b], DigitChars[(k % b) + 1])]

LEMMA QuotientBelow ==
    ASSUME NEW b \in Nat, b > 1, NEW k \in Nat \ {0}
    PROVE  k \div b \in 0 .. k - 1 /\ (k < b => k \div b = 0 /\ k % b = k)
  <1>1. CASE k < b
    <2>1. k = b * 0 + k /\ k \in 0 .. b - 1
      BY <1>1
    <2>2. k \div b = 0 /\ k % b = k
      BY <2>1, DivUnique
    <2> QED
      BY <2>2
  <1>2. CASE k >= b
    <2>1. k \div b \in 1 .. k - 1
      BY <1>2, WidthOfQuotient
    <2>2. ~(k < b)
      BY <1>2
    <2>3. \A q \in 1 .. k - 1 : q \in 0 .. k - 1
      OBVIOUS
    <2> QED
      BY <2>1, <2>2, <2>3, Zenon
  <1> QED
    BY <1>1, <1>2

LEMMA DigitsExist ==
    ASSUME NEW b \in Nat, b > 1, NEW N \in Nat
    PROVE  \E g : IsDigits(g, N, b)
  <1> DEFINE T == {n \in 0..N : \E g : IsDigits(g, n, b)}
  <1>1. 0 \in T
    <2>1. IsDigits([k \in 0..0 |-> <<>>], 0, b)
      BY DEF IsDigits
    <2> QED
      BY <2>1
  <1>2. ASSUME NEW n \in 1..N, n - 1 \in T
        PROVE  n \in T
    <2>1. PICK g : IsDigits(g, n - 1, b)
      BY <1>2
    <2> DEFINE Step(f, k) == IF k = 0 THEN <<>>
                             ELSE Append(f[k \div b], DigitChars[(k % b) + 1])
               h == [k \in 0..n |-> Step(g, k)]
    <2>2. \A k \in 0 .. n - 1 : g[k] = Step(g, k)
      BY <2>1 DEF IsDigits
    <2>3. \A k \in 0 .. n - 1 : h[k] = g[k]
      BY <2>2
    <2>4. \A k \in 0..n : Step(g, k) = Step(h, k)
      <3>1. \A k \in 0..n : k # 0 => k \div b \in 0 .. n - 1
        <4> SUFFICES ASSUME NEW k \in 0..n, k # 0 PROVE k \div b \in 0 .. n - 1
          OBVIOUS
        <4>1. k \in Nat \ {0}
          OBVIOUS
        <4>2. k \div b \in 0 .. k - 1
          BY <4>1, QuotientBelow
        <4> QED
          BY <4>2
      <3>2. \A k \in 0..n : k # 0 => h[k \div b] = g[k \div b]
        BY <2>3, <3>1
      <3> HIDE DEF h
      <3> QED
        BY <3>2
    <2>5. IsDigits(h, n, b)
      <3> SUFFICES h = [k \in 0..n |-> Step(h, k)]
        BY DEF IsDigits
      <3> HIDE DEF Step
      <3> QED
        BY <2>4, Zenon
    <2> QED
      BY <2>5
  <1>3. N \in T
    <2>1. T \subseteq 0..N
      OBVIOUS
    <2> HIDE DEF T
    <2>2. T = 0..N
      BY <1>1, <1>2, <2>1, Along
    <2> QED
      BY <2>2
  <1> QED
    BY <1>3

(* The digits in the buffer of itoa are those of the number.               *)
LEMMA DigitsArePositional ==
    ASSUME NEW b \in Nat, b > 1, NEW v \in Nat \ {0}
    PROVE  Digits(v, b) = Positional(v, b)
  <1> DEFINE digits == CHOOSE g : g = [k \in 0..v |->
                          IF k = 0 THEN <<>>
                          ELSE Append(g[k \div b], DigitChars[(k % b) + 1])]
  <1>1. digits = [k \in 0..v |-> IF k = 0 THEN <<>>
                                 ELSE Append(digits[k \div b], DigitChars[(k % b) + 1])]
    <2>1. PICK g : IsDigits(g, v, b)
      BY DigitsExist
    <2> QED
      BY <2>1, Zenon DEF IsDigits
  <1>2. Digits(v, b) = digits[v]
    BY Zenon DEF Digits
  <1> HIDE DEF digits
  <1>3. /\ digits[0] = <<>>
        /\ \A k \in 1..v : digits[k] = Append(digits[k \div b], DigitChars[(k % b) + 1])
    <2>1. 0 \in 0..v /\ \A k \in 1..v : k \in 0..v /\ k # 0
      OBVIOUS
    <2> QED
      BY <1>1, <2>1, Zenon
  <1> DEFINE Bad == {k \in 1..v : digits[k] # Positional(k, b)}
  <1>4. Bad = {}
    <2> SUFFICES ASSUME Bad # {} PROVE FALSE
      OBVIOUS
    <2>1. PICK x \in Bad : \A y \in Bad : x =< y
      <3>1. Bad \subseteq Nat
        OBVIOUS
      <3> HIDE DEF Bad
      <3> QED
        BY <3>1, Least
    <2>2. x \in 1..v /\ x \in Nat \ {0}
      OBVIOUS
    <2>3. x \div b \in 0 .. x - 1 /\ (x < b => x \div b = 0 /\ x % b = x)
      BY <2>2, QuotientBelow
    <2>4. digits[x] = Append(digits[x \div b], DigitChars[(x % b) + 1])
      BY <1>3, <2>2
    <2>5. CASE x < b
      <3>1. Positional(x, b) = <<DigitChars[x + 1]>>
        <4>1. x \in 0 .. b - 1
          BY <2>2, <2>5
        <4> QED
          BY <4>1, PositionalOne
      <3>2. Append(<<>>, DigitChars[x + 1]) = <<DigitChars[x + 1]>>
        OBVIOUS
      <3>3. digits[x] = <<DigitChars[x + 1]>>
        BY <1>3, <2>3, <2>4, <2>5, <3>2
      <3> QED
        BY <3>1, <3>3
    <2>6. CASE x >= b
      <3> DEFINE q == x \div b
      <3>1. q \in 1 .. x - 1
        BY <2>2, <2>6, WidthOfQuotient
      <3> HIDE DEF q
      <3>2. q \in 1..v /\ q \notin Bad
        <4>1. q \in 1..v /\ ~(x =< q)
          BY <2>2, <3>1
        <4> QED
          BY <2>1, <4>1
      <3>3. digits[q] = Positional(q, b)
        BY <3>2
      <3>4. Positional(x, b) = Append(Positional(q, b), DigitChars[(x % b) + 1])
        BY <2>2, <2>6, PositionalMore DEF q
      <3>5. digits[x] = Positional(x, b)
        BY <2>4, <3>3, <3>4 DEF q
      <3> QED
        BY <3>5
    <2> QED
      BY <2>2, <2>5, <2>6
  <1>5. v \in 1..v
    OBVIOUS
  <1> QED
    BY <1>2, <1>4, <1>5

-----------------------------------------------------------------------------
(* The loop of kprint over a format prints what the reference prints.      *)

LEMMA DigitIsChar ==
    ASSUME NEW n \in 1..16
    PROVE  DigitChars[n] \in Chars
  BY CharsAssumption

LEMMA PositionalText ==
    ASSUME NEW b \in Nat, b > 1, b =< 16, NEW v \in Nat
    PROVE  Positional(v, b) \in Seq(Chars)
  <1> DEFINE n == Width(v, b)
             digit(i) == DigitChars[((v \div Power(b, n - i)) % b) + 1]
  <1>1. n \in Nat
    BY WidthFits
  <1> HIDE DEF n
  <1>2. ASSUME NEW i \in 1..n
        PROVE  digit(i) \in Chars
    <2> DEFINE k == n - i
               p == Power(b, k)
    <2>1. k \in Nat
      BY <1>1
    <2> HIDE DEF k
    <2>2. p \in Nat \ {0}
      <3>1. p > k /\ p \in Nat
        BY <2>1, PowerGrows, PowerUnfolds
      <3> QED
        BY <2>1, <3>1
    <2> HIDE DEF p
    <2>3. v \div p \in Nat
      BY <2>2, DivMod
    <2>4. (v \div p) % b \in 0 .. b - 1
      <3>1. b \in Nat \ {0}
        OBVIOUS
      <3> QED
        BY <2>3, <3>1, DivMod
    <2>5. ((v \div p) % b) + 1 \in 1..16
      BY <2>4
    <2> QED
      BY <2>5, DigitIsChar DEF p, k
  <1>3. [i \in 1..n |-> digit(i)] \in Seq(Chars)
    BY <1>1, <1>2
  <1> QED
    BY <1>3 DEF Positional, n

LEMMA IntMinNegative == IntMin \in Int /\ IntMin < 0
  <1>1. INT_VALUES \in Nat /\ INT_VALUES # 0 /\ INT_VALUES % 2 = 0
    BY IntAssumption
  <1>2. INT_VALUES = 2 * (INT_VALUES \div 2) + (INT_VALUES % 2)
        /\ INT_VALUES \div 2 \in Nat
    BY <1>1, DivMod
  <1> QED
    BY <1>1, <1>2 DEF IntMin

LEMMA DecimalAgrees ==
    ASSUME NEW v \in Int, v # IntMin
    PROVE  itoa_dec(v) = IF v < 0 THEN <<"-">> \o Positional(-v, 10) ELSE Positional(v, 10)
  <1>1. CASE v = 0
    <2>1. Positional(0, 10) = <<DigitChars[0 + 1]>>
      BY PositionalOne
    <2>2. DigitChars[1] = "0"
      BY DEF DigitChars
    <2> QED
      BY <1>1, <2>1, <2>2 DEF itoa_dec
  <1>2. CASE v > 0
    <2>1. Digits(v, 10) = Positional(v, 10)
      BY <1>2, DigitsArePositional
    <2>2. Positional(v, 10) \in Seq(Chars)
      BY <1>2, PositionalText
    <2>3. itoa_dec(v) = <<>> \o Digits(v, 10)
      <3>1. v # 0 /\ ~(v < 0) /\ v > 0
        BY <1>2
      <3> QED
        BY <3>1, Zenon DEF itoa_dec
    <2>4. <<>> \o Positional(v, 10) = Positional(v, 10)
      BY <2>2
    <2> QED
      BY <1>2, <2>1, <2>3, <2>4
  <1>3. CASE v < 0
    <2> DEFINE m == -v
    <2>1. m \in Nat \ {0} /\ Negation(v) = m
      BY <1>3 DEF Negation
    <2>2. Digits(m, 10) = Positional(m, 10)
      BY <2>1, DigitsArePositional
    <2>3. itoa_dec(v) = <<"-">> \o Digits(m, 10)
      BY <1>3, <2>1 DEF itoa_dec
    <2> QED
      BY <1>3, <2>2, <2>3
  <1> QED
    BY <1>1, <1>2, <1>3

(* A directive with a fitting argument prints what it should, and only     *)
(* characters.                                                             *)
LEMMA DirectiveAgrees ==
    ASSUME NEW d, NEW arg, Fitting(d, arg)
    PROVE  /\ Directive(d, arg) = ReferenceDirective(d, arg)
           /\ ReferenceDirective(d, arg) \in Seq(Printed)
  <1> DEFINE u == arg % INT_VALUES
  <1>0. "-" \in Chars /\ "x" \in Chars /\ "%" \in Chars /\ "0" \in Chars
    BY CharsAssumption, DigitIsChar DEF DigitChars
  <1>1. \A s \in Seq(Chars) : s \in Seq(Printed)
    BY DEF Printed
  <1>2. CASE d = "d"
    <2>1. arg \in Int /\ arg # IntMin
      BY <1>2 DEF Fitting
    <2>2. Directive(d, arg) = itoa_dec(arg)
      BY <1>2 DEF Directive
    <2>3. ReferenceDirective(d, arg) = IF arg < 0 THEN <<"-">> \o Positional(-arg, 10)
                                                  ELSE Positional(arg, 10)
      BY <1>2 DEF ReferenceDirective
    <2>4. ReferenceDirective(d, arg) \in Seq(Chars)
      <3>1. CASE arg < 0
        <4>1. -arg \in Nat
          BY <2>1, <3>1
        <4>2. Positional(-arg, 10) \in Seq(Chars)
          BY <4>1, PositionalText
        <4> HIDE DEF u
        <4> QED
          BY <1>0, <2>3, <3>1, <4>2
      <3>2. CASE ~(arg < 0)
        BY <2>1, <2>3, <3>2, PositionalText
      <3> QED
        BY <3>1, <3>2
    <2> QED
      BY <1>1, <2>1, <2>2, <2>3, <2>4, DecimalAgrees
  <1>3. CASE d = "x"
    <2>1. arg \in Int /\ u \in Nat
      <3>1. arg \in Int
        BY <1>3 DEF Fitting
      <3>2. INT_VALUES \in Nat \ {0}
        BY IntAssumption
      <3> QED
        BY <3>1, <3>2
    <2> HIDE DEF u
    <2>2. Directive(d, arg) = itoa_hex(u)
      BY <1>3 DEF Directive, u
    <2>3. CASE u = 0
      <3>1. itoa_hex(u) = <<"0">>
        BY <2>3 DEF itoa_hex
      <3>2. ReferenceDirective(d, arg) = Directive(d, arg)
        BY <1>3, <2>3 DEF ReferenceDirective, u
      <3>3. <<"0">> \in Seq(Chars)
        BY <1>0
      <3> QED
        BY <1>1, <2>2, <3>1, <3>2, <3>3, Zenon
    <2>4. CASE u # 0
      <3>1. Digits(u, 16) = Positional(u, 16)
        BY <2>1, <2>4, DigitsArePositional
      <3>2. Positional(u, 16) \in Seq(Chars)
        BY <2>1, PositionalText
      <3>3. itoa_hex(u) = <<"0", "x">> \o Positional(u, 16)
        BY <2>4, <3>1 DEF itoa_hex
      <3>4. ReferenceDirective(d, arg) = <<"0", "x">> \o Positional(u, 16)
        BY <1>3, <2>4 DEF ReferenceDirective, u
      <3>5. <<"0", "x">> \o Positional(u, 16) \in Seq(Chars)
        BY <1>0, <3>2
      <3> QED
        BY <1>1, <2>2, <3>3, <3>4, <3>5
    <2> QED
      BY <2>3, <2>4
  <1>4. CASE d \notin {"d", "x"}
    <2>1. ReferenceDirective(d, arg) = Directive(d, arg)
      BY <1>4 DEF ReferenceDirective
    <2>2. CASE d = "s"
      BY <2>1, <2>2 DEF Directive, Fitting
    <2>3. CASE d = "c"
      BY <2>1, <2>3 DEF Directive, Fitting
    <2>4. CASE d \notin {"s", "c"}
      <3>1. d \in Chars
        BY <1>4, <2>4 DEF Fitting
      <3>2. Directive(d, arg) = <<"%", d>>
        BY <1>4, <2>4 DEF Directive
      <3>3. \A e \in Chars : <<"%", e>> \in Seq(Chars)
        BY <1>0
      <3>4. Directive(d, arg) \in Seq(Printed)
        BY <1>1, <3>1, <3>2, <3>3
      <3> QED
        BY <2>1, <3>4
    <2> QED
      BY <2>1, <2>2, <2>3, <2>4
  <1> QED
    BY <1>2, <1>3, <1>4

Asks(call, s) ==
    s.i =< Len(call.fmt) =>
        IF call.fmt[s.i] = "%"
        THEN Fitting(call.fmt[s.i + 1],
                     IF TakesArgument(call.fmt[s.i + 1]) THEN call.args[s.a] ELSE 0)
        ELSE call.fmt[s.i] \in Printed

LEMMA ScanAgrees ==
    ASSUME NEW call, Len(call.fmt) \in Nat, NEW s, s.i \in Nat, s.out \in Seq(Printed),
           Asks(call, s)
    PROVE  /\ Scan(call, FALSE, s) = Scan(call, TRUE, s)
           /\ Scan(call, TRUE, s).i \in Nat
           /\ Scan(call, TRUE, s).out \in Seq(Printed)
  <1> DEFINE c == call.fmt[s.i]
             d == call.fmt[s.i + 1]
             arg == IF TakesArgument(d) THEN call.args[s.a] ELSE 0
  <1>1. CASE s.i > Len(call.fmt)
    BY <1>1 DEF Scan
  <1>2. CASE ~(s.i > Len(call.fmt)) /\ c # "%"
    <2>1. c \in Printed
      BY <1>2 DEF Asks
    <2> DEFINE next == [i |-> s.i + 1, a |-> s.a, out |-> Append(s.out, c)]
    <2>2. Scan(call, FALSE, s) = next /\ Scan(call, TRUE, s) = next
      BY <1>2 DEF Scan
    <2>3. Append(s.out, c) \in Seq(Printed) /\ s.i + 1 \in Nat
      BY <2>1
    <2>4. next.i \in Nat /\ next.out \in Seq(Printed)
      BY <2>3
    <2> HIDE DEF next
    <2> QED
      BY <2>2, <2>4
  <1>3. CASE ~(s.i > Len(call.fmt)) /\ c = "%"
    <2>1. Fitting(d, arg)
      BY <1>3 DEF Asks
    <2> HIDE DEF d, arg
    <2>2. /\ Directive(d, arg) = ReferenceDirective(d, arg)
          /\ ReferenceDirective(d, arg) \in Seq(Printed)
      BY <2>1, DirectiveAgrees
    <2>3. s.out \o ReferenceDirective(d, arg) \in Seq(Printed) /\ s.i + 2 \in Nat
      BY <2>2
    <2> DEFINE next(text) == [i |-> s.i + 2,
                              a |-> IF TakesArgument(d) THEN s.a + 1 ELSE s.a,
                              out |-> s.out \o text]
               text == ReferenceDirective(d, arg)
    <2>4. /\ Scan(call, FALSE, s) = next(Directive(d, arg))
          /\ Scan(call, TRUE, s) = next(text)
      BY <1>3 DEF Scan, d, arg
    <2>5. next(text).i \in Nat /\ next(text).out \in Seq(Printed)
      <3> HIDE DEF text
      <3> QED
        BY <2>3 DEF text
    <2> HIDE DEF next
    <2> QED
      BY <2>2, <2>4, <2>5
  <1> QED
    BY <1>1, <1>2, <1>3

ScanStart == [i |-> 1, a |-> 1, out |-> <<>>]

(* g is the start of the recursive function of the loop.                   *)
IsScanned(g, n, call, reference) ==
    g = [i \in 0..n |-> IF i = 0 THEN ScanStart ELSE Scan(call, reference, g[i - 1])]

LEMMA ScannedExists ==
    ASSUME NEW call, NEW reference, NEW N \in Nat
    PROVE  \E g : IsScanned(g, N, call, reference)
  <1> DEFINE T == {n \in 0..N : \E g : IsScanned(g, n, call, reference)}
  <1>1. 0 \in T
    <2>1. IsScanned([i \in 0..0 |-> ScanStart], 0, call, reference)
      BY DEF IsScanned
    <2> QED
      BY <2>1
  <1>2. ASSUME NEW n \in 1..N, n - 1 \in T
        PROVE  n \in T
    <2>1. PICK g : IsScanned(g, n - 1, call, reference)
      BY <1>2
    <2> DEFINE Step(f, i) == IF i = 0 THEN ScanStart ELSE Scan(call, reference, f[i - 1])
               h == [i \in 0..n |-> Step(g, i)]
    <2>2. \A i \in 0 .. n - 1 : g[i] = Step(g, i)
      BY <2>1 DEF IsScanned
    <2>3. \A i \in 0 .. n - 1 : h[i] = g[i]
      BY <2>2
    <2>4. \A i \in 0..n : Step(g, i) = Step(h, i)
      <3>1. \A i \in 0..n : i # 0 => i - 1 \in 0 .. n - 1
        OBVIOUS
      <3>2. \A i \in 0..n : i # 0 => h[i - 1] = g[i - 1]
        BY <2>3, <3>1
      <3> HIDE DEF h
      <3> QED
        BY <3>2
    <2>5. IsScanned(h, n, call, reference)
      <3> SUFFICES h = [i \in 0..n |-> Step(h, i)]
        BY DEF IsScanned
      <3> HIDE DEF Step
      <3> QED
        BY <2>4, Zenon
    <2> QED
      BY <2>5
  <1>3. N \in T
    <2>1. T \subseteq 0..N
      OBVIOUS
    <2> HIDE DEF T
    <2>2. T = 0..N
      BY <1>1, <1>2, <2>1, Along
    <2> QED
      BY <2>2
  <1> QED
    BY <1>3

LEMMA ScannedUnfolds ==
    ASSUME NEW call, NEW reference, Len(call.fmt) \in Nat
    PROVE  /\ Scanned(call, reference)[0] = ScanStart
           /\ \A n \in 1..Len(call.fmt) :
                Scanned(call, reference)[n]
                  = Scan(call, reference, Scanned(call, reference)[n - 1])
  <1> DEFINE N == Len(call.fmt)
             after == CHOOSE g : g = [n \in 0..N |->
                          IF n = 0 THEN [i |-> 1, a |-> 1, out |-> <<>>]
                          ELSE Scan(call, reference, g[n - 1])]
  <1>1. PICK g : IsScanned(g, N, call, reference)
    BY ScannedExists
  <1>2. after = [n \in 0..N |-> IF n = 0 THEN ScanStart
                                ELSE Scan(call, reference, after[n - 1])]
    BY <1>1, Zenon DEF IsScanned, ScanStart
  <1>3. Scanned(call, reference) = after
    BY Zenon DEF Scanned
  <1> HIDE DEF after
  <1>4. /\ after[0] = ScanStart
        /\ \A n \in 1..N : after[n] = Scan(call, reference, after[n - 1])
    BY <1>2
  <1> QED
    BY <1>3, <1>4

(* The text of a call is what the reference makes of it.                   *)
LEMMA TextAgrees ==
    ASSUME NEW call, Len(call.fmt) \in Nat, WellFormed(call)
    PROVE  TextOf(call, FALSE) = TextOf(call, TRUE) /\ TextOf(call, TRUE) \in Seq(Printed)
  <1> DEFINE N == Len(call.fmt)
             f == Scanned(call, FALSE)
             t == Scanned(call, TRUE)
             T == {n \in 0..N : f[n] = t[n] /\ t[n].i \in Nat /\ t[n].out \in Seq(Printed)}
  <1>1. f[0] = ScanStart /\ \A n \in 1..N : f[n] = Scan(call, FALSE, f[n - 1])
    BY ScannedUnfolds
  <1>2. t[0] = ScanStart /\ \A n \in 1..N : t[n] = Scan(call, TRUE, t[n - 1])
    BY ScannedUnfolds
  <1>3. \A n \in 0..N : Asks(call, t[n])
    BY Zenon DEF WellFormed, Asks
  <1> HIDE DEF f, t
  <1>4. 0 \in T /\ T \subseteq 0..N
    <2>1. ScanStart.i \in Nat /\ ScanStart.out \in Seq(Printed)
      BY DEF ScanStart
    <2> QED
      BY <1>1, <1>2, <2>1
  <1>5. \A n \in 1..N : n - 1 \in T => n \in T
    <2> SUFFICES ASSUME NEW n \in 1..N, n - 1 \in T PROVE n \in T
      OBVIOUS
    <2> DEFINE s == t[n - 1]
    <2>1. /\ f[n - 1] = s /\ s.i \in Nat /\ s.out \in Seq(Printed) /\ Asks(call, s)
          /\ f[n] = Scan(call, FALSE, f[n - 1]) /\ t[n] = Scan(call, TRUE, s)
      BY <1>1, <1>2, <1>3
    <2> HIDE DEF s
    <2>2. /\ Scan(call, FALSE, s) = Scan(call, TRUE, s) /\ Scan(call, TRUE, s).i \in Nat
          /\ Scan(call, TRUE, s).out \in Seq(Printed)
      BY <2>1, ScanAgrees
    <2>3. f[n] = t[n] /\ t[n].i \in Nat /\ t[n].out \in Seq(Printed)
      BY <2>1, <2>2
    <2> QED
      BY <2>3
  <1>6. N \in T
    <2> HIDE DEF T
    <2>1. T = 0..N
      BY <1>4, <1>5, Along
    <2> QED
      BY <2>1
  <1> QED
    BY <1>6 DEF TextOf, f, t

-----------------------------------------------------------------------------
(* Rows and texts put one after the other.                                 *)

FlattensTo(f, q, S) ==
    /\ f \in [1..Len(q) -> Seq(S)] /\ f[1] = q[1]
    /\ \A i \in 2..Len(q) : f[i] = f[i - 1] \o q[i]

LEMMA FlattenPath ==
    ASSUME NEW S, NEW q \in Seq(Seq(S)), Len(q) # 0
    PROVE  \E f : FlattensTo(f, q, S) /\ FlattenSeq(q) = f[Len(q)]
  <1> DEFINE N == Len(q)
             M == N - 1
             F == [n \in 1..M |-> [s \in Seq(S) |-> s \o q[n + 1]]]
             flatten == CHOOSE f : f = [i \in 1..N |->
                            IF i = 1 THEN q[i] ELSE f[i - 1] \o q[i]]
  <1>1. N \in Nat \ {0} /\ M \in Nat /\ N = M + 1 /\ \A i \in 1..N : q[i] \in Seq(S)
    OBVIOUS
  <1>2. F \in [1..M -> [Seq(S) -> Seq(S)]]
    <2>1. \A n \in 1..M : n + 1 \in 1..N
      BY <1>1
    <2>2. \A n \in 1..M : \A s \in Seq(S) : s \o q[n + 1] \in Seq(S)
      BY <1>1, <2>1
    <2> HIDE DEF M
    <2> QED
      BY <2>2
  <1> HIDE DEF M, N
  <1>3. PICK g : Follows(g, M, Seq(S), q[1], F)
    <2>1. q[1] \in Seq(S)
      BY <1>1
    <2> HIDE DEF F
    <2> QED
      BY <1>1, <1>2, <2>1, Recursion
  <1>4. /\ g \in [0..M -> Seq(S)] /\ g[0] = q[1]
        /\ \A n \in 1..M : g[n] = F[n][g[n - 1]]
    <2> HIDE DEF F
    <2> QED
      BY <1>3 DEF Follows
  <1>5. \A n \in 1..M : g[n] = g[n - 1] \o q[n + 1]
    <2>1. \A n \in 1..M : n - 1 \in 0..M
      BY <1>1
    <2>2. \A n \in 1..M : g[n - 1] \in Seq(S)
      BY <1>4, <2>1
    <2> QED
      BY <1>4, <2>2
  <1> DEFINE f == [i \in 1..N |-> g[i - 1]]
  <1>6. f = [i \in 1..N |-> IF i = 1 THEN q[i] ELSE f[i - 1] \o q[i]]
    <2>1. ASSUME NEW i \in 1..N, i # 1
          PROVE  f[i] = f[i - 1] \o q[i]
      <3>1. i - 1 \in 1..N /\ i - 1 \in 1..M /\ (i - 1) + 1 = i
        BY <1>1, <2>1
      <3>2. f[i - 1] = g[(i - 1) - 1] /\ f[i] = g[i - 1]
        BY <3>1
      <3>3. g[i - 1] = g[(i - 1) - 1] \o q[(i - 1) + 1]
        BY <1>5, <3>1
      <3> QED
        BY <3>1, <3>2, <3>3
    <2>2. 1 \in 1..N /\ f[1] = q[1]
      BY <1>1, <1>4
    <2>3. \A i \in 1..N : f[i] = IF i = 1 THEN q[i] ELSE f[i - 1] \o q[i]
      BY <2>1, <2>2
    <2>4. f = [i \in 1..N |-> f[i]]
      OBVIOUS
    <2> HIDE DEF f
    <2> QED
      BY <2>3, <2>4
  <1>7. flatten = [i \in 1..N |-> IF i = 1 THEN q[i] ELSE flatten[i - 1] \o q[i]]
    <2> HIDE DEF f
    <2> QED
      BY <1>6, Zenon
  <1>8. FlattenSeq(q) = flatten[N]
    <2>1. Len(q) # 0
      OBVIOUS
    <2> QED
      BY <2>1, Zenon DEF FlattenSeq, N
  <1> HIDE DEF flatten
  <1>9. flatten[1] = q[1] /\ \A i \in 2..N : flatten[i] = flatten[i - 1] \o q[i]
    <2>1. 1 \in 1..N /\ \A i \in 2..N : i \in 1..N /\ i # 1
      BY <1>1
    <2> QED
      BY <1>7, <2>1, Zenon
  <1>10. flatten \in [1..N -> Seq(S)]
    <2> DEFINE T == {n \in 0..M : flatten[n + 1] \in Seq(S)}
    <2>1. 0 \in T /\ T \subseteq 0..M
      BY <1>1, <1>9
    <2>2. ASSUME NEW n \in 1..M, n - 1 \in T
          PROVE  n \in T
      <3>1. flatten[n] \in Seq(S)
        <4>1. (n - 1) + 1 = n
          BY <1>1
        <4> QED
          BY <2>2, <4>1
      <3>2. n + 1 \in 2..N /\ (n + 1) - 1 = n /\ n + 1 \in 1..N
        BY <1>1
      <3>3. flatten[n + 1] = flatten[n] \o q[n + 1] /\ q[n + 1] \in Seq(S)
        BY <1>1, <1>9, <3>2
      <3>4. flatten[n + 1] \in Seq(S) /\ n \in 0..M
        <4>1. \A s \in Seq(S) : \A u \in Seq(S) : s \o u \in Seq(S)
          OBVIOUS
        <4> QED
          BY <1>1, <3>1, <3>3, <4>1
      <3> QED
        BY <3>4
    <2>3. T = 0..M
      <3> HIDE DEF T
      <3> QED
        BY <1>1, <2>1, <2>2, Along
    <2>4. \A i \in 1..N : flatten[i] \in Seq(S)
      <3> SUFFICES ASSUME NEW i \in 1..N PROVE flatten[i] \in Seq(S)
        OBVIOUS
      <3>1. i - 1 \in 0..M /\ (i - 1) + 1 = i
        BY <1>1
      <3>2. i - 1 \in T
        BY <2>3, <3>1
      <3> QED
        BY <3>1, <3>2
    <2> QED
      BY <1>7, <2>4
  <1> QED
    BY <1>8, <1>9, <1>10 DEF FlattensTo, N

StartAlike(q, r, n) == \A i \in 1..n : q[i] = r[i]

LEMMA FlattensAgree ==
    ASSUME NEW S, NEW q \in Seq(Seq(S)), NEW r \in Seq(Seq(S)), NEW f, NEW h,
           FlattensTo(f, q, S), FlattensTo(h, r, S),
           NEW n \in Nat \ {0}, n =< Len(q), n =< Len(r), StartAlike(q, r, n)
    PROVE  f[n] = h[n]
  <1> DEFINE m == n - 1
             T == {k \in 0..m : f[k + 1] = h[k + 1]}
  <1>1. m \in Nat /\ m + 1 = n
    OBVIOUS
  <1> HIDE DEF m
  <1>2. 0 \in T /\ T \subseteq 0..m
    <2>1. f[1] = q[1] /\ h[1] = r[1] /\ q[1] = r[1]
      BY DEF FlattensTo, StartAlike
    <2> QED
      BY <1>1, <2>1
  <1>3. ASSUME NEW k \in 1..m, k - 1 \in T
        PROVE  k \in T
    <2>1. f[k] = h[k]
      <3>1. (k - 1) + 1 = k
        OBVIOUS
      <3> QED
        BY <1>3, <3>1
    <2>2. k + 1 \in 2..Len(q) /\ k + 1 \in 2..Len(r) /\ k + 1 \in 1..n /\ (k + 1) - 1 = k
      BY <1>1
    <2>3. f[k + 1] = f[k] \o q[k + 1] /\ h[k + 1] = h[k] \o r[k + 1]
      BY <2>2 DEF FlattensTo
    <2>4. q[k + 1] = r[k + 1]
      BY <2>2 DEF StartAlike
    <2>5. f[k + 1] = h[k + 1]
      BY <2>1, <2>3, <2>4
    <2> QED
      BY <2>5
  <1>4. m \in T
    <2> HIDE DEF T
    <2>1. T = 0..m
      BY <1>1, <1>2, <1>3, Along
    <2> QED
      BY <1>1, <2>1
  <1> QED
    BY <1>1, <1>4

LEMMA FlattenAppend ==
    ASSUME NEW S, NEW q \in Seq(Seq(S)), NEW x \in Seq(S)
    PROVE  /\ FlattenSeq(q) \in Seq(S)
           /\ FlattenSeq(Append(q, x)) = FlattenSeq(q) \o x
  <1> DEFINE r == Append(q, x)
             n == Len(q)
  <1>1. /\ n \in Nat /\ r \in Seq(Seq(S)) /\ Len(r) = n + 1 /\ r[n + 1] = x
        /\ \A i \in 1..n : r[i] = q[i]
    OBVIOUS
  <1> HIDE DEF r
  <1>2. PICK h : FlattensTo(h, r, S) /\ FlattenSeq(r) = h[n + 1]
    BY <1>1, FlattenPath
  <1>3. CASE n = 0
    <2>1. FlattenSeq(q) = <<>>
      BY <1>3 DEF FlattenSeq
    <2>2. h[1] = x
      BY <1>1, <1>2, <1>3 DEF FlattensTo
    <2>3. <<>> \o x = x /\ <<>> \in Seq(S)
      OBVIOUS
    <2> QED
      BY <1>2, <1>3, <2>1, <2>2, <2>3 DEF r
  <1>4. CASE n # 0
    <2>1. PICK f : FlattensTo(f, q, S) /\ FlattenSeq(q) = f[n]
      BY <1>4, FlattenPath
    <2>2. f[n] = h[n]
      <3>1. n \in Nat \ {0} /\ n =< Len(q) /\ n =< Len(r) /\ StartAlike(q, r, n)
        BY <1>1, <1>4 DEF StartAlike
      <3> HIDE DEF n
      <3> QED
        BY <1>1, <1>2, <2>1, <3>1, FlattensAgree
    <2>3. h[n + 1] = h[n] \o x
      <3>1. n + 1 \in 2..Len(r) /\ (n + 1) - 1 = n
        BY <1>1, <1>4
      <3> QED
        BY <1>1, <1>2, <3>1 DEF FlattensTo
    <2>4. f[n] \in Seq(S)
      <3>1. f \in [1..n -> Seq(S)] /\ n \in 1..n
        BY <1>1, <1>4, <2>1 DEF FlattensTo
      <3> QED
        BY <3>1
    <2> QED
      BY <1>2, <2>1, <2>2, <2>3, <2>4 DEF r
  <1> QED
    BY <1>3, <1>4

(* A character more in the last one.                                       *)
LEMMA FlattenGrow ==
    ASSUME NEW S, NEW q \in Seq(Seq(S)), Len(q) # 0, NEW c \in S
    PROVE  LET r == [q EXCEPT ![Len(q)] = Append(q[Len(q)], c)] IN
           r \in Seq(Seq(S)) /\ FlattenSeq(r) = Append(FlattenSeq(q), c)
  <1> DEFINE n == Len(q)
             x == q[n]
             y == Append(x, c)
             r == [q EXCEPT ![n] = y]
             front == [i \in 1 .. n - 1 |-> q[i]]
  <1>1. n \in Nat \ {0} /\ x \in Seq(S)
    OBVIOUS
  <1> HIDE DEF x
  <1>2. y \in Seq(S) /\ y = x \o <<c>>
    BY <1>1
  <1>3. /\ front \in Seq(Seq(S)) /\ Len(front) = n - 1
        /\ \A i \in 1 .. n - 1 : front[i] = q[i]
    BY <1>1
  <1> HIDE DEF front, y
  <1>4. r \in Seq(Seq(S)) /\ Len(r) = n /\ r[n] = y /\ \A i \in 1 .. n - 1 : r[i] = q[i]
    BY <1>1, <1>2
  <1> HIDE DEF r
  <1>5. q = Append(front, x)
    <2>1. Append(front, x) \in Seq(Seq(S)) /\ Len(Append(front, x)) = n
          /\ Append(front, x)[n] = x
          /\ \A i \in 1 .. n - 1 : Append(front, x)[i] = front[i]
      BY <1>1, <1>3
    <2>2. \A i \in 1..n : Append(front, x)[i] = q[i]
      <3>1. \A i \in 1..n : i = n \/ i \in 1 .. n - 1
        BY <1>1
      <3> QED
        BY <1>3, <2>1, <3>1 DEF x
    <2> QED
      BY <2>1, <2>2, SeqEqual
  <1>6. r = Append(front, y)
    <2>1. Append(front, y) \in Seq(Seq(S)) /\ Len(Append(front, y)) = n
          /\ Append(front, y)[n] = y
          /\ \A i \in 1 .. n - 1 : Append(front, y)[i] = front[i]
      BY <1>1, <1>2, <1>3
    <2>2. \A i \in 1..n : Append(front, y)[i] = r[i]
      <3>1. \A i \in 1..n : i = n \/ i \in 1 .. n - 1
        BY <1>1
      <3> QED
        BY <1>3, <1>4, <2>1, <3>1
    <2> QED
      BY <1>4, <2>1, <2>2, SeqEqual
  <1> DEFINE below == FlattenSeq(front)
  <1>7. /\ below \in Seq(S) /\ FlattenSeq(Append(front, x)) = below \o x
        /\ FlattenSeq(Append(front, y)) = below \o y
    BY <1>1, <1>2, <1>3, FlattenAppend
  <1> HIDE DEF below
  <1>8. below \o (x \o <<c>>) = Append(below \o x, c)
    BY <1>1, <1>7
  <1> QED
    BY <1>2, <1>4, <1>5, <1>6, <1>7, <1>8 DEF r, y, x

-----------------------------------------------------------------------------
(* What kprint prints is what the screen shows.                            *)

LEMMA TextOfCalls ==
    ASSUME NEW made, Len(made) \in Nat,
           \A n \in 1..Len(made) : Len(made[n].fmt) \in Nat /\ WellFormed(made[n])
    PROVE  Text(made, FALSE) = Text(made, TRUE) /\ Text(made, TRUE) \in Seq(Printed)
  <1> DEFINE N == Len(made)
             q == [n \in 1..N |-> TextOf(made[n], TRUE)]
  <1>1. \A n \in 1..N : /\ TextOf(made[n], FALSE) = TextOf(made[n], TRUE)
                        /\ TextOf(made[n], TRUE) \in Seq(Printed)
    BY TextAgrees
  <1>2. [n \in 1..N |-> TextOf(made[n], FALSE)] = q
    BY <1>1
  <1>3. q \in Seq(Seq(Printed))
    <2>1. N \in Nat /\ \A n \in 1..N : TextOf(made[n], TRUE) \in Seq(Printed)
      BY <1>1
    <2> DEFINE S == Seq(Printed)
               text(n) == TextOf(made[n], TRUE)
    <2> HIDE DEF N, S, text
    <2>2. N \in Nat /\ \A n \in 1..N : text(n) \in S
      BY <2>1 DEF text, S
    <2>3. [n \in 1..N |-> text(n)] \in Seq(S)
      BY <2>2
    <2> QED
      BY <2>3 DEF S, text
  <1>4. Text(made, FALSE) = FlattenSeq(q) /\ Text(made, TRUE) = FlattenSeq(q)
    BY <1>2 DEF Text
  <1> HIDE DEF q
  <1>5. FlattenSeq(q) \in Seq(Printed)
    <2>1. <<>> \in Seq(Printed)
      OBVIOUS
    <2> QED
      BY <1>3, <2>1, FlattenAppend
  <1> QED
    BY <1>4, <1>5

LEMMA KprintShows ==
    ASSUME Shows(con, paper), NEW made, kprint(made), Len(made) \in Nat,
           \A n \in 1..Len(made) : Len(made[n].fmt) \in Nat /\ WellFormed(made[n])
    PROVE  Shows(con', paper')
  <1> DEFINE s == Text(made, TRUE)
  <1>1. Text(made, FALSE) = s /\ s \in Seq(Printed)
    BY TextOfCalls
  <1> HIDE DEF s
  <1>2. con' = console_write(con, s) /\ paper' = Rolled(paper, s)[Len(s)]
    BY <1>1 DEF kprint, s
  <1>3. Shows(console_write(con, s), Rolled(paper, s)[Len(s)])
    BY <1>1, WriteShows DEF Printed
  <1> QED
    BY <1>2, <1>3

LEMMA FirstShows == Shows(console_init, << <<>> >>)
  <1> USE GridAssumption
  <1> DEFINE p == << <<>> >>
             grid == [row \in Rows |-> BlankRow]
  <1>1. p \in Seq(Seq(Chars)) /\ Len(p) = 1 /\ p[1] = <<>> /\ Len(p[1]) = 0
    <2>1. <<>> \in Seq(Chars)
      OBVIOUS
    <2> QED
      BY <2>1
  <1>2. 0 \in Rows /\ 0 \in Cols
    BY DEF Rows, Cols
  <1>3. LeftTop(p) = 0
    BY <1>1 DEF LeftTop
  <1>4. grid \in [Rows -> [Cols -> Glyphs]]
    BY DEF BlankRow, Glyphs
  <1> HIDE DEF p
  <1>5. ASSUME NEW r \in Rows, NEW k \in Cols
        PROVE  grid[r][k] = On(p, r, k)
    <2>1. ~(0 + r + 1 =< Len(p) /\ k + 1 =< Len(p[0 + r + 1]))
      <3>1. r \in Nat /\ k \in Nat
        BY DEF Rows, Cols
      <3>2. 0 + r + 1 =< 1 => 0 + r + 1 = 1
        BY <3>1
      <3> QED
        BY <1>1, <3>1, <3>2
    <2>2. On(p, r, k) = Blank
      BY <1>3, <2>1 DEF On
    <2> QED
      BY <2>2 DEF BlankRow
  <1> HIDE DEF grid
  <1>6. ShowsGrid(grid, 0, p)
    BY <1>1, <1>2, <1>3, <1>4, <1>5 DEF ShowsGrid
  <1>7. console_init = [row |-> 0, col |-> 0, cells |-> grid]
    BY DEF console_init, grid
  <1> QED
    BY <1>1, <1>2, <1>6, <1>7 DEF Shows, p

(* Shows is what the property says of the screen.                          *)
LEMMA ShowsOutput == Shows(con, paper) => ScreenShowsOutput
  BY DEF Shows, ShowsGrid, On, LeftTop, ScreenShowsOutput, Gone, OnPaper

-----------------------------------------------------------------------------
(* The report of an exception.                                             *)

LEMMA ScanChar ==
    ASSUME NEW call, NEW s, ~(s.i > Len(call.fmt)), call.fmt[s.i] # "%"
    PROVE  Scan(call, TRUE, s)
             = [i |-> s.i + 1, a |-> s.a, out |-> Append(s.out, call.fmt[s.i])]
  BY Zenon DEF Scan

(* The scan behind a directive that takes an argument.                     *)
Behind(call, s, d) ==
    [i |-> s.i + 2, a |-> s.a + 1,
     out |-> s.out \o ReferenceDirective(d, call.args[s.a])]

LEMMA ScanWord ==
    ASSUME NEW call, NEW s, NEW d, ~(s.i > Len(call.fmt)), call.fmt[s.i] = "%",
           call.fmt[s.i + 1] = d, TakesArgument(d)
    PROVE  Scan(call, TRUE, s) = Behind(call, s, d)
  BY Zenon DEF Scan, Behind

LEMMA ScanEnd ==
    ASSUME NEW call, NEW s, s.i > Len(call.fmt)
    PROVE  Scan(call, TRUE, s) = s
  BY Zenon DEF Scan

LEMMA SaidOfText ==
    ASSUME NEW text \in Chars, text # "%", NEW d \in {"d", "x"},
           NEW arg \in Int, arg # IntMin
    PROVE  LET call == SaidOf(text, d, arg) IN
           /\ Len(call.fmt) = 4 /\ WellFormed(call)
           /\ ReferenceDirective(d, arg) \in Seq(Printed)
           /\ TextOf(call, TRUE)
                = Append(<<text>> \o ReferenceDirective(d, arg), Newline)
  <1> DEFINE call == SaidOf(text, d, arg)
             t == Scanned(call, TRUE)
             word == ReferenceDirective(d, arg)
             end == Append(<<text>> \o word, Newline)
  <1>1. /\ Len(call.fmt) = 4 /\ call.fmt[1] = text /\ call.fmt[2] = "%"
        /\ call.fmt[3] = d /\ call.fmt[4] = Newline /\ call.args[1] = arg
    BY DEF SaidOf
  <1>2. TakesArgument(d) /\ Fitting(d, arg)
    BY DEF TakesArgument, Fitting
  <1>3. word \in Seq(Printed)
    BY <1>2, DirectiveAgrees
  <1>4. t[0] = ScanStart /\ \A n \in 1..4 : t[n] = Scan(call, TRUE, t[n - 1])
    <2> HIDE DEF call
    <2>1. Len(call.fmt) \in Nat
      BY <1>1
    <2>2. t[0] = ScanStart
          /\ \A n \in 1..Len(call.fmt) : t[n] = Scan(call, TRUE, t[n - 1])
      BY <2>1, ScannedUnfolds
    <2> QED
      BY <1>1, <2>2
  <1> HIDE DEF call, t, word, end
  <1>5. t[1] = Scan(call, TRUE, t[0]) /\ t[2] = Scan(call, TRUE, t[1])
        /\ t[3] = Scan(call, TRUE, t[2]) /\ t[4] = Scan(call, TRUE, t[3])
    <2>1. 1 - 1 = 0 /\ 2 - 1 = 1 /\ 3 - 1 = 2 /\ 4 - 1 = 3
      OBVIOUS
    <2>2. 1 \in 1..4 /\ 2 \in 1..4 /\ 3 \in 1..4 /\ 4 \in 1..4
      OBVIOUS
    <2> QED
      BY <1>4, <2>1, <2>2
  <1>6. t[0].i = 1 /\ t[0].a = 1 /\ t[0].out = <<>>
    BY <1>4 DEF ScanStart
  <1>7. t[1].i = 2 /\ t[1].a = 1 /\ t[1].out = <<text>>
    <2>1. t[1] = [i |-> 2, a |-> 1, out |-> Append(<<>>, text)]
      <3>1. ~(t[0].i > Len(call.fmt)) /\ call.fmt[t[0].i] = text
        BY <1>1, <1>6
      <3>2. t[1] = [i |-> t[0].i + 1, a |-> t[0].a, out |-> Append(t[0].out, text)]
        BY <1>5, <3>1, ScanChar
      <3> QED
        BY <1>6, <3>2
    <2>2. Append(<<>>, text) = <<text>>
      OBVIOUS
    <2> QED
      BY <2>1, <2>2
  <1>8. t[2].i = 4 /\ t[2].a = 2 /\ t[2].out = <<text>> \o word
    <2>1. t[2] = [i |-> 4, a |-> 2, out |-> <<text>> \o word]
      <3>1. ~(t[1].i > Len(call.fmt)) /\ call.fmt[t[1].i] = "%"
            /\ call.fmt[t[1].i + 1] = d
        BY <1>1, <1>7
      <3>2. Scan(call, TRUE, t[1]) = Behind(call, t[1], d)
        BY <1>2, <3>1, ScanWord
      <3>3. t[2] = [i |-> t[1].i + 2, a |-> t[1].a + 1,
                    out |-> t[1].out \o ReferenceDirective(d, call.args[t[1].a])]
        BY <1>5, <3>2, Zenon DEF Behind
      <3> QED
        BY <1>1, <1>7, <3>3 DEF word
    <2> QED
      BY <2>1
  <1>9. t[3].i = 5 /\ t[3].a = 2 /\ t[3].out = end
    <2>1. Newline # "%"
      BY DEF Newline
    <2>2. t[3] = [i |-> 5, a |-> 2, out |-> end]
      <3>1. ~(t[2].i > Len(call.fmt)) /\ call.fmt[t[2].i] = Newline
        BY <1>1, <1>8
      <3>2. t[3] = [i |-> t[2].i + 1, a |-> t[2].a, out |-> Append(t[2].out, Newline)]
        BY <1>5, <2>1, <3>1, ScanChar
      <3> QED
        BY <1>8, <3>2 DEF end
    <2> QED
      BY <2>2
  <1>10. t[4] = t[3]
    <2>1. t[3].i > Len(call.fmt)
      BY <1>1, <1>9
    <2> QED
      BY <1>5, <2>1, ScanEnd
  <1>11. WellFormed(call)
    <2>1. SUFFICES ASSUME NEW n \in 0..4, t[n].i =< 4
                   PROVE  IF call.fmt[t[n].i] = "%"
                          THEN t[n].i < 4
                               /\ Fitting(call.fmt[t[n].i + 1],
                                     IF TakesArgument(call.fmt[t[n].i + 1])
                                     THEN call.args[t[n].a] ELSE 0)
                          ELSE call.fmt[t[n].i] \in Printed
      BY <1>1 DEF WellFormed, t
    <2>2. n = 0 \/ n = 1 \/ n = 2
      BY <1>9, <1>10, <2>1
    <2>3. CASE n = 0
      BY <1>1, <1>6, <2>3 DEF Printed
    <2>4. CASE n = 1
      <3>1. t[n].i = 2 /\ t[n].i + 1 = 3 /\ t[n].a = 1
        BY <1>7, <2>4
      <3> QED
        BY <1>1, <1>2, <3>1
    <2>5. CASE n = 2
      <3>1. Newline # "%" /\ Newline \in Printed
        BY DEF Newline, Printed
      <3> QED
        BY <1>1, <1>8, <2>5, <3>1
    <2> QED
      BY <2>2, <2>3, <2>4, <2>5
  <1>12. TextOf(call, TRUE) = end
    BY <1>1, <1>9, <1>10 DEF TextOf, t
  <1> QED
    BY <1>1, <1>3, <1>11, <1>12 DEF call, word, end

LEMMA SaidText ==
    ASSUME NEW text \in Chars, text # "%"
    PROVE  LET call == Said(<<text, Newline>>) IN
           /\ Len(call.fmt) = 2 /\ WellFormed(call)
           /\ TextOf(call, TRUE) = <<text, Newline>>
  <1> DEFINE call == Said(<<text, Newline>>)
             t == Scanned(call, TRUE)
  <1>1. Len(call.fmt) = 2 /\ call.fmt[1] = text /\ call.fmt[2] = Newline
    BY DEF Said
  <1>2. t[0] = ScanStart /\ \A n \in 1..2 : t[n] = Scan(call, TRUE, t[n - 1])
    <2> HIDE DEF call
    <2>1. Len(call.fmt) \in Nat
      BY <1>1
    <2>2. t[0] = ScanStart
          /\ \A n \in 1..Len(call.fmt) : t[n] = Scan(call, TRUE, t[n - 1])
      BY <2>1, ScannedUnfolds
    <2> QED
      BY <1>1, <2>2
  <1>3. Newline # "%" /\ Newline \in Printed
    BY DEF Newline, Printed
  <1> HIDE DEF call, t
  <1>4. t[1] = Scan(call, TRUE, t[0]) /\ t[2] = Scan(call, TRUE, t[1])
    <2>1. 1 - 1 = 0 /\ 2 - 1 = 1 /\ 1 \in 1..2 /\ 2 \in 1..2
      OBVIOUS
    <2> QED
      BY <1>2, <2>1
  <1>5. t[0].i = 1 /\ t[0].a = 1 /\ t[0].out = <<>>
    BY <1>2 DEF ScanStart
  <1>6. t[1].i = 2 /\ t[1].a = 1 /\ t[1].out = <<text>>
    <2>1. t[1] = [i |-> 2, a |-> 1, out |-> Append(<<>>, text)]
      <3>1. ~(t[0].i > Len(call.fmt)) /\ call.fmt[t[0].i] = text
        BY <1>1, <1>5
      <3>2. t[1] = [i |-> t[0].i + 1, a |-> t[0].a, out |-> Append(t[0].out, text)]
        BY <1>4, <3>1, ScanChar
      <3> QED
        BY <1>5, <3>2
    <2>2. Append(<<>>, text) = <<text>>
      OBVIOUS
    <2> QED
      BY <2>1, <2>2
  <1>7. t[2].i = 3 /\ t[2].out = <<text, Newline>>
    <2>1. t[2] = [i |-> 3, a |-> 1, out |-> Append(<<text>>, Newline)]
      <3>1. ~(t[1].i > Len(call.fmt)) /\ call.fmt[t[1].i] = Newline
        BY <1>1, <1>6
      <3>2. t[2] = [i |-> t[1].i + 1, a |-> t[1].a, out |-> Append(t[1].out, Newline)]
        BY <1>3, <1>4, <3>1, ScanChar
      <3> QED
        BY <1>6, <3>2
    <2>2. Append(<<text>>, Newline) = <<text, Newline>>
      <3> DEFINE a == Append(<<text>>, Newline)
                 b == <<text, Newline>>
      <3>1. /\ a \in Seq(Printed) /\ Len(a) = 2 /\ a[1] = text /\ a[2] = Newline
            /\ b \in Seq(Printed) /\ Len(b) = 2 /\ b[1] = text /\ b[2] = Newline
        BY <1>3 DEF Printed
      <3> HIDE DEF a, b
      <3>2. \A i \in 1..2 : i = 1 \/ i = 2
        OBVIOUS
      <3>3. a = b
        BY <3>1, <3>2, SeqEqual
      <3> QED
        BY <3>3 DEF a, b
    <2> QED
      BY <2>1, <2>2
  <1>8. WellFormed(call)
    <2>1. SUFFICES ASSUME NEW n \in 0..2, t[n].i =< 2
                   PROVE  call.fmt[t[n].i] # "%" /\ call.fmt[t[n].i] \in Printed
      BY <1>1 DEF WellFormed, t
    <2>2. n = 0 \/ n = 1
      BY <1>7, <2>1
    <2> QED
      BY <1>1, <1>3, <1>5, <1>6, <2>2 DEF Printed
  <1>9. TextOf(call, TRUE) = <<text, Newline>>
    BY <1>1, <1>7 DEF TextOf, t
  <1> QED
    BY <1>1, <1>8, <1>9 DEF call

(* What is written on the paper, the ends of its rows left out.            *)
LEMMA PaperGrows ==
    ASSUME NEW p \in Papers, NEW c \in Printed
    PROVE  /\ FlattenSeq(p) \in Seq(Chars)
           /\ c \in Chars => FlattenSeq(PaperPut(p, c)) = Append(FlattenSeq(p), c)
           /\ c = Newline => FlattenSeq(PaperPut(p, c)) = FlattenSeq(p)
  <1> DEFINE full == Append(p[Len(p)], c)
             q == [p EXCEPT ![Len(p)] = full]
  <1>1. p \in Seq(Seq(Chars)) /\ Len(p) # 0 /\ <<>> \in Seq(Chars)
    BY DEF Papers
  <1>2. ASSUME NEW r \in Seq(Seq(Chars))
        PROVE  FlattenSeq(r) \in Seq(Chars) /\ FlattenSeq(Append(r, <<>>)) = FlattenSeq(r)
    <2> DEFINE s == FlattenSeq(r)
    <2>1. s \in Seq(Chars) /\ FlattenSeq(Append(r, <<>>)) = s \o <<>>
      BY <1>1, FlattenAppend
    <2> HIDE DEF s
    <2>2. s \o <<>> = s
      BY <2>1
    <2> QED
      BY <2>1, <2>2 DEF s
  <1>3. CASE c = Newline
    <2>1. PaperPut(p, c) = Append(p, <<>>) /\ c \notin Chars
      BY <1>3, CharsAssumption DEF PaperPut
    <2> QED
      BY <1>1, <1>2, <2>1
  <1>4. CASE c # Newline
    <2>1. c \in Chars
      BY <1>4 DEF Printed
    <2>2. q \in Seq(Seq(Chars)) /\ FlattenSeq(q) = Append(FlattenSeq(p), c)
      BY <1>1, <2>1, FlattenGrow
    <2> HIDE DEF q, full
    <2>3. PaperPut(p, c) = Append(q, <<>>) \/ PaperPut(p, c) = q
      BY <1>4 DEF PaperPut, q, full
    <2>4. FlattenSeq(PaperPut(p, c)) = FlattenSeq(q)
      BY <1>2, <2>2, <2>3
    <2> QED
      BY <1>1, <1>2, <1>4, <2>2, <2>4
  <1> QED
    BY <1>3, <1>4

LEMMA RolledPapers ==
    ASSUME NEW p \in Papers, NEW s \in Seq(Printed)
    PROVE  \A n \in 0..Len(s) : Rolled(p, s)[n] \in Papers
  <1> DEFINE N == Len(s)
             r == Rolled(p, s)
             T == {n \in 0..N : r[n] \in Papers}
  <1>1. N \in Nat /\ \A n \in 1..N : s[n] \in Printed
    OBVIOUS
  <1>2. r[0] = p /\ \A n \in 1..N : r[n] = PaperPut(r[n - 1], s[n])
    BY RolledUnfolds DEF Printed
  <1> HIDE DEF r, N
  <1>3. 0 \in T /\ T \subseteq 0..N
    BY <1>1, <1>2
  <1>4. \A n \in 1..N : n - 1 \in T => n \in T
    BY <1>1, <1>2, PaperStays DEF Printed
  <1>5. T = 0..N
    <2> HIDE DEF T
    <2> QED
      BY <1>1, <1>3, <1>4, Along
  <1> QED
    BY <1>5 DEF r, N

(* Of the text s, w reaches the paper.                                     *)
Adds(s, w) ==
    \A p \in Papers :
        /\ Rolled(p, s)[Len(s)] \in Papers
        /\ FlattenSeq(Rolled(p, s)[Len(s)]) = FlattenSeq(p) \o w

LEMMA AddsWord ==
    ASSUME NEW s \in Seq(Chars)
    PROVE  Adds(s, s)
  <1> SUFFICES ASSUME NEW p \in Papers
               PROVE  /\ Rolled(p, s)[Len(s)] \in Papers
                      /\ FlattenSeq(Rolled(p, s)[Len(s)]) = FlattenSeq(p) \o s
    BY DEF Adds
  <1> DEFINE N == Len(s)
             r == Rolled(p, s)
             start == FlattenSeq(p)
             T == {n \in 0..N : FlattenSeq(r[n]) = start \o SubSeq(s, 1, n)}
  <1>1. /\ N \in Nat /\ \A n \in 1..N : s[n] \in Chars /\ s[n] \in Printed
        /\ s \in Seq(Printed)
    BY DEF Printed
  <1>2. r[0] = p /\ \A n \in 1..N : r[n] = PaperPut(r[n - 1], s[n])
    BY <1>1, RolledUnfolds DEF Printed
  <1>3. \A n \in 0..N : r[n] \in Papers
    BY <1>1, RolledPapers
  <1>4. start \in Seq(Chars)
    <2>1. Newline \in Printed
      BY DEF Printed
    <2> QED
      BY <2>1, PaperGrows
  <1> HIDE DEF r, start
  <1>5. 0 \in T /\ T \subseteq 0..N
    <2>1. SubSeq(s, 1, 0) = <<>> /\ start \o <<>> = start
      BY <1>4
    <2>2. FlattenSeq(r[0]) = start
      BY <1>2 DEF start
    <2>3. FlattenSeq(r[0]) = start \o SubSeq(s, 1, 0)
      BY <2>1, <2>2
    <2> QED
      BY <1>1, <2>3
  <1>6. ASSUME NEW n \in 1..N, n - 1 \in T
        PROVE  n \in T
    <2> DEFINE before == SubSeq(s, 1, n - 1)
    <2>1. SubSeq(s, 1, n) = Append(before, s[n]) /\ before \in Seq(Chars)
      <3>1. n \in 1..Len(s) /\ 1 \in 1..Len(s) /\ n \in 1..Len(s)
        BY <1>1
      <3>2. SubSeq(s, 1, n) = before \o <<s[n]>>
        BY <3>1, SubSeqRecursiveSecond
      <3>3. before \in Seq(Chars)
        BY <1>1, SubSeqProperties
      <3> HIDE DEF before
      <3>4. before \o <<s[n]>> = Append(before, s[n])
        BY <1>1, <3>3
      <3> QED
        BY <3>2, <3>3, <3>4
    <2>2. FlattenSeq(r[n - 1]) = start \o before
      BY <1>6
    <2> HIDE DEF before
    <2>3. FlattenSeq(r[n]) = Append(FlattenSeq(r[n - 1]), s[n])
      <3>1. n - 1 \in 0..N
        BY <1>1
      <3>2. r[n - 1] \in Papers
        BY <1>3, <3>1
      <3> QED
        BY <1>1, <1>2, <3>2, PaperGrows
    <2>4. Append(start \o before, s[n]) = start \o Append(before, s[n])
      <3>1. s[n] \in Chars /\ start \o before \in Seq(Chars) /\ <<s[n]>> \in Seq(Chars)
        BY <1>1, <1>4, <2>1
      <3>2. /\ Append(start \o before, s[n]) = (start \o before) \o <<s[n]>>
            /\ Append(before, s[n]) = before \o <<s[n]>>
        BY <2>1, <3>1, AppendIsConcat
      <3>3. (start \o before) \o <<s[n]>> = start \o (before \o <<s[n]>>)
        BY <1>4, <2>1, <3>1, ConcatAssociative, SMTT(30)
      <3> QED
        BY <3>2, <3>3
    <2>5. FlattenSeq(r[n]) = start \o SubSeq(s, 1, n)
      BY <2>1, <2>2, <2>3, <2>4
    <2> QED
      BY <1>1, <2>5
  <1>7. N \in T
    <2> HIDE DEF T
    <2>1. T = 0..N
      BY <1>1, <1>5, <1>6, Along
    <2> QED
      BY <1>1, <2>1
  <1>8. SubSeq(s, 1, N) = s
    BY SubSeqFull
  <1> QED
    BY <1>1, <1>3, <1>7, <1>8 DEF r, start

LEMMA AddsNewline == Adds(<<Newline>>, <<>>)
  <1> SUFFICES ASSUME NEW p \in Papers
               PROVE  /\ Rolled(p, <<Newline>>)[Len(<<Newline>>)] \in Papers
                      /\ FlattenSeq(Rolled(p, <<Newline>>)[Len(<<Newline>>)])
                           = FlattenSeq(p) \o <<>>
    BY DEF Adds
  <1> DEFINE s == <<Newline>>
             r == Rolled(p, s)
  <1>1. s \in Seq(Printed) /\ Len(s) = 1 /\ s[1] = Newline /\ Newline \in Printed
    BY DEF Printed
  <1> HIDE DEF s
  <1>2. r[0] = p /\ \A n \in 1..Len(s) : r[n] = PaperPut(r[n - 1], s[n])
    BY <1>1, RolledUnfolds DEF Printed
  <1>3. \A n \in 0..Len(s) : r[n] \in Papers
    BY <1>1, RolledPapers
  <1> HIDE DEF r
  <1>4. r[1] = PaperPut(p, Newline) /\ r[1] \in Papers
    <2>1. 1 \in 1..1 /\ 1 \in 0..1 /\ 1 - 1 = 0
      OBVIOUS
    <2> QED
      BY <1>1, <1>2, <1>3, <2>1
  <1>5. FlattenSeq(r[1]) = FlattenSeq(p) /\ FlattenSeq(p) \in Seq(Chars)
    BY <1>1, <1>4, PaperGrows
  <1>6. FlattenSeq(p) \o <<>> = FlattenSeq(p)
    BY <1>5, ConcatEmptySeq
  <1> QED
    BY <1>1, <1>4, <1>5, <1>6 DEF r, s

(* One text after the other is one text.                                   *)
LEMMA RolledConcat ==
    ASSUME NEW p \in Papers, NEW s \in Seq(Printed), NEW u \in Seq(Printed)
    PROVE  Rolled(p, s \o u)[Len(s \o u)] = Rolled(Rolled(p, s)[Len(s)], u)[Len(u)]
  <1> DEFINE M == Len(s)
             N == Len(u)
             all == s \o u
             r == Rolled(p, all)
             a == Rolled(p, s)
             b == Rolled(a[M], u)
             T == {n \in 0..M : r[n] = a[n]}
             U == {n \in 0..N : r[M + n] = b[n]}
  <1>1. /\ M \in Nat /\ N \in Nat /\ all \in Seq(Printed) /\ Len(all) = M + N
        /\ \A n \in 1..M : all[n] = s[n]
        /\ \A n \in 1..N : all[M + n] = u[n]
    OBVIOUS
  <1>2. a[0] = p /\ \A n \in 1..M : a[n] = PaperPut(a[n - 1], s[n])
    BY RolledUnfolds DEF Printed
  <1>3. a[M] \in Papers
    <2>1. M \in 0..M
      BY <1>1
    <2> HIDE DEF M
    <2> QED
      BY <2>1, RolledPapers DEF M
  <1> HIDE DEF a
  <1>4. b[0] = a[M] /\ \A n \in 1..N : b[n] = PaperPut(b[n - 1], u[n])
    BY <1>3, RolledUnfolds DEF Printed
  <1> HIDE DEF b, all
  <1>5. r[0] = p /\ \A n \in 1 .. M + N : r[n] = PaperPut(r[n - 1], all[n])
    BY <1>1, RolledUnfolds, SMTT(30) DEF Printed
  <1> HIDE DEF r, M, N
  <1>6. r[M] = a[M]
    <2>1. 0 \in T /\ T \subseteq 0..M
      BY <1>1, <1>2, <1>5
    <2>2. \A n \in 1..M : n - 1 \in T => n \in T
      <3>1. \A n \in 1..M : n \in 1 .. M + N
        BY <1>1
      <3> QED
        BY <1>1, <1>2, <1>5, <3>1
    <2>3. M \in T
      <3> HIDE DEF T
      <3>1. T = 0..M
        BY <1>1, <2>1, <2>2, Along
      <3> QED
        BY <1>1, <3>1
    <2> QED
      BY <2>3
  <1>7. r[M + N] = b[N]
    <2>1. 0 \in U /\ U \subseteq 0..N
      <3>1. M + 0 = M
        BY <1>1
      <3> QED
        BY <1>1, <1>4, <1>6, <3>1
    <2>2. ASSUME NEW n \in 1..N, n - 1 \in U
          PROVE  n \in U
      <3>1. M + n \in 1 .. M + N /\ (M + n) - 1 = M + (n - 1)
        BY <1>1
      <3>2. r[M + n] = PaperPut(r[(M + n) - 1], all[M + n])
        BY <1>5, <3>1
      <3>3. r[M + (n - 1)] = b[n - 1]
        BY <2>2
      <3>4. r[M + n] = b[n]
        BY <1>1, <1>4, <3>1, <3>2, <3>3
      <3> QED
        BY <3>4
    <2>3. N \in U
      <3> HIDE DEF U
      <3>1. U = 0..N
        BY <1>1, <2>1, <2>2, Along
      <3> QED
        BY <1>1, <3>1
    <2> QED
      BY <2>3
  <1> QED
    BY <1>1, <1>7 DEF r, b, a, all, M, N

LEMMA AddsConcat ==
    ASSUME NEW s \in Seq(Printed), NEW u \in Seq(Printed),
           NEW w \in Seq(Chars), NEW v \in Seq(Chars), Adds(s, w), Adds(u, v)
    PROVE  Adds(s \o u, w \o v)
  <1> SUFFICES ASSUME NEW p \in Papers
               PROVE  /\ Rolled(p, s \o u)[Len(s \o u)] \in Papers
                      /\ FlattenSeq(Rolled(p, s \o u)[Len(s \o u)])
                           = FlattenSeq(p) \o (w \o v)
    BY DEF Adds
  <1> DEFINE q == Rolled(p, s)[Len(s)]
             start == FlattenSeq(p)
  <1>1. q \in Papers /\ FlattenSeq(q) = start \o w
    BY DEF Adds
  <1>2. start \in Seq(Chars)
    <2>1. Newline \in Printed
      BY DEF Printed
    <2> QED
      BY <2>1, PaperGrows
  <1>3. Rolled(p, s \o u)[Len(s \o u)] = Rolled(q, u)[Len(u)]
    BY RolledConcat
  <1> HIDE DEF q, start
  <1>4. /\ Rolled(q, u)[Len(u)] \in Papers
        /\ FlattenSeq(Rolled(q, u)[Len(u)]) = FlattenSeq(q) \o v
    BY <1>1 DEF Adds
  <1>5. (start \o w) \o v = start \o (w \o v)
    BY <1>2
  <1> QED
    BY <1>1, <1>3, <1>4, <1>5 DEF start

LEMMA SuffixOfConcat ==
    ASSUME NEW S, NEW a \in Seq(S), NEW b \in Seq(S)
    PROVE  IsSuffix(b, a \o b)
  <1> DEFINE n == Len(b)
             m == Len(a)
             all == a \o b
             r == Reverse(b)
             t == Reverse(all)
  <1>1. /\ n \in Nat /\ m \in Nat /\ all \in Seq(S) /\ Len(all) = m + n
        /\ \A i \in 1..n : all[m + i] = b[i] /\ b[i] \in S
        /\ \A i \in 1 .. m + n : all[i] \in S
    OBVIOUS
  <1> HIDE DEF all, n, m
  <1>2. r = [i \in 1..n |-> b[(n - i) + 1]] /\ t = [i \in 1 .. m + n |-> all[((m + n) - i) + 1]]
    BY <1>1 DEF Reverse, n
  <1> HIDE DEF r, t
  <1>3. r \in Seq(S) /\ Len(r) = n
    <2>1. \A i \in 1..n : (n - i) + 1 \in 1..n
      BY <1>1
    <2>2. \A i \in 1..n : b[(n - i) + 1] \in S
      BY <1>1, <2>1
    <2> QED
      BY <1>1, <1>2, <2>2
  <1>4. t \in Seq(S) /\ Len(t) = m + n
    <2>1. \A i \in 1 .. m + n : ((m + n) - i) + 1 \in 1 .. m + n
      BY <1>1
    <2>2. \A i \in 1 .. m + n : all[((m + n) - i) + 1] \in S
      BY <1>1, <2>1
    <2>3. m + n \in Nat
      BY <1>1
    <2> QED
      BY <1>2, <2>2, <2>3
  <1>5. \A i \in 1..n : r[i] = t[i]
    <2> SUFFICES ASSUME NEW i \in 1..n PROVE r[i] = t[i]
      OBVIOUS
    <2>1. /\ i \in 1 .. m + n /\ (n - i) + 1 \in 1..n
          /\ ((m + n) - i) + 1 = m + ((n - i) + 1)
      BY <1>1
    <2> QED
      BY <1>1, <1>2, <2>1
  <1>6. SubSeq(r, 1, n) = SubSeq(t, 1, n)
    <2>1. n \in Int /\ \A i \in 1..n : r[i] \in S /\ t[i] \in S
      BY <1>1, <1>3, <1>5
    <2>2. /\ SubSeq(r, 1, n) \in Seq(S) /\ SubSeq(t, 1, n) \in Seq(S)
          /\ \A i \in 1..n : SubSeq(r, 1, n)[i] = r[i] /\ SubSeq(t, 1, n)[i] = t[i]
          /\ Len(SubSeq(r, 1, n)) = n /\ Len(SubSeq(t, 1, n)) = n
      BY <1>1, <1>3, <1>4, <2>1
    <2> DEFINE x == SubSeq(r, 1, n)
               y == SubSeq(t, 1, n)
    <2> HIDE DEF x, y
    <2>3. x = y
      BY <1>5, <2>2, SeqEqual DEF x, y
    <2> QED
      BY <2>3 DEF x, y
  <1>7. n =< m + n
    BY <1>1
  <1> QED
    BY <1>3, <1>4, <1>6, <1>7 DEF IsSuffix, IsPrefix, r, t, all

(* Three texts end to end.                                                 *)
Joins(x, y, z) == FlattenSeq(<<x, y, z>>) = (x \o y) \o z

LEMMA FlattenThree ==
    ASSUME NEW S, NEW x \in Seq(S), NEW y \in Seq(S), NEW z \in Seq(S)
    PROVE  FlattenSeq(<<x>>) = x /\ Joins(x, y, z)
  <1> DEFINE T == Seq(S)
  <1>1. x \in T /\ y \in T /\ z \in T
    OBVIOUS
  <1>2. FlattenSeq(<<>>) = <<>>
    <2>1. Len(<<>>) = 0
      OBVIOUS
    <2> QED
      BY <2>1, Zenon DEF FlattenSeq
  <1> HIDE DEF T
  <1>3. /\ <<>> \in Seq(T) /\ <<x>> \in Seq(T) /\ <<x, y>> \in Seq(T)
        /\ <<x>> = Append(<<>>, x) /\ <<x, y>> = Append(<<x>>, y)
        /\ <<x, y, z>> = Append(<<x, y>>, z)
    BY <1>1
  <1>4. FlattenSeq(Append(<<>>, x)) = <<>> \o x
    BY <1>1, <1>2, <1>3, FlattenAppend DEF T
  <1>5. <<>> \o x = x
    BY <1>1, ConcatEmptySeq DEF T
  <1>6. FlattenSeq(Append(<<x>>, y)) = FlattenSeq(<<x>>) \o y
    BY <1>1, <1>3, FlattenAppend DEF T
  <1>7. FlattenSeq(Append(<<x, y>>, z)) = FlattenSeq(<<x, y>>) \o z
    BY <1>1, <1>3, FlattenAppend DEF T
  <1> QED
    BY <1>3, <1>4, <1>5, <1>6, <1>7 DEF Joins

LEMMA TextOfOne ==
    ASSUME NEW a, TextOf(a, TRUE) \in Seq(Printed)
    PROVE  Text(<<a>>, TRUE) = TextOf(a, TRUE)
  <1> DEFINE x == TextOf(a, TRUE)
             q == [n \in 1..Len(<<a>>) |-> TextOf(<<a>>[n], TRUE)]
  <1>2. Text(<<a>>, TRUE) = FlattenSeq(q)
    BY DEF Text
  <1>1. q = <<x>>
    <2>1. Len(<<a>>) = 1 /\ <<a>>[1] = a
      OBVIOUS
    <2>2. q = [n \in 1..1 |-> x]
      <3>1. \A n \in 1..1 : n = 1
        OBVIOUS
      <3> QED
        BY <2>1, <3>1
    <2> HIDE DEF q, x
    <2>3. <<x>> = [n \in 1..1 |-> x]
      OBVIOUS
    <2> QED
      BY <2>2, <2>3
  <1> HIDE DEF q, x
  <1>3. FlattenSeq(<<x>>) = x
    BY FlattenThree DEF x
  <1> QED
    BY <1>1, <1>2, <1>3 DEF x

(* Three calls print the texts of the three.                               *)
Prints(a, b, c) ==
    Text(<<a, b, c>>, TRUE) = (TextOf(a, TRUE) \o TextOf(b, TRUE)) \o TextOf(c, TRUE)

LEMMA TextOfThree ==
    ASSUME NEW a, NEW b, NEW c, TextOf(a, TRUE) \in Seq(Printed),
           TextOf(b, TRUE) \in Seq(Printed), TextOf(c, TRUE) \in Seq(Printed)
    PROVE  Prints(a, b, c)
  <1> DEFINE x == TextOf(a, TRUE)
             y == TextOf(b, TRUE)
             z == TextOf(c, TRUE)
             q == [n \in 1..Len(<<a, b, c>>) |-> TextOf(<<a, b, c>>[n], TRUE)]
  <1>1. Text(<<a, b, c>>, TRUE) = FlattenSeq(q)
    BY DEF Text
  <1>2. x \in Seq(Printed) /\ y \in Seq(Printed) /\ z \in Seq(Printed)
    OBVIOUS
  <1>3. q = <<x, y, z>>
    <2> DEFINE made == <<a, b, c>>
               r == <<x, y, z>>
               S == Seq(Printed)
    <2>1. Len(made) = 3 /\ made[1] = a /\ made[2] = b /\ made[3] = c
      OBVIOUS
    <2>2. q = [n \in 1..3 |-> TextOf(made[n], TRUE)]
      BY <2>1
    <2> HIDE DEF made
    <2>3. q[1] = x /\ q[2] = y /\ q[3] = z
      <3>1. 1 \in 1..3 /\ 2 \in 1..3 /\ 3 \in 1..3
        OBVIOUS
      <3> HIDE DEF q
      <3> QED
        BY <2>1, <2>2, <3>1
    <2>4. DOMAIN q = 1..3
      BY <2>2
    <2>5. q = [n \in 1..3 |-> q[n]]
      BY <2>2
    <2> HIDE DEF q, x, y, z, S
    <2>6. r[1] = x /\ r[2] = y /\ r[3] = z /\ r = [n \in 1..3 |-> r[n]]
      OBVIOUS
    <2> HIDE DEF r
    <2>7. \A n \in 1..3 : q[n] = r[n]
      <3>1. \A n \in 1..3 : n = 1 \/ n = 2 \/ n = 3
        OBVIOUS
      <3> QED
        BY <2>3, <2>6, <3>1
    <2>8. q = r
      BY <2>5, <2>6, <2>7, Zenon
    <2> QED
      BY <2>8 DEF r
  <1> HIDE DEF q, x, y, z
  <1>4. Joins(x, y, z)
    <2>1. ASSUME NEW u \in Seq(Printed), NEW v \in Seq(Printed), NEW w \in Seq(Printed)
          PROVE  Joins(u, v, w)
      BY FlattenThree
    <2> QED
      BY <1>2, <2>1, Zenon
  <1>5. FlattenSeq(q) = (x \o y) \o z
    BY <1>3, <1>4 DEF Joins
  <1> QED
    BY <1>1, <1>5 DEF Prints, x, y, z

(* A word and a newline.                                                   *)
LEMMA AddsLine ==
    ASSUME NEW w \in Seq(Chars)
    PROVE  w \o <<Newline>> \in Seq(Printed) /\ Adds(w \o <<Newline>>, w)
  <1>1. w \in Seq(Printed) /\ <<Newline>> \in Seq(Printed) /\ <<>> \in Seq(Chars)
    <2>1. Chars \subseteq Printed /\ Newline \in Printed
      BY DEF Printed
    <2>2. w \in Seq(Printed)
      BY <2>1, SeqMonotonic
    <2> QED
      BY <2>1, <2>2
  <1>2. Adds(w \o <<Newline>>, w \o <<>>)
    BY <1>1, AddsWord, AddsNewline, AddsConcat
  <1>3. w \o <<>> = w /\ w \o <<Newline>> \in Seq(Printed)
    <2>1. w \o <<>> = w
      BY ConcatEmptySeq
    <2>2. w \o <<Newline>> \in Seq(Printed)
      BY <1>1, ConcatProperties
    <2> QED
      BY <2>1, <2>2
  <1> QED
    BY <1>2, <1>3

(* The line of a directive.                                                *)
LEMMA SaidOfAdds ==
    ASSUME NEW text \in Chars, text # "%", NEW d \in {"d", "x"},
           NEW arg \in Nat
    PROVE  LET call == SaidOf(text, d, arg)
               w == <<text>> \o ReferenceDirective(d, arg) IN
           /\ Len(call.fmt) \in Nat /\ WellFormed(call) /\ w \in Seq(Chars)
           /\ TextOf(call, TRUE) = w \o <<Newline>>
  <1> DEFINE call == SaidOf(text, d, arg)
             word == ReferenceDirective(d, arg)
             w == <<text>> \o word
             u == arg % INT_VALUES
  <1>1. arg \in Int /\ arg # IntMin
    BY IntMinNegative
  <1>2. /\ Len(call.fmt) = 4 /\ WellFormed(call)
        /\ TextOf(call, TRUE) = Append(w, Newline)
    BY <1>1, SaidOfText
  <1>3. word \in Seq(Chars)
    <2>1. CASE d = "d"
      <3>1. word = Positional(arg, 10)
        BY <2>1 DEF ReferenceDirective
      <3> QED
        BY <3>1, PositionalText
    <2>2. CASE d = "x"
      <3>1. u \in Nat
        BY IntAssumption
      <3>2. Positional(u, 16) \in Seq(Chars)
        BY <3>1, PositionalText
      <3>3. "0" \in Chars /\ "x" \in Chars
        BY CharsAssumption, DigitIsChar DEF DigitChars
      <3>4. <<"0">> \in Seq(Chars) /\ <<"0", "x">> \o Positional(u, 16) \in Seq(Chars)
        BY <3>2, <3>3
      <3>5. u # 0 => word = <<"0", "x">> \o Positional(u, 16)
        BY <2>2 DEF ReferenceDirective
      <3>6. u = 0 => word = <<"0">>
        <4>1. u = 0 => word = Directive(d, arg)
          BY <2>2 DEF ReferenceDirective
        <4>2. Directive(d, arg) = itoa_hex(u)
          BY <2>2 DEF Directive
        <4> QED
          BY <4>1, <4>2 DEF itoa_hex
      <3> QED
        BY <3>4, <3>5, <3>6
    <2> QED
      BY <2>1, <2>2
  <1> HIDE DEF word
  <1>4. w \in Seq(Chars)
    BY <1>3
  <1> HIDE DEF w
  <1>5. Append(w, Newline) = w \o <<Newline>>
    <2>1. Chars \subseteq Printed /\ Newline \in Printed
      BY DEF Printed
    <2>2. w \in Seq(Printed)
      BY <1>4, <2>1, SeqMonotonic
    <2> QED
      BY <2>1, <2>2, AppendIsConcat
  <1> HIDE DEF call
  <1>6. TextOf(call, TRUE) = w \o <<Newline>>
    BY <1>2, <1>5, Zenon
  <1>7. Len(call.fmt) \in Nat
    BY <1>2
  <1> QED
    BY <1>2, <1>4, <1>6, <1>7, Zenon DEF w, call, word

-----------------------------------------------------------------------------
(* What is printed in the course of a trap.                                *)

(* The word an exception reports.                                          *)
Fault(t) == IF t.vector \in ErrorVectors THEN t.err ELSE t.rip

(* What the registers and the stack hold are words, and in a handler of    *)
(* exceptions frame->rip is the word on top of what the processor pushed.  *)
WordsHeld ==
    /\ pc \in {"gdt_init", "idt_init", "kmain", "irq_handle", "done",
               "exception_handle", "halted", "shutdown"}
    /\ regs \in [Registers -> Int] /\ rip \in Addresses /\ rflags \in {0, 1}
    /\ tr \in Slots /\ stack \in Seq(Int) /\ Len(trap) =< 2
    /\ pc \in {"irq_handle", "done"} =>
          trap[1].regs \in [Registers -> Int] /\ trap[1].rip \in Addresses
    /\ pc = "exception_handle" =>
          Top.vector \in Vectors /\ FrameRip = Fault(Top) /\ Fault(Top) \in Nat

PrintInv == WordsHeld /\ Shows(con, paper)

LEMMA AddressesAreNat == Addresses \subseteq Nat
  <1>1. DWORD * DWORD \in Nat
    <2>1. DWORD \in Nat
      BY Widths
    <2> QED
      BY <2>1
  <1> QED
    BY <1>1 DEF Addresses

LEMMA TopOfFrame ==
    ASSUME NEW s \in Seq(Int), NEW p \in Seq(Int), Len(p) # 0,
           NEW x \in Int, NEW y \in Int
    PROVE  LET frame == s \o p
               all == frame \o <<x, y>>
           IN  /\ Len(frame) \in Nat /\ all \in Seq(Int)
               /\ all[Len(frame)] = p[Len(p)]
  <1> DEFINE frame == s \o p
             top == <<x, y>>
  <1>1. /\ frame \in Seq(Int) /\ Len(frame) = Len(s) + Len(p)
        /\ Len(s) \in Nat /\ Len(p) \in Nat
        /\ \A i \in 1..Len(p) : frame[Len(s) + i] = p[i]
    OBVIOUS
  <1>2. frame[Len(frame)] = p[Len(p)]
    <2>1. Len(p) \in 1..Len(p)
      BY <1>1
    <2> HIDE DEF frame
    <2> QED
      BY <1>1, <2>1
  <1>3. top \in Seq(Int) /\ Len(top) = 2
    OBVIOUS
  <1> HIDE DEF frame, top
  <1>4. Len(frame) \in 1 .. Len(frame)
    BY <1>1
  <1>5. frame \o top \in Seq(Int) /\ (frame \o top)[Len(frame)] = frame[Len(frame)]
    BY <1>1, <1>3, <1>4
  <1> QED
    BY <1>1, <1>2, <1>5 DEF frame, top

LEMMA PushedWords ==
    ASSUME TrapsInv, WordsHeld, NEW v, NEW err \in Nat
    PROVE  /\ Pushed(v, err) \in Seq(Int) /\ Len(Pushed(v, err)) # 0
           /\ Pushed(v, err)[Len(Pushed(v, err))]
                = IF v \in ErrorVectors THEN err ELSE rip
  <1> DEFINE five == <<ds, Len(stack), rflags, cs, rip>>
  <1>1. ds \in Int /\ cs \in Int /\ rflags \in Int /\ Len(stack) \in Int /\ rip \in Int
    BY AddressesAreNat DEF TrapsInv, WordsHeld, KERNEL_CS, KERNEL_DS
  <1>2. five \in Seq(Int) /\ Len(five) = 5 /\ five[5] = rip
    BY <1>1
  <1> HIDE DEF five
  <1>3. CASE v \in ErrorVectors
    <2>1. Pushed(v, err) = five \o <<err>>
      BY <1>3 DEF Pushed, five
    <2>2. Append(five, err) = five \o <<err>>
      BY <1>2, AppendIsConcat
    <2> DEFINE all == Append(five, err)
    <2>3. err \in Int
      OBVIOUS
    <2>4. all \in Seq(Int) /\ Len(all) = Len(five) + 1 /\ all[Len(five) + 1] = err
      BY <1>2, <2>3, AppendProperties, ZenonT(30)
    <2> HIDE DEF all
    <2>5. all \in Seq(Int) /\ Len(all) # 0 /\ all[Len(all)] = err
      BY <1>2, <2>4
    <2>6. Pushed(v, err) = all
      BY <2>1, <2>2 DEF all
    <2> QED
      BY <1>3, <2>5, <2>6, Zenon
  <1>4. CASE v \notin ErrorVectors
    <2>1. Pushed(v, err) = five \o <<>>
      BY <1>4 DEF Pushed, five
    <2>2. five \o <<>> = five
      BY <1>2, ConcatEmptySeq
    <2>3. Pushed(v, err) = five
      BY <2>1, <2>2, Zenon
    <2>4. Len(five) # 0 /\ five[Len(five)] = rip
      BY <1>2
    <2> QED
      BY <1>2, <1>4, <2>3, <2>4, Zenon
  <1> QED
    BY <1>3, <1>4

LEMMA InitPrints == Init => PrintInv
  <1> SUFFICES ASSUME Init PROVE PrintInv
    OBVIOUS
  <1>1. /\ pc = "gdt_init" /\ regs = [r \in Registers |-> OWN] /\ rip \in Rips
        /\ rflags = 0 /\ stack = <<>> /\ trap = <<>> /\ tr = 0
        /\ con = console_init /\ paper = << <<>> >>
    BY DEF Init, PrintInit
  <1>2. rip \in Addresses /\ regs \in [Registers -> Int]
    BY <1>1, WordsAssumption DEF OWN
  <1> QED
    BY <1>1, <1>2, FirstShows DEF PrintInv, WordsHeld, Slots

(* Steps that print nothing, the stub's and those of the bring-up.         *)
LEMMA StubWords ==
    ASSUME TrapsInv, WordsHeld, NEW v \in Vectors, stub(v)
    PROVE  WordsHeld'
  <1>1. PICK err \in IF v \in ErrorVectors THEN ErrorCodes ELSE {0} : Taken(v, err)
    BY StubTaken
  <1>2. err \in Nat /\ v \in Nat /\ PIC_IDT_BASE \in Nat
    BY WordsAssumption, VectorsAssumption
  <1>3. pc \in {"kmain", "irq_handle"} /\ UNCHANGED tr
    BY DEF stub, tables
  <1> DEFINE p == Pushed(v, err)
             frame == stack \o p
             t == [vector |-> v, err |-> err, rip |-> rip, rflags |-> rflags,
                   regs |-> regs, stack |-> stack]
             id == IF IsException(v) THEN v ELSE v - PIC_IDT_BASE
  <1>4. /\ pc' = IF IsException(v) THEN "exception_handle" ELSE "irq_handle"
        /\ stack' = frame \o <<regs["rdi"], regs["rax"]>>
        /\ regs' = [regs EXCEPT !["rsi"] = Len(frame), !["rdi"] = id]
        /\ rip' = StubAt[v] /\ rflags' = 0
        /\ Top' = t /\ Len(trap') =< 2 /\ (trap = <<>> => trap' = <<t>>)
    BY <1>1 DEF Taken
  <1>5. /\ p \in Seq(Int) /\ Len(p) # 0
        /\ p[Len(p)] = IF v \in ErrorVectors THEN err ELSE rip
    BY <1>2, PushedWords
  <1>6. /\ stack \in Seq(Int) /\ regs \in [Registers -> Int] /\ rip \in Addresses
        /\ regs["rdi"] \in Int /\ regs["rax"] \in Int
    BY DEF WordsHeld, Registers, CallerSaved, CalleeSaved
  <1> HIDE DEF p
  <1>7. /\ Len(frame) \in Nat /\ stack' \in Seq(Int)
        /\ stack'[Len(frame)] = p[Len(p)]
    BY <1>4, <1>5, <1>6, TopOfFrame
  <1>8. id \in Int
    BY <1>2
  <1> HIDE DEF frame, id
  <1>9. regs' \in [Registers -> Int] /\ regs'["rsi"] = Len(frame)
    <2>1. Registers = {"rax", "rcx", "rdx", "rsi", "rdi", "r8", "rbx", "rbp"}
      BY DEF Registers, CallerSaved, CalleeSaved
    <2> DEFINE one == [regs EXCEPT !["rsi"] = Len(frame)]
    <2>2. one \in [Registers -> Int] /\ one["rsi"] = Len(frame)
      BY <1>6, <1>7, <2>1, SMTT(30)
    <2>3. regs' = [one EXCEPT !["rdi"] = id]
      BY <1>4
    <2> HIDE DEF one
    <2> QED
      BY <1>8, <2>1, <2>2, <2>3
  <1>10. rip' \in Addresses
    BY <1>4, StubsAssumption
  <1>11. /\ t.vector = v /\ t.err = err /\ t.rip = rip /\ t.regs = regs
         /\ Fault(t) = p[Len(p)] /\ Fault(t) \in Nat
    BY <1>2, <1>5, <1>6, AddressesAreNat DEF Fault
  <1> HIDE DEF t
  <1>12. CASE IsException(v)
    <2>1. FrameRip' = Fault(Top')
      BY <1>4, <1>7, <1>9, <1>11 DEF FrameRip
    <2>2. pc' = "exception_handle" /\ Top'.vector \in Vectors /\ Fault(Top') \in Nat
      BY <1>4, <1>11, <1>12
    <2>3. Fault(Top)' = Fault(Top')
      BY DEF Fault
    <2> QED
      BY <1>3, <1>4, <1>7, <1>9, <1>10, <2>1, <2>2, <2>3 DEF WordsHeld
  <1>13. CASE ~IsException(v)
    <2>1. pc' = "irq_handle" /\ rflags = 1 /\ pc = "kmain" /\ trap = <<>>
      BY <1>3, <1>4, <1>13 DEF TrapsInv, stub
    <2>2. trap'[1].regs = regs /\ trap'[1].rip = rip
      BY <1>4, <1>11, <2>1
    <2> QED
      BY <1>3, <1>4, <1>6, <1>7, <1>9, <1>10, <2>1, <2>2 DEF WordsHeld
  <1> QED
    BY <1>12, <1>13

LEMMA HandleWords ==
    ASSUME WordsHeld, irq_handle
    PROVE  WordsHeld'
  <1>1. regs' \in [Registers -> Int]
    <2>1. PICK lost \in {{}, CallerSaved} :
              regs' = [r \in Registers |-> IF r \in lost THEN LOST ELSE regs[r]]
      BY DEF irq_handle
    <2> QED
      BY <2>1 DEF WordsHeld, LOST
  <1> QED
    BY <1>1 DEF WordsHeld, irq_handle, tables

LEMMA ReturnWords ==
    ASSUME TrapsInv, WordsHeld, iretq
    PROVE  WordsHeld'
  <1>1. /\ pc = "done" /\ InIrq /\ Top = trap[1]
        /\ trap[1].regs \in [Registers -> Int] /\ trap[1].rip \in Addresses
    BY DEF iretq, TrapsInv, InIrq, WordsHeld, Top
  <1>2. /\ pc' = "kmain" /\ UNCHANGED tr /\ Len(stack) = 7 /\ trap' = <<>>
        /\ stack[7] \in Int /\ stack[6] \in Int
    <2>1. Len(stack) = 7 /\ Len(trap) = 1 /\ trap = <<trap[1]>>
      BY <1>1 DEF InIrq
    <2>2. pc' = "kmain" /\ UNCHANGED tr /\ trap' = SubSeq(trap, 1, 0)
      BY <2>1 DEF iretq
    <2>3. trap' = <<>>
      BY <2>1, <2>2
    <2>4. stack \in Seq(Int) /\ 7 \in 1 .. Len(stack) /\ 6 \in 1 .. Len(stack)
      BY <2>1 DEF WordsHeld
    <2>5. stack[7] \in Int /\ stack[6] \in Int
      BY <2>4
    <2> QED
      BY <2>1, <2>2, <2>3, <2>5
  <1>3. regs' \in [Registers -> Int]
    <2>1. Registers = {"rax", "rcx", "rdx", "rsi", "rdi", "r8", "rbx", "rbp"}
      BY DEF Registers, CallerSaved, CalleeSaved
    <2> DEFINE one == [regs EXCEPT !["rax"] = stack[7]]
    <2>2. one \in [Registers -> Int]
      BY <1>2, <2>1 DEF WordsHeld
    <2>3. regs' = [one EXCEPT !["rdi"] = stack[6]]
      BY <1>2 DEF iretq
    <2> HIDE DEF one
    <2> QED
      BY <1>2, <2>1, <2>2, <2>3
  <1>4. rip' \in Addresses /\ rflags' \in {0, 1} /\ stack' = <<>>
    BY <1>1, ReturnStep DEF InIrq
  <1> QED
    BY <1>2, <1>3, <1>4 DEF WordsHeld

(* A call that prints the word w and ends the row.                         *)
Line(call, w) ==
    /\ Len(call.fmt) \in Nat /\ WellFormed(call)
    /\ w \in Seq(Chars) /\ TextOf(call, TRUE) \in Seq(Printed)
    /\ Adds(TextOf(call, TRUE), w)

LEMMA DirectiveLine ==
    ASSUME NEW text \in Chars, text # "%", NEW d \in {"d", "x"}, NEW arg \in Nat
    PROVE  Line(SaidOf(text, d, arg), <<text>> \o ReferenceDirective(d, arg))
  <1> DEFINE call == SaidOf(text, d, arg)
             w == <<text>> \o ReferenceDirective(d, arg)
  <1>1. /\ Len(call.fmt) \in Nat /\ WellFormed(call) /\ w \in Seq(Chars)
        /\ TextOf(call, TRUE) = w \o <<Newline>>
    BY SaidOfAdds
  <1> HIDE DEF call, w
  <1>2. w \o <<Newline>> \in Seq(Printed) /\ Adds(w \o <<Newline>>, w)
    BY <1>1, AddsLine
  <1>3. Line(call, w)
    BY <1>1, <1>2, Zenon DEF Line
  <1> QED
    BY <1>3 DEF call, w

LEMMA PlainLine ==
    ASSUME NEW text \in Chars, text # "%"
    PROVE  Line(Said(<<text, Newline>>), <<text>>)
  <1> DEFINE call == Said(<<text, Newline>>)
             w == <<text>>
  <1>1. /\ Len(call.fmt) = 2 /\ WellFormed(call)
        /\ TextOf(call, TRUE) = <<text, Newline>>
    BY SaidText
  <1>2. w \in Seq(Chars) /\ <<text, Newline>> = w \o <<Newline>>
    OBVIOUS
  <1> HIDE DEF call, w
  <1>3. w \o <<Newline>> \in Seq(Printed) /\ Adds(w \o <<Newline>>, w)
    BY <1>2, AddsLine
  <1>4. TextOf(call, TRUE) = w \o <<Newline>>
    BY <1>1, <1>2, Zenon
  <1>5. Len(call.fmt) \in Nat
    BY <1>1
  <1>6. Line(call, w)
    BY <1>1, <1>2, <1>3, <1>4, <1>5, Zenon DEF Line
  <1> QED
    BY <1>6 DEF call, w

(* A step that prints, after which the paper ends with w.                  *)
Tells(w) == Shows(con', paper') /\ IsSuffix(w, FlattenSeq(paper'))

LEMMA AddsTells ==
    ASSUME Shows(con, paper), NEW made, kprint(made), Len(made) \in Nat,
           \A n \in 1..Len(made) : Len(made[n].fmt) \in Nat /\ WellFormed(made[n]),
           NEW w \in Seq(Chars), Adds(Text(made, TRUE), w)
    PROVE  Tells(w)
  <1> DEFINE s == Text(made, TRUE)
  <1>1. paper' = Rolled(paper, s)[Len(s)] /\ Shows(con', paper')
    BY KprintShows DEF kprint
  <1>2. paper \in Papers
    BY DEF Shows, ShowsGrid, Papers
  <1> HIDE DEF s
  <1>3. FlattenSeq(paper') = FlattenSeq(paper) \o w
    BY <1>1, <1>2 DEF Adds, s
  <1>4. FlattenSeq(paper) \in Seq(Chars)
    <2>1. Newline \in Printed
      BY DEF Printed
    <2> QED
      BY <1>2, <2>1, PaperGrows
  <1>5. IsSuffix(w, FlattenSeq(paper) \o w)
    BY <1>4, SuffixOfConcat
  <1> QED
    BY <1>1, <1>3, <1>5, Zenon DEF Tells

LEMMA OneLine ==
    ASSUME Shows(con, paper), NEW a, NEW w, Line(a, w), kprint(<<a>>)
    PROVE  Tells(w)
  <1> DEFINE made == <<a>>
  <1>1. Len(made) = 1 /\ made[1] = a
    OBVIOUS
  <1>2. /\ Len(a.fmt) \in Nat /\ WellFormed(a) /\ w \in Seq(Chars)
        /\ TextOf(a, TRUE) \in Seq(Printed) /\ Adds(TextOf(a, TRUE), w)
    BY DEF Line
  <1>3. Text(made, TRUE) = TextOf(a, TRUE)
    BY <1>2, TextOfOne
  <1> HIDE DEF made
  <1>4. \A n \in 1..Len(made) : Len(made[n].fmt) \in Nat /\ WellFormed(made[n])
    <2>1. \A n \in 1..Len(made) : made[n] = a
      BY <1>1
    <2> QED
      BY <1>2, <2>1
  <1>5. Adds(Text(made, TRUE), w)
    BY <1>2, <1>3, Zenon
  <1>6. Len(made) \in Nat
    BY <1>1
  <1>7. kprint(made)
    BY DEF made
  <1> QED
    BY <1>2, <1>4, <1>5, <1>7, <1>6, AddsTells

LEMMA ThreeLines ==
    ASSUME Shows(con, paper), NEW a, NEW b, NEW c, NEW w, NEW v, NEW u,
           Line(a, w), Line(b, v), Line(c, u), kprint(<<a, b, c>>)
    PROVE  Tells(w \o (v \o u))
  <1> DEFINE made == <<a, b, c>>
             x == TextOf(a, TRUE)
             y == TextOf(b, TRUE)
             z == TextOf(c, TRUE)
  <1>1. Len(made) = 3 /\ made[1] = a /\ made[2] = b /\ made[3] = c
    OBVIOUS
  <1>2. /\ x \in Seq(Printed) /\ y \in Seq(Printed) /\ z \in Seq(Printed)
        /\ w \in Seq(Chars) /\ v \in Seq(Chars) /\ u \in Seq(Chars)
        /\ Adds(x, w) /\ Adds(y, v) /\ Adds(z, u)
    BY DEF Line
  <1>3. Text(made, TRUE) = (x \o y) \o z
    <2>1. Prints(a, b, c)
      BY <1>2, TextOfThree
    <2> QED
      BY <2>1 DEF Prints
  <1> HIDE DEF made, x, y, z
  <1>4. x \o y \in Seq(Printed) /\ w \o v \in Seq(Chars) /\ Adds(x \o y, w \o v)
    BY <1>2, AddsConcat
  <1>5. Adds((x \o y) \o z, (w \o v) \o u)
    BY <1>2, <1>4, AddsConcat
  <1>6. (w \o v) \o u = w \o (v \o u) /\ (w \o v) \o u \in Seq(Chars)
    BY <1>2, ConcatAssociative, SMTT(30)
  <1>7. \A n \in 1..Len(made) : Len(made[n].fmt) \in Nat /\ WellFormed(made[n])
    <2>1. \A n \in 1..Len(made) : made[n] = a \/ made[n] = b \/ made[n] = c
      BY <1>1
    <2>2. \A e \in {a, b, c} : Len(e.fmt) \in Nat /\ WellFormed(e)
      BY DEF Line
    <2> QED
      BY <2>1, <2>2
  <1>8. Adds(Text(made, TRUE), (w \o v) \o u)
    BY <1>3, <1>5, Zenon
  <1>9. Len(made) \in Nat
    BY <1>1
  <1>10. kprint(made)
    BY DEF made
  <1>11. Tells((w \o v) \o u)
    BY <1>6, <1>7, <1>8, <1>10, <1>9, AddsTells
  <1> QED
    BY <1>6, <1>11, Zenon

(* The report of an exception.                                             *)
Report(t) ==
    LET name == <<"vector">> \o Positional(t.vector, 10)
        rest == <<"RIP">> \o ReferenceDirective("x", Fault(t)) \o <<"halted">>
    IN  IF t.vector \in {0, 13} THEN name \o rest ELSE name

LEMMA ReportTold ==
    ASSUME TrapsInv, PrintInv, exception_handle
    PROVE  Tells(Report(Top))
  <1> DEFINE vec == Top.vector
             fault == Fault(Top)
             first == SaidOf("vector", "d", vec)
             second == SaidOf("RIP", "x", fault)
             third == Said(<<"halted", Newline>>)
             name == <<"vector">> \o ReferenceDirective("d", vec)
             address == <<"RIP">> \o ReferenceDirective("x", fault)
             end == <<"halted">>
  <1>1. /\ regs["rdi"] = vec /\ vec \in Vectors
        /\ FrameRip = fault /\ fault \in Nat /\ Shows(con, paper)
    BY DEF exception_handle, TrapsInv, PrintInv, WordsHeld
  <1>2. vec \in Nat
    BY <1>1, VectorsAssumption
  <1>3. /\ "vector" \in Chars /\ "RIP" \in Chars /\ "halted" \in Chars
        /\ "vector" # "%" /\ "RIP" # "%" /\ "halted" # "%"
    BY ReportAssumption
  <1>4. IF vec \in {0, 13} THEN kprint(<<first, second, third>>) ELSE kprint(<<first>>)
    BY <1>1 DEF exception_handle
  <1> HIDE DEF vec, fault
  <1>5. Line(first, name) /\ Line(second, address) /\ Line(third, end)
    BY <1>1, <1>2, <1>3, DirectiveLine, PlainLine
  <1>6. ReferenceDirective("d", vec) = Positional(vec, 10)
    BY <1>2 DEF ReferenceDirective
  <1>7. Report(Top) = IF vec \in {0, 13} THEN name \o (address \o end) ELSE name
    BY <1>6, Zenon DEF Report, vec, fault
  <1> HIDE DEF first, second, third, name, address, end
  <1>8. CASE vec \in {0, 13}
    <2>1. Tells(name \o (address \o end))
      BY <1>1, <1>4, <1>5, <1>8, ThreeLines
    <2> QED
      BY <1>7, <1>8, <2>1, Zenon
  <1>9. CASE vec \notin {0, 13}
    <2>1. Tells(name)
      BY <1>1, <1>4, <1>5, <1>9, OneLine
    <2> QED
      BY <1>7, <1>9, <2>1, Zenon
  <1> QED
    BY <1>8, <1>9

LEMMA KernelPrintsShow ==
    ASSUME Shows(con, paper), KernelPrints
    PROVE  Shows(con', paper')
  <1>1. PICK call \in Calls : kprint(<<call>>)
    BY DEF KernelPrints
  <1>2. Len(call.fmt) \in Nat /\ WellFormed(call)
    BY FormatsAssumption
  <1> DEFINE made == <<call>>
  <1>3. Len(made) = 1 /\ made[1] = call
    OBVIOUS
  <1> HIDE DEF made
  <1>4. \A n \in 1..Len(made) : Len(made[n].fmt) \in Nat /\ WellFormed(made[n])
    <2>1. \A n \in 1..Len(made) : made[n] = call
      BY <1>3
    <2> QED
      BY <1>2, <2>1
  <1>5. kprint(made) /\ Len(made) \in Nat
    BY <1>1, <1>3 DEF made
  <1> QED
    BY <1>4, <1>5, KprintShows

LEMMA PrintStep == TrapsInv /\ PrintInv /\ [Next]_vars => PrintInv'
  <1> SUFFICES ASSUME TrapsInv, PrintInv, [Next]_vars PROVE PrintInv'
    OBVIOUS
  <1>1. ASSUME UNCHANGED printVars PROVE Shows(con', paper')
    BY <1>1 DEF printVars, PrintInv
  <1>2. CASE gdt_init
    <2>1. /\ pc' = "idt_init" /\ tr' = TSS_SLOT
          /\ UNCHANGED <<regs, rip, rflags, stack, trap, printVars>>
      BY <1>2 DEF gdt_init, gdt_load
    <2> QED
      BY <1>1, <2>1 DEF PrintInv, WordsHeld, Slots, TSS_SLOT
  <1>3. CASE idt_init
    <2>1. /\ pc' = "kmain" /\ rflags' = 1
          /\ UNCHANGED <<tr, regs, rip, stack, trap, printVars>>
      BY <1>3 DEF idt_init
    <2> QED
      BY <1>1, <2>1 DEF PrintInv, WordsHeld
  <1>4. CASE KmainRuns
    <2>1. /\ pc = "kmain" /\ UNCHANGED <<pc, tr, regs, rflags, stack, trap>>
          /\ \/ KernelPrints /\ UNCHANGED rip
             \/ rip' \in Rips /\ UNCHANGED printVars
      BY <1>4 DEF KmainRuns, tables
    <2>2. Shows(con', paper')
      BY <1>1, <2>1, KernelPrintsShow DEF PrintInv
    <2>3. rip' \in Addresses
      BY <2>1, WordsAssumption DEF PrintInv, WordsHeld
    <2> QED
      BY <2>1, <2>2, <2>3 DEF PrintInv, WordsHeld
  <1>5. ASSUME NEW v \in Vectors, stub(v) PROVE PrintInv'
    <2>1. UNCHANGED printVars
      BY <1>5 DEF stub
    <2> QED
      BY <1>1, <1>5, <2>1, StubWords DEF PrintInv
  <1>6. CASE irq_handle
    <2>1. UNCHANGED printVars
      BY <1>6 DEF irq_handle
    <2> QED
      BY <1>1, <1>6, <2>1, HandleWords DEF PrintInv
  <1>7. CASE iretq
    <2>1. UNCHANGED printVars
      BY <1>7 DEF iretq
    <2> QED
      BY <1>1, <1>7, <2>1, ReturnWords DEF PrintInv
  <1>8. CASE exception_handle
    <2>1. Shows(con', paper')
      BY <1>8, ReportTold DEF Tells
    <2>2. /\ pc' = "halted" /\ UNCHANGED <<tr, regs, rip, rflags, stack, trap>>
      BY <1>8 DEF exception_handle, Halts, tables
    <2> QED
      BY <2>1, <2>2 DEF PrintInv, WordsHeld
  <1>9. CASE UNCHANGED vars
    <2>1. UNCHANGED <<tr, pc, regs, rip, rflags, stack, trap>> /\ UNCHANGED printVars
      BY <1>9 DEF vars, tables, cpu
    <2> QED
      BY <1>1, <2>1 DEF PrintInv, WordsHeld, Top, FrameRip, Fault
  <1> QED
    BY <1>2, <1>3, <1>4, <1>5, <1>6, <1>7, <1>8, <1>9 DEF Next

(* Whatever the kernel prints and whatever interrupts it, the registers    *)
(* and the stack hold words, and the screen the end of what was printed.   *)
THEOREM PrintInvariance == Spec => []PrintInv
  <1> QED
    BY InitPrints, InitTraps, PrintStep, TrapsInvariance, PTL DEF Spec

(* The variables of traps keep their types, whatever the handlers leave    *)
(* in the registers.                                                       *)
THEOREM TrapsTypes == Spec => []TypeOK
  <1>1. TrapsInv /\ PrintInv => TypeOK
    <2> SUFFICES ASSUME TrapsInv, PrintInv PROVE TypeOK
      OBVIOUS
    <2>1. /\ con.row \in Rows /\ con.col \in Cols
          /\ con.cells \in [Rows -> [Cols -> Chars \cup {Blank}]]
      BY DEF PrintInv, Shows, ShowsGrid, Glyphs
    <2>2. cs \in Slots /\ ds \in Slots
      BY DEF TrapsInv, KERNEL_CS, KERNEL_DS, Slots
    <2> QED
      BY <2>1, <2>2 DEF PrintInv, WordsHeld, TypeOK
  <1> QED
    BY <1>1, TrapsInvariance, PrintInvariance, PTL

(* The screen shows the last rows of everything kprint was given, for      *)
(* screens, ints and formats of any size (kprint, console_write).          *)
THEOREM ScreenShows == Spec => []ScreenShowsOutput
  <1>1. PrintInv => ScreenShowsOutput
    BY ShowsOutput DEF PrintInv
  <1> QED
    BY <1>1, PrintInvariance, PTL

(* A halted machine has reported the vector that halted it and, for those  *)
(* that print it, the word frame->rip found (exception.c).                 *)
THEOREM ReportNames == Spec => []ReportNamesFault
  <1> DEFINE Told == pc = "halted" => IsSuffix(Report(Top), FlattenSeq(paper))
  <1>1. Init => Told
    BY DEF Init
  <1>2. TrapsInv /\ PrintInv /\ Told /\ [Next]_vars => Told'
    <2> SUFFICES ASSUME TrapsInv, PrintInv, Told, [Next]_vars, pc' = "halted"
                 PROVE  IsSuffix(Report(Top'), FlattenSeq(paper'))
      BY DEF Report, Fault
    <2>1. CASE exception_handle
      <3>1. Top' = Top
        BY <2>1 DEF exception_handle, Top
      <3> QED
        BY <2>1, <3>1, ReportTold, Zenon DEF Tells
    <2>2. CASE UNCHANGED vars
      <3>1. Top' = Top /\ pc' = pc /\ paper' = paper
        BY <2>2 DEF vars, cpu, printVars, Top
      <3> QED
        BY <3>1
    <2>3. CASE Next /\ ~exception_handle
      <3> QED
        BY <2>3 DEF Next, gdt_init, idt_init, KmainRuns, stub, irq_handle, iretq
    <2> QED
      BY <2>1, <2>2, <2>3
  <1>3. Told => ReportNamesFault
    BY Zenon DEF ReportNamesFault, Report, Fault
  <1> HIDE DEF Told
  <1> QED
    BY <1>1, <1>2, <1>3, TrapsInvariance, PrintInvariance, PTL DEF Spec
=============================================================================
