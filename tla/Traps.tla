------------------------------- MODULE Traps -------------------------------
(***************************************************************************)
(* Interrupts and exceptions from the processor's side: gdt_init and       *)
(* idt_init, a vector delivered through the two tables to its stub         *)
(* (idt.asm), the handler in C, and the end: iretq, or a report printed by *)
(* exception.c before the machine halts.                                   *)
(*                                                                         *)
(* What a stub has to keep apart is the stack: stack is that memory, its   *)
(* top last, and rsp its length.  A register holds OWN while it has the    *)
(* interrupted code's value.  What the IRQ handlers do is in Interrupts;   *)
(* here they take their time, lose caller-saved registers as C may, and    *)
(* can run into an exception themselves.                                   *)
(***************************************************************************)
EXTENDS Kprint, Descriptors

CONSTANTS
    Vectors,        \* the vectors in play
    ErrorVectors,   \* those for which the processor pushes an error code
    PIC_IDT_BASE,   \* the first vector of an IRQ, 0x20
    StubAt,         \* idt_stub_table: the address of each vector's stub
    TssAt, TssSize, \* &tss and sizeof(tss)
    Rips,           \* where kmain can be
    ErrorCodes

ASSUME StubsAssumption ==
    /\ StubAt \in [Vectors -> Addresses]
    /\ \A v, w \in Vectors : StubAt[v] = StubAt[w] => v = w
ASSUME VectorsAssumption ==
    /\ Vectors \subseteq Nat /\ PIC_IDT_BASE \in Nat
    /\ \A v \in ErrorVectors : v \in Vectors /\ v < PIC_IDT_BASE
ASSUME WordsAssumption == Rips \subseteq Addresses /\ ErrorCodes \subseteq Nat
ASSUME ReportAssumption == {"vector", "RIP", "halted"} \subseteq Chars
ASSUME TssAssumption == TssAt \in Addresses /\ TssSize \in 1..MaxLimit + 1

VARIABLES
    gdt, idt, tss,      \* the tables; Empty where nothing was written
    cs, ds, tr,         \* the slots the segment registers hold
    pc,                 \* where the processor is
    regs, rip, rflags,  \* the registers; rflags is the interrupt flag
    stack,
    trap                \* what each active vector interrupted (history)

tables == <<gdt, idt, tss, cs, ds, tr>>
cpu    == <<pc, regs, rip, rflags, stack, trap>>
vars   == <<tables, cpu, printVars>>

CallerSaved == {"rax", "rcx", "rdx", "rsi", "rdi", "r8"}
CalleeSaved == {"rbx", "rbp"}
Registers   == CallerSaved \cup CalleeSaved
OWN   == -1     (* no value the stub or a handler writes                   *)
LOST  == -2     (* whatever a handler leaves behind                        *)

Empty == [limit_low |-> 0, base_low |-> 0, base_mid |-> 0, access |-> {},
          flags |-> {}, limit_high |-> 0, base_high |-> 0]
Slots == 0..6
NoGate == [set_idt_entry(0) EXCEPT !.type_attr = {}]

Init ==
    /\ PrintInit
    /\ gdt = [slot \in Slots |-> Empty] /\ idt = [v \in Vectors |-> NoGate]
    /\ tss = [rsp0 |-> "none", ist1 |-> "none"]
    /\ cs = KERNEL_CS /\ ds = KERNEL_DS /\ tr = 0     (* as stage 1 left them *)
    /\ pc = "gdt_init" /\ regs = [r \in Registers |-> OWN]
    /\ rip \in Rips /\ rflags = 0
    /\ stack = <<>> /\ trap = <<>>

-----------------------------------------------------------------------------
(* Bring-up (kmain.c:18-22).                                               *)

(* The segment registers and the far return, then ltr.                     *)
gdt_load == cs' = KERNEL_CS /\ ds' = KERNEL_DS /\ tr' = TSS_SLOT

gdt_init ==
    /\ pc = "gdt_init" /\ pc' = "idt_init"
    /\ LET sys == gdt_generate_sys_desc(TssAt, TssSize - 1)
           seg(access, flags) == gdt_generate_seg_desc(0, MaxLimit, access, flags)
           coded == [gdt EXCEPT ![0] = gdt_generate_seg_desc(0, 0, {}, {}),
                                ![1] = seg(KERNEL_CODE, FLAGS_CODE64),
                                ![2] = seg(KERNEL_DATA, FLAGS_DATA),
                                ![3] = seg(USER_CODE, FLAGS_CODE64)]
       IN  gdt' = [coded EXCEPT ![3] = seg(USER_DATA, FLAGS_DATA),
                                ![5] = sys[1], ![6] = sys[2]]
    /\ tss' = [rsp0 |-> "kernel_stack", ist1 |-> "emergency_stack"]
    /\ gdt_load
    /\ UNCHANGED <<idt, regs, rip, rflags, stack, trap, printVars>>

(* idt_init, and sti once the controllers are set up.                      *)
idt_init ==
    /\ pc = "idt_init" /\ pc' = "kmain"
    /\ idt' = [v \in Vectors |-> set_idt_entry(StubAt[v])]
    /\ rflags' = 1
    /\ UNCHANGED <<gdt, tss, cs, ds, tr, regs, rip, stack, trap, printVars>>

(* kmain goes on, and prints now and then.                                 *)
KmainRuns ==
    /\ pc = "kmain"
    /\ \/ KernelPrints /\ UNCHANGED rip
       \/ rip' \in Rips \ {rip} /\ UNCHANGED printVars
    /\ UNCHANGED <<tables, pc, regs, rflags, stack, trap>>

-----------------------------------------------------------------------------
(* Delivery.                                                               *)

IsException(v) == v < PIC_IDT_BASE

(* The stub behind the gate of vector v; none if the gate, or its code     *)
(* segment, is not there, or no stub begins at the address.                *)
StubBehind(v) ==
    LET g == idt[v] IN
    {w \in Vectors : /\ {"present", "interrupt_gate"} \subseteq g.type_attr
                     /\ IsCode64(gdt[g.selector])
                     /\ StubAt[w] = GateOffset(g)}

(* What the processor pushes: ss, rsp, rflags, cs, rip and, for some       *)
(* vectors, an error code.                                                 *)
Pushed(v, err) ==
    <<ds, Len(stack), rflags, cs, rip>> \o
    (IF v \in ErrorVectors THEN <<err>> ELSE <<>>)

(* A vector arrives; its stub runs up to the call.  An IRQ needs the flag, *)
(* which the gate clears; an exception comes of any instruction.           *)
stub(v) ==
    /\ pc \in {"kmain", "irq_handle"}
    /\ ~IsException(v) => rflags = 1
    /\ \E err \in IF v \in ErrorVectors THEN ErrorCodes ELSE {0} :
       IF StubBehind(v) = {}
       THEN pc' = "shutdown" /\ UNCHANGED <<regs, rip, rflags, stack, trap>>
       ELSE LET w == CHOOSE w \in StubBehind(v) : TRUE
                frame == stack \o Pushed(v, err)
            IN  /\ pc' = IF IsException(w) THEN "exception_handle" ELSE "irq_handle"
                /\ stack' = frame \o <<regs["rdi"], regs["rax"]>>
                /\ regs' = [regs EXCEPT
                       !["rsi"] = Len(frame),
                       !["rdi"] = IF IsException(w) THEN w ELSE w - PIC_IDT_BASE]
                /\ rip' = GateOffset(idt[v])
                /\ rflags' = 0
                /\ trap' = Append(trap, [vector |-> v, err |-> err, rip |-> rip,
                                         rflags |-> rflags, regs |-> regs,
                                         stack |-> stack])
    /\ UNCHANGED <<tables, printVars>>

(* irq_handle and all it calls; it returns with the callee-saved registers *)
(* as they were.                                                           *)
irq_handle ==
    /\ pc = "irq_handle" /\ pc' = "done"
    /\ \E lost \in {{}, CallerSaved} :
          regs' = [r \in Registers |-> IF r \in lost THEN LOST ELSE regs[r]]
    /\ UNCHANGED <<tables, rip, rflags, stack, trap, printVars>>

(* pop rax, pop rdi, iretq.                                                *)
iretq ==
    /\ pc = "done"
    /\ pc' = IF Len(trap) = 1 THEN "kmain" ELSE "irq_handle"
    /\ LET n == Len(stack) IN
       /\ regs' = [regs EXCEPT !["rax"] = stack[n], !["rdi"] = stack[n - 1]]
       /\ rip' = stack[n - 2] /\ cs' = stack[n - 3] /\ rflags' = stack[n - 4]
       /\ stack' = SubSeq(stack, 1, stack[n - 5]) /\ ds' = stack[n - 6]
    /\ trap' = SubSeq(trap, 1, Len(trap) - 1)
    /\ UNCHANGED <<gdt, idt, tss, tr, printVars>>

(* frame->rip of struct interrupt_frame.                                   *)
FrameRip_deep == stack[regs["rsi"] - 1]
FrameRip == stack[regs["rsi"]]

Said(text) == [fmt |-> text, args |-> <<>>]
SaidOf(text, directive, arg) ==
    [fmt |-> <<text, "%", directive, Newline>>, args |-> <<arg>>]

Halts_known(vector) == vector \in {0, 13}
Halts(vector) == TRUE

(* The handlers print and halt; none of them returns.                      *)
exception_handle ==
    /\ pc = "exception_handle"
    /\ LET vector == regs["rdi"] IN
       /\ pc' = IF Halts(vector) THEN "halted" ELSE "done"
       /\ IF vector \in {0, 13}
          THEN kprint(<<SaidOf("vector", "d", vector), SaidOf("RIP", "x", FrameRip),
                        Said(<<"halted", Newline>>)>>)
          ELSE kprint(<<SaidOf("vector", "d", vector)>>)
    /\ UNCHANGED <<tables, regs, rip, rflags, stack, trap, calls>>

Next ==
    \/ gdt_init \/ idt_init \/ KmainRuns
    \/ \E v \in Vectors : stub(v)
    \/ irq_handle \/ iretq \/ exception_handle

Spec == Init /\ [][Next]_vars

-----------------------------------------------------------------------------
(* Properties.                                                             *)

Running == pc \notin {"gdt_init", "idt_init"}
Top == trap[Len(trap)]

TypeOK ==
    /\ pc \in {"gdt_init", "idt_init", "kmain", "irq_handle", "done",
               "exception_handle", "halted", "shutdown"}
    /\ regs \in [Registers -> Int] /\ rip \in Addresses /\ rflags \in {0, 1}
    /\ cs \in Slots /\ ds \in Slots /\ tr \in Slots
    /\ con.row \in Rows /\ con.col \in Cols
    /\ con.cells \in [Rows -> [Cols -> Chars \cup {Blank}]]
    /\ Len(trap) =< 2

(* Every vector, through the fields of its gate and the segment the gate   *)
(* names, reaches its own stub, which passes its own number: no trap shuts *)
(* the machine down and none is handled as another.                        *)
OwnStub ==
    /\ pc # "shutdown"
    /\ pc \in {"irq_handle", "exception_handle"} =>
          regs["rdi"] = IF IsException(Top.vector) THEN Top.vector
                        ELSE Top.vector - PIC_IDT_BASE

(* The segment registers name descriptors of the right kind, and the task  *)
(* register one that spells the address and the size of the TSS.           *)
TablesDescribe ==
    Running =>
        /\ IsCode64(gdt[cs]) /\ IsData(gdt[ds]) /\ IsTss(gdt[tr])
        /\ SysBase(<<gdt[tr], gdt[tr + 1]>>) = TssAt
        /\ SegLimit(gdt[tr]) = TssSize - 1

(* iretq goes back to where the interrupt came, on the same stack with the *)
(* same flag: no error code is popped as an address, because the vectors   *)
(* that push one never return.  rax, rdi and the callee-saved registers    *)
(* hold what they held.                                                    *)
ResumesInterrupted ==
    [][pc = "done" =>
          /\ rip' = Top.rip /\ rflags' = Top.rflags /\ stack' = Top.stack
          /\ cs' = KERNEL_CS /\ ds' = KERNEL_DS
          /\ \A r \in CalleeSaved \cup {"rax", "rdi"} : regs'[r] = Top.regs[r]]_vars

(* The report that stands on the screen when the machine has halted names  *)
(* the vector and, for those that report it, the word on top of what the   *)
(* processor pushed, cut to an int: the address of the fault, or the error *)
(* code where there is one (exception.c:30).                               *)
ReportNamesFault ==
    pc = "halted" =>
        LET top  == IF Top.vector \in ErrorVectors THEN Top.err ELSE Top.rip
            name == <<"vector">> \o Positional(Top.vector, 10)
            rest == <<"RIP">> \o ReferenceDirective("x", top) \o <<"halted">>
        IN  IsSuffix(IF Top.vector \in {0, 13} THEN name \o rest ELSE name,
                     FlattenSeq(paper))

(* "preserve caller-saved regs we touch" (idt.asm:34): the interrupted     *)
(* code finds every register as it left it.                                *)
AllRegistersKept == [][pc = "done" => regs' = Top.regs]_vars
=============================================================================
