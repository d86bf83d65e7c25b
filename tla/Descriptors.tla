---------------------------- MODULE Descriptors ----------------------------
(***************************************************************************)
(* The tables of the processor: how gdt.c and idt.c spread addresses and   *)
(* limits over the fields of a descriptor, and how the processor puts them *)
(* together again.  Fields are numbers of their width; the bits that are   *)
(* flags of their own are members of a set.  The module has no variables.  *)
(***************************************************************************)
EXTENDS Integers

CONSTANT NIBBLE     \* values of four bits, 16 in the source

ASSUME NibbleAssumption == NIBBLE \in Nat /\ NIBBLE > 1

BYTE  == NIBBLE * NIBBLE
WORD  == BYTE * BYTE
DWORD == WORD * WORD
Addresses == 0 .. DWORD * DWORD - 1
MaxLimit  == WORD * NIBBLE - 1          (* 0xFFFFF *)

(* The members of access_bytes and flags that are set somewhere.           *)
KERNEL_CODE == {"present", "segment", "exec", "rw"}
KERNEL_DATA == {"present", "segment", "rw"}
USER_DATA   == KERNEL_DATA \cup {"dpl3"}
USER_CODE   == KERNEL_CODE \cup {"dpl3"}
TSS_DESC_ACCESS == {"present", "tss_avail"}
FLAGS_CODE64 == {"long", "gran_4k"}
FLAGS_DATA   == {"gran_4k"}

gdt_generate_seg_desc_mid_low(base, limit, access, flags) ==
    [limit_low  |-> limit % WORD,
     base_low   |-> base % WORD,
     base_mid   |-> (base \div BYTE) % BYTE,
     access     |-> access,
     flags      |-> flags,
     limit_high |-> (limit \div WORD) % NIBBLE,
     base_high  |-> (base \div (WORD * BYTE)) % BYTE]

gdt_generate_seg_desc(base, limit, access, flags) ==
    [limit_low  |-> limit % WORD,
     base_low   |-> base % WORD,
     base_mid   |-> (base \div WORD) % BYTE,
     access     |-> access,
     flags      |-> flags,
     limit_high |-> (limit \div WORD) % NIBBLE,
     base_high  |-> (base \div (WORD * BYTE)) % BYTE]

(* A system descriptor fills two slots; the second is the upper half of    *)
(* the base.                                                               *)
gdt_generate_sys_desc(base, limit) ==
    <<gdt_generate_seg_desc(base, limit, TSS_DESC_ACCESS, {}),
      [base_upper |-> (base \div DWORD) % DWORD, reserved |-> 0]>>

(* The fields of set_idt_entry.                                            *)
IDT_FLAG_INTERRUPT_GATE == {"present", "interrupt_gate"}
KERNEL_CS == 1      (* slots: the selector divided by 8 *)
KERNEL_DS == 2
TSS_SLOT  == 5

set_idt_entry_mid_low(isr_addr) ==
    [offset_low  |-> isr_addr % WORD,
     selector    |-> KERNEL_CS,
     ist         |-> 0,
     type_attr   |-> IDT_FLAG_INTERRUPT_GATE,
     offset_mid  |-> (isr_addr \div BYTE) % WORD,
     offset_high |-> (isr_addr \div DWORD) % DWORD]

set_idt_entry(isr_addr) ==
    [offset_low  |-> isr_addr % WORD,
     selector    |-> KERNEL_CS,
     ist         |-> 0,
     type_attr   |-> IDT_FLAG_INTERRUPT_GATE,
     offset_mid  |-> (isr_addr \div WORD) % WORD,
     offset_high |-> (isr_addr \div DWORD) % DWORD]

-----------------------------------------------------------------------------
(* What the processor reads out of them.                                   *)

GateOffset(g) == g.offset_low + WORD * g.offset_mid + DWORD * g.offset_high

SegLimit(d) == d.limit_low + WORD * d.limit_high
SegBase(d)  == d.base_low + WORD * d.base_mid + WORD * BYTE * d.base_high

SysBase(slots) == SegBase(slots[1]) + DWORD * slots[2].base_upper

IsCode64(d) == {"present", "segment", "exec"} \subseteq d.access /\ "long" \in d.flags
IsData(d)   == {"present", "segment", "rw"} \subseteq d.access /\ "exec" \notin d.access
IsTss(d)    == d.access = TSS_DESC_ACCESS
=============================================================================
