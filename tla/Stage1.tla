------------------------------- MODULE Stage1 -------------------------------
(***************************************************************************)
(* The second boot stage (boot/x86/stage1): it asks the BIOS for the       *)
(* memory map, opens the A20 line, checks the processor, builds the page   *)
(* tables and enters the kernel in long mode.  Nothing runs beside it;     *)
(* what is uncertain is the machine it finds.  Module Boot composes it     *)
(* with the first stage.                                                   *)
(***************************************************************************)
EXTENDS Integers, Sequences

CONSTANTS
    Entries,         \* entries of a page table: page_table_size / 8, 512
    MaxRegions,      \* a bound on the regions the BIOS reports
    EbxHigh,         \* what the BIOS may leave in the high word of EBX
    Bytes,           \* bytes the two cells of the A20 test may hold
    Junk             \* what a dword of the tables may hold at first

ASSUME Stage1Assumption ==
    /\ Entries \in Nat \ {0}
    /\ MaxRegions \in Nat
    /\ EbxHigh \subseteq Nat
    /\ Bytes \subseteq 0..255

(* Half of a table entry.  "to" is a page number in a huge entry, and else *)
(* the place of a table.                                                   *)
Dword == [to : Nat, huge : BOOLEAN, present : BOOLEAN]
Zero == [to |-> 0, huge |-> FALSE, present |-> FALSE]

(* Places are counted in dwords from page_table_l4_address.                *)
page_table_size == 2 * Entries
L4 == 0
L3 == page_table_size
L2 == 2 * page_table_size
Places == 0 .. 4 * page_table_size - 1

ASSUME JunkAssumption == Junk \subseteq Dword

VARIABLES
    pc,
    bios,            \* its regions, and how it signals the end of the map
    ebx, cx,         \* the continuation value; the count of regions
    stored, count,   \* what is stored at 0x86000 and at 0x85FFD
    refused,         \* did the BIOS refuse a continuation value of its own?
    a20, gate,       \* is the line open; does port 0x92 open it?
    cells,           \* the bytes at 0x500 and at 0x100500
    cpu,             \* CPUID, extended functions, long mode
    tables, ecx,        \* the page tables; the loop counter
    paging,          \* are addresses translated?
    message,
    screen, line, rax   \* the text on each line; PRINT_STRING_POSSITION;
                        \* the line handed on in RAX

mapVars == <<ebx, cx, stored, count, refused>>
a20Vars == <<a20, cells>>
tableVars == <<tables, ecx, paging>>
machine == <<bios, gate, cpu>>
screenVars == <<screen, line, rax>>
vars == <<pc, mapVars, a20Vars, tableVars, machine, message, screenVars>>

Steps == {"get_memory_map", "check_a20", "enable_a20", "check_again",
          "start_protected_mode", "check_CPUID", "check_extended_functions",
          "check_long_mode_support", "set_up_paging", "fill_l2_table",
          "enable_paging", "start_long_mode", "kernel_image", "kernel_entry",
          "kernel", "halt"}

Cells == {"low", "high"}
Lines == 0..24
Messages == {"none", "A20", "CPUID", "extended_functions", "long_mode"}

Texts == Steps \cup Messages \cup {"BIOS", "stray"}

ScreenTypeOK ==
    screen \in [Lines -> Texts] /\ line \in Nat /\ rax \in Nat

TypeOK ==
    /\ pc \in Steps
    /\ bios \in [regions : 0..MaxRegions, carry : BOOLEAN]
    /\ ebx \in Nat /\ cx \in 0..21 /\ count \in 0..21
    /\ stored \in Seq(Nat)
    /\ refused \in BOOLEAN /\ paging \in BOOLEAN
    /\ a20 \in BOOLEAN /\ gate \in BOOLEAN
    /\ cells \in [Cells -> 0..255]
    /\ cpu \in [cpuid : BOOLEAN, extended : BOOLEAN, long : BOOLEAN]
    /\ tables \in [Places -> Dword]
    /\ ecx \in 0..Entries
    /\ message \in Messages
    /\ ScreenTypeOK

(* xor bx, bx clears the low word only.                                    *)
FirstEbx == {65536 * high : high \in EbxHigh}

Init ==
    /\ pc = "get_memory_map"
    /\ bios \in [regions : 0..MaxRegions, carry : BOOLEAN]
    /\ ebx \in FirstEbx
    /\ cx = 0 /\ count = 0
    /\ stored = <<>>
    /\ refused = FALSE
    /\ a20 \in BOOLEAN /\ gate \in BOOLEAN
    /\ cells \in [Cells -> Bytes]
    /\ cpu \in [cpuid : BOOLEAN, extended : BOOLEAN, long : BOOLEAN]
    /\ (cpu.long => cpu.extended) /\ (cpu.extended => cpu.cpuid)
    /\ \E j \in Junk : tables = [p \in Places |-> j]
    /\ ecx = 0
    /\ paging = FALSE
    /\ message = "none"
    /\ screen = [i \in Lines |-> "BIOS"] /\ line = 0 /\ rax = 0

-----------------------------------------------------------------------------
(* The memory map.  A BIOS takes 0 or a value it returned itself, and ends *)
(* with the value 0 or, on the next call, with the carry flag.             *)

MoreRegions_jz(value) == value = 0
MoreRegions(value) == value # 0

(* ECX is 20 at the call; a region is stored, DI advances, CX is counted.  *)
e820_region ==
    /\ pc = "get_memory_map"
    /\ ebx < bios.regions
    /\ stored' = Append(stored, ebx)
    /\ cx' = 20 + 1
    /\ ebx' = IF ebx + 1 = bios.regions /\ ~bios.carry THEN 0 ELSE ebx + 1
    /\ IF MoreRegions(ebx')
       THEN UNCHANGED <<pc, count>>
       ELSE pc' = "check_a20" /\ count' = cx'
    /\ UNCHANGED <<refused, a20Vars, tableVars, machine, message, screenVars>>

(* The carry flag is set, or the answer is no region of 20 bytes.          *)
e820_done ==
    /\ pc = "get_memory_map"
    /\ cx' \in {0, 20}
    /\ count' = cx'
    /\ refused' = (ebx < bios.regions)
    /\ pc' = "check_a20"
    /\ UNCHANGED <<ebx, stored, a20Vars, tableVars, machine, message, screenVars>>

-----------------------------------------------------------------------------
(* The A20 line.  While it is closed the two cells are one.                *)

Cell(c) == IF a20 THEN c ELSE "low"
Stored(memory, c, byte) == [memory EXCEPT ![Cell(c)] = byte]

Tested_not_written(memory) == memory
Tested(memory) == Stored(Stored(memory, "low", 187), "high", 255)

Restored_swapped(memory, al, ah) == Stored(Stored(memory, "low", ah), "high", al)
Restored(memory, al, ah) == Stored(Stored(memory, "low", al), "high", ah)

Differ_je(memory) == memory["low"] = memory[Cell("high")]
Differ(memory) == memory["low"] # memory[Cell("high")]

(* Interrupts are off: the test is one step.                               *)
check_a20(differ, same) ==
    LET al == cells["low"]
        ah == cells[Cell("high")]
    IN  /\ cells' = Restored(Tested(cells), al, ah)
        /\ IF Differ(Tested(cells)) THEN differ ELSE same
        /\ UNCHANGED <<mapVars, a20, tableVars, machine, screenVars>>

Goto(step) == pc' = step /\ UNCHANGED message
Halt(text) == pc' = "halt" /\ message' = text

ensure_a20 ==
    \/ /\ pc = "check_a20"
       /\ check_a20(Goto("start_protected_mode"), Goto("enable_a20"))
    \/ /\ pc = "check_again"
       /\ check_a20(Goto("start_protected_mode"), Halt("A20"))

enable_a20_fast ==
    /\ pc = "enable_a20"
    /\ a20' = (a20 \/ gate)
    /\ pc' = "check_again"
    /\ UNCHANGED <<mapVars, cells, tableVars, machine, message, screenVars>>

-----------------------------------------------------------------------------
(* Text: a message is printed over the line at the position, which moves   *)
(* on.  The name of a step stands for the message of its success.          *)

Written(s, at, text) == [i \in Lines |-> IF i = at THEN text ELSE s[i]]

NextLine(at) == at + 1

print(at, text) == screen' = Written(screen, at, text) /\ line' = NextLine(at)
print_64_bits(at, text) == print(at, text)

(* Protected mode.  Setting the video mode has cleared the screen.         *)
start_protected_mode ==
    /\ pc = "start_protected_mode"
    /\ Goto("check_CPUID")
    /\ screen' = Written([i \in Lines |-> "none"], line, pc)
    /\ line' = NextLine(line)
    /\ UNCHANGED <<mapVars, a20Vars, tableVars, machine, rax>>

(* What the processor can do.                                              *)
check(step, supported, next, text) ==
    /\ pc = step
    /\ \/ supported  /\ Goto(next) /\ print(line, step)
       \/ ~supported /\ Halt(text) /\ print(line, text)
    /\ UNCHANGED <<mapVars, a20Vars, tableVars, machine, rax>>

check_CPUID ==
    check("check_CPUID", cpu.cpuid, "check_extended_functions", "CPUID")

check_extended_functions ==
    check("check_extended_functions", cpu.extended, "check_long_mode_support",
          "extended_functions")

check_long_mode_support ==
    check("check_long_mode_support", cpu.long, "set_up_paging", "long_mode")

-----------------------------------------------------------------------------
(* The page tables.                                                        *)

Table(to) == [to |-> to, huge |-> FALSE, present |-> TRUE]
Page(n) == [to |-> n, huge |-> TRUE, present |-> TRUE]

(* stosd counts dwords, so four tables are cleared.                        *)
Cleared_bytes == 0 .. page_table_size \div 4 - 1
Cleared == 0 .. 4 * page_table_size - 1

set_up_paging ==
    /\ pc = "set_up_paging"
    /\ tables' = [p \in Places |-> IF p = L4 THEN Table(L3)
                                ELSE IF p = L3 THEN Table(L2)
                                ELSE IF p \in Cleared THEN Zero ELSE tables[p]]
    /\ ecx' = 0
    /\ pc' = "fill_l2_table"
    /\ UNCHANGED <<mapVars, a20Vars, paging, machine, message, screenVars>>

NextPage_stuck(n) == n
NextPage(n) == n + 1

Filled_late(n) == n > Entries
Filled(n) == n = Entries

fill_l2_table ==
    /\ pc = "fill_l2_table"
    /\ tables' = [tables EXCEPT ![L2 + 2 * ecx] = Page(ecx)]
    /\ ecx' = NextPage(ecx)
    /\ IF Filled(ecx') THEN pc' = "enable_paging" /\ print(line, "set_up_paging")
                      ELSE UNCHANGED <<pc, screen, line>>
    /\ UNCHANGED <<mapVars, a20Vars, paging, machine, message, rax>>

(* CR3, PAE, the long mode enable bit, then the paging bit.                *)
enable_paging ==
    /\ pc = "enable_paging"
    /\ paging' = TRUE
    /\ pc' = "start_long_mode"
    /\ print(line, pc)
    /\ rax' = line'
    /\ UNCHANGED <<mapVars, a20Vars, tables, ecx, machine, message>>

-----------------------------------------------------------------------------
(* Long mode.  The position is stored before AX takes the null selector.   *)

Handed_after_ax(position) == 25
Handed(position) == position

start_long_mode ==
    /\ pc = "start_long_mode"
    /\ pc' = "kernel_image"
    /\ print_64_bits(Handed(rax), pc)
    /\ rax' = line'
    /\ UNCHANGED <<mapVars, a20Vars, tableVars, machine, message>>

(* The image begins with a variable, not with the label kernel_entry: its  *)
(* eight zero bytes run as four times add [rax], al, and RAX holds the     *)
(* address of a cell of the screen.                                        *)
kernel_image ==
    /\ pc = "kernel_image"
    /\ pc' = "kernel_entry"
    /\ screen' = Written(screen, rax, "stray")
    /\ UNCHANGED <<mapVars, a20Vars, tableVars, machine, message, line, rax>>

kernel_entry ==
    /\ pc = "kernel_entry"
    /\ pc' = "kernel"
    /\ print_64_bits(rax, pc)
    /\ rax' = 0
    /\ UNCHANGED <<mapVars, a20Vars, tableVars, machine, message>>

Next ==
    \/ e820_region \/ e820_done \/ ensure_a20 \/ enable_a20_fast
    \/ start_protected_mode
    \/ check_CPUID \/ check_extended_functions \/ check_long_mode_support
    \/ set_up_paging \/ fill_l2_table \/ enable_paging \/ start_long_mode
    \/ kernel_image \/ kernel_entry

Spec == Init /\ [][Next]_vars

-----------------------------------------------------------------------------
(* What the processor makes of an address, given as its indices into the   *)
(* three tables: a page number, or Fault.                                  *)

Fault == -1
Indices == 0 .. Entries - 1

Usable(place) == tables[place].present /\ tables[place + 1] = Zero
Points(place, table) == Usable(place) /\ tables[place] = Table(table)

Walk(i4, i3, i2) ==
    IF /\ Points(L4 + 2 * i4, L3)
       /\ Points(L3 + 2 * i3, L2)
       /\ Usable(L2 + 2 * i2)
       /\ tables[L2 + 2 * i2].huge
    THEN tables[L2 + 2 * i2].to
    ELSE Fault

-----------------------------------------------------------------------------
(* The inductive invariant.                                                *)

(* Directory pages; the first n pages; zero everywhere else.               *)
Built(n) ==
    /\ tables[L4] = Table(L3)
    /\ tables[L3] = Table(L2)
    /\ \A i \in 0 .. n - 1 : tables[L2 + 2 * i] = Page(i)
    /\ \A p \in Places :
          \/ p = L4 \/ p = L3 \/ (\E i \in 0 .. n - 1 : p = L2 + 2 * i)
          \/ tables[p] = Zero

TablesInv ==
    /\ pc = "fill_l2_table" => ecx < Entries /\ Built(ecx)
    /\ pc = "enable_paging" \/ paging => Built(Entries)
    /\ paging <=> pc \in {"start_long_mode", "kernel_image", "kernel_entry",
                         "kernel"}

(* What has been found out about the machine at each step.                 *)
InA20 == {"get_memory_map", "check_a20", "enable_a20", "check_again", "halt"}
InChecks == InA20 \cup {"start_protected_mode", "check_CPUID", "check_extended_functions",
                       "check_long_mode_support"}

MachineInv ==
    /\ pc \notin InA20 => a20
    /\ pc \notin InChecks => cpu.long
    /\ pc = "check_again" => (gate => a20)

-----------------------------------------------------------------------------
(* Properties.                                                             *)

(* "first 1 GiB of virtual addresses mapped to exactly the same physical   *)
(* addresses" (stage1.asm:7), and nothing else, from the moment paging is  *)
(* on; the next instruction depends on it.                                 *)
IdentityMapped ==
    paging => \A i4, i3, i2 \in Indices :
                  Walk(i4, i3, i2) = IF i4 = 0 /\ i3 = 0 THEN i2 ELSE Fault

(* The kernel is entered only on a machine that can run it.                *)
KernelCanRun ==
    pc = "kernel" => a20 /\ cpu.long /\ paging

(* A boot that halts does so for the reason it gives.                      *)
HaltsForReason ==
    pc = "halt" =>
        \/ message = "A20" /\ ~a20 /\ ~gate
        \/ message = "CPUID" /\ ~cpu.cpuid
        \/ message = "extended_functions" /\ ~cpu.extended
        \/ message = "long_mode" /\ ~cpu.long

(* The strengthening of these that every step preserves: the tables are    *)
(* built as far as the loop has come, and each check has meant something.  *)
Stage1Inv == TypeOK /\ TablesInv /\ MachineInv /\ HaltsForReason

(* What should stand on the screen once it has been cleared: a line for    *)
(* each milestone that was passed and, after a halt, one for its reason.   *)
Milestones == <<"start_protected_mode", "check_CPUID",
                "check_extended_functions", "check_long_mode_support",
                "set_up_paging", "enable_paging", "start_long_mode",
                "kernel_entry">>

Passed ==
    CASE pc = "check_CPUID" \/ message = "CPUID" -> 1
      [] pc = "check_extended_functions" \/ message = "extended_functions" -> 2
      [] pc = "check_long_mode_support" \/ message = "long_mode" -> 3
      [] pc \in {"set_up_paging", "fill_l2_table"} -> 4
      [] pc = "enable_paging" -> 5
      [] pc = "start_long_mode" -> 6
      [] pc \in {"kernel_image", "kernel_entry"} -> 7
      [] OTHER -> 8

Expected(i) == IF i < Passed THEN Milestones[i + 1]
               ELSE IF i = Passed THEN message
               ELSE "none"

InRealMode == pc \in {"get_memory_map", "check_a20", "enable_a20", "check_again",
                     "start_protected_mode"} \/ message = "A20"

(* No message is lost or written over while the position goes through two  *)
(* variables, two modes and a register, and the stray additions at the     *)
(* start of the image (kernel_entry.asm:8) hit nothing but the line that   *)
(* is printed next.                                                        *)
MessagesStand ==
    ~InRealMode =>
        \A i \in Lines : \/ screen[i] = Expected(i)
                         \/ pc = "kernel_entry" /\ i = Passed

(* A BIOS that refuses nothing has its whole map stored, in its order.     *)
(* "continuation value = 0" (utils_real_mode.asm:141).                     *)
MapComplete ==
    pc # "get_memory_map" /\ ~refused =>
        stored = [i \in 1..bios.regions |-> i - 1]

(* "CX = number of entries stored" (utils_real_mode.asm:134).              *)
MapCounted == pc # "get_memory_map" => count = Len(stored)
=============================================================================
