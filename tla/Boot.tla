-------------------------------- MODULE Boot --------------------------------
(***************************************************************************)
(* A whole boot: the first stage reads both files (Stage0) and jumps into  *)
(* the second, which finds out about the machine, builds the page tables   *)
(* and enters the kernel (Stage1).                                         *)
(*                                                                         *)
(* The second stage never reads the variables of the first, so they are    *)
(* put back to one value when it starts; and what it finds is chosen then, *)
(* as nothing has looked at it before.                                     *)
(***************************************************************************)
EXTENDS Stage0, Stage1

VARIABLE stage       \* the stage that runs, or "jump" between the two

bootVars == <<stage0Vars, vars, stage>>

AnyDisk == CHOOSE d \in Disks : TRUE

BootInit ==
    /\ stage = "stage0"
    /\ Init
    /\ bios = [regions |-> 0, carry |-> FALSE]
    /\ cpu = [cpuid |-> FALSE, extended |-> FALSE, long |-> FALSE]
    /\ ~a20 /\ ~gate
    /\ ebx = Min(FirstEbx)
    /\ cells = [c \in Cells |-> Min(Bytes)]
    /\ tables[L4] = CHOOSE j \in Junk : TRUE
    /\ Stage0Init

leave_stage0 ==
    /\ stage = "stage0" /\ step = "jump"
    /\ stage' = "jump"
    /\ disk' = AnyDisk
    /\ step' = "load_root_dir"
    /\ job' = "buffer"
    /\ rd' = [lba |-> 0, want |-> 0, count |-> 0, area |-> "buffer",
              slot |-> 0, tries |-> 0]
    /\ mem' = [a \in Areas |-> [s \in 0 .. Slots - 1 |-> Unread]]
    /\ cluster' = 0
    /\ UNCHANGED <<verdict, vars>>

(* The machine the second stage finds.                                     *)
enter_stage1 ==
    /\ stage = "jump"
    /\ stage' = "stage1"
    /\ bios' \in [regions : 0..MaxRegions, carry : BOOLEAN]
    /\ ebx' \in FirstEbx
    /\ a20' \in BOOLEAN /\ gate' \in BOOLEAN
    /\ cells' \in [Cells -> Bytes]
    /\ cpu' \in {c \in [cpuid : BOOLEAN, extended : BOOLEAN, long : BOOLEAN] :
                   (c.long => c.extended) /\ (c.extended => c.cpuid)}
    /\ \E j \in Junk : tables' = [p \in Places |-> j]
    /\ UNCHANGED <<pc, cx, stored, count, refused, ecx, paging, message,
                  screenVars, stage0Vars>>

BootNext ==
    \/ stage = "stage0" /\ Stage0Next /\ UNCHANGED <<vars, stage>>
    \/ leave_stage0 \/ enter_stage1
    \/ stage = "stage1" /\ Next /\ UNCHANGED <<stage0Vars, stage>>

(* Fairness: the processor keeps executing and the BIOS returns.           *)
BootSpec == BootInit /\ [][BootNext]_bootVars /\ WF_bootVars(BootNext)

-----------------------------------------------------------------------------
(* The two tests of the A20 line leave memory as the second stage found    *)
(* it, whether or not the two cells are one.                               *)
TestRestoresMemory == [][stage = "stage1" => cells' = cells]_bootVars

(* Every boot ends: in the kernel, or halted with a message of the stage   *)
(* that gave up.  The retries run out, the chains end, the map ends and    *)
(* the loop over the pages ends.                                           *)
Ends ==
    <>(\/ pc = "kernel"
       \/ pc = "halt" /\ message # "none"
       \/ step = "halt" /\ verdict # "none")
=============================================================================
