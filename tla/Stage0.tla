------------------------------- MODULE Stage0 -------------------------------
(***************************************************************************)
(* The first boot stage (boot/x86/stage0): it reads the root directory     *)
(* into a buffer, finds the kernel and the second stage in it, reads the   *)
(* FAT over the directory, loads both files cluster by cluster and jumps.  *)
(* Every read goes through disk_read, which tries the BIOS three times.    *)
(*                                                                         *)
(* What a sector holds is its block number, so memory is a map from        *)
(* sector-sized slots to block numbers.  Module Boot composes it with      *)
(* Stage1 and states the specification.                                    *)
(***************************************************************************)
EXTENDS Fat12, Sequences, SequencesExt, FiniteSets

CONSTANTS
    Clusters,        \* the data clusters of the disk
    Slots,           \* slots of one segment, after which BX wraps: 128
    BootBH,          \* what the BIOS may leave in BH
    KeepsCount       \* does a failed BIOS read leave AL alone?

ASSUME Stage0Assumption ==
    /\ Clusters \subseteq 2..4079
    /\ Slots \in Nat \ {0}
    /\ BootBH \subseteq 0 .. BYTE - 1
    /\ KeepsCount \in BOOLEAN

Files == {"stage1", "kernel"}
Areas == Files \cup {"buffer"}
Unread == -1
Absent == -1

(* Blocks of the disk: it ends with its last cluster.                      *)
Blocks == 0 .. ClusterBlock(Max(Clusters))
RootStart == bdb_reserved_sectors + bdb_fat_count * bdb_sectors_per_fat
RootSectors == 0 .. FirstDataBlock - RootStart - 1

VARIABLES
    disk,            \* dir: directory sector of each file; start: its first
                     \* cluster; fat: the entries of the clusters
    step,            \* the code's next step
    job,             \* what disk_read is called for
    rd,              \* the operands of disk_read
    mem,             \* contents of the slots of each area
    cluster,         \* AX in load_file
    verdict          \* why the machine halted

stage0Vars == <<disk, step, job, rd, mem, cluster, verdict>>

Stage0Steps == {"load_root_dir", "search_kernel", "search_stage1", "load_fat",
          "load_file", "int13", "returned", "jump", "halt"}

(* lba, want: the arguments; count: AL at the next try; tries: DI.         *)
Reads == [lba : 0 .. BYTE - 1, want : 0 .. BYTE - 1, count : 0 .. BYTE - 1,
          area : Areas, slot : 0 .. Slots - 1, tries : 0..3]

Marks == Clusters \cup {4088, 4095}

Stage0TypeOK ==
    /\ disk \in [dir : [Files -> RootSectors \cup {Absent}],
                 start : [Files -> Clusters], fat : [Clusters -> Marks \cup {0}]]
    /\ step \in Stage0Steps
    /\ job \in Areas \cup {"fat"}
    /\ rd \in Reads
    /\ mem \in [Areas -> [0 .. Slots - 1 -> Blocks \cup {Unread}]]
    /\ cluster \in Clusters \cup {0}
    /\ verdict \in {"none", "read_failure", "file_not_found"}

-----------------------------------------------------------------------------
(* Disks as a formatting tool makes them: every chain ends.                *)

(* The clusters of a file, in order: no chain has more than there are.     *)
Extended(fat, s) ==
    IF fat[Last(s)] \in Clusters THEN Append(s, fat[Last(s)]) ELSE s

Chain(fat, start) ==
    LET walk[n \in 1 .. 1 + Cardinality(Clusters)] ==
            IF n = 1 THEN <<start>> ELSE Extended(fat, walk[n - 1])
    IN  walk[1 + Cardinality(Clusters)]

Chains(d) == [f \in Files |-> Chain(d.fat, d.start[f])]

WellFormed(d) ==
    LET used == UNION {ToSet(Chains(d)[f]) : f \in Files}
    IN  /\ \A f \in Files : d.fat[Last(Chains(d)[f])] \in EndOfChain
        /\ \A f \in Files : Len(Chains(d)[f]) =< Slots
        /\ \A c \in Clusters : d.fat[c] = 0 <=> c \notin used

Disks == {d \in [dir : [Files -> RootSectors \cup {Absent}],
                 start : [Files -> Clusters],
                 fat : [Clusters -> Marks \cup {0}]] : WellFormed(d)}

-----------------------------------------------------------------------------
(* disk_read and the BIOS call in it.                                      *)

Call(for, lba, want, area, slot) ==
    /\ job' = for
    /\ rd' = [lba |-> lba, want |-> want, count |-> want, area |-> area,
              slot |-> slot, tries |-> 3]
    /\ step' = "int13"

(* Memory after the first n sectors of the read have arrived.              *)
Transferred(n) ==
    [mem EXCEPT ![rd.area] = [s \in DOMAIN @ |->
        LET i == (s - rd.slot) % Slots
        IN  IF i < n THEN BlockAt(lba_to_chs(rd.lba)) + i ELSE @[s]]]

int13_succeeds ==
    /\ step = "int13"
    /\ rd.count > 0
    /\ BlockAt(lba_to_chs(rd.lba)) + rd.count - 1 \in Blocks
    /\ rd.count =< Slots
    /\ mem' = Transferred(rd.count)
    /\ step' = "returned"
    /\ UNCHANGED <<disk, job, rd, cluster, verdict>>

(* A failed call has moved some of the sectors; AH becomes the status, and *)
(* AL may become the number of sectors moved.                              *)
CountAfterFailure(n, moved) == IF KeepsCount THEN n ELSE moved

LastTry_after_zero(tries) == tries = 0
LastTry(tries) == tries = 1

int13_fails ==
    /\ step = "int13"
    /\ \E moved \in 0 .. rd.count :
          /\ moved < rd.count \/ rd.count = 0
          /\ moved = 0 \/ (/\ BlockAt(lba_to_chs(rd.lba)) + moved - 1 \in Blocks
                           /\ moved =< Slots)
          /\ mem' = Transferred(moved)
          /\ rd' = [rd EXCEPT !.tries = @ - 1,
                              !.count = CountAfterFailure(@, moved)]
    /\ IF LastTry(rd.tries)
       THEN step' = "halt" /\ verdict' = "read_failure"
       ELSE UNCHANGED <<step, verdict>>
    /\ UNCHANGED <<disk, job, cluster>>

Returned(from) == step = "returned" /\ job = from

-----------------------------------------------------------------------------
(* The steps of main.                                                      *)

Stage0Init ==
    /\ disk \in Disks
    /\ step = "load_root_dir"
    /\ job = "buffer"
    /\ rd = [lba |-> 0, want |-> 0, count |-> 0, area |-> "buffer",
             slot |-> 0, tries |-> 0]
    /\ mem = [a \in Areas |-> [s \in 0 .. Slots - 1 |-> Unread]]
    /\ cluster = 0
    /\ verdict = "none"

load_root_dir ==
    /\ step = "load_root_dir"
    /\ \E bh \in BootBH :
          Call("buffer", RootLba(bh), RootLength(bh), "buffer", 0)
    /\ UNCHANGED <<disk, mem, cluster, verdict>>

(* A file is found if the directory sector with its record is in the       *)
(* buffer.                                                                 *)
Found(f) ==
    /\ disk.dir[f] # Absent
    /\ mem["buffer"][disk.dir[f]] = RootStart + disk.dir[f]

search_file(f, next) ==
    /\ IF Found(f)
       THEN step' = next /\ UNCHANGED verdict
       ELSE step' = "halt" /\ verdict' = "file_not_found"
    /\ UNCHANGED <<disk, job, rd, mem, cluster>>

search_kernel == Returned("buffer") /\ search_file("kernel", "search_stage1")
search_stage1 == step = "search_stage1" /\ search_file("stage1", "load_fat")

(* The FAT replaces the directory in the buffer.                           *)
load_fat ==
    /\ step = "load_fat"
    /\ Call("fat", bdb_reserved_sectors, bdb_sectors_per_fat, "buffer", 0)
    /\ UNCHANGED <<disk, mem, cluster, verdict>>

load_next_cluster_ax_lost(f, c, slot) ==
    /\ cluster' = 0
    /\ Call(f, ClusterLba(c), 1, f, slot)
    /\ UNCHANGED <<disk, mem, verdict>>

load_next_cluster(f, c, slot) ==
    /\ cluster' = c
    /\ Call(f, ClusterLba(c), 1, f, slot)
    /\ UNCHANGED <<disk, mem, verdict>>

load_file(f) == load_next_cluster(f, disk.start[f], 0)

(* The bytes of the FAT that the buffer really holds.                      *)
InBuffer(i) ==
    LET s == i \div bdb_bytes_per_sector
    IN  s < Slots /\ mem["buffer"][s] = bdb_reserved_sectors + s

Entry == [c \in FatEntries |-> IF c \in Clusters THEN disk.fat[c] ELSE 0]

(* What may be found for the current cluster: anything, without the FAT.   *)
Markers ==
    LET i == MarkerOffset(cluster)
    IN  IF InBuffer(i) /\ InBuffer(i + 1)
        THEN {chain_marker(cluster,
                           FatByte(Entry, i) + 256 * FatByte(Entry, i + 1))}
        ELSE Marks

(* What ends a chain.                                                      *)
IsLast(marker) == marker >= 4088

(* The sector is in: advance BX, look up the marker, go on or return.      *)
interpret_chain_marker(f) ==
    /\ Returned(f)
    /\ \E m \in Markers :
          IF ~IsLast(m)
          THEN load_next_cluster(f, m, (rd.slot + 1) % Slots)
          ELSE IF f = "stage1"
          THEN load_file("kernel")
          ELSE step' = "jump" /\ UNCHANGED <<disk, job, rd, mem, cluster, verdict>>

load_files == Returned("fat") /\ load_file("stage1")

Stage0Next ==
    \/ load_root_dir \/ search_kernel \/ search_stage1 \/ load_fat
    \/ load_files \/ (\E f \in Files : interpret_chain_marker(f))
    \/ int13_succeeds \/ int13_fails

-----------------------------------------------------------------------------
(* Properties.                                                             *)

(* "Read finished" (stage0.asm:98): whenever disk_read returns, all the    *)
(* sectors asked for are in memory, after however many failed tries.       *)
ReadFinished ==
    step = "returned" =>
        \A i \in 0 .. rd.want - 1 :
            mem[rd.area][(rd.slot + i) % Slots] = rd.lba + i

(* "Cluster number -> LBA conversion for floppy" (utils.asm:107): when the *)
(* second stage is entered, both files are in their segments, cluster by   *)
(* cluster in the order of their chains.                                   *)
JumpsToFiles ==
    step = "jump" =>
        \A f \in Files : \A i \in DOMAIN Chains(disk)[f] :
            mem[f][i - 1] = ClusterBlock(Chains(disk)[f][i])

(* A boot that ends with "File not found" had a file missing: the whole    *)
(* directory is searched, for both files, before the FAT replaces it.      *)
NotFoundIsAbsent ==
    verdict = "file_not_found" => \E f \in Files : disk.dir[f] = Absent
=============================================================================
