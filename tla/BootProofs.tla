----------------------------- MODULE BootProofs -----------------------------
(***************************************************************************)
(* Proofs about the whole boot, for every floppy geometry, disk, number of *)
(* failed reads and machine: what disk_read promises its callers, what the *)
(* search of the root directory concludes, that the files loaded are the   *)
(* files meant, and that the second stage keeps its promises when the      *)
(* first has started it.                                                   *)
(***************************************************************************)
EXTENDS Boot, Stage1Proofs, FiniteSetTheorems, WellFoundedInduction

-----------------------------------------------------------------------------
(* The arithmetic of the first stage.                                      *)

(* What looking up a cluster yields in a table with these entries.         *)
Looked(entry, c) ==
    chain_marker(c, FatByte(entry, MarkerOffset(c))
                              + 256 * FatByte(entry, MarkerOffset(c) + 1))

(* Two entries a and b share three bytes.                                  *)
LEMMA Packing ==
    ASSUME NEW a \in FatEntries, NEW b \in FatEntries
    PROVE  /\ ((a % 256) + 256 * (a \div 256 + 16 * (b % 16))) % 4096 = a
           /\ ((a \div 256 + 16 * (b % 16)) + 256 * (b \div 16)) \div 16 = b
<1>1. (a % 256) + 256 * (a \div 256) = a /\ a \div 256 \in 0..15 /\ a % 256 \in 0..255
  BY DEF FatEntries
<1>2. (b % 16) + 16 * (b \div 16) = b /\ b % 16 \in 0..15 /\ b \div 16 \in 0..255
  BY DEF FatEntries
<1>3. (a % 256) + 256 * (a \div 256 + 16 * (b % 16)) = a + 4096 * (b % 16)
  BY <1>1, <1>2 DEF FatEntries
<1>4. (a \div 256 + 16 * (b % 16)) + 256 * (b \div 16) = a \div 256 + 16 * b
  BY <1>1, <1>2 DEF FatEntries
<1>5. (a + 4096 * (b % 16)) % 4096 = a
  BY <1>2, SMTT(30) DEF FatEntries
<1>6. (a \div 256 + 16 * b) \div 16 = b
  BY <1>1 DEF FatEntries
<1> QED
  BY <1>3, <1>4, <1>5, <1>6

(* load_file takes the entry of its cluster out of the FAT, whatever it    *)
(* and the entry that shares its bytes are; the parity of three times the  *)
(* cluster, which it tests, is the parity of the cluster (the question at  *)
(* utils.asm:98).                                                          *)
THEOREM MarkerIsEntry ==
    ASSUME NEW entry, NEW c \in Nat,
           entry[2 * (c \div 2)] \in FatEntries,
           entry[2 * (c \div 2) + 1] \in FatEntries
    PROVE  /\ (c * 3) % 2 = c % 2
           /\ Looked(entry, c) = entry[c]
<1>1. PICK k \in Nat : c = 2 * k \/ c = 2 * k + 1
  <2>1. c \div 2 \in Nat
    OBVIOUS
  <2>2. c = 2 * (c \div 2) \/ c = 2 * (c \div 2) + 1
    OBVIOUS
  <2> QED
    BY <2>1, <2>2
<1>2. entry[2 * k] \in FatEntries /\ entry[2 * k + 1] \in FatEntries
  <2>1. c \div 2 = k
    BY <1>1
  <2> QED
    BY <2>1
<1>3. /\ (3 * k) \div 3 = k /\ (3 * k) % 3 = 0
      /\ (3 * k + 1) \div 3 = k /\ (3 * k + 1) % 3 = 1
      /\ (3 * k + 2) \div 3 = k /\ (3 * k + 2) % 3 = 2
  OBVIOUS
<1>4. /\ FatByte(entry, 3 * k) = entry[2 * k] % 256
      /\ FatByte(entry, 3 * k + 1) = entry[2 * k] \div 256
                                         + 16 * (entry[2 * k + 1] % 16)
      /\ FatByte(entry, 3 * k + 2) = entry[2 * k + 1] \div 16
  BY <1>3 DEF FatByte
<1>5. CASE c = 2 * k
  <2>1. (c * 3) % 2 = 0 /\ c % 2 = 0 /\ MarkerOffset(c) = 3 * k
    BY <1>5 DEF MarkerOffset
  <2>2. Looked(entry, c) = (FatByte(entry, 3 * k)
                                     + 256 * FatByte(entry, 3 * k + 1)) % 4096
    BY <2>1 DEF Looked, chain_marker
  <2> QED
    BY <1>2, <1>4, <1>5, <2>1, <2>2, Packing
<1>6. CASE c = 2 * k + 1
  <2>1. /\ (c * 3) % 2 = 1 /\ c % 2 = 1
        /\ MarkerOffset(c) = 3 * k + 1 /\ (3 * k + 1) + 1 = 3 * k + 2
    BY <1>6 DEF MarkerOffset
  <2>2. Looked(entry, c) = (FatByte(entry, 3 * k + 1)
                                     + 256 * FatByte(entry, 3 * k + 2)) \div 16
    BY <2>1 DEF Looked, chain_marker
  <2> QED
    BY <1>2, <1>4, <1>6, <2>1, <2>2, Packing
<1> QED
  BY <1>1, <1>5, <1>6

(* The cylinder, head and sector that lba_to_chs computes name the block,  *)
(* whatever the geometry, and the sector and head are ones of the disk.    *)
THEOREM ChsNamesBlock ==
    ASSUME NEW lba \in Nat
    PROVE  /\ BlockAt(lba_to_chs(lba)) = lba
           /\ lba_to_chs(lba).sector \in 1 .. bdb_sectors_per_track
           /\ lba_to_chs(lba).head \in 0 .. bdb_heads - 1
<1> DEFINE spt == bdb_sectors_per_track
           track == lba \div spt
           sector == lba % spt
           cylinder == track \div bdb_heads
           head == track % bdb_heads
<1>1. spt \in Nat \ {0} /\ bdb_heads \in Nat \ {0}
  BY FloppyAssumption
<1>2. track \in Nat /\ sector \in 0 .. spt - 1
  BY <1>1
<1>3. lba = spt * track + sector
  BY <1>1
<1>4. cylinder \in Nat /\ head \in 0 .. bdb_heads - 1
  <2> HIDE DEF track
  <2> QED
    BY <1>1, <1>2
<1>5. track = bdb_heads * cylinder + head
  <2> HIDE DEF track
  <2> QED
    BY <1>1, <1>2
<1>6. /\ lba_to_chs(lba).sector = sector + 1
      /\ lba_to_chs(lba).head = head
      /\ lba_to_chs(lba).cylinder = cylinder
  BY Zenon DEF lba_to_chs
<1> HIDE DEF spt, track, sector, cylinder, head
<1>7. BlockAt(lba_to_chs(lba)) = (cylinder * bdb_heads + head) * spt + (sector + 1) - 1
  BY <1>6, Zenon DEF BlockAt, spt
<1>8. cylinder * bdb_heads + head = track
  BY <1>1, <1>4, <1>5
<1>9. track * spt + (sector + 1) - 1 = lba
  BY <1>1, <1>2, <1>3
<1> QED
  BY <1>1, <1>2, <1>4, <1>6, <1>7, <1>8, <1>9 DEF spt

-----------------------------------------------------------------------------
(* The first stage.                                                        *)

(* The operands of disk_read, the areas it fills and the disk it reads.    *)
Operands == [lba : Nat, want : Nat, count : Nat, area : Areas,
             slot : 0 .. Slots - 1, tries : Int]

DiskType ==
    /\ disk \in Disks
    /\ rd \in Operands
    /\ mem \in [Areas -> [0 .. Slots - 1 -> Int]]
    /\ cluster \in Clusters \cup {0}

(* The n sectors from block lba are in an area, from a slot on.            *)
Holds(area, slot, lba, n) ==
    \A i \in 0 .. n - 1 : mem[area][(slot + i) % Slots] = lba + i

(* The count for the next try is the count asked for.                      *)
ReadInv ==
    /\ DiskType
    /\ step \in {"int13", "returned"} => rd.count = rd.want
    /\ step = "returned" => Holds(rd.area, rd.slot, rd.lba, rd.want)

LEMMA Modulo ==
    ASSUME NEW m \in Nat \ {0}, NEW a \in 0 .. m - 1, NEW i \in 0 .. m - 1
    PROVE  /\ (a + i) % m = IF a + i < m THEN a + i ELSE a + i - m
           /\ (a + i) % m \in 0 .. m - 1
           /\ (((a + i) % m) - a) % m = i
<1>1. (a + i) % m = IF a + i < m THEN a + i ELSE a + i - m
  OBVIOUS
<1>2. (i - m) % m = i /\ i % m = i
  OBVIOUS
<1>3. ((a + i) % m) - a = i \/ ((a + i) % m) - a = i - m
  BY <1>1
<1> QED
  BY <1>1, <1>2, <1>3

LEMMA Sizes ==
    /\ Slots \in Nat \ {0} /\ BYTE \in Nat \ {0} /\ Clusters \subseteq 2..4079
    /\ Files \subseteq Areas /\ "buffer" \in Areas
    /\ bdb_reserved_sectors \in Nat /\ bdb_sectors_per_fat \in Nat
  BY Stage0Assumption, FloppyAssumption DEF Files, Areas

LEMMA Lbas ==
    /\ \A c \in Clusters \cup {0} : ClusterLba(c) \in Nat
    /\ \A bh \in BootBH : RootLba(bh) \in Nat /\ RootLength(bh) \in Nat
<1>1. ASSUME NEW c \in Clusters \cup {0}
      PROVE  ClusterLba(c) \in Nat
  <2>1. c + ClusterOffset \in Int
    BY Sizes, FloppyAssumption
  <2> QED
    BY <2>1, Sizes DEF ClusterLba
<1>2. ASSUME NEW bh \in BootBH
      PROVE  RootLba(bh) \in Nat /\ RootLength(bh) \in Nat
  <2>1. bh \in Nat /\ WORD \in Nat \ {0}
    BY Sizes, Stage0Assumption DEF WORD
  <2>2. FatSectors(bh) \in Nat
    BY <2>1, FloppyAssumption DEF FatSectors
  <2>3. RootLba(bh) \in Nat
    <3>1. (FatSectors(bh) % WORD) + bdb_reserved_sectors \in Int
      BY <2>1, <2>2, FloppyAssumption
    <3> QED
      BY <3>1, Sizes, SMTT(30) DEF RootLba
  <2>4. RootLength(bh) \in Nat
    <3> DEFINE size == (FatSectors(bh) \div WORD) * WORD + RootBytes
               whole == size \div bdb_bytes_per_sector
    <3>1. size \in Int /\ bdb_bytes_per_sector \in Nat \ {0}
      <4>1. FatSectors(bh) \div WORD \in Int
        BY <2>1, <2>2
      <4> QED
        BY <2>1, <4>1, FloppyAssumption
    <3>2. whole \in Int
      <4> HIDE DEF size
      <4> QED
        BY <3>1
    <3>3. whole % BYTE \in Nat /\ (whole + 1) % BYTE \in Nat
      <4> HIDE DEF whole
      <4> QED
        BY <3>2, Sizes
    <3> QED
      BY <3>3 DEF RootLength
  <2> QED
    BY <2>3, <2>4
<1> QED
  BY <1>1, <1>2

(* The sectors that a successful call of the BIOS moves are those asked    *)
(* for, in the slots after rd.slot, around the end of the segment.         *)
Ahead(s) == (s - rd.slot) % Slots

LEMMA TransferType ==
    ASSUME DiskType, NEW n \in Nat
    PROVE  /\ Transferred(n) \in [Areas -> [0 .. Slots - 1 -> Int]]
           /\ \A s \in 0 .. Slots - 1 :
                 Ahead(s) < n => Transferred(n)[rd.area][s] = rd.lba + Ahead(s)
           /\ \A a \in Areas : \A s \in 0 .. Slots - 1 :
                 a # rd.area \/ ~(Ahead(s) < n) => Transferred(n)[a][s] = mem[a][s]
<1>1. /\ rd.lba \in Nat /\ rd.area \in Areas /\ rd.slot \in 0 .. Slots - 1
      /\ mem \in [Areas -> [0 .. Slots - 1 -> Int]] /\ Slots \in Nat \ {0}
  BY Sizes, SMTT(30) DEF DiskType, Operands
<1>2. BlockAt(lba_to_chs(rd.lba)) = rd.lba
  BY <1>1, ChsNamesBlock
<1>3. \A s \in 0 .. Slots - 1 : Ahead(s) \in Nat
  <2> SUFFICES ASSUME NEW s \in 0 .. Slots - 1 PROVE Ahead(s) \in Nat
    OBVIOUS
  <2>1. s - rd.slot \in Int
    BY <1>1
  <2> QED
    BY <1>1, <2>1 DEF Ahead
<1> DEFINE new == [s \in 0 .. Slots - 1 |-> IF Ahead(s) < n THEN rd.lba + Ahead(s)
                                            ELSE mem[rd.area][s]]
<1>4. DOMAIN mem[rd.area] = 0 .. Slots - 1
  BY <1>1
<1>5. Transferred(n) = [mem EXCEPT ![rd.area] = new]
  <2>1. Transferred(n) = [mem EXCEPT ![rd.area] =
            [s \in DOMAIN mem[rd.area] |->
                IF Ahead(s) < n THEN BlockAt(lba_to_chs(rd.lba)) + Ahead(s)
                ELSE mem[rd.area][s]]]
    BY Zenon DEF Transferred, Ahead
  <2> QED
    BY <1>2, <1>4, <2>1, Zenon
<1>6. new \in [0 .. Slots - 1 -> Int]
  <2> SUFFICES ASSUME NEW s \in 0 .. Slots - 1
               PROVE  (IF Ahead(s) < n THEN rd.lba + Ahead(s) ELSE mem[rd.area][s]) \in Int
    OBVIOUS
  <2>1. mem[rd.area][s] \in Int
    BY <1>1
  <2> QED
    BY <1>1, <1>3, <2>1
<1>7. \A s \in 0 .. Slots - 1 : Ahead(s) < n => new[s] = rd.lba + Ahead(s)
  OBVIOUS
<1>8. \A s \in 0 .. Slots - 1 : ~(Ahead(s) < n) => new[s] = mem[rd.area][s]
  OBVIOUS
<1> HIDE DEF new
<1> QED
  BY <1>1, <1>5, <1>6, <1>7, <1>8

LEMMA TransferHolds ==
    ASSUME DiskType, rd.count =< Slots, mem' = Transferred(rd.count), rd' = rd
    PROVE  Holds(rd.area, rd.slot, rd.lba, rd.count)'
<1> DEFINE n == rd.count
<1>1. n \in Nat /\ n =< Slots /\ rd.slot \in 0 .. Slots - 1 /\ Slots \in Nat \ {0}
  BY Sizes DEF DiskType, Operands
<1> HIDE DEF n
<1>2. ASSUME NEW i \in 0 .. n - 1
      PROVE  Transferred(n)[rd.area][(rd.slot + i) % Slots] = rd.lba + i
  <2>1. i \in 0 .. Slots - 1
    BY <1>1
  <2>2. /\ (rd.slot + i) % Slots \in 0 .. Slots - 1
        /\ (((rd.slot + i) % Slots) - rd.slot) % Slots = i
    BY <1>1, <2>1, Modulo
  <2>3. PICK s \in 0 .. Slots - 1 : s = (rd.slot + i) % Slots
    BY <2>2
  <2>4. Ahead(s) = i
    BY <2>2, <2>3 DEF Ahead
  <2>5. Ahead(s) < n
    BY <1>1, <2>4
  <2>6. Transferred(n)[rd.area][s] = rd.lba + Ahead(s)
    BY <1>1, <2>5, TransferType
  <2> QED
    BY <2>3, <2>4, <2>6
<1> QED
  BY <1>2 DEF Holds, n

(* The table of the disk: clusters, marks and zeros, of 12 bits.           *)
TableOf(fat, D) == [c \in D |-> IF c \in Clusters THEN fat[c] ELSE 0]

LEMMA TableType ==
    ASSUME NEW M, 0 \in M, NEW fat \in [Clusters -> M], NEW D
    PROVE  TableOf(fat, D) \in [D -> M]
  BY DEF TableOf

LEMMA Neighbours ==
    ASSUME NEW c \in Clusters \cup {0}
    PROVE  /\ c \in Nat /\ c \in FatEntries
           /\ 2 * (c \div 2) \in FatEntries /\ 2 * (c \div 2) + 1 \in FatEntries
<1>1. c \in Nat /\ c =< 4079
  BY Sizes
<1>2. c \in FatEntries
  BY <1>1 DEF FatEntries
<1>3. 2 * (c \div 2) \in FatEntries
  BY <1>1 DEF FatEntries
<1>4. 2 * (c \div 2) + 1 \in FatEntries
  BY <1>1 DEF FatEntries
<1> QED
  BY <1>1, <1>2, <1>3, <1>4

(* What is found for a cluster is a cluster of the disk or ends the chain. *)
LEMMA MarkersKnown ==
    ASSUME DiskType, NEW m \in Markers, ~IsLast(m)
    PROVE  m \in Clusters \cup {0}
<1>1. /\ Clusters \subseteq 2..4079 /\ cluster \in Clusters \cup {0}
      /\ disk.fat \in [Clusters -> Marks \cup {0}]
  BY Sizes, SMTT(30) DEF DiskType, Disks
<1>2. \A k \in Marks : k \notin Clusters => IsLast(k)
  BY DEF Marks, IsLast
<1>3. CASE m \in Marks
  BY <1>2, <1>3
<1>4. CASE m \notin Marks
  <2>1. m = Looked(Entry, cluster)
    BY <1>4 DEF Markers, Looked
  <2>2. Marks \cup {0} \subseteq FatEntries
    BY <1>1 DEF Marks, FatEntries
  <2>3. Entry \in [FatEntries -> Marks \cup {0}]
    <3>1. 0 \in Marks \cup {0} /\ disk.fat \in [Clusters -> Marks \cup {0}]
      BY <1>1
    <3>2. TableOf(disk.fat, FatEntries) \in [FatEntries -> Marks \cup {0}]
      BY <3>1, TableType
    <3>3. Entry = TableOf(disk.fat, FatEntries)
      BY Zenon DEF Entry, TableOf
    <3> QED
      BY <3>2, <3>3
  <2>4. /\ cluster \in Nat /\ cluster \in FatEntries
        /\ 2 * (cluster \div 2) \in FatEntries
        /\ 2 * (cluster \div 2) + 1 \in FatEntries
    <3>1. cluster \in Clusters \cup {0}
      BY <1>1
    <3> QED
      BY <3>1, Neighbours, Zenon
  <2>5. /\ Entry[2 * (cluster \div 2)] \in FatEntries
        /\ Entry[2 * (cluster \div 2) + 1] \in FatEntries
        /\ Entry[cluster] \in Marks \cup {0}
    BY <2>2, <2>3, <2>4
  <2>6. m = Entry[cluster]
    BY <2>1, <2>4, <2>5, MarkerIsEntry
  <2> QED
    BY <1>4, <2>5, <2>6
<1> QED
  BY <1>3, <1>4

(* A call of disk_read, with the operands of its callers.                  *)
LEMMA CallKeeps ==
    ASSUME DiskType, NEW for, NEW lba \in Nat, NEW want \in Nat,
           NEW area \in Areas, NEW slot \in 0 .. Slots - 1,
           Call(for, lba, want, area, slot),
           disk' = disk, mem' = mem, cluster' \in Clusters \cup {0}
    PROVE  /\ ReadInv' /\ step' = "int13" /\ job' = for
           /\ rd'.lba = lba /\ rd'.want = want /\ rd'.area = area /\ rd'.slot = slot
<1>1. /\ rd' = [lba |-> lba, want |-> want, count |-> want, area |-> area,
                slot |-> slot, tries |-> 3]
      /\ step' = "int13" /\ job' = for
  BY DEF Call
<1>2. rd' \in Operands /\ rd'.count = rd'.want
  BY <1>1 DEF Operands
<1> QED
  BY <1>1, <1>2 DEF ReadInv, DiskType

LEMMA ClusterKeeps ==
    ASSUME DiskType, NEW f \in Files, NEW c \in Clusters \cup {0},
           NEW slot \in 0 .. Slots - 1, load_next_cluster(f, c, slot)
    PROVE  /\ ReadInv' /\ step' = "int13" /\ job' = f
           /\ UNCHANGED <<disk, mem, verdict>>
<1>1. /\ cluster' = c /\ Call(f, ClusterLba(c), 1, f, slot)
      /\ UNCHANGED <<disk, mem, verdict>>
  BY DEF load_next_cluster
<1>2. ClusterLba(c) \in Nat /\ f \in Areas
  BY Lbas, Sizes
<1> QED
  BY <1>1, <1>2, CallKeeps

(* Steps that call nothing leave the memory that was read as it is.        *)
LEMMA ReadKept ==
    ASSUME ReadInv, UNCHANGED <<disk, rd, mem, cluster>>,
           step' = step \/ step' \notin {"int13", "returned"}
    PROVE  ReadInv'
  BY DEF ReadInv, DiskType, Holds

LEMMA ReadStep ==
    ASSUME KeepsCount = TRUE, ReadInv, Stage0Next
    PROVE  ReadInv'
<1>1. CASE load_root_dir
  <2>1. PICK bh \in BootBH : Call("buffer", RootLba(bh), RootLength(bh), "buffer", 0)
    BY <1>1 DEF load_root_dir
  <2>2. RootLba(bh) \in Nat /\ RootLength(bh) \in Nat /\ 0 \in 0 .. Slots - 1
    BY Lbas, Sizes
  <2>3. "buffer" \in Areas /\ DiskType /\ cluster \in Clusters \cup {0}
    BY Sizes DEF ReadInv, DiskType
  <2> QED
    BY <1>1, <2>1, <2>2, <2>3, CallKeeps DEF load_root_dir
<1>2. CASE search_kernel \/ search_stage1
  BY <1>2, ReadKept DEF search_kernel, search_stage1, search_file
<1>3. CASE load_fat
  <2>1. "buffer" \in Areas /\ DiskType /\ cluster \in Clusters \cup {0}
        /\ bdb_reserved_sectors \in Nat /\ bdb_sectors_per_fat \in Nat
        /\ 0 \in 0 .. Slots - 1
    BY Sizes DEF ReadInv, DiskType
  <2> QED
    BY <1>3, <2>1, CallKeeps DEF load_fat
<1>4. ASSUME NEW f \in Files, load_file(f)
      PROVE  ReadInv'
  <2>1. disk.start[f] \in Clusters /\ 0 \in 0 .. Slots - 1 /\ DiskType
    BY Sizes, SMTT(30) DEF ReadInv, DiskType, Disks
  <2> QED
    BY <1>4, <2>1, ClusterKeeps DEF load_file
<1>5. CASE load_files
  <2>1. "stage1" \in Files
    BY DEF Files
  <2> QED
    BY <1>4, <1>5, <2>1 DEF load_files
<1>6. ASSUME NEW f \in Files, interpret_chain_marker(f)
      PROVE  ReadInv'
  <2>1. PICK m \in Markers :
            IF ~IsLast(m)
            THEN load_next_cluster(f, m, (rd.slot + 1) % Slots)
            ELSE IF f = "stage1"
            THEN load_file("kernel")
            ELSE step' = "jump" /\ UNCHANGED <<disk, job, rd, mem, cluster, verdict>>
    BY <1>6 DEF interpret_chain_marker
  <2>2. DiskType /\ rd.slot \in Nat /\ Slots \in Nat \ {0}
    BY Sizes, SMTT(30) DEF ReadInv, DiskType, Operands
  <2>3. CASE ~IsLast(m)
    <3>1. m \in Clusters \cup {0}
      BY <2>2, <2>3, MarkersKnown
    <3>2. (rd.slot + 1) % Slots \in 0 .. Slots - 1
      <4> DEFINE next == rd.slot + 1
      <4>1. next \in Nat
        BY <2>2
      <4> HIDE DEF next
      <4>2. next % Slots \in 0 .. Slots - 1
        BY <2>2, <4>1
      <4> QED
        BY <4>2 DEF next
    <3> QED
      BY <2>1, <2>2, <2>3, <3>1, <3>2, ClusterKeeps
  <2>4. CASE IsLast(m) /\ f = "stage1"
    <3>1. "kernel" \in Files /\ load_file("kernel")
      BY <2>1, <2>4 DEF Files
    <3> QED
      BY <1>4, <3>1
  <2>5. CASE IsLast(m) /\ f # "stage1"
    BY <2>1, <2>5, ReadKept
  <2> QED
    BY <2>3, <2>4, <2>5
<1>7. CASE int13_succeeds
  <2>1. /\ step = "int13" /\ rd.count =< Slots /\ mem' = Transferred(rd.count)
        /\ step' = "returned" /\ UNCHANGED <<disk, rd, cluster>>
    BY <1>7 DEF int13_succeeds
  <2>2. DiskType /\ rd.count \in Nat /\ rd.count = rd.want
    BY <2>1 DEF ReadInv, DiskType, Operands
  <2>3. Holds(rd.area, rd.slot, rd.lba, rd.count)'
    BY <2>1, <2>2, TransferHolds
  <2>4. mem' \in [Areas -> [0 .. Slots - 1 -> Int]]
    BY <2>1, <2>2, TransferType
  <2> QED
    BY <2>1, <2>2, <2>3, <2>4 DEF ReadInv, DiskType
<1>8. CASE int13_fails
  <2>1. PICK moved \in 0 .. rd.count :
            /\ mem' = Transferred(moved)
            /\ rd' = [rd EXCEPT !.tries = @ - 1,
                                !.count = CountAfterFailure(@, moved)]
    BY <1>8 DEF int13_fails
  <2>2. /\ step = "int13" /\ step' \in {"int13", "halt"}
        /\ UNCHANGED <<disk, cluster>>
    BY <1>8 DEF int13_fails
  <2>3. DiskType /\ rd \in Operands /\ rd.count = rd.want /\ moved \in Nat
    BY <2>2 DEF ReadInv, DiskType, Operands
  <2>4. rd' = [rd EXCEPT !.tries = @ - 1]
    BY <2>1, <2>3 DEF CountAfterFailure, Operands
  <2>5. rd' \in Operands /\ rd'.count = rd'.want
    BY <2>3, <2>4 DEF Operands
  <2>6. mem' \in [Areas -> [0 .. Slots - 1 -> Int]]
    BY <2>1, <2>3, TransferType
  <2> QED
    BY <2>2, <2>3, <2>5, <2>6 DEF ReadInv, DiskType
<1> QED
  BY <1>1, <1>2, <1>3, <1>5, <1>6, <1>7, <1>8 DEF Stage0Next

(* At power-on, and when the variables of the first stage are put back.    *)
Blank == [a \in Areas |-> [s \in 0 .. Slots - 1 |-> Unread]]
NoRead == [lba |-> 0, want |-> 0, count |-> 0, area |-> "buffer", slot |-> 0,
           tries |-> 0]

LEMMA BlankType ==
    /\ Blank \in [Areas -> [0 .. Slots - 1 -> Int]]
    /\ NoRead \in Operands
<1>1. Blank \in [Areas -> [0 .. Slots - 1 -> Int]]
  <2>1. Unread \in Int
    BY DEF Unread
  <2> QED
    BY <2>1 DEF Blank
<1>2. NoRead \in Operands
  BY Sizes DEF NoRead, Operands
<1> QED
  BY <1>1, <1>2

LEMMA ReadInit == Stage0Init => ReadInv
<1> SUFFICES ASSUME Stage0Init PROVE ReadInv
  OBVIOUS
<1>1. disk \in Disks /\ step = "load_root_dir" /\ cluster = 0
  BY DEF Stage0Init
<1>2. rd = NoRead /\ mem = Blank
  BY Zenon DEF Stage0Init, NoRead, Blank
<1> QED
  BY <1>1, <1>2, BlankType DEF ReadInv, DiskType

LEMMA LeaveStage0 ==
    ASSUME ReadInv, leave_stage0
    PROVE  /\ ReadInv' /\ step' = "load_root_dir"
           /\ UNCHANGED <<verdict, vars>>
<1>1. /\ step' = "load_root_dir" /\ cluster' = 0 /\ disk' = AnyDisk
      /\ UNCHANGED <<verdict, vars>>
  BY DEF leave_stage0
<1>2. rd' = NoRead /\ mem' = Blank
  BY Zenon DEF leave_stage0, NoRead, Blank
<1>3. AnyDisk \in Disks
  BY DEF AnyDisk, ReadInv, DiskType
<1> QED
  BY <1>1, <1>2, <1>3, BlankType DEF ReadInv, DiskType

LEMMA ReadInvariance ==
    ASSUME KeepsCount = TRUE
    PROVE  BootSpec => []ReadInv
<1>1. BootInit => ReadInv
  BY ReadInit DEF BootInit
<1>2. ReadInv /\ [BootNext]_bootVars => ReadInv'
  <2> SUFFICES ASSUME ReadInv, [BootNext]_bootVars PROVE ReadInv'
    OBVIOUS
  <2>1. CASE Stage0Next
    BY <2>1, ReadStep
  <2>2. CASE leave_stage0
    BY <2>2, LeaveStage0
  <2>3. CASE UNCHANGED stage0Vars
    BY <2>3, ReadKept DEF stage0Vars
  <2> QED
    BY <2>1, <2>2, <2>3 DEF BootNext, enter_stage1, bootVars
<1> QED
  BY <1>1, <1>2, PTL DEF BootSpec

(* Whenever disk_read returns, every sector asked for is in memory, after  *)
(* however many failed tries, on every geometry, if a failed call leaves   *)
(* AL alone (stage0.asm: disk_read, "Read finished").                      *)
THEOREM ReadsFinish ==
    ASSUME KeepsCount = TRUE
    PROVE  BootSpec => []ReadFinished
<1>1. ReadInv => ReadFinished
  BY DEF ReadInv, Holds, ReadFinished
<1> QED
  BY <1>1, ReadInvariance, PTL

-----------------------------------------------------------------------------
(* The search of the root directory.                                       *)

(* What load_root_dir computes covers the directory, whatever the BIOS has *)
(* left in BH.                                                             *)
DirectoryCovered ==
    \A bh \in BootBH : /\ RootLba(bh) = RootStart
                       /\ RootLength(bh) >= FirstDataBlock - RootStart

LEMMA Small ==
    ASSUME NEW m \in Nat \ {0}, NEW x \in Nat, x < m
    PROVE  x % m = x /\ x \div m = 0
  OBVIOUS

LEMMA LowByte == ASSUME NEW q \in Nat PROVE (256 * q + 19) % 256 = 19
  OBVIOUS

(* On the floppy of the source, every value of BH up to 28 is as good as   *)
(* the zero that was meant.                                                *)
THEOREM SmallBHCovers ==
    ASSUME BYTE = 256, bdb_bytes_per_sector = 512, bdb_reserved_sectors = 1,
           bdb_fat_count = 2, bdb_sectors_per_fat = 9, RootBytes = 7168,
           BootBH \subseteq 0..28
    PROVE  DirectoryCovered
<1>1. RootStart = 19 /\ FirstDataBlock = 33
  BY DEF RootStart, FirstDataBlock
<1>2. ASSUME NEW bh \in BootBH
      PROVE  RootLba(bh) = 19 /\ RootLength(bh) = 14
  <2>1. bh \in Nat /\ bh =< 28 /\ WORD = 65536
    BY DEF WORD
  <2>2. FatSectors(bh) = 2304 * bh + 18
    BY <2>1 DEF FatSectors
  <2>3. 2304 * bh + 18 \in Nat /\ 2304 * bh + 18 < 65536
    BY <2>1
  <2>4. (2304 * bh + 18) % 65536 = 2304 * bh + 18 /\ (2304 * bh + 18) \div 65536 = 0
    <3> DEFINE x == 2304 * bh + 18
    <3>1. x \in Nat /\ x < 65536
      BY <2>3
    <3> HIDE DEF x
    <3>2. x % 65536 = x /\ x \div 65536 = 0
      BY <3>1, Small
    <3> QED
      BY <3>2 DEF x
  <2>5. (2304 * bh + 18 + 1) % 256 = 19
    <3>1. 9 * bh \in Nat /\ 2304 * bh + 18 + 1 = 256 * (9 * bh) + 19
      BY <2>1
    <3>2. (256 * (9 * bh) + 19) % 256 = 19
      BY <3>1, LowByte
    <3> QED
      BY <3>1, <3>2
  <2>6. RootLba(bh) = 19
    BY <2>1, <2>2, <2>4, <2>5 DEF RootLba
  <2>7. RootLength(bh) = 14
    BY <2>1, <2>2, <2>4 DEF RootLength
  <2> QED
    BY <2>6, <2>7
<1> QED
  BY <1>1, <1>2 DEF DirectoryCovered

(* The whole directory is in the buffer.                                   *)
DirectoryRead == \A s \in RootSectors : mem["buffer"][s] = RootStart + s

(* A read of the directory asks for all of it, and the buffer holds it     *)
(* until the FAT replaces it.                                              *)
SearchInv ==
    /\ step \in {"int13", "returned"} /\ job = "buffer" =>
          /\ rd.lba = RootStart /\ rd.want >= FirstDataBlock - RootStart
          /\ rd.area = "buffer" /\ rd.slot = 0
    /\ step = "returned" => rd.want =< Slots
    /\ step = "search_stage1" => DirectoryRead
    /\ verdict # "none" => step = "halt"
    /\ NotFoundIsAbsent

LEMMA DirectorySize ==
    FirstDataBlock - RootStart \in Int /\ RootStart \in Int /\ FirstDataBlock \in Int
<1>1. RootStart \in Int
  BY FloppyAssumption DEF RootStart
<1>2. RootBytes \div bdb_bytes_per_sector \in Int
  BY FloppyAssumption
<1>3. FirstDataBlock \in Int
  <2>1. bdb_reserved_sectors + bdb_fat_count * bdb_sectors_per_fat \in Int
    BY FloppyAssumption
  <2> QED
    BY <1>2, <2>1 DEF FirstDataBlock
<1> QED
  BY <1>1, <1>3

LEMMA DirectoryIsRead ==
    ASSUME ReadInv, SearchInv, Returned("buffer")
    PROVE  DirectoryRead
<1>1. /\ rd.lba = RootStart /\ rd.want >= FirstDataBlock - RootStart
      /\ rd.area = "buffer" /\ rd.slot = 0 /\ rd.want =< Slots /\ rd.want \in Nat
      /\ Holds("buffer", 0, RootStart, rd.want)
  BY DEF Returned, SearchInv, ReadInv, DiskType, Operands
<1>2. ASSUME NEW s \in RootSectors
      PROVE  mem["buffer"][s] = RootStart + s
  <2>1. s \in 0 .. rd.want - 1 /\ s \in 0 .. Slots - 1
    BY <1>1, Sizes, DirectorySize, SMTT(30) DEF RootSectors
  <2>2. (0 + s) % Slots = s
    BY <2>1, Sizes, Modulo
  <2> QED
    BY <1>1, <2>1, <2>2 DEF Holds
<1> QED
  BY <1>2 DEF DirectoryRead

(* Both searches decide as the directory is.                               *)
LEMMA SearchKeeps ==
    ASSUME ReadInv, SearchInv, DirectoryRead, verdict = "none",
           NEW f \in Files, NEW next \in {"search_stage1", "load_fat"},
           search_file(f, next)
    PROVE  SearchInv'
<1>1. UNCHANGED <<disk, job, rd, mem, cluster>>
  BY DEF search_file
<1>2. disk.dir[f] # Absent => Found(f)
  BY DEF ReadInv, DiskType, Disks, DirectoryRead, Found
<1>3. CASE Found(f)
  <2>1. step' = next /\ verdict' = "none"
    BY <1>3 DEF search_file
  <2> QED
    BY <1>1, <2>1 DEF SearchInv, DirectoryRead, NotFoundIsAbsent
<1>4. CASE ~Found(f)
  <2>1. step' = "halt"
    BY <1>4 DEF search_file
  <2> QED
    BY <1>1, <1>2, <1>4, <2>1 DEF SearchInv, NotFoundIsAbsent
<1> QED
  BY <1>3, <1>4

(* Elsewhere the verdict stays, or is another.                             *)
LEMMA SearchKept ==
    ASSUME SearchInv, verdict = "none", verdict' # "file_not_found",
           verdict' # "none" => step' = "halt", step' # "search_stage1",
           (step' \in {"int13", "returned"} /\ job' = "buffer") =>
               /\ rd'.lba = RootStart /\ rd'.want >= FirstDataBlock - RootStart
               /\ rd'.area = "buffer" /\ rd'.slot = 0,
           step' = "returned" => rd'.want =< Slots
    PROVE  SearchInv'
  BY DEF SearchInv, NotFoundIsAbsent

LEMMA SearchStep ==
    ASSUME KeepsCount = TRUE, DirectoryCovered, ReadInv, SearchInv, Stage0Next
    PROVE  SearchInv'
<1>0. verdict = "none" /\ DiskType
  BY DEF SearchInv, ReadInv, Stage0Next, load_root_dir, search_kernel,
         search_stage1, load_fat, load_files, interpret_chain_marker,
         int13_succeeds, int13_fails, Returned
<1>1. CASE load_root_dir
  <2>1. PICK bh \in BootBH : Call("buffer", RootLba(bh), RootLength(bh), "buffer", 0)
    BY <1>1 DEF load_root_dir
  <2>2. RootLba(bh) = RootStart /\ RootLength(bh) >= FirstDataBlock - RootStart
    BY DEF DirectoryCovered
  <2>3. /\ rd'.lba = RootLba(bh) /\ rd'.want = RootLength(bh)
        /\ rd'.area = "buffer" /\ rd'.slot = 0 /\ step' = "int13"
    BY <2>1 DEF Call
  <2> QED
    BY <1>0, <1>1, <2>2, <2>3, SearchKept DEF load_root_dir
<1>2. CASE search_kernel
  <2>1. DirectoryRead /\ "kernel" \in Files
    BY <1>2, DirectoryIsRead DEF search_kernel, Files
  <2> QED
    BY <1>0, <1>2, <2>1, SearchKeeps DEF search_kernel
<1>3. CASE search_stage1
  <2>1. DirectoryRead /\ "stage1" \in Files
    BY <1>3 DEF search_stage1, SearchInv, Files
  <2> QED
    BY <1>0, <1>3, <2>1, SearchKeeps DEF search_stage1
<1>4. CASE load_fat
  <2>1. job' = "fat" /\ step' = "int13" /\ verdict' = verdict
    BY <1>4 DEF load_fat, Call
  <2> QED
    BY <1>0, <2>1, SearchKept
<1>5. ASSUME job' # "buffer", step' \in {"int13", "jump"}, verdict' = verdict
      PROVE  SearchInv'
  BY <1>0, <1>5, SearchKept
<1>6. \A f \in Files : f # "buffer"
  BY DEF Files
<1>7. ASSUME NEW f \in Files, NEW c, NEW slot, load_next_cluster(f, c, slot)
      PROVE  SearchInv'
  <2>1. job' = f /\ step' = "int13" /\ verdict' = verdict
    BY <1>7 DEF load_next_cluster, Call
  <2> QED
    BY <1>5, <1>6, <2>1
<1>8. CASE load_files
  <2>1. "stage1" \in Files
    BY DEF Files
  <2> QED
    BY <1>7, <1>8, <2>1 DEF load_files, load_file
<1>9. ASSUME NEW f \in Files, interpret_chain_marker(f)
      PROVE  SearchInv'
  <2>1. PICK m \in Markers :
            IF ~IsLast(m)
            THEN load_next_cluster(f, m, (rd.slot + 1) % Slots)
            ELSE IF f = "stage1"
            THEN load_file("kernel")
            ELSE step' = "jump" /\ UNCHANGED <<disk, job, rd, mem, cluster, verdict>>
    BY <1>9 DEF interpret_chain_marker
  <2>2. CASE ~IsLast(m)
    BY <1>7, <2>1, <2>2
  <2>3. CASE IsLast(m) /\ f = "stage1"
    <3>1. "kernel" \in Files /\ load_file("kernel")
      BY <2>1, <2>3 DEF Files
    <3> QED
      BY <1>7, <3>1 DEF load_file
  <2>4. CASE IsLast(m) /\ f # "stage1"
    <3>1. job' = job /\ step' = "jump" /\ verdict' = verdict
      BY <2>1, <2>4
    <3> QED
      BY <1>0, <3>1, SearchKept
  <2> QED
    BY <2>2, <2>3, <2>4
<1>10. CASE int13_succeeds
  <2>1. /\ step = "int13" /\ step' = "returned" /\ rd.count =< Slots
        /\ UNCHANGED <<job, rd, verdict>>
    BY <1>10 DEF int13_succeeds
  <2>2. rd'.want =< Slots
    BY <2>1 DEF ReadInv
  <2> QED
    BY <1>0, <2>1, <2>2, SearchKept DEF SearchInv
<1>11. CASE int13_fails
  <2>1. PICK moved : rd' = [rd EXCEPT !.tries = @ - 1,
                                      !.count = CountAfterFailure(@, moved)]
    BY <1>11 DEF int13_fails
  <2>2. /\ rd'.lba = rd.lba /\ rd'.want = rd.want /\ rd'.area = rd.area
        /\ rd'.slot = rd.slot
    <3>1. rd \in Operands
      BY <1>0 DEF DiskType
    <3> QED
      BY <2>1, <3>1 DEF Operands
  <2>3. /\ step = "int13" /\ job' = job
        /\ \/ step' = "halt" /\ verdict' = "read_failure"
           \/ step' = step /\ verdict' = verdict
    BY <1>11 DEF int13_fails
  <2> QED
    BY <1>0, <2>2, <2>3, SearchKept DEF SearchInv
<1> QED
  BY <1>1, <1>2, <1>3, <1>4, <1>8, <1>9, <1>10, <1>11 DEF Stage0Next

(* A boot says "File not found" only on a disk that lacks a file, whatever *)
(* reads failed before: both searches see the whole directory, which the   *)
(* FAT replaces only afterwards (main.asm: load_root_dir, search_file).    *)
THEOREM OnlyAbsentNotFound ==
    ASSUME KeepsCount = TRUE, DirectoryCovered
    PROVE  BootSpec => []NotFoundIsAbsent
<1>1. BootInit => SearchInv
  BY DEF BootInit, Stage0Init, SearchInv, NotFoundIsAbsent
<1>2. ReadInv /\ SearchInv /\ [BootNext]_bootVars => SearchInv'
  <2> SUFFICES ASSUME ReadInv, SearchInv, [BootNext]_bootVars PROVE SearchInv'
    OBVIOUS
  <2>1. CASE Stage0Next
    BY <2>1, SearchStep
  <2>2. CASE leave_stage0
    <3>1. step = "jump" /\ step' = "load_root_dir" /\ verdict' = verdict
      BY <2>2, LeaveStage0 DEF leave_stage0
    <3> QED
      BY <3>1, SearchKept DEF SearchInv
  <2>3. CASE UNCHANGED stage0Vars
    BY <2>3 DEF stage0Vars, SearchInv, DirectoryRead, NotFoundIsAbsent
  <2> QED
    BY <2>1, <2>2, <2>3 DEF BootNext, enter_stage1, bootVars
<1>3. SearchInv => NotFoundIsAbsent
  BY DEF SearchInv
<1> QED
  BY <1>1, <1>2, <1>3, ReadInvariance, PTL DEF BootSpec

-----------------------------------------------------------------------------
(* The chains.                                                             *)

LEMMA Least ==
    ASSUME NEW T, T \subseteq Nat, T # {}
    PROVE  \E x \in T : \A y \in T : x =< y
<1>1. IsWellFoundedOn(OpToRel(<, Nat), Nat)
  BY NatLessThanWellFounded
<1>2. PICK x \in T : \A y \in T : ~(<<y, x>> \in OpToRel(<, Nat))
  BY <1>1, WFMin
<1>3. \A y \in T : ~(y < x)
  BY <1>2 DEF OpToRel
<1> QED
  BY <1>3

(* Induction, on the set of the numbers that have the property.            *)
LEMMA Induct ==
    ASSUME NEW T, T \subseteq Nat, 0 \in T, \A n \in Nat : n \in T => n + 1 \in T
    PROVE  T = Nat
<1> SUFFICES ASSUME Nat \ T # {} PROVE FALSE
  OBVIOUS
<1>1. PICK x \in Nat \ T : \A y \in Nat \ T : x =< y
  BY Least
<1>2. x # 0 /\ x - 1 \in Nat /\ x - 1 \notin Nat \ T
  BY <1>1
<1> QED
  BY <1>2

(* g is the start of the walk that defines a chain, up to n.               *)
IsWalk(g, n, fat, start) ==
    g = [i \in 1 .. n |-> IF i = 1 THEN <<start>> ELSE Extended(fat, g[i - 1])]

LEMMA WalkExists ==
    ASSUME NEW fat, NEW start, NEW n \in Nat
    PROVE  \E g : IsWalk(g, n, fat, start)
<1> DEFINE T == {m \in Nat : \E g : IsWalk(g, m, fat, start)}
<1>1. 0 \in T
  <2>1. IsWalk([i \in 1 .. 0 |-> 0], 0, fat, start)
    BY DEF IsWalk
  <2> QED
    BY <2>1
<1>2. ASSUME NEW m \in Nat, m \in T
      PROVE  m + 1 \in T
  <2>1. PICK g : IsWalk(g, m, fat, start)
    BY <1>2
  <2> DEFINE Step(i) == IF i = 1 THEN <<start>> ELSE Extended(fat, g[i - 1])
             h == [i \in 1 .. m + 1 |-> Step(i)]
  <2>2. \A i \in 1 .. m : g[i] = Step(i)
    BY <2>1 DEF IsWalk
  <2>3. \A i \in 1 .. m : h[i] = g[i]
    BY <2>2
  <2>4. \A i \in 1 .. m + 1 : Step(i) = IF i = 1 THEN <<start>>
                                         ELSE Extended(fat, h[i - 1])
    <3>1. \A i \in 1 .. m + 1 : i # 1 => i - 1 \in 1 .. m
      OBVIOUS
    <3>2. \A i \in 1 .. m + 1 : i # 1 => h[i - 1] = g[i - 1]
      BY <2>3, <3>1
    <3> HIDE DEF h
    <3> QED
      BY <3>2
  <2>5. IsWalk(h, m + 1, fat, start)
    <3> SUFFICES h = [i \in 1 .. m + 1 |-> IF i = 1 THEN <<start>>
                                           ELSE Extended(fat, h[i - 1])]
      BY DEF IsWalk
    <3> QED
      BY <2>4, Zenon
  <2> QED
    BY <2>5
<1>3. T = Nat
  <2> HIDE DEF T
  <2>1. T \subseteq Nat
    BY DEF T
  <2> QED
    BY <1>1, <1>2, <2>1, Induct
<1> QED
  BY <1>3

(* s goes from the first cluster along the entries of the table.           *)
Linked(s, fat, start) ==
    /\ s \in Seq(Clusters) /\ Len(s) >= 1 /\ s[1] = start
    /\ \A i \in 1 .. Len(s) - 1 : fat[s[i]] = s[i + 1]

LEMMA ExtendedLinked ==
    ASSUME NEW fat, NEW start, NEW s, Linked(s, fat, start)
    PROVE  Linked(Extended(fat, s), fat, start)
<1> DEFINE next == fat[Last(s)]
<1>1. s \in Seq(Clusters) /\ Len(s) \in Nat \ {0} /\ next = fat[s[Len(s)]]
  BY DEF Linked, Last
<1>2. CASE next \in Clusters
  <2>1. Extended(fat, s) = Append(s, next)
    BY <1>2 DEF Extended
  <2> HIDE DEF next
  <2>2. /\ Append(s, next) \in Seq(Clusters) /\ Len(Append(s, next)) = Len(s) + 1
        /\ \A i \in 1 .. Len(s) : Append(s, next)[i] = s[i]
        /\ Append(s, next)[Len(s) + 1] = next
    BY <1>1, <1>2
  <2> QED
    BY <1>1, <2>1, <2>2 DEF Linked
<1>3. CASE next \notin Clusters
  BY <1>3 DEF Extended
<1> QED
  BY <1>2, <1>3

LEMMA ChainLinked ==
    ASSUME NEW fat, NEW start \in Clusters
    PROVE  Linked(Chain(fat, start), fat, start)
<1> DEFINE N == 1 + Cardinality(Clusters)
           walk == CHOOSE g : g = [n \in 1 .. 1 + Cardinality(Clusters) |->
                       IF n = 1 THEN <<start>> ELSE Extended(fat, g[n - 1])]
           T == {n \in Nat : n < N => Linked(walk[n + 1], fat, start)}
<1>1. N \in Nat \ {0}
  <2>1. Clusters \in SUBSET Nat /\ 4079 \in Nat /\ \A c \in Clusters : c =< 4079
    BY Stage0Assumption
  <2>2. IsFiniteSet(Clusters)
    BY <2>1, FS_BoundedSetOfNaturals
  <2>3. Cardinality(Clusters) \in Nat
    BY <2>2, FS_CardinalityType
  <2> QED
    BY <2>3
<1>2. walk = [n \in 1 .. N |-> IF n = 1 THEN <<start>> ELSE Extended(fat, walk[n - 1])]
  <2>1. \E g : g = [n \in 1 .. N |-> IF n = 1 THEN <<start>>
                                    ELSE Extended(fat, g[n - 1])]
    <3>1. PICK g : IsWalk(g, N, fat, start)
      BY <1>1, WalkExists
    <3> QED
      BY <3>1, Zenon DEF IsWalk
  <2> QED
    BY <2>1, Zenon
<1>3. Chain(fat, start) = walk[N]
  BY Zenon DEF Chain
<1> HIDE DEF N, walk
<1>4. 0 \in T
  <2>1. walk[1] = <<start>>
    BY <1>1, <1>2
  <2>2. Linked(<<start>>, fat, start)
    BY DEF Linked
  <2> QED
    BY <2>1, <2>2
<1>5. ASSUME NEW n \in Nat, n \in T
      PROVE  n + 1 \in T
  <2> SUFFICES ASSUME n + 1 < N PROVE Linked(walk[n + 2], fat, start)
    OBVIOUS
  <2>1. Linked(walk[n + 1], fat, start)
    BY <1>1, <1>5
  <2>2. n + 2 \in 1 .. N /\ n + 2 # 1 /\ (n + 2) - 1 = n + 1
    BY <1>1
  <2>3. walk[n + 2] = Extended(fat, walk[n + 1])
    BY <1>2, <2>2
  <2> QED
    BY <2>1, <2>3, ExtendedLinked
<1>6. T = Nat
  <2> HIDE DEF T
  <2>1. T \subseteq Nat
    BY DEF T
  <2> QED
    BY <1>4, <1>5, <2>1, Induct
<1>7. N - 1 \in T
  <2> HIDE DEF T
  <2> QED
    BY <1>1, <1>6
<1>8. N - 1 < N /\ (N - 1) + 1 = N
  BY <1>1
<1> QED
  BY <1>3, <1>7, <1>8

(* What a disk promises about the chain of a file.                         *)
LEMMA ChainOfFile ==
    ASSUME disk \in Disks, NEW f \in Files
    PROVE  LET chain == Chains(disk)[f]
           IN  /\ Len(chain) \in 1 .. Slots
               /\ \A i \in 1 .. Len(chain) : chain[i] \in Clusters
               /\ chain[1] = disk.start[f]
               /\ \A i \in 1 .. Len(chain) - 1 : disk.fat[chain[i]] = chain[i + 1]
               /\ disk.fat[chain[Len(chain)]] \in EndOfChain
<1> DEFINE chain == Chains(disk)[f]
<1>1. disk.start[f] \in Clusters /\ WellFormed(disk)
  BY SMTT(30) DEF Disks
<1>2. chain = Chain(disk.fat, disk.start[f])
  BY DEF Chains
<1>3. Linked(chain, disk.fat, disk.start[f])
  BY <1>1, <1>2, ChainLinked
<1>4. Len(chain) =< Slots /\ disk.fat[Last(chain)] \in EndOfChain
  BY <1>1 DEF WellFormed
<1> HIDE DEF chain
<1>5. disk.fat[chain[Len(chain)]] \in EndOfChain
  BY <1>4 DEF Last
<1>6. chain \in Seq(Clusters) /\ Len(chain) \in Nat
  BY <1>3 DEF Linked
<1>7. Len(chain) \in 1 .. Slots
  BY <1>3, <1>4, <1>6, Sizes DEF Linked
<1> QED
  BY <1>3, <1>5, <1>6, <1>7 DEF Linked, chain

-----------------------------------------------------------------------------
(* The widths of the first stage.                                          *)

(* The numbers in the BIOS parameter block that disk_read is called with   *)
(* are bytes.                                                              *)
OperandsFit ==
    1 < BYTE /\ bdb_reserved_sectors < BYTE /\ bdb_sectors_per_fat < BYTE

Width == 0 .. BYTE - 1

(* The counter of a try that is under way is not used up.                  *)
WidthInv ==
    /\ disk \in Disks
    /\ Stage0TypeOK
    /\ step = "int13" => rd.tries # 0

LEMMA Remainder ==
    ASSUME NEW m \in Nat \ {0}, NEW x \in Int
    PROVE  x % m \in 0 .. m - 1
  OBVIOUS

LEMMA OperandWidths ==
    /\ \A c \in Clusters \cup {0} : ClusterLba(c) \in Width
    /\ \A bh \in BootBH : RootLba(bh) \in Width /\ RootLength(bh) \in Width
<1>1. BYTE \in Nat \ {0}
  BY Sizes
<1>2. ASSUME NEW c \in Clusters \cup {0}
      PROVE  ClusterLba(c) \in Width
  <2>1. c + ClusterOffset \in Int
    BY Sizes, FloppyAssumption
  <2> QED
    BY <1>1, <2>1, Remainder DEF ClusterLba, Width
<1>3. ASSUME NEW bh \in BootBH
      PROVE  RootLba(bh) \in Width /\ RootLength(bh) \in Width
  <2>1. bh \in Nat /\ WORD \in Nat \ {0}
    BY Sizes, Stage0Assumption DEF WORD
  <2>2. FatSectors(bh) \in Nat
    BY <2>1, FloppyAssumption DEF FatSectors
  <2>3. (FatSectors(bh) % WORD) + bdb_reserved_sectors \in Int
    BY <2>1, <2>2, FloppyAssumption
  <2>4. RootLba(bh) \in Width
    BY <1>1, <2>3, Remainder DEF RootLba, Width
  <2> DEFINE size == (FatSectors(bh) \div WORD) * WORD + RootBytes
             whole == size \div bdb_bytes_per_sector
             rounded == IF size % bdb_bytes_per_sector = 0 THEN whole ELSE whole + 1
  <2>5. size \in Int /\ bdb_bytes_per_sector \in Nat \ {0}
    <3>1. FatSectors(bh) \div WORD \in Int
      BY <2>1, <2>2
    <3> QED
      BY <2>1, <3>1, FloppyAssumption
  <2>6. rounded \in Int
    <3> HIDE DEF size
    <3> QED
      BY <2>5
  <2>7. RootLength(bh) = rounded % BYTE
    BY Zenon DEF RootLength
  <2> HIDE DEF rounded
  <2>8. RootLength(bh) \in Width
    BY <1>1, <2>6, <2>7, Remainder DEF Width
  <2> QED
    BY <2>4, <2>8
<1> QED
  BY <1>2, <1>3

LEMMA WidthIsType == WidthInv => DiskType
<1> SUFFICES ASSUME WidthInv PROVE DiskType
  OBVIOUS
<1>1. Blocks \cup {Unread} \subseteq Int
  BY DEF Blocks, Unread
<1>2. mem \in [Areas -> [0 .. Slots - 1 -> Int]]
  BY <1>1, SMTT(30) DEF WidthInv, Stage0TypeOK
<1>3. rd \in Operands
  BY Sizes, SMTT(30) DEF WidthInv, Stage0TypeOK, Reads, Operands
<1> QED
  BY <1>2, <1>3 DEF WidthInv, Stage0TypeOK, DiskType

LEMMA Greatest ==
    ASSUME NEW S, S \subseteq Nat, S # {}, NEW n \in Nat, \A y \in S : y =< n
    PROVE  \E x \in S : \A y \in S : x >= y
<1> DEFINE T == {m \in Nat : \A y \in S : y =< m}
<1>1. T \subseteq Nat /\ T # {}
  OBVIOUS
<1>2. \E x \in T : \A m \in T : x =< m
  <2> HIDE DEF T
  <2> QED
    BY <1>1, Least
<1>3. PICK x \in T : \A m \in T : x =< m
  BY <1>2
<1>4. x \in S
  <2> SUFFICES ASSUME x \notin S PROVE FALSE
    OBVIOUS
  <2>1. x \in Nat /\ \A y \in S : y \in Nat /\ y =< x /\ y # x
    BY <1>3
  <2>2. x - 1 \in Nat
    <3>1. PICK y \in S : TRUE
      OBVIOUS
    <3> QED
      BY <2>1, <3>1
  <2>3. x - 1 \in T
    BY <2>1, <2>2
  <2> QED
    BY <1>3, <2>2, <2>3
<1> QED
  BY <1>3, <1>4

(* The disk has a last block.                                              *)
LEMMA LastBlock ==
    ASSUME disk \in Disks
    PROVE  \A a \in Blocks, b \in Nat : b =< a => b \in Blocks
<1>1. Clusters # {}
  <2>1. disk.start \in [Files -> Clusters] /\ "kernel" \in Files
    BY SMTT(30) DEF Disks, Files
  <2> QED
    BY <2>1
<1>2. Clusters \subseteq Nat
  BY Sizes
<1>3. \E x \in Clusters : \A y \in Clusters : x >= y
  <2>1. PICK n \in Nat : \A c \in Clusters : c =< n
    <3>1. \A c \in Clusters : c =< 4079
      BY Sizes
    <3> QED
      BY <3>1
  <2> QED
    BY <1>1, <1>2, <2>1, Greatest
<1>4. Max(Clusters) \in Clusters
  BY <1>3, Zenon DEF Max
<1>5. Max(Clusters) \in Nat
  BY <1>2, <1>4, Zenon
<1>6. ClusterBlock(Max(Clusters)) \in Int
  BY <1>5, DirectorySize DEF ClusterBlock
<1> QED
  BY <1>6 DEF Blocks

(* Sectors arrive from blocks of the disk.                                 *)
LEMMA TransferBlocks ==
    ASSUME WidthInv, NEW n \in Nat,
           n = 0 \/ BlockAt(lba_to_chs(rd.lba)) + n - 1 \in Blocks
    PROVE  Transferred(n) \in [Areas -> [0 .. Slots - 1 -> Blocks \cup {Unread}]]
<1>1. DiskType /\ rd.lba \in Nat /\ rd.slot \in 0 .. Slots - 1 /\ Slots \in Nat \ {0}
  BY WidthIsType, Sizes, SMTT(30) DEF DiskType, Operands
<1>2. mem \in [Areas -> [0 .. Slots - 1 -> Blocks \cup {Unread}]]
  BY DEF WidthInv, Stage0TypeOK
<1>3. BlockAt(lba_to_chs(rd.lba)) = rd.lba
  BY <1>1, ChsNamesBlock
<1>4. ASSUME NEW s \in 0 .. Slots - 1
      PROVE  Ahead(s) \in Nat
  BY <1>1, Remainder DEF Ahead
<1>5. ASSUME NEW s \in 0 .. Slots - 1, Ahead(s) < n
      PROVE  Transferred(n)[rd.area][s] \in Blocks
  <2>1. Transferred(n)[rd.area][s] = rd.lba + Ahead(s)
    BY <1>1, <1>5, TransferType
  <2>2. rd.lba + n - 1 \in Blocks
    BY <1>3, <1>4, <1>5
  <2> QED
    <3>1. /\ rd.lba + Ahead(s) \in Nat /\ rd.lba + Ahead(s) =< rd.lba + n - 1
      BY <1>1, <1>4, <1>5
    <3>2. disk \in Disks
      BY DEF WidthInv
    <3> QED
      BY <2>1, <2>2, <3>1, <3>2, LastBlock
<1>6. ASSUME NEW a \in Areas, NEW s \in 0 .. Slots - 1
      PROVE  Transferred(n)[a][s] \in Blocks \cup {Unread}
  <2>1. CASE a = rd.area /\ Ahead(s) < n
    BY <1>5, <2>1
  <2>2. CASE a # rd.area \/ ~(Ahead(s) < n)
    <3>1. Transferred(n)[a][s] = mem[a][s]
      BY <1>1, <2>2, TransferType
    <3> QED
      BY <1>2, <3>1
  <2> QED
    BY <2>1, <2>2
<1>7. Transferred(n) \in [Areas -> [0 .. Slots - 1 -> Int]]
  BY <1>1, TransferType
<1> QED
  BY <1>6, <1>7

LEMMA CallWidth ==
    ASSUME WidthInv, NEW for \in Areas \cup {"fat"}, NEW lba \in Width,
           NEW want \in Width, NEW area \in Areas, NEW slot \in 0 .. Slots - 1,
           Call(for, lba, want, area, slot),
           UNCHANGED <<disk, mem, verdict>>, cluster' \in Clusters \cup {0}
    PROVE  WidthInv'
<1>1. /\ rd' = [lba |-> lba, want |-> want, count |-> want, area |-> area,
                slot |-> slot, tries |-> 3]
      /\ step' = "int13" /\ job' = for
  BY DEF Call
<1>2. rd' \in Reads /\ rd'.tries # 0
  BY <1>1 DEF Reads, Width
<1> QED
  BY <1>1, <1>2 DEF WidthInv, Stage0TypeOK, Stage0Steps

LEMMA ClusterWidth ==
    ASSUME OperandsFit, WidthInv, NEW f \in Files, NEW c \in Clusters \cup {0},
           NEW slot \in 0 .. Slots - 1, load_next_cluster(f, c, slot)
    PROVE  WidthInv'
<1>1. /\ cluster' = c /\ Call(f, ClusterLba(c), 1, f, slot)
      /\ UNCHANGED <<disk, mem, verdict>>
  BY DEF load_next_cluster
<1>2. ClusterLba(c) \in Width /\ f \in Areas /\ 1 \in Width
  BY OperandWidths, Sizes DEF OperandsFit, Width
<1> QED
  BY <1>1, <1>2, CallWidth

(* Steps that leave the operands and the memory alone.                     *)
LEMMA WidthKept ==
    ASSUME WidthInv, UNCHANGED <<disk, job, rd, mem, cluster>>,
           step' \in Stage0Steps \ {"int13"},
           verdict' \in {"none", "read_failure", "file_not_found"}
    PROVE  WidthInv'
  BY DEF WidthInv, Stage0TypeOK

LEMMA WidthStep == OperandsFit /\ WidthInv /\ Stage0Next => WidthInv'
<1> SUFFICES ASSUME OperandsFit, WidthInv, Stage0Next PROVE WidthInv'
  OBVIOUS
<1>0. /\ DiskType /\ cluster \in Clusters \cup {0}
      /\ verdict \in {"none", "read_failure", "file_not_found"}
      /\ 0 \in 0 .. Slots - 1 /\ "buffer" \in Areas
  BY WidthIsType, Sizes DEF WidthInv, Stage0TypeOK
<1>1. CASE load_root_dir
  <2>1. PICK bh \in BootBH : Call("buffer", RootLba(bh), RootLength(bh), "buffer", 0)
    BY <1>1 DEF load_root_dir
  <2>2. RootLba(bh) \in Width /\ RootLength(bh) \in Width
    BY OperandWidths
  <2>3. UNCHANGED <<disk, mem, cluster, verdict>>
    BY <1>1 DEF load_root_dir
  <2> QED
    BY <1>0, <2>1, <2>2, <2>3, CallWidth
<1>2. CASE search_kernel \/ search_stage1
  <2>1. /\ UNCHANGED <<disk, job, rd, mem, cluster>>
        /\ step' \in {"search_stage1", "load_fat", "halt"}
        /\ verdict' \in {verdict, "file_not_found"}
    BY <1>2 DEF search_kernel, search_stage1, search_file
  <2> QED
    BY <1>0, <2>1, WidthKept DEF Stage0Steps
<1>3. CASE load_fat
  <2>1. bdb_reserved_sectors \in Width /\ bdb_sectors_per_fat \in Width
    BY Sizes DEF OperandsFit, Width
  <2> QED
    BY <1>0, <1>3, <2>1, CallWidth DEF load_fat
<1>4. ASSUME NEW f \in Files, load_file(f)
      PROVE  WidthInv'
  <2>1. disk.start[f] \in Clusters
    BY <1>0, SMTT(30) DEF DiskType, Disks
  <2> QED
    BY <1>0, <1>4, <2>1, ClusterWidth DEF load_file
<1>5. CASE load_files
  <2>1. "stage1" \in Files
    BY DEF Files
  <2> QED
    BY <1>4, <1>5, <2>1 DEF load_files
<1>6. ASSUME NEW f \in Files, interpret_chain_marker(f)
      PROVE  WidthInv'
  <2>1. PICK m \in Markers :
            IF ~IsLast(m)
            THEN load_next_cluster(f, m, (rd.slot + 1) % Slots)
            ELSE IF f = "stage1"
            THEN load_file("kernel")
            ELSE step' = "jump" /\ UNCHANGED <<disk, job, rd, mem, cluster, verdict>>
    BY <1>6 DEF interpret_chain_marker
  <2>2. CASE ~IsLast(m)
    <3>1. m \in Clusters \cup {0}
      BY <1>0, <2>2, MarkersKnown
    <3>2. rd.slot + 1 \in Int
      BY <1>0, Sizes, SMTT(30) DEF DiskType, Operands
    <3>3. (rd.slot + 1) % Slots \in 0 .. Slots - 1
      <4> DEFINE next == rd.slot + 1
      <4>1. next \in Int
        BY <3>2
      <4> HIDE DEF next
      <4>2. next % Slots \in 0 .. Slots - 1
        BY <4>1, Sizes, Remainder
      <4> QED
        BY <4>2 DEF next
    <3> QED
      BY <2>1, <2>2, <3>1, <3>3, ClusterWidth
  <2>3. CASE IsLast(m) /\ f = "stage1"
    <3>1. "kernel" \in Files /\ load_file("kernel")
      BY <2>1, <2>3 DEF Files
    <3> QED
      BY <1>4, <3>1
  <2>4. CASE IsLast(m) /\ f # "stage1"
    BY <1>0, <2>1, <2>4, WidthKept DEF Stage0Steps
  <2> QED
    BY <2>2, <2>3, <2>4
<1>7. CASE int13_succeeds
  <2>1. /\ step = "int13" /\ BlockAt(lba_to_chs(rd.lba)) + rd.count - 1 \in Blocks
        /\ mem' = Transferred(rd.count) /\ step' = "returned"
        /\ UNCHANGED <<disk, job, rd, cluster, verdict>>
    BY <1>7 DEF int13_succeeds
  <2>2. rd.count \in Nat
    BY <1>0 DEF DiskType, Operands
  <2>3. mem' \in [Areas -> [0 .. Slots - 1 -> Blocks \cup {Unread}]]
    BY <2>1, <2>2, TransferBlocks
  <2> QED
    BY <2>1, <2>3 DEF WidthInv, Stage0TypeOK, Stage0Steps
<1>8. CASE int13_fails
  <2>1. PICK moved \in 0 .. rd.count :
            /\ moved = 0 \/ BlockAt(lba_to_chs(rd.lba)) + moved - 1 \in Blocks
            /\ mem' = Transferred(moved)
            /\ rd' = [rd EXCEPT !.tries = @ - 1,
                                !.count = CountAfterFailure(@, moved)]
    BY <1>8 DEF int13_fails
  <2>2. /\ step = "int13" /\ UNCHANGED <<disk, job, cluster>>
        /\ IF LastTry(rd.tries)
           THEN step' = "halt" /\ verdict' = "read_failure"
           ELSE UNCHANGED <<step, verdict>>
    BY <1>8 DEF int13_fails
  <2>3. rd \in Reads /\ rd.tries # 0 /\ rd.count \in 0 .. BYTE - 1 /\ BYTE \in Nat
    BY <2>2, Sizes DEF WidthInv, Stage0TypeOK, Reads
  <2>4. moved \in Nat /\ moved \in 0 .. BYTE - 1
    BY <2>1, <2>3
  <2>5. CountAfterFailure(rd.count, moved) \in 0 .. BYTE - 1
    BY <2>3, <2>4 DEF CountAfterFailure
  <2>6. rd.tries - 1 \in 0 .. 3 /\ (~LastTry(rd.tries) => rd.tries - 1 # 0)
    BY <2>3 DEF Reads, LastTry
  <2>7. rd' \in Reads /\ rd'.tries = rd.tries - 1
    BY <2>1, <2>3, <2>5, <2>6 DEF Reads
  <2>8. mem' \in [Areas -> [0 .. Slots - 1 -> Blocks \cup {Unread}]]
    BY <2>1, <2>4, TransferBlocks
  <2> QED
    BY <2>2, <2>6, <2>7, <2>8 DEF WidthInv, Stage0TypeOK, Stage0Steps
<1> QED
  BY <1>1, <1>2, <1>3, <1>5, <1>6, <1>7, <1>8 DEF Stage0Next

LEMMA BlankWidth ==
    /\ NoRead \in Reads /\ NoRead.tries = 0
    /\ Blank \in [Areas -> [0 .. Slots - 1 -> Blocks \cup {Unread}]]
    /\ Disks \subseteq [dir : [Files -> RootSectors \cup {Absent}],
                        start : [Files -> Clusters],
                        fat : [Clusters -> Marks \cup {0}]]
<1>1. NoRead \in Reads /\ NoRead.tries = 0
  BY Sizes DEF NoRead, Reads
<1>2. Blank \in [Areas -> [0 .. Slots - 1 -> Blocks \cup {Unread}]]
  BY DEF Blank
<1>3. Disks \subseteq [dir : [Files -> RootSectors \cup {Absent}],
                       start : [Files -> Clusters],
                       fat : [Clusters -> Marks \cup {0}]]
  BY Zenon DEF Disks
<1> QED
  BY <1>1, <1>2, <1>3

(* For every geometry, disk and sequence of failing reads: each operand of *)
(* disk_read stays in its register, the counter of tries never passes zero *)
(* (disk_read's dec di), and memory holds blocks of the disk only.         *)
THEOREM Stage0Types ==
    ASSUME OperandsFit
    PROVE  BootSpec => []Stage0TypeOK
<1>1. BootInit => WidthInv
  <2> SUFFICES ASSUME Stage0Init PROVE WidthInv
    BY DEF BootInit
  <2>1. /\ disk \in Disks /\ step = "load_root_dir" /\ job = "buffer"
        /\ cluster = 0 /\ verdict = "none"
    BY DEF Stage0Init
  <2>2. rd = NoRead /\ mem = Blank
    BY Zenon DEF Stage0Init, NoRead, Blank
  <2> QED
    BY <2>1, <2>2, BlankWidth, Sizes DEF WidthInv, Stage0TypeOK, Stage0Steps
<1>2. WidthInv /\ [BootNext]_bootVars => WidthInv'
  <2> SUFFICES ASSUME WidthInv, [BootNext]_bootVars PROVE WidthInv'
    OBVIOUS
  <2>1. CASE Stage0Next
    BY <2>1, WidthStep
  <2>2. CASE leave_stage0
    <3>1. /\ step' = "load_root_dir" /\ job' = "buffer" /\ cluster' = 0
          /\ disk' = AnyDisk /\ verdict' = verdict
      BY <2>2 DEF leave_stage0
    <3>2. rd' = NoRead /\ mem' = Blank
      BY <2>2, Zenon DEF leave_stage0, NoRead, Blank
    <3>3. AnyDisk \in Disks
      BY DEF AnyDisk, WidthInv
    <3>4. verdict \in {"none", "read_failure", "file_not_found"}
      BY DEF WidthInv, Stage0TypeOK
    <3> QED
      BY <3>1, <3>2, <3>3, <3>4, BlankWidth, Sizes DEF WidthInv, Stage0TypeOK, Stage0Steps
  <2>3. CASE UNCHANGED stage0Vars
    BY <2>3 DEF stage0Vars, WidthInv, Stage0TypeOK
  <2> QED
    BY <2>1, <2>2, <2>3 DEF BootNext, enter_stage1, bootVars
<1>3. WidthInv => Stage0TypeOK
  BY DEF WidthInv
<1> QED
  BY <1>1, <1>2, <1>3, PTL DEF BootSpec

-----------------------------------------------------------------------------
(* The files.                                                              *)

(* The FAT has the entry of every cluster, and a byte holds the block of   *)
(* every cluster.                                                          *)
FatCovers ==
    \A c \in Clusters :
        (MarkerOffset(c) + 1) \div bdb_bytes_per_sector < bdb_sectors_per_fat
ClustersInByte == \A c \in Clusters : ClusterLba(c) = ClusterBlock(c)

FatRead ==
    /\ bdb_sectors_per_fat =< Slots
    /\ \A s \in 0 .. bdb_sectors_per_fat - 1 :
          mem["buffer"][s] = bdb_reserved_sectors + s

(* The first n clusters of a file are in its segment, in order.            *)
Loaded(f, n) ==
    \A i \in 1 .. n : mem[f][i - 1] = ClusterBlock(Chains(disk)[f][i])

WholeFile(f) == Loaded(f, Len(Chains(disk)[f]))

(* disk_read is at work for load_file: what came before is in its place.   *)
LoadsCluster(f) ==
    LET chain == Chains(disk)[f]
    IN  /\ rd.area = f /\ rd.want = 1
        /\ rd.slot + 1 \in 1 .. Len(chain)
        /\ cluster = chain[rd.slot + 1] /\ rd.lba = ClusterLba(cluster)
        /\ Loaded(f, rd.slot)
        /\ FatRead
        /\ f = "kernel" => WholeFile("stage1")

LoadInv ==
    /\ step \in {"int13", "returned"} /\ job = "fat" =>
          /\ rd.lba = bdb_reserved_sectors /\ rd.want = bdb_sectors_per_fat
          /\ rd.area = "buffer" /\ rd.slot = 0
    /\ step = "returned" => rd.want =< Slots
    /\ \A f \in Files : step \in {"int13", "returned"} /\ job = f => LoadsCluster(f)
    /\ step = "jump" => \A f \in Files : WholeFile(f)

(* With the FAT in the buffer, exactly the entry of the cluster is found.  *)
LEMMA MarkerFound ==
    ASSUME DiskType, FatCovers, FatRead,
           cluster \in Clusters, NEW m \in Markers
    PROVE  m = disk.fat[cluster]
<1> DEFINE at == MarkerOffset(cluster)
           sector(i) == i \div bdb_bytes_per_sector
<1>1. /\ bdb_bytes_per_sector \in Nat \ {0} /\ bdb_sectors_per_fat \in Nat
      /\ Clusters \subseteq 2..4079 /\ Slots \in Nat
  BY Sizes, FloppyAssumption
<1>2. at \in Nat
  BY <1>1 DEF MarkerOffset
<1>3. sector(at + 1) < bdb_sectors_per_fat
  BY DEF FatCovers
<1>4. sector(at) \in Nat /\ sector(at + 1) \in Nat /\ sector(at) =< sector(at + 1)
  <2> HIDE DEF at
  <2> QED
    BY <1>1, <1>2
<1>5. InBuffer(at) /\ InBuffer(at + 1)
  BY <1>1, <1>3, <1>4 DEF InBuffer, FatRead
<1>6. m = Looked(Entry, cluster)
  BY <1>5 DEF Markers, Looked
<1>7. /\ cluster \in Nat /\ cluster \in FatEntries
      /\ 2 * (cluster \div 2) \in FatEntries
      /\ 2 * (cluster \div 2) + 1 \in FatEntries
  BY Neighbours, Zenon
<1>8. Entry \in [FatEntries -> FatEntries]
  <2>1. disk.fat \in [Clusters -> Marks \cup {0}]
    BY SMTT(30) DEF DiskType, Disks
  <2>2. Marks \cup {0} \subseteq FatEntries
    BY <1>1 DEF Marks, FatEntries
  <2>3. disk.fat \in [Clusters -> FatEntries] /\ 0 \in FatEntries
    BY <2>1, <2>2
  <2>4. Entry = TableOf(disk.fat, FatEntries)
    BY Zenon DEF Entry, TableOf
  <2> QED
    BY <2>3, <2>4, TableType
<1>9. m = Entry[cluster]
  BY <1>6, <1>7, <1>8, MarkerIsEntry
<1> QED
  BY <1>7, <1>9 DEF Entry

(* One call for a cluster disturbs no cluster that was loaded before.      *)
LEMMA TransferKeepsFiles ==
    ASSUME DiskType, NEW f \in Files, LoadsCluster(f), NEW n \in 0 .. 1,
           mem' = Transferred(n), UNCHANGED <<disk, cluster>>,
           UNCHANGED <<rd.lba, rd.want, rd.area, rd.slot>>
    PROVE  LoadsCluster(f)'
<1> DEFINE chain == Chains(disk)[f]
<1>1. /\ rd.area = f /\ rd.slot \in 0 .. Slots - 1 /\ f \in Areas /\ f # "buffer"
      /\ Slots \in Nat \ {0} /\ n \in Nat
  <2>1. rd.area = f
    BY DEF LoadsCluster
  <2>2. rd.slot \in 0 .. Slots - 1
    BY DEF DiskType, Operands
  <2>3. f \in Areas /\ f # "buffer"
    BY Sizes DEF Files
  <2> QED
    BY <2>1, <2>2, <2>3, Sizes
<1>2. \A a \in Areas : \A s \in 0 .. Slots - 1 :
          a # f \/ ~(Ahead(s) < n) => mem'[a][s] = mem[a][s]
  BY <1>1, TransferType
<1>3. ASSUME NEW s \in 0 .. rd.slot - 1
      PROVE  s \in 0 .. Slots - 1 /\ ~(Ahead(s) < n)
  <2>1. s \in 0 .. Slots - 1 /\ s - rd.slot \in (1 - Slots) .. -1
    BY <1>1
  <2>2. \A x \in (1 - Slots) .. -1 : x % Slots = x + Slots
    BY <1>1
  <2>3. Ahead(s) = (s - rd.slot) + Slots
    BY <2>1, <2>2 DEF Ahead
  <2> QED
    BY <1>1, <2>1, <2>3
<1>4. Loaded(f, rd.slot)'
  <2>1. \A i \in 1 .. rd.slot : mem'[f][i - 1] = mem[f][i - 1]
    BY <1>1, <1>2, <1>3
  <2>2. \A i \in 1 .. rd.slot : mem[f][i - 1] = ClusterBlock(Chains(disk)[f][i])
    BY DEF LoadsCluster, Loaded
  <2>3. Loaded(f, rd.slot)' <=>
            \A i \in 1 .. rd.slot : mem'[f][i - 1] = ClusterBlock(Chains(disk)[f][i])
    BY DEF Loaded
  <2> QED
    BY <2>1, <2>2, <2>3
<1>5. FatRead'
  <2>1. \A s \in 0 .. Slots - 1 : mem'["buffer"][s] = mem["buffer"][s]
    BY <1>1, <1>2, Sizes
  <2>2. FatRead
    BY DEF LoadsCluster
  <2>3. \A s \in 0 .. bdb_sectors_per_fat - 1 : s \in 0 .. Slots - 1
    BY <2>2, Sizes DEF FatRead
  <2> QED
    BY <2>1, <2>2, <2>3 DEF FatRead
<1>6. ASSUME f = "kernel"
      PROVE  WholeFile("stage1")'
  <2> DEFINE first == Chains(disk)["stage1"]
  <2>1. Len(first) \in 1 .. Slots /\ "stage1" \in Areas /\ "stage1" # f
    BY <1>6, ChainOfFile DEF DiskType, Files, Areas
  <2>2. \A i \in 1 .. Len(first) : mem'["stage1"][i - 1] = mem["stage1"][i - 1]
    <3> HIDE DEF first
    <3> QED
      BY <1>1, <1>2, <2>1
  <2>3. \A i \in 1 .. Len(first) : mem["stage1"][i - 1] = ClusterBlock(first[i])
    BY <1>6 DEF LoadsCluster, WholeFile, Loaded
  <2>4. WholeFile("stage1")' <=>
            \A i \in 1 .. Len(first) : mem'["stage1"][i - 1] = ClusterBlock(first[i])
    BY DEF WholeFile, Loaded
  <2> HIDE DEF first
  <2> QED
    BY <2>2, <2>3, <2>4
<1> QED
  BY <1>4, <1>5, <1>6 DEF LoadsCluster

(* The sector is in: the file is loaded one cluster further.               *)
LEMMA ClusterIsIn ==
    ASSUME ReadInv, ClustersInByte, NEW f \in Files, Returned(f), LoadsCluster(f)
    PROVE  Loaded(f, rd.slot + 1)
<1> DEFINE chain == Chains(disk)[f]
<1>1. /\ rd.slot \in 0 .. Slots - 1 /\ Slots \in Nat \ {0}
      /\ rd.area = f /\ Holds(f, rd.slot, rd.lba, 1) /\ rd.lba \in Nat
  BY Sizes DEF ReadInv, DiskType, Operands, LoadsCluster, Returned
<1>2. (rd.slot + 0) % Slots = rd.slot
  BY <1>1, Modulo
<1>3. mem[f][rd.slot] = rd.lba
  BY <1>1, <1>2 DEF Holds
<1>4. rd.slot + 1 \in 1 .. Len(chain) /\ rd.lba = ClusterLba(chain[rd.slot + 1])
  BY DEF LoadsCluster
<1>5. chain[rd.slot + 1] \in Clusters
  BY <1>4, ChainOfFile DEF ReadInv, DiskType
<1>6. mem[f][rd.slot] = ClusterBlock(chain[rd.slot + 1])
  BY <1>3, <1>4, <1>5 DEF ClustersInByte
<1>7. \A i \in 1 .. rd.slot : mem[f][i - 1] = ClusterBlock(chain[i])
  BY DEF LoadsCluster, Loaded
<1>8. \A i \in 1 .. rd.slot + 1 : mem[f][i - 1] = ClusterBlock(chain[i])
  <2> HIDE DEF chain
  <2> QED
    BY <1>1, <1>6, <1>7
<1> QED
  BY <1>8 DEF Loaded

(* A call for the next cluster of the chain, which slot counts.            *)
LEMMA NextClusterLoads ==
    ASSUME ReadInv, NEW f \in Files, NEW slot \in 0 .. Slots - 1,
           slot + 1 \in 1 .. Len(Chains(disk)[f]),
           load_next_cluster(f, Chains(disk)[f][slot + 1], slot),
           Loaded(f, slot), FatRead, f = "kernel" => WholeFile("stage1")
    PROVE  LoadInv'
<1>1. /\ rd' = [lba |-> ClusterLba(cluster'), want |-> 1, count |-> 1,
                area |-> f, slot |-> slot, tries |-> 3]
      /\ cluster' = Chains(disk)[f][slot + 1]
      /\ step' = "int13" /\ job' = f /\ UNCHANGED <<disk, mem>>
  BY DEF load_next_cluster, Call
<1>2. /\ rd'.lba = ClusterLba(cluster') /\ rd'.want = 1 /\ rd'.area = f
      /\ rd'.slot = slot
  BY <1>1
<1>3. Loaded(f, slot)' /\ FatRead' /\ (f = "kernel" => WholeFile("stage1")')
  BY <1>1 DEF Loaded, FatRead, WholeFile
<1>4. Loaded(f, rd.slot)'
  BY <1>2, <1>3 DEF Loaded
<1>5. LoadsCluster(f)'
  BY <1>1, <1>2, <1>3, <1>4 DEF LoadsCluster
<1>6. f # "fat"
  BY DEF Files
<1> QED
  BY <1>1, <1>5, <1>6 DEF LoadInv

(* Steps that neither call disk_read nor return from it.                   *)
LEMMA LoadElsewhere ==
    ASSUME step' \notin {"int13", "returned", "jump"}
    PROVE  LoadInv'
  BY DEF LoadInv

LEMMA NothingLoaded == ASSUME NEW f PROVE Loaded(f, 0)
  BY DEF Loaded

(* load_file starts with the first cluster of the chain, in slot 0.        *)
LEMMA FileStarts ==
    ASSUME ReadInv, NEW f \in Files, load_file(f), FatRead,
           f = "kernel" => WholeFile("stage1")
    PROVE  LoadInv'
<1>1. /\ Len(Chains(disk)[f]) \in 1 .. Slots
      /\ Chains(disk)[f][1] = disk.start[f]
  BY ChainOfFile DEF ReadInv, DiskType
<1>2. /\ 0 \in 0 .. Slots - 1 /\ 0 + 1 = 1
      /\ 0 + 1 \in 1 .. Len(Chains(disk)[f])
  BY <1>1, Sizes
<1>3. load_next_cluster(f, Chains(disk)[f][0 + 1], 0)
  BY <1>1, <1>2 DEF load_file
<1> QED
  BY <1>2, <1>3, NothingLoaded, NextClusterLoads

(* The end of the loop: on to the next cluster, to the kernel or the jump. *)
LEMMA ChainFollowed ==
    ASSUME FatCovers, ClustersInByte, ReadInv, LoadInv,
           NEW f \in Files, interpret_chain_marker(f)
    PROVE  LoadInv'
<1> DEFINE chain == Chains(disk)[f]
           k == rd.slot + 1
<1>1. PICK m \in Markers :
          IF ~IsLast(m)
          THEN load_next_cluster(f, m, (rd.slot + 1) % Slots)
          ELSE IF f = "stage1"
          THEN load_file("kernel")
          ELSE step' = "jump" /\ UNCHANGED <<disk, job, rd, mem, cluster, verdict>>
  BY DEF interpret_chain_marker
<1>2. Returned(f) /\ LoadsCluster(f) /\ DiskType
  BY DEF interpret_chain_marker, Returned, LoadInv, ReadInv
<1>3. /\ k \in 1 .. Len(chain) /\ cluster = chain[k] /\ FatRead
      /\ f = "kernel" => WholeFile("stage1")
  BY <1>2 DEF LoadsCluster
<1>4. /\ Len(chain) \in 1 .. Slots
      /\ \A i \in 1 .. Len(chain) : chain[i] \in Clusters
      /\ \A i \in 1 .. Len(chain) - 1 : disk.fat[chain[i]] = chain[i + 1]
      /\ disk.fat[chain[Len(chain)]] \in EndOfChain
  BY <1>2, ChainOfFile DEF DiskType
<1>5. Loaded(f, k)
  BY <1>2, ClusterIsIn
<1>6. rd.slot \in 0 .. Slots - 1 /\ Slots \in Nat \ {0} /\ Clusters \subseteq 2..4079
  BY <1>2, Sizes DEF DiskType, Operands
<1> HIDE DEF chain
<1>7. m = disk.fat[chain[k]]
  BY <1>2, <1>3, <1>4, MarkerFound
<1>8. CASE k < Len(chain)
  <2>0. k \in 1 .. Len(chain) - 1 /\ k \in 0 .. Slots - 1 /\ k + 1 \in 1 .. Len(chain)
    <3> DEFINE last == Len(chain)
    <3>1. last \in 1 .. Slots /\ k \in 1 .. last /\ k < last
      BY <1>3, <1>4, <1>8
    <3> HIDE DEF last, k
    <3>2. k \in 1 .. last - 1 /\ k \in 0 .. Slots - 1 /\ k + 1 \in 1 .. last
      BY <1>6, <3>1
    <3> QED
      BY <3>2 DEF last
  <2>1. m = chain[k + 1] /\ m \in Clusters
    <3> HIDE DEF k
    <3> QED
      BY <1>4, <1>7, <2>0
  <2>2. ~IsLast(m)
    <3>1. \A c \in Clusters : ~(c >= 4088)
      BY Sizes
    <3> QED
      BY <2>1, <3>1 DEF IsLast
  <2>3. k % Slots = k /\ k \in 0 .. Slots - 1
    <3> HIDE DEF k
    <3> QED
      BY <1>6, <2>0, SMTT(30)
  <2>4. load_next_cluster(f, Chains(disk)[f][k + 1], k)
    BY <1>1, <2>1, <2>2, <2>3 DEF chain
  <2>5. k + 1 \in 1 .. Len(Chains(disk)[f])
    <3> HIDE DEF k
    <3> QED
      BY <2>0, Zenon DEF chain
  <2> HIDE DEF k
  <2> QED
    BY <1>3, <1>5, <2>3, <2>4, <2>5, NextClusterLoads
<1>9. CASE ~(k < Len(chain))
  <2>1. k = Len(chain)
    BY <1>3, <1>4, <1>6, <1>9
  <2>2. m \in EndOfChain
    BY <1>4, <1>7, <2>1
  <2>3. IsLast(m)
    BY <2>2 DEF IsLast, EndOfChain
  <2>4. WholeFile(f)
    BY <1>5, <2>1 DEF WholeFile, chain
  <2>5. CASE f = "stage1"
    <3>1. load_file("kernel") /\ "kernel" \in Files
      BY <1>1, <2>3, <2>5 DEF Files
    <3> QED
      BY <1>3, <2>4, <2>5, <3>1, FileStarts
  <2>6. CASE f # "stage1"
    <3>1. f = "kernel"
      BY <2>6 DEF Files
    <3>2. step' = "jump" /\ UNCHANGED <<disk, mem>>
      BY <1>1, <2>3, <2>6
    <3>3. \A g \in Files : WholeFile(g)
      BY <1>3, <2>4, <3>1 DEF Files
    <3>4. \A g \in Files : WholeFile(g)'
      BY <3>2, <3>3 DEF WholeFile, Loaded
    <3> QED
      BY <3>2, <3>4 DEF LoadInv
  <2> QED
    BY <2>5, <2>6
<1> QED
  BY <1>8, <1>9

LEMMA LoadStep ==
    ASSUME KeepsCount = TRUE, FatCovers, ClustersInByte, ReadInv, LoadInv, Stage0Next
    PROVE  LoadInv'
<1>1. CASE load_root_dir
  <2>1. step' = "int13" /\ job' = "buffer"
    BY <1>1 DEF load_root_dir, Call
  <2> QED
    BY <2>1 DEF LoadInv, Files
<1>2. CASE search_kernel \/ search_stage1
  <2>1. step' \in {"search_stage1", "load_fat", "halt"}
    BY <1>2 DEF search_kernel, search_stage1, search_file
  <2> QED
    BY <2>1, LoadElsewhere
<1>3. CASE load_fat
  <2>1. /\ step' = "int13" /\ job' = "fat" /\ rd'.lba = bdb_reserved_sectors
        /\ rd'.want = bdb_sectors_per_fat /\ rd'.area = "buffer" /\ rd'.slot = 0
    BY <1>3 DEF load_fat, Call
  <2> QED
    BY <2>1 DEF LoadInv, Files
<1>4. CASE load_files
  <2>1. /\ rd.lba = bdb_reserved_sectors /\ rd.want = bdb_sectors_per_fat
        /\ rd.want =< Slots /\ Holds("buffer", 0, bdb_reserved_sectors, rd.want)
    BY <1>4 DEF load_files, Returned, LoadInv, ReadInv
  <2>2. FatRead
    <3>1. \A s \in 0 .. bdb_sectors_per_fat - 1 : (0 + s) % Slots = s
      BY <2>1, Sizes, Modulo
    <3> QED
      BY <2>1, <3>1 DEF Holds, FatRead
  <2>3. load_file("stage1") /\ "stage1" \in Files
    BY <1>4 DEF load_files, Files
  <2> QED
    BY <2>2, <2>3, FileStarts
<1>5. ASSUME NEW f \in Files, interpret_chain_marker(f)
      PROVE  LoadInv'
  BY <1>5, ChainFollowed
<1>6. ASSUME NEW n \in Nat, step = "int13", n =< rd.count, mem' = Transferred(n),
             step' \in {"int13", "returned", "halt"},
             UNCHANGED <<disk, job, cluster, rd.lba, rd.want, rd.area, rd.slot>>,
             step' = "returned" => rd.want =< Slots
      PROVE  LoadInv'
  <2>1. ASSUME NEW f \in Files, job = f
        PROVE  LoadsCluster(f)'
    <3>1. LoadsCluster(f) /\ DiskType /\ n \in 0 .. 1
      BY <1>6, <2>1 DEF LoadInv, LoadsCluster, ReadInv
    <3> QED
      BY <1>6, <3>1, TransferKeepsFiles
  <2> QED
    BY <1>6, <2>1 DEF LoadInv
<1>7. CASE int13_succeeds
  <2>1. /\ step = "int13" /\ rd.count =< Slots /\ mem' = Transferred(rd.count)
        /\ step' = "returned" /\ UNCHANGED <<disk, job, rd, cluster>>
    BY <1>7 DEF int13_succeeds
  <2>2. rd.count \in Nat /\ rd.count = rd.want
    BY <2>1 DEF ReadInv, DiskType, Operands
  <2> QED
    BY <1>6, <2>1, <2>2
<1>8. CASE int13_fails
  <2>1. PICK moved \in 0 .. rd.count :
            /\ mem' = Transferred(moved)
            /\ rd' = [rd EXCEPT !.tries = @ - 1,
                                !.count = CountAfterFailure(@, moved)]
    BY <1>8 DEF int13_fails
  <2>2. /\ step = "int13" /\ step' \in {"int13", "halt"}
        /\ UNCHANGED <<disk, job, cluster>>
    BY <1>8 DEF int13_fails
  <2>3. rd \in Operands
    BY DEF ReadInv, DiskType
  <2>4. UNCHANGED <<rd.lba, rd.want, rd.area, rd.slot>>
        /\ moved \in Nat /\ moved =< rd.count
    BY <2>1, <2>3 DEF Operands
  <2> QED
    BY <1>6, <2>1, <2>2, <2>4
<1> QED
  BY <1>1, <1>2, <1>3, <1>4, <1>5, <1>7, <1>8 DEF Stage0Next

(* On every disk a formatting tool makes, whose FAT is long enough and     *)
(* whose blocks a byte can number: when the second stage is entered, both  *)
(* files are in their segments, cluster by cluster in the order of their   *)
(* chains (stage0.asm: load_file; utils.asm: the chain markers).           *)
THEOREM FilesAreLoaded ==
    ASSUME KeepsCount = TRUE, FatCovers, ClustersInByte
    PROVE  BootSpec => []JumpsToFiles
<1>1. BootInit => LoadInv
  BY LoadElsewhere DEF BootInit, Stage0Init, LoadInv
<1>2. ReadInv /\ LoadInv /\ [BootNext]_bootVars => LoadInv'
  <2> SUFFICES ASSUME ReadInv, LoadInv, [BootNext]_bootVars PROVE LoadInv'
    OBVIOUS
  <2>1. CASE Stage0Next
    BY <2>1, LoadStep
  <2>2. CASE leave_stage0
    BY <2>2, LeaveStage0, LoadElsewhere
  <2>3. CASE UNCHANGED stage0Vars
    BY <2>3 DEF stage0Vars, LoadInv, LoadsCluster, Loaded, WholeFile, FatRead
  <2> QED
    BY <2>1, <2>2, <2>3 DEF BootNext, enter_stage1, bootVars
<1>3. ReadInv /\ LoadInv => JumpsToFiles
  <2> SUFFICES ASSUME ReadInv, LoadInv, step = "jump",
                      NEW f \in Files, NEW i \in DOMAIN Chains(disk)[f]
               PROVE  mem[f][i - 1] = ClusterBlock(Chains(disk)[f][i])
    BY DEF JumpsToFiles
  <2>1. WholeFile(f)
    BY DEF LoadInv
  <2>2. i \in 1 .. Len(Chains(disk)[f])
    <3>1. disk.start[f] \in Clusters
      BY SMTT(30) DEF ReadInv, DiskType, Disks
    <3>2. Chains(disk)[f] \in Seq(Clusters)
      BY <3>1, ChainLinked DEF Chains, Linked
    <3> QED
      BY <3>2
  <2> QED
    BY <2>1, <2>2 DEF WholeFile, Loaded
<1> QED
  BY <1>1, <1>2, <1>3, ReadInvariance, PTL DEF BootSpec

(* What was assumed of the disk holds on the floppy of the source as long  *)
(* as the files lie in its first 224 clusters: the block of a later one    *)
(* does not fit in the 8 bits of disk_read's operand.                      *)
THEOREM FirstClustersReached ==
    ASSUME BYTE = 256, bdb_bytes_per_sector = 512, bdb_reserved_sectors = 1,
           bdb_fat_count = 2, bdb_sectors_per_fat = 9, RootBytes = 7168,
           ClusterOffset = 31, Clusters \subseteq 2..224
    PROVE  FatCovers /\ ClustersInByte
<1>1. FirstDataBlock = 33
  BY DEF FirstDataBlock
<1>2. ASSUME NEW c \in Clusters
      PROVE  ClusterLba(c) = ClusterBlock(c)
  <2>1. c \in Nat /\ c + 31 < 256
    OBVIOUS
  <2>2. (c + 31) % 256 = c + 31
    BY <2>1
  <2> QED
    BY <1>1, <2>1, <2>2 DEF ClusterLba, ClusterBlock
<1>3. ASSUME NEW c \in Clusters
      PROVE  (MarkerOffset(c) + 1) \div bdb_bytes_per_sector < bdb_sectors_per_fat
  <2>1. c \in Nat /\ c =< 224
    OBVIOUS
  <2>2. (c * 3) \div 2 \in 0 .. 336
    BY <2>1
  <2>3. MarkerOffset(c) \in 0 .. 336
    BY <2>2 DEF MarkerOffset
  <2>4. (MarkerOffset(c) + 1) \div 512 = 0
    BY <2>3
  <2> QED
    BY <2>4
<1> QED
  BY <1>2, <1>3 DEF FatCovers, ClustersInByte

-----------------------------------------------------------------------------
(* The second stage, started by the first.                                 *)

(* Until it runs, it is as its own initial states say.                     *)
Unstarted ==
    /\ pc = "get_memory_map" /\ cx = 0 /\ count = 0 /\ stored = <<>>
    /\ refused = FALSE /\ ecx = 0 /\ paging = FALSE /\ message = "none"
    /\ screen = [i \in Lines |-> "BIOS"] /\ line = 0 /\ rax = 0

StartInv == stage # "stage1" => Unstarted

(* Entering it, it finds a machine that one of its initial states has.     *)
LEMMA EnterInit == StartInv /\ enter_stage1 => Init'
<1> SUFFICES ASSUME StartInv, enter_stage1 PROVE Init'
  OBVIOUS
<1>1. Unstarted /\ UNCHANGED <<pc, cx, stored, count, refused, ecx, paging, message,
                           screenVars>>
  BY DEF StartInv, enter_stage1
<1>2. ebx' \in FirstEbx
  BY DEF enter_stage1
<1>3. /\ cpu' \in [cpuid : BOOLEAN, extended : BOOLEAN, long : BOOLEAN]
      /\ (cpu'.long => cpu'.extended) /\ (cpu'.extended => cpu'.cpuid)
  BY DEF enter_stage1
<1>4. /\ bios' \in [regions : 0..MaxRegions, carry : BOOLEAN]
      /\ cells' \in [Cells -> Bytes]
      /\ \E j \in Junk : tables' = [p \in Places |-> j]
  BY DEF enter_stage1
<1>5. a20' \in BOOLEAN /\ gate' \in BOOLEAN
  BY DEF enter_stage1
<1>6. /\ pc' = "get_memory_map" /\ cx' = 0 /\ count' = 0 /\ stored' = <<>>
      /\ refused' = FALSE /\ ecx' = 0 /\ paging' = FALSE /\ message' = "none"
      /\ screen' = [i \in Lines |-> "BIOS"] /\ line' = 0 /\ rax' = 0
  BY <1>1, Zenon DEF Unstarted, screenVars
<1> QED
  BY <1>2, <1>3, <1>4, <1>5, <1>6, Zenon DEF Init

(* What the second stage keeps.                                            *)
RunInv == Stage1Inv /\ ScreenInv

LEMMA RunStep == RunInv /\ [Next]_vars => RunInv'
  BY NextType, TablesStep, MachineStep, ScreenStep DEF RunInv, Stage1Inv

LEMMA RunInit == Init => RunInv
<1>1. Init => TablesInv /\ MachineInv /\ HaltsForReason
  BY DEF Init, TablesInv, MachineInv, HaltsForReason, InA20, InChecks
<1>2. Init => ScreenInv
  BY DEF Init, ScreenInv, EarlySteps
<1> QED
  BY <1>1, <1>2, InitType DEF RunInv, Stage1Inv

LEMMA RunInvariance == BootSpec => [](RunInv /\ StartInv)
<1>1. Init' => RunInv'
  BY RunInit, PTL
<1>2. BootInit => RunInv /\ StartInv
  BY RunInit DEF BootInit, Init, StartInv, Unstarted
<1>3. RunInv /\ StartInv /\ [BootNext]_bootVars => RunInv' /\ StartInv'
  <2> SUFFICES ASSUME RunInv, StartInv, [BootNext]_bootVars
               PROVE  RunInv' /\ StartInv'
    OBVIOUS
  <2>1. ASSUME UNCHANGED vars
        PROVE  RunInv' /\ (stage # "stage1" => Unstarted')
    <3>1. RunInv'
      BY <2>1, RunStep
    <3> QED
      BY <2>1, <3>1, Zenon
         DEF StartInv, Unstarted, vars, mapVars, a20Vars, tableVars, machine, screenVars
  <2>2. CASE stage = "stage0" /\ Stage0Next /\ UNCHANGED <<vars, stage>>
    BY <2>1, <2>2 DEF StartInv
  <2>3. CASE leave_stage0
    BY <2>1, <2>3 DEF leave_stage0, StartInv
  <2>4. CASE enter_stage1
    BY <1>1, <2>4, EnterInit DEF enter_stage1, StartInv
  <2>5. CASE stage = "stage1" /\ Next /\ UNCHANGED <<stage0Vars, stage>>
    BY <2>5, RunStep DEF StartInv
  <2>6. CASE UNCHANGED bootVars
    BY <2>1, <2>6 DEF bootVars, StartInv
  <2> QED
    BY <2>2, <2>3, <2>4, <2>5, <2>6 DEF BootNext
<1> QED
  BY <1>2, <1>3, PTL DEF BootSpec

(* The kernel is entered only on a machine that can run it; a boot halts   *)
(* for the reason it gives; from the moment paging is on exactly the first *)
(* table's range is mapped, each page to itself; and what was printed      *)
(* stands.  So in the whole boot, not only in a second stage that starts   *)
(* alone.                                                                  *)
THEOREM BootEntersKernel ==
    BootSpec => [](KernelCanRun /\ HaltsForReason /\ IdentityMapped /\ MessagesStand)
<1>1. RunInv => KernelCanRun /\ HaltsForReason /\ IdentityMapped
  BY BuiltIsIdentity
     DEF RunInv, Stage1Inv, TablesInv, MachineInv, InA20, InChecks, KernelCanRun,
         IdentityMapped
<1>2. RunInv => MessagesStand
  BY ScreenStands DEF RunInv, Stage1Inv
<1> QED
  BY <1>1, <1>2, RunInvariance, PTL

(* Every variable of the second stage keeps its type in the whole boot.    *)
THEOREM BootTypes == BootSpec => []TypeOK
<1>1. RunInv => TypeOK
  BY DEF RunInv, Stage1Inv
<1> QED
  BY <1>1, RunInvariance, PTL

(* The memory map the kernel is left with is the whole one, in the order   *)
(* of the BIOS, if the high word of EBX is clear when get_memory_map is    *)
(* reached and the BIOS refuses none of its own values.                    *)
THEOREM BootWholeMap ==
    ASSUME EbxHigh = {0}
    PROVE  BootSpec => []MapComplete
<1>1. Init' => MapInv'
  BY MapInit, PTL
<1>2. BootInit => MapInv
  BY MapInit DEF BootInit
<1>3. RunInv /\ StartInv /\ MapInv /\ [BootNext]_bootVars => MapInv'
  <2> SUFFICES ASSUME RunInv, StartInv, MapInv, [BootNext]_bootVars PROVE MapInv'
    OBVIOUS
  <2>1. TypeOK
    BY DEF RunInv, Stage1Inv
  <2>2. CASE [Next]_vars
    BY <2>1, <2>2, MapStep
  <2>3. CASE enter_stage1
    BY <1>1, <2>3, EnterInit
  <2>4. CASE ~[Next]_vars /\ ~enter_stage1
    BY <2>4 DEF BootNext, bootVars, leave_stage0
  <2> QED
    BY <2>2, <2>3, <2>4
<1>4. RunInv /\ MapInv => MapComplete
  BY MapWhole DEF RunInv, Stage1Inv
<1> QED
  BY <1>2, <1>3, <1>4, RunInvariance, PTL DEF BootSpec

(* The test of the A20 line puts both bytes back, in an order that is      *)
(* right also when they are one cell.                                      *)
LEMMA TestRestores ==
    ASSUME cells \in [Cells -> 0..255], a20 \in BOOLEAN
    PROVE  Restored(Tested(cells), cells["low"], cells[Cell("high")]) = cells
<1>1. CASE a20
  BY <1>1 DEF Restored, Tested, Stored, Cell, Cells
<1>2. CASE ~a20
  BY <1>2 DEF Restored, Tested, Stored, Cell, Cells
<1> QED
  BY <1>1, <1>2

(* The two tests of the A20 line (check_a20) leave memory as the second    *)
(* stage found it, whatever it held and whether or not the line is open.   *)
THEOREM MemoryIsRestored == BootSpec => TestRestoresMemory
<1>1. RunInv /\ [BootNext]_bootVars => (stage = "stage1" => cells' = cells)
  <2> SUFFICES ASSUME RunInv, [BootNext]_bootVars, stage = "stage1"
               PROVE  cells' = cells
    OBVIOUS
  <2>1. CASE Next
    <3>1. cells \in [Cells -> 0..255] /\ a20 \in BOOLEAN
      BY DEF RunInv, Stage1Inv, TypeOK
    <3>2. CASE ensure_a20
      <4>1. cells' = Restored(Tested(cells), cells["low"], cells[Cell("high")])
        BY <3>2 DEF ensure_a20, check_a20
      <4> QED
        BY <3>1, <4>1, TestRestores
    <3>3. CASE ~ensure_a20
      BY <2>1, <3>3 DEF Next, e820_region, e820_done, enable_a20_fast,
         start_protected_mode, check_CPUID, check_extended_functions,
         check_long_mode_support, check, set_up_paging, fill_l2_table,
         enable_paging, start_long_mode, kernel_image, kernel_entry, a20Vars
    <3> QED
      BY <3>2, <3>3
  <2>2. CASE UNCHANGED bootVars
    BY <2>2 DEF bootVars, vars, a20Vars
  <2> QED
    BY <2>1, <2>2 DEF BootNext, leave_stage0, enter_stage1
<1> QED
  BY <1>1, RunInvariance, PTL DEF BootSpec, TestRestoresMemory
=============================================================================
