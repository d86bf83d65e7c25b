-------------------------------- MODULE Fat12 --------------------------------
(***************************************************************************)
(* The arithmetic of the first boot stage (boot/x86/stage0): where the     *)
(* root directory lies, how a block becomes a cylinder, head and sector,   *)
(* and how a 12-bit entry is taken out of the FAT.  Registers keep their   *)
(* width: BYTE is the number of values of an 8-bit one, so that a small    *)
(* disk can reach it.  The bytes of the FAT are always real bytes.         *)
(***************************************************************************)
EXTENDS Integers

CONSTANTS
    BYTE,                       \* 256 in the source
    bdb_bytes_per_sector,       \* 512
    bdb_reserved_sectors,       \* 1
    bdb_fat_count,              \* 2
    bdb_sectors_per_fat,        \* 9
    bdb_sectors_per_track,      \* 18
    bdb_heads,                  \* 2
    RootBytes,                  \* directory entries of 32 bytes: 7168
    ClusterOffset               \* block of cluster 0: 31

ASSUME FloppyAssumption ==
    /\ {BYTE, bdb_bytes_per_sector, bdb_sectors_per_track, bdb_heads}
          \subseteq Nat \ {0}
    /\ {bdb_reserved_sectors, bdb_fat_count, bdb_sectors_per_fat, RootBytes,
        ClusterOffset} \subseteq Nat

WORD == BYTE * BYTE

-----------------------------------------------------------------------------
(* The root directory.  Only BL is set before BX is multiplied; bh is what *)
(* the BIOS left in the other half.                                        *)

FatSectors(bh) == bdb_sectors_per_fat * (bdb_fat_count + BYTE * bh)

RootLba(bh) == ((FatSectors(bh) % WORD) + bdb_reserved_sectors) % BYTE

(* The division takes DX from the multiplication; a remainder is rounded   *)
(* up.                                                                     *)
RootLength_no_round(bh) ==
    ((FatSectors(bh) \div WORD) * WORD + RootBytes) \div bdb_bytes_per_sector

RootLength(bh) ==
    LET size == (FatSectors(bh) \div WORD) * WORD + RootBytes
        whole == size \div bdb_bytes_per_sector
    IN  (IF size % bdb_bytes_per_sector = 0 THEN whole ELSE whole + 1) % BYTE

-----------------------------------------------------------------------------
(* Blocks.                                                                 *)

lba_to_chs_sector_from_0(lba) ==
    [sector   |-> lba % bdb_sectors_per_track,
     head     |-> (lba \div bdb_sectors_per_track) % bdb_heads,
     cylinder |-> (lba \div bdb_sectors_per_track) \div bdb_heads]

lba_to_chs(lba) ==
    [sector   |-> (lba % bdb_sectors_per_track) + 1,
     head     |-> (lba \div bdb_sectors_per_track) % bdb_heads,
     cylinder |-> (lba \div bdb_sectors_per_track) \div bdb_heads]

(* The block the drive finds at a cylinder, head and sector.               *)
BlockAt(chs) ==
    (chs.cylinder * bdb_heads + chs.head) * bdb_sectors_per_track + chs.sector - 1

(* The block the code asks for, and the one where the cluster is.          *)
ClusterLba(cluster) == (cluster + ClusterOffset) % BYTE

FirstDataBlock ==
    LET root == IF RootBytes % bdb_bytes_per_sector = 0 THEN 0 ELSE 1
    IN  bdb_reserved_sectors + bdb_fat_count * bdb_sectors_per_fat
            + RootBytes \div bdb_bytes_per_sector + root

ClusterBlock(cluster) == FirstDataBlock + cluster - 2

-----------------------------------------------------------------------------
(* FatEntries of 12 bits, two in three bytes.                                 *)

FatEntries == 0..4095
EndOfChain == 4088..4095

(* Byte i of a table with these entries, as a formatting tool writes it.   *)
FatByte(entry, i) ==
    LET even == entry[2 * (i \div 3)]
        odd  == entry[2 * (i \div 3) + 1]
    IN  CASE i % 3 = 0 -> even % 256
          [] i % 3 = 1 -> even \div 256 + 16 * (odd % 16)
          [] i % 3 = 2 -> odd \div 16

MarkerOffset(cluster) == (cluster * 3) \div 2

(* word is what is read at the offset, low byte first.                     *)
chain_marker_swapped(cluster, word) ==
    IF (cluster * 3) % 2 = 0 THEN word \div 16 ELSE word % 4096

chain_marker(cluster, word) ==
    IF (cluster * 3) % 2 = 0 THEN word % 4096 ELSE word \div 16
=============================================================================
