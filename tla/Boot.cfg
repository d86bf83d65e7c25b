\* Every disk with two files on four clusters, a BIOS that leaves AL alone when a
\* read fails and little in BH; then every machine, with EBX clear.
CONSTANTS
    BYTE                  = 16
    bdb_bytes_per_sector  = 5
    bdb_reserved_sectors  = 1
    bdb_fat_count         = 2
    bdb_sectors_per_fat   = 2
    bdb_sectors_per_track = 3
    bdb_heads             = 2
    RootBytes             = 8
    ClusterOffset         = 5
    Clusters   = {2, 3, 4, 5}
    Slots      = 3
    BootBH     = {0, 1, 2, 3, 4, 5, 6, 7}
    KeepsCount = TRUE
    Entries    = 4
    MaxRegions = 3
    EbxHigh    = {0}
    Bytes      = {0, 187, 255}
    Junk      <- AnyJunk
SPECIFICATION BootSpec
CHECK_DEADLOCK FALSE
INVARIANTS
    Stage0TypeOK
    ReadFinished
    JumpsToFiles
    NotFoundIsAbsent
    TypeOK
    IdentityMapped
    KernelCanRun
    HaltsForReason
    MessagesStand
    MapComplete
PROPERTIES
    TestRestoresMemory
    Ends
