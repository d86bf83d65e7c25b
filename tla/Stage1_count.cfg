\* The stored number of regions.
CONSTANTS
    Entries    = 2
    MaxRegions = 3
    EbxHigh    = {0}
    Bytes      = {0}
    Junk      <- AnyJunk
SPECIFICATION Spec
CHECK_DEADLOCK FALSE
INVARIANT MapCounted
