CONSTANTS
    Sector <- MCSector
    FREE_MAP_SECTOR = 0
    ROOT_DIR_SECTOR = 1
    PTRS = 2
    BLOCK_SECTOR_SIZE = 2
    FreeMapLength = 1
    RootLength = 2
    CreateLength <- MCCreateLength
    WriteEnd <- MCWriteEnd
    MaxOpen = 2
    NoHeader = NoHeader
    NoInode = NoInode
    Garbage = Garbage

SPECIFICATION Spec
INVARIANT TypeOK
 
 
