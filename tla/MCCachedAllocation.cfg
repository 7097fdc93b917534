CONSTANTS
    Sector <- MCSector
    FREE_MAP_SECTOR = 0
    ROOT_DIR_SECTOR = 1
    Value <- MCValue
    ZeroBlock = 0
    MAX_CACHE_SIZE = 3
    DummySector = DummySector
    Junk = Junk
    NoRead = NoRead

SPECIFICATION Spec
PROPERTY AllocatedSectorsReadZero
