CONSTANTS
    Sector <- MCSector
    Value <- MCValue
    ZeroBlock = 0
    MAX_CACHE_SIZE = 3
    DummySector = DummySector
    Junk = Junk
    NoRead = NoRead

SPECIFICATION CacheSpec
INVARIANT TypeOK
INVARIANT OneEntryPerSector
INVARIANT CleanMatchesDisk
 
