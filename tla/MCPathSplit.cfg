CONSTANTS
    NAME_MAX = 2
    Letter = {"a"}
    MaxPathLen = 6

SPECIFICATION FairSpec
INVARIANT TypeOK
INVARIANT SplitMatches
INVARIANT DirAndFileSplits
INVARIANT DirFitsBuffer
PROPERTY LoopEnds
CHECK_DEADLOCK FALSE
