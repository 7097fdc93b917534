CONSTANTS
    Thread <- MCThread
    Name <- MCName
    Pool <- MCPool
    t1 = t1
    t2 = t2
    a = a
    b = b
    ROOT_DIR_SECTOR = 1
    RootSlots = 1
    MaxCalls = 4

SYMMETRY MCSymmetry
SPECIFICATION Spec
CHECK_DEADLOCK FALSE
INVARIANT UniqueNames
