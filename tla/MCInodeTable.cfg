CONSTANTS
    t1 = t1
    t2 = t2
    s1 = s1
    o1 = o1
    o2 = o2
    Thread <- MCThread
    Sector <- MCSector
    Obj <- MCObj
    MaxHeld = 2
    None = None

SPECIFICATION Spec
INVARIANT HeldInodesAllocated
