---------------------------- MODULE MCInodeTable ----------------------------
EXTENDS InodeTable, TLC

CONSTANTS t1, t2, s1, o1, o2

MCThread == {t1, t2}
MCSector == {s1}
MCObj == {o1, o2}
MCSymmetry == Permutations(MCThread) \cup Permutations(MCObj)
=============================================================================
