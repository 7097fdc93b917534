------------------------ MODULE MCCachedAllocation ------------------------
EXTENDS CachedAllocation

MCSector == {0, 1, 2, 3}
MCValue == {0, 1}
=============================================================================
