------------------------------ MODULE MCInode ------------------------------
(* Model-checking instance of Inode: a 14-sector device, index blocks of   *)
(* 2 pointers and 2-byte sectors, so a file maps at most 2*2*2 = 8 bytes.  *)
EXTENDS Inode

MCSector == 0..13
MCCreateLength == {0, 4, 9}   \* empty; exactly one full indirect; too big
MCWriteEnd == {1, 5, 9}       \* within the first sector; second indirect; past the index
=============================================================================
