------------------------------- MODULE Inode -------------------------------
(***************************************************************************)
(* The inode manager of src/Group/src/filesys/inode.c together with the    *)
(* free-space map it allocates from (FreeMap) and the allocation part of   *)
(* filesys_create / filesys_remove (filesys.c) that drives it.             *)
(*                                                                         *)
(* State:                                                                  *)
(*   hdr[s]     the on-disk inode written at sector s (NoHeader if the     *)
(*              sector holds no valid inode: block_allocate zeroes it)     *)
(*   ptr[s]     sector s read as a block of PTRS sector numbers (the       *)
(*              double-indirect and indirect blocks); 0 = unallocated      *)
(*   openCnt[s] open_cnt of the in-memory inode of s (0 = not in           *)
(*              open_inodes)                                               *)
(*   lost[s]    the part of openCnt[s] held by references nobody closes    *)
(*   removed    in-memory inodes whose `removed' flag is set               *)
(*   linked     inode sectors named by a directory entry                   *)
(*                                                                         *)
(* Every operation is one step: each runs under the inode's own lock and   *)
(* takes the free-map lock per allocation, and the sectors one operation   *)
(* obtains do not depend on how another's allocations interleave with it   *)
(* beyond which free sectors each gets.  Sectors are read through the      *)
(* buffer cache; this module treats the cache as coherent with the device  *)
(* (BufferCache checks where it is not).  File data bytes are not          *)
(* modelled: a write that does not grow the file changes nothing here.     *)
(***************************************************************************)
EXTENDS Naturals, Sequences, FiniteSets, FiniteSetsExt, SequencesExt, TLC

CONSTANTS
    Sector, FREE_MAP_SECTOR, ROOT_DIR_SECTOR,
    PTRS,               \* sector numbers per index block (128)
    BLOCK_SECTOR_SIZE,  \* bytes per sector (512)
    FreeMapLength,      \* bitmap_file_size given to free_map_create
    RootLength,         \* 16 directory entries given to dir_create(ROOT)
    CreateLength,       \* initial_size values filesys_create is called with
    WriteEnd,           \* offset + size values of inode_write_at calls
    MaxOpen,            \* bound on open_cnt (a model bound, not the code's)
    NoHeader, NoInode, Garbage

ASSUME PTRS \in Nat \ {0} /\ BLOCK_SECTOR_SIZE \in Nat \ {0}

VARIABLES used, fmLeaked, hdr, ptr, openCnt, lost, removed, linked

vars == <<used, fmLeaked, hdr, ptr, openCnt, lost, removed, linked>>

FM == INSTANCE FreeMap

Slot == 0..PTRS - 1
Zero == [i \in Slot |-> 0]
SeqRange(q) == {q[m] : m \in 1..Len(q)}

(* Bytes mapped by one indirect block. *)
IndirectSpan == BLOCK_SECTOR_SIZE * PTRS

bytes_to_sectors(len) == (len + BLOCK_SECTOR_SIZE - 1) \div BLOCK_SECTOR_SIZE

-----------------------------------------------------------------------------
(***************************************************************************)
(* inode_create(sector, length, isDir): the layout it builds.  Its         *)
(* block_allocate calls come in the order double-indirect, then for each   *)
(* indirect i the indirect block followed by its data blocks; a[m] is the  *)
(* sector the m-th call obtained.  All but the last indirect get PTRS data *)
(* blocks, the last gets sectors % PTRS (inode.c:203-207).                 *)
(***************************************************************************)
NumIndirects(len) == (bytes_to_sectors(len) + PTRS - 1) \div PTRS

DataInIndirect(len, i) ==
    IF i = NumIndirects(len) - 1 THEN bytes_to_sectors(len) % PTRS ELSE PTRS

IndirectPos(i) == 2 + i * (PTRS + 1)

DataPos(i, j) == IndirectPos(i) + 1 + j

(* The number of block_allocate calls inode_create makes when all succeed; *)
(* a file needing more than PTRS indirects fails after the first.          *)
CreateNeed(len) ==
    IF bytes_to_sectors(len) = 0 \/ NumIndirects(len) > PTRS THEN 1
    ELSE IndirectPos(NumIndirects(len) - 1) + DataInIndirect(len, NumIndirects(len) - 1)

(* Index blocks after inode_create obtained the sectors a (possibly fewer  *)
(* than CreateNeed: it returned at the failing call).  Every granted       *)
(* sector was zeroed by block_allocate; an indirect block is written once  *)
(* all its data blocks were obtained, the double-indirect block only at    *)
(* the end.                                                                *)
inode_create(len, a, p) ==
    LET n == NumIndirects(len)
        Done == {i \in 0..n - 1 : IndirectPos(i) + DataInIndirect(len, i) <= Len(a)}
        complete == Len(a) = CreateNeed(len) /\ n \in 1..PTRS
    IN [s \in Sector |->
          IF complete /\ s = a[1]
            THEN [i \in Slot |-> IF i < n THEN a[IndirectPos(i)] ELSE 0]
          ELSE IF \E i \in Done : s = a[IndirectPos(i)]
            THEN LET i == CHOOSE i \in Done : s = a[IndirectPos(i)]
                 IN [j \in Slot |-> IF j < DataInIndirect(len, i) THEN a[DataPos(i, j)] ELSE 0]
          ELSE IF s \in SeqRange(a) THEN Zero
          ELSE p[s]]

-----------------------------------------------------------------------------
(***************************************************************************)
(* Reading the index.                                                      *)
(***************************************************************************)
DoubleIndirect(s) == hdr[s].di

(* byte_to_sector(inode, pos) for 0 <= pos < length.  An index past the   *)
(* 128-entry array (a file grown beyond PTRS*PTRS sectors) and a null      *)
(* indirect pointer (the code then reads sector 0, the free-map inode, as  *)
(* a pointer block) both yield Garbage; a null data pointer yields 0.      *)
byte_to_sector(s, pos) ==
    LET ii == pos \div IndirectSpan
        jj == (pos % IndirectSpan) \div BLOCK_SECTOR_SIZE
    IN IF ii >= PTRS THEN Garbage
       ELSE IF ptr[DoubleIndirect(s)][ii] = 0 THEN Garbage
       ELSE ptr[ptr[DoubleIndirect(s)][ii]][jj]

-----------------------------------------------------------------------------
(***************************************************************************)
(* inode_grow(inode, size): first allocate every missing indirect i with  *)
(* size > IndirectSpan*i and write the double-indirect block, then for    *)
(* each allocated indirect allocate every missing data block j with       *)
(* size > IndirectSpan*i + BLOCK_SECTOR_SIZE*j, zero it, and write the    *)
(* indirect block back; finally store the new length.  There is no check  *)
(* against the maximum size and no rollback: a failing call returns at    *)
(* once, leaving what was allocated so far.                               *)
(***************************************************************************)
SlotSeq == [m \in 1..PTRS |-> m - 1]
PairSeq == [m \in 1..PTRS * PTRS |-> m - 1]   \* k stands for <<k \div PTRS, k % PTRS>>

inode_grow(s, size) ==
    LET d   == DoubleIndirect(s)
        ind == ptr[d]
        blk(i) == IF ind[i] # 0 THEN ptr[ind[i]] ELSE Zero
        N1 == SelectSeq(SlotSeq, LAMBDA i : size > IndirectSpan * i /\ ind[i] = 0)
        has(i) == ind[i] # 0 \/ i \in SeqRange(N1)
        N2 == SelectSeq(PairSeq, LAMBDA k :
                  /\ has(k \div PTRS)
                  /\ size > IndirectSpan * (k \div PTRS) + BLOCK_SECTOR_SIZE * (k % PTRS)
                  /\ blk(k \div PTRS)[k % PTRS] = 0)
        g == FM!Granted(Len(N1) + Len(N2))
        phase1 == Len(g) >= Len(N1)
        ok == Len(g) = Len(N1) + Len(N2)
        newInd == [i \in Slot |-> IF ind[i] # 0 THEN ind[i]
                                  ELSE IF i \in SeqRange(N1)
                                       THEN g[SelectInSeq(N1, LAMBDA x : x = i)]
                                       ELSE 0]
        \* indirects before the one whose data allocation failed were written
        written == IF ok THEN PTRS ELSE (N2[Len(g) - Len(N1) + 1] \div PTRS)
        newBlk(i) == [j \in Slot |->
                        LET m == SelectInSeq(N2, LAMBDA k : k = i * PTRS + j)
                        IN IF m # 0 THEN g[Len(N1) + m] ELSE blk(i)[j]]
    IN /\ FM!block_allocate(Len(N1) + Len(N2))
       /\ ptr' = [x \in Sector |->
                    IF phase1 /\ x = d THEN newInd
                    ELSE IF phase1 /\ \E i \in 0..written - 1 : newInd[i] = x /\ x # 0
                      THEN newBlk(CHOOSE i \in 0..written - 1 : newInd[i] = x)
                    ELSE IF x \in SeqRange(g) THEN Zero
                    ELSE ptr[x]]
       /\ hdr' = [x \in Sector |->
                    IF ok /\ x = s THEN [hdr[s] EXCEPT !.length = size]
                    ELSE IF x \in SeqRange(g) THEN NoHeader
                    ELSE hdr[x]]

-----------------------------------------------------------------------------
Live == {FREE_MAP_SECTOR, ROOT_DIR_SECTOR} \cup linked
            \cup {s \in Sector : openCnt[s] > 0}

(* do_format: free_map_create then dir_create(ROOT_DIR_SECTOR, 16), each  *)
(* an inode_create from the freshly initialised bitmap; then free_map_open *)
(* opens the free-map inode and filesys_init opens the root as the initial *)
(* thread's cwd.  Neither reference is ever closed.                        *)
FormatFreeMap == FM!Lowest(Sector \ {FREE_MAP_SECTOR, ROOT_DIR_SECTOR},
                           CreateNeed(FreeMapLength))
FormatRoot == FM!Lowest(Sector \ ({FREE_MAP_SECTOR, ROOT_DIR_SECTOR} \cup SeqRange(FormatFreeMap)),
                        CreateNeed(RootLength))

Init ==
    /\ used = {FREE_MAP_SECTOR, ROOT_DIR_SECTOR} \cup SeqRange(FormatFreeMap) \cup SeqRange(FormatRoot)
    /\ fmLeaked = FALSE
    /\ ptr = inode_create(RootLength, FormatRoot,
                          inode_create(FreeMapLength, FormatFreeMap, [s \in Sector |-> Zero]))
    /\ hdr = [s \in Sector |->
                IF s = FREE_MAP_SECTOR
                  THEN [length |-> FreeMapLength, di |-> FormatFreeMap[1], isDir |-> FALSE]
                ELSE IF s = ROOT_DIR_SECTOR
                  THEN [length |-> RootLength, di |-> FormatRoot[1], isDir |-> TRUE]
                ELSE NoHeader]
    /\ openCnt = [s \in Sector |-> IF s \in {FREE_MAP_SECTOR, ROOT_DIR_SECTOR} THEN 1 ELSE 0]
    /\ lost = openCnt
    /\ removed = {}
    /\ linked = {}

-----------------------------------------------------------------------------
(***************************************************************************)
(* filesys_create(name, initial_size, isDir) for a name in a directory.    *)
(* `existing' is the inode the name already names, or NoInode.            *)
(* getDirAndInode opens that inode and filesys_create never closes it.    *)
(* Then block_allocate(&inode_sector), inode_create, dir_add (which fails  *)
(* when the name exists); on failure only inode_sector is released.       *)
(***************************************************************************)
filesys_create(len, isDir, existing) ==
    LET k == 1 + CreateNeed(len)
        g == FM!Granted(k)
        a == SubSeq(g, 2, Len(g))
        created == Len(g) = k /\ NumIndirects(len) <= PTRS
        added == created /\ existing = NoInode
        h == g[1]
    IN /\ ~fmLeaked
       /\ existing # NoInode => openCnt[existing] < MaxOpen
       /\ fmLeaked' = (Len(g) < k)
       /\ used' = (used \cup SeqRange(g)) \ (IF Len(g) >= 1 /\ ~added THEN {h} ELSE {})
       /\ hdr' = [s \in Sector |->
                    IF Len(g) >= 2 /\ s = h THEN [length |-> len, di |-> a[1], isDir |-> isDir]
                    ELSE IF s \in SeqRange(g) THEN NoHeader
                    ELSE hdr[s]]
       /\ ptr' = inode_create(len, a, [s \in Sector |-> IF s \in SeqRange(g) THEN Zero ELSE ptr[s]])
       /\ linked' = IF added THEN linked \cup {h} ELSE linked
       /\ openCnt' = IF existing = NoInode THEN openCnt ELSE [openCnt EXCEPT ![existing] = @ + 1]
       /\ lost' = IF existing = NoInode THEN lost ELSE [lost EXCEPT ![existing] = @ + 1]
       /\ UNCHANGED removed

(* inode_open(sector) of an inode a directory names (or the root): reuse  *)
(* the open_inodes entry with open_cnt + 1, or create one with open_cnt 1. *)
inode_open(s) ==
    /\ s \in linked \cup {ROOT_DIR_SECTOR}
    /\ openCnt[s] < MaxOpen
    /\ openCnt' = [openCnt EXCEPT ![s] = @ + 1]
    /\ UNCHANGED <<used, fmLeaked, hdr, ptr, lost, removed, linked>>

(* Mutant: a close by a caller that holds no reference (a double close). *)
inode_close_unguarded(s) ==
    /\ openCnt' = [openCnt EXCEPT ![s] = @ - 1]
    /\ IF openCnt[s] = 1 /\ s \in removed
         THEN /\ FM!free_map_release(s)
              /\ removed' = removed \ {s}
         ELSE UNCHANGED <<used, fmLeaked, removed>>
    /\ UNCHANGED <<hdr, ptr, lost, linked>>

inode_close(s) ==
    /\ openCnt[s] > lost[s]
    /\ openCnt' = [openCnt EXCEPT ![s] = @ - 1]
    /\ IF openCnt[s] = 1 /\ s \in removed
         THEN /\ FM!free_map_release(s)
              /\ removed' = removed \ {s}
         ELSE UNCHANGED <<used, fmLeaked, removed>>
    /\ UNCHANGED <<hdr, ptr, lost, linked>>

(* inode_write_at(inode, buf, size, offset) with offset + size = end       *)
(* beyond the length: deny_write_cnt is 0, inode_resize grows the inode;   *)
(* if the grow fails the write returns 0.                                  *)
inode_write_at(s, end) ==
    /\ s \in linked \cup removed
    /\ openCnt[s] > lost[s]
    /\ ~hdr[s].isDir
    /\ end > hdr[s].length
    /\ inode_grow(s, end)
    /\ UNCHANGED <<openCnt, lost, removed, linked>>

(* filesys_remove(name) of a file: getDirAndInode opens it, dir_remove     *)
(* opens it again, clears the entry, inode_remove, closes; filesys_remove  *)
(* closes.  With no other opener the last close releases the header.       *)
filesys_remove(s) ==
    /\ s \in linked
    /\ ~hdr[s].isDir
    /\ linked' = linked \ {s}
    /\ IF openCnt[s] = 0
         THEN /\ FM!free_map_release(s)
              /\ UNCHANGED removed
         ELSE /\ removed' = removed \cup {s}
              /\ UNCHANGED <<used, fmLeaked>>
    /\ UNCHANGED <<hdr, ptr, openCnt, lost>>

Next ==
    \/ \E len \in CreateLength, isDir \in BOOLEAN, e \in linked \cup {NoInode} :
          filesys_create(len, isDir, e)
    \/ \E s \in Sector : inode_open(s)
    \/ \E s \in Sector : inode_close(s)
    \/ \E s \in Sector, end \in WriteEnd : inode_write_at(s, end)
    \/ \E s \in Sector : filesys_remove(s)

Spec == Init /\ [][Next]_vars

-----------------------------------------------------------------------------
(***************************************************************************)
(* Properties.                                                             *)
(***************************************************************************)
Header == [length : Nat, di : Sector, isDir : BOOLEAN]

TypeOK ==
    /\ used \subseteq Sector
    /\ fmLeaked \in BOOLEAN
    /\ hdr \in [Sector -> Header \cup {NoHeader}]
    /\ ptr \in [Sector -> [Slot -> Sector]]
    /\ openCnt \in [Sector -> 0..MaxOpen]
    /\ lost \in [Sector -> 0..MaxOpen]
    /\ removed \subseteq Sector
    /\ linked \subseteq Sector

(* The sectors a live inode owns, each tagged with where it is referenced: *)
(* its header, its double-indirect block, indirect slot i, data slot i,j.  *)
Refs(s) ==
    LET d == DoubleIndirect(s) IN
    {<<<<"inode", 0, 0>>, s>>, <<<<"di", 0, 0>>, d>>}
      \cup {<<<<"ind", i, 0>>, ptr[d][i]>> : i \in {i \in Slot : ptr[d][i] # 0}}
      \cup {<<<<"data", ij[1], ij[2]>>, ptr[ptr[d][ij[1]]][ij[2]]>> :
               ij \in {ij \in Slot \X Slot : ptr[d][ij[1]] # 0 /\ ptr[ptr[d][ij[1]]][ij[2]] # 0}}

Owned == UNION {{<<s, r>> : r \in Refs(s)} : s \in Live}

IndexSound ==
    \A s \in Live : \A pos \in 0..hdr[s].length - 1 :
        byte_to_sector(s, pos) \notin {0, Garbage}

(* While some sector is free, an allocation can obtain it: the free-map    *)
(* lock is not held by a thread that has left block_allocate.              *)
FreeSectorAllocatable ==
    used # Sector => ~fmLeaked

(* When an inode stops being live (the last inode_close of a removed      *)
(* inode, or filesys_remove of a file nobody has open), every sector it    *)
(* owns is released: header, double-indirect, indirect and data blocks.   *)
ReleaseOnLastClose ==
    [][\A s \in Live \ Live' : {r[2] : r \in Refs(s)} \cap used' = {}]_vars

=============================================================================
