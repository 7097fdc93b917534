------------------------------ MODULE FreeMap ------------------------------
(***************************************************************************)
(* The free-space map of src/Group/src/filesys/free-map.c.                 *)
(*                                                                         *)
(* The bitmap is the set `used' of sectors whose bit is set.  Allocation   *)
(* is bitmap_scan_and_flip(free_map, 0, 1, false): the first clear bit     *)
(* from 0, so a run of k single-sector allocations hands out the k lowest  *)
(* free sectors in ascending order.  block_allocate holds free_map_lock    *)
(* over the scan, but returns early on failure WITHOUT releasing it        *)
(* (free-map.c:31-33): `fmLeaked' records that the lock is held forever    *)
(* by a thread that has left block_allocate, after which every later       *)
(* block_allocate blocks in lock_acquire (or panics when it is the same    *)
(* thread).  The persisted bitmap write (bitmap_write to the free-map      *)
(* file) writes a file of fixed size through the cache and does not fail,  *)
(* so it is not a separate outcome here.                                   *)
(***************************************************************************)
EXTENDS Naturals, Sequences, FiniteSets, FiniteSetsExt, TLC

CONSTANTS
    Sector,           \* the sectors of the file-system device
    FREE_MAP_SECTOR,  \* sector of the free-map file's inode (filesys.h)
    ROOT_DIR_SECTOR   \* sector of the root directory's inode (filesys.h)

ASSUME /\ FREE_MAP_SECTOR \in Sector
       /\ ROOT_DIR_SECTOR \in Sector

VARIABLES
    used,      \* sectors whose bit is set in free_map
    fmLeaked   \* free_map_lock held by a thread that already returned

fmVars == <<used, fmLeaked>>

(* free_map_init: only the two well-known sectors are marked.              *)
FMInit ==
    /\ used = {FREE_MAP_SECTOR, ROOT_DIR_SECTOR}
    /\ fmLeaked = FALSE

(* The k lowest sectors of S, ascending: what k successive first-clear-bit *)
(* scans return when nobody else allocates in between.                     *)
RECURSIVE Lowest(_, _)
Lowest(S, k) ==
    IF k = 0 \/ S = {} THEN <<>>
    ELSE <<Min(S)>> \o Lowest(S \ {Min(S)}, k - 1)

(* The sectors k successive block_allocate calls obtain: all k when that   *)
(* many bits are clear, otherwise every clear bit before the failing call. *)
Granted(k) == Lowest(Sector \ used, k)

(* The bits set by k successive block_allocate calls.                     *)
GrantedSet(k) == {Granted(k)[i] : i \in 1..Len(Granted(k))}

(* k successive block_allocate calls as one step of the caller.  A caller  *)
(* that needs any sector blocks while the lock is leaked; the first call   *)
(* that finds no clear bit returns false holding the lock.                 *)
block_allocate(k) ==
    /\ k > 0 => ~fmLeaked
    /\ used' = used \cup GrantedSet(k)
    /\ fmLeaked' = (fmLeaked \/ Len(Granted(k)) < k)

(* free_map_release(sector, 1): ASSERT(bitmap_all(...)) then clear the bit. *)
(* It takes no lock (callers inode_close and filesys_create call it        *)
(* directly), so it proceeds even while the lock is leaked.                *)
free_map_release(s) ==
    /\ Assert(s \in used, "free_map_release of a sector that is not allocated")
    /\ used' = used \ {s}
    /\ UNCHANGED fmLeaked

=============================================================================
