------------------------- MODULE CachedAllocation -------------------------
(***************************************************************************)
(* The buffer cache composed with the free-space map.  block_allocate     *)
(* zeroes a newly allocated sector with block_write straight to the       *)
(* device (free-map.c:35-37), and block_release / free_map_release clear   *)
(* the bit without touching the cache (free-map.c:45, "TODO: call          *)
(* cache_remove()").  The file system only reads and writes sectors that   *)
(* are allocated.                                                          *)
(***************************************************************************)
EXTENDS Naturals, Sequences

CONSTANTS Sector, FREE_MAP_SECTOR, ROOT_DIR_SECTOR,
          Value, ZeroBlock, MAX_CACHE_SIZE, DummySector, Junk, NoRead

VARIABLES cache, disk, out, used, fmLeaked

vars == <<cache, disk, out, used, fmLeaked>>

BC == INSTANCE BufferCache
FM == INSTANCE FreeMap

(* block_allocate for one sector: scan and flip the first clear bit, then  *)
(* zero the sector on the device, bypassing the cache.                     *)
block_allocate ==
    LET g == FM!Granted(1) IN
    /\ FM!block_allocate(1)
    /\ disk' = IF Len(g) = 1 THEN [disk EXCEPT ![g[1]] = ZeroBlock] ELSE disk
    /\ out' = IF Len(g) = 1 THEN <<"zero", g[1], ZeroBlock>> ELSE out
    /\ UNCHANGED cache

(* block_release(sector): clear the bit; the cache keeps its entry. *)
block_release(s) ==
    /\ s \in used \ {FREE_MAP_SECTOR, ROOT_DIR_SECTOR}
    /\ ~fmLeaked
    /\ FM!free_map_release(s)
    /\ UNCHANGED <<cache, disk, out>>

Init == BC!CacheInit /\ FM!FMInit

Next ==
    \/ block_allocate
    \/ \E s \in Sector : block_release(s)
    \/ \E s \in used : BC!buffer_cache_read(s) /\ UNCHANGED <<used, fmLeaked>>
    \/ \E s \in used, v \in Value : BC!buffer_cache_write(s, v) /\ UNCHANGED <<used, fmLeaked>>

Spec == Init /\ [][Next]_vars

Store == INSTANCE SectorStore WITH mem <- BC!View

(* Allocation hands out a sector that reads as zeros, and reads return the *)
(* last write after that: the cache together with the allocator implements *)
(* the sector store of spec 4.1-4.2.                                       *)
AllocatedSectorsReadZero == Store!Spec
=============================================================================
