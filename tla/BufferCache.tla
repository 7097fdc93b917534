---------------------------- MODULE BufferCache ----------------------------
(***************************************************************************)
(* The buffer cache of src/Group/src/filesys/filesys.c (lines 12-126 and   *)
(* filesys_done).  `cache' is the list `cache', front = most recently      *)
(* used; buffer_cache_init puts one dummy entry (sector -1, clean, buffer  *)
(* never initialised) in it, and get_cache_size counts it, so at most      *)
(* MAX_CACHE_SIZE - 1 real sectors are resident until the dummy is         *)
(* evicted.  `disk' is the device.  Every operation holds cache_lock for   *)
(* its whole duration and so is one step.  A sector's contents are one     *)
(* value: a partial write (sector_ofs, size) is a write of a new value.    *)
(***************************************************************************)
EXTENDS Naturals, Sequences, SequencesExt

CONSTANTS
    Sector,          \* sectors the file system reads and writes
    Value,           \* contents a sector can hold
    ZeroBlock,       \* the all-zero contents
    MAX_CACHE_SIZE,  \* list entries before eviction (65 in filesys.c)
    DummySector,     \* the dummy entry's sector number (-1)
    Junk,            \* the dummy entry's uninitialised buffer
    NoRead

ASSUME MAX_CACHE_SIZE \in Nat \ {0}

VARIABLES cache, disk, out

cacheVars == <<cache, disk, out>>

Entry == [sector : Sector \cup {DummySector}, dirty : BOOLEAN, buf : Value \cup {Junk}]

(* check_cache: the position of the entry for s, 0 if none. *)
check_cache(s) == SelectInSeq(cache, LAMBDA e : e.sector = s)

(* Mutant: a hit pushed to the front without list_remove. *)
PushToFront(i) == <<cache[i]>> \o cache

(* A hit: list_remove the entry and list_push_front it. *)
MoveToFront(i) == <<cache[i]>> \o RemoveAt(cache, i)

(* Mutant: the new entry's buffer left as malloc returned it. *)
FetchedUnread(s) == [sector |-> s, dirty |-> FALSE, buf |-> Junk]

(* A miss: a clean entry whose buffer block_read filled from the device. *)
Fetched(s) == [sector |-> s, dirty |-> FALSE, buf |-> disk[s]]

cache_evict(e) == IF e.dirty THEN [disk EXCEPT ![e.sector] = e.buf] ELSE disk

(* The list and the device after the lookup part of buffer_cache_read and  *)
(* buffer_cache_write: a hit moves to the front; a miss evicts the last    *)
(* entry if the list holds MAX_CACHE_SIZE entries and pushes the fetched   *)
(* entry to the front.                                                     *)
Touch(s) ==
    IF check_cache(s) # 0
      THEN <<MoveToFront(check_cache(s)), disk>>
      ELSE IF Len(cache) = MAX_CACHE_SIZE
        THEN <<<<Fetched(s)>> \o Front(cache), cache_evict(cache[Len(cache)])>>
        ELSE <<<<Fetched(s)>> \o cache, disk>>

buffer_cache_read(s) ==
    LET t == Touch(s) IN
    /\ cache' = t[1]
    /\ disk' = t[2]
    /\ out' = <<"read", s, t[1][1].buf>>

(* Mutant: the written entry is not marked dirty. *)
buffer_cache_write_clean(s, v) ==
    LET t == Touch(s) IN
    /\ cache' = [t[1] EXCEPT ![1].buf = v]
    /\ disk' = t[2]
    /\ out' = <<"write", s, v>>

buffer_cache_write(s, v) ==
    LET t == Touch(s) IN
    /\ cache' = [t[1] EXCEPT ![1].buf = v, ![1].dirty = TRUE]
    /\ disk' = t[2]
    /\ out' = <<"write", s, v>>

(* filesys_done: write every dirty entry back; the list and the dirty      *)
(* flags are left as they are.                                             *)
filesys_done ==
    /\ disk' = [s \in Sector |->
                   IF check_cache(s) # 0 /\ cache[check_cache(s)].dirty
                     THEN cache[check_cache(s)].buf ELSE disk[s]]
    /\ UNCHANGED <<cache, out>>

(* buffer_cache_init; the device holds whatever was last written to it.   *)
CacheInit ==
    /\ cache = <<[sector |-> DummySector, dirty |-> FALSE, buf |-> Junk]>>
    /\ disk \in [Sector -> Value]
    /\ out = NoRead

CacheNext ==
    \/ \E s \in Sector : buffer_cache_read(s)
    \/ \E s \in Sector, v \in Value : buffer_cache_write(s, v)
    \/ filesys_done

CacheSpec == CacheInit /\ [][CacheNext]_cacheVars

-----------------------------------------------------------------------------
TypeOK ==
    /\ cache \in Seq(Entry)
    /\ disk \in [Sector -> Value]
    /\ out \in ({"read", "write"} \X Sector \X Value) \cup {NoRead}

(* The sectors' contents as the cache's callers see them. *)
View == [s \in Sector |-> IF check_cache(s) # 0 THEN cache[check_cache(s)].buf ELSE disk[s]]

(* At most one entry per sector, and never more than MAX_CACHE_SIZE list   *)
(* entries (the dummy included).                                           *)
OneEntryPerSector ==
    /\ \A i, j \in 1..Len(cache) : i # j => cache[i].sector # cache[j].sector
    /\ Len(cache) <= MAX_CACHE_SIZE

(* A clean entry holds what the device holds: only dirty entries may be    *)
(* ahead of the device, so evicting a clean entry loses nothing.           *)
CleanMatchesDisk ==
    \A i \in 1..Len(cache) :
        cache[i].sector # DummySector /\ ~cache[i].dirty => cache[i].buf = disk[cache[i].sector]

Store == INSTANCE SectorStore WITH mem <- View

=============================================================================
