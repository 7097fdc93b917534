----------------------------- MODULE InodeTable -----------------------------
(***************************************************************************)
(* The in-memory inode table of src/Group/src/filesys/inode.c: the list    *)
(* open_inodes of struct inode objects, one per open sector, with open_cnt *)
(* and removed.  Kernel threads call inode_open (under open_inodes_lock),  *)
(* inode_reopen and inode_close (under no lock) and inode_remove; a timer  *)
(* interrupt may switch threads between any two statements.                *)
(*                                                                         *)
(* inode_close is two steps: `--inode->open_cnt == 0' (taken as one        *)
(* indivisible decrement-and-test, the most favourable reading of the      *)
(* data race) and, when it reaches zero, list_remove, the release of a     *)
(* removed inode's sector, and free.  A struct inode is a member of the    *)
(* pool Obj; `alloc' is the set malloc has handed out and not taken back.  *)
(***************************************************************************)
EXTENDS Naturals, FiniteSetsExt

CONSTANTS
    Thread,     \* kernel threads
    Sector,     \* inode sectors
    Obj,        \* heap blocks a struct inode may occupy
    MaxHeld,    \* most references one thread holds at a time
    None

VARIABLES
    openInodes, \* the objects on the open_inodes list
    alloc,      \* objects malloc'd and not freed
    sector,     \* sector[o]: inode->sector
    openCnt,    \* openCnt[o]: inode->open_cnt
    removed,    \* removed[o]: inode->removed
    released,   \* sectors free_map_release'd by inode_close
    held,       \* held[t][o]: references to o thread t holds
    closing     \* closing[t]: the object whose open_cnt t took to zero, or None

vars == <<openInodes, alloc, sector, openCnt, removed, released, held, closing>>

Held(t) == {o \in Obj : held[t][o] > 0}
HeldCount(t) == MapThenSumSet(LAMBDA o : held[t][o], Obj)

(* inode_init: an empty open_inodes list. *)
Init ==
    /\ openInodes = {}
    /\ alloc = {}
    /\ sector = [o \in Obj |-> CHOOSE s \in Sector : TRUE]
    /\ openCnt = [o \in Obj |-> 0]
    /\ removed = [o \in Obj |-> FALSE]
    /\ released = {}
    /\ held = [t \in Thread |-> [o \in Obj |-> 0]]
    /\ closing = [t \in Thread |-> None]

Ready(t) == closing[t] = None /\ HeldCount(t) < MaxHeld

Take(t, o) == held' = [held EXCEPT ![t][o] = @ + 1]

(* inode_open(s), all under open_inodes_lock: a listed inode for s is     *)
(* inode_reopen'ed; otherwise a new struct inode is malloc'd, pushed on    *)
(* the list with open_cnt 1 and removed false.                             *)
inode_open(t, s) ==
    /\ Ready(t)
    /\ IF \E o \in openInodes : sector[o] = s
         THEN LET o == CHOOSE x \in openInodes : sector[x] = s IN
              /\ openCnt' = [openCnt EXCEPT ![o] = @ + 1]
              /\ Take(t, o)
              /\ UNCHANGED <<openInodes, alloc, sector, removed>>
         ELSE \E o \in Obj \ alloc :
              /\ openInodes' = openInodes \cup {o}
              /\ alloc' = alloc \cup {o}
              /\ sector' = [sector EXCEPT ![o] = s]
              /\ openCnt' = [openCnt EXCEPT ![o] = 1]
              /\ removed' = [removed EXCEPT ![o] = FALSE]
              /\ Take(t, o)
    /\ UNCHANGED <<released, closing>>

(* The same call when malloc returns NULL: it returns NULL. *)
inode_open_nomem(t, s) ==
    /\ Ready(t)
    /\ ~\E o \in openInodes : sector[o] = s
    /\ UNCHANGED vars

(* inode_reopen(inode) of a held inode (dir_reopen, getDirAndInode's      *)
(* reopen of the cwd): open_cnt++ under no lock.                           *)
inode_reopen(t, o) ==
    /\ Ready(t) /\ held[t][o] > 0
    /\ openCnt' = [openCnt EXCEPT ![o] = @ + 1]
    /\ Take(t, o)
    /\ UNCHANGED <<openInodes, alloc, sector, removed, released, closing>>

(* inode_remove(inode): removed = true. *)
inode_remove(t, o) ==
    /\ closing[t] = None /\ held[t][o] > 0
    /\ removed' = [removed EXCEPT ![o] = TRUE]
    /\ UNCHANGED <<openInodes, alloc, sector, openCnt, released, held, closing>>

(* inode_close(inode), first step: --open_cnt; at zero the thread goes on *)
(* to unlink and free it.                                                  *)
inode_close(t, o) ==
    /\ closing[t] = None /\ held[t][o] > 0
    /\ openCnt' = [openCnt EXCEPT ![o] = @ - 1]
    /\ held' = [held EXCEPT ![t][o] = @ - 1]
    /\ closing' = [closing EXCEPT ![t] = IF openCnt[o] = 1 THEN o ELSE None]
    /\ UNCHANGED <<openInodes, alloc, sector, removed, released>>

(* The rest of the last close: list_remove, free_map_release of a removed *)
(* inode's sector, free(inode).                                            *)
CloseUnlink(t) ==
    /\ closing[t] # None
    /\ LET o == closing[t] IN
       /\ openInodes' = openInodes \ {o}
       /\ released' = IF removed[o] THEN released \cup {sector[o]} ELSE released
       /\ alloc' = alloc \ {o}
    /\ closing' = [closing EXCEPT ![t] = None]
    /\ UNCHANGED <<sector, openCnt, removed, held>>

Next ==
    \E t \in Thread :
        \/ \E s \in Sector : inode_open(t, s) \/ inode_open_nomem(t, s)
        \/ \E o \in Obj : inode_reopen(t, o) \/ inode_remove(t, o) \/ inode_close(t, o)
        \/ CloseUnlink(t)

Spec == Init /\ [][Next]_vars

-----------------------------------------------------------------------------
(* Every struct inode a thread holds a reference to (from inode_open or    *)
(* inode_reopen, not yet given back by inode_close) is still allocated:    *)
(* no thread is left using an inode another thread's inode_close freed.    *)
HeldInodesAllocated ==
    \A t \in Thread : Held(t) \subseteq alloc
=============================================================================
