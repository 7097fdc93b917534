----------------------------- MODULE Directory -----------------------------
(***************************************************************************)
(* Directories (src/Group/src/filesys/directory.c) and the calls of        *)
(* filesys.c that go through them (filesys_create, filesys_remove,         *)
(* filesys_open), run by concurrent threads.                               *)
(*                                                                         *)
(* A directory's byte stream is the sequence ents[d] of dir_entry records  *)
(* {in_use, name, inode_sector}.  Each inode_read_at / inode_write_at of   *)
(* one entry holds the directory inode's lock, but no lock is held across  *)
(* the lookup, the free-slot scan and the write of dir_add, nor across the *)
(* lookup and the write of dir_remove: those are separate steps here.      *)
(* open_cnt and the removed flag of the in-memory inodes are openCnt and   *)
(* removed; `used' is the set of inode header sectors allocated in the    *)
(* free map (index and data sectors are Inode's subject).  Path           *)
(* resolution (getDirAndInode) is a loop of steps too: for each component *)
(* it moves curDir down (dir_open, dir_close) and runs lookup, and then,  *)
(* in a step of its own, dir_lookup's inode_open of the sector lookup    *)
(* read; nothing is locked between the two.  `parent' is the parent field *)
(* of the on-disk inodes.                                                  *)
(*                                                                         *)
(* The references a thread holds are its locals dirRef (the struct dir    *)
(* from getDirAndInode), inoRef (its struct inode), rmRef (dir_remove's   *)
(* inode) and fd (a file returned by filesys_open, until it closes it).    *)
(***************************************************************************)
EXTENDS Naturals, Sequences, FiniteSets, FiniteSetsExt, SequencesExt

CONSTANTS
    Thread,           \* threads making file-system calls
    Name,             \* valid path components (non-empty, <= NAME_MAX)
    Pool,             \* sectors block_allocate can hand out for new inodes
    ROOT_DIR_SECTOR,
    RootSlots,        \* zeroed entries of the root (dir_create(ROOT, 16))
    MaxCalls          \* file-system calls made in all (a model bound)

NoSector == 0           \* a zero inode_sector / a NULL pointer
Sector == {ROOT_DIR_SECTOR} \cup Pool

ASSUME ROOT_DIR_SECTOR \notin Pool /\ NoSector \notin Sector

VARIABLES
    ents, isDir, parent, used, fmLeaked, openCnt, removed,
    pc, path, mkDir, dirRef, inoRef, newSec, ofs, rmRef, fd, calls,
    goal,     \* the call whose getDirAndInode a thread is running
    wi,       \* the index of the component get_next_part returns next
    wSec,     \* the inode_sector lookup read, not yet inode_open'ed
    dangled   \* history: some thread has held an inode open_cnt did not count

fsVars == <<ents, isDir, parent, used, fmLeaked, openCnt, removed>>
walkVars == <<goal, wi, wSec>>
thVars == <<pc, path, mkDir, dirRef, inoRef, newSec, ofs, rmRef, fd, calls, walkVars>>
vars == <<fsVars, thVars>>

Path == {<<n>> : n \in Name} \cup (Name \X Name)

FreeEntry == [in_use |-> FALSE, name |-> "", inode_sector |-> NoSector]

(* lookup(dir, name): the first in-use entry named `name', as its index   *)
(* (0 if none).                                                           *)
lookup(d, n) == SelectInSeq(ents[d], LAMBDA e : e.in_use /\ e.name = n)

(* The sector an entry found by lookup names, NoSector if none. *)
EntrySector(d, n) == IF lookup(d, n) = 0 THEN NoSector ELSE ents[d][lookup(d, n)].inode_sector

(* dir_add's scan: the first entry not in use, else one past the end. *)
FreeSlot(d) ==
    LET i == SelectInSeq(ents[d], LAMBDA e : ~e.in_use) IN
    IF i = 0 THEN Len(ents[d]) + 1 ELSE i

(* Writing entry e at index i: an inode_write_at, which extends the file  *)
(* (zero-filled) when i is past its end.                                  *)
WriteEntry(d, i, e) ==
    [ents EXCEPT ![d] = [k \in 1..Max({i, Len(@)}) |->
                           IF k = i THEN e ELSE IF k <= Len(@) THEN @[k] ELSE FreeEntry]]

(* isDirectory: the isDir field of the inode's on-disk inode_disk. *)
isDirectory(s) == isDir[s]

(* setInodeParent: a read-modify-write, through the cache, of the parent  *)
(* field of the on-disk inode at sector s.                                *)
setInodeParent(s, p) == [parent EXCEPT ![s] = p]

(* open_cnt after one inode_open per element of the tuple q. *)
Opened(q) == [x \in Sector |-> openCnt[x] + Cardinality({i \in DOMAIN q : q[i] = x})]

(***************************************************************************)
(* inode_close of each sector in S (distinct): decrement open_cnt; the     *)
(* last close drops the inode from open_inodes and, if it was removed,     *)
(* free_map_release's its header sector.  A close of an inode already      *)
(* freed (open_cnt 0) writes freed memory; it is taken to change nothing.  *)
(***************************************************************************)
LastClosed(S) == {x \in S \ {NoSector} : openCnt[x] = 1}

Closed(S) == [x \in Sector |-> IF x \in S /\ openCnt[x] > 0 THEN openCnt[x] - 1 ELSE openCnt[x]]

ReleasedBy(S) == LastClosed(S) \cap removed

Close(S) ==
    /\ openCnt' = Closed(S \ {NoSector})
    /\ removed' = removed \ LastClosed(S)

(* The references to s held in threads' locals. *)
HeldCount(s) ==
    Cardinality({tk \in Thread \X {"dir", "ino", "rm", "fd"} :
                   [dir |-> dirRef, ino |-> inoRef, rm |-> rmRef, fd |-> fd][tk[2]][tk[1]] = s})

(* filesys_init's dir_open_root for the initial process's cwd, never closed. *)
Base(s) == IF s = ROOT_DIR_SECTOR THEN 1 ELSE 0

(* The call returns: its locals are gone (fd is the caller's). *)
Return(t) ==
    /\ pc' = [pc EXCEPT ![t] = "idle"]
    /\ dirRef' = [dirRef EXCEPT ![t] = NoSector]
    /\ inoRef' = [inoRef EXCEPT ![t] = NoSector]
    /\ newSec' = [newSec EXCEPT ![t] = NoSector]
    /\ rmRef' = [rmRef EXCEPT ![t] = NoSector]
    /\ goal' = [goal EXCEPT ![t] = "none"]
    /\ wi' = [wi EXCEPT ![t] = 0]
    /\ wSec' = [wSec EXCEPT ![t] = NoSector]
    /\ UNCHANGED <<path, mkDir, ofs, calls>>

Idle(t) == Return(t) /\ UNCHANGED fd

(* open_cnt counts every reference a thread holds, so no thread holds an   *)
(* inode that inode_close has already freed: filesys_remove of a directory *)
(* closes the inode from getDirAndInode twice (dir_close(targetDir), then  *)
(* inode_close(inode)), taking another holder's reference.                 *)
RefsCounted == \A s \in Sector : openCnt[s] >= Base(s) + HeldCount(s)

(* History: set once some thread holds an inode open_cnt does not count. *)
Track == dangled' = (dangled \/ ~RefsCounted')

-----------------------------------------------------------------------------
(***************************************************************************)
(* getDirAndInode(path), started by filesys_create, filesys_remove or     *)
(* filesys_open (goal g): curDir = dir_open_root() (the cwd is the root,  *)
(* the only one filesys_init sets) and curInode = inode_reopen of its     *)
(* inode.  dirRef and inoRef are curDir and curInode.                      *)
(***************************************************************************)
StartWalk(t, p, g, isD) ==
    /\ pc[t] = "idle" /\ calls > 0
    /\ calls' = calls - 1
    /\ openCnt' = Opened(<<ROOT_DIR_SECTOR, ROOT_DIR_SECTOR>>)
    /\ pc' = [pc EXCEPT ![t] = "w_step"]
    /\ path' = [path EXCEPT ![t] = p]
    /\ mkDir' = [mkDir EXCEPT ![t] = isD]
    /\ goal' = [goal EXCEPT ![t] = g]
    /\ wi' = [wi EXCEPT ![t] = 1]
    /\ dirRef' = [dirRef EXCEPT ![t] = ROOT_DIR_SECTOR]
    /\ inoRef' = [inoRef EXCEPT ![t] = ROOT_DIR_SECTOR]
    /\ UNCHANGED <<parent, ents, isDir, used, fmLeaked, removed, newSec, ofs, rmRef, fd, wSec>>
    /\ Track

(* A component after a missing inode or a file: dir_close(curDir),        *)
(* inode_close(curInode), return false; the caller returns at once.       *)
WalkFail(t) ==
    /\ pc[t] = "w_step" /\ wi[t] <= Len(path[t])
    /\ IF inoRef[t] = NoSector THEN TRUE ELSE ~isDirectory(inoRef[t])
    /\ Close({dirRef[t], inoRef[t]})
    /\ used' = used \ ReleasedBy({dirRef[t], inoRef[t]})
    /\ Idle(t)
    /\ UNCHANGED <<parent, ents, isDir, fmLeaked>>
    /\ Track

(* A name: nextDir = dir_open(curInode), which takes over curInode's      *)
(* reference; dir_close(curDir); curDir = nextDir; and dir_lookup's       *)
(* lookup of the name, which reads the entry's inode_sector.              *)
WalkStep(t) ==
    LET d == inoRef[t] IN
    /\ pc[t] = "w_step" /\ wi[t] <= Len(path[t])
    /\ d # NoSector /\ isDirectory(d)
    /\ Close({dirRef[t]})
    /\ used' = used \ ReleasedBy({dirRef[t]})
    /\ dirRef' = [dirRef EXCEPT ![t] = d]
    /\ inoRef' = [inoRef EXCEPT ![t] = NoSector]
    /\ wSec' = [wSec EXCEPT ![t] = EntrySector(d, path[t][wi[t]])]
    /\ pc' = [pc EXCEPT ![t] = "w_open"]
    /\ UNCHANGED <<parent, ents, isDir, fmLeaked, path, mkDir, newSec, ofs, rmRef, fd, calls, goal, wi>>
    /\ Track

(* dir_lookup's inode_open(e.inode_sector) (NULL if lookup found nothing): *)
(* curInode is the inode of that sector, whatever has become of it since. *)
WalkOpen(t) ==
    /\ pc[t] = "w_open"
    /\ openCnt' = Opened(<<wSec[t]>>)
    /\ inoRef' = [inoRef EXCEPT ![t] = wSec[t]]
    /\ wSec' = [wSec EXCEPT ![t] = NoSector]
    /\ wi' = [wi EXCEPT ![t] = @ + 1]
    /\ pc' = [pc EXCEPT ![t] = "w_step"]
    /\ UNCHANGED <<parent, ents, isDir, used, fmLeaked, removed, path, mkDir, dirRef, newSec, ofs, rmRef, fd, calls, goal>>
    /\ Track

(* getDirAndInode returns true: get_next_part found no component left. *)
Walked(t, g) == pc[t] = "w_step" /\ wi[t] > Len(path[t]) /\ goal[t] = g

-----------------------------------------------------------------------------
(***************************************************************************)
(* filesys_create(path, 0, isDir)                                          *)
(***************************************************************************)
CResolve(t, p, isD) == StartWalk(t, p, "create", isD)

(* With the directory and the inode the last name names, if any, open.    *)
CWalked(t) ==
    /\ Walked(t, "create")
    /\ pc' = [pc EXCEPT ![t] = "c_alloc"]
    /\ UNCHANGED <<fsVars, path, mkDir, dirRef, inoRef, newSec, ofs, rmRef, fd, calls, walkVars>>
    /\ Track

(* block_allocate(&inode_sector) and inode_create: a fresh inode, empty.   *)
CAlloc(t) ==
    /\ pc[t] = "c_alloc"
    /\ ~fmLeaked
    /\ Pool \ used # {}
    /\ LET s == Min(Pool \ used) IN
       /\ used' = used \cup {s}
       /\ ents' = [ents EXCEPT ![s] = <<>>]
       /\ isDir' = [isDir EXCEPT ![s] = mkDir[t]]
       /\ parent' = [parent EXCEPT ![s] = NoSector]
       /\ newSec' = [newSec EXCEPT ![t] = s]
    /\ pc' = [pc EXCEPT ![t] = "c_lookup"]
    /\ UNCHANGED <<fmLeaked, openCnt, removed, path, mkDir, dirRef, inoRef, ofs, rmRef, fd, calls, walkVars>>
    /\ Track

(* block_allocate finds no free sector: it returns false holding           *)
(* free_map_lock; filesys_create closes the directory only (the inode it   *)
(* got from getDirAndInode is never closed).                               *)
CAllocFail(t) ==
    /\ pc[t] = "c_alloc"
    /\ ~fmLeaked
    /\ Pool \ used = {}
    /\ fmLeaked' = TRUE
    /\ Close({dirRef[t]})
    /\ used' = used \ ReleasedBy({dirRef[t]})
    /\ Idle(t)
    /\ UNCHANGED <<parent, ents, isDir>>
    /\ Track

(* dir_add's lookup.  If the name is in use dir_add fails and              *)
(* filesys_create releases inode_sector and closes the directory.         *)
CLookup(t) ==
    /\ pc[t] = "c_lookup"
    /\ IF lookup(dirRef[t], Last(path[t])) # 0
         THEN /\ Close({dirRef[t]})
              /\ used' = (used \ {newSec[t]}) \ ReleasedBy({dirRef[t]})
              /\ Idle(t)
              /\ UNCHANGED <<parent, ents, isDir, fmLeaked>>
         ELSE /\ pc' = [pc EXCEPT ![t] = "c_scan"]
              /\ ofs' = [ofs EXCEPT ![t] = 1]
              /\ UNCHANGED <<fsVars, path, mkDir, dirRef, inoRef, newSec, rmRef, fd, calls, walkVars>>
    /\ Track

(* dir_add's scan, one inode_read_at of an entry per step: an entry in    *)
(* use moves ofs on; a free entry, or the end of the stream, ends it.      *)
CScanNext(t) ==
    /\ pc[t] = "c_scan"
    /\ ofs[t] <= Len(ents[dirRef[t]]) /\ ents[dirRef[t]][ofs[t]].in_use
    /\ ofs' = [ofs EXCEPT ![t] = @ + 1]
    /\ UNCHANGED <<fsVars, pc, path, mkDir, dirRef, inoRef, newSec, rmRef, fd, calls, walkVars>>
    /\ Track

CScanFound(t) ==
    /\ pc[t] = "c_scan"
    /\ IF ofs[t] > Len(ents[dirRef[t]]) THEN TRUE ELSE ~ents[dirRef[t]][ofs[t]].in_use
    /\ pc' = [pc EXCEPT ![t] = "c_write"]
    /\ UNCHANGED <<fsVars, path, mkDir, dirRef, inoRef, newSec, ofs, rmRef, fd, calls, walkVars>>
    /\ Track

(* inode_write_at past the end of the directory grows it (inode_resize),  *)
(* which may need block_allocate; on a disk full of data sectors (which   *)
(* this model does not count) it returns false holding free_map_lock, the *)
(* write returns 0 and dir_add fails: filesys_create releases             *)
(* inode_sector and closes the directory.                                  *)
CWriteFail(t) ==
    /\ pc[t] = "c_write"
    /\ ofs[t] > Len(ents[dirRef[t]]) /\ ~fmLeaked
    /\ fmLeaked' = TRUE
    /\ Close({dirRef[t]})
    /\ used' = (used \ {newSec[t]}) \ ReleasedBy({dirRef[t]})
    /\ Idle(t)
    /\ UNCHANGED <<parent, ents, isDir>>
    /\ Track

(* Mutant: the entry is written with the whole path as its name. *)
CWriteFullPath(t) ==
    /\ pc[t] = "c_write"
    /\ ents' = WriteEntry(dirRef[t], ofs[t],
                          [in_use |-> TRUE, name |-> path[t], inode_sector |-> newSec[t]])
    /\ parent' = IF mkDir[t] THEN setInodeParent(newSec[t], dirRef[t]) ELSE parent
    /\ Close({dirRef[t]})
    /\ used' = used \ ReleasedBy({dirRef[t]})
    /\ Idle(t)
    /\ UNCHANGED <<isDir, fmLeaked>>
    /\ Track

(* dir_add writes the entry at the slot it found; filesys_create sets the  *)
(* parent of a new directory and closes the directory.                     *)
CWrite(t) ==
    /\ pc[t] = "c_write"
    /\ ents' = WriteEntry(dirRef[t], ofs[t],
                          [in_use |-> TRUE, name |-> Last(path[t]), inode_sector |-> newSec[t]])
    /\ parent' = IF mkDir[t] THEN setInodeParent(newSec[t], dirRef[t]) ELSE parent
    /\ Close({dirRef[t]})
    /\ used' = used \ ReleasedBy({dirRef[t]})
    /\ Idle(t)
    /\ UNCHANGED <<isDir, fmLeaked>>
    /\ Track

-----------------------------------------------------------------------------
(***************************************************************************)
(* filesys_remove(path)                                                    *)
(***************************************************************************)
RResolve(t, p) == StartWalk(t, p, "remove", FALSE)

(* After getDirAndInode: a missing name fails (inode_close(NULL),         *)
(* dir_close(dir)); a directory goes to the emptiness check, a file to    *)
(* dir_remove.                                                             *)
RWalked(t) ==
    /\ Walked(t, "remove")
    /\ IF inoRef[t] = NoSector
         THEN /\ Close({dirRef[t]})
              /\ used' = used \ ReleasedBy({dirRef[t]})
              /\ Idle(t)
              /\ UNCHANGED <<parent, ents, isDir, fmLeaked>>
         ELSE /\ pc' = [pc EXCEPT ![t] = IF isDirectory(inoRef[t]) THEN "r_empty" ELSE "r_lookup"]
              /\ UNCHANGED <<fsVars, path, mkDir, dirRef, inoRef, newSec, ofs, rmRef, fd, calls, walkVars>>
    /\ Track

(* dirIsEmpty: no entry of d is in use. *)
dirIsEmpty(d) == \A i \in 1..Len(ents[d]) : ~ents[d][i].in_use

(* A directory: targetDir = dir_open(inode), dirIsEmpty, dir_close(targetDir), *)
(* which closes the inode getDirAndInode opened; inode stays in the local. *)
REmpty(t) ==
    /\ pc[t] = "r_empty"
    /\ pc' = [pc EXCEPT ![t] =
                IF dirIsEmpty(inoRef[t]) THEN "r_lookup" ELSE "r_end"]
    /\ Close({inoRef[t]})
    /\ used' = used \ ReleasedBy({inoRef[t]})
    /\ UNCHANGED <<parent, ents, isDir, fmLeaked, path, mkDir, dirRef, inoRef, newSec, ofs, rmRef, fd, calls, walkVars>>
    /\ Track

(* dir_remove's lookup of the name again: its entry's sector and offset; *)
(* if the name is gone dir_remove fails.                                   *)
RLookup(t) ==
    /\ pc[t] = "r_lookup"
    /\ LET i == lookup(dirRef[t], Last(path[t])) IN
       IF i = 0
         THEN /\ pc' = [pc EXCEPT ![t] = "r_end"]
              /\ UNCHANGED <<ofs, wSec>>
         ELSE /\ wSec' = [wSec EXCEPT ![t] = ents[dirRef[t]][i].inode_sector]
              /\ ofs' = [ofs EXCEPT ![t] = i]
              /\ pc' = [pc EXCEPT ![t] = "r_open"]
    /\ UNCHANGED <<fsVars, path, mkDir, dirRef, inoRef, newSec, rmRef, fd, calls, goal, wi>>
    /\ Track

(* dir_remove's inode_open(e.inode_sector). *)
ROpen(t) ==
    /\ pc[t] = "r_open"
    /\ openCnt' = Opened(<<wSec[t]>>)
    /\ rmRef' = [rmRef EXCEPT ![t] = wSec[t]]
    /\ wSec' = [wSec EXCEPT ![t] = NoSector]
    /\ pc' = [pc EXCEPT ![t] = "r_clear"]
    /\ UNCHANGED <<parent, ents, isDir, used, fmLeaked, removed, path, mkDir, dirRef, inoRef, newSec, ofs, fd, calls, goal, wi>>
    /\ Track

(* Mutant: the entry is not written back not-in-use. *)
RClearKeepingEntry(t) ==
    LET r == rmRef[t] IN
    /\ pc[t] = "r_clear"
    /\ openCnt' = Closed({r})
    /\ removed' = IF openCnt[r] = 1 THEN removed \ {r} ELSE removed \cup {r}
    /\ used' = IF openCnt[r] = 1 THEN used \ {r} ELSE used
    /\ pc' = [pc EXCEPT ![t] = "r_end"]
    /\ rmRef' = [rmRef EXCEPT ![t] = NoSector]
    /\ UNCHANGED <<parent, ents, isDir, fmLeaked, path, mkDir, dirRef, inoRef, newSec, ofs, fd, calls, walkVars>>
    /\ Track

(* dir_remove: write the entry read by lookup back, not in use, at the     *)
(* offset lookup returned; inode_remove; inode_close.                      *)
RClear(t) ==
    LET r == rmRef[t] IN
    /\ pc[t] = "r_clear"
    /\ ents' = WriteEntry(dirRef[t], ofs[t],
                          [in_use |-> FALSE, name |-> Last(path[t]), inode_sector |-> r])
    /\ openCnt' = Closed({r})
    /\ removed' = IF openCnt[r] = 1 THEN removed \ {r} ELSE removed \cup {r}
    /\ used' = IF openCnt[r] = 1 THEN used \ {r} ELSE used
    /\ pc' = [pc EXCEPT ![t] = "r_end"]
    /\ rmRef' = [rmRef EXCEPT ![t] = NoSector]
    /\ UNCHANGED <<parent, isDir, fmLeaked, path, mkDir, dirRef, inoRef, newSec, ofs, fd, calls, walkVars>>
    /\ Track

(* filesys_remove's inode_close(inode) and dir_close(dir). *)
REnd(t) ==
    /\ pc[t] = "r_end"
    /\ Close({inoRef[t], dirRef[t]})
    /\ used' = used \ ReleasedBy({inoRef[t], dirRef[t]})
    /\ Idle(t)
    /\ UNCHANGED <<parent, ents, isDir, fmLeaked>>
    /\ Track

-----------------------------------------------------------------------------
(* filesys_open(path); a thread holds one file at a time (a model bound). *)
FOpen(t, p) == fd[t] = NoSector /\ StartWalk(t, p, "open", FALSE)

(* After getDirAndInode: dir_close(dir), then file_open(inode), or NULL   *)
(* if the name was missing.                                                *)
FWalked(t) ==
    /\ Walked(t, "open")
    /\ Close({dirRef[t]})
    /\ used' = used \ ReleasedBy({dirRef[t]})
    /\ fd' = [fd EXCEPT ![t] = inoRef[t]]
    /\ Return(t)
    /\ UNCHANGED <<parent, ents, isDir, fmLeaked>>
    /\ Track

(* file_close: inode_close of the file's inode. *)
FClose(t) ==
    /\ pc[t] = "idle" /\ fd[t] # NoSector
    /\ Close({fd[t]})
    /\ used' = used \ ReleasedBy({fd[t]})
    /\ fd' = [fd EXCEPT ![t] = NoSector]
    /\ UNCHANGED <<parent, ents, isDir, fmLeaked, pc, path, mkDir, dirRef, inoRef, newSec, ofs, rmRef, calls, walkVars>>
    /\ Track

(* Every thread has made its calls and closed its file. *)
Finished ==
    /\ calls = 0 /\ \A t \in Thread : pc[t] = "idle" /\ fd[t] = NoSector
    /\ UNCHANGED <<vars, dangled>>

-----------------------------------------------------------------------------
(* After do_format and filesys_init: an empty root open as the cwd. *)
Init ==
    /\ ents = [s \in Sector |-> IF s = ROOT_DIR_SECTOR THEN [i \in 1..RootSlots |-> FreeEntry] ELSE <<>>]
    /\ isDir = [s \in Sector |-> s = ROOT_DIR_SECTOR]
    /\ parent = [s \in Sector |-> NoSector]
    /\ used = {ROOT_DIR_SECTOR}
    /\ fmLeaked = FALSE
    /\ openCnt = [s \in Sector |-> Base(s)]
    /\ removed = {}
    /\ pc = [t \in Thread |-> "idle"]
    /\ path = [t \in Thread |-> <<>>]
    /\ mkDir = [t \in Thread |-> FALSE]
    /\ dirRef = [t \in Thread |-> NoSector]
    /\ inoRef = [t \in Thread |-> NoSector]
    /\ newSec = [t \in Thread |-> NoSector]
    /\ ofs = [t \in Thread |-> 0]
    /\ rmRef = [t \in Thread |-> NoSector]
    /\ fd = [t \in Thread |-> NoSector]
    /\ calls = MaxCalls
    /\ goal = [t \in Thread |-> "none"]
    /\ wi = [t \in Thread |-> 0]
    /\ wSec = [t \in Thread |-> NoSector]
    /\ dangled = FALSE

Next ==
    \/ \E t \in Thread :
          \/ \E p \in Path, isD \in BOOLEAN : CResolve(t, p, isD)
          \/ \E p \in Path : RResolve(t, p) \/ FOpen(t, p)
          \/ WalkFail(t) \/ WalkStep(t) \/ WalkOpen(t)
          \/ CWalked(t) \/ CAlloc(t) \/ CAllocFail(t) \/ CLookup(t)
          \/ CScanNext(t) \/ CScanFound(t) \/ CWrite(t) \/ CWriteFail(t)
          \/ RWalked(t) \/ REmpty(t) \/ RLookup(t) \/ ROpen(t) \/ RClear(t) \/ REnd(t)
          \/ FWalked(t) \/ FClose(t)
    \/ Finished

Spec == Init /\ [][Next]_<<vars, dangled>>

-----------------------------------------------------------------------------
Entry == [in_use : BOOLEAN, name : Name \cup {""}, inode_sector : Sector \cup {NoSector}]
PC == {"idle", "w_step", "w_open", "c_alloc", "c_lookup", "c_scan", "c_write",
       "r_empty", "r_lookup", "r_open", "r_clear", "r_end"}

TypeOK ==
    /\ ents \in [Sector -> Seq(Entry)]
    /\ isDir \in [Sector -> BOOLEAN]
    /\ parent \in [Sector -> Sector \cup {NoSector}]
    /\ used \subseteq Sector /\ removed \subseteq Sector
    /\ openCnt \in [Sector -> Nat]
    /\ pc \in [Thread -> PC]
    /\ ofs \in [Thread -> Nat]
    /\ calls \in 0..MaxCalls
    /\ goal \in [Thread -> {"none", "create", "remove", "open"}]
    /\ wSec \in [Thread -> Sector \cup {NoSector}]
    /\ dangled \in BOOLEAN

(* The two properties below are claimed only while every reference a      *)
(* thread holds has been counted (~dangled): once a double inode_close has *)
(* dropped open_cnt below the references held, a thread can use a freed    *)
(* inode, whose behaviour is undefined (RefsCounted reports it).    *)

(* An in-use entry of an allocated directory names an allocated inode:     *)
(* dir_remove clears the entry before inode_remove, and the sector is only *)
(* released at the last inode_close of a removed inode, whatever the order *)
(* of concurrent creates, removes, opens and closes.                       *)
EntryTargetsAllocated ==
    ~dangled =>
        \A d \in used : \A i \in 1..Len(ents[d]) :
            isDir[d] /\ ents[d][i].in_use => ents[d][i].inode_sector \in used

(* Remove while open: a file or directory some thread has open through     *)
(* filesys_open keeps its inode sector until that thread closes it, even   *)
(* after filesys_remove of its name.                                       *)
OpenInodeAllocated ==
    ~dangled => \A t \in Thread : fd[t] # NoSector => fd[t] \in used

(* Every reference open_cnt counts is held by someone who will close it:   *)
(* filesys_create must close the inode getDirAndInode opened.              *)
NoLostRef ==
    \A s \in Sector : openCnt[s] <= Base(s) + HeldCount(s)

(* No two in-use entries of a directory have the same name: dir_add fails  *)
(* when lookup finds the name.                                             *)
UniqueNames ==
    \A d \in Sector : \A i, j \in 1..Len(ents[d]) :
        i # j /\ ents[d][i].in_use /\ ents[d][j].in_use => ents[d][i].name # ents[d][j].name

=============================================================================
