----------------------------- MODULE PathSplit -----------------------------
(***************************************************************************)
(* The loop `while (get_next_part(fileName, &dirPath) == 1)' of           *)
(* getDirAndInode (src/Group/src/filesys/directory.c:231-256, 292), one   *)
(* character per step.  dirPath is the caller's pointer, src the local    *)
(* copy get_next_part advances, fileName the part buffer of NAME_MAX + 1  *)
(* chars (its contents up to dst).  path and seen are history: the string *)
(* the walk was given and the components the loop body has received.      *)
(* Its results are checked against RefSplit, the path's maximal runs of   *)
(* non-slash characters.                                                   *)
(***************************************************************************)
EXTENDS Naturals, Sequences, PathResolver

CONSTANT MaxPathLen   \* longest path string the loop is run on

VARIABLES path, dirPath, src, fileName, pc, ret, seen

vars == <<path, dirPath, src, fileName, pc, ret, seen>>

NUL == "\\0"

(* *src: the character at index i, NUL past the end of the string. *)
At(i) == IF i <= Len(path) THEN path[i] ELSE NUL

Init ==
    /\ path \in SeqOf(Char, MaxPathLen)
    /\ dirPath = 1
    /\ src = 1
    /\ fileName = <<>>
    /\ pc = "skip"
    /\ ret = 1
    /\ seen = <<>>

(* Mutant: the slash-skipping loop forgets src++. *)
SkipSlashStuck ==
    /\ pc = "skip"
    /\ At(src) = Slash
    /\ UNCHANGED <<path, dirPath, src, fileName, pc, ret, seen>>

(* while ( *src == '/') src++; *)
SkipSlash ==
    /\ pc = "skip"
    /\ At(src) = Slash
    /\ src' = src + 1
    /\ UNCHANGED <<path, dirPath, fileName, pc, ret, seen>>

(* if ( *src == '\0') return 0; and the walk's loop ends. *)
ReturnEnd ==
    /\ pc = "skip"
    /\ At(src) = NUL
    /\ pc' = "done"
    /\ ret' = 0
    /\ UNCHANGED <<path, dirPath, src, fileName, seen>>

(* The first character of a part: dst = part. *)
StartPart ==
    /\ pc = "skip"
    /\ At(src) \notin {Slash, NUL}
    /\ pc' = "copy"
    /\ fileName' = <<>>
    /\ UNCHANGED <<path, dirPath, src, ret, seen>>

(* Mutant: the bound is tested as dst <= part + NAME_MAX. *)
CopyOneMore ==
    /\ pc = "copy"
    /\ At(src) \notin {Slash, NUL}
    /\ Len(fileName) <= NAME_MAX
    /\ fileName' = Append(fileName, At(src))
    /\ src' = src + 1
    /\ UNCHANGED <<path, dirPath, pc, ret, seen>>

(* if (dst < part + NAME_MAX) *dst++ = *src; src++; *)
Copy ==
    /\ pc = "copy"
    /\ At(src) \notin {Slash, NUL}
    /\ Len(fileName) < NAME_MAX
    /\ fileName' = Append(fileName, At(src))
    /\ src' = src + 1
    /\ UNCHANGED <<path, dirPath, pc, ret, seen>>

(* else return -1; dirPath is not advanced and the walk's loop ends. *)
ReturnTooLong ==
    /\ pc = "copy"
    /\ At(src) \notin {Slash, NUL}
    /\ Len(fileName) >= NAME_MAX
    /\ pc' = "done"
    /\ ret' = -1
    /\ UNCHANGED <<path, dirPath, src, fileName, seen>>

(* Mutant: a part that filled the buffer is refused at its end. *)
ReturnPartStrict ==
    /\ pc = "copy"
    /\ At(src) \in {Slash, NUL}
    /\ IF Len(fileName) < NAME_MAX
         THEN /\ dirPath' = src
              /\ seen' = Append(seen, fileName)
              /\ pc' = "skip"
              /\ UNCHANGED ret
         ELSE /\ pc' = "done"
              /\ ret' = -1
              /\ UNCHANGED <<dirPath, seen>>
    /\ UNCHANGED <<path, src, fileName>>

(* *dst = '\0'; *srcp = src; return 1; the loop body receives the part   *)
(* and calls get_next_part again from the advanced dirPath.               *)
ReturnPart ==
    /\ pc = "copy"
    /\ At(src) \in {Slash, NUL}
    /\ dirPath' = src
    /\ seen' = Append(seen, fileName)
    /\ pc' = "skip"
    /\ UNCHANGED <<path, src, fileName, ret>>

Next == SkipSlash \/ ReturnEnd \/ StartPart \/ Copy \/ ReturnTooLong \/ ReturnPart

Spec == Init /\ [][Next]_vars

(* The loop is straight-line code of one thread: once running it keeps     *)
(* taking steps.                                                           *)
FairSpec == Spec /\ WF_vars(Next)

-----------------------------------------------------------------------------
(* The rest of the path from index i. *)
Suffix(i) == SubSeq(path, i, Len(path))

(* The components the walk acts on once the loop has ended: the parts     *)
(* received, and TooLong if it stopped at a -1.                           *)
Result == seen \o (IF ret = -1 THEN <<TooLong>> ELSE <<>>)

(* fileName never holds more than NAME_MAX characters: the copy loop's    *)
(* bound keeps the part and its terminator inside char[NAME_MAX + 1].     *)
TypeOK ==
    /\ path \in Seq(Char)
    /\ dirPath \in 1..Len(path) + 1
    /\ src \in dirPath..Len(path) + 1
    /\ fileName \in Seq(Letter \cup {Period}) /\ Len(fileName) <= NAME_MAX
    /\ pc \in {"skip", "copy", "done"}
    /\ ret \in {1, 0, -1}

(* When the loop has ended, the walk has received exactly the path's      *)
(* maximal runs of non-slash characters in order, stopped at the first    *)
(* one longer than NAME_MAX: runs of slashes, leading and trailing        *)
(* slashes and a part of exactly NAME_MAX characters included.            *)
SplitMatches == pc = "done" => Result = RefSplit(path)

(* The walk's loop over get_next_part ends on every path: each call        *)
(* advances src past the slashes and the part it copies, or returns 0 or   *)
(* -1, and no call leaves the loop where it started.                       *)
LoopEnds == <>(pc = "done")
(* getDirAndFile on the same string: it fails exactly when a part is      *)
(* longer than NAME_MAX (unlike the walk, which goes on with a truncated   *)
(* name); otherwise the file is the last part, and the directory string,   *)
(* split again, gives every part before it and is absolute exactly when   *)
(* the path is.  A path of slashes only yields the empty name, which       *)
(* dir_add refuses.                                                        *)
DirAndFileSplits ==
    LET r == getDirAndFile(path)
        c == RefSplit(path)
        Absolute(q) == q # <<>> /\ q[1] = Slash
    IN /\ r.ok = (c = <<>> \/ Last(c) # TooLong)
       /\ r.ok /\ c # <<>> => /\ RefSplit(r.dir) = Front(c)
                              /\ r.file = Last(c)
                              /\ Absolute(r.dir) = Absolute(path)
       /\ r.ok /\ c = <<>> => r.file = <<>>

(* The directory string getDirAndFile builds, with its terminator, fits   *)
(* in tempResultDir, malloc'd for strlen(fullDir) + 1 characters, at      *)
(* whatever part the loop stops; the name fits tempResultFile's           *)
(* NAME_MAX + 1.                                                           *)
DirFitsBuffer ==
    LET r == getDirAndFile(path) IN
    /\ Len(r.dir) + 1 <= Len(path) + 1
    /\ Len(r.file) + 1 <= NAME_MAX + 1
=============================================================================
