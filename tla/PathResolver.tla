---------------------------- MODULE PathResolver ----------------------------
(***************************************************************************)
(* get_next_part (src/Group/src/filesys/directory.c:233-256), the          *)
(* splitter every path walk of the file system goes through.  A C string  *)
(* is a sequence of one-character strings, its terminating NUL the end of *)
(* the sequence; *srcp is the rest of the string the next call starts     *)
(* from.  Directory takes the components the walk sees from here: a name, *)
(* "." or "..", or the -1 of a part longer than NAME_MAX (TooLong).       *)
(***************************************************************************)
EXTENDS Naturals, Sequences, SequencesExt

CONSTANTS
    NAME_MAX,     \* longest file name part (14 in directory.h)
    Letter        \* characters of a path other than '/' and '.'

Slash == "/"
Period == "."
Char == Letter \cup {Slash, Period}

(* The parts the walk compares with strcmp, and the -1 of a too-long part. *)
Dot == <<Period>>
DotDot == <<Period, Period>>
TooLong == <<"<name too long>">>

(* The string s with its leading slashes skipped. *)
SkipSlashes(s) ==
    LET i == SelectInSeq(s, LAMBDA c : c # Slash) IN
    IF i = 0 THEN <<>> ELSE SubSeq(s, i, Len(s))

(* The characters of s up to the first slash. *)
UpToSlash(s) ==
    LET e == SelectInSeq(s, LAMBDA c : c = Slash) IN
    IF e = 0 THEN s ELSE SubSeq(s, 1, e - 1)

(***************************************************************************)
(* get_next_part(part, &src): 0 if only slashes are left (src unchanged); *)
(* -1 once the part has more than NAME_MAX characters (the first NAME_MAX *)
(* are copied, src is not advanced); else 1, the part, and src advanced   *)
(* past it.                                                                *)
(***************************************************************************)
get_next_part(src) ==
    LET s == SkipSlashes(src)
        run == UpToSlash(s)
    IN IF s = <<>> THEN [ret |-> 0, part |-> <<>>, rest |-> src]
       ELSE IF Len(run) > NAME_MAX
         THEN [ret |-> -1, part |-> SubSeq(run, 1, NAME_MAX), rest |-> src]
         ELSE [ret |-> 1, part |-> run, rest |-> SubSeq(s, Len(run) + 1, Len(s))]

(***************************************************************************)
(* getDirAndFile(fullDir, &resultDir, &resultFile) (directory.c:394-437).  *)
(* Its loop calls get_next_part into curPart; from the second part on it  *)
(* appends prevPart and a '/' to the directory string, then copies curPart *)
(* into prevPart.  At a 0 curPart still holds the last part, which is      *)
(* prevPart, and becomes the file name; a -1 returns false.  The           *)
(* directory string starts as "/" for an absolute path.                    *)
(***************************************************************************)
(* Mutant: every part, the current one included, is appended at once. *)
RECURSIVE DirAndFileLoopAppendsCur(_, _, _)
DirAndFileLoopAppendsCur(src, dir, prev) ==
    LET r == get_next_part(src) IN
    IF r.ret = 1
      THEN DirAndFileLoopAppendsCur(r.rest, dir \o r.part \o <<Slash>>, r.part)
      ELSE [ret |-> r.ret, dir |-> dir, file |-> prev]

RECURSIVE DirAndFileLoop(_, _, _)
DirAndFileLoop(src, dir, prev) ==
    LET r == get_next_part(src) IN
    IF r.ret = 1
      THEN DirAndFileLoop(r.rest, IF prev # <<>> THEN dir \o prev \o <<Slash>> ELSE dir, r.part)
      ELSE [ret |-> r.ret, dir |-> dir, file |-> prev]

(* Mutant: the "/" of an absolute path is not put first. *)
getDirAndFileNoRoot(fullDir) ==
    LET r == DirAndFileLoop(fullDir, <<>>, <<>>)
    IN [ok |-> r.ret # -1, dir |-> r.dir, file |-> r.file]

getDirAndFile(fullDir) ==
    LET r == DirAndFileLoop(fullDir,
                            IF fullDir # <<>> /\ fullDir[1] = Slash THEN <<Slash>> ELSE <<>>,
                            <<>>)
    IN [ok |-> r.ret # -1, dir |-> r.dir, file |-> r.file]

-----------------------------------------------------------------------------
(* Reference: the components of s are its maximal runs of non-slash       *)
(* characters, in order; the split stops at the first run longer than     *)
(* NAME_MAX.                                                               *)
Runs(s) ==
    {r \in (1..Len(s)) \X (1..Len(s)) :
        /\ r[1] <= r[2]
        /\ \A k \in r[1]..r[2] : s[k] # Slash
        /\ r[1] = 1 \/ s[r[1] - 1] = Slash
        /\ r[2] = Len(s) \/ s[r[2] + 1] = Slash}

RefSplit(s) ==
    LET rs == SetToSortSeq(Runs(s), LAMBDA x, y : x[1] < y[1])
        parts == [k \in 1..Len(rs) |-> SubSeq(s, rs[k][1], rs[k][2])]
        long == SelectInSeq(parts, LAMBDA q : Len(q) > NAME_MAX)
    IN IF long = 0 THEN parts ELSE SubSeq(parts, 1, long - 1) \o <<TooLong>>

=============================================================================
