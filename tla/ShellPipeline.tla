--------------------------- MODULE ShellPipeline ---------------------------
(***************************************************************************)
(* How the shell of src/Personal/hw-shell/shell.c runs one command line    *)
(* (main, lines 238-357).  The shell forks a child C and waits for it; C   *)
(* splits the words at each "|" and, for every "|", makes a pipe, forks a  *)
(* stage process with its stdout on the pipe, and waits for that stage     *)
(* before making the next pipe; then C itself runs the last stage on the   *)
(* last pipe's read end.  Stage j of n is numbered 1..n; pipe j connects   *)
(* stage j to stage j + 1 and holds at most PipeCapacity chunks.           *)
(* What a stage does once exec'd is the program's business: it may write   *)
(* out[j] chunks, read its stdin, and exits once it has written them and   *)
(* read its stdin to end-of-file.                                          *)
(***************************************************************************)
EXTENDS Naturals

CONSTANTS
    MaxStages,      \* most stages on a command line
    MaxOut,         \* most chunks a stage writes to its stdout
    PipeCapacity    \* chunks a pipe holds before a write blocks

VARIABLES
    sh,       \* the shell: "read", "wait" (in wait(&status)), "prompt"
    n,        \* stages of the line read (0 for a built-in)
    out,      \* out[j]: chunks stage j writes
    cpc,      \* C: "loop", "wait" (in wait(&subprocessStatus)), "exec", "exit"
    i,        \* C's loop index, as the stage it forks next
    st,       \* st[j]: "none", "forked", "run", "exit"
    wrote,    \* wrote[j]: chunks stage j has written
    buf       \* buf[j]: chunks in pipe j

vars == <<sh, n, out, cpc, i, st, wrote, buf>>

Stage == 1 .. MaxStages

Init ==
    /\ sh = "read"
    /\ n = 0
    /\ out \in [Stage -> 0 .. MaxOut]
    /\ cpc = "none"
    /\ i = 1
    /\ st = [j \in Stage |-> "none"]
    /\ wrote = [j \in Stage |-> 0]
    /\ buf = [j \in Stage |-> 0]

(* A built-in (lookup(...) >= 0) runs in the shell itself. *)
Builtin ==
    /\ sh = "read"
    /\ sh' = "prompt"
    /\ UNCHANGED <<n, out, cpc, i, st, wrote, buf>>

(* Any other line: fork; the child builds execArgv and counts the "|"s;   *)
(* the shell waits.                                                        *)
Fork(k) ==
    /\ sh = "read"
    /\ sh' = "wait"
    /\ n' = k
    /\ cpc' = "loop"
    /\ UNCHANGED <<out, i, st, wrote, buf>>

(* C, for a "|" still ahead: pipe(pipefd), fork the stage; the parent      *)
(* closes pipefd[1] and waits.  A failed fork makes C return -1.           *)
ForkStage ==
    /\ cpc = "loop" /\ i < n
    /\ st' = [st EXCEPT ![i] = "forked"]
    /\ cpc' = "wait"
    /\ UNCHANGED <<sh, n, out, i, wrote, buf>>

ForkFails ==
    /\ cpc = "loop" /\ i < n
    /\ cpc' = "exit"
    /\ UNCHANGED <<sh, n, out, i, st, wrote, buf>>

(* wait(&subprocessStatus) returns once stage i has exited; prevFD is the  *)
(* read end of pipe i, and the loop goes on to the next "|".               *)
Reap ==
    /\ cpc = "wait" /\ st[i] = "exit"
    /\ cpc' = "loop"
    /\ i' = i + 1
    /\ UNCHANGED <<sh, n, out, st, wrote, buf>>

(* After the loop C runs the last stage: redirect, pathResolution, execv; *)
(* a redirect or path error makes it return -1.                            *)
ExecLast(ok) ==
    /\ cpc = "loop" /\ i = n
    /\ cpc' = IF ok THEN "exec" ELSE "exit"
    /\ st' = [st EXCEPT ![n] = IF ok THEN "run" ELSE "exit"]
    /\ UNCHANGED <<sh, n, out, i, wrote, buf>>

(* A forked stage breaks out of the loop and does the same. *)
ExecStage(j, ok) ==
    /\ st[j] = "forked"
    /\ st' = [st EXCEPT ![j] = IF ok THEN "run" ELSE "exit"]
    /\ UNCHANGED <<sh, n, out, cpc, i, wrote, buf>>

(* The exec'd programs: a write to a full pipe blocks. *)
Write(j) ==
    /\ st[j] = "run" /\ j < n
    /\ wrote[j] < out[j] /\ buf[j] < PipeCapacity
    /\ wrote' = [wrote EXCEPT ![j] = @ + 1]
    /\ buf' = [buf EXCEPT ![j] = @ + 1]
    /\ UNCHANGED <<sh, n, out, cpc, i, st>>

Read(j) ==
    /\ st[j] = "run" /\ j > 1 /\ buf[j - 1] > 0
    /\ buf' = [buf EXCEPT ![j - 1] = @ - 1]
    /\ UNCHANGED <<sh, n, out, cpc, i, st, wrote>>

(* End-of-file on pipe j - 1: it is empty and stage j - 1, the only       *)
(* process left holding its write end, has exited.                         *)
AtEOF(j) == IF j = 1 THEN TRUE ELSE buf[j - 1] = 0 /\ st[j - 1] = "exit"

Exit(j) ==
    /\ st[j] = "run"
    /\ j = n \/ wrote[j] = out[j]
    /\ AtEOF(j)
    /\ st' = [st EXCEPT ![j] = "exit"]
    /\ cpc' = IF j = n THEN "exit" ELSE cpc
    /\ UNCHANGED <<sh, n, out, i, wrote, buf>>

(* wait(&status) returns when C (or the last stage it became) exits. *)
ShellReap ==
    /\ sh = "wait" /\ cpc = "exit"
    /\ sh' = "prompt"
    /\ UNCHANGED <<n, out, cpc, i, st, wrote, buf>>

Stages ==
    \/ ForkStage \/ ForkFails \/ Reap
    \/ \E ok \in BOOLEAN : ExecLast(ok) \/ \E j \in Stage : ExecStage(j, ok)
    \/ \E j \in Stage : Write(j) \/ Read(j) \/ Exit(j)

Next ==
    \/ Builtin \/ \E k \in Stage : Fork(k)
    \/ Stages \/ ShellReap

(* The kernel runs every runnable process: weak fairness of each process's *)
(* steps.  Failures (a failed fork, exec or redirect) get none.            *)
Fairness ==
    /\ WF_vars(ForkStage \/ Reap \/ ExecLast(TRUE) \/ ShellReap)
    /\ \A j \in Stage : WF_vars(ExecStage(j, TRUE) \/ Write(j) \/ Read(j) \/ Exit(j))

Spec == Init /\ [][Next]_vars /\ Fairness

-----------------------------------------------------------------------------
(* Every command the shell forks for, whatever its stages write, comes    *)
(* back to the prompt: the pipeline's processes all run to completion and  *)
(* the shell's wait(&status) returns.  (Whether a line is ever typed is    *)
(* the user's business.)                                                   *)
CommandCompletes == sh = "wait" ~> sh = "prompt"
=============================================================================
