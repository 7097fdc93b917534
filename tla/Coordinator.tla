---------------------------- MODULE Coordinator ----------------------------
(***************************************************************************)
(* The map-reduce coordinator of                                           *)
(* src/Personal/hw-map-reduce/coordinator/coordinator.c.                   *)
(*                                                                         *)
(* The coordinator is one process running svc_run: it serves one RPC at a  *)
(* time, so each handler (submit_job_1_svc, get_task_1_svc,                *)
(* finish_task_1_svc) is one atomic step.  poll_job_1_svc changes nothing  *)
(* and is the operator poll_job.  A jobInfo is the record info[j]; its     *)
(* GLists are sequences, front = g_list_first.  Time is abstracted to the  *)
(* set `late' of running tasks whose start time is at least               *)
(* TASK_TIMEOUT_SECS old: time passing marks the oldest running task of a  *)
(* list late (tasks are appended to a running list when they start, so     *)
(* the late ones are a prefix of it).                                      *)
(*                                                                         *)
(* The workers are not in the repository: a worker asks for a task,       *)
(* runs it and reports it with finish_task, or crashes (which is also what *)
(* a lost get_task reply amounts to).  finish_task requests travel over    *)
(* UDP or TCP: one may be lost, or executed twice (a retransmission).      *)
(***************************************************************************)
EXTENDS Integers, Sequences, SequencesExt, FiniteSets

CONSTANTS
    Worker,        \* worker processes
    MaxJobs,       \* jobs the client submits in all (a model bound)
    MapCounts,     \* files_len values a submit_job request may carry
    ReduceCounts,  \* n_reduce values a submit_job request may carry
    Outcomes,      \* success values a worker may report
    MaxFaults      \* worker crashes, lost and retransmitted requests in all

ASSUME /\ MaxJobs \in Nat /\ MaxFaults \in Nat
       /\ MapCounts \subseteq Nat /\ ReduceCounts \subseteq Nat
       /\ Outcomes \subseteq BOOLEAN /\ Outcomes # {}

JobID == 0..MaxJobs-1
MaxTasks == Max(MapCounts \cup ReduceCounts \cup {0})

VARIABLES
    nextJobID,   \* state->nextJobID
    jobQueue,    \* state->jobQueue: the ids of the jobs get_task serves
    jobIDMap,    \* the ids state->jobIDMap holds a jobInfo for
    info,        \* info[j]: the jobInfo of job j
    late,        \* <<j, reduce, task>>: running, started TASK_TIMEOUT_SECS ago
    alive,       \* the coordinator process is running
    holds,       \* holds[w]: the get_task reply worker w is working on
    msgs,        \* finish_task requests in flight
    ran,         \* history: ran[j] holds <<reduce, task>> some worker completed
    faults       \* faults left

vars == <<nextJobID, jobQueue, jobIDMap, info, late, alive, holds, msgs, ran, faults>>

(* The GList fields of a jobInfo holding the waiting and the running tasks *)
(* of the map (r = FALSE) or the reduce (r = TRUE) phase.                 *)
WaitingList(r) == IF r THEN "waitingReduces" ELSE "waitingMaps"
RunningList(r) == IF r THEN "runningReduces" ELSE "runningMaps"

(* fillFields: the reply that tells a worker to wait. *)
WaitReply == [job_id |-> -1, task |-> -1, reduce |-> FALSE, wait |-> TRUE]

(* Mutant: the task lists numbered from 1. *)
NewJobFromOne(nm, nr) ==
    [failed |-> FALSE, numTotalMaps |-> nm, numTotalReduces |-> nr,
     waitingMaps |-> [i \in 1..nm |-> i], runningMaps |-> <<>>,
     waitingReduces |-> [i \in 1..nr |-> i], runningReduces |-> <<>>]

(* submit_job's new jobInfo: every task waiting, none running. *)
NewJob(nm, nr) ==
    [failed |-> FALSE, numTotalMaps |-> nm, numTotalReduces |-> nr,
     waitingMaps |-> [i \in 1..nm |-> i - 1], runningMaps |-> <<>>,
     waitingReduces |-> [i \in 1..nr |-> i - 1], runningReduces |-> <<>>]

(* g_list_delete_link of the first link holding x, as the loops of         *)
(* finish_task do (they break after the first match).                      *)
DeleteFirst(s, x) ==
    LET i == SelectInSeq(s, LAMBDA y : y = x) IN IF i = 0 THEN s ELSE RemoveAt(s, i)

(***************************************************************************)
(* get_task_1_svc's loop over jobQueue.  `st' holds what the loop changes  *)
(* (q = jobQueue, info, late) and its outcome (reply, crash); i is the    *)
(* position of `cur'.                                                      *)
(***************************************************************************)
(* Hand out the first waiting task of the phase: delete its link, append   *)
(* it to the running list and record its start time.                      *)
Hand(st, j, r) ==
    LET k == Head(st.info[j][WaitingList(r)]) IN
    [st EXCEPT !.info[j][WaitingList(r)] = Tail(@),
               !.info[j][RunningList(r)] = Append(@, k),
               !.reply = [job_id |-> j, task |-> k, reduce |-> r, wait |-> FALSE]]

(* Mutant: the timed-out task is appended to the waiting list but its     *)
(* running link is kept.                                                  *)
RequeueKeepingRunning(st, j, r) ==
    LET k == Head(st.info[j][RunningList(r)]) IN
    [st EXCEPT !.info[j][WaitingList(r)] = Append(@, k), !.late = @ \ {<<j, r, k>>}]

(* Mutant: the timed-out task is dropped instead of requeued. *)
RequeueDropping(st, j, r) ==
    LET k == Head(st.info[j][RunningList(r)]) IN
    [st EXCEPT !.info[j][RunningList(r)] = Tail(@), !.late = @ \ {<<j, r, k>>}]

(* A timed-out task: remove its start time and its running link, and      *)
(* append it to the waiting list.                                         *)
Requeue(st, j, r) ==
    LET k == Head(st.info[j][RunningList(r)]) IN
    [st EXCEPT !.info[j][RunningList(r)] = Tail(@),
               !.info[j][WaitingList(r)] = Append(@, k),
               !.late = @ \ {<<j, r, k>>}]

(* The earliest running task of a phase: requeued (and the loop continues  *)
(* at the same job) if it timed out, otherwise the loop moves on.          *)
RECURSIVE Scan(_, _, _)
Running(st, i, r, ub) ==
    LET j == st.q[i] IN
    IF <<j, r, Head(st.info[j][RunningList(r)])>> \in st.late
      THEN Scan(Requeue(st, j, r), i, ub)
      ELSE Scan(st, i + 1, ub)

(* A job with no task left: g_list_delete_link(jobQueue, cur), then        *)
(* cur = cur->next reads the freed link.  g_list_delete_link set its next  *)
(* to NULL before freeing it; the allocator may have overwritten it since. *)
(* ub = "null": the loop ends; ub = "garbage": the coordinator crashes.    *)
Finished(st, i, ub) ==
    [st EXCEPT !.q = RemoveAt(@, i), !.crash = (ub = "garbage")]

Scan(st, i, ub) ==
    IF i > Len(st.q) THEN st
    ELSE LET job == st.info[st.q[i]] IN
         IF job.waitingMaps # <<>> THEN Hand(st, st.q[i], FALSE)
         ELSE IF job.runningMaps # <<>> THEN Running(st, i, FALSE, ub)
         ELSE IF job.waitingReduces # <<>> THEN Hand(st, st.q[i], TRUE)
         ELSE IF job.runningReduces # <<>> THEN Running(st, i, TRUE, ub)
         ELSE Finished(st, i, ub)

(* Mutant: done as soon as no reduce is waiting. *)
poll_job_waiting_only(j) ==
    IF j < 0 \/ j >= nextJobID THEN [done |-> FALSE, failed |-> FALSE, invalid |-> TRUE]
    ELSE IF j \notin jobIDMap THEN [done |-> TRUE, failed |-> FALSE, invalid |-> FALSE]
    ELSE IF info[j].failed THEN [done |-> TRUE, failed |-> TRUE, invalid |-> FALSE]
    ELSE [done |-> info[j].waitingReduces = <<>>, failed |-> FALSE, invalid |-> FALSE]

(* poll_job_1_svc(j) *)
poll_job(j) ==
    IF j < 0 \/ j >= nextJobID THEN [done |-> FALSE, failed |-> FALSE, invalid |-> TRUE]
    ELSE IF j \notin jobIDMap THEN [done |-> TRUE, failed |-> FALSE, invalid |-> FALSE]
    ELSE IF info[j].failed THEN [done |-> TRUE, failed |-> TRUE, invalid |-> FALSE]
    ELSE [done |-> info[j].waitingReduces = <<>> /\ info[j].runningReduces = <<>>,
          failed |-> FALSE, invalid |-> FALSE]

-----------------------------------------------------------------------------
(* submit_job_1_svc for a valid app (an invalid one is refused before any *)
(* change).  The job takes the next id; if the malloc of its jobInfo fails *)
(* the id is used up with no job behind it.  A new job goes to the back of *)
(* jobQueue.                                                               *)
submit_job(nm, nr, mallocOK) ==
    /\ alive /\ nextJobID < MaxJobs
    /\ nextJobID' = nextJobID + 1
    /\ IF mallocOK
         THEN /\ info' = [info EXCEPT ![nextJobID] = NewJob(nm, nr)]
              /\ jobIDMap' = jobIDMap \cup {nextJobID}
              /\ jobQueue' = Append(jobQueue, nextJobID)
         ELSE UNCHANGED <<info, jobIDMap, jobQueue>>
    /\ UNCHANGED <<late, alive, holds, msgs, ran, faults>>

(* get_task_1_svc, asked by an idle worker, which works on what it gets. *)
get_task(w) ==
    /\ alive /\ holds[w] = WaitReply
    /\ \E ub \in {"null", "garbage"} :
         LET st == Scan([q |-> jobQueue, info |-> info, late |-> late,
                         reply |-> WaitReply, crash |-> FALSE], 1, ub)
         IN /\ jobQueue' = st.q
            /\ info' = st.info
            /\ late' = st.late
            /\ alive' = ~st.crash
            /\ holds' = [holds EXCEPT ![w] = st.reply]
    /\ UNCHANGED <<nextJobID, jobIDMap, msgs, ran, faults>>

(* finish_task_1_svc(m).  A failure marks the job failed; its loop meant   *)
(* to remove the job from jobQueue compares GPOINTER_TO_INT(cur), the      *)
(* link's address, with the job id, which no heap address equals, so the   *)
(* job stays queued.  A success deletes the task from its running list;    *)
(* a reduce that leaves no reduce waiting or running dequeues the job.     *)
finish_task(m) ==
    LET j == m.job_id
        r == m.reduce
        left == DeleteFirst(info[j][RunningList(r)], m.task)
    IN
    /\ IF j < 0 \/ j >= nextJobID \/ j \notin jobIDMap \/ info[j].failed
         THEN UNCHANGED <<info, jobQueue, late>>
       ELSE IF ~m.success
         THEN /\ info' = [info EXCEPT ![j].failed = TRUE]
              /\ UNCHANGED <<jobQueue, late>>
       ELSE /\ info' = [info EXCEPT ![j][RunningList(r)] = left]
            /\ late' = late \ {<<j, r, m.task>>}
            /\ jobQueue' = IF r /\ left = <<>> /\ info[j].waitingReduces = <<>>
                             THEN DeleteFirst(jobQueue, j) ELSE jobQueue
    /\ UNCHANGED <<nextJobID, jobIDMap, alive, holds, ran>>

-----------------------------------------------------------------------------
(* The environment: workers, the network and the clock. *)
FinishRequest == [job_id : JobID, task : 0..MaxTasks, reduce : BOOLEAN, success : BOOLEAN]

(* A worker completes its task and sends finish_task. *)
Finish(w, ok) ==
    LET h == holds[w] IN
    /\ h # WaitReply
    /\ msgs' = msgs \cup {[job_id |-> h.job_id, task |-> h.task, reduce |-> h.reduce, success |-> ok]}
    /\ holds' = [holds EXCEPT ![w] = WaitReply]
    /\ ran' = IF ok THEN [ran EXCEPT ![h.job_id] = @ \cup {<<h.reduce, h.task>>}] ELSE ran
    /\ UNCHANGED <<nextJobID, jobQueue, jobIDMap, info, late, alive, faults>>

(* A worker dies with its task, or never receives the get_task reply. *)
Crash(w) ==
    /\ holds[w] # WaitReply /\ faults > 0
    /\ holds' = [holds EXCEPT ![w] = WaitReply]
    /\ faults' = faults - 1
    /\ UNCHANGED <<nextJobID, jobQueue, jobIDMap, info, late, alive, msgs, ran>>

(* The coordinator executes a finish_task request. *)
Deliver(m) ==
    /\ alive /\ m \in msgs
    /\ finish_task(m)
    /\ msgs' = msgs \ {m}
    /\ UNCHANGED faults

(* A retransmitted request: executed now, and delivered again later. *)
Duplicate(m) ==
    /\ alive /\ m \in msgs /\ faults > 0
    /\ finish_task(m)
    /\ faults' = faults - 1
    /\ UNCHANGED msgs

Lose(m) ==
    /\ m \in msgs /\ faults > 0
    /\ msgs' = msgs \ {m}
    /\ faults' = faults - 1
    /\ UNCHANGED <<nextJobID, jobQueue, jobIDMap, info, late, alive, holds, ran>>

(* Time passes: the oldest running task of a list not yet timed out does. *)
Expire(j, r) ==
    LET L == info[j][RunningList(r)]
        i == SelectInSeq(L, LAMBDA k : <<j, r, k>> \notin late)
    IN /\ alive /\ j \in jobIDMap /\ i # 0
       /\ late' = late \cup {<<j, r, L[i]>>}
       /\ UNCHANGED <<nextJobID, jobQueue, jobIDMap, info, alive, holds, msgs, ran, faults>>

(* coordinator_init *)
Init ==
    /\ nextJobID = 0
    /\ jobQueue = <<>>
    /\ jobIDMap = {}
    /\ info = [j \in JobID |-> NewJob(0, 0)]
    /\ late = {}
    /\ alive = TRUE
    /\ holds = [w \in Worker |-> WaitReply]
    /\ msgs = {}
    /\ ran = [j \in JobID |-> {}]
    /\ faults = MaxFaults

Next ==
    \/ \E nm \in MapCounts, nr \in ReduceCounts, m \in BOOLEAN : submit_job(nm, nr, m)
    \/ \E w \in Worker : get_task(w) \/ Crash(w) \/ \E ok \in Outcomes : Finish(w, ok)
    \/ \E m \in FinishRequest : Deliver(m) \/ Duplicate(m) \/ Lose(m)
    \/ \E j \in JobID, r \in BOOLEAN : Expire(j, r)

Spec == Init /\ [][Next]_vars

-----------------------------------------------------------------------------
Reply == [job_id : JobID \cup {-1}, task : -1..MaxTasks, reduce : BOOLEAN, wait : BOOLEAN]
NumTotal(j, r) == IF r THEN info[j].numTotalReduces ELSE info[j].numTotalMaps
Tasks(j, r) == Range(info[j][WaitingList(r)] \o info[j][RunningList(r)])

TypeOK ==
    /\ nextJobID \in 0..MaxJobs
    /\ jobIDMap \subseteq 0..nextJobID-1
    /\ jobQueue \in Seq(jobIDMap)
    /\ \A j \in jobIDMap, r \in BOOLEAN : Tasks(j, r) \subseteq 0..NumTotal(j, r)-1
    /\ late \subseteq JobID \X BOOLEAN \X (0..MaxTasks)
    /\ alive \in BOOLEAN
    /\ holds \in [Worker -> Reply]
    /\ msgs \subseteq FinishRequest
    /\ faults \in 0..MaxFaults

(* Every task of a job is in at most one place, once: waiting or running.  *)
(* Timeouts move a task from running to waiting and a late finish_task     *)
(* deletes it from running, interleaved with hand-outs and retransmitted  *)
(* requests; no order of these duplicates a task.                          *)
TaskPartition ==
    \A j \in jobIDMap, r \in BOOLEAN :
        IsInjective(info[j][WaitingList(r)] \o info[j][RunningList(r)])

(* get_task hands out a reduce task only after a worker has completed      *)
(* every map task of the job, even when map attempts time out, crash,     *)
(* finish late or have their finish_task lost or repeated.                 *)
ReduceAfterMaps ==
    \A w \in Worker :
        ~holds[w].wait /\ holds[w].reduce =>
            \A k \in 0..info[holds[w].job_id].numTotalMaps-1 : <<FALSE, k>> \in ran[holds[w].job_id]

(* poll_job reports a job done and not failed only once a worker has       *)
(* completed each of its reduce tasks.                                     *)
DoneMeansReduced ==
    \A j \in jobIDMap :
        poll_job(j).done /\ ~poll_job(j).failed =>
            \A k \in 0..info[j].numTotalReduces-1 : <<TRUE, k>> \in ran[j]

(* finish_task of a failure dequeues the job, so get_task never hands out  *)
(* a task of a failed job (coordinator.c:369-377).                         *)
TasksOfLiveJobs ==
    [][\A w \in Worker :
         holds[w] = WaitReply /\ holds'[w] # WaitReply => ~info[holds'[w].job_id].failed]_vars

=============================================================================
