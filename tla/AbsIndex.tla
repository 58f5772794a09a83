------------------------------ MODULE AbsIndex ------------------------------
(***************************************************************************)
(* How ReelDock follows an imported file into Audiobookshelf               *)
(* (app/services/abs_index.py): after a scan a chain of delayed RQ tasks   *)
(* looks for the file, each scheduling the next, until it is found or the  *)
(* last delay is used up.  Scans, re-checks and recovery start the chain   *)
(* anew while an older one may be running; all tasks of a job share one    *)
(* RQ id.                                                                  *)
(*                                                                         *)
(* A process that calls Audiobookshelf goes on afterwards with the copy of *)
(* the job it loaded before (proc[p].mem), and writes the columns in which *)
(* it changes that copy.  Steps without such a call are taken whole.       *)
(* Audiobookshelf is configured, and the file is below the library root.   *)
(***************************************************************************)
EXTENDS Integers, FiniteSets

CONSTANTS
    Jobs,
    Batched,     \* jobs of a batch: scanned together, after they have ended
    Unmarked,    \* jobs of a batch without a file of their own: dry runs, skips
    Workers,     \* RQ worker processes
    Clients,     \* web requests
    LastAttempt, \* len(RECONCILE_DELAYS_SECONDS) - 1
    MaxAsks,     \* bound on what users ask for and batches scan
    MaxFaults,   \* bound on deaths of processes and refusals of Redis
    NoJob

ASSUME ConstantsOK ==
    /\ Batched \subseteq Jobs
    /\ LastAttempt \in Nat
    /\ MaxAsks \in Nat
    /\ MaxFaults \in Nat
    /\ NoJob \notin Jobs
    /\ Workers \cap Clients = {}

VARIABLES
    status,   \* Job.status, as far as this part looks at it
    idx,      \* Job.abs_index_status
    attempts, \* Job.abs_index_attempts
    recent,   \* Job.abs_last_checked_at is less than a minute ago
    task,     \* the RQ job abs-reconcile-<id> of each job
    proc,     \* what each process is doing
    lost,     \* jobs whose next check was given up (CheckComing says how)
    asks, faults

vars == <<status, idx, attempts, recent, task, proc, lost, asks, faults>>

Procs == Workers \cup Clients

JobStatus == {"active", "succeeded", "ended", "deleted"}
IndexStatus == {"not_requested", "scan_requested", "indexing", "indexed",
                "not_found", "failed"}
Pending == {"scan_requested", "indexing"}
Attempts == 0 .. LastAttempt

\* The count of attempts is only looked at as far as the last of them.
Counted(n) == IF n > LastAttempt THEN n ELSE n + 1

TaskType == [attempt : Attempts, delayed : BOOLEAN, queued : BOOLEAN]
MemType == [idx : IndexStatus, attempts : 0 .. LastAttempt + 1,
            status : JobStatus]
ProcType == [pc : {"idle", "import", "scan", "ending", "search", "children"},
             job : Jobs \cup {NoJob}, attempt : Attempts, mem : MemType]

IdleProc == [pc |-> "idle", job |-> NoJob, attempt |-> 0,
             mem |-> [idx |-> "not_requested", attempts |-> 0, status |-> "active"]]

\* Type invariant.
TypeOK ==
    /\ status \in [Jobs -> JobStatus]
    /\ idx \in [Jobs -> IndexStatus]
    /\ attempts \in [Jobs -> 0 .. LastAttempt + 1]
    /\ recent \in [Jobs -> BOOLEAN]
    /\ task \in [Jobs -> TaskType]
    /\ proc \in [Procs -> ProcType]
    /\ \A p \in Procs : proc[p].pc # "idle" => proc[p].job \in Jobs
    /\ lost \subseteq Jobs
    /\ asks \in 0 .. MaxAsks
    /\ faults \in 0 .. MaxFaults

Init ==
    /\ status = [j \in Jobs |-> "active"]
    /\ idx = [j \in Jobs |-> "not_requested"]
    /\ attempts = [j \in Jobs |-> 0]
    /\ recent = [j \in Jobs |-> FALSE]
    /\ task = [j \in Jobs |-> [attempt |-> 0, delayed |-> FALSE, queued |-> FALSE]]
    /\ proc = [p \in Procs |-> IdleProc]
    /\ lost = {}
    /\ asks = 0
    /\ faults = 0

-----------------------------------------------------------------------------
(* The job's row, its task and the processes *)

At(p, pc) == proc[p].pc = pc
Return(p) == proc' = [proc EXCEPT ![p] = IdleProc]

\* Load the job and call Audiobookshelf.
Call(p, pc, j, a, i, n) ==
    proc' = [proc EXCEPT ![p] = [pc |-> pc, job |-> j, attempt |-> a,
                mem |-> [idx |-> i, attempts |-> n, status |-> status[j]]]]

Ask == asks < MaxAsks /\ asks' = asks + 1
Fault == faults < MaxFaults /\ faults' = faults + 1

\* enqueue_reconcile: the delayed task replaces one that is waiting already.
Schedule(j, a) ==
    /\ task' = [task EXCEPT ![j].attempt = a, ![j].delayed = TRUE]
    /\ lost' = lost \ {j}

\* A column is flushed when it differs from the loaded copy.
Put(col, j, old, new) == IF old = new THEN col ELSE [col EXCEPT ![j] = new]

\* Start over: status i, no attempts, and the first check; if Redis refuses it,
\* _mark_reconcile_enqueue_failed.
Restart(j, mem, i) ==
    /\ attempts' = Put(attempts, j, mem.attempts, 0)
    /\ recent' = [recent EXCEPT ![j] = TRUE]
    /\ \/ /\ idx' = Put(idx, j, mem.idx, i)
          /\ Schedule(j, 0)
          /\ UNCHANGED faults
       \/ /\ Fault
          /\ idx' = [idx EXCEPT ![j] = "failed"]
          /\ UNCHANGED <<task, lost>>

\* The scan that was asked for failed.
ScanFailed(j, mem) ==
    /\ idx' = Put(idx, j, mem.idx, "failed")
    /\ recent' = [recent EXCEPT ![j] = TRUE]

-----------------------------------------------------------------------------
(* Import runs *)

\* resume_pending_abs_index, for job k.
Resumable(k) == status[k] = "succeeded" /\ idx[k] \in Pending /\ ~recent[k]

\* Mutant of StartRun: the attempts counted so far are not capped.
StartRunUncapped(w, j) ==
    /\ At(w, "idle")
    /\ status[j] = "active"
    /\ task' = [k \in Jobs |->
                  IF Resumable(k)
                  THEN [task[k] EXCEPT !.attempt = attempts[k], !.delayed = TRUE]
                  ELSE task[k]]
    /\ lost' = {k \in lost : ~Resumable(k)}
    /\ proc' = [proc EXCEPT ![w] = [IdleProc EXCEPT !.pc = "import", !.job = j]]
    /\ UNCHANGED <<status, idx, attempts, recent, asks, faults>>

\* run_import_job resumes the chains that nobody has looked after for a minute,
\* where their count says they were; if Redis refuses, they stay as they are.
StartRun(w, j) ==
    /\ At(w, "idle")
    /\ status[j] = "active"
    /\ \/ /\ task' = [k \in Jobs |->
                        IF Resumable(k)
                        THEN [task[k] EXCEPT
                                !.attempt = IF attempts[k] < LastAttempt
                                            THEN attempts[k] ELSE LastAttempt,
                                !.delayed = TRUE]
                        ELSE task[k]]
          /\ lost' = {k \in lost : ~Resumable(k)}
          /\ UNCHANGED faults
       \/ /\ \E k \in Jobs : Resumable(k)
          /\ Fault
          /\ UNCHANGED <<task, lost>>
    /\ proc' = [proc EXCEPT ![w] = [IdleProc EXCEPT !.pc = "import", !.job = j]]
    /\ UNCHANGED <<status, idx, attempts, recent, asks>>

\* request_scan_and_reconcile, called by the run of a single job before the job
\* has succeeded.
RequestScan(w) ==
    LET j == proc[w].job IN
    /\ At(w, "import")
    /\ j \notin Batched
    /\ Call(w, "scan", j, 0, idx[j], attempts[j])
    /\ UNCHANGED <<status, idx, attempts, recent, task, lost, asks, faults>>

\* Back from the request for a scan; a run goes on to its end.
ScanDone(p) ==
    LET j == proc[p].job IN
    /\ At(p, "scan")
    /\ IF p \in Workers THEN proc' = [proc EXCEPT ![p].pc = "ending"] ELSE Return(p)
    /\ IF status[j] = "deleted"
       THEN UNCHANGED <<idx, attempts, recent, task, lost, faults>>
       ELSE \/ Restart(j, proc[p].mem, "scan_requested")
            \/ /\ ScanFailed(j, proc[p].mem)
               /\ UNCHANGED <<attempts, task, lost, faults>>
    /\ UNCHANGED <<status, asks>>

\* The run ends, with or without a scan before, and writes its status over that
\* of a request.
EndRun(w, s) ==
    LET j == proc[w].job IN
    /\ proc[w].pc \in {"import", "ending"}
    /\ status' = IF status[j] = "deleted" THEN status ELSE [status EXCEPT ![j] = s]
    /\ Return(w)
    /\ UNCHANGED <<idx, attempts, recent, task, lost, asks, faults>>

-----------------------------------------------------------------------------
(* Checks: reconcile_abs_index *)

\* The delay is over and RQ's scheduler puts the task on the queue.
Due(j) ==
    /\ task[j].delayed
    /\ task' = [task EXCEPT ![j].delayed = FALSE, ![j].queued = TRUE]
    /\ UNCHANGED <<status, idx, attempts, recent, proc, lost, asks, faults>>

\* A worker takes the task and looks for the file, unless there is nothing to
\* look for.  A check of a job that has not succeeded yet comes to nothing.
StartCheck(w, j) ==
    LET a == task[j].attempt
        n == Counted(attempts[j])
    IN
    /\ At(w, "idle")
    /\ task[j].queued
    /\ task' = [task EXCEPT ![j].queued = FALSE]
    /\ IF status[j] = "succeeded" /\ idx[j] \notin {"indexed", "failed"}
       THEN /\ idx' = [idx EXCEPT ![j] = "indexing"]
            /\ attempts' = [attempts EXCEPT ![j] = n]
            /\ recent' = [recent EXCEPT ![j] = TRUE]
            /\ Call(w, "search", j, a, "indexing", n)
            /\ UNCHANGED lost
       ELSE /\ lost' = IF status[j] \in {"active", "ended"} THEN lost \cup {j} ELSE lost
            /\ UNCHANGED <<idx, attempts, recent, proc>>
    /\ UNCHANGED <<status, asks, faults>>

Found(w) ==
    LET j == proc[w].job IN
    /\ At(w, "search")
    /\ Return(w)
    /\ IF status[j] = "deleted"
       THEN UNCHANGED <<idx, recent>>
       ELSE /\ idx' = [idx EXCEPT ![j] = "indexed"]
            /\ recent' = [recent EXCEPT ![j] = TRUE]
    /\ UNCHANGED <<status, attempts, task, lost, asks, faults>>

\* Mutant of NotFound: one delay too many is expected.
NotFoundOffByOne(w) ==
    LET j == proc[w].job
        a == proc[w].attempt
    IN
    /\ At(w, "search")
    /\ Return(w)
    /\ IF a < LastAttempt THEN Schedule(j, a + 1) ELSE UNCHANGED <<task, lost>>
    /\ recent' = [recent EXCEPT ![j] = TRUE]
    /\ UNCHANGED <<status, idx, attempts, asks, faults>>

\* Mutant of NotFound: the attempt is passed on as it is.
NotFoundSameAttempt(w) ==
    LET j == proc[w].job IN
    /\ At(w, "search")
    /\ Return(w)
    /\ Schedule(j, proc[w].attempt)
    /\ recent' = [recent EXCEPT ![j] = TRUE]
    /\ UNCHANGED <<status, idx, attempts, asks, faults>>

\* Not there, or Audiobookshelf did not answer: check again later, if this was
\* not the last attempt.  A refusal of Redis is only logged.
NotFound(w) ==
    LET j == proc[w].job
        a == proc[w].attempt
    IN
    /\ At(w, "search")
    /\ Return(w)
    /\ IF status[j] = "deleted"
       THEN UNCHANGED <<idx, recent, task, lost, faults>>
       ELSE /\ recent' = [recent EXCEPT ![j] = TRUE]
            /\ IF a = LastAttempt
               THEN /\ idx' = [idx EXCEPT ![j] = "not_found"]
                    /\ UNCHANGED <<task, lost, faults>>
               ELSE /\ UNCHANGED idx
                    /\ \/ Schedule(j, a + 1) /\ UNCHANGED faults
                       \/ Fault /\ lost' = lost \cup {j} /\ UNCHANGED task
    /\ UNCHANGED <<status, attempts, asks>>

-----------------------------------------------------------------------------
(* Batches: mark_batch_children_indexing *)

\* A process scans the batch of j, for j's sake or for that of another child.
ScanBatch(p, j) ==
    /\ At(p, "idle")
    /\ j \in Batched
    /\ status[j] \in {"succeeded", "ended"}
    /\ Ask
    /\ Call(p, "children", j, 0, idx[j], attempts[j])
    /\ UNCHANGED <<status, idx, attempts, recent, task, lost, faults>>

\* The scan has succeeded: a child that is eligible is marked.  The run of the
\* child itself looks at the copy that it holds, others load the row.
MarkChild(p) ==
    LET j == proc[p].job
        row == [idx |-> idx[j], attempts |-> attempts[j], status |-> status[j]]
    IN
    /\ At(p, "children")
    /\ Return(p)
    /\ \E mem \in {proc[p].mem, row} :
          IF /\ mem.status = "succeeded" /\ mem.idx # "indexed"
             /\ j \notin Unmarked /\ status[j] # "deleted"
          THEN Restart(j, mem, "indexing")
          ELSE UNCHANGED <<idx, attempts, recent, task, lost, faults>>
    /\ UNCHANGED <<status, asks>>

\* The scan has failed, and so has the batch.
BatchScanFails(p) ==
    /\ At(p, "children")
    /\ Return(p)
    /\ UNCHANGED <<status, idx, attempts, recent, task, lost, asks, faults>>

-----------------------------------------------------------------------------
(* Users *)

\* retry_job_abs_scan for a single job: the status of the job does not matter.
RetryScan(c, j) ==
    /\ At(c, "idle")
    /\ j \notin Batched
    /\ status[j] # "deleted"
    /\ Ask
    /\ Call(c, "scan", j, 0, idx[j], attempts[j])
    /\ UNCHANGED <<status, idx, attempts, recent, task, lost, faults>>

\* For a job of a batch the row is flushed before the call, and so kept from
\* others until the request commits.
RetryBatchedScan(j) ==
    LET mem == [idx |-> "scan_requested", attempts |-> attempts[j]] IN
    /\ j \in Batched
    /\ status[j] # "deleted"
    /\ Ask
    /\ \/ Restart(j, mem, "indexing")
       \/ /\ ScanFailed(j, mem)
          /\ attempts' = [attempts EXCEPT ![j] = 0]
          /\ UNCHANGED <<task, lost, faults>>
    /\ UNCHANGED <<status, proc>>

\* check_job_abs_index_again: the count of attempts goes on.
CheckAgain(j) ==
    /\ status[j] = "succeeded"
    /\ idx[j] # "indexed"
    /\ Ask
    /\ recent' = [recent EXCEPT ![j] = TRUE]
    /\ \/ /\ idx' = [idx EXCEPT ![j] = "indexing"]
          /\ Schedule(j, 0)
          /\ UNCHANGED faults
       \/ /\ Fault
          /\ idx' = [idx EXCEPT ![j] = "failed"]
          /\ UNCHANGED <<task, lost>>
    /\ UNCHANGED <<status, attempts, proc>>

\* cancel_job, retry_job and delete_jobs, as far as they matter here.
CancelJob(j) ==
    /\ status[j] = "active"
    /\ Ask
    /\ status' = [status EXCEPT ![j] = "ended"]
    /\ UNCHANGED <<idx, attempts, recent, task, proc, lost, faults>>

RetryJob(j) ==
    /\ status[j] = "ended"
    /\ Ask
    /\ status' = [status EXCEPT ![j] = "active"]
    /\ UNCHANGED <<idx, attempts, recent, task, proc, lost, faults>>

DeleteJob(j) ==
    /\ status[j] # "deleted"
    /\ Ask
    /\ status' = [status EXCEPT ![j] = "deleted"]
    /\ UNCHANGED <<idx, attempts, recent, task, proc, lost, faults>>

-----------------------------------------------------------------------------
(* Time and deaths *)

\* A minute has passed since the last check.
Age(j) ==
    /\ recent[j]
    /\ recent' = [recent EXCEPT ![j] = FALSE]
    /\ UNCHANGED <<status, idx, attempts, task, proc, lost, asks, faults>>

\* A check has no retry of its own and is lost with its worker.
Crash(p) ==
    /\ ~At(p, "idle")
    /\ Fault
    /\ Return(p)
    /\ lost' = IF At(p, "search") THEN lost \cup {proc[p].job} ELSE lost
    /\ UNCHANGED <<status, idx, attempts, recent, task, asks>>

-----------------------------------------------------------------------------
(* Specification *)

\* What a worker or a request goes on with by itself.
ProcStep(p) ==
    \/ ScanDone(p)
    \/ MarkChild(p)
    \/ BatchScanFails(p)

WorkerStep(w) ==
    \/ RequestScan(w)
    \/ \E s \in {"succeeded", "ended"} : EndRun(w, s)
    \/ \E j \in Jobs : StartRun(w, j) \/ StartCheck(w, j)
    \/ Found(w)
    \/ NotFound(w)

Next ==
    \/ \E p \in Procs : ProcStep(p) \/ Crash(p)
    \/ \E w \in Workers : WorkerStep(w)
    \/ \E j \in Jobs : Due(j) \/ Age(j)
    \/ \E p \in Procs, j \in Jobs : ScanBatch(p, j)
    \/ \E c \in Clients, j \in Jobs : RetryScan(c, j)
    \/ \E j \in Jobs : RetryBatchedScan(j) \/ CheckAgain(j)
    \/ \E j \in Jobs : CancelJob(j) \/ RetryJob(j) \/ DeleteJob(j)

Spec == Init /\ [][Next]_vars

\* Delays end, and processes that are up go on.
Fairness ==
    /\ \A j \in Jobs : WF_vars(Due(j))
    /\ \A p \in Procs : WF_vars(ProcStep(p))
    /\ \A w \in Workers : WF_vars(WorkerStep(w))

FairSpec == Spec /\ Fairness

-----------------------------------------------------------------------------
(* Properties *)

\* The job page shows "Waiting for Audiobookshelf".
Waiting(j) == status[j] = "succeeded" /\ idx[j] \in Pending

\* A check is scheduled, queued or being made.
Coming(j) ==
    \/ task[j].delayed \/ task[j].queued
    \/ \E w \in Workers : At(w, "search") /\ proc[w].job = j

\* A job that shows as waiting has a check coming, however chains overlap and
\* whatever copies are written back; unless its check came before its success,
\* died with its worker, or was refused by Redis, and no run has resumed it.
CheckComing == \A j \in Jobs : Waiting(j) /\ j \notin lost => Coming(j)

\* The wait has an end: the chain finds the file or uses up its delays, however
\* often it is started anew.
IndexSettles == \A j \in Jobs : Waiting(j) ~> ~Waiting(j) \/ j \in lost
=============================================================================
