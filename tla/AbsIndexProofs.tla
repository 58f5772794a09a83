--------------------------- MODULE AbsIndexProofs ---------------------------
(***************************************************************************)
(* Type correctness of AbsIndex, and that no job waits without a check to  *)
(* come.  For the latter CheckKept takes in the jobs that have not         *)
(* succeeded yet: a scan is asked for, and a check scheduled or missed,    *)
(* while the run that asked for it is still under way.                     *)
(***************************************************************************)
EXTENDS AbsIndex, TLAPS

\* What TypeOK says of processes.
ProcsOK ==
    /\ proc \in [Procs -> ProcType]
    /\ \A p \in Procs : proc[p].pc # "idle" => proc[p].job \in Jobs

\* What TypeOK says of the rest.
RowsOK ==
    /\ status \in [Jobs -> JobStatus]
    /\ idx \in [Jobs -> IndexStatus]
    /\ attempts \in [Jobs -> 0 .. LastAttempt + 1]
    /\ recent \in [Jobs -> BOOLEAN]
    /\ task \in [Jobs -> TaskType]
    /\ lost \subseteq Jobs
    /\ asks \in 0 .. MaxAsks
    /\ faults \in 0 .. MaxFaults

\* TypeOK in two halves.
LEMMA Halves == TypeOK <=> ProcsOK /\ RowsOK
BY DEF TypeOK, ProcsOK, RowsOK

\* The copy of a job that a process takes has the type of a copy.
LEMMA MemTyped ==
  ASSUME RowsOK, NEW j \in Jobs, NEW i \in IndexStatus,
         NEW n \in 0 .. LastAttempt + 1
  PROVE  [idx |-> i, attempts |-> n, status |-> status[j]] \in MemType
BY DEF RowsOK, MemType

\* The idle process has the type of a process.
LEMMA IdleTyped == IdleProc \in ProcType /\ IdleProc.pc = "idle"
BY ConstantsOK DEF IdleProc, ProcType, MemType, IndexStatus, JobStatus, Attempts

\* A process that returns keeps the types of processes.
LEMMA ReturnTyped ==
  ASSUME ProcsOK, NEW p \in Procs, Return(p)
  PROVE  ProcsOK'
BY IdleTyped DEF Return, ProcsOK

\* A process that calls Audiobookshelf for a job keeps them too.
LEMMA CallTyped ==
  ASSUME ProcsOK, RowsOK, NEW p \in Procs, NEW j \in Jobs,
         NEW pc \in {"scan", "search", "children"}, NEW a \in Attempts,
         NEW i \in IndexStatus, NEW n \in 0 .. LastAttempt + 1,
         Call(p, pc, j, a, i, n)
  PROVE  ProcsOK'
<1> DEFINE mem == [idx |-> i, attempts |-> n, status |-> status[j]]
           new == [pc |-> pc, job |-> j, attempt |-> a, mem |-> mem]
<1>1. mem \in MemType
  BY MemTyped
<1>2. new \in ProcType /\ new.job = j
  BY <1>1 DEF ProcType
<1>3. proc' = [proc EXCEPT ![p] = new]
  BY DEF Call
<1> QED
  BY <1>2, <1>3 DEF ProcsOK

\* A flush of a column keeps its type.
LEMMA PutTyped ==
  ASSUME NEW S, NEW T, NEW col \in [S -> T], NEW j \in S, NEW old, NEW new \in T
  PROVE  Put(col, j, old, new) \in [S -> T]
BY DEF Put

\* A scheduled check keeps the type of its task.
LEMMA ScheduleTyped ==
  ASSUME RowsOK, NEW j \in Jobs, NEW a \in Attempts, Schedule(j, a)
  PROVE  task' \in [Jobs -> TaskType] /\ lost' \subseteq Jobs
BY DEF Schedule, RowsOK, TaskType

\* A fault stays within its bound.
LEMMA FaultTyped == RowsOK /\ Fault => faults' \in 0 .. MaxFaults
BY ConstantsOK DEF RowsOK, Fault

\* So does what users ask for.
LEMMA AskTyped == RowsOK /\ Ask => asks' \in 0 .. MaxAsks
BY ConstantsOK DEF RowsOK, Ask

\* A restart of a chain keeps the types of all it writes.
LEMMA RestartTyped ==
  ASSUME RowsOK, NEW j \in Jobs, NEW mem, NEW i \in IndexStatus, Restart(j, mem, i)
  PROVE  /\ idx' \in [Jobs -> IndexStatus]
         /\ attempts' \in [Jobs -> 0 .. LastAttempt + 1]
         /\ recent' \in [Jobs -> BOOLEAN]
         /\ task' \in [Jobs -> TaskType]
         /\ lost' \subseteq Jobs
         /\ faults' \in 0 .. MaxFaults
<1>1. attempts' \in [Jobs -> 0 .. LastAttempt + 1]
  <2>1. 0 \in 0 .. LastAttempt + 1
    BY ConstantsOK
  <2>2. attempts' = Put(attempts, j, mem.attempts, 0)
    BY DEF Restart
  <2> QED
    BY <2>1, <2>2, PutTyped DEF RowsOK
<1>2. recent' \in [Jobs -> BOOLEAN]
  BY DEF Restart, RowsOK
<1>3. CASE idx' = Put(idx, j, mem.idx, i) /\ Schedule(j, 0) /\ UNCHANGED faults
  <2>1. 0 \in Attempts
    BY ConstantsOK DEF Attempts
  <2>2. idx' \in [Jobs -> IndexStatus]
    BY <1>3, PutTyped DEF RowsOK
  <2> QED
    BY <1>1, <1>2, <1>3, <2>1, <2>2, ScheduleTyped DEF RowsOK
<1>4. CASE Fault /\ idx' = [idx EXCEPT ![j] = "failed"] /\ UNCHANGED <<task, lost>>
  <2>1. "failed" \in IndexStatus
    BY DEF IndexStatus
  <2>2. idx' \in [Jobs -> IndexStatus]
    BY <1>4, <2>1 DEF RowsOK
  <2>3. faults' \in 0 .. MaxFaults
    BY <1>4, FaultTyped
  <2> QED
    BY <1>1, <1>2, <1>4, <2>2, <2>3 DEF RowsOK
<1> QED
  BY <1>3, <1>4 DEF Restart

\* A failed scan keeps the types of what it writes.
LEMMA ScanFailedTyped ==
  ASSUME RowsOK, NEW j \in Jobs, NEW mem, ScanFailed(j, mem)
  PROVE  idx' \in [Jobs -> IndexStatus] /\ recent' \in [Jobs -> BOOLEAN]
<1>1. "failed" \in IndexStatus
  BY DEF IndexStatus
<1> QED
  BY <1>1, PutTyped DEF ScanFailed, RowsOK

-----------------------------------------------------------------------------
(* Type correctness *)

\* Every step keeps the types of the processes.
LEMMA ProcsStep == ProcsOK /\ RowsOK /\ [Next]_vars => ProcsOK'
<1> SUFFICES ASSUME ProcsOK, RowsOK, [Next]_vars PROVE ProcsOK'
  OBVIOUS
<1>1. CASE UNCHANGED proc
  BY <1>1 DEF ProcsOK
<1>2. ASSUME NEW p \in Procs, Return(p) PROVE ProcsOK'
  BY <1>2, ReturnTyped
<1>3. ASSUME NEW p \in Procs, NEW pc \in {"scan", "ending"}, ~At(p, "idle"),
             proc' = [proc EXCEPT ![p].pc = pc]
      PROVE  ProcsOK'
  BY <1>3 DEF ProcsOK, ProcType, At
<1>4. ASSUME NEW w \in Workers, NEW j \in Jobs, StartRun(w, j) PROVE ProcsOK'
  <2> DEFINE new == [IdleProc EXCEPT !.pc = "import", !.job = j]
  <2>1. new \in ProcType /\ new.job = j
    BY IdleTyped DEF ProcType
  <2> QED
    BY <1>4, <2>1 DEF StartRun, ProcsOK, Procs
<1>5. ASSUME NEW w \in Workers, RequestScan(w) PROVE ProcsOK'
  <2> DEFINE j == proc[w].job
  <2>1. j \in Jobs /\ w \in Procs
    BY <1>5 DEF RequestScan, At, ProcsOK, Procs
  <2>2. idx[j] \in IndexStatus /\ attempts[j] \in 0 .. LastAttempt + 1 /\ 0 \in Attempts
    BY <2>1, ConstantsOK DEF RowsOK, Attempts
  <2>3. Call(w, "scan", j, 0, idx[j], attempts[j])
    BY <1>5 DEF RequestScan
  <2> QED
    BY <2>1, <2>2, <2>3, CallTyped
<1>6. ASSUME NEW w \in Workers, NEW j \in Jobs, StartCheck(w, j) PROVE ProcsOK'
  <2> DEFINE n == Counted(attempts[j])
  <2>1. n \in 0 .. LastAttempt + 1 /\ task[j].attempt \in Attempts
    BY ConstantsOK DEF RowsOK, Counted, TaskType
  <2>2. w \in Procs /\ "indexing" \in IndexStatus
    BY DEF Procs, IndexStatus
  <2>3. Call(w, "search", j, task[j].attempt, "indexing", n) \/ UNCHANGED proc
    BY <1>6 DEF StartCheck
  <2> QED
    BY <1>1, <2>1, <2>2, <2>3, CallTyped
<1>7. ASSUME NEW p \in Procs, NEW j \in Jobs, NEW pc \in {"scan", "children"},
             Call(p, pc, j, 0, idx[j], attempts[j])
      PROVE  ProcsOK'
  <2>1. idx[j] \in IndexStatus /\ attempts[j] \in 0 .. LastAttempt + 1 /\ 0 \in Attempts
    BY ConstantsOK DEF RowsOK, Attempts
  <2> QED
    BY <1>7, <2>1, CallTyped
<1>8. ASSUME NEW p \in Procs, ProcStep(p) PROVE ProcsOK'
  BY <1>2, <1>3, <1>8 DEF ProcStep, ScanDone, MarkChild, BatchScanFails, At
<1>9. ASSUME NEW w \in Workers, WorkerStep(w) PROVE ProcsOK'
  BY <1>2, <1>4, <1>5, <1>6, <1>9
    DEF WorkerStep, EndRun, Found, NotFound, Procs
<1> QED
  BY <1>1, <1>2, <1>7, <1>8, <1>9
    DEF Next, vars, Crash, Due, Age, ScanBatch, RetryScan, RetryBatchedScan, CheckAgain,
        CancelJob, RetryJob, DeleteJob, Procs

\* Every step keeps the types of the rows, the tasks and the counts.
LEMMA RowsStep == ProcsOK /\ RowsOK /\ [Next]_vars => RowsOK'
<1> SUFFICES ASSUME ProcsOK, RowsOK, [Next]_vars PROVE RowsOK'
  OBVIOUS
<1>1. CASE UNCHANGED vars
  BY <1>1 DEF vars, RowsOK
<1>2. ASSUME NEW p \in Procs, ScanDone(p) PROVE RowsOK'
  <2> DEFINE j == proc[p].job
  <2>1. j \in Jobs
    BY <1>2 DEF ScanDone, At, ProcsOK
  <2>2. CASE UNCHANGED <<idx, attempts, recent, task, lost, faults>>
    BY <1>2, <2>2 DEF ScanDone, RowsOK
  <2>3. CASE Restart(j, proc[p].mem, "scan_requested")
    <3>1. "scan_requested" \in IndexStatus
      BY DEF IndexStatus
    <3> QED
      BY <1>2, <2>1, <2>3, <3>1, RestartTyped DEF ScanDone, RowsOK
  <2>4. CASE ScanFailed(j, proc[p].mem) /\ UNCHANGED <<attempts, task, lost, faults>>
    BY <1>2, <2>1, <2>4, ScanFailedTyped DEF ScanDone, RowsOK
  <2> QED
    BY <1>2, <2>2, <2>3, <2>4 DEF ScanDone
<1>3. ASSUME NEW p \in Procs, MarkChild(p) PROVE RowsOK'
  <2> DEFINE j == proc[p].job
  <2>1. j \in Jobs /\ "indexing" \in IndexStatus
    BY <1>3 DEF MarkChild, At, ProcsOK, IndexStatus
  <2>2. CASE UNCHANGED <<idx, attempts, recent, task, lost, faults>>
    BY <1>3, <2>2 DEF MarkChild, RowsOK
  <2>3. ASSUME NEW mem, Restart(j, mem, "indexing") PROVE RowsOK'
    BY <1>3, <2>1, <2>3, RestartTyped DEF MarkChild, RowsOK
  <2> QED
    BY <1>3, <2>2, <2>3 DEF MarkChild
<1>4. ASSUME NEW p \in Procs, Crash(p) PROVE RowsOK'
  <2>1. proc[p].job \in Jobs
    BY <1>4 DEF Crash, At, ProcsOK
  <2> QED
    BY <1>4, <2>1, FaultTyped DEF Crash, RowsOK
<1>5. ASSUME NEW w \in Workers, NEW j \in Jobs, StartRun(w, j) PROVE RowsOK'
  <2>1. \A k \in Jobs :
          (IF attempts[k] < LastAttempt THEN attempts[k] ELSE LastAttempt) \in Attempts
    BY ConstantsOK DEF RowsOK, Attempts
  <2>2. task' \in [Jobs -> TaskType]
    <3>1. CASE UNCHANGED task
      BY <3>1 DEF RowsOK
    <3>2. CASE ~UNCHANGED task
      <4>1. \A k \in Jobs : task[k] \in TaskType
        BY DEF RowsOK
      <4>2. task' = [k \in Jobs |->
                       IF Resumable(k)
                       THEN [task[k] EXCEPT
                               !.attempt = IF attempts[k] < LastAttempt
                                           THEN attempts[k] ELSE LastAttempt,
                               !.delayed = TRUE]
                       ELSE task[k]]
        BY <1>5, <3>2 DEF StartRun
      <4> QED
        BY <2>1, <4>1, <4>2 DEF TaskType
    <3> QED
      BY <3>1, <3>2
  <2>3. lost' \subseteq Jobs
    BY <1>5 DEF StartRun, RowsOK
  <2>4. faults' \in 0 .. MaxFaults
    BY <1>5, FaultTyped DEF StartRun, RowsOK
  <2> QED
    BY <1>5, <2>2, <2>3, <2>4 DEF StartRun, RowsOK
<1>6. ASSUME NEW w \in Workers, NEW s \in {"succeeded", "ended"}, EndRun(w, s) PROVE RowsOK'
  BY <1>6 DEF EndRun, RowsOK, JobStatus
<1>7. ASSUME NEW w \in Workers, NEW j \in Jobs, StartCheck(w, j) PROVE RowsOK'
  <2>1. Counted(attempts[j]) \in 0 .. LastAttempt + 1
    BY ConstantsOK DEF RowsOK, Counted
  <2>2. task' \in [Jobs -> TaskType]
    BY <1>7 DEF StartCheck, RowsOK, TaskType
  <2>3. attempts' \in [Jobs -> 0 .. LastAttempt + 1]
    BY <1>7, <2>1 DEF StartCheck, RowsOK, Counted
  <2>4. idx' \in [Jobs -> IndexStatus]
    BY <1>7 DEF StartCheck, RowsOK, IndexStatus
  <2> QED
    BY <1>7, <2>2, <2>3, <2>4 DEF StartCheck, RowsOK
<1>8. ASSUME NEW w \in Workers, Found(w) PROVE RowsOK'
  BY <1>8 DEF Found, RowsOK, IndexStatus
<1>9. ASSUME NEW w \in Workers, NotFound(w) PROVE RowsOK'
  <2> DEFINE j == proc[w].job
             a == proc[w].attempt
  <2>1. j \in Jobs /\ a \in Attempts
    BY <1>9 DEF NotFound, At, ProcsOK, ProcType, Procs
  <2>2. idx' \in [Jobs -> IndexStatus] /\ recent' \in [Jobs -> BOOLEAN]
    BY <1>9 DEF NotFound, RowsOK, IndexStatus
  <2>3. CASE UNCHANGED <<task, lost, faults>>
    BY <1>9, <2>2, <2>3 DEF NotFound, RowsOK
  <2>4. CASE a # LastAttempt /\ Schedule(j, a + 1) /\ UNCHANGED faults
    <3>1. a + 1 \in Attempts
      BY <2>1, <2>4, ConstantsOK DEF Attempts
    <3> QED
      BY <1>9, <2>1, <2>2, <2>4, <3>1, ScheduleTyped DEF NotFound, RowsOK
  <2>5. CASE Fault /\ lost' = lost \cup {j} /\ UNCHANGED task
    BY <1>9, <2>1, <2>2, <2>5, FaultTyped DEF NotFound, RowsOK
  <2> QED
    BY <1>9, <2>3, <2>4, <2>5 DEF NotFound
<1>10. ASSUME NEW j \in Jobs, RetryBatchedScan(j) PROVE RowsOK'
  <2> DEFINE mem == [idx |-> "scan_requested", attempts |-> attempts[j]]
  <2>1. "indexing" \in IndexStatus /\ 0 \in 0 .. LastAttempt + 1
    BY ConstantsOK DEF IndexStatus
  <2>2. CASE Restart(j, mem, "indexing")
    BY <1>10, <2>1, <2>2, RestartTyped, AskTyped DEF RetryBatchedScan, RowsOK
  <2>3. CASE /\ ScanFailed(j, mem)
             /\ attempts' = [attempts EXCEPT ![j] = 0]
             /\ UNCHANGED <<task, lost, faults>>
    BY <1>10, <2>1, <2>3, ScanFailedTyped, AskTyped DEF RetryBatchedScan, RowsOK
  <2> QED
    BY <1>10, <2>2, <2>3 DEF RetryBatchedScan
<1>11. ASSUME NEW j \in Jobs, CheckAgain(j) PROVE RowsOK'
  <2>1. idx' \in [Jobs -> IndexStatus] /\ recent' \in [Jobs -> BOOLEAN]
    BY <1>11 DEF CheckAgain, RowsOK, IndexStatus
  <2>2. 0 \in Attempts
    BY ConstantsOK DEF Attempts
  <2>3. CASE Schedule(j, 0) /\ UNCHANGED faults
    BY <1>11, <2>1, <2>2, <2>3, ScheduleTyped, AskTyped DEF CheckAgain, RowsOK
  <2>4. CASE Fault /\ UNCHANGED <<task, lost>>
    BY <1>11, <2>1, <2>4, FaultTyped, AskTyped DEF CheckAgain, RowsOK
  <2> QED
    BY <1>11, <2>3, <2>4 DEF CheckAgain
<1>12. ASSUME NEW j \in Jobs, Due(j) \/ Age(j) PROVE RowsOK'
  <2>1. CASE Due(j)
    <3>1. task' \in [Jobs -> TaskType]
      BY <2>1 DEF Due, RowsOK, TaskType
    <3> QED
      BY <2>1, <3>1 DEF Due, RowsOK
  <2>2. CASE Age(j)
    BY <2>2 DEF Age, RowsOK
  <2> QED
    BY <1>12, <2>1, <2>2
<1>13. ASSUME NEW j \in Jobs, CancelJob(j) \/ RetryJob(j) \/ DeleteJob(j) PROVE RowsOK'
  BY <1>13, AskTyped DEF CancelJob, RetryJob, DeleteJob, RowsOK, JobStatus
<1>14. ASSUME NEW p \in Procs, NEW j \in Jobs, ScanBatch(p, j) \/ RetryScan(p, j)
       PROVE  RowsOK'
  BY <1>14, AskTyped DEF ScanBatch, RetryScan, RowsOK
<1>15. ASSUME NEW w \in Workers, RequestScan(w) PROVE RowsOK'
  BY <1>15 DEF RequestScan, RowsOK
<1>16. ASSUME NEW p \in Procs, ProcStep(p) PROVE RowsOK'
  <2>1. CASE BatchScanFails(p)
    BY <2>1 DEF BatchScanFails, RowsOK
  <2> QED
    BY <1>2, <1>3, <1>16, <2>1 DEF ProcStep
<1>17. ASSUME NEW w \in Workers, WorkerStep(w) PROVE RowsOK'
  BY <1>5, <1>6, <1>7, <1>8, <1>9, <1>15, <1>17 DEF WorkerStep
<1> QED
  BY <1>1, <1>4, <1>10, <1>11, <1>12, <1>13, <1>14, <1>16, <1>17 DEF Next, Procs

\* Whatever is asked for, refused or lost, the rows, the tasks and the copies of
\* the processes keep their types: no task is scheduled past the last attempt.
THEOREM IndexTypes == Spec => []TypeOK
<1>1. Init => ProcsOK /\ RowsOK
  BY IdleTyped, ConstantsOK
    DEF Init, ProcsOK, RowsOK, JobStatus, IndexStatus, TaskType, Attempts
<1>2. ProcsOK /\ RowsOK /\ [Next]_vars => (ProcsOK /\ RowsOK)'
  BY ProcsStep, RowsStep
<1>3. ProcsOK /\ RowsOK => TypeOK
  BY Halves
<1> QED
  BY <1>1, <1>2, <1>3, PTL DEF Spec

-----------------------------------------------------------------------------
(* A check is coming *)

\* CheckComing, of jobs in any status.
CheckKept == \A j \in Jobs : idx[j] \in Pending /\ status[j] # "deleted" /\ j \notin lost => Coming(j)

\* Job k is looked after as before.
Steady(k) ==
    /\ idx'[k] \in Pending => idx[k] \in Pending
    /\ status'[k] # "deleted" => status[k] # "deleted"
    /\ k \in lost => k \in lost'
    /\ Coming(k) => Coming(k)'

\* A steady job keeps what CheckKept says of it.
LEMMA SteadyKept ==
  ASSUME CheckKept, NEW k \in Jobs, Steady(k)
  PROVE  idx'[k] \in Pending /\ status'[k] # "deleted" /\ k \notin lost' => Coming(k)'
BY DEF CheckKept, Steady

\* Checks that are under way go on in a step by which no check ends.
LEMMA SearchesGoOn ==
  ASSUME ProcsOK, NEW k \in Jobs,
         \A w \in Workers : At(w, "search") => proc'[w] = proc[w],
         task'[k].delayed \/ task'[k].queued \/ task'[k] = task[k]
  PROVE  Coming(k) => Coming(k)'
BY DEF Coming, At

\* A restart schedules a check or has the job shown as failed; other jobs are not
\* touched.
LEMMA RestartKept ==
  ASSUME RowsOK, NEW j \in Jobs, NEW mem, NEW i \in IndexStatus, Restart(j, mem, i)
  PROVE  /\ task'[j].delayed \/ (task' = task /\ idx'[j] = "failed")
         /\ \A k \in Jobs \ {j} :
               task'[k] = task[k] /\ idx'[k] = idx[k] /\ (k \in lost => k \in lost')
         /\ task'[j].delayed \/ lost' = lost
<1>1. \A k \in Jobs \ {j} : idx'[k] = idx[k]
  BY DEF Restart, Put, RowsOK
<1>2. CASE Schedule(j, 0)
  BY <1>1, <1>2 DEF Schedule, RowsOK, TaskType
<1>3. CASE idx' = [idx EXCEPT ![j] = "failed"] /\ UNCHANGED <<task, lost>>
  BY <1>1, <1>3 DEF RowsOK
<1> QED
  BY <1>2, <1>3 DEF Restart

\* Every step keeps CheckKept.
LEMMA CheckStep == ProcsOK /\ RowsOK /\ CheckKept /\ [Next]_vars => CheckKept'
<1> SUFFICES ASSUME ProcsOK, RowsOK, CheckKept, [Next]_vars,
                    NEW k \in Jobs,
                    idx'[k] \in Pending, status'[k] # "deleted", k \notin lost'
             PROVE  Coming(k)'
  BY DEF CheckKept
<1>1. Steady(k) => Coming(k)'
  BY SteadyKept
<1>2. CASE UNCHANGED vars
  BY <1>1, <1>2 DEF vars, Steady, Coming, At
<1>3. ASSUME NEW j \in Jobs, NEW mem, NEW i \in IndexStatus,
             Restart(j, mem, i), status' = status,
             \A w \in Workers : At(w, "search") => proc'[w] = proc[w]
      PROVE  Coming(k)'
  <2>1. CASE task'[k].delayed
    BY <2>1 DEF Coming
  <2>2. CASE ~task'[k].delayed
    <3>1. k # j
      BY <1>3, <2>2, RestartKept DEF Pending
    <3> QED
      BY <1>1, <1>3, <3>1, RestartKept, SearchesGoOn DEF Steady
  <2> QED
    BY <2>1, <2>2
<1>4. ASSUME NEW j \in Jobs, NEW mem, ScanFailed(j, mem), status' = status,
             UNCHANGED <<task, lost>>,
             \A w \in Workers : At(w, "search") => proc'[w] = proc[w]
      PROVE  Coming(k)'
  <2>1. idx'[k] \in Pending => idx[k] \in Pending
    BY <1>4 DEF ScanFailed, Put, RowsOK, Pending
  <2> QED
    BY <1>1, <1>4, <2>1, SearchesGoOn DEF Steady
<1>5. ASSUME UNCHANGED <<task, lost, idx>>,
             status'[k] # "deleted" => status[k] # "deleted",
             \A w \in Workers : At(w, "search") => proc'[w] = proc[w]
      PROVE  Coming(k)'
  BY <1>1, <1>5, SearchesGoOn DEF Steady
<1>6. ASSUME NEW p \in Procs, ScanDone(p) PROVE Coming(k)'
  <2> DEFINE j == proc[p].job
  <2>1. j \in Jobs /\ "scan_requested" \in IndexStatus
    BY <1>6 DEF ScanDone, At, ProcsOK, IndexStatus
  <2>2. \A w \in Workers : At(w, "search") => proc'[w] = proc[w]
    BY <1>6 DEF ScanDone, At, Return, ProcsOK, Procs
  <2>3. status' = status
    BY <1>6 DEF ScanDone
  <2>4. \/ UNCHANGED <<idx, task, lost>>
        \/ Restart(j, proc[p].mem, "scan_requested")
        \/ ScanFailed(j, proc[p].mem) /\ UNCHANGED <<task, lost>>
    BY <1>6 DEF ScanDone
  <2> QED
    BY <1>3, <1>4, <1>5, <2>1, <2>2, <2>3, <2>4
<1>7. ASSUME NEW p \in Procs, MarkChild(p) PROVE Coming(k)'
  <2> DEFINE j == proc[p].job
  <2>1. j \in Jobs /\ "indexing" \in IndexStatus
    BY <1>7 DEF MarkChild, At, ProcsOK, IndexStatus
  <2>2. \A w \in Workers : At(w, "search") => proc'[w] = proc[w]
    BY <1>7 DEF MarkChild, At, Return, ProcsOK, Procs
  <2>3. status' = status
    BY <1>7 DEF MarkChild
  <2>4. UNCHANGED <<idx, task, lost>> \/ \E mem : Restart(j, mem, "indexing")
    BY <1>7 DEF MarkChild
  <2> QED
    BY <1>3, <1>5, <2>1, <2>2, <2>3, <2>4
<1>8. ASSUME NEW p \in Procs, Crash(p) PROVE Coming(k)'
  <2>1. CASE At(p, "search")
    <3>1. proc[p].job # k
      BY <1>8, <2>1 DEF Crash
    <3>2. Coming(k) => Coming(k)'
      BY <1>8, <3>1 DEF Crash, Return, Coming, At, ProcsOK
    <3> QED
      BY <1>1, <1>8, <3>2 DEF Crash, Steady
  <2>2. CASE ~At(p, "search")
    BY <1>5, <1>8, <2>2 DEF Crash, Return, At, ProcsOK
  <2> QED
    BY <2>1, <2>2
<1>9. ASSUME NEW w \in Workers, NEW j \in Jobs, StartRun(w, j) PROVE Coming(k)'
  <2>1. \A x \in Workers : At(x, "search") => proc'[x] = proc[x]
    BY <1>9 DEF StartRun, At, ProcsOK, Procs
  <2>2. CASE UNCHANGED <<task, lost>>
    BY <1>1, <1>9, <2>1, <2>2, SearchesGoOn DEF StartRun, Steady
  <2>3. CASE ~UNCHANGED <<task, lost>>
    <3>1. task' = [i \in Jobs |->
                     IF Resumable(i)
                     THEN [task[i] EXCEPT
                             !.attempt = IF attempts[i] < LastAttempt
                                         THEN attempts[i] ELSE LastAttempt,
                             !.delayed = TRUE]
                     ELSE task[i]]
      BY <1>9, <2>3 DEF StartRun
    <3>2. lost' = {i \in lost : ~Resumable(i)}
      BY <1>9, <2>3 DEF StartRun
    <3>3. CASE Resumable(k)
      <4>1. task'[k].delayed
        BY <3>1, <3>3 DEF RowsOK, TaskType
      <4> QED
        BY <4>1 DEF Coming
    <3>4. CASE ~Resumable(k)
      <4>1. task'[k] = task[k] /\ (k \in lost => k \in lost')
        BY <3>1, <3>2, <3>4
      <4> QED
        BY <1>1, <1>9, <2>1, <4>1, SearchesGoOn DEF StartRun, Steady
    <3> QED
      BY <3>3, <3>4
  <2> QED
    BY <2>2, <2>3
<1>10. ASSUME NEW w \in Workers, NEW j \in Jobs, StartCheck(w, j) PROVE Coming(k)'
  <2>1. CASE k # j
    <3>1. task'[k] = task[k] /\ idx'[k] = idx[k] /\ status' = status /\ (k \in lost => k \in lost')
      BY <1>10, <2>1 DEF StartCheck, RowsOK
    <3>2. \A x \in Workers : At(x, "search") => proc'[x] = proc[x]
      BY <1>10 DEF StartCheck, Call, At, ProcsOK, Procs
    <3> QED
      BY <1>1, <3>1, <3>2, SearchesGoOn DEF Steady
  <2>2. CASE k = j /\ status[j] = "succeeded" /\ idx[j] \notin {"indexed", "failed"}
    <3>1. proc'[w].pc = "search" /\ proc'[w].job = k
      BY <1>10, <2>2 DEF StartCheck, Call, ProcsOK, Procs
    <3> QED
      BY <3>1 DEF Coming, At
  <2>3. CASE k = j /\ ~(status[j] = "succeeded" /\ idx[j] \notin {"indexed", "failed"})
    <3>1. status[j] \in {"active", "ended"} => k \in lost'
      BY <1>10, <2>3 DEF StartCheck
    <3>2. status[j] = "succeeded" => idx'[j] \in {"indexed", "failed"}
      BY <1>10, <2>3 DEF StartCheck
    <3>3. status[j] = status'[j]
      BY <1>10 DEF StartCheck
    <3> QED
      BY <2>3, <3>1, <3>2, <3>3 DEF Pending, RowsOK, JobStatus
  <2> QED
    BY <2>1, <2>2, <2>3
<1>11. ASSUME NEW w \in Workers, Found(w) PROVE Coming(k)'
  <2>1. CASE proc[w].job = k
    BY <1>11, <2>1 DEF Found, RowsOK, Pending
  <2>2. CASE proc[w].job # k
    <3>1. Coming(k) => Coming(k)'
      BY <1>11, <2>2 DEF Found, Return, Coming, At, ProcsOK, Procs
    <3>2. idx'[k] = idx[k] /\ status' = status /\ lost' = lost
      BY <1>11, <2>2 DEF Found, RowsOK
    <3> QED
      BY <1>1, <3>1, <3>2 DEF Steady
  <2> QED
    BY <2>1, <2>2
<1>12. ASSUME NEW w \in Workers, NotFound(w) PROVE Coming(k)'
  <2> DEFINE j == proc[w].job
             a == proc[w].attempt
  <2>1. status' = status
    BY <1>12 DEF NotFound
  <2>2. CASE j = k
    <3>1. status[j] # "deleted"
      BY <2>1, <2>2
    <3>2. CASE a = LastAttempt
      BY <1>12, <2>2, <3>1, <3>2 DEF NotFound, RowsOK, Pending
    <3>3. CASE Schedule(j, a + 1)
      BY <2>2, <3>3 DEF Schedule, Coming, RowsOK, TaskType
    <3>4. CASE lost' = lost \cup {j}
      BY <2>2, <3>4
    <3> QED
      BY <1>12, <3>1, <3>2, <3>3, <3>4 DEF NotFound
  <2>3. CASE j # k
    <3>1. task'[k] = task[k] /\ idx'[k] = idx[k] /\ (k \in lost => k \in lost')
      BY <1>12, <2>3 DEF NotFound, Schedule, RowsOK
    <3>2. Coming(k) => Coming(k)'
      BY <1>12, <2>3, <3>1 DEF NotFound, Return, Coming, At, ProcsOK, Procs
    <3> QED
      BY <1>1, <2>1, <3>1, <3>2 DEF Steady
  <2> QED
    BY <2>2, <2>3
<1>13. ASSUME NEW w \in Workers, RequestScan(w) PROVE Coming(k)'
  BY <1>5, <1>13 DEF RequestScan, Call, At, ProcsOK, Procs
<1>14. ASSUME NEW w \in Workers, NEW s \in {"succeeded", "ended"}, EndRun(w, s)
       PROVE  Coming(k)'
  <2>1. status'[k] # "deleted" => status[k] # "deleted"
    BY <1>14 DEF EndRun, RowsOK
  <2> QED
    BY <1>5, <1>14, <2>1 DEF EndRun, Return, At, ProcsOK, Procs
<1>15. ASSUME NEW p \in Procs, NEW j \in Jobs, ScanBatch(p, j) \/ RetryScan(p, j)
       PROVE  Coming(k)'
  BY <1>5, <1>15 DEF ScanBatch, RetryScan, Call, At, ProcsOK, Procs
<1>16. ASSUME NEW j \in Jobs, RetryBatchedScan(j) PROVE Coming(k)'
  <2> DEFINE mem == [idx |-> "scan_requested", attempts |-> attempts[j]]
  <2>1. "indexing" \in IndexStatus /\ status' = status /\ proc' = proc
    BY <1>16 DEF RetryBatchedScan, IndexStatus
  <2>2. Restart(j, mem, "indexing") \/ (ScanFailed(j, mem) /\ UNCHANGED <<task, lost>>)
    BY <1>16 DEF RetryBatchedScan
  <2> QED
    BY <1>3, <1>4, <2>1, <2>2
<1>17. ASSUME NEW j \in Jobs, CheckAgain(j) PROVE Coming(k)'
  <2>1. CASE j = k
    BY <1>17, <2>1 DEF CheckAgain, Schedule, Coming, RowsOK, TaskType, Pending
  <2>2. CASE j # k
    <3>1. task'[k] = task[k] /\ idx'[k] = idx[k] /\ (k \in lost => k \in lost')
      BY <1>17, <2>2 DEF CheckAgain, Schedule, RowsOK
    <3> QED
      BY <1>1, <1>17, <3>1, SearchesGoOn DEF CheckAgain, Steady
  <2> QED
    BY <2>1, <2>2
<1>18. ASSUME NEW j \in Jobs, CancelJob(j) \/ RetryJob(j) \/ DeleteJob(j) PROVE Coming(k)'
  BY <1>5, <1>18 DEF CancelJob, RetryJob, DeleteJob, RowsOK
<1>19. ASSUME NEW j \in Jobs, Due(j) PROVE Coming(k)'
  <2>1. task'[k].delayed \/ task'[k].queued \/ task'[k] = task[k]
    BY <1>19 DEF Due, RowsOK, TaskType
  <2> QED
    BY <1>1, <1>19, <2>1, SearchesGoOn DEF Due, Steady
<1>20. ASSUME NEW j \in Jobs, Age(j) PROVE Coming(k)'
  BY <1>5, <1>20 DEF Age
<1>21. ASSUME NEW p \in Procs, BatchScanFails(p) PROVE Coming(k)'
  BY <1>5, <1>21 DEF BatchScanFails, Return, At, ProcsOK
<1>22. ASSUME NEW w \in Workers, WorkerStep(w) PROVE Coming(k)'
  BY <1>9, <1>10, <1>11, <1>12, <1>13, <1>14, <1>22 DEF WorkerStep
<1> QED
  BY <1>2, <1>6, <1>7, <1>8, <1>15, <1>16, <1>17, <1>18, <1>19, <1>20, <1>21, <1>22
    DEF Next, ProcStep, Procs

\* No job waits for Audiobookshelf without a check to come, with any number of
\* workers, clients, jobs and chains, unless the check was lost in one of the ways
\* that the code does not handle by itself.
THEOREM CheckAlwaysComing == Spec => []CheckComing
<1> DEFINE Inv == ProcsOK /\ RowsOK /\ CheckKept
<1>1. Init => ProcsOK /\ RowsOK
  BY IdleTyped, ConstantsOK
    DEF Init, ProcsOK, RowsOK, JobStatus, IndexStatus, TaskType, Attempts
<1>2. Init => CheckKept
  BY DEF Init, CheckKept, Pending
<1>3. Inv /\ [Next]_vars => Inv'
  BY ProcsStep, RowsStep, CheckStep
<1>4. Inv => CheckComing
  BY DEF CheckKept, CheckComing, Waiting
<1> QED
  BY <1>1, <1>2, <1>3, <1>4, PTL DEF Spec

=============================================================================
