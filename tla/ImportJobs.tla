----------------------------- MODULE ImportJobs -----------------------------
(***************************************************************************)
(* The life of an import job in ReelDock: the rows of the SQLite database  *)
(* (jobs, video_import_claims, imported_videos), the RQ tasks, the worker  *)
(* processes that run ImportPipeline and the web requests that submit,     *)
(* retry, cancel and delete jobs.                                          *)
(*                                                                         *)
(* One action is one database transaction or one Redis command, or what a  *)
(* session reads before a transaction: SQLite's driver begins one at the   *)
(* first statement that writes, so what recovery and the acquisition and   *)
(* release of a claim have read by then may be old (seen, found).  From    *)
(* there to its commit nobody else writes.  Between two commits of a       *)
(* pipeline or of a request handler any other process may run.  Sessions   *)
(* are made with expire_on_commit=False: a run works on the status it last *)
(* loaded (run[w].mem), and assigning the value the object already holds   *)
(* writes nothing.                                                         *)
(*                                                                         *)
(* Failures of the database itself (locks, disk) and of the code that      *)
(* handles a failure are left out.                                         *)
(***************************************************************************)
EXTENDS Integers, Sequences, FiniteSets

CONSTANTS
    Jobs,        \* the ids create_job may hand out, each used once
    Videos,      \* YouTube video ids
    Tasks,       \* the RQ job ids that may be enqueued, each used once
    Workers,     \* RQ worker processes
    Requests,    \* slots for web requests in progress
    VideoOf,     \* the video a job imports
    Reimport,    \* jobs submitted with allow_reimport
    Batched,     \* jobs submitted through submit_batch
    Ops,         \* which of "cancel", "retry", "delete" users ask for
    MaxRetries,  \* RETRY_MAX: how often RQ re-runs a task whose process died
    LastStage,   \* bound on the working stages a run goes through (4 in the code)
    MaxCrashes,  \* bound on deaths of worker processes
    MaxRestarts, \* bound on stops of the web process
    NoJob, NoRow, Severed, NoTask

ASSUME ConstantsOK ==
    /\ VideoOf \in [Jobs -> Videos]
    /\ Reimport \subseteq Jobs
    /\ Batched \subseteq Jobs
    /\ Ops \subseteq {"cancel", "retry", "delete"}
    /\ MaxRetries \in Nat
    /\ LastStage \in 1 .. 4
    /\ MaxCrashes \in Nat
    /\ MaxRestarts \in Nat

\* The values that stand for "none" differ from each other and from every id.
ASSUME NullsOK ==
    /\ NoJob \notin Jobs
    /\ NoRow \notin Jobs
    /\ Severed \notin Jobs
    /\ NoRow # Severed
    /\ NoTask \notin Tasks

VARIABLES
    status,   \* Job.status; "absent" before the row exists, "deleted" after
    phase,    \* Job.phase, as far as recovery looks at it
    owned,    \* Job.owned_import: "null", "yes" or "no"
    rqid,     \* Job.rq_job_id
    claim,    \* video_import_claims: the owner of each video's claim
    ledger,   \* imported_videos: NoRow, a job, or Severed (job_id NULL)
    library,  \* jobs whose output file has been put in the library
    task,     \* the RQ tasks
    run,      \* what each worker process is doing
    req,      \* what each web request in progress is doing
    crashes,  \* deaths of worker processes so far
    restarts  \* stops of the web process so far

deaths == <<crashes, restarts>>
dbvars == <<status, phase, owned, rqid, claim, ledger>>
vars == <<status, phase, owned, rqid, claim, ledger, library, task, run, req, crashes,
          restarts>>

-----------------------------------------------------------------------------
(* Values *)

Terminal == {"succeeded", "failed", "cancelled"}
Retryable == {"failed", "cancelled"}

\* The statuses a pipeline writes between its claim and the commit of the file.
StageStatus == <<"downloading", "postprocessing", "converting", "verifying">>

Active == {"queued", "running", "downloading", "postprocessing",
           "converting", "verifying", "scanning"}
Status == {"absent", "deleted"} \cup Active \cup Terminal

\* "work" stands for every phase that neither recovery nor backfill looks at.
Phase == {"work", "output_committed", "cleanup", "skipped_collision"}
CommittedPhases == {"output_committed", "cleanup"}

RunStep == {"idle", "recover", "recoverJudge", "recoverWrite", "begin", "dedup",
            "claim", "claimJudge", "claimExpire", "claimInsert", "claimUpdate",
            "setup", "enter", "work", "publish", "commit", "filed", "landed", "scan",
            "scanned", "tidy", "dryCheck", "record", "succeed",
            "failing", "cancelling", "release", "drop", "closing"}

ReqStep == {"idle", "submitJudge", "submit", "batchJudge", "batch", "create",
            "submitEnqueue", "submitDrop", "submitFail", "recordQueued",
            "retryAcquire", "retryJudge", "retryExpire", "retryInsert", "retryUpdate",
            "retryRequeue", "retryEnqueue", "retryDrop", "retryRestore",
            "cancelWrite", "cancelRelease", "cancelDrop"}

\* What a session has read of video_import_claims: the owner of each row.
Owners == [Videos -> Jobs \cup {NoJob}]
NoClaims == [v \in Videos |-> NoJob]

IdleRun == [job |-> NoJob, task |-> NoTask, pc |-> "idle", stage |-> 0,
            mem |-> "absent", seen |-> NoClaims, found |-> {}]
IdleReq == [pc |-> "idle", job |-> NoJob, task |-> NoTask, prior |-> "absent",
            priorPhase |-> "work", seen |-> NoClaims, found |-> {}]
FreeTask == [job |-> NoJob, where |-> "free", left |-> 0]
SpentTask == [FreeTask EXCEPT !.where = "over"]

RunType == [job : Jobs \cup {NoJob}, task : Tasks \cup {NoTask}, pc : RunStep,
            stage : 0 .. LastStage, mem : Status, seen : Owners, found : SUBSET Jobs]
ReqType == [pc : ReqStep, job : Jobs \cup {NoJob}, task : Tasks \cup {NoTask},
            prior : Status, priorPhase : Phase, seen : Owners, found : SUBSET Jobs]
TaskType == [job : Jobs \cup {NoJob}, where : {"free", "queued", "running", "over"},
             left : 0 .. MaxRetries]

TypeRows ==
    /\ status \in [Jobs -> Status]
    /\ phase \in [Jobs -> Phase]
    /\ owned \in [Jobs -> {"null", "yes", "no"}]
    /\ rqid \in [Jobs -> Tasks \cup {NoTask}]
    /\ claim \in [Videos -> Jobs \cup {NoJob}]
    /\ ledger \in [Videos -> Jobs \cup {NoRow, Severed}]
    /\ library \subseteq Jobs

TypeTask ==
    /\ task \in [Tasks -> TaskType]
    /\ \A t \in Tasks : task[t].where = "queued" => task[t].job \in Jobs

TypeRun ==
    /\ run \in [Workers -> RunType]
    /\ \A w \in Workers :
          /\ run[w].pc # "idle" => run[w].job \in Jobs /\ run[w].task \in Tasks
          /\ run[w].pc \in {"enter", "work"} => run[w].stage \in 1 .. LastStage

TypeReq ==
    /\ req \in [Requests -> ReqType]
    /\ \A r \in Requests :
          req[r].pc \notin {"idle", "batchJudge", "batch"} => req[r].job \in Jobs

TypeDeaths ==
    /\ crashes \in 0 .. MaxCrashes
    /\ restarts \in 0 .. MaxRestarts

\* Type invariant.
TypeOK == TypeRows /\ TypeTask /\ TypeRun /\ TypeReq /\ TypeDeaths

Init ==
    /\ status = [j \in Jobs |-> "absent"]
    /\ phase = [j \in Jobs |-> "work"]
    /\ owned = [j \in Jobs |-> "null"]
    /\ rqid = [j \in Jobs |-> NoTask]
    /\ claim = [v \in Videos |-> NoJob]
    /\ ledger = [v \in Videos |-> NoRow]
    /\ library = {}
    /\ task = [t \in Tasks |-> FreeTask]
    /\ run = [w \in Workers |-> IdleRun]
    /\ req = [r \in Requests |-> IdleReq]
    /\ crashes = 0
    /\ restarts = 0

Present(j) == status[j] \notin {"absent", "deleted"}

\* The owner of a claim is finished, or its row is gone.
Dead(s) == s \notin Active

-----------------------------------------------------------------------------
(* Claims and recovery: app/services/import_ledger.py *)

\* expire_stale_claims within a transaction: claims of missing or terminal jobs
\* go, by statuses s.
Expired(c, s) ==
    [v \in Videos |-> IF c[v] \in Jobs /\ Dead(s[c[v]]) THEN NoJob ELSE c[v]]

\* expire_stale_claims before it: of the owners a session has read, those that have
\* ended by now, in the statuses s that it sees ...
Judged(seen, s) ==
    [v \in Videos |-> IF seen[v] \in Jobs /\ Dead(s[seen[v]]) THEN seen[v] ELSE NoJob]

\* ... whose rows are deleted by their key, whoever owns them by then.
Without(stale) ==
    [v \in Videos |-> IF stale[v] # NoJob THEN NoJob ELSE claim[v]]

\* _takeover_predicate; whether the lease of an ended job is over is left open.
MayTake(c, j) ==
    LET k == c[VideoOf[j]] IN k = j \/ (k \in Jobs /\ Dead(status[k]))
MustTake(c, j) == c[VideoOf[j]] = j

\* release_claim in two statements: the DELETE is by key.
Dropped(j) == [claim EXCEPT ![VideoOf[j]] = NoJob]
Owns(j) == claim[VideoOf[j]] = j

\* _should_backfill_ledger, for the succeeded jobs of a video.
BackfillJobs(v) ==
    {j \in Jobs : /\ VideoOf[j] = v
                  /\ status[j] = "succeeded"
                  /\ phase[j] # "skipped_collision"
                  /\ owned[j] # "no"}

\* Jobs that recovery takes for done.
Dangling ==
    {j \in Jobs : /\ status[j] \in Active
                  /\ phase[j] \in CommittedPhases
                  /\ ledger[VideoOf[j]] = j}

\* reconcile_import_state: what each table holds once a session x has run it.  A
\* claim it deletes begins the transaction in which it looks for dangling jobs.
Mended(x) == IF x.seen # NoClaims THEN Dangling ELSE x.found

ReconciledLedger ==
    [v \in Videos |-> IF ledger[v] = NoRow /\ BackfillJobs(v) # {}
                      THEN CHOOSE j \in BackfillJobs(v) : TRUE
                      ELSE ledger[v]]
ReconciledStatus(x) ==
    [j \in Jobs |-> IF j \in Mended(x) THEN "succeeded" ELSE status[j]]
ReconciledPhase(x) ==
    [j \in Jobs |-> IF j \in Mended(x) THEN "work" ELSE phase[j]]
ReconciledClaim(x) ==
    [v \in Videos |-> IF claim[v] \in Mended(x) \cup BackfillJobs(v)
                      THEN NoJob ELSE Without(x.seen)[v]]

\* A dangling job was deleted after recovery read it: its UPDATE raises.
RecoveryRaises(x) == \E k \in Mended(x) : ~Present(k)

-----------------------------------------------------------------------------
(* RQ: app/queue.py *)

\* enqueue_job_task: a new RQ job with RETRY_MAX retries.
Enqueue(t, j) ==
    /\ task[t].where = "free"
    /\ task' = [task EXCEPT ![t] = [job |-> j, where |-> "queued",
                                    left |-> MaxRetries]]

\* A worker process takes a task off the queue and starts run_import_job.
Dequeue(w, t) ==
    /\ run[w].pc = "idle"
    /\ task[t].where = "queued"
    /\ task' = [task EXCEPT ![t].where = "running"]
    /\ run' = [run EXCEPT ![w] = [IdleRun EXCEPT !.job = task[t].job, !.task = t,
                                                 !.pc = "recover"]]
    /\ UNCHANGED <<dbvars, library, req, deaths>>

\* The task function has returned: RQ records it as finished, whatever the
\* job's status is, because run_import_job swallows every exception.
EndTask(w) ==
    /\ run' = [run EXCEPT ![w] = IdleRun]
    /\ task' = [task EXCEPT ![run[w].task] = SpentTask]

\* The worker process dies under a task (kill, out of memory, restart).  RQ
\* puts the task back while it has retries left and forgets it otherwise.
Crash(w) ==
    LET t == run[w].task IN
    /\ run[w].pc # "idle"
    /\ crashes < MaxCrashes
    /\ crashes' = crashes + 1
    /\ run' = [run EXCEPT ![w] = IdleRun]
    /\ task' = [task EXCEPT ![t] =
                  IF @.left > 0
                  THEN [job |-> run[w].job, where |-> "queued", left |-> @.left - 1]
                  ELSE SpentTask]
    /\ UNCHANGED <<dbvars, library, req, restarts>>

-----------------------------------------------------------------------------
(* The pipeline: worker/tasks.py and app/services/import_pipeline.py *)

At(w, pc) == run[w].pc = pc
Goto(w, pc) == run' = [run EXCEPT ![w].pc = pc]

\* sync_update_job and commit: the status column is written when it differs
\* from the loaded one, the phase always does.
WriteJob(w, s, ph, pc) ==
    LET j == run[w].job IN
    /\ Present(j)
    /\ status' = IF run[w].mem = s THEN status ELSE [status EXCEPT ![j] = s]
    /\ phase' = [phase EXCEPT ![j] = ph]
    /\ run' = [run EXCEPT ![w].pc = pc, ![w].mem = s]

\* check_cancelled: commit, reload the row, and halt on "cancelled".
CheckThen(w, pc, stage) ==
    LET j == run[w].job IN
    /\ Present(j)
    /\ run' = [run EXCEPT
                 ![w].mem = status[j],
                 ![w].pc = IF status[j] = "cancelled" THEN "cancelling" ELSE pc,
                 ![w].stage = IF status[j] = "cancelled" THEN 0 ELSE stage]

\* run_import_job begins with recovery: the claims are read, ...
LookForRecovery(w) ==
    /\ At(w, "recover")
    /\ run' = [run EXCEPT ![w].seen = claim, ![w].pc = "recoverJudge"]
    /\ UNCHANGED <<dbvars, library, task, req, deaths>>

\* ... then their jobs, and the dangling jobs unless a claim is to be deleted first.
JudgeForRecovery(w) ==
    LET stale == Judged(run[w].seen, status) IN
    /\ At(w, "recoverJudge")
    /\ run' = [run EXCEPT ![w].seen = stale,
                          ![w].found = IF stale = NoClaims THEN Dangling ELSE {},
                          ![w].pc = "recoverWrite"]
    /\ UNCHANGED <<dbvars, library, task, req, deaths>>

\* The writes of recovery are committed, then the job is loaded.
Recover(w) ==
    LET j == run[w].job
        x == run[w]
    IN
    /\ At(w, "recoverWrite")
    /\ ~ RecoveryRaises(x)
    /\ ledger' = ReconciledLedger
    /\ claim' = ReconciledClaim(x)
    /\ status' = ReconciledStatus(x)
    /\ phase' = ReconciledPhase(x)
    /\ IF Present(j)
       THEN /\ run' = [run EXCEPT ![w] = [IdleRun EXCEPT !.job = j, !.task = x.task,
                                             !.pc = "begin", !.mem = status'[j]]]
            /\ UNCHANGED task
       ELSE EndTask(w)
    /\ UNCHANGED <<owned, rqid, library, req, deaths>>

\* The session is of no more use to the handler either.
RecoverFails(w) ==
    /\ At(w, "recoverWrite")
    /\ RecoveryRaises(run[w])
    /\ EndTask(w)
    /\ UNCHANGED <<dbvars, library, req, deaths>>

\* ImportPipeline.run: the job is running, whatever its status was.
Begin(w) ==
    /\ At(w, "begin")
    /\ WriteJob(w, "running", "work", "dedup")
    /\ UNCHANGED <<owned, rqid, claim, ledger, library, task, req, deaths>>

\* The log or work directory cannot be made: run_import_job records the
\* failure itself, unless it loaded the job as cancelled.
BeginFails(w) ==
    /\ At(w, "begin")
    /\ IF run[w].mem = "cancelled"
       THEN EndTask(w)
       ELSE Goto(w, "failing") /\ UNCHANGED task
    /\ UNCHANGED <<dbvars, library, req, deaths>>

\* The ledger is read before the claim is taken.
CheckLedger(w) ==
    LET j == run[w].job IN
    /\ At(w, "dedup")
    /\ Goto(w, IF ledger[VideoOf[j]] # NoRow /\ j \notin Reimport
               THEN "failing" ELSE "claim")
    /\ UNCHANGED <<dbvars, library, task, req, deaths>>

\* acquire_claim_sync reads the claims ...
LookForClaim(w) ==
    /\ At(w, "claim")
    /\ run' = [run EXCEPT ![w].seen = claim, ![w].pc = "claimJudge"]
    /\ UNCHANGED <<dbvars, library, task, req, deaths>>

\* ... and their jobs, and its own video's claim again if none is to be deleted.
JudgeForClaim(w) ==
    LET stale == Judged(run[w].seen, status) IN
    /\ At(w, "claimJudge")
    /\ run' = [run EXCEPT ![w].seen = stale,
                          ![w].pc = IF stale # NoClaims THEN "claimExpire"
                                    ELSE IF claim[VideoOf[run[w].job]] = NoJob
                                    THEN "claimInsert" ELSE "claimUpdate"]
    /\ UNCHANGED <<dbvars, library, task, req, deaths>>

\* The transaction of acquire_claim_sync: claims c are left by the deletions, and
\* the video's row is inserted or taken over, or the job refused.
TakeClaim(w, c, inserts) ==
    LET j == run[w].job
        v == VideoOf[j]
        goOn(pc) == run' = [run EXCEPT ![w].seen = NoClaims, ![w].pc = pc]
    IN
    /\ \/ /\ IF inserts THEN c[v] = NoJob ELSE MayTake(c, j)
          /\ claim' = [c EXCEPT ![v] = j]
          /\ goOn("setup")
       \/ /\ IF inserts THEN c[v] # NoJob ELSE ~ MustTake(c, j)
          /\ claim' = c
          /\ goOn("failing")
    /\ UNCHANGED <<status, phase, owned, rqid, ledger, library, task, req, deaths>>

ExpireAndTake(w) ==
    LET c == Without(run[w].seen) IN
    /\ At(w, "claimExpire")
    /\ TakeClaim(w, c, c[VideoOf[run[w].job]] = NoJob)

InsertClaim(w) == At(w, "claimInsert") /\ TakeClaim(w, claim, TRUE)

UpdateClaim(w) == At(w, "claimUpdate") /\ TakeClaim(w, claim, FALSE)

\* Collision mode "skip" and the output file exists: succeed without importing.
SkipExisting(w) ==
    /\ At(w, "setup")
    /\ WriteJob(w, "succeeded", "skipped_collision", "release")
    /\ owned' = [owned EXCEPT ![run[w].job] = "no"]
    /\ UNCHANGED <<rqid, claim, ledger, library, task, req, deaths>>

\* Dry run: a placeholder is written straight to the output path.
DryRun(w) ==
    /\ At(w, "setup")
    /\ library' = library \cup {run[w].job}
    /\ Goto(w, "dryCheck")
    /\ UNCHANGED <<dbvars, task, req, deaths>>

\* Mutant of DryRunCheck: a dry run is not entered in the ledger.
DryRunNotRecorded(w) ==
    /\ At(w, "dryCheck")
    /\ CheckThen(w, "succeed", 0)
    /\ UNCHANGED <<dbvars, library, task, req, deaths>>

DryRunCheck(w) ==
    /\ At(w, "dryCheck")
    /\ CheckThen(w, "record", 0)
    /\ UNCHANGED <<dbvars, library, task, req, deaths>>

StartStages(w) ==
    /\ At(w, "setup")
    /\ CheckThen(w, "enter", 1)
    /\ UNCHANGED <<dbvars, library, task, req, deaths>>

\* A stage begins with its status; nothing is read between the last check and
\* this write.
EnterStage(w) ==
    /\ At(w, "enter")
    /\ WriteJob(w, StageStatus[run[w].stage], "work", "work")
    /\ UNCHANGED <<owned, rqid, claim, ledger, library, task, req, deaths>>

\* Mutant of FinishStage: one stage too many.
FinishStageOffByOne(w) ==
    /\ At(w, "work")
    /\ IF run[w].stage <= LastStage
       THEN CheckThen(w, "enter", run[w].stage + 1)
       ELSE CheckThen(w, "publish", 0)
    /\ UNCHANGED <<dbvars, library, task, req, deaths>>

\* The stage's work, which polls for cancellation, and the check after it.
FinishStage(w) ==
    /\ At(w, "work")
    /\ IF run[w].stage < LastStage
       THEN CheckThen(w, "enter", run[w].stage + 1)
       ELSE CheckThen(w, "publish", 0)
    /\ UNCHANGED <<dbvars, library, task, req, deaths>>

\* Steps inside the try of ImportPipeline.run.
TrySteps == {"dedup", "claim", "claimJudge", "claimExpire", "claimInsert", "claimUpdate",
             "setup", "enter", "work", "publish", "commit", "filed", "landed", "scan",
             "scanned", "tidy", "dryCheck", "record", "succeed"}

\* A step fails, or the time limit of RQ strikes, up to the end of a run that has
\* already reported success.
FailRun(w) ==
    /\ \/ run[w].pc \in TrySteps
       \/ run[w].pc \in {"release", "drop", "closing"} /\ run[w].mem = "succeeded"
    /\ run' = [run EXCEPT ![w].pc = "failing", ![w].stage = 0, ![w].seen = NoClaims]
    /\ UNCHANGED <<dbvars, library, task, req, deaths>>

\* A failing download or conversion looks for a cancellation first.
FailChecked(w) ==
    /\ At(w, "work")
    /\ StageStatus[run[w].stage] \in {"downloading", "converting"}
    /\ CheckThen(w, "failing", 0)
    /\ UNCHANGED <<dbvars, library, task, req, deaths>>

\* phase = committing_output
StartCommit(w) ==
    /\ At(w, "publish")
    /\ Present(run[w].job)
    /\ phase' = [phase EXCEPT ![run[w].job] = "work"]
    /\ Goto(w, "commit")
    /\ UNCHANGED <<status, owned, rqid, claim, ledger, library, task, req, deaths>>

\* commit_staged_output puts the file in the library.
CommitOutput(w) ==
    /\ At(w, "commit")
    /\ library' = library \cup {run[w].job}
    /\ Goto(w, "filed")
    /\ UNCHANGED <<dbvars, task, req, deaths>>

\* phase = output_committed
MarkCommitted(w) ==
    /\ At(w, "filed")
    /\ Present(run[w].job)
    /\ phase' = [phase EXCEPT ![run[w].job] = "output_committed"]
    /\ Goto(w, "landed")
    /\ UNCHANGED <<status, owned, rqid, claim, ledger, library, task, req, deaths>>

\* The last checks: with a scan of Audiobookshelf for a single job that asked
\* for one, without it otherwise.
CheckCommitted(w) ==
    /\ At(w, "landed")
    /\ \/ CheckThen(w, "tidy", 0)
       \/ run[w].job \notin Batched /\ CheckThen(w, "scan", 0)
    /\ UNCHANGED <<dbvars, library, task, req, deaths>>

StartScan(w) ==
    /\ At(w, "scan")
    /\ WriteJob(w, "scanning", "work", "scanned")
    /\ UNCHANGED <<owned, rqid, claim, ledger, library, task, req, deaths>>

FinishScan(w) ==
    /\ At(w, "scanned")
    /\ CheckThen(w, "tidy", 0)
    /\ UNCHANGED <<dbvars, library, task, req, deaths>>

\* phase = cleanup
Cleanup(w) ==
    /\ At(w, "tidy")
    /\ Present(run[w].job)
    /\ phase' = [phase EXCEPT ![run[w].job] = "cleanup"]
    /\ Goto(w, "record")
    /\ UNCHANGED <<status, owned, rqid, claim, ledger, library, task, req, deaths>>

\* Mutant of MarkImported: the check at the start of the run is relied on.
MarkUnchecked(w) ==
    LET j == run[w].job IN
    /\ At(w, "record")
    /\ Present(j)
    /\ ledger' = [ledger EXCEPT ![VideoOf[j]] = j]
    /\ owned' = [owned EXCEPT ![j] = "yes"]
    /\ Goto(w, "succeed")
    /\ UNCHANGED <<status, phase, rqid, claim, library, task, req, deaths>>

\* sync_mark_video_imported, committed with the progress that follows it.  The
\* ledger's primary key decides between two runs that get here at once.
MarkImported(w) ==
    LET j == run[w].job
        v == VideoOf[j]
    IN
    /\ At(w, "record")
    /\ IF ledger[v] = NoRow \/ j \in Reimport
       THEN /\ Present(j)
            /\ ledger' = [ledger EXCEPT ![v] = j]
            /\ owned' = [owned EXCEPT ![j] = "yes"]
            /\ Goto(w, "succeed")
       ELSE /\ Goto(w, "failing")
            /\ UNCHANGED <<ledger, owned>>
    /\ UNCHANGED <<status, phase, rqid, claim, library, task, req, deaths>>

Succeed(w) ==
    /\ At(w, "succeed")
    /\ WriteJob(w, "succeeded", "work", "release")
    /\ UNCHANGED <<owned, rqid, claim, ledger, library, task, req, deaths>>

\* Mutant of HandleFailure: the claim is not released.
HandleFailureKeepsClaim(w) ==
    /\ At(w, "failing")
    /\ WriteJob(w, "failed", "work", "closing")
    /\ UNCHANGED <<owned, rqid, claim, ledger, library, task, req, deaths>>

\* The two handlers of ImportPipeline.run, which then release the claim.
HandleFailure(w) ==
    /\ At(w, "failing")
    /\ WriteJob(w, "failed", "work", "release")
    /\ UNCHANGED <<owned, rqid, claim, ledger, library, task, req, deaths>>

HandleCancel(w) ==
    /\ At(w, "cancelling")
    /\ WriteJob(w, "cancelled", "work", "release")
    /\ UNCHANGED <<owned, rqid, claim, ledger, library, task, req, deaths>>

\* The attempt is recorded, then the claim is read ...
ReleaseClaim(w) ==
    /\ At(w, "release")
    /\ Goto(w, IF Owns(run[w].job) THEN "drop" ELSE "closing")
    /\ UNCHANGED <<dbvars, library, task, req, deaths>>

\* ... and, when it is the job's, deleted.
DropClaim(w) ==
    /\ At(w, "drop")
    /\ claim' = Dropped(run[w].job)
    /\ Goto(w, "closing")
    /\ UNCHANGED <<status, phase, owned, rqid, ledger, library, task, req, deaths>>

\* The batch is told (and scanned, over HTTP), temporary files are removed.
Close(w) ==
    /\ At(w, "closing")
    /\ EndTask(w)
    /\ UNCHANGED <<dbvars, library, req, deaths>>

\* Steps that write or reload the job's row.
RowSteps == {"begin", "setup", "enter", "work", "publish", "filed", "landed", "scan",
             "scanned", "tidy", "dryCheck", "record", "succeed", "failing", "cancelling"}

\* The row was deleted under the run: the flush or refresh raises, the handlers
\* raise in turn, and the task ends without another write.
LoseRow(w) ==
    /\ run[w].pc \in RowSteps
    /\ ~Present(run[w].job)
    /\ EndTask(w)
    /\ UNCHANGED <<dbvars, library, req, deaths>>

-----------------------------------------------------------------------------
(* Web requests: app/services/jobs.py *)

Respond(r) == req' = [req EXCEPT ![r] = IdleReq]

Begun(j, pc) == [IdleReq EXCEPT !.job = j, !.pc = pc]
Proceed(r, pc) == req' = [req EXCEPT ![r].pc = pc]

\* The ids of jobs are new.
Fresh(j) == status[j] = "absent" /\ \A q \in Requests : req[q].job # j

\* The check of the ledger at the beginning of create_job.
Admitted(j, l) == l[VideoOf[j]] = NoRow \/ j \in Reimport

\* The transaction of create_job, which its own row begins, from statuses s and
\* claims c.
Create(r, s, c) ==
    LET j == req[r].job
        v == VideoOf[j]
        left == Expired(c, s)
    IN IF left[v] = NoJob
       THEN /\ status' = [s EXCEPT ![j] = "queued"]
            /\ claim' = [left EXCEPT ![v] = j]
            /\ req' = [req EXCEPT ![r] = Begun(j, "submitEnqueue")]
       ELSE \* DuplicateVideoError: the new row is deleted and that is committed
            /\ status' = s
            /\ claim' = left
            /\ Respond(r)

\* submit_job and submit_batch begin with recovery: the claims are read, ...
LookForSubmit(r, j) ==
    /\ req[r].pc = "idle"
    /\ j \notin Batched
    /\ Fresh(j)
    /\ req' = [req EXCEPT ![r] = [Begun(j, "submitJudge") EXCEPT !.seen = claim]]
    /\ UNCHANGED <<dbvars, library, task, run, deaths>>

LookForBatch(r) ==
    /\ req[r].pc = "idle"
    /\ \E j \in Batched : Fresh(j)
    /\ req' = [req EXCEPT ![r] = [Begun(NoJob, "batchJudge") EXCEPT !.seen = claim]]
    /\ UNCHANGED <<dbvars, library, task, run, deaths>>

\* ... then their jobs, and the dangling jobs unless a claim is to be deleted first.
\* With nothing to write, submit_job goes on to read the ledger.
JudgeForRequest(r) ==
    LET j == req[r].job
        stale == Judged(req[r].seen, status)
        writes == stale # NoClaims \/ Dangling # {}
        to(pc) == req' = [req EXCEPT ![r].seen = stale, ![r].pc = pc,
                                    ![r].found = IF stale = NoClaims THEN Dangling
                                                 ELSE {}]
    IN
    /\ \/ req[r].pc = "batchJudge" /\ to("batch")
       \/ /\ req[r].pc = "submitJudge"
          /\ IF writes \/ Admitted(j, ledger) THEN to("submit") ELSE Respond(r)
    /\ UNCHANGED <<dbvars, library, task, run, deaths>>

\* submit_job: recovery is part of the transaction that creates the job.  What
\* recovery wrote is rolled back with a refusal.
Submit(r) ==
    LET x == req[r]
        writes == x.seen # NoClaims \/ x.found # {}
    IN
    /\ x.pc = "submit"
    /\ IF ~ RecoveryRaises(x) /\ (writes => Admitted(x.job, ReconciledLedger))
       THEN /\ Create(r, ReconciledStatus(x), ReconciledClaim(x))
            /\ ledger' = ReconciledLedger
            /\ phase' = ReconciledPhase(x)
       ELSE Respond(r) /\ UNCHANGED <<status, claim, ledger, phase>>
    /\ UNCHANGED <<owned, rqid, library, task, run, deaths>>

\* submit_batch: recovery is committed with the batch, before its jobs.
BeginBatch(r) ==
    LET x == req[r] IN
    /\ x.pc = "batch"
    /\ IF ~ RecoveryRaises(x)
       THEN /\ ledger' = ReconciledLedger
            /\ claim' = ReconciledClaim(x)
            /\ status' = ReconciledStatus(x)
            /\ phase' = ReconciledPhase(x)
       ELSE UNCHANGED <<ledger, claim, status, phase>>
    /\ Respond(r)
    /\ UNCHANGED <<owned, rqid, library, task, run, deaths>>

\* An entry of the batch: the ledger is read, then the job created.
LookForEntry(r, j) ==
    /\ req[r].pc = "idle"
    /\ j \in Batched
    /\ Fresh(j)
    /\ Admitted(j, ledger)
    /\ req' = [req EXCEPT ![r] = Begun(j, "create")]
    /\ UNCHANGED <<dbvars, library, task, run, deaths>>

SubmitEntry(r) ==
    /\ req[r].pc = "create"
    /\ Create(r, status, claim)
    /\ UNCHANGED <<phase, owned, rqid, ledger, library, task, run, deaths>>

EnqueueSubmitted(r) ==
    /\ req[r].pc = "submitEnqueue"
    /\ \E t \in Tasks :
          /\ Enqueue(t, req[r].job)
          /\ req' = [req EXCEPT ![r].pc = "recordQueued", ![r].task = t]
    /\ UNCHANGED <<dbvars, library, run, deaths>>

\* Redis refuses, and release_claim reads the claim.  Only submit_batch fails the job.
SubmitEnqueueFails(r) ==
    LET j == req[r].job IN
    /\ req[r].pc = "submitEnqueue"
    /\ CASE Owns(j) -> Proceed(r, "submitDrop")
         [] ~ Owns(j) /\ j \in Batched -> Proceed(r, "submitFail")
         [] OTHER -> Respond(r)
    /\ UNCHANGED <<dbvars, library, task, run, deaths>>

\* The claim goes in the transaction that fails the job of a batch.
FailSubmitted(r) ==
    LET j == req[r].job IN
    /\ req[r].pc \in {"submitDrop", "submitFail"}
    /\ claim' = IF req[r].pc = "submitDrop" /\ (j \in Batched => Present(j))
                THEN Dropped(j) ELSE claim
    /\ status' = IF j \in Batched /\ Present(j)
                 THEN [status EXCEPT ![j] = "failed"] ELSE status
    /\ Respond(r)
    /\ UNCHANGED <<phase, owned, rqid, ledger, library, task, run, deaths>>

\* The RQ id is stored, and "queued" again, once the task is on the queue.
RecordQueued(r) ==
    LET j == req[r].job IN
    /\ req[r].pc = "recordQueued"
    /\ IF Present(j)
       THEN /\ status' = [status EXCEPT ![j] = "queued"]
            /\ rqid' = [rqid EXCEPT ![j] = req[r].task]
       ELSE UNCHANGED <<status, rqid>>
    /\ Respond(r)
    /\ UNCHANGED <<phase, owned, claim, ledger, library, task, run, deaths>>

\* cancel_job: the status is checked and the RQ job cancelled (any exception
\* of RQ is suppressed); a task already taken by a worker goes on.
CancelCheck(r, j) ==
    /\ "cancel" \in Ops
    /\ req[r].pc = "idle"
    /\ status[j] \in Active
    /\ req' = [req EXCEPT ![r] = Begun(j, "cancelWrite")]
    /\ \/ UNCHANGED task
       \/ /\ rqid[j] \in Tasks
          /\ task[rqid[j]].where = "queued"
          /\ task' = [task EXCEPT ![rqid[j]] = SpentTask]
    /\ UNCHANGED <<dbvars, library, run, deaths>>

CancelWrite(r) ==
    LET j == req[r].job IN
    /\ req[r].pc = "cancelWrite"
    /\ IF Present(j)
       THEN /\ status' = [status EXCEPT ![j] = "cancelled"]
            /\ req' = [req EXCEPT ![r].pc = "cancelRelease"]
       ELSE UNCHANGED status /\ Respond(r)
    /\ UNCHANGED <<phase, owned, rqid, claim, ledger, library, task, run, deaths>>

CancelRelease(r) ==
    /\ req[r].pc = "cancelRelease"
    /\ IF Owns(req[r].job) THEN Proceed(r, "cancelDrop") ELSE Respond(r)
    /\ UNCHANGED <<dbvars, library, task, run, deaths>>

CancelDrop(r) ==
    /\ req[r].pc = "cancelDrop"
    /\ claim' = Dropped(req[r].job)
    /\ Respond(r)
    /\ UNCHANGED <<status, phase, owned, rqid, ledger, library, task, run, deaths>>

\* retry_job: check the status; then acquire the claim and requeue; then enqueue.
RetryCheck(r, j) ==
    /\ "retry" \in Ops
    /\ req[r].pc = "idle"
    /\ status[j] \in Retryable
    /\ req' = [req EXCEPT ![r] = [Begun(j, "retryAcquire") EXCEPT
                                     !.prior = status[j], !.priorPhase = phase[j]]]
    /\ UNCHANGED <<dbvars, library, task, run, deaths>>

\* acquire_claim, as in a run.
LookForRetry(r) ==
    /\ req[r].pc = "retryAcquire"
    /\ req' = [req EXCEPT ![r].seen = claim, ![r].pc = "retryJudge"]
    /\ UNCHANGED <<dbvars, library, task, run, deaths>>

\* The job itself shows as it was when it was loaded.
JudgeForRetry(r) ==
    LET j == req[r].job
        stale == Judged(req[r].seen, [status EXCEPT ![j] = req[r].prior])
    IN
    /\ req[r].pc = "retryJudge"
    /\ req' = [req EXCEPT ![r].seen = stale,
                          ![r].pc = IF stale # NoClaims THEN "retryExpire"
                                    ELSE IF claim[VideoOf[j]] = NoJob
                                    THEN "retryInsert" ELSE "retryUpdate"]
    /\ UNCHANGED <<dbvars, library, task, run, deaths>>

\* The claim is taken and the job requeued in one transaction, unless the job is
\* gone; refused (JobConflictError), the session rolls back.
TakeAndRequeue(r, c, inserts) ==
    LET j == req[r].job
        v == VideoOf[j]
    IN
    /\ \/ /\ IF inserts THEN c[v] = NoJob ELSE MayTake(c, j)
          /\ IF Present(j)
             THEN /\ claim' = [c EXCEPT ![v] = j]
                  /\ status' = [status EXCEPT ![j] = "queued"]
                  /\ phase' = [phase EXCEPT ![j] = "work"]
             ELSE UNCHANGED <<claim, status, phase>>
          /\ req' = [req EXCEPT ![r].seen = NoClaims, ![r].pc = "retryEnqueue"]
       \/ /\ IF inserts THEN c[v] # NoJob ELSE ~ MustTake(c, j)
          /\ Respond(r)
          /\ UNCHANGED <<claim, status, phase>>
    /\ UNCHANGED <<owned, rqid, ledger, library, task, run, deaths>>

RetryExpire(r) ==
    LET c == Without(req[r].seen) IN
    /\ req[r].pc = "retryExpire"
    /\ TakeAndRequeue(r, c, c[VideoOf[req[r].job]] = NoJob)

RetryUpdate(r) == req[r].pc = "retryUpdate" /\ TakeAndRequeue(r, claim, FALSE)

\* An INSERT that nothing precedes is committed with its savepoint, before the job
\* is requeued.
RetryInsert(r) ==
    LET v == VideoOf[req[r].job] IN
    /\ req[r].pc = "retryInsert"
    /\ IF claim[v] = NoJob
       THEN /\ claim' = [claim EXCEPT ![v] = req[r].job]
            /\ Proceed(r, "retryRequeue")
       ELSE Respond(r) /\ UNCHANGED claim
    /\ UNCHANGED <<status, phase, owned, rqid, ledger, library, task, run, deaths>>

RetryRequeue(r) ==
    LET j == req[r].job IN
    /\ req[r].pc = "retryRequeue"
    /\ IF Present(j)
       THEN /\ status' = [status EXCEPT ![j] = "queued"]
            /\ phase' = [phase EXCEPT ![j] = "work"]
       ELSE UNCHANGED <<status, phase>>
    /\ Proceed(r, "retryEnqueue")
    /\ UNCHANGED <<owned, rqid, claim, ledger, library, task, run, deaths>>

EnqueueRetry(r) ==
    /\ req[r].pc = "retryEnqueue"
    /\ \E t \in Tasks :
          /\ Enqueue(t, req[r].job)
          /\ req' = [req EXCEPT ![r].pc = "recordQueued", ![r].task = t]
    /\ UNCHANGED <<dbvars, library, run, deaths>>

\* Redis refuses, and release_claim reads the claim.
RetryEnqueueFails(r) ==
    /\ req[r].pc = "retryEnqueue"
    /\ Proceed(r, IF Owns(req[r].job) THEN "retryDrop" ELSE "retryRestore")
    /\ UNCHANGED <<dbvars, library, task, run, deaths>>

\* Mutant of RetryRestore: the prior status does not come back.
RetryStaysQueued(r) ==
    LET j == req[r].job IN
    /\ req[r].pc \in {"retryDrop", "retryRestore"}
    /\ claim' = IF Present(j) /\ req[r].pc = "retryDrop" THEN Dropped(j) ELSE claim
    /\ Respond(r)
    /\ UNCHANGED <<status, phase, owned, rqid, ledger, library, task, run, deaths>>

\* The claim goes, and the prior status and phase come back.
RetryRestore(r) ==
    LET j == req[r].job IN
    /\ req[r].pc \in {"retryDrop", "retryRestore"}
    /\ IF Present(j)
       THEN /\ claim' = IF req[r].pc = "retryDrop" THEN Dropped(j) ELSE claim
            /\ status' = [status EXCEPT ![j] = req[r].prior]
            /\ phase' = [phase EXCEPT ![j] = req[r].priorPhase]
       ELSE UNCHANGED <<claim, status, phase>>
    /\ Respond(r)
    /\ UNCHANGED <<owned, rqid, ledger, library, task, run, deaths>>

\* Mutant of Delete: the ledger rows of a job go with it.
DeleteForgets(j) ==
    /\ "delete" \in Ops
    /\ Present(j)
    /\ status' = [status EXCEPT ![j] = "deleted"]
    /\ claim' = [v \in Videos |-> IF claim[v] = j THEN NoJob ELSE claim[v]]
    /\ ledger' = [v \in Videos |-> IF ledger[v] = j THEN NoRow ELSE ledger[v]]
    /\ UNCHANGED <<phase, owned, rqid, library, task, run, req, deaths>>

\* delete_jobs: jobs in any status, in one transaction.
Delete(j) ==
    /\ "delete" \in Ops
    /\ Present(j)
    /\ status' = [status EXCEPT ![j] = "deleted"]
    /\ claim' = [v \in Videos |-> IF claim[v] = j THEN NoJob ELSE claim[v]]
    /\ ledger' = [v \in Videos |-> IF ledger[v] = j THEN Severed ELSE ledger[v]]
    /\ UNCHANGED <<phase, owned, rqid, library, task, run, req, deaths>>

\* The web process stops in the middle of a request.
Abandon(r) ==
    /\ req[r].pc # "idle"
    /\ restarts < MaxRestarts
    /\ restarts' = restarts + 1
    /\ Respond(r)
    /\ UNCHANGED <<dbvars, library, task, run, crashes>>

-----------------------------------------------------------------------------
(* Specification *)

\* What a worker does of its own accord; where a run may fail, the failure is
\* the environment's.
WorkerStep(w) ==
    \/ \E t \in Tasks : Dequeue(w, t)
    \/ LookForRecovery(w)
    \/ JudgeForRecovery(w)
    \/ Recover(w)
    \/ RecoverFails(w)
    \/ Begin(w)
    \/ CheckLedger(w)
    \/ LookForClaim(w)
    \/ JudgeForClaim(w)
    \/ ExpireAndTake(w)
    \/ InsertClaim(w)
    \/ UpdateClaim(w)
    \/ SkipExisting(w)
    \/ DryRun(w)
    \/ DryRunCheck(w)
    \/ StartStages(w)
    \/ EnterStage(w)
    \/ FinishStage(w)
    \/ StartCommit(w)
    \/ CommitOutput(w)
    \/ MarkCommitted(w)
    \/ CheckCommitted(w)
    \/ StartScan(w)
    \/ FinishScan(w)
    \/ Cleanup(w)
    \/ MarkImported(w)
    \/ Succeed(w)
    \/ HandleFailure(w)
    \/ HandleCancel(w)
    \/ ReleaseClaim(w)
    \/ DropClaim(w)
    \/ Close(w)
    \/ LoseRow(w)

\* The rest of a request already begun.
RequestStep(r) ==
    \/ JudgeForRequest(r)
    \/ Submit(r)
    \/ BeginBatch(r)
    \/ SubmitEntry(r)
    \/ EnqueueSubmitted(r)
    \/ SubmitEnqueueFails(r)
    \/ FailSubmitted(r)
    \/ RecordQueued(r)
    \/ CancelWrite(r)
    \/ CancelRelease(r)
    \/ CancelDrop(r)
    \/ LookForRetry(r)
    \/ JudgeForRetry(r)
    \/ RetryExpire(r)
    \/ RetryInsert(r)
    \/ RetryUpdate(r)
    \/ RetryRequeue(r)
    \/ EnqueueRetry(r)
    \/ RetryEnqueueFails(r)
    \/ RetryRestore(r)

UserStep ==
    \/ \E r \in Requests, j \in Jobs :
          \/ LookForSubmit(r, j)
          \/ LookForEntry(r, j)
          \/ CancelCheck(r, j)
          \/ RetryCheck(r, j)
    \/ \E r \in Requests : LookForBatch(r)
    \/ \E j \in Jobs : Delete(j)

Misfortune ==
    \/ \E w \in Workers : BeginFails(w) \/ FailRun(w) \/ FailChecked(w) \/ Crash(w)
    \/ \E r \in Requests : Abandon(r)

Next ==
    \/ \E w \in Workers : WorkerStep(w)
    \/ \E r \in Requests : RequestStep(r)
    \/ UserStep
    \/ Misfortune

Spec == Init /\ [][Next]_vars

\* Workers that are up go on, and requests begun are carried through; users,
\* failures and crashes are under no obligation.
Fairness ==
    /\ \A w \in Workers : WF_vars(WorkerStep(w))
    /\ \A r \in Requests : WF_vars(RequestStep(r))

FairSpec == Spec /\ Fairness

-----------------------------------------------------------------------------
(* Properties *)

\* A job reports success only when the dedup ledger knows its video, or when it
\* skipped the import because the file was there.  Success is written one
\* transaction after the ledger row, by a run that may have been overtaken by
\* other runs of the job, requests, recovery and crashes.
SucceededIsRecorded ==
    \A j \in Jobs :
        status[j] = "succeeded" => owned[j] = "no" \/ ledger[VideoOf[j]] # NoRow

\* The ledger never names a job whose file did not reach the library, however
\* the file system and the database are torn apart by a crash.
RecordedIsFiled ==
    \A v \in Videos :
        ledger[v] \in Jobs => ledger[v] \in library /\ VideoOf[ledger[v]] = v

\* Without allow_reimport a video is imported once: at most one such job ever
\* gets owned_import, whichever checks of the ledger other jobs got past.
OneFirstImport ==
    \A j, k \in Jobs \ Reimport :
        /\ owned[j] = "yes" /\ owned[k] = "yes"
        /\ VideoOf[j] = VideoOf[k]
        => j = k

\* Every step of the program is a step of the ledger's specification.
Ledger == INSTANCE DedupLedger WITH recorded <- ledger, filed <- library
LedgerKept == Ledger!Spec

\* Steps of a run from its claim up to its entry in the ledger.
Processing == {"setup", "enter", "work", "publish", "commit", "filed", "landed", "scan",
               "scanned", "tidy", "dryCheck", "record"}

\* Two jobs never process the same video at once.
ExclusiveProcessing ==
    \A w, x \in Workers :
        /\ run[w].pc \in Processing /\ run[x].pc \in Processing
        /\ VideoOf[run[w].job] = VideoOf[run[x].job]
        => run[w].job = run[x].job

\* A run comes to write an end when it still has to load the job or holds it as
\* active.  When it holds an end, it need not write another.
Pursuing(w, j) ==
    /\ run[w].job = j
    /\ \/ run[w].pc \in {"recover", "recoverJudge", "recoverWrite"}
       \/ run[w].mem \in Active

\* Somebody is going to start the job, to end it or to cancel it.
InHand(j) ==
    \/ \E t \in Tasks : task[t].where = "queued" /\ task[t].job = j
    \/ \E w \in Workers : Pursuing(w, j)
    \/ \E r \in Requests :
          /\ req[r].job = j
          /\ \/ req[r].pc \in {"submitEnqueue", "retryEnqueue", "retryDrop",
                              "retryRestore", "cancelWrite"}
             \/ req[r].pc \in {"submitDrop", "submitFail"} /\ j \in Batched

\* What may strand a job: its run dies without retries left, or its recovery fails on
\* a job deleted meanwhile; its request stops; Redis refuses the task of a single job
\* (jobs.py:306); the "queued" that follows an enqueueing (jobs.py:310, 406, 611)
\* overwrites an end already reached.
Strands(j) ==
    \/ \E w \in Workers :
          /\ run[w].job = j
          /\ (Crash(w) /\ task[run[w].task].left = 0) \/ RecoverFails(w)
    \/ \E r \in Requests :
          /\ req[r].job = j
          /\ \/ Abandon(r)
             \/ SubmitEnqueueFails(r) /\ j \notin Batched
             \/ RecordQueued(r) /\ status[j] \notin Active

\* A job that shows as active is never forgotten, however its runs, retries and
\* cancellations overlap: a step that leaves nobody to go on with it is one that
\* strands it, or ends it.
NoneForgotten ==
    [][\A j \in Jobs :
          /\ status[j] \in Active => InHand(j)
          /\ status'[j] \in Active
          => InHand(j)' \/ Strands(j)]_vars

\* A failed or cancelled job has no row in the ledger.
UnfinishedNotRecorded ==
    \A j \in Jobs : status[j] \in Retryable => ledger[VideoOf[j]] # j

\* A claim is given up in the end, by its job, by a request or by recovery: no video
\* stays locked behind a job that is queued or running, and a run that succeeds or
\* fails leaves none behind.  Left to the next recovery are the claim that a run
\* takes for a job deleted under it, and that of a cancelled job: Redis refuses a
\* retry whose job an older run has taken up, and that run dies before it can see
\* that the cancellation is back.
ClaimGivenUp ==
    \A v \in Videos, j \in Jobs :
        claim[v] = j ~> claim[v] # j \/ status[j] \in {"deleted", "cancelled"}
=============================================================================
