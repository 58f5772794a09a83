----------------------------- MODULE ClaimRows -----------------------------
(***************************************************************************)
(* The claim of one video (the row of video_import_claims) at the level of *)
(* SQL statements: app/services/import_ledger.py, as worker tasks,         *)
(* submissions and retries call it.  SQLite's driver begins a transaction  *)
(* at the first statement that writes, so what a session reads before that *)
(* may be old when it writes; from there to its commit nobody else writes, *)
(* and its steps are one.  An INSERT between SAVEPOINT and RELEASE that    *)
(* nothing precedes is committed by the RELEASE.  ImportJobs has the same  *)
(* reads in the life of a job, without expiry in time; here are leases, a  *)
(* count of who was robbed, and what a run at work may rely on.            *)
(*                                                                         *)
(* A job is active or has ended.  Cancellation, which gives a claim up     *)
(* while the run goes on, the ledger and refusals of Redis are the subject *)
(* of ImportJobs and do not occur here.                                    *)
(***************************************************************************)
EXTENDS Integers, FiniteSets

CONSTANTS
    Jobs,       \* the jobs for the video
    Workers,    \* RQ worker processes
    Requests,   \* web requests in progress at a time
    MaxRetries, \* bound on the retries users ask for
    MaxDeaths,  \* bound on deaths of worker processes
    NoJob

ASSUME ConstantsOK ==
    /\ MaxRetries \in Nat
    /\ MaxDeaths \in Nat
    /\ NoJob \notin Jobs
    /\ Workers \cap Requests = {}

VARIABLES
    status,   \* Job.status
    claim,    \* the owner of the row, NoJob without a row
    lapsed,   \* expires_at is over
    queue,    \* jobs whose task is on the queue
    session,  \* what each process or request is doing on the database
    robbed,   \* jobs whose row was deleted while they were active, since they took it
    twice,    \* jobs that two workers have run at once
    retries, deaths

vars == <<status, claim, lapsed, queue, session, robbed, twice, retries, deaths>>
rows == <<claim, lapsed, robbed>>
bounds == <<retries, deaths>>

Sessions == Workers \cup Requests
Operations == {"none", "recover", "claim", "submit", "retry"}
Step == {"idle", "look", "judge", "delete", "begin", "create", "get", "insert",
         "update", "work", "refused", "release", "drop", "requeue", "enqueue"}
Idle == [op |-> "none", pc |-> "idle", job |-> NoJob, seen |-> NoJob]

\* Type invariant; a session at work has a job.
TypeOK ==
    /\ status \in [Jobs -> {"absent", "active", "ended"}]
    /\ claim \in Jobs \cup {NoJob}
    /\ lapsed \in BOOLEAN
    /\ queue \subseteq Jobs
    /\ session \in [Sessions -> [op : Operations, pc : Step, job : Jobs \cup {NoJob},
                                 seen : Jobs \cup {NoJob}]]
    /\ \A s \in Sessions : session[s].pc # "idle" => session[s].job \in Jobs
    /\ \A w \in Workers : session[w].pc # "idle" => status[session[w].job] # "absent"
    /\ robbed \subseteq Jobs
    /\ twice \subseteq Jobs
    /\ retries \in 0 .. MaxRetries
    /\ deaths \in 0 .. MaxDeaths

Init ==
    /\ status = [j \in Jobs |-> "absent"]
    /\ claim = NoJob
    /\ lapsed = FALSE
    /\ queue = {}
    /\ session = [s \in Sessions |-> Idle]
    /\ robbed = {}
    /\ twice = {}
    /\ retries = 0
    /\ deaths = 0

-----------------------------------------------------------------------------
(* Sessions *)

At(s, pc) == session[s].pc = pc
Job(s) == session[s].job
Op(s) == session[s].op
Go(s, c) == session' = [session EXCEPT ![s] = c]
Goto(s, pc) == Go(s, [session[s] EXCEPT !.pc = pc])

Activate(j) == status' = [status EXCEPT ![j] = "active"]

\* The row is written by j.
Take(j) == claim' = j /\ lapsed' = FALSE /\ robbed' = robbed \ {j}

\* The job that a DELETE by primary key takes the row from, if it is active.
Victim == {j \in Jobs : claim = j /\ status[j] = "active"}

\* Where a session goes on when no claim is to be expired.
AfterExpiry(s) ==
    CASE Op(s) = "recover" -> "begin"
      [] Op(s) = "submit" -> "create"
      [] OTHER -> "get"

\* Where it goes on with its claim and its commit.
AfterClaim(s) == IF Op(s) = "claim" THEN "work" ELSE "enqueue"

-----------------------------------------------------------------------------
(* expire_stale_claims: called by reconcile_import_state (a task, a        *)
(* submission) and by acquire_claim (a pipeline, a retry).  The recovery   *)
(* of succeeded jobs reads, compares and deletes the row in the same way.  *)

\* SELECT the row.
Look(s) ==
    /\ At(s, "look")
    /\ Go(s, [session[s] EXCEPT !.seen = claim,
                  !.pc = IF claim = NoJob THEN AfterExpiry(s) ELSE "judge"])
    /\ UNCHANGED <<status, rows, queue, twice, bounds>>

\* SELECT the job that owned it.
Judge(s) ==
    /\ At(s, "judge")
    /\ Goto(s, IF status[session[s].seen] = "active" THEN AfterExpiry(s)
               ELSE "delete")
    /\ UNCHANGED <<status, rows, queue, twice, bounds>>

\* DELETE the row, whoever owns it by now.  From here to its commit nobody else
\* writes: a submission and an acquisition insert their own row.
Delete(s) ==
    /\ At(s, "delete")
    /\ IF Op(s) = "recover"
       THEN /\ claim' = NoJob
            /\ robbed' = robbed \cup Victim
            /\ Goto(s, "begin")
            /\ UNCHANGED lapsed
       ELSE /\ claim' = Job(s)
            /\ lapsed' = FALSE
            /\ robbed' = (robbed \cup Victim) \ {Job(s)}
            /\ Goto(s, AfterClaim(s))
    /\ IF Op(s) \in {"submit", "retry"} THEN Activate(Job(s)) ELSE UNCHANGED status
    /\ UNCHANGED <<queue, twice, bounds>>

-----------------------------------------------------------------------------
(* acquire_claim after the expiry *)

Get(s) ==
    /\ At(s, "get")
    /\ Goto(s, IF claim = NoJob THEN "insert" ELSE "update")
    /\ UNCHANGED <<status, rows, queue, twice, bounds>>

\* acquire_claim returns False: the pipeline fails its job, a retry answers 409.
Refused(s) ==
    /\ IF Op(s) = "claim" THEN Goto(s, "refused") ELSE Go(s, Idle)
    /\ UNCHANGED <<status, rows>>

\* The RELEASE of the savepoint commits the row: a retry has yet to write the
\* job's status.
Insert(s) ==
    /\ At(s, "insert")
    /\ IF claim = NoJob
       THEN /\ Take(Job(s))
            /\ Goto(s, IF Op(s) = "claim" THEN "work" ELSE "requeue")
            /\ UNCHANGED status
       ELSE Refused(s)
    /\ UNCHANGED <<queue, twice, bounds>>

\* Mutant of TakeOver: a lease that is over is enough.
TakeOverLapsed(j) == claim # NoJob /\ (claim = j \/ lapsed)

\* _takeover_predicate.
TakeOver(j) == claim # NoJob /\ (claim = j \/ (lapsed /\ status[claim] # "active"))

\* The UPDATE decides, and begins the transaction that is then committed.
Update(s) ==
    /\ At(s, "update")
    /\ IF TakeOver(Job(s))
       THEN /\ Take(Job(s))
            /\ IF Op(s) = "retry" THEN Activate(Job(s)) ELSE UNCHANGED status
            /\ Goto(s, AfterClaim(s))
       ELSE Refused(s)
    /\ UNCHANGED <<queue, twice, bounds>>

-----------------------------------------------------------------------------
(* release_claim *)

Read(s) ==
    /\ At(s, "release")
    /\ IF claim = Job(s) THEN Goto(s, "drop") ELSE Go(s, Idle)
    /\ UNCHANGED <<status, rows, queue, twice, bounds>>

\* Mutant of Drop: the row stays.
DropNothing(s) ==
    /\ At(s, "drop")
    /\ Go(s, Idle)
    /\ UNCHANGED <<status, rows, queue, twice, bounds>>

Drop(s) ==
    /\ At(s, "drop")
    /\ claim' = NoJob
    /\ robbed' = robbed \cup Victim
    /\ Go(s, Idle)
    /\ UNCHANGED <<status, lapsed, queue, twice, bounds>>

-----------------------------------------------------------------------------
(* Worker processes *)

StartTask(w, j) ==
    /\ At(w, "idle")
    /\ j \in queue
    /\ queue' = queue \ {j}
    /\ Go(w, [Idle EXCEPT !.op = "recover", !.pc = "look", !.job = j])
    /\ twice' = IF \E v \in Workers : Job(v) = j THEN twice \cup {j} ELSE twice
    /\ UNCHANGED <<status, rows, bounds>>

\* ImportPipeline.run sets its job running, whatever it was.
Begin(w) ==
    /\ At(w, "begin")
    /\ Activate(Job(w))
    /\ Go(w, [Idle EXCEPT !.op = "claim", !.pc = "look", !.job = Job(w)])
    /\ UNCHANGED <<rows, queue, twice, bounds>>

\* A stage begins; with two runs of a job the other may have ended it.
EnterStage(w) ==
    /\ At(w, "work")
    /\ status[Job(w)] # "active"
    /\ Activate(Job(w))
    /\ UNCHANGED <<rows, queue, session, twice, bounds>>

\* The run succeeds or fails; its claim is released in a transaction of its own.
End(w) ==
    /\ At(w, "work") \/ At(w, "refused")
    /\ status' = [status EXCEPT ![Job(w)] = "ended"]
    /\ Goto(w, "release")
    /\ UNCHANGED <<rows, queue, twice, bounds>>

\* The worker dies, and RQ puts the task back.
Die(w) ==
    /\ ~ At(w, "idle")
    /\ deaths < MaxDeaths
    /\ deaths' = deaths + 1
    /\ queue' = queue \cup {Job(w)}
    /\ Go(w, Idle)
    /\ UNCHANGED <<status, rows, twice, retries>>

-----------------------------------------------------------------------------
(* Requests *)

\* submit_job, with an id that is new.
Submit(r, j) ==
    /\ At(r, "idle")
    /\ status[j] = "absent"
    /\ \A s \in Sessions : Job(s) # j
    /\ Go(r, [Idle EXCEPT !.op = "submit", !.pc = "look", !.job = j])
    /\ UNCHANGED <<status, rows, queue, twice, bounds>>

\* Mutant of Create: a refused submission is enqueued all the same.
CreateAnyhow(r) ==
    /\ At(r, "create")
    /\ IF claim = NoJob \/ status[claim] # "active"
       THEN /\ Take(Job(r))
            /\ Activate(Job(r))
       ELSE UNCHANGED <<status, rows>>
    /\ Goto(r, "enqueue")
    /\ UNCHANGED <<queue, twice, bounds>>

\* create_job inserts the job first, so that all of its acquisition is in one
\* transaction; refused, it deletes the job again.
Create(r) ==
    /\ At(r, "create")
    /\ IF claim = NoJob \/ status[claim] # "active"
       THEN /\ Take(Job(r))
            /\ Activate(Job(r))
            /\ Goto(r, "enqueue")
       ELSE Go(r, Idle) /\ UNCHANGED <<status, rows>>
    /\ UNCHANGED <<queue, twice, bounds>>

\* retry_job looks at the status before it acquires the claim.
Retry(r, j) ==
    /\ At(r, "idle")
    /\ status[j] = "ended"
    /\ retries < MaxRetries
    /\ retries' = retries + 1
    /\ Go(r, [Idle EXCEPT !.op = "retry", !.pc = "look", !.job = j])
    /\ UNCHANGED <<status, rows, queue, twice, deaths>>

\* update_job_status, after a claim that was committed before.
Requeue(r) ==
    /\ At(r, "requeue")
    /\ Activate(Job(r))
    /\ Goto(r, "enqueue")
    /\ UNCHANGED <<rows, queue, twice, bounds>>

Enqueue(r) ==
    /\ At(r, "enqueue")
    /\ queue' = queue \cup {Job(r)}
    /\ Go(r, Idle)
    /\ UNCHANGED <<status, rows, twice, bounds>>

\* The lease of the row runs out.
Lapse ==
    /\ claim # NoJob
    /\ ~ lapsed
    /\ lapsed' = TRUE
    /\ UNCHANGED <<status, claim, queue, session, robbed, twice, bounds>>

-----------------------------------------------------------------------------
Statement(s) ==
    \/ Look(s) \/ Judge(s) \/ Delete(s)
    \/ Get(s) \/ Insert(s) \/ Update(s)
    \/ Read(s) \/ Drop(s)

RunStep(w) ==
    \/ Statement(w) \/ Begin(w) \/ End(w)
    \/ \E j \in Jobs : StartTask(w, j)

RequestStep(r) == Statement(r) \/ Create(r) \/ Requeue(r) \/ Enqueue(r)

Next ==
    \/ \E w \in Workers : RunStep(w) \/ EnterStage(w) \/ Die(w)
    \/ \E r \in Requests :
           \/ RequestStep(r)
           \/ \E j \in Jobs : Submit(r, j) \/ Retry(r, j)
    \/ Lapse

Spec == Init /\ [][Next]_vars

\* Workers and requests go on.
FairSpec ==
    /\ Spec
    /\ \A w \in Workers : WF_vars(RunStep(w))
    /\ \A r \in Requests : WF_vars(RequestStep(r))

-----------------------------------------------------------------------------
(* Properties *)

\* However the statements of recoveries, acquisitions and releases interleave,
\* a run that works on the video holds the row, unless a DELETE took it away or
\* the job has had two runs at once: an INSERT or a take-over of another job
\* never takes it, and a run that was refused never works (acquire_claim).
WorkHoldsClaim ==
    \A w \in Workers :
        At(w, "work") /\ Job(w) \notin robbed \cup twice => claim = Job(w)

\* Whatever is lost on the way, no job keeps the row for good.
ClaimPasses == \A j \in Jobs : claim = j ~> claim # j
=============================================================================
