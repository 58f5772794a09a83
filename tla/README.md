# ReelDock, specified

TLA+ models of [ReelDock](../src/README.md): a web application that turns
YouTube videos into audiobook files, with its queue of import jobs, its worker
processes, its output files, its dedup ledger, its requests to Audiobookshelf, its
settings and the browsers paired with it. The modules are translated from the
Python source under `src/`; `PROJECT.json` names, for every definition, the lines
it stands for.

## The system

ReelDock is several processes around one SQLite file:

| part | code | state it keeps |
| --- | --- | --- |
| web process (FastAPI) | `app/factory.py`, `app/routes/*` | the cache of settings, the open sockets; otherwise a request is a session on the database |
| job service | `app/services/jobs.py` | rows of `jobs`, `import_batches` |
| ledger and claims | `app/services/import_ledger.py` | `imported_videos` (who imported a video), `video_import_claims` (who is importing it) |
| queue | `app/queue.py`, Redis | RQ tasks with `Retry(max)` |
| worker processes | `worker/tasks.py`, `app/services/import_pipeline.py` | the stage a run is in, its session's copy of the job's row |
| output files | `app/services/filesystem.py` | work directories, the library |
| tools | `process_runner.py`, `ytdlp.py`, `ffmpeg.py` | child processes, a thread that reads their output |
| batch scan | `app/services/batch_abs.py` | generations, status and lease of a batch's one Audiobookshelf scan |
| index tracking | `app/services/abs_index.py`, `audiobookshelf.py` | `abs_index_*` columns of a job, a chain of delayed RQ tasks |
| pairing and devices | `app/services/pairing.py`, `routes/extension.py` | pairing codes, devices, a failure counter in Redis |
| live updates | `app/services/ws_tickets.py`, `routes/ws.py` | one-use tickets and revocation keys in Redis |
| browser extension | `browser-extension/src` | recent jobs in memory and storage, open sockets, polling timer, connection state |
| settings, secrets | `config.py`, `settings_registry.py`, `secret_store.py` | settings table, key file |
| the rest | `auth.py`, `csrf.py`, `validators.py`, `destination.py`, `diagnostics.py`, `db.py` (migrations), templates | none that outlives a request or the start-up |

How they meet:

* `submit_job` writes a job and its claim in one transaction, then enqueues, then
  writes the RQ id; `submit_batch` does the same for each entry. `retry_job`
  claims and requeues, `cancel_job` writes `cancelled` and gives the claim up,
  `delete_jobs` removes rows and cuts the ledger's reference to them.
* RQ hands the task to a worker. `run_import_job` first recovers all tables
  (`reconcile_import_state`), then runs the pipeline: ledger check, claim, the
  stages with a cancellation check between them, publication of the file, ledger
  row, success, release of the claim. Every step of this is a transaction of its
  own, and requests and other workers run between any two.
* The pipeline learns of a cancellation only by reading its row again.
* A child of a batch that ends tells `batch_abs`, and the process that finds all
  children ended claims the one scan of the batch.

What is hard here: no lock spans two commits of a run; sessions work on copies
(`expire_on_commit=False`, `db.py:76, 252`); the database, the library and Redis
change in separate steps; a worker may die between any two of them and RQ runs
its task again from the start; a cancelled run goes on for a while. The hazards,
each at its line, are listed in `PROJECT.json`.

What makes each part correct:

* jobs and ledger: success implies a ledger row, a ledger row implies a file; a
  video is imported once unless the user asked for more; a recorded video stays
  recorded;
* jobs: one that shows as active has somebody to start, end or cancel it, unless a
  process stopped, Redis refused, or an enqueueing was overtaken by its run;
* claims: every claim is given up in the end, but for two leftovers that the next
  recovery takes; a run at work holds its row unless a DELETE of an outdated row
  took it or its job has had two runs at once (an active job's claim may be handed to
  another job: see `ClaimRows`);
* batch scan: one scan at a time; what shows as scanned has been scanned since
  every success counted in it;
* index tracking: a job that shows as waiting for Audiobookshelf has a check coming,
  no check is scheduled past the last delay, and the wait ends;
* output files: a published file is complete, no file is replaced in the modes that
  promise to keep it, nothing temporary stays beside the library, and success
  implies the file;
* subprocesses: a cancelled child is gone when the runner returns;
* pairing: a code pairs one device, what can still act for a revoked device is marked,
  and a block ends, unless Redis was not told;
* live updates: a ticket opens one socket, a socket tells the end of its job and does
  not outlive a published revocation;
* settings: a save takes effect in the web process, a job runs with the whole of one
  committed table (or, when the read fails, with none), a save never keeps the process
  from starting, and stored secrets stay readable unless the key file is lost;
* extension: the end of a job is notified at most once (and once more for each stop of the
  service worker), does not stay hidden for good, though it may be undone again and
  again, no end is shown that has not come, and a failed request does not switch
  polling off.

## Modules

| module | models | used by |
| --- | --- | --- |
| `DedupLedger` | what `imported_videos` promises: an abstract specification, without jobs' statuses, workers or requests | `ImportJobs` (refinement) |
| `ImportJobs` | jobs, claims, ledger, queue, runs and requests | `MCImportJobs`, proofs |
| `MCImportJobs` | values of the constants for TLC | runs `ImportJobs*` |
| `ImportJobsProofs` | its type correctness, the ledger's invariants, the refinement, and that no job is forgotten | |
| `ClaimRows` | the claim of one video, statement by statement | `MCClaimRows`, proofs |
| `MCClaimRows` | values of the constants for TLC | run `ClaimRowsChecks` |
| `ClaimRowsProofs` | its type correctness, and the claim of a run at work | |
| `BatchScan` | the batch's scan | `MCBatchScan`, proofs |
| `MCBatchScan` | symmetry and the bound of the instance for TLC | runs `BatchScan*` |
| `BatchScanProofs` | its type correctness, mutual exclusion and completeness | |
| `AbsIndex` | the checks that follow an imported file into Audiobookshelf | `MCAbsIndex`, proofs |
| `MCAbsIndex` | values of the constants for TLC | run `AbsIndexChecks` |
| `AbsIndexProofs` | its type correctness, and that a check is coming | |
| `OutputFiles` | path choice, child processes, staged copy and publication | `MCOutputFiles`, proofs |
| `MCOutputFiles` | values of the constants for TLC | run `OutputFilesChecks` |
| `OutputFilesProofs` | its type correctness, invariants and action properties | |
| `Devices` | pairing, tickets, revocation, sockets | `MCDevices`, proofs |
| `MCDevices` | values of the constants for TLC | run `DevicesChecks` |
| `DevicesProofs` | its type correctness and invariants | |
| `Settings` | the layers of settings, their cache, saves, the key file | `MCSettings`, proofs |
| `MCSettings` | values of the constants for TLC | run `SettingsChecks` |
| `SettingsProofs` | its type correctness, invariants and action properties | |
| `ExtensionJobs` | the recent jobs of the browser extension, polling, sockets, notifications | `MCExtensionJobs`, proofs |
| `MCExtensionJobs` | values of the constants and the bound of the instance for TLC | run `ExtensionJobsChecks` |
| `ExtensionJobsProofs` | its type correctness and invariants | |

### ImportJobs

One action is one database transaction, one Redis command, or what a session reads
before a transaction. SQLite has a single writer and a session holds the write lock from
its first flush to its commit, so what is between is seen by others all at once. What
comes before the first write is not: SQLite's driver begins a transaction there. So
`expire_stale_claims`, `acquire_claim` and `release_claim` are cut into their
readings (`LookFor...` the claims, `JudgeFor...` their jobs, `ReleaseClaim`, `CancelRelease`) and
the writes that follow (`Recover`, `ExpireAndTake`, `RetryExpire`, `DropClaim`, ...), which
delete rows by key, whoever owns them by then (`Without`, `Dropped`). `create_job` flushes
its own row first and is one step (`Create`, `Expired`). The program counter `run[w].pc` of a
worker or `req[r].pc` of a request names the place between two steps.

* `status`, `phase`, `owned`, `rqid` are columns of `jobs`. Of the phases only those
  that recovery or backfill look at are told apart (`work` is every other).
* `claim`, `ledger` are the two tables keyed by video; `Severed` is a ledger row
  whose job has been deleted (`job_id` NULL).
* `library` holds the jobs whose output file has been put in place.
* `task` are RQ's tasks with the retries they have left. RQ is external.
* `seen` is what a session has read of the claims, and then those of them whose job had
  ended; `found` the jobs that recovery took for done.
* `run[w].mem` is the status in the session's copy of the row. `WriteJob` writes
  the column only if it differs from the copy, as the ORM does; `CheckThen` is
  `check_cancelled`: commit, reload, halt on `cancelled`.
* Recovery (`Recover`, `Submit`, `BeginBatch`) is the set of `Reconciled...`
  operators, each giving a table as `reconcile_import_state` leaves it. Where a job it
  found was deleted meanwhile, its UPDATE raises (`RecoveryRaises`).
* `LoseRow` is what becomes of a run whose job is deleted: its next flush or
  refresh raises, the handlers raise in turn, and RQ records the task as done.
* `FailRun` (an error or the time limit of RQ at any step inside the `try`, up to the
  tidying after a success), `FailChecked` (an error that is looked at for a cancellation
  first), `BeginFails`, `RecoverFails`, `SubmitEnqueueFails` and `RetryEnqueueFails` are
  failures that the code handles; `Crash` and `Abandon` the deaths it does not see.

The working stages (download, postprocessing, conversion, verification) have one
shape: status written, work, check. `EnterStage` and `FinishStage` are indexed by
the stage, and `LastStage` bounds how many of the four a run goes through.

### DedupLedger

Four actions: a file is put in the library, a video is imported for the first
time, imported again by a job that may, or loses the reference to a deleted job.
`ImportJobs` implements it under `recorded <- ledger, filed <- library`
(`LedgerKept`). Recovery's backfill, cancellation and crashes have no counterpart
there: that they stutter is what the refinement says.

### ClaimRows

The claims once more, statement by statement, for what a run may rely on. `ImportJobs`
leaves open when a lease is over and has no memory of who lost a claim how; `ClaimRows` takes
one video, has its lease, and records who was robbed. Each read is a step:
`Look` (the row), `Judge` (its job), `Get`
(the row once more), `Read` (before a release). From the first write to the commit
nobody else writes, and the rest of the transaction is one step: `Delete` of an
expired claim includes the insertion of the session's own, where one follows. `Create`
is one step because `create_job` inserts its job before it acquires.

An insertion that nothing precedes is between SAVEPOINT and RELEASE, and the RELEASE
commits it: `Insert` of a retry leads to `requeue`, where the claim is committed and the
job still ended.

`status` has three values, since the statements ask only whether a job has ended. `robbed`
has the jobs whose row was deleted while they were active, `twice` those that two workers
have run at once (a request that enqueues again, a death that RQ answers). `Die` puts the
task back, with a retry of RQ for each death. Cancellation (which
gives a claim up on purpose), the ledger and refusals of Redis are in `ImportJobs`.

What the model shows without a property: an active job may lose its row, which is why
`robbed` is an exception in `WorkHoldsClaim`. A submission reads the claim of a run that
has just ended, the run releases it, another submission takes it, and the first then
deletes the row by its key, the video, and takes it: two active jobs, although the docstring
of `expire_stale_claims_sync` (`import_ledger.py:119-121`) says that a running job keeps
exclusivity. The job that was robbed finds the video claimed when it starts, and fails.
`ImportJobs` has the same steps, which is why none of its properties relies on a claim:
that a video is imported first by one job only (`OneFirstImport`) is the work of the
ledger's primary key.

### BatchScan

`batch` is the row of `import_batches`, `proc[p].mem` the copy that a process
holds. `Flushed` writes back the columns in which the copy was changed; the UPDATE
that claims is decided by the row, and repeated on the copy (`Claim`). Where a
session has flushed (recovery of a stale lease) other writers are kept out up to
its commit, so `LookAndRecover` and `RetryStaleScan` are single steps.
`imported`, `noted` and `seen` are history: which children reached success, which
of these were counted in the row, and which were in the library when a scan that
Audiobookshelf accepted began. `overwritten` is history too: a client's retry has written
its copy over a row that had changed since the client read it (`RetryWrite`,
`batch_abs.py:219-222`). Then a success counted meanwhile may be lost, or the claim of a scan
in flight may be set to `pending` and a second scan begin; both properties of the scan make
this exception, and say that no other step breaks them.

Expiry of a lease (ten minutes) needs no process to be inside its HTTP request,
which is given up after thirty seconds (`audiobookshelf.py:182`).

### AbsIndex

`idx`, `attempts` and `recent` are the columns `abs_index_status`,
`abs_index_attempts` and `abs_last_checked_at` of a job, the last reduced to
whether it is less than a minute old, which is all that is asked of it. Of the
job's status only three values matter: under way, succeeded, ended otherwise.
`task[j]` is the one RQ job `abs-reconcile-<id>`: it may be waiting for its time
(`delayed`) and on the queue (`queued`), and its attempt is that of the last
`enqueue_reconcile`, since RQ stores a task under its id. `Due` is RQ's scheduler.

A check is two steps, `StartCheck` (to its first commit) and `Found` or `NotFound`
(after the answer). Requests for a scan are two steps as well: `RequestScan` or
`RetryScan`, then `ScanDone`; for a batch `ScanBatch`, then `MarkChild` for each child
or `BatchScanFails`. Other processes act in between, and what is written then
depends on `proc[p].mem`, the copy held. `MarkChild` takes the copy or the row: the
run whose end caused the scan holds its own job, while the other children have
been dropped from the session and are loaded again. `RetryBatchedScan` flushes before
its call and so locks the database up to its commit: it is one step.

`StartRun` contains `resume_pending_abs_index`, which each import run calls: chains
that nobody has looked after for a minute start again where their count says.
`Restart`, `NotFound` and `StartRun` each have the branch in which Redis refuses the task.

`lost` names the three ways a chain may end without a final status: the check came
when the job had not succeeded, the worker died in it, or Redis refused the
next one. A resumption or a new chain takes the job off. The properties are about
the jobs not in it, so each says that there is no fourth way.

Assumed: Audiobookshelf is configured, and the file is below the library root.
The container starts its worker with a scheduler (`entrypoint.sh:47`); without
one no delayed check is ever made.

### OutputFiles

The pipeline once more, seen from the file system: where `ImportJobs` has one step
that puts a file in the library, here are the choice of the path, the child
processes, the staged file `staged[j]`, the temporary `sibling[p]` beside the final
name, and `final[p]`. A job is its status, its collision mode and whether it is a dry run.
All jobs have one title and folder, so that every first choice is the same path;
jobs with different names meet nowhere. A file is `part` or `whole`, `fake` (a dry
run's) or `strange` (somebody else's).

`ResolveOutput` chooses a path by looking at `final`; nothing reserves it
(`filesystem.py:360`). `StartChild`, `StopChild`, `ChildSucceeds` and `ChildFails`
are `run_streaming_process` around yt-dlp, ffmpeg, and ffmpeg without the cover:
a cancelled child is told to go, then killed, and the runner waits for it. An exception
out of the runner (a timeout of RQ, a deleted row) stops no child. `VerifyOutput`, `EndCopy`,
`Rename` are `commit_staged_output` with what may fail in it; `Handle` and
`CleanUp` are the two halves of both exception handlers, since the row is told
before the files are removed.

Two processes at one file may do anything to it. The history variable `mixed` has the
jobs this has happened to: another run held their path, a retry overtook their
cancelled run, or a child was left behind. `died` has the jobs a worker died under,
`late` the paths where a file of somebody else turned up after a run had chosen
them. The properties name these cases; each says that there is no other.

### Devices

`code`, `device` are the two tables; `result`, `fails`, `mark`, `ticket` keys in Redis,
`held` the token in the browser's storage, `sock[t]` the coroutine of the
socket opened with ticket `t`. All requests share one event loop: a handler without an
`await` is one step. What is cut: the token is checked in a thread of its own
(`Authenticate`) before the handler (`IssueTicket`, `RevokeMe`); a disconnecting browser
waits for the server's answer before it clears its own copy (`Clear`); a socket awaits
between its check for revocation (`CheckRevoked`) and its read of the job (`ReadJob`),
and between rounds. `WebStops` may fall into a revocation: rows written, marks not, or
some of them.

`Pair` is one step because the `UPDATE` of `consume_pairing_code` decides who has the code
and holds SQLite's write lock from there to its commit; the answer may be
lost (`AnswerLost`). `CountFailure` has the branch in which `EXPIRE` does not follow
`INCR`. History: `unsaid` (revocations that Redis was not told of),
`torn` (a counter without expiry).

A mark in Redis lasts a day, a ticket a minute, a request or a round of a socket
seconds; `MarkExpires` therefore needs that nothing is afoot for the device.

What the model shows without a property: `Clear` wipes whatever token is stored by then
(`background.js:447-456`). A device that another page of the browser has paired while the
answer to a disconnection was on its way is forgotten, though the server accepts it; so
is one whose answer is lost (`AnswerLost`). The settings page still lists and revokes both.

### Settings

Five settings stand for the registry: a switch and a name that must agree with a
password, two secrets, and one path that the deployment binds. `Merge` is
`_merge_setting_layers` in the two modes, `Valid` the check of the credentials.
`load[t]` is where the event loop or a pool thread is in `get_settings`, which fills the
module globals without a lock: first with the deployment's values, then with the merged ones.
`page` is where the event loop is in a save: preview, encryption, commit, two
invalidations and a load of its own. `job` loads in the worker's process and has
no cache to share; it keeps the tables that were committed while it was loading and
the key it read, for `JobsSeeSaved`.

The key file is created empty and then written (`CreateKeyFile`, `WriteKeyFile`),
either by a page that needs a CSRF token or pairing code or by a save with a secret. It may be
lost and be restored from a backup while no save is under way. A read of the table
that fails for any other reason than an unreadable secret counts as an empty
table (`config.py:468-469`): `LoadNoRows`, `PreviewNoRows`, `JobLoadsNoRows`.

Two simplifications: `LoadBootstrap` is one step for the assignments of
`_bootstrap_values` and `_settings`; and `create_app` and `lifespan`, which load one after the
other, are one `Start`. History: `lost` (the key file was removed from outside),
`disturbed` (the last reload met another thread's load or a failed read), and in `page`
whether the preview read the table and knew the deployment's values.

What the model shows without a property: a job whose read fails for another reason than an
unreadable secret runs with the deployment's values alone (`config.py:468-470`), which
`JobsSeeSaved` states as its second case; a request that meets a load of another thread may
be given the deployment's values alone, or `None` when the cache is dropped between
the test and the return; a load that began before a save may put the old table
back into the cache after it, where it stays until the next save; when the key file is
lost under a running process, the next page mints another key although encrypted
rows exist, which `secret_store.py:4-5` says never happens, after which restoring
the old file is the only way to the secrets. `disturbed` and `lost` stand for
these cases in the properties.

### ExtensionJobs

The extension's service worker has one thread; a handler runs from one `await` to the
next. `task[t]` is a handler in progress: a command of the popup (`Poll`, `Look`,
`Queue`, `Cancel`, `Retry`), a tick of polling (`Tick`) or a message of a socket
(`Message`), with the list or answer it looked at before its last await. `recentJobs` is the
list in memory, `stored` that in the browser's storage. The browser answers storage calls in the
order they are made: `replies` has the handlers that wait. `Save` is
`persistJobs`: memory, storage, and the sockets of jobs that are no longer active.

A request reaches the server (`Accept`), is refused (`Refuse`) or fails (`Lost`); its
answer comes later (`Answered`, `Fetched`), and the server may have gone on. `Upsert` is
the list's own merge with its limit, `MergeJob` what an answer does to a record,
`MayTell` the decision to notify. `Ticket`, `Send`, `Closed`, `Broken`, `Again` are a
socket and its timer, seen from the browser; the server's end of it is in `Devices`.
`Restart` is a stop of the service worker with the start that the next event brings: memory,
claims, timers, sockets and handlers are gone, the stored list is loaded.

`told` is history: the notifications of a job's end since it was queued or retried.

What the model shows without a property: a handler that loads the settings puts the list as
it was when it asked back into memory (`background.js:98`). A poll that then merges the answer
about another job writes the stale list to the storage (`background.js:328`), and an end that
was shown there is undone; overlapping polls may do so over and over, so `EndShown` says only
that the end comes back each time. A notification that looks at memory right then
finds no end and is not shown. And after a retry an answer from before may show the earlier
end once more. An end may also be notified again after a stop of the service worker:
an answer from before a cancellation takes back the mark that the end was notified
(`background.js:325`), the claim that still prevents a second notification is in memory, and
the stop ends it; `ToldOncePerLife` counts the stops, where `browser-extension/README.md:19-20`
promises one notification.

## Runs

| run | instance | result |
| --- | --- | --- |
| `ImportJobsRaces` | 2 jobs for one video, 2 workers, 2 tasks, 1 request slot, no batch, cancels and deletions, 1 death of a process, one stage | `TypeOK`, `SucceededIsRecorded`, `OneFirstImport`, `LedgerKept` hold (0.6 million states) |
| `ImportJobsClaims` | 1 job of a batch that may re-import, 2 tasks, 1 worker, cancels and retries, 1 death with a re-run, one stage, fairness | `ClaimGivenUp`, `NoneForgotten` hold (0.6 million) |
| `ImportJobsRerun` | 1 worker, failures, 1 death, four stages | `UnfinishedNotRecorded` violated |
| `ImportJobsOverlap` | 2 workers, cancellation, four stages | `ExclusiveProcessing` violated |
| `BatchScanChecks` | 2 children, 2 workers, 1 client, 1 death, two rounds, up to the first overwriting | `TypeOK`, `SettledIsSeen`, `OneScan` hold (2.0 million) |
| `BatchScanLost` | 2 children, 1 worker, 1 client | `SucceededIsCaughtUp` violated |
| `AbsIndexChecks` | 1 single job and 1 of a batch, 1 worker, 1 client, 2 delays, 2 requests, 1 death or refusal, fairness | `TypeOK`, `CheckComing`, `IndexSettles` hold (0.3 million) |
| `DevicesChecks` | 2 codes, 2 devices, 1 job, 1 ticket, 1 request at a time, limit 2, 1 fault, fairness | `TypeOK`, `PairedOnce`, `TicketOpensOne`, `RevokedIsMarked`, `RevokedSocketsClose`, `EndIsTold`, `BlockEnds` hold (0.6 million) |
| `OutputFilesChecks` | 2 jobs of two videos with one file name, 2 workers, one `(n)` path, 1 fault; five pairs of collision modes, two with a dry run | `TypeOK`, `PublishedWhole`, `NoStrays`, `KeptFiles`, `SuccessIsFiled` hold (0.8 million) |
| `SettingsChecks` | 3 deployments (empty; one that asks to sign in and binds a path; locked), 3 forms, 2 saves or resets, 1 pool thread or 1 job, 2 keys, 3 faults | `TypeOK`, `SecretsReadable`, `SavesTakeEffect`, `JobsSeeSaved`, `OneKey`, `SavesCanStart` hold (0.9 million) |
| `ExtensionJobsChecks` | 1 job with 2 handlers and a fault, a stop or a retry, 1 socket; 2 jobs in a list of 2 with 2 handlers; a third job with 1 handler; fairness | `TypeOK`, `ToldOncePerLife`, `EndIsReal`, `FlagIsTick`, `EndShown` hold (0.3 million) |
| `ClaimRowsChecks` | 2 jobs, 2 workers, 2 requests, 1 retry, 1 death, fairness | `TypeOK`, `WorkHoldsClaim`, `ClaimPasses` hold (0.5 million) |

Bounds. Two jobs for one video are enough for a conflict about it (jobs for
different videos share no row but for recovery, which treats videos one by one).
Two tasks let two jobs run, or one job be retried. One request slot still lets a request
stop half-way while both workers act. A third job would add a second duplicate of what the
second does. The constraint `OneLoss` of `MCImportJobs` keeps the misfortunes of
`ImportJobsRaces` apart: at most one job shows as cancelled, and a death of a worker may come
on top, while a deletion or a stop of the web process comes alone. Retries of users are in
`ImportJobsClaims` with one worker only, since with two
workers and deaths the instance outgrows a run: that a job which is cancelled and retried while
its first run goes on has two runs at once, like every other combination, is in the theorems,
which do without these bounds (`NoJobForgotten`, `FirstImportUnique` and the others). The
stages differ in their status only, so one stands for the four. Two rounds of a scan show the
one more scan and its limit; `MaxDirty` stops clients from counting up forever. The constraint `Clean` ends a behaviour
where a retry has overwritten a changed row, from where on the properties promise nothing.
Two delays make a first check, a next one and a last one, and two requests (a batch
scan and a user's, or two of a user) start a chain while another runs; the single job and
the job of a batch differ in how they are scanned and share only the worker.
Two codes and two devices let a browser pair over itself, one ticket is raced by its
expiry, its use and a revocation. Two jobs on one path with two workers are every way in which
two runs meet; the one fault may be a death after which the job runs again at
once, a retry, a deletion, a full disk or a strange file, and cancellations come on top. One
counter path is taken, free or used up. Two saves let a secret be stored before a save that
cannot read it, with a key lost and another minted in between; three faults are such a loss,
a failed read and a crash. The constraint `Apart` of `MCSettings` does not look at a job and a
pool thread together: both read the rows and the key file, and neither reads what the other
writes. All faults of an instance
(deaths, lost answers, outages, disk errors) share one bound. In the extension two handlers
meet at one record, or at two of one list, where each may write back the other's old record; a
third job drops one out of the list of two, as the eleventh does of the list of ten. The
constraint `Bounded` of `MCExtensionJobs` puts these instances into one run: faults,
stops, retries and sockets happen to the first job while there is no second, one of them at a
time; a retried job has two handlers or one and a socket; ticks overlap with
another handler for one job only. What `Bounded` leaves out are beginnings (of a command, a tick,
a job, a fault), of which fairness asks nothing but a `Poll` by some handler, and that one is
kept for an idle handler, or for the one at work once it has ended: no behaviour is cut off
where fairness would have gone on. In `ClaimRows` two
jobs let the row pass from an ended run to another job while a request or recovery
still holds what it read of the first.
`CHECK_DEADLOCK FALSE` is set because an idle system, with its jobs done and its
ids used up, has stopped.

Fairness (`FairSpec`). In `ImportJobsClaims`: weak fairness of each worker: RQ
keeps a worker process running, and yt-dlp and ffmpeg either end or are ended by
RQ's job timeout, which the pipeline meets as an exception. Weak fairness of each
request: a request handler runs to its end as long as its process lives. Nothing
is assumed of users, failures and deaths; a run may fail but need not. The instance
has no stops of the web process and a retry for the one death: a job whose task
is lost for good keeps its claim until the user cancels or deletes it, which
is what the code provides for. In `AbsIndexChecks`: delays end (`Due`), and workers and
requests go on, every call to Audiobookshelf having a timeout of its own. The fairness of a
worker is that of all its steps together: which task it takes is left open. In
`DevicesChecks`: the event loop comes back to every open socket (its sleeps are bounded), a
key with an expiry goes, and an outage of Redis ends; nothing is assumed of
browsers, users or jobs. In `ExtensionJobsChecks`: storage and server
answer, a handler goes on, and the popup is opened again and again (strong fairness
of a `Poll` by some handler, since it needs a free handler); nothing is assumed of ticks, sockets, other
commands, stops or a restart's own load. That a handler goes on is one condition for all of
them together with the storage (`Reply \/ \E t : GoOn(t)`): which handler is left open. The popup is what the code falls back on when
timers and sockets are gone with the service worker. In `ClaimRowsChecks`: workers and requests go
on with their statements. `OutputFilesChecks` and `SettingsChecks` check safety
under `Spec` without fairness: that runs end is `ImportJobs`' subject, and a save is
straight code without a wait.

### What the violated runs show

* `ImportJobsRerun`. The ledger row is committed, and before the success is written the
  run fails, for instance because RQ's time limit strikes there: the handler writes `failed`
  (`import_pipeline.py:914`). The same comes of a death there: the re-run's recovery sets
  the job to `succeeded`, but the pipeline is started all the same, finds the ledger
  row of its own job and fails it. The documentation says that failed jobs write no
  ledger rows (`docs/troubleshooting.md:78`).
* `ImportJobsOverlap`. `cancel_job` gives the claim up at once, the run ends at its
  next check. Until then a second worker may process the same video for another job,
  which `docs/troubleshooting.md:78` excludes. It takes two RQ workers.
* `BatchScanLost`. Whether one more scan is due is decided on a copy of the row from
  before the scan; a child counted meanwhile is missed and the batch closed. The
  comment at `batch_abs.py:137` promises the further scan.

## Theorems

Each is proved by TLAPS for every value of the constants that satisfies the
assumptions `ConstantsOK`, `NullsOK` (ImportJobs), `BoundsOK` (BatchScan),
`ConstantsOK` (AbsIndex, OutputFiles, Devices, ExtensionJobs, ClaimRows), `BoundsAreNumbers`, `LoopIsNoPoolThread`,
`DeploymentsStart` and `FormsAreForms` (Settings): types of the parameters, that the
values for "none" are no ids, and that a deployment starts with an empty table.

* `TypeCorrect`: `Spec => []TypeOK`. `TypeOK` is inductive because it also says that
  a run or request that is under way has a job, and a run in a stage a stage
  number.
* `SuccessRecorded`, `RecordFiled`, `FirstImportUnique`: the three ledger
  invariants. None is inductive. `LedgerInv` strengthens them with `RunReady` (a run
  about to succeed has its video in the ledger, one that has published has its
  file in the library, because these are separate commits), with a clause for jobs
  that own an import, and with `RetryPrior` (a retry whose enqueue fails can only
  bring back a failed or cancelled status) and `FoundRecorded` (a job that a recovery found
  dangling was recorded then, and a row of the ledger stays one until the recovery
  writes). From it follows that recovery's
  backfill never adds a row that the ledger does not have, which is the step where
  the argument could fail. None of it mentions claims, which may be handed over at any time.
* `LedgerImplemented`: `Spec => LedgerKept`, from the same invariant: every action maps
  to one of the four of `DedupLedger` or leaves both variables alone.
* `NoJobForgotten`: `Spec => NoneForgotten`. A job is in hand while a task of it waits, a run goes by
  its being active, or a request is to enqueue or cancel it; a step that takes it out of every
  hand ends it, or is one of the four that `Strands` names. `HandInv` is what the argument
  needs: a run has its task to itself (so the end of a run drops no task that
  waits), the task whose id a job bears is its own (`NamesTask`, so a cancellation drops the
  task of no other job), and a run that only has its claim to release has written
  its end (`EndWritten`). The crux is that a run works on a copy of the status: what
  it leaves active it holds as active (`Proceeds`), so it will write an end.
* `ScanTypes`: `Spec => []TypeOK` for BatchScan, clients included.
* `OneScanKept`: `Spec => []OneScan`, clients included. The strengthening `ScanHeld` says
  that while a process scans, the row is `running` with a live lease. Copies could still
  undo it: one flushed by another worker would have to hold a finished scan, and only a
  scanner flushes; one flushed by a client does not show a running scan (`RetryIdle`), so where it
  is what the row still says, no scan is in flight. Otherwise the row is overwritten.
* `SettledAlwaysSeen`: `Spec => []SettledIsSeen`, clients included. The strengthening `SeenInv` says that
  no generation is ahead of the row's count (`Counted`), that a scan in flight which is still
  up to date began with every counted success in the library (`ScanCovers`), and that
  with nothing outstanding all was scanned (`CaughtUp`). A request that overwrites
  nothing leaves a generation outstanding (`RequestSeen`).
* `IndexTypes`: `Spec => []TypeOK` for AbsIndex, in the halves `ProcsOK` and `RowsOK`; in
  particular no task has an attempt past the last delay, though the count that
  resumption reads goes on over restarts.
* `CheckAlwaysComing`: `Spec => []CheckComing`. The strengthening `CheckKept` says the same
  of jobs in any status: a chain may be scheduled before the success that makes the job
  show as waiting. A step either leaves the job `Steady`, schedules a check, writes
  a final status, or puts the job in `lost`.
* `TypeCorrect`, `AlwaysPublishedWhole`, `NeverStrays` and the action properties
  `FilesAreKept`, `SuccessAlwaysFiled` of OutputFiles. The inductive invariant `Inv` adds to
  the properties: `Placed` (a run in a stage has a job and, past setup, a path), `Own` (what
  stands in the staged file and the sibling of a run is that run's own, whole
  where the stage says so, unless its job is mixed), and `Apart` (two runs that hold one
  path or one job are mixed). A step of one run touches the files of its path and its job only:
  `OneRun` proves this locality once, and each action then shows what it leaves
  at its own path. `Apart` is what makes the argument go through: the file another run could
  spoil would be that of a mixed job. The lowest free counter exists by well-founded
  choice in the naturals.
* `TypeCorrect`, `RevokedStaysMarked`, `TicketsOpenOneSocket`,
  `CodesPairOnce` of Devices. `RevokedIsMarked` is inductive with the
  types: each action that makes a device revoked also marks it or names it in the
  history, and a mark goes only when nothing is afoot for the device. `TicketInv` adds that a ticket still in Redis has opened
  no socket, `PairInv` that a device row exists only once a code names it and that a
  cached result agrees with its code.
* `TypeCorrect`, `SecretsStayReadable`, `SecretsHaveOneKey`, `SavesAlwaysTakeEffect`,
  `JobsAlwaysSeeSaved`, `SavesKeepItStarting` of Settings. The strengthenings follow the
  page through a save: the key it encrypts with is the file's until its commit,
  what its preview accepted is what its commit stores, since nobody else
  writes the rows, and an undisturbed load holds the committed table from its read
  to its end.
* `TypeCorrect`, `TellsOncePerLife`, `FlagIsAlwaysTick`, `EndsAreReal` of ExtensionJobs. The
  notifications and the flag do not depend on what the lists hold. `Claims` says that a job whose end is not claimed has been told at most once
  per stop so far and that nobody is about to tell it, and that at most one handler is
  about to tell an end; `Flag` that at most one handler is a tick. That no false end is shown
  depends on everything that may get into a list, and `Truth` says it of all of it: the lists in
  memory, in the storage and in the handlers (one fair record for a job, within the cap), the
  answers that handlers hold, the messages on their way in sockets (an end only after the server's)
  and the jobs that sockets are started for. It is kept because the server only goes on
  (`Onward`): an end stays one, until a retry takes the job out of the property. What a filtered list
  has, `Kept`, is got from induction over a set of numbers (`NatSet`), which needs no operator
  as a parameter.
* `RowTypes`, `WorkAlwaysHoldsClaim` of ClaimRows. `Inv` adds to the property: `Placed` (an
  operation fits the session and its place), `Committed` (what is queued or run has
  a row), `Alone` (a job outside `twice` is in the hands of one worker), `Running` (its
  job is active from the start of the run to its end). `Running` is the crux: since a
  run at work has an active job, a take-over needs a DELETE first, and that is recorded.
  A step of one session is reduced once (`StepKeeps`) to what it does to statuses and row.

Only model-checked: the liveness properties (`ClaimGivenUp`, `IndexSettles`,
`RevokedSocketsClose`, `EndIsTold`, `BlockEnds`, `EndShown`, `ClaimPasses`), which are out of the
prover's reach; and the three violations. Every safety property of a run that passes is a theorem. Only proved:
`RecordFiled`, whose instance follows from the refinement of `DedupLedger` that a run checks.

## Not modelled

* Jobs without a video id (no claim, no ledger), rows that a migration made.
* In ClaimRows: cancellation and deletion, the ledger's rows, other videos, and refusals of
  Redis, whose release of the claim is one more reading and deleting. The read of
  recovery's backfill (`jobs` against `imported_videos`) is one step with its writes in
  `ImportJobs`.
* Errors of the database itself ("database is locked", disk full), and failures inside the
  code that handles a failure.
* Progress, labels, metadata, logs, thumbnails, chapters; the contents of files.
* RQ's intervals between retries. They need a scheduler: the container starts
  its worker with one (`entrypoint.sh:47`), the unit in `systemd/` does not, and
  there a task put back with an interval waits for good.
* In BatchScan: batches without `trigger_abs_scan`, an unconfigured Audiobookshelf, the
  marking of children for indexing, which is in AbsIndex.
* In AbsIndex: how an item of Audiobookshelf is matched with a path; an answer may be
  anything. With two workers the last check of an old chain may write `not_found`
  after a newer one has written `indexed`; nothing promises which wins.
* In OutputFiles: names and folders, the space check, sidecar files and the rest of a
  work directory. The reader thread of `run_streaming_process`: the lines it may
  lose when the process is polled before its queue is drained carry progress and error texts.
* In Devices: last use and names of devices, cancelling a code, sockets of the pages.
* In ExtensionJobs: a change of server or of its settings, the tests of the connection,
  destinations, jobs deleted at the server, failures of the storage itself, the context menu's
  confirmation. One server with jobs that are active or ended stands for all.
* In Settings: `REELDOCK_SETTINGS_KEY`, the probe of preflight, validation of fields other
  than the credentials, settings that a migration moved.
* The components listed as `not_modelled` in `PROJECT.json`, with reasons: migrations run
  before any process of the models exists, diagnostics and destinations only read.

## Possible extensions

* Cancellation in `ClaimRows`, and the backfill of the ledger at the level of statements.
* Migrations, if they should ever run beside a process that serves requests.
