-------------------------- MODULE ImportJobsProofs --------------------------
(***************************************************************************)
(* Type correctness of ImportJobs, the invariants of its dedup ledger, the *)
(* refinement of DedupLedger, and that no job is forgotten.                *)
(*                                                                         *)
(* LedgerInv is inductive: to the invariants it adds what a run has done   *)
(* by the time it gets somewhere (RunReady), that a job marked as the      *)
(* importer has a row for its video (OwnedIsRecorded), that a retry can    *)
(* only bring back "failed" or "cancelled" (RetryPrior), and that the jobs *)
(* a recovery has read as dangling still have a row when it writes         *)
(* (FoundRecorded).  With them recovery finds nothing to backfill          *)
(* (LedgerReconciled).  HandInv is about tasks: a run has its task to      *)
(* itself, and the id of a task that a job or a request bears is that of   *)
(* one of its own tasks.                                                   *)
(***************************************************************************)
EXTENDS ImportJobs, TLAPS

\* What a session has read, and judged, of the claims.
LEMMA JudgedType ==
  ASSUME NEW seen \in Owners, NEW s
  PROVE  Judged(seen, s) \in Owners
  BY DEF Judged, Owners

\* The claims, and what deletions and releases leave of them.
LEMMA ClaimType ==
  ASSUME TypeRows, NEW seen \in Owners
  PROVE  /\ claim \in Owners
         /\ NoClaims \in Owners
         /\ Without(seen) \in Owners
         /\ \A j \in Jobs : Dropped(j) \in Owners
  BY DEF NoClaims, Owners, Without, Dropped, TypeRows

\* Idle runs, idle requests and spent tasks are what they should be.
LEMMA IdleType ==
  /\ IdleRun \in RunType /\ IdleRun.pc = "idle"
  /\ IdleReq \in ReqType /\ IdleReq.pc = "idle"
  /\ SpentTask \in TaskType /\ SpentTask.where = "over"
  /\ NoClaims \in Owners
<1>1. NoClaims \in Owners
  BY DEF NoClaims, Owners
<1>2. IdleRun \in RunType /\ IdleRun.pc = "idle"
  BY <1>1, ConstantsOK DEF IdleRun, RunType, RunStep, Status
<1>3. IdleReq \in ReqType /\ IdleReq.pc = "idle"
  BY <1>1 DEF IdleReq, ReqType, ReqStep, Status, Phase
<1>4. SpentTask \in TaskType /\ SpentTask.where = "over"
  BY ConstantsOK DEF SpentTask, FreeTask, TaskType
<1> QED
  BY <1>1, <1>2, <1>3, <1>4

\* A run that changes to x keeps the type of the runs.
LEMMA RunBecomes ==
  ASSUME TypeRun, NEW w \in Workers, NEW x \in RunType,
         x.pc # "idle" => x.job \in Jobs /\ x.task \in Tasks,
         x.pc \in {"enter", "work"} => x.stage \in 1 .. LastStage,
         run' = [run EXCEPT ![w] = x]
  PROVE  TypeRun'
  BY DEF TypeRun

\* A move to a step outside the stages keeps the type of the runs.
LEMMA GotoType ==
  ASSUME TypeRun, NEW w \in Workers, NEW pc \in RunStep \ {"idle", "enter", "work"},
         run[w].pc # "idle", Goto(w, pc)
  PROVE  TypeRun'
  BY DEF TypeRun, RunType, Goto

\* So does one that changes what the run has read.
LEMMA SeenType ==
  ASSUME TypeRun, NEW w \in Workers, NEW pc \in RunStep \ {"idle", "enter", "work"},
         run[w].pc # "idle", NEW seen \in Owners, NEW found \in SUBSET Jobs,
         \/ run' = [run EXCEPT ![w].seen = seen, ![w].pc = pc]
         \/ run' = [run EXCEPT ![w].seen = seen, ![w].found = found, ![w].pc = pc]
  PROVE  TypeRun'
<1>0. run[w] \in RunType
  BY DEF TypeRun
<1>1. run' \in [Workers -> RunType]
  <2>1. CASE run' = [run EXCEPT ![w].seen = seen, ![w].pc = pc]
    <3>1. [run[w] EXCEPT !.seen = seen, !.pc = pc] \in RunType
      BY <1>0 DEF RunType
    <3>2. run' = [run EXCEPT ![w] = [run[w] EXCEPT !.seen = seen, !.pc = pc]]
      BY <2>1 DEF TypeRun
    <3> QED
      BY <3>1, <3>2 DEF TypeRun
  <2>2. CASE run' = [run EXCEPT ![w].seen = seen, ![w].found = found, ![w].pc = pc]
    <3>1. [run[w] EXCEPT !.seen = seen, !.found = found, !.pc = pc] \in RunType
      BY <1>0 DEF RunType
    <3>2. run' = [run EXCEPT ![w] =
                    [run[w] EXCEPT !.seen = seen, !.found = found, !.pc = pc]]
      BY <2>2 DEF TypeRun
    <3> QED
      BY <3>1, <3>2 DEF TypeRun
  <2> QED
    BY <2>1, <2>2
<1>2. /\ run'[w].pc = pc
      /\ run'[w].job = run[w].job /\ run'[w].task = run[w].task
  BY DEF TypeRun, RunType
<1>3. \A x \in Workers : x # w => run'[x] = run[x]
  BY DEF TypeRun
<1> QED
  BY <1>1, <1>2, <1>3 DEF TypeRun

\* sync_update_job keeps the types of the columns it writes.
LEMMA WriteType ==
  ASSUME TypeRows, TypeRun, NEW w \in Workers, run[w].pc # "idle",
         NEW s \in Status, NEW ph \in Phase, NEW pc \in RunStep \ {"idle", "enter"},
         pc = "work" => run[w].pc = "enter",
         WriteJob(w, s, ph, pc)
  PROVE  /\ TypeRun'
         /\ status' \in [Jobs -> Status]
         /\ phase' \in [Jobs -> Phase]
<1>1. run' = [run EXCEPT ![w].pc = pc, ![w].mem = s]
  BY DEF WriteJob
<1>2. TypeRun'
  BY <1>1 DEF TypeRun, RunType
<1> QED
  BY <1>2 DEF TypeRows, WriteJob

\* A run that enters a stage enters one of the stages.
LEMMA StageType ==
  ASSUME TypeRun, NEW w \in Workers, run[w].pc # "idle",
         NEW s \in Status, NEW pc \in RunStep \ {"idle"}, NEW stage \in 0 .. LastStage,
         pc \in {"enter", "work"} => stage \in 1 .. LastStage,
         run' = [run EXCEPT ![w].mem = s, ![w].pc = pc, ![w].stage = stage]
  PROVE  TypeRun'
<1>1. run' \in [Workers -> RunType]
  <2>1. run[w] \in RunType
    BY DEF TypeRun
  <2>2. [run[w] EXCEPT !.mem = s, !.pc = pc, !.stage = stage] \in RunType
    BY <2>1 DEF RunType
  <2>3. run' = [run EXCEPT ![w] =
                  [run[w] EXCEPT !.mem = s, !.pc = pc, !.stage = stage]]
    BY DEF TypeRun
  <2> QED
    BY <2>2, <2>3 DEF TypeRun
<1>2. /\ run'[w].pc = pc /\ run'[w].stage = stage
      /\ run'[w].job = run[w].job /\ run'[w].task = run[w].task
  BY DEF TypeRun, RunType
<1>3. \A x \in Workers : x # w => run'[x] = run[x]
  BY DEF TypeRun
<1> QED
  BY <1>1, <1>2, <1>3 DEF TypeRun

\* check_cancelled keeps the type of the runs, whichever way it goes.
LEMMA CheckType ==
  ASSUME TypeRows, TypeRun, NEW w \in Workers, run[w].pc # "idle",
         NEW pc \in RunStep \ {"idle"}, NEW stage \in 0 .. LastStage,
         pc \in {"enter", "work"} => stage \in 1 .. LastStage,
         CheckThen(w, pc, stage)
  PROVE  TypeRun'
<1>1. "cancelling" \in RunStep \ {"idle"} /\ 0 \in 0 .. LastStage
  BY ConstantsOK DEF RunStep
<1>2. status[run[w].job] \in Status
  BY DEF TypeRun, TypeRows
<1>3. CASE status[run[w].job] = "cancelled"
  <2>1. run' = [run EXCEPT ![w].mem = status[run[w].job],
                           ![w].pc = "cancelling", ![w].stage = 0]
    BY <1>3 DEF CheckThen
  <2> QED
    BY <1>1, <1>2, <2>1, StageType
<1>4. CASE status[run[w].job] # "cancelled"
  <2>1. run' = [run EXCEPT ![w].mem = status[run[w].job],
                           ![w].pc = pc, ![w].stage = stage]
    BY <1>4 DEF CheckThen
  <2> QED
    BY <1>2, <2>1, StageType
<1> QED
  BY <1>3, <1>4

\* The end of a task keeps the types of tasks and runs.
LEMMA EndTaskType ==
  ASSUME TypeRun, TypeTask, NEW w \in Workers, EndTask(w)
  PROVE  TypeRun' /\ TypeTask'
  BY IdleType DEF EndTask, TypeRun, TypeTask

\* What a step leaves alone keeps its type.
LEMMA UnchangedType ==
  /\ TypeRows /\ UNCHANGED <<status, phase, owned, rqid, claim, ledger, library>> => TypeRows'
  /\ TypeTask /\ UNCHANGED task => TypeTask'
  /\ TypeRun /\ UNCHANGED run => TypeRun'
  /\ TypeReq /\ UNCHANGED req => TypeReq'
  /\ TypeDeaths /\ UNCHANGED <<crashes, restarts>> => TypeDeaths'
  BY DEF TypeRows, TypeTask, TypeRun, TypeReq, TypeDeaths

\* Recovery, by a run or a request x: what each table holds afterwards.
LEMMA ReconciledType ==
  ASSUME TypeRows, NEW x, x.seen \in Owners
  PROVE  /\ ReconciledStatus(x) \in [Jobs -> Status]
         /\ ReconciledPhase(x) \in [Jobs -> Phase]
         /\ ReconciledClaim(x) \in Owners
         /\ ReconciledLedger \in [Videos -> Jobs \cup {NoRow, Severed}]
<1>1. \A v \in Videos :
        BackfillJobs(v) # {} => (CHOOSE j \in BackfillJobs(v) : TRUE) \in Jobs
  BY DEF BackfillJobs
<1>2. ReconciledLedger \in [Videos -> Jobs \cup {NoRow, Severed}]
  BY <1>1 DEF ReconciledLedger, TypeRows
<1>3. ReconciledStatus(x) \in [Jobs -> Status]
  BY DEF ReconciledStatus, TypeRows, Status, Terminal
<1>4. ReconciledPhase(x) \in [Jobs -> Phase]
  BY DEF ReconciledPhase, TypeRows, Phase
<1>5. ReconciledClaim(x) \in Owners
  <2>1. Without(x.seen) \in Owners
    BY ClaimType
  <2> QED
    BY <2>1 DEF ReconciledClaim, Owners
<1> QED
  BY <1>2, <1>3, <1>4, <1>5

\* A run takes its claim, or is refused it.
LEMMA TakeType ==
  ASSUME TypeOK, NEW w \in Workers, run[w].pc # "idle", NEW c \in Owners,
         NEW inserts \in BOOLEAN, TakeClaim(w, c, inserts)
  PROVE  TypeOK'
<1> USE DEF TypeOK
<1>1. run[w].job \in Jobs /\ VideoOf[run[w].job] \in Videos
  BY ConstantsOK DEF TypeRun
<1>2. claim' \in Owners
  <2>1. [c EXCEPT ![VideoOf[run[w].job]] = run[w].job] \in Owners
    BY <1>1 DEF Owners
  <2> QED
    BY <2>1 DEF TakeClaim
<1>3. TypeRows'
  BY <1>2 DEF TakeClaim, TypeRows, Owners
<1>4. TypeRun'
  <2>1. \E pc \in {"setup", "failing"} :
           run' = [run EXCEPT ![w].seen = NoClaims, ![w].pc = pc]
    BY DEF TakeClaim
  <2>2. PICK pc \in {"setup", "failing"} :
           run' = [run EXCEPT ![w].seen = NoClaims, ![w].pc = pc]
    BY <2>1
  <2>3. pc \in RunStep \ {"idle", "enter", "work"}
    BY DEF RunStep
  <2> QED
    BY <2>2, <2>3, IdleType, SeenType
<1> QED
  BY <1>3, <1>4, UnchangedType DEF TakeClaim, deaths

\* A worker's step keeps the types: one step for each action.
LEMMA WorkerType ==
  ASSUME TypeOK, NEW w \in Workers, WorkerStep(w)
  PROVE  TypeOK'
<1> USE DEF TypeOK
<1>0. /\ run[w].pc # "idle" => run[w].job \in Jobs /\ run[w].task \in Tasks
      /\ run[w] \in RunType /\ run[w].seen \in Owners
      /\ 0 \in 0 .. LastStage
  BY ConstantsOK DEF TypeRun, RunType
<1>1. ASSUME NEW t \in Tasks, Dequeue(w, t) PROVE TypeOK'
  <2>1. TypeTask'
    BY <1>1 DEF Dequeue, TypeTask, TaskType
  <2>2. TypeRun'
    <3>1. task[t].job \in Jobs
      BY <1>1 DEF Dequeue, TypeTask
    <3> DEFINE x == [IdleRun EXCEPT !.job = task[t].job, !.task = t, !.pc = "recover"]
    <3>2. x \in RunType /\ x.job \in Jobs /\ x.task \in Tasks /\ x.pc = "recover"
      BY <3>1, IdleType DEF RunType, RunStep
    <3> QED
      BY <1>1, <3>2, RunBecomes DEF Dequeue
  <2> QED
    BY <1>1, <2>1, <2>2, UnchangedType DEF Dequeue, dbvars, deaths
<1>2. CASE LookForRecovery(w)
  <2>1. TypeRun'
    BY <1>0, <1>2, ClaimType, SeenType DEF LookForRecovery, At, RunStep
  <2> QED
    BY <1>2, <2>1, UnchangedType DEF LookForRecovery, dbvars, deaths
<1>3. CASE JudgeForRecovery(w)
  <2> DEFINE stale == Judged(run[w].seen, status)
             found == IF stale = NoClaims THEN Dangling ELSE {}
  <2>1. stale \in Owners /\ found \in SUBSET Jobs
    BY <1>0, JudgedType DEF Dangling
  <2>2. run' = [run EXCEPT ![w].seen = stale, ![w].found = found,
                           ![w].pc = "recoverWrite"]
    BY <1>3 DEF JudgeForRecovery
  <2>3. run[w].pc # "idle" /\ "recoverWrite" \in RunStep \ {"idle", "enter", "work"}
    BY <1>3 DEF JudgeForRecovery, At, RunStep
  <2> HIDE DEF stale, found
  <2>4. TypeRun'
    BY <2>1, <2>2, <2>3, SeenType
  <2> QED
    BY <1>3, <2>4, UnchangedType DEF JudgeForRecovery, dbvars, deaths
<1>4. CASE Recover(w)
  <2>1. TypeRows'
    BY <1>0, <1>4, ReconciledType DEF Recover, TypeRows, Owners
  <2>2. TypeRun' /\ TypeTask'
    <3>1. CASE Present(run[w].job)
      <4> DEFINE s == ReconciledStatus(run[w])[run[w].job]
                 x == [IdleRun EXCEPT !.job = run[w].job, !.task = run[w].task,
                                      !.pc = "begin", !.mem = s]
      <4>1. run[w].job \in Jobs /\ run[w].task \in Tasks /\ s \in Status
        BY <1>0, <1>4, ReconciledType DEF Recover, At
      <4>2. run' = [run EXCEPT ![w] = x] /\ UNCHANGED task
        BY <1>4, <3>1 DEF Recover
      <4>3. x \in RunType /\ x.job \in Jobs /\ x.task \in Tasks /\ x.pc = "begin"
        BY <4>1, IdleType DEF RunType, RunStep
      <4>4. TypeRun'
        BY <4>2, <4>3, RunBecomes
      <4> QED
        BY <4>2, <4>4, UnchangedType
    <3>2. CASE ~Present(run[w].job)
      BY <1>4, <3>2, EndTaskType DEF Recover
    <3> QED
      BY <3>1, <3>2
  <2> QED
    BY <1>4, <2>1, <2>2, UnchangedType DEF Recover, deaths
<1>5. CASE RecoverFails(w)
  BY <1>5, EndTaskType, UnchangedType DEF RecoverFails, dbvars, deaths
<1>6. CASE Begin(w)
  <2>1. /\ TypeRun'
        /\ status' \in [Jobs -> Status]
        /\ phase' \in [Jobs -> Phase]
    BY <1>0, <1>6, WriteType
    DEF Begin, At, RunStep, Status, Active, Terminal, Phase
  <2>2. TypeRows'
    BY <1>0, <1>6, <2>1 DEF Begin, At, TypeRows
  <2> QED
    BY <1>6, <2>1, <2>2, UnchangedType DEF Begin, deaths
<1>7. CASE CheckLedger(w)
  <2>1. TypeRun'
    BY <1>0, <1>7, GotoType DEF CheckLedger, At, RunStep
  <2> QED
    BY <1>7, <2>1, UnchangedType DEF CheckLedger, dbvars, deaths
<1>8. CASE LookForClaim(w)
  <2>1. TypeRun'
    BY <1>0, <1>8, ClaimType, SeenType DEF LookForClaim, At, RunStep
  <2> QED
    BY <1>8, <2>1, UnchangedType DEF LookForClaim, dbvars, deaths
<1>9. CASE JudgeForClaim(w)
  <2> DEFINE stale == Judged(run[w].seen, status)
             pc == IF stale # NoClaims THEN "claimExpire"
                   ELSE IF claim[VideoOf[run[w].job]] = NoJob
                   THEN "claimInsert" ELSE "claimUpdate"
  <2>1. stale \in Owners
    BY <1>0, JudgedType
  <2>2. run' = [run EXCEPT ![w].seen = stale, ![w].pc = pc]
    BY <1>9 DEF JudgeForClaim
  <2>3. run[w].pc # "idle" /\ pc \in RunStep \ {"idle", "enter", "work"}
    BY <1>9 DEF JudgeForClaim, At, RunStep
  <2> HIDE DEF stale, pc
  <2>4. TypeRun'
    BY <2>1, <2>2, <2>3, SeenType
  <2> QED
    BY <1>9, <2>4, UnchangedType DEF JudgeForClaim, dbvars, deaths
<1>10. CASE ExpireAndTake(w)
  <2> DEFINE c == Without(run[w].seen)
             inserts == (c[VideoOf[run[w].job]] = NoJob)
  <2>1. c \in Owners /\ inserts \in BOOLEAN
    BY <1>0, ClaimType
  <2>2. run[w].pc # "idle" /\ TakeClaim(w, c, inserts)
    BY <1>10 DEF ExpireAndTake, At
  <2> HIDE DEF c, inserts
  <2> QED
    BY <2>1, <2>2, TakeType
<1>11. CASE InsertClaim(w)
  <2>1. claim \in Owners
    BY <1>0, ClaimType
  <2> QED
    BY <1>11, <2>1, TakeType DEF InsertClaim, At
<1>12. CASE UpdateClaim(w)
  <2>1. claim \in Owners
    BY <1>0, ClaimType
  <2> QED
    BY <1>12, <2>1, TakeType DEF UpdateClaim, At
<1>13. CASE SkipExisting(w)
  <2>1. /\ TypeRun'
        /\ status' \in [Jobs -> Status]
        /\ phase' \in [Jobs -> Phase]
    BY <1>0, <1>13, WriteType
    DEF SkipExisting, At, RunStep, Status, Active, Terminal, Phase
  <2>2. TypeRows'
    BY <1>0, <1>13, <2>1 DEF SkipExisting, At, TypeRows
  <2> QED
    BY <1>13, <2>1, <2>2, UnchangedType DEF SkipExisting, deaths
<1>14. CASE DryRun(w)
  <2>1. TypeRun'
    BY <1>0, <1>14, GotoType DEF DryRun, At, RunStep
  <2>2. TypeRows'
    BY <1>0, <1>14 DEF DryRun, At, TypeRows, dbvars
  <2> QED
    BY <1>14, <2>1, <2>2, UnchangedType DEF DryRun, deaths
<1>15. CASE DryRunCheck(w)
  <2>1. TypeRun'
    BY <1>0, <1>15, CheckType, ConstantsOK DEF DryRunCheck, At, RunStep
  <2> QED
    BY <1>15, <2>1, UnchangedType DEF DryRunCheck, dbvars, deaths
<1>16. CASE StartStages(w)
  <2>1. TypeRun'
    BY <1>0, <1>16, CheckType, ConstantsOK DEF StartStages, At, RunStep
  <2> QED
    BY <1>16, <2>1, UnchangedType DEF StartStages, dbvars, deaths
<1>17. CASE EnterStage(w)
  <2>0. StageStatus[run[w].stage] \in Status
    <3>1. run[w].stage \in 1 .. 4
      BY <1>17, ConstantsOK DEF EnterStage, At, TypeRun
    <3> QED
      BY <3>1 DEF StageStatus, Status, Active
  <2>1. /\ TypeRun'
        /\ status' \in [Jobs -> Status]
        /\ phase' \in [Jobs -> Phase]
    BY <1>0, <1>17, <2>0, WriteType
    DEF EnterStage, At, RunStep, Status, Active, Terminal, Phase
  <2>2. TypeRows'
    BY <1>0, <1>17, <2>1 DEF EnterStage, At, TypeRows
  <2> QED
    BY <1>17, <2>1, <2>2, UnchangedType DEF EnterStage, deaths
<1>18. CASE FinishStage(w)
  <2>1. run[w].stage \in 1 .. LastStage /\ LastStage \in 1 .. 4
    BY <1>18, ConstantsOK DEF FinishStage, At, TypeRun
  <2>2. CASE run[w].stage < LastStage
    <3>1. run[w].stage + 1 \in 1 .. LastStage
      BY <2>1, <2>2
    <3> QED
      BY <1>0, <1>18, <2>2, <3>1, CheckType, UnchangedType
      DEF FinishStage, At, RunStep, dbvars, deaths
  <2>3. CASE ~(run[w].stage < LastStage)
    BY <1>0, <1>18, <2>1, <2>3, CheckType, UnchangedType
    DEF FinishStage, At, RunStep, dbvars, deaths
  <2> QED
    BY <2>2, <2>3
<1>19. CASE StartCommit(w)
  <2>1. TypeRun'
    BY <1>0, <1>19, GotoType DEF StartCommit, At, RunStep
  <2>2. TypeRows'
    BY <1>0, <1>19 DEF StartCommit, At, TypeRows, Phase
  <2> QED
    BY <1>19, <2>1, <2>2, UnchangedType DEF StartCommit, deaths
<1>20. CASE CommitOutput(w)
  <2>1. TypeRun'
    BY <1>0, <1>20, GotoType DEF CommitOutput, At, RunStep
  <2>2. TypeRows'
    BY <1>0, <1>20 DEF CommitOutput, At, TypeRows, dbvars
  <2> QED
    BY <1>20, <2>1, <2>2, UnchangedType DEF CommitOutput, deaths
<1>21. CASE MarkCommitted(w)
  <2>1. TypeRun'
    BY <1>0, <1>21, GotoType DEF MarkCommitted, At, RunStep
  <2>2. TypeRows'
    BY <1>0, <1>21 DEF MarkCommitted, At, TypeRows, Phase
  <2> QED
    BY <1>21, <2>1, <2>2, UnchangedType DEF MarkCommitted, deaths
<1>22. CASE CheckCommitted(w)
  <2>1. TypeRun'
    BY <1>0, <1>22, CheckType, ConstantsOK DEF CheckCommitted, At, RunStep
  <2> QED
    BY <1>22, <2>1, UnchangedType DEF CheckCommitted, dbvars, deaths
<1>23. CASE StartScan(w)
  <2>1. /\ TypeRun'
        /\ status' \in [Jobs -> Status]
        /\ phase' \in [Jobs -> Phase]
    BY <1>0, <1>23, WriteType
    DEF StartScan, At, RunStep, Status, Active, Terminal, Phase
  <2>2. TypeRows'
    BY <1>0, <1>23, <2>1 DEF StartScan, At, TypeRows
  <2> QED
    BY <1>23, <2>1, <2>2, UnchangedType DEF StartScan, deaths
<1>24. CASE FinishScan(w)
  <2>1. TypeRun'
    BY <1>0, <1>24, CheckType, ConstantsOK DEF FinishScan, At, RunStep
  <2> QED
    BY <1>24, <2>1, UnchangedType DEF FinishScan, dbvars, deaths
<1>25. CASE Cleanup(w)
  <2>1. TypeRun'
    BY <1>0, <1>25, GotoType DEF Cleanup, At, RunStep
  <2>2. TypeRows'
    BY <1>0, <1>25 DEF Cleanup, At, TypeRows, Phase
  <2> QED
    BY <1>25, <2>1, <2>2, UnchangedType DEF Cleanup, deaths
<1>26. CASE MarkImported(w)
  <2>1. TypeRun'
    BY <1>0, <1>26, GotoType DEF MarkImported, At, RunStep
  <2>2. TypeRows'
    BY <1>0, <1>26, ConstantsOK DEF MarkImported, At, TypeRows
  <2> QED
    BY <1>26, <2>1, <2>2, UnchangedType DEF MarkImported, deaths
<1>27. CASE Succeed(w)
  <2>1. /\ TypeRun'
        /\ status' \in [Jobs -> Status]
        /\ phase' \in [Jobs -> Phase]
    BY <1>0, <1>27, WriteType
    DEF Succeed, At, RunStep, Status, Active, Terminal, Phase
  <2>2. TypeRows'
    BY <1>0, <1>27, <2>1 DEF Succeed, At, TypeRows
  <2> QED
    BY <1>27, <2>1, <2>2, UnchangedType DEF Succeed, deaths
<1>28. CASE HandleFailure(w)
  <2>1. /\ TypeRun'
        /\ status' \in [Jobs -> Status]
        /\ phase' \in [Jobs -> Phase]
    BY <1>0, <1>28, WriteType
    DEF HandleFailure, At, RunStep, Status, Active, Terminal, Phase
  <2>2. TypeRows'
    BY <1>0, <1>28, <2>1 DEF HandleFailure, At, TypeRows
  <2> QED
    BY <1>28, <2>1, <2>2, UnchangedType DEF HandleFailure, deaths
<1>29. CASE HandleCancel(w)
  <2>1. /\ TypeRun'
        /\ status' \in [Jobs -> Status]
        /\ phase' \in [Jobs -> Phase]
    BY <1>0, <1>29, WriteType
    DEF HandleCancel, At, RunStep, Status, Active, Terminal, Phase
  <2>2. TypeRows'
    BY <1>0, <1>29, <2>1 DEF HandleCancel, At, TypeRows
  <2> QED
    BY <1>29, <2>1, <2>2, UnchangedType DEF HandleCancel, deaths
<1>30. CASE ReleaseClaim(w)
  <2>1. TypeRun'
    BY <1>0, <1>30, GotoType DEF ReleaseClaim, At, RunStep
  <2> QED
    BY <1>30, <2>1, UnchangedType DEF ReleaseClaim, dbvars, deaths
<1>31. CASE DropClaim(w)
  <2>1. TypeRun'
    BY <1>0, <1>31, GotoType DEF DropClaim, At, RunStep
  <2>2. TypeRows'
    BY <1>0, <1>31, ClaimType, IdleType DEF DropClaim, At, TypeRows, Owners
  <2> QED
    BY <1>31, <2>1, <2>2, UnchangedType DEF DropClaim, deaths
<1>32. CASE Close(w)
  BY <1>32, EndTaskType, UnchangedType DEF Close, dbvars, deaths
<1>33. CASE LoseRow(w)
  BY <1>33, EndTaskType, UnchangedType DEF LoseRow, dbvars, deaths
<1> QED
  BY <1>1, <1>2, <1>3, <1>4, <1>5, <1>6, <1>7, <1>8, <1>9, <1>10, <1>11, <1>12,
     <1>13, <1>14, <1>15, <1>16, <1>17, <1>18, <1>19, <1>20, <1>21, <1>22, <1>23, <1>24,
     <1>25, <1>26, <1>27, <1>28, <1>29, <1>30, <1>31, <1>32, <1>33 DEF WorkerStep

\* What is enqueued is a task of a job.
LEMMA EnqueueType ==
  ASSUME TypeTask, NEW t \in Tasks, NEW j \in Jobs, Enqueue(t, j)
  PROVE  TypeTask'
<1>1. [job |-> j, where |-> "queued", left |-> MaxRetries] \in TaskType
  BY ConstantsOK DEF TaskType
<1> QED
  BY <1>1 DEF Enqueue, TypeTask

\* Steps of a request that has no job yet.
Jobless == {"idle", "batchJudge", "batch"}

\* A request that changes to x keeps the type of the requests.
LEMMA RequestBecomes ==
  ASSUME TypeReq, NEW r \in Requests, NEW x \in ReqType,
         x.pc \notin Jobless => x.job \in Jobs,
         req' = [req EXCEPT ![r] = x]
  PROVE  TypeReq'
  BY DEF TypeReq, Jobless

\* A request keeps its types when it goes on with its job or answers.
LEMMA RequestMoves ==
  ASSUME TypeReq, NEW r \in Requests
  PROVE  /\ Respond(r) => TypeReq'
         /\ \A pc \in ReqStep :
               req[r].pc \notin Jobless /\ Proceed(r, pc) => TypeReq'
         /\ \A pc \in ReqStep : \A t \in Tasks :
               /\ req[r].pc \notin Jobless
               /\ req' = [req EXCEPT ![r].pc = pc, ![r].task = t]
               => TypeReq'
<1>0. req[r] \in ReqType /\ (req[r].pc \notin Jobless => req[r].job \in Jobs)
  BY DEF TypeReq, Jobless
<1>1. Respond(r) => TypeReq'
  BY IdleType, RequestBecomes DEF Respond, Jobless
<1>2. ASSUME NEW pc \in ReqStep, req[r].pc \notin Jobless, Proceed(r, pc)
      PROVE  TypeReq'
  <2> DEFINE x == [req[r] EXCEPT !.pc = pc]
  <2>1. x \in ReqType /\ x.job \in Jobs
    BY <1>0, <1>2 DEF ReqType
  <2>2. req' = [req EXCEPT ![r] = x]
    BY <1>2 DEF Proceed, TypeReq
  <2> QED
    BY <2>1, <2>2, RequestBecomes
<1>3. ASSUME NEW pc \in ReqStep, NEW t \in Tasks, req[r].pc \notin Jobless,
             req' = [req EXCEPT ![r].pc = pc, ![r].task = t]
      PROVE  TypeReq'
  <2> DEFINE x == [req[r] EXCEPT !.pc = pc, !.task = t]
  <2>1. x \in ReqType /\ x.job \in Jobs
    BY <1>0, <1>3 DEF ReqType
  <2>2. req' = [req EXCEPT ![r] = x]
    BY <1>3 DEF TypeReq
  <2> QED
    BY <2>1, <2>2, RequestBecomes
<1> QED
  BY <1>1, <1>2, <1>3

\* So does one that changes what the request has read.
LEMMA RequestReads ==
  ASSUME TypeReq, NEW r \in Requests, NEW pc \in ReqStep,
         NEW seen \in Owners, NEW found \in SUBSET Jobs,
         pc \notin Jobless => req[r].pc \notin Jobless,
         \/ req' = [req EXCEPT ![r].seen = seen, ![r].pc = pc]
         \/ req' = [req EXCEPT ![r].seen = seen, ![r].pc = pc, ![r].found = found]
  PROVE  TypeReq'
<1>0. req[r] \in ReqType /\ (req[r].pc \notin Jobless => req[r].job \in Jobs)
  BY DEF TypeReq, Jobless
<1>1. CASE req' = [req EXCEPT ![r].seen = seen, ![r].pc = pc]
  <2> DEFINE x == [req[r] EXCEPT !.seen = seen, !.pc = pc]
  <2>1. x \in ReqType /\ x.pc = pc /\ x.job = req[r].job
    BY <1>0 DEF ReqType
  <2>2. req' = [req EXCEPT ![r] = x]
    BY <1>1 DEF TypeReq
  <2> QED
    BY <1>0, <2>1, <2>2, RequestBecomes
<1>2. CASE req' = [req EXCEPT ![r].seen = seen, ![r].pc = pc, ![r].found = found]
  <2> DEFINE x == [req[r] EXCEPT !.seen = seen, !.pc = pc, !.found = found]
  <2>1. x \in ReqType /\ x.pc = pc /\ x.job = req[r].job
    BY <1>0 DEF ReqType
  <2>2. req' = [req EXCEPT ![r] = x]
    BY <1>2 DEF TypeReq
  <2> QED
    BY <1>0, <2>1, <2>2, RequestBecomes
<1> QED
  BY <1>1, <1>2

\* What a request begins with.
LEMMA RequestBegins ==
  ASSUME TypeReq, NEW r \in Requests, NEW j \in Jobs \cup {NoJob}, NEW pc \in ReqStep,
         pc \notin Jobless => j \in Jobs,
         NEW s \in Status, NEW ph \in Phase, NEW seen \in Owners,
         \/ req' = [req EXCEPT ![r] = Begun(j, pc)]
         \/ req' = [req EXCEPT ![r] = [Begun(j, pc) EXCEPT !.seen = seen]]
         \/ req' = [req EXCEPT ![r] = [Begun(j, pc) EXCEPT !.prior = s,
                                                           !.priorPhase = ph]]
  PROVE  TypeReq'
<1>0. Begun(j, pc) \in ReqType /\ Begun(j, pc).pc = pc /\ Begun(j, pc).job = j
  BY IdleType DEF Begun, ReqType
<1>1. CASE req' = [req EXCEPT ![r] = Begun(j, pc)]
  BY <1>0, <1>1, RequestBecomes
<1>2. CASE req' = [req EXCEPT ![r] = [Begun(j, pc) EXCEPT !.seen = seen]]
  <2> DEFINE x == [Begun(j, pc) EXCEPT !.seen = seen]
  <2>1. x \in ReqType /\ x.pc = pc /\ x.job = j
    BY <1>0 DEF ReqType
  <2> QED
    BY <1>2, <2>1, RequestBecomes
<1>3. CASE req' = [req EXCEPT ![r] = [Begun(j, pc) EXCEPT !.prior = s,
                                                          !.priorPhase = ph]]
  <2> DEFINE x == [Begun(j, pc) EXCEPT !.prior = s, !.priorPhase = ph]
  <2>1. x \in ReqType /\ x.pc = pc /\ x.job = j
    BY <1>0 DEF ReqType
  <2> QED
    BY <1>3, <2>1, RequestBecomes
<1> QED
  BY <1>1, <1>2, <1>3

\* create_job keeps the types, given statuses and claims that have theirs.
LEMMA CreateType ==
  ASSUME TypeReq, NEW r \in Requests, req[r].pc \notin Jobless,
         NEW s \in [Jobs -> Status], NEW c \in Owners,
         Create(r, s, c)
  PROVE  /\ status' \in [Jobs -> Status]
         /\ claim' \in [Videos -> Jobs \cup {NoJob}]
         /\ TypeReq'
<1> DEFINE j == req[r].job
           left == Expired(c, s)
<1>1. /\ "queued" \in Status /\ "absent" \in Status /\ "work" \in Phase
      /\ "submitEnqueue" \in ReqStep
      /\ j \in Jobs /\ left \in [Videos -> Jobs \cup {NoJob}]
  BY DEF Status, Active, Phase, ReqStep, TypeReq, Jobless, Expired, Owners
<1>2. CASE left[VideoOf[j]] = NoJob
  <2>1. /\ req' = [req EXCEPT ![r] = Begun(j, "submitEnqueue")]
        /\ status' = [s EXCEPT ![j] = "queued"]
        /\ claim' = [left EXCEPT ![VideoOf[j]] = j]
    BY <1>2 DEF Create
  <2>2. TypeReq'
    BY <1>1, <2>1, IdleType, RequestBegins
  <2> QED
    BY <1>1, <2>1, <2>2
<1>3. CASE left[VideoOf[j]] # NoJob
  <2>1. Respond(r) /\ status' = s /\ claim' = left
    BY <1>3 DEF Create
  <2> QED
    BY <1>1, <2>1, RequestMoves
<1> QED
  BY <1>2, <1>3

\* A retry takes its claim and requeues the job, or is refused.
LEMMA RequeueType ==
  ASSUME TypeOK, NEW r \in Requests, req[r].pc \notin Jobless,
         NEW c \in Owners, NEW inserts \in BOOLEAN, TakeAndRequeue(r, c, inserts)
  PROVE  TypeOK'
<1> USE DEF TypeOK
<1>1. /\ req[r].job \in Jobs /\ VideoOf[req[r].job] \in Videos
      /\ "queued" \in Status /\ "work" \in Phase /\ "retryEnqueue" \in ReqStep
  BY ConstantsOK DEF TypeReq, Jobless, Status, Active, Phase, ReqStep
<1>2. TypeReq'
  <2>1. \/ req' = [req EXCEPT ![r].seen = NoClaims, ![r].pc = "retryEnqueue"]
        \/ Respond(r)
    BY DEF TakeAndRequeue
  <2> QED
    BY <1>1, <2>1, IdleType, RequestMoves, RequestReads
<1>3. TypeRows'
  <2>1. \/ UNCHANGED <<claim, status, phase>>
        \/ /\ claim' = [c EXCEPT ![VideoOf[req[r].job]] = req[r].job]
           /\ status' = [status EXCEPT ![req[r].job] = "queued"]
           /\ phase' = [phase EXCEPT ![req[r].job] = "work"]
    BY DEF TakeAndRequeue
  <2>2. UNCHANGED <<owned, rqid, ledger, library>>
    BY DEF TakeAndRequeue
  <2>3. [c EXCEPT ![VideoOf[req[r].job]] = req[r].job] \in [Videos -> Jobs \cup {NoJob}]
    BY <1>1 DEF Owners
  <2> QED
    BY <1>1, <2>1, <2>2, <2>3 DEF TypeRows
<1> QED
  BY <1>2, <1>3, UnchangedType DEF TakeAndRequeue, deaths

\* The steps of a request keep the types: one step for each action.
LEMMA RequestType ==
  ASSUME TypeOK, NEW r \in Requests, RequestStep(r)
  PROVE  TypeOK'
<1> USE DEF TypeOK
<1>0. /\ req[r].pc \notin Jobless => req[r].job \in Jobs
      /\ req[r].prior \in Status /\ req[r].priorPhase \in Phase
      /\ req[r].seen \in Owners /\ req[r].task \in Tasks \cup {NoTask}
  BY DEF TypeReq, ReqType, Jobless
<1>1. CASE JudgeForRequest(r)
  <2> DEFINE stale == Judged(req[r].seen, status)
             found == IF stale = NoClaims THEN Dangling ELSE {}
             to(pc) == req' = [req EXCEPT ![r].seen = stale, ![r].pc = pc,
                                          ![r].found = found]
  <2>1. stale \in Owners /\ found \in SUBSET Jobs
    BY <1>0, JudgedType DEF Dangling
  <2>2. \/ to("batch")
        \/ req[r].pc = "submitJudge" /\ to("submit")
        \/ Respond(r)
    BY <1>1 DEF JudgeForRequest
  <2>3. /\ "batch" \in ReqStep /\ "batch" \in Jobless /\ "submit" \in ReqStep
        /\ "submitJudge" \notin Jobless
    BY DEF ReqStep, Jobless
  <2> HIDE DEF stale, found
  <2>4. TypeReq'
    BY <2>1, <2>2, <2>3, RequestMoves, RequestReads
  <2> QED
    BY <1>1, <2>4, UnchangedType DEF JudgeForRequest, dbvars, deaths
<1>2. CASE Submit(r)
  <2> DEFINE s == ReconciledStatus(req[r])
             c == ReconciledClaim(req[r])
  <2>1. /\ s \in [Jobs -> Status] /\ c \in Owners
        /\ ReconciledPhase(req[r]) \in [Jobs -> Phase]
        /\ ReconciledLedger \in [Videos -> Jobs \cup {NoRow, Severed}]
    BY <1>0, ReconciledType
  <2>2. req[r].pc \notin Jobless
    BY <1>2 DEF Submit, Jobless
  <2>3. \/ /\ Create(r, s, c)
           /\ ledger' = ReconciledLedger /\ phase' = ReconciledPhase(req[r])
        \/ Respond(r) /\ UNCHANGED <<status, claim, ledger, phase>>
    BY <1>2 DEF Submit
  <2> HIDE DEF s, c
  <2>4. TypeReq' /\ TypeRows'
    <3>1. UNCHANGED <<owned, rqid, library>>
      BY <1>2 DEF Submit
    <3> QED
      BY <2>1, <2>2, <2>3, <3>1, CreateType, RequestMoves DEF TypeRows
  <2> QED
    BY <1>2, <2>4, UnchangedType DEF Submit, deaths
<1>3. CASE BeginBatch(r)
  <2>1. TypeRows'
    BY <1>0, <1>3, ReconciledType DEF BeginBatch, TypeRows, Owners
  <2> QED
    BY <1>3, <2>1, RequestMoves, UnchangedType DEF BeginBatch, deaths
<1>4. CASE SubmitEntry(r)
  <2>1. /\ claim \in Owners /\ status \in [Jobs -> Status]
        /\ req[r].pc \notin Jobless
    BY <1>4 DEF SubmitEntry, Jobless, TypeRows, Owners
  <2>2. /\ status' \in [Jobs -> Status]
        /\ claim' \in [Videos -> Jobs \cup {NoJob}]
        /\ TypeReq'
    BY <1>4, <2>1, CreateType DEF SubmitEntry
  <2>3. TypeRows'
    BY <1>4, <2>2 DEF SubmitEntry, TypeRows
  <2> QED
    BY <1>4, <2>2, <2>3, UnchangedType DEF SubmitEntry, deaths
<1>5. CASE EnqueueSubmitted(r)
  <2>1. TypeTask' /\ TypeReq'
    BY <1>0, <1>5, EnqueueType, RequestMoves DEF EnqueueSubmitted, ReqStep, Jobless
  <2> QED
    BY <1>5, <2>1, UnchangedType DEF EnqueueSubmitted, dbvars, deaths
<1>6. CASE SubmitEnqueueFails(r)
  <2>1. TypeReq'
    BY <1>0, <1>6, RequestMoves DEF SubmitEnqueueFails, ReqStep, Jobless
  <2> QED
    BY <1>6, <2>1, UnchangedType DEF SubmitEnqueueFails, dbvars, deaths
<1>7. CASE FailSubmitted(r)
  <2>1. TypeRows'
    BY <1>0, <1>7, ClaimType, IdleType DEF FailSubmitted, TypeRows, Jobless, Status, Terminal, Owners
  <2>2. TypeReq'
    BY <1>0, <1>7, RequestMoves DEF FailSubmitted, Proceed, ReqStep, Jobless
  <2> QED
    BY <1>7, <2>1, <2>2, UnchangedType DEF FailSubmitted, deaths
<1>8. CASE RecordQueued(r)
  <2>1. TypeRows'
    BY <1>0, <1>8 DEF RecordQueued, TypeRows, Jobless, Status, Active
  <2>2. TypeReq'
    BY <1>0, <1>8, RequestMoves DEF RecordQueued, Proceed, ReqStep, Jobless
  <2> QED
    BY <1>8, <2>1, <2>2, UnchangedType DEF RecordQueued, deaths
<1>9. CASE CancelWrite(r)
  <2>1. TypeRows'
    BY <1>0, <1>9 DEF CancelWrite, TypeRows, Jobless, Status, Terminal
  <2>2. TypeReq'
    BY <1>0, <1>9, RequestMoves DEF CancelWrite, Proceed, ReqStep, Jobless
  <2> QED
    BY <1>9, <2>1, <2>2, UnchangedType DEF CancelWrite, deaths
<1>10. CASE CancelRelease(r)
  <2>1. TypeReq'
    BY <1>0, <1>10, RequestMoves DEF CancelRelease, ReqStep, Jobless
  <2> QED
    BY <1>10, <2>1, UnchangedType DEF CancelRelease, dbvars, deaths
<1>11. CASE CancelDrop(r)
  <2>1. TypeRows'
    BY <1>0, <1>11, ClaimType, IdleType DEF CancelDrop, TypeRows, Jobless, Owners
  <2>2. TypeReq'
    BY <1>0, <1>11, RequestMoves DEF CancelDrop, Proceed, ReqStep, Jobless
  <2> QED
    BY <1>11, <2>1, <2>2, UnchangedType DEF CancelDrop, deaths
<1>12. CASE LookForRetry(r)
  <2>1. TypeReq'
    BY <1>12, ClaimType, IdleType, RequestReads DEF LookForRetry, ReqStep, Jobless
  <2> QED
    BY <1>12, <2>1, UnchangedType DEF LookForRetry, dbvars, deaths
<1>13. CASE JudgeForRetry(r)
  <2> DEFINE stale == Judged(req[r].seen, [status EXCEPT ![req[r].job] = req[r].prior])
             pc == IF stale # NoClaims THEN "retryExpire"
                   ELSE IF claim[VideoOf[req[r].job]] = NoJob
                   THEN "retryInsert" ELSE "retryUpdate"
  <2>1. stale \in Owners
    BY <1>0, JudgedType
  <2>2. req' = [req EXCEPT ![r].seen = stale, ![r].pc = pc]
    BY <1>13 DEF JudgeForRetry
  <2>3. req[r].pc \notin Jobless /\ pc \in ReqStep
    BY <1>13 DEF JudgeForRetry, Jobless, ReqStep
  <2> HIDE DEF stale, pc
  <2>4. TypeReq'
    BY <2>1, <2>2, <2>3, RequestReads
  <2> QED
    BY <1>13, <2>4, UnchangedType DEF JudgeForRetry, dbvars, deaths
<1>14. CASE RetryExpire(r)
  <2> DEFINE c == Without(req[r].seen)
             inserts == (c[VideoOf[req[r].job]] = NoJob)
  <2>1. c \in Owners /\ inserts \in BOOLEAN
    BY <1>0, ClaimType
  <2>2. req[r].pc \notin Jobless /\ TakeAndRequeue(r, c, inserts)
    BY <1>14 DEF RetryExpire, Jobless
  <2> HIDE DEF c, inserts
  <2> QED
    BY <2>1, <2>2, RequeueType
<1>15. CASE RetryInsert(r)
  <2>1. VideoOf[req[r].job] \in Videos
    BY <1>0, <1>15, ConstantsOK DEF RetryInsert, Jobless
  <2>2. TypeRows'
    BY <1>0, <1>15, <2>1 DEF RetryInsert, TypeRows, Jobless
  <2>3. TypeReq'
    BY <1>0, <1>15, RequestMoves DEF RetryInsert, ReqStep, Jobless
  <2> QED
    BY <1>15, <2>2, <2>3, UnchangedType DEF RetryInsert, deaths
<1>16. CASE RetryUpdate(r)
  <2>1. claim \in Owners /\ req[r].pc \notin Jobless
    BY <1>16 DEF RetryUpdate, TypeRows, Owners, Jobless
  <2> QED
    BY <1>16, <2>1, RequeueType DEF RetryUpdate
<1>17. CASE RetryRequeue(r)
  <2>1. TypeRows'
    BY <1>0, <1>17 DEF RetryRequeue, TypeRows, Jobless, Status, Active, Phase
  <2>2. TypeReq'
    BY <1>0, <1>17, RequestMoves DEF RetryRequeue, Proceed, ReqStep, Jobless
  <2> QED
    BY <1>17, <2>1, <2>2, UnchangedType DEF RetryRequeue, deaths
<1>18. CASE EnqueueRetry(r)
  <2>1. TypeTask' /\ TypeReq'
    BY <1>0, <1>18, EnqueueType, RequestMoves DEF EnqueueRetry, ReqStep, Jobless
  <2> QED
    BY <1>18, <2>1, UnchangedType DEF EnqueueRetry, dbvars, deaths
<1>19. CASE RetryEnqueueFails(r)
  <2>1. TypeReq'
    BY <1>0, <1>19, RequestMoves DEF RetryEnqueueFails, ReqStep, Jobless
  <2> QED
    BY <1>19, <2>1, UnchangedType DEF RetryEnqueueFails, dbvars, deaths
<1>20. CASE RetryRestore(r)
  <2>1. TypeRows'
    BY <1>0, <1>20, ClaimType, IdleType DEF RetryRestore, TypeRows, Jobless, Owners
  <2>2. TypeReq'
    BY <1>0, <1>20, RequestMoves DEF RetryRestore, Proceed, ReqStep, Jobless
  <2> QED
    BY <1>20, <2>1, <2>2, UnchangedType DEF RetryRestore, deaths
<1> QED
  BY <1>1, <1>2, <1>3, <1>4, <1>5, <1>6, <1>7, <1>8, <1>9, <1>10, <1>11, <1>12,
     <1>13, <1>14, <1>15, <1>16, <1>17, <1>18, <1>19, <1>20 DEF RequestStep

\* What users begin, and deletion, keep the types.
LEMMA UserType ==
  ASSUME TypeOK, UserStep
  PROVE  TypeOK'
<1> USE DEF TypeOK
<1>0. /\ claim \in Owners /\ NoClaims \in Owners
      /\ "absent" \in Status /\ "work" \in Phase
  BY IdleType, ClaimType DEF Status, Phase
<1>1. ASSUME NEW r \in Requests, NEW j \in Jobs, LookForSubmit(r, j) PROVE TypeOK'
  <2>1. TypeReq'
    BY <1>0, <1>1, RequestBegins DEF LookForSubmit, ReqStep
  <2> QED
    BY <1>1, <2>1, UnchangedType DEF LookForSubmit, dbvars, deaths
<1>2. ASSUME NEW r \in Requests, NEW j \in Jobs, LookForEntry(r, j) PROVE TypeOK'
  <2>1. TypeReq'
    BY <1>0, <1>2, RequestBegins DEF LookForEntry, ReqStep
  <2> QED
    BY <1>2, <2>1, UnchangedType DEF LookForEntry, dbvars, deaths
<1>3. ASSUME NEW r \in Requests, NEW j \in Jobs, CancelCheck(r, j) PROVE TypeOK'
  <2>1. TypeReq'
    BY <1>0, <1>3, RequestBegins DEF CancelCheck, ReqStep
  <2>2. TypeTask'
    BY <1>3, IdleType DEF CancelCheck, TypeTask
  <2> QED
    BY <1>3, <2>1, <2>2, UnchangedType DEF CancelCheck, dbvars, deaths
<1>4. ASSUME NEW r \in Requests, NEW j \in Jobs, RetryCheck(r, j) PROVE TypeOK'
  <2>1. status[j] \in Status /\ phase[j] \in Phase
    BY DEF TypeRows
  <2>2. TypeReq'
    BY <1>0, <1>4, <2>1, RequestBegins DEF RetryCheck, ReqStep
  <2> QED
    BY <1>4, <2>2, UnchangedType DEF RetryCheck, dbvars, deaths
<1>5. ASSUME NEW r \in Requests, LookForBatch(r) PROVE TypeOK'
  <2>1. "batchJudge" \in ReqStep /\ "batchJudge" \in Jobless /\ NoJob \in Jobs \cup {NoJob}
    BY DEF ReqStep, Jobless
  <2>2. TypeReq'
    BY <1>0, <1>5, <2>1, RequestBegins DEF LookForBatch
  <2> QED
    BY <1>5, <2>2, UnchangedType DEF LookForBatch, dbvars, deaths
<1>6. ASSUME NEW j \in Jobs, Delete(j) PROVE TypeOK'
  <2>1. TypeRows'
    BY <1>6 DEF Delete, TypeRows, Status
  <2> QED
    BY <1>6, <2>1, UnchangedType DEF Delete, deaths
<1> QED
  BY <1>1, <1>2, <1>3, <1>4, <1>5, <1>6 DEF UserStep

\* A failing run keeps the type of the runs.
LEMMA FailType ==
  ASSUME TypeRun, NEW w \in Workers, FailRun(w)
  PROVE  TypeRun'
<1> DEFINE x == [run[w] EXCEPT !.pc = "failing", !.stage = 0, !.seen = NoClaims]
<1>1. run[w] \in RunType /\ run[w].pc # "idle" /\ 0 \in 0 .. LastStage
  BY ConstantsOK DEF FailRun, TrySteps, TypeRun
<1>2. run[w].job \in Jobs /\ run[w].task \in Tasks
  BY <1>1 DEF TypeRun
<1>3. x \in RunType /\ x.pc = "failing" /\ x.job \in Jobs /\ x.task \in Tasks
  BY <1>1, <1>2, IdleType DEF RunType, RunStep
<1>4. run' = [run EXCEPT ![w] = x]
  BY DEF FailRun, TypeRun
<1> QED
  BY <1>3, <1>4, RunBecomes

\* Failures, crashes and restarts keep the types.
LEMMA MisfortuneType ==
  ASSUME TypeOK, Misfortune
  PROVE  TypeOK'
<1> USE DEF TypeOK
<1>1. ASSUME NEW w \in Workers, BeginFails(w) PROVE TypeOK'
  <2>1. TypeRun' /\ TypeTask'
    BY <1>1, EndTaskType, GotoType, UnchangedType DEF BeginFails, At, RunStep
  <2> QED
    BY <1>1, <2>1, UnchangedType DEF BeginFails, dbvars, deaths
<1>2. ASSUME NEW w \in Workers, FailRun(w) PROVE TypeOK'
  BY <1>2, FailType, UnchangedType DEF FailRun, dbvars, deaths
<1>3. ASSUME NEW w \in Workers, FailChecked(w) PROVE TypeOK'
  <2>1. TypeRun'
    BY <1>3, CheckType, ConstantsOK DEF FailChecked, At, RunStep
  <2> QED
    BY <1>3, <2>1, UnchangedType DEF FailChecked, dbvars, deaths
<1>4. ASSUME NEW w \in Workers, Crash(w) PROVE TypeOK'
  <2>1. run[w].job \in Jobs /\ run[w].task \in Tasks
    BY <1>4 DEF Crash, TypeRun
  <2>2. TypeRun'
    BY <1>4, IdleType DEF Crash, TypeRun
  <2>3. TypeTask'
    <3>1. CASE task[run[w].task].left > 0
      <4>1. task[run[w].task].left - 1 \in 0 .. MaxRetries
        BY <2>1, <3>1, ConstantsOK DEF TypeTask, TaskType
      <4>2. task' = [task EXCEPT ![run[w].task] =
                       [job |-> run[w].job, where |-> "queued",
                        left |-> task[run[w].task].left - 1]]
        BY <1>4, <3>1 DEF Crash
      <4> QED
        BY <2>1, <4>1, <4>2 DEF TypeTask, TaskType
    <3>2. CASE ~(task[run[w].task].left > 0)
      BY <1>4, <2>1, <3>2, IdleType DEF Crash, TypeTask
    <3> QED
      BY <3>1, <3>2
  <2>4. TypeDeaths'
    BY <1>4, ConstantsOK DEF Crash, TypeDeaths
  <2> QED
    BY <1>4, <2>2, <2>3, <2>4, UnchangedType DEF Crash, dbvars
<1>5. ASSUME NEW r \in Requests, Abandon(r) PROVE TypeOK'
  <2>1. TypeReq'
    BY <1>5, RequestMoves DEF Abandon
  <2>2. TypeDeaths'
    BY <1>5, ConstantsOK DEF Abandon, TypeDeaths
  <2> QED
    BY <1>5, <2>1, <2>2, UnchangedType DEF Abandon, dbvars
<1> QED
  BY <1>1, <1>2, <1>3, <1>4, <1>5 DEF Misfortune

\* The empty database has the types.
LEMMA TypeInit == Init => TypeOK
<1> SUFFICES ASSUME Init PROVE TypeOK
  OBVIOUS
<1>1. TypeRows
  BY DEF Init, TypeRows, Status, Phase
<1>2. TypeTask
  BY ConstantsOK DEF Init, TypeTask, TaskType, FreeTask
<1>3. TypeRun
  BY IdleType DEF Init, TypeRun
<1>4. TypeReq
  BY IdleType DEF Init, TypeReq
<1>5. TypeDeaths
  BY ConstantsOK DEF Init, TypeDeaths
<1> QED
  BY <1>1, <1>2, <1>3, <1>4, <1>5 DEF TypeOK

\* Every step of the program keeps the types.
LEMMA TypeStep == TypeOK /\ [Next]_vars => TypeOK'
<1> SUFFICES ASSUME TypeOK, [Next]_vars PROVE TypeOK'
  OBVIOUS
<1>1. CASE Next
  BY <1>1, WorkerType, RequestType, UserType, MisfortuneType DEF Next
<1>2. CASE UNCHANGED vars
  BY <1>2, UnchangedType DEF TypeOK, vars
<1> QED
  BY <1>1, <1>2

\* In every behaviour each table, task, run and request keeps its type.
THEOREM TypeCorrect == Spec => []TypeOK
<1> QED
  BY TypeInit, TypeStep, PTL DEF Spec

-----------------------------------------------------------------------------
(* The ledger *)

\* Where a run has put its file in the library and not yet recorded it.
Filed == {"filed", "landed", "scan", "scanned", "tidy", "dryCheck", "record"}

OwnedIsRecorded ==
    \A j \in Jobs : owned[j] = "yes" => ledger[VideoOf[j]] # NoRow

RunReady ==
    \A w \in Workers :
        /\ run[w].pc = "succeed" => ledger[VideoOf[run[w].job]] # NoRow
        /\ run[w].pc \in Filed => run[w].job \in library

RetrySteps == {"retryAcquire", "retryJudge", "retryExpire", "retryInsert", "retryUpdate",
               "retryRequeue", "retryEnqueue", "retryDrop", "retryRestore"}

RetryPrior ==
    \A r \in Requests : req[r].pc \in RetrySteps => req[r].prior \in Retryable

\* What recoveries have found dangling was recorded then, and still is.
FoundRecorded ==
    /\ \A w \in Workers : \A k \in run[w].found : ledger[VideoOf[k]] # NoRow
    /\ \A r \in Requests : \A k \in req[r].found : ledger[VideoOf[k]] # NoRow

TableInv ==
    SucceededIsRecorded /\ RecordedIsFiled /\ OwnedIsRecorded /\ OneFirstImport

LedgerInv == TableInv /\ RunReady /\ RetryPrior /\ FoundRecorded

\* A row of the ledger stays a row.
Grows == \A v \in Videos : ledger[v] # NoRow => ledger'[v] # NoRow

\* Worker w moves to a step of S, for the same job when that step is in RunReady,
\* and finds dangling what is so.
Moves(w, S) ==
    /\ run'[w].pc \in S
    /\ run'[w].pc \in Filed \cup {"succeed"} => run'[w].job = run[w].job
    /\ run'[w].found \subseteq run[w].found \cup Dangling
    /\ \A x \in Workers \ {w} : run'[x] = run[x]

\* The ways in which a worker's step changes its run.
LEMMA Moving ==
  ASSUME TypeRun, NEW w \in Workers
  PROVE  /\ \A pc \in RunStep : Goto(w, pc) => Moves(w, {pc})
         /\ \A s \in Status, ph \in Phase, pc \in RunStep :
               WriteJob(w, s, ph, pc) => Moves(w, {pc})
         /\ \A pc \in RunStep, stage \in 0 .. LastStage :
               CheckThen(w, pc, stage) => Moves(w, {pc, "cancelling"})
         /\ EndTask(w) => Moves(w, {"idle"})
         /\ \A pc \in RunStep, seen \in Owners :
               run' = [run EXCEPT ![w].seen = seen, ![w].pc = pc] => Moves(w, {pc})
<1>1. ASSUME NEW pc \in RunStep, Goto(w, pc) PROVE Moves(w, {pc})
  BY <1>1 DEF Goto, Moves, TypeRun, RunType
<1>2. ASSUME NEW s \in Status, NEW ph \in Phase, NEW pc \in RunStep,
             WriteJob(w, s, ph, pc)
      PROVE  Moves(w, {pc})
  BY <1>2 DEF WriteJob, Moves, TypeRun, RunType
<1>3. ASSUME NEW pc \in RunStep, NEW stage \in 0 .. LastStage,
             CheckThen(w, pc, stage)
      PROVE  Moves(w, {pc, "cancelling"})
  BY <1>3 DEF CheckThen, Moves, TypeRun, RunType
<1>4. ASSUME EndTask(w) PROVE Moves(w, {"idle"})
  <2>1. IdleRun.pc = "idle" /\ IdleRun.found = {}
    BY DEF IdleRun
  <2> QED
    BY <1>4, <2>1 DEF EndTask, Moves, TypeRun, Filed
<1>5. ASSUME NEW pc \in RunStep, NEW seen \in Owners,
             run' = [run EXCEPT ![w].seen = seen, ![w].pc = pc]
      PROVE  Moves(w, {pc})
  BY <1>5 DEF Moves, TypeRun, RunType
<1> QED
  BY <1>1, <1>2, <1>3, <1>4, <1>5

\* The tables stay right when the ledger stays and success is not claimed anew
\* without it.
LEMMA TablesKept ==
  ASSUME TypeOK, TableInv, UNCHANGED <<owned, ledger>>, library \subseteq library',
         \A j \in Jobs : status'[j] = "succeeded" =>
            status[j] = "succeeded" \/ ledger[VideoOf[j]] # NoRow
  PROVE  TableInv'
  BY DEF TableInv, SucceededIsRecorded, RecordedIsFiled, OwnedIsRecorded, OneFirstImport

\* Dangling jobs have a row, and what has been found are jobs.
LEMMA DanglingRecorded ==
  ASSUME TypeOK
  PROVE  /\ \A k \in Dangling : k \in Jobs /\ ledger[VideoOf[k]] # NoRow
         /\ \A w \in Workers : run[w].found \subseteq Jobs
         /\ \A r \in Requests : req[r].found \subseteq Jobs
         /\ \A k \in Jobs : VideoOf[k] \in Videos
<1>1. \A k \in Dangling : k \in Jobs /\ ledger[VideoOf[k]] # NoRow
  BY NullsOK DEF Dangling
<1>2. ASSUME NEW w \in Workers PROVE run[w].found \subseteq Jobs
  BY DEF TypeOK, TypeRun, RunType
<1>3. ASSUME NEW r \in Requests PROVE req[r].found \subseteq Jobs
  BY DEF TypeOK, TypeReq, ReqType
<1> QED
  BY <1>1, <1>2, <1>3, ConstantsOK

\* What recoveries have found stays recorded while the ledger grows.
LEMMA FoundKept ==
  ASSUME TypeOK, FoundRecorded, Grows,
         \A w \in Workers : run'[w].found \subseteq run[w].found \cup Dangling,
         \A r \in Requests : req'[r].found \subseteq req[r].found \cup Dangling
  PROVE  FoundRecorded'
<1>1. ASSUME NEW w \in Workers, NEW k \in run'[w].found
      PROVE  ledger'[VideoOf[k]] # NoRow
  <2>1. k \in Jobs /\ ledger[VideoOf[k]] # NoRow /\ VideoOf[k] \in Videos
    BY DanglingRecorded DEF FoundRecorded
  <2> QED
    BY <2>1 DEF Grows
<1>2. ASSUME NEW r \in Requests, NEW k \in req'[r].found
      PROVE  ledger'[VideoOf[k]] # NoRow
  <2>1. k \in Jobs /\ ledger[VideoOf[k]] # NoRow /\ VideoOf[k] \in Videos
    BY DanglingRecorded DEF FoundRecorded
  <2> QED
    BY <2>1 DEF Grows
<1> QED
  BY <1>1, <1>2 DEF FoundRecorded

\* RunReady stays when the ledger and the library grow and one worker moves.
LEMMA RunKept ==
  ASSUME TypeOK, RunReady, FoundRecorded, NEW w \in Workers, NEW S, Moves(w, S),
         Grows, library \subseteq library', UNCHANGED req,
         "succeed" \in S => ledger'[VideoOf[run[w].job]] # NoRow,
         (S \cap Filed # {}) => run[w].job \in library'
  PROVE  RunReady' /\ FoundRecorded'
<1>1. ASSUME NEW x \in Workers, x # w
      PROVE  /\ run'[x].pc = "succeed" => ledger'[VideoOf[run'[x].job]] # NoRow
             /\ run'[x].pc \in Filed => run'[x].job \in library'
  <2>1. run'[x] = run[x]
    BY <1>1 DEF Moves
  <2>2. run[x].pc = "succeed" => VideoOf[run[x].job] \in Videos
    BY ConstantsOK DEF TypeOK, TypeRun
  <2> QED
    BY <2>1, <2>2 DEF RunReady, Grows
<1>2. /\ run'[w].pc = "succeed" => ledger'[VideoOf[run'[w].job]] # NoRow
      /\ run'[w].pc \in Filed => run'[w].job \in library'
  BY DEF Moves
<1>3. FoundRecorded'
  BY FoundKept DEF Moves
<1> QED
  BY <1>1, <1>2, <1>3 DEF RunReady

\* Nothing to RunReady when no worker moves.
LEMMA RunStill ==
  ASSUME TypeOK, RunReady, UNCHANGED run, Grows, library \subseteq library'
  PROVE  RunReady'
<1>1. \A x \in Workers : run[x].pc = "succeed" => VideoOf[run[x].job] \in Videos
  BY ConstantsOK DEF TypeOK, TypeRun
<1> QED
  BY <1>1 DEF RunReady, Grows

\* A worker's step that leaves the ledger alone and claims no success without it.
LEMMA WorkerKept ==
  ASSUME TypeOK, LedgerInv, NEW w \in Workers, NEW S, Moves(w, S), "succeed" \notin S,
         UNCHANGED <<owned, ledger, req>>, library \subseteq library',
         (S \cap Filed # {}) => run[w].job \in library',
         \A j \in Jobs : status'[j] = "succeeded" =>
            status[j] = "succeeded" \/ ledger[VideoOf[j]] # NoRow
  PROVE  LedgerInv'
<1>1. Grows
  BY DEF Grows
<1>2. TableInv'
  BY TablesKept DEF LedgerInv
<1>3. RunReady' /\ FoundRecorded'
  BY <1>1, RunKept DEF LedgerInv
<1>4. RetryPrior'
  BY DEF LedgerInv, RetryPrior
<1> QED
  BY <1>2, <1>3, <1>4 DEF LedgerInv

\* Recovery finds every imported video in the ledger already: what it adds,
\* for databases of older versions, is never needed.
LEMMA LedgerReconciled ==
  ASSUME TypeOK, TableInv
  PROVE  ReconciledLedger = ledger
<1>1. \A v \in Videos : ledger[v] = NoRow => BackfillJobs(v) = {}
  BY DEF BackfillJobs, TableInv, SucceededIsRecorded
<1>2. ledger \in [Videos -> Jobs \cup {NoRow, Severed}]
  BY DEF TypeOK, TypeRows
<1> QED
  BY <1>1, <1>2 DEF ReconciledLedger

\* The jobs that a recovery sets to succeeded have a row.
LEMMA StatusReconciled ==
  ASSUME TypeOK, NEW x, \A k \in x.found : ledger[VideoOf[k]] # NoRow
  PROVE  \A j \in Jobs : ReconciledStatus(x)[j] = "succeeded" =>
            status[j] = "succeeded" \/ ledger[VideoOf[j]] # NoRow
<1>1. \A k \in Mended(x) : ledger[VideoOf[k]] # NoRow
  BY DanglingRecorded DEF Mended
<1> QED
  BY <1>1 DEF ReconciledStatus

\* A worker's step keeps LedgerInv.
LEMMA WorkerLedger ==
  ASSUME TypeOK, LedgerInv, NEW w \in Workers, WorkerStep(w)
  PROVE  LedgerInv'
<1>0. /\ TypeRun /\ TypeRows
      /\ run[w].pc # "idle" => run[w].job \in Jobs
      /\ run[w].pc \in Filed => run[w].job \in library
      /\ run[w].pc = "succeed" => ledger[VideoOf[run[w].job]] # NoRow
      /\ \A k \in run[w].found : ledger[VideoOf[k]] # NoRow
      /\ run[w].seen \in Owners
      /\ 0 \in 0 .. LastStage
  BY ConstantsOK DEF TypeOK, TypeRun, RunType, LedgerInv, RunReady, FoundRecorded
<1>1. ASSUME NEW t \in Tasks, Dequeue(w, t) PROVE LedgerInv'
  <2>1. Moves(w, {"recover"})
    <3>1. IdleRun.found = {} /\ "found" \in DOMAIN IdleRun /\ "pc" \in DOMAIN IdleRun
      BY DEF IdleRun
    <3> QED
      BY <1>0, <1>1, <3>1 DEF Dequeue, Moves, TypeRun, Filed, IdleRun
  <2> QED
    BY <1>1, <2>1, WorkerKept DEF Dequeue, dbvars, Filed
<1>2. CASE LookForRecovery(w)
  <2>1. Moves(w, {"recoverJudge"})
    <3>1. claim \in Owners
      BY <1>0, ClaimType DEF TypeOK
    <3> QED
      BY <1>0, <1>2, <3>1, Moving DEF LookForRecovery, RunStep
  <2> QED
    BY <1>0, <1>2, <2>1, WorkerKept DEF LookForRecovery, At, dbvars, Filed
<1>3. CASE JudgeForRecovery(w)
  <2>1. Moves(w, {"recoverWrite"})
    BY <1>0, <1>3 DEF JudgeForRecovery, Moves, TypeRun, RunType, Filed
  <2> QED
    BY <1>3, <2>1, WorkerKept DEF JudgeForRecovery, dbvars, Filed
<1>4. CASE Recover(w)
  <2>1. ledger' = ledger /\ status' = ReconciledStatus(run[w])
    BY <1>4, LedgerReconciled DEF Recover, LedgerInv
  <2>2. \A j \in Jobs : status'[j] = "succeeded" =>
           status[j] = "succeeded" \/ ledger[VideoOf[j]] # NoRow
    BY <1>0, <2>1, StatusReconciled
  <2>3. Moves(w, {"begin", "idle"})
    <3>1. CASE Present(run[w].job)
      <4> DEFINE x == [IdleRun EXCEPT !.job = run[w].job, !.task = run[w].task,
                                      !.pc = "begin", !.mem = status'[run[w].job]]
      <4>1. run' = [run EXCEPT ![w] = x]
        BY <1>4, <3>1 DEF Recover
      <4>2. x.pc = "begin" /\ x.found = {}
        BY DEF IdleRun
      <4> QED
        BY <1>0, <4>1, <4>2 DEF Moves, TypeRun, Filed
    <3>2. CASE ~Present(run[w].job)
      <4>1. Moves(w, {"idle"})
        BY <1>0, <1>4, <3>2, Moving DEF Recover
      <4> QED
        BY <4>1 DEF Moves
    <3> QED
      BY <3>1, <3>2
  <2> QED
    BY <1>4, <2>1, <2>2, <2>3, WorkerKept DEF Recover, Filed
<1>5. CASE RecoverFails(w)
  <2>1. Moves(w, {"idle"})
    BY <1>0, <1>5, Moving DEF RecoverFails, RunStep
  <2> QED
    BY <1>0, <1>5, <2>1, WorkerKept DEF RecoverFails, At, dbvars, Filed
<1>6. CASE Begin(w)
  <2>1. Moves(w, {"dedup"})
    BY <1>0, <1>6, Moving DEF Begin, RunStep, Status, Active, Terminal, Phase
  <2> QED
    BY <1>0, <1>6, <2>1, WorkerKept DEF Begin, At, WriteJob, TypeRows, Filed
<1>7. CASE CheckLedger(w)
  <2>1. Moves(w, {"failing", "claim"})
    <3>1. \A pc \in RunStep : Goto(w, pc) => Moves(w, {pc})
      BY <1>0, Moving
    <3> QED
      BY <1>7, <3>1 DEF CheckLedger, RunStep, Moves
  <2> QED
    BY <1>0, <1>7, <2>1, WorkerKept DEF CheckLedger, At, dbvars, Filed
<1>8. CASE LookForClaim(w)
  <2>1. Moves(w, {"claimJudge"})
    <3>1. claim \in Owners
      BY <1>0, ClaimType DEF TypeOK
    <3> QED
      BY <1>0, <1>8, <3>1, Moving DEF LookForClaim, RunStep
  <2> QED
    BY <1>0, <1>8, <2>1, WorkerKept DEF LookForClaim, At, dbvars, Filed
<1>9. CASE JudgeForClaim(w)
  <2> DEFINE stale == Judged(run[w].seen, status)
             pc == IF stale # NoClaims THEN "claimExpire"
                   ELSE IF claim[VideoOf[run[w].job]] = NoJob
                   THEN "claimInsert" ELSE "claimUpdate"
  <2>1. stale \in Owners
    BY <1>0, JudgedType
  <2>2. run' = [run EXCEPT ![w].seen = stale, ![w].pc = pc]
    BY <1>9 DEF JudgeForClaim
  <2>3. pc \in RunStep /\ pc \in {"claimExpire", "claimInsert", "claimUpdate"}
    BY DEF RunStep
  <2> HIDE DEF stale, pc
  <2>4. Moves(w, {pc})
    BY <1>0, <2>1, <2>2, <2>3, Moving
  <2> QED
    BY <1>9, <2>3, <2>4, WorkerKept DEF JudgeForClaim, dbvars, Filed
<1>10. ASSUME NEW c, NEW inserts, TakeClaim(w, c, inserts) PROVE LedgerInv'
  <2>1. PICK pc \in {"setup", "failing"} :
          run' = [run EXCEPT ![w].seen = NoClaims, ![w].pc = pc]
    BY <1>10 DEF TakeClaim
  <2>2. Moves(w, {pc})
    BY <1>0, <2>1, IdleType, Moving DEF RunStep
  <2> QED
    BY <1>10, <2>2, WorkerKept DEF TakeClaim, Filed
<1>11. CASE ExpireAndTake(w) \/ InsertClaim(w) \/ UpdateClaim(w)
  BY <1>10, <1>11 DEF ExpireAndTake, InsertClaim, UpdateClaim
<1>12. CASE SkipExisting(w)
  <2>1. Moves(w, {"release"})
    BY <1>0, <1>12, Moving DEF SkipExisting, RunStep, Status, Active, Terminal, Phase
  <2>2. Grows /\ UNCHANGED <<ledger, library, req>>
    BY <1>12 DEF SkipExisting, Grows
  <2>3. RunReady' /\ FoundRecorded' /\ RetryPrior'
    BY <2>1, <2>2, RunKept DEF Filed, LedgerInv, RetryPrior
  <2>4. TableInv'
    <3>1. \A j \in Jobs :
             /\ owned'[j] = "yes" => owned[j] = "yes"
             /\ owned[j] = "no" => owned'[j] = "no"
             /\ status'[j] = "succeeded" =>
                   status[j] = "succeeded" \/ owned'[j] = "no"
      BY <1>0, <1>12 DEF SkipExisting, At, WriteJob, TypeRows
    <3>2. SucceededIsRecorded' /\ OwnedIsRecorded'
      BY <2>2, <3>1 DEF LedgerInv, TableInv, SucceededIsRecorded, OwnedIsRecorded
    <3>3. RecordedIsFiled'
      BY <2>2 DEF LedgerInv, TableInv, RecordedIsFiled
    <3>4. OneFirstImport'
      BY <3>1 DEF LedgerInv, TableInv, OneFirstImport
    <3> QED
      BY <3>2, <3>3, <3>4 DEF TableInv
  <2> QED
    BY <2>3, <2>4 DEF LedgerInv
<1>13. CASE DryRun(w)
  <2>1. Moves(w, {"dryCheck"})
    BY <1>0, <1>13, Moving DEF DryRun, RunStep
  <2> QED
    BY <1>0, <1>13, <2>1, WorkerKept DEF DryRun, At, dbvars, Filed
<1>14. CASE DryRunCheck(w)
  <2>1. Moves(w, {"record", "cancelling"})
    BY <1>0, <1>14, Moving DEF DryRunCheck, RunStep
  <2> QED
    BY <1>0, <1>14, <2>1, WorkerKept DEF DryRunCheck, At, dbvars, Filed
<1>15. CASE StartStages(w)
  <2>1. Moves(w, {"enter", "cancelling"})
    BY <1>0, <1>15, ConstantsOK, Moving DEF StartStages, RunStep
  <2> QED
    BY <1>0, <1>15, <2>1, WorkerKept DEF StartStages, At, dbvars, Filed
<1>16. CASE EnterStage(w)
  <2>0. /\ StageStatus[run[w].stage] \in Status
        /\ StageStatus[run[w].stage] # "succeeded"
    <3>1. run[w].stage \in 1 .. 4
      BY <1>0, <1>16, ConstantsOK DEF EnterStage, At, TypeRun
    <3> QED
      BY <3>1 DEF StageStatus, Status, Active
  <2>1. Moves(w, {"work"})
    BY <1>0, <1>16, <2>0, Moving DEF EnterStage, RunStep, Status, Active, Terminal, Phase
  <2> QED
    BY <1>0, <1>16, <2>0, <2>1, WorkerKept DEF EnterStage, At, WriteJob, TypeRows, Filed
<1>17. CASE FinishStage(w)
  <2>1. Moves(w, {"enter", "publish", "cancelling"})
    <3>1. \A pc \in RunStep, stage \in 0 .. LastStage :
             CheckThen(w, pc, stage) => Moves(w, {pc, "cancelling"})
      BY <1>0, Moving
    <3>2. /\ run[w].stage \in 1 .. LastStage /\ 0 \in 0 .. LastStage
          /\ run[w].stage < LastStage => run[w].stage + 1 \in 0 .. LastStage
      BY <1>0, <1>17, ConstantsOK DEF FinishStage, At, TypeRun
    <3>3. CASE CheckThen(w, "enter", run[w].stage + 1) /\ run[w].stage < LastStage
      BY <3>1, <3>2, <3>3 DEF RunStep, Moves
    <3>4. CASE CheckThen(w, "publish", 0)
      BY <3>1, <3>2, <3>4 DEF RunStep, Moves
    <3> QED
      BY <1>17, <3>3, <3>4 DEF FinishStage
  <2> QED
    BY <1>0, <1>17, <2>1, WorkerKept DEF FinishStage, At, dbvars, Filed
<1>18. CASE StartCommit(w)
  <2>1. Moves(w, {"commit"})
    BY <1>0, <1>18, Moving DEF StartCommit, RunStep
  <2> QED
    BY <1>0, <1>18, <2>1, WorkerKept DEF StartCommit, At, dbvars, Filed
<1>19. CASE CommitOutput(w)
  <2>1. Moves(w, {"filed"})
    BY <1>0, <1>19, Moving DEF CommitOutput, RunStep
  <2> QED
    BY <1>0, <1>19, <2>1, WorkerKept DEF CommitOutput, At, dbvars, Filed
<1>20. CASE MarkCommitted(w)
  <2>1. Moves(w, {"landed"})
    BY <1>0, <1>20, Moving DEF MarkCommitted, RunStep
  <2> QED
    BY <1>0, <1>20, <2>1, WorkerKept DEF MarkCommitted, At, dbvars, Filed
<1>21. CASE CheckCommitted(w)
  <2>1. Moves(w, {"tidy", "scan", "cancelling"})
    <3>1. \A pc \in RunStep : CheckThen(w, pc, 0) => Moves(w, {pc, "cancelling"})
      BY <1>0, Moving
    <3> QED
      BY <1>21, <3>1 DEF CheckCommitted, RunStep, Moves
  <2> QED
    BY <1>0, <1>21, <2>1, WorkerKept DEF CheckCommitted, At, dbvars, Filed
<1>22. CASE StartScan(w)
  <2>1. Moves(w, {"scanned"})
    BY <1>0, <1>22, Moving DEF StartScan, RunStep, Status, Active, Terminal, Phase
  <2> QED
    BY <1>0, <1>22, <2>1, WorkerKept DEF StartScan, At, WriteJob, TypeRows, Filed
<1>23. CASE FinishScan(w)
  <2>1. Moves(w, {"tidy", "cancelling"})
    BY <1>0, <1>23, Moving DEF FinishScan, RunStep
  <2> QED
    BY <1>0, <1>23, <2>1, WorkerKept DEF FinishScan, At, dbvars, Filed
<1>24. CASE Cleanup(w)
  <2>1. Moves(w, {"record"})
    BY <1>0, <1>24, Moving DEF Cleanup, RunStep
  <2> QED
    BY <1>0, <1>24, <2>1, WorkerKept DEF Cleanup, At, dbvars, Filed
<1>25. CASE MarkImported(w)
  <2> DEFINE j == run[w].job
             v == VideoOf[j]
  <2>1. CASE ledger[v] = NoRow \/ j \in Reimport
    <3>1. /\ Present(j) /\ Goto(w, "succeed")
          /\ ledger' = [ledger EXCEPT ![v] = j]
          /\ owned' = [owned EXCEPT ![j] = "yes"]
          /\ UNCHANGED <<status, library, req>>
      BY <1>25, <2>1 DEF MarkImported
    <3>2. j \in Jobs /\ v \in Videos /\ j \in library
      BY <1>0, <1>25, ConstantsOK DEF MarkImported, At, Filed
    <3>3. ledger'[v] = j /\ \A u \in Videos : u # v => ledger'[u] = ledger[u]
      BY <1>0, <3>1, <3>2 DEF TypeRows
    <3>4. owned'[j] = "yes" /\ \A k \in Jobs : k # j => owned'[k] = owned[k]
      BY <1>0, <3>1, <3>2 DEF TypeRows
    <3>5. Grows
      BY <3>2, <3>3, NullsOK DEF Grows
    <3>6. RunReady' /\ FoundRecorded' /\ RetryPrior'
      <4>1. Moves(w, {"succeed"})
        BY <1>0, <3>1, Moving DEF RunStep
      <4>2. ledger'[VideoOf[run[w].job]] # NoRow
        BY <3>2, <3>3, NullsOK
      <4>3. {"succeed"} \cap Filed = {}
        BY DEF Filed
      <4>4. RetryPrior'
        BY <3>1 DEF LedgerInv, RetryPrior
      <4> QED
        BY <3>1, <3>5, <4>1, <4>2, <4>3, <4>4, RunKept DEF LedgerInv
    <3>7. \A k \in Jobs : VideoOf[k] \in Videos
      BY ConstantsOK
    <3>8. SucceededIsRecorded' /\ OwnedIsRecorded'
      BY <3>1, <3>2, <3>3, <3>4, <3>5, <3>7, NullsOK
      DEF Grows, LedgerInv, TableInv, SucceededIsRecorded, OwnedIsRecorded
    <3>9. RecordedIsFiled'
      BY <3>1, <3>2, <3>3 DEF LedgerInv, TableInv, RecordedIsFiled
    <3>10. OneFirstImport'
      BY <2>1, <3>2, <3>4 DEF LedgerInv, TableInv, OneFirstImport, OwnedIsRecorded
    <3> QED
      BY <3>6, <3>8, <3>9, <3>10 DEF TableInv, LedgerInv
  <2>2. CASE ~(ledger[v] = NoRow \/ j \in Reimport)
    <3>1. Moves(w, {"failing"}) /\ UNCHANGED <<status, library, req, ledger, owned>>
      BY <1>0, <1>25, <2>2, Moving DEF MarkImported, RunStep
    <3> QED
      BY <3>1, WorkerKept DEF Filed
  <2> QED
    BY <2>1, <2>2
<1>26. CASE Succeed(w)
  <2>1. Moves(w, {"release"})
    BY <1>0, <1>26, Moving DEF Succeed, RunStep, Status, Active, Terminal, Phase
  <2> QED
    BY <1>0, <1>26, <2>1, WorkerKept DEF Succeed, At, WriteJob, TypeRows, Filed
<1>27. CASE HandleFailure(w)
  <2>1. Moves(w, {"release"})
    BY <1>0, <1>27, Moving DEF HandleFailure, RunStep, Status, Active, Terminal, Phase
  <2> QED
    BY <1>0, <1>27, <2>1, WorkerKept DEF HandleFailure, At, WriteJob, TypeRows, Filed
<1>28. CASE HandleCancel(w)
  <2>1. Moves(w, {"release"})
    BY <1>0, <1>28, Moving DEF HandleCancel, RunStep, Status, Active, Terminal, Phase
  <2> QED
    BY <1>0, <1>28, <2>1, WorkerKept DEF HandleCancel, At, WriteJob, TypeRows, Filed
<1>29. CASE ReleaseClaim(w)
  <2>1. Moves(w, {"drop", "closing"})
    <3>1. \A pc \in RunStep : Goto(w, pc) => Moves(w, {pc})
      BY <1>0, Moving
    <3> QED
      BY <1>29, <3>1 DEF ReleaseClaim, RunStep, Moves
  <2> QED
    BY <1>0, <1>29, <2>1, WorkerKept DEF ReleaseClaim, At, dbvars, Filed
<1>30. CASE DropClaim(w)
  <2>1. Moves(w, {"closing"})
    BY <1>0, <1>30, Moving DEF DropClaim, RunStep
  <2> QED
    BY <1>30, <2>1, WorkerKept DEF DropClaim, Filed
<1>31. CASE Close(w)
  <2>1. Moves(w, {"idle"})
    BY <1>0, <1>31, Moving DEF Close, RunStep
  <2> QED
    BY <1>0, <1>31, <2>1, WorkerKept DEF Close, At, dbvars, Filed
<1>32. CASE LoseRow(w)
  <2>1. Moves(w, {"idle"})
    BY <1>0, <1>32, Moving DEF LoseRow, RunStep
  <2> QED
    BY <1>0, <1>32, <2>1, WorkerKept DEF LoseRow, At, dbvars, Filed
<1> QED
  BY <1>1, <1>2, <1>3, <1>4, <1>5, <1>6, <1>7, <1>8, <1>9, <1>10, <1>11, <1>12,
     <1>13, <1>14, <1>15, <1>16, <1>17, <1>18, <1>19, <1>20, <1>21, <1>22, <1>23, <1>24,
     <1>25, <1>26, <1>27, <1>28, <1>29, <1>30, <1>31, <1>32 DEF WorkerStep

\* Request r goes on, as a retry with a status that may come back.
Continues(r) ==
    /\ \A q \in Requests \ {r} : req'[q] = req[q]
    /\ req'[r].found \subseteq req[r].found \cup Dangling
    /\ req'[r].pc \in RetrySteps => req'[r].prior \in Retryable

\* The ways in which a request goes on.
LEMMA Continuing ==
  ASSUME TypeReq, RetryPrior, NEW r \in Requests
  PROVE  /\ Respond(r) => Continues(r)
         /\ \A pc \in ReqStep :
               Proceed(r, pc) /\ (pc \in RetrySteps => req[r].pc \in RetrySteps)
               => Continues(r)
         /\ \A pc \in ReqStep, t \in Tasks :
               /\ req' = [req EXCEPT ![r].pc = pc, ![r].task = t]
               /\ pc \notin RetrySteps
               => Continues(r)
         /\ \A pc \in ReqStep, seen \in Owners :
               /\ req' = [req EXCEPT ![r].seen = seen, ![r].pc = pc]
               /\ pc \in RetrySteps => req[r].pc \in RetrySteps
               => Continues(r)
<1>0. req[r] \in ReqType /\ (req[r].pc \in RetrySteps => req[r].prior \in Retryable)
  BY DEF TypeReq, RetryPrior
<1>1. ASSUME Respond(r) PROVE Continues(r)
  <2>1. IdleReq.pc = "idle" /\ IdleReq.found = {}
    BY DEF IdleReq
  <2> QED
    BY <1>1, <2>1 DEF Respond, Continues, TypeReq, RetrySteps
<1>2. ASSUME NEW pc \in ReqStep, Proceed(r, pc),
             pc \in RetrySteps => req[r].pc \in RetrySteps
      PROVE  Continues(r)
  BY <1>0, <1>2 DEF Proceed, Continues, TypeReq, ReqType
<1>3. ASSUME NEW pc \in ReqStep, NEW t \in Tasks, pc \notin RetrySteps,
             req' = [req EXCEPT ![r].pc = pc, ![r].task = t]
      PROVE  Continues(r)
  BY <1>0, <1>3 DEF Continues, TypeReq, ReqType
<1>4. ASSUME NEW pc \in ReqStep, NEW seen \in Owners,
             pc \in RetrySteps => req[r].pc \in RetrySteps,
             req' = [req EXCEPT ![r].seen = seen, ![r].pc = pc]
      PROVE  Continues(r)
  BY <1>0, <1>4 DEF Continues, TypeReq, ReqType
<1> QED
  BY <1>1, <1>2, <1>3, <1>4

\* A request's step that leaves the ledger alone and claims no success without it.
LEMMA RequestKept ==
  ASSUME TypeOK, LedgerInv, NEW r \in Requests, Continues(r),
         UNCHANGED <<owned, ledger, library, run>>,
         \A j \in Jobs : status'[j] = "succeeded" =>
            status[j] = "succeeded" \/ ledger[VideoOf[j]] # NoRow
  PROVE  LedgerInv'
<1>1. Grows
  BY DEF Grows
<1>2. TableInv' /\ RunReady'
  BY <1>1, TablesKept, RunStill DEF LedgerInv
<1>3. RetryPrior'
  BY DEF LedgerInv, RetryPrior, Continues
<1>4. FoundRecorded'
  BY <1>1, FoundKept DEF LedgerInv, Continues
<1> QED
  BY <1>2, <1>3, <1>4 DEF LedgerInv

\* A request's step keeps LedgerInv: recovery adds nothing to the ledger, and retry
\* brings back only what RetryPrior allows.
LEMMA RequestLedger ==
  ASSUME TypeOK, LedgerInv, NEW r \in Requests, RequestStep(r)
  PROVE  LedgerInv'
<1>0. /\ TypeRows /\ TypeReq /\ RetryPrior
      /\ req[r].pc \notin Jobless => req[r].job \in Jobs
      /\ req[r].pc \in RetrySteps => req[r].prior \in Retryable
      /\ req[r].seen \in Owners
      /\ \A k \in req[r].found : ledger[VideoOf[k]] # NoRow
  BY DEF TypeOK, TypeReq, ReqType, RetryPrior, Jobless, LedgerInv, FoundRecorded
<1>s. \A j \in Jobs : ReconciledStatus(req[r])[j] = "succeeded" =>
         status[j] = "succeeded" \/ ledger[VideoOf[j]] # NoRow
  BY <1>0, StatusReconciled
<1>l. ReconciledLedger = ledger
  BY LedgerReconciled DEF LedgerInv
<1>1. CASE JudgeForRequest(r)
  <2>1. Continues(r)
    <3>1. CASE Respond(r)
      BY <1>0, <3>1, Continuing
    <3>2. CASE ~Respond(r)
      BY <1>0, <1>1, <3>2 DEF JudgeForRequest, Continues, TypeReq, ReqType, RetrySteps
    <3> QED
      BY <3>1, <3>2
  <2> QED
    BY <1>1, <2>1, RequestKept DEF JudgeForRequest, dbvars
<1>2. ASSUME NEW s \in [Jobs -> Status], NEW c, req[r].pc \notin Jobless, Create(r, s, c)
      PROVE  /\ Continues(r)
             /\ \A j \in Jobs : status'[j] = "succeeded" => s[j] = "succeeded"
  <2> DEFINE j == req[r].job
             left == Expired(c, s)
  <2>1. CASE left[VideoOf[j]] = NoJob
    <3>1. /\ req' = [req EXCEPT ![r] = Begun(j, "submitEnqueue")]
          /\ status' = [s EXCEPT ![j] = "queued"]
      BY <1>2, <2>1 DEF Create
    <3>2. Begun(j, "submitEnqueue").pc = "submitEnqueue"
          /\ Begun(j, "submitEnqueue").found = {}
      BY DEF Begun, IdleReq
    <3> QED
      BY <1>0, <3>1, <3>2 DEF Continues, TypeReq, RetrySteps
  <2>2. CASE left[VideoOf[j]] # NoJob
    <3>1. Respond(r) /\ status' = s
      BY <1>2, <2>2 DEF Create
    <3> QED
      BY <1>0, <3>1, Continuing
  <2> QED
    BY <2>1, <2>2
<1>3. CASE Submit(r)
  <2>1. /\ ReconciledStatus(req[r]) \in [Jobs -> Status]
        /\ req[r].pc \notin Jobless
        /\ UNCHANGED <<owned, ledger, library, run>>
    BY <1>0, <1>l, <1>3, ReconciledType DEF Submit, Jobless
  <2>2. CASE Create(r, ReconciledStatus(req[r]), ReconciledClaim(req[r]))
    <3>1. Continues(r)
          /\ \A j \in Jobs : status'[j] = "succeeded" =>
                ReconciledStatus(req[r])[j] = "succeeded"
      BY <1>2, <2>1, <2>2
    <3> QED
      BY <1>s, <2>1, <3>1, RequestKept
  <2>3. CASE Respond(r) /\ UNCHANGED status
    BY <1>0, <2>1, <2>3, Continuing, RequestKept
  <2> QED
    BY <1>3, <2>2, <2>3 DEF Submit
<1>4. CASE BeginBatch(r)
  <2>1. Continues(r) /\ UNCHANGED <<owned, ledger, library, run>>
    BY <1>0, <1>l, <1>4, Continuing DEF BeginBatch
  <2>2. status' = status \/ status' = ReconciledStatus(req[r])
    BY <1>4 DEF BeginBatch
  <2> QED
    BY <1>s, <2>1, <2>2, RequestKept
<1>5. CASE SubmitEntry(r)
  <2>1. status \in [Jobs -> Status] /\ req[r].pc \notin Jobless
    BY <1>0, <1>5 DEF SubmitEntry, Jobless, TypeRows
  <2>2. Continues(r) /\ \A j \in Jobs : status'[j] = "succeeded" => status[j] = "succeeded"
    BY <1>2, <1>5, <2>1 DEF SubmitEntry
  <2> QED
    BY <1>5, <2>2, RequestKept DEF SubmitEntry
<1>6. ASSUME \/ EnqueueSubmitted(r) \/ SubmitEnqueueFails(r) \/ FailSubmitted(r)
             \/ RecordQueued(r) \/ CancelWrite(r) \/ CancelRelease(r) \/ CancelDrop(r)
             \/ EnqueueRetry(r) \/ RetryEnqueueFails(r) \/ RetryRequeue(r)
             \/ RetryInsert(r) \/ LookForRetry(r) \/ RetryRestore(r)
      PROVE  LedgerInv'
  <2>1. UNCHANGED <<ledger, owned, library, run>>
    BY <1>6 DEF EnqueueSubmitted, SubmitEnqueueFails, FailSubmitted, RecordQueued,
       CancelWrite, CancelRelease, CancelDrop, EnqueueRetry, RetryEnqueueFails,
       RetryRequeue, RetryInsert, LookForRetry, RetryRestore, dbvars
  <2>2. \A j \in Jobs : status'[j] = "succeeded" => status[j] = "succeeded"
    BY <1>0, <1>6 DEF EnqueueSubmitted, SubmitEnqueueFails, FailSubmitted, RecordQueued,
       CancelWrite, CancelRelease, CancelDrop, EnqueueRetry, RetryEnqueueFails,
       RetryRequeue, RetryInsert, LookForRetry, RetryRestore, dbvars, TypeRows,
       Retryable, RetrySteps
  <2>3. \/ Respond(r)
        \/ \E pc \in {"submitDrop", "submitFail", "cancelRelease", "cancelDrop"} :
              Proceed(r, pc)
        \/ \E t \in Tasks : req' = [req EXCEPT ![r].pc = "recordQueued", ![r].task = t]
        \/ /\ req[r].pc \in RetrySteps
           /\ \/ \E pc \in RetrySteps : Proceed(r, pc)
              \/ req' = [req EXCEPT ![r].seen = claim, ![r].pc = "retryJudge"]
    BY <1>6 DEF EnqueueSubmitted, SubmitEnqueueFails, FailSubmitted, RecordQueued,
       CancelWrite, CancelRelease, CancelDrop, EnqueueRetry, RetryEnqueueFails,
       RetryRequeue, RetryInsert, LookForRetry, RetryRestore, Proceed, RetrySteps
  <2>4. Continues(r)
    <3>1. RetrySteps \subseteq ReqStep /\ "recordQueued" \notin RetrySteps
          /\ {"submitDrop", "submitFail", "cancelRelease", "cancelDrop"} \cap RetrySteps = {}
          /\ {"submitDrop", "submitFail", "cancelRelease", "cancelDrop", "recordQueued"}
             \subseteq ReqStep
          /\ "retryJudge" \in RetrySteps
      BY DEF RetrySteps, ReqStep
    <3>2. claim \in Owners
      BY <1>0, ClaimType
    <3> QED
      BY <1>0, <2>3, <3>1, <3>2, Continuing
  <2> QED
    BY <2>1, <2>2, <2>4, RequestKept
<1>7. CASE JudgeForRetry(r)
  <2> DEFINE stale == Judged(req[r].seen, [status EXCEPT ![req[r].job] = req[r].prior])
             pc == IF stale # NoClaims THEN "retryExpire"
                   ELSE IF claim[VideoOf[req[r].job]] = NoJob
                   THEN "retryInsert" ELSE "retryUpdate"
  <2>1. stale \in Owners
    BY <1>0, JudgedType
  <2>2. req' = [req EXCEPT ![r].seen = stale, ![r].pc = pc]
    BY <1>7 DEF JudgeForRetry
  <2>3. req[r].pc \in RetrySteps /\ pc \in ReqStep
    BY <1>7 DEF JudgeForRetry, RetrySteps, ReqStep
  <2> HIDE DEF stale, pc
  <2>4. Continues(r)
    BY <1>0, <2>1, <2>2, <2>3, Continuing
  <2> QED
    BY <1>7, <2>4, RequestKept DEF JudgeForRetry, dbvars
<1>8. ASSUME NEW c, NEW inserts, req[r].pc \in RetrySteps, TakeAndRequeue(r, c, inserts)
      PROVE  LedgerInv'
  <2>1. \/ req' = [req EXCEPT ![r].seen = NoClaims, ![r].pc = "retryEnqueue"]
        \/ Respond(r)
    BY <1>8 DEF TakeAndRequeue
  <2>2. Continues(r)
    BY <1>0, <1>8, <2>1, IdleType, Continuing DEF ReqStep
  <2>3. \A j \in Jobs : status'[j] = "succeeded" => status[j] = "succeeded"
    BY <1>0, <1>8 DEF TakeAndRequeue, TypeRows
  <2> QED
    BY <1>8, <2>2, <2>3, RequestKept DEF TakeAndRequeue
<1>9. CASE RetryExpire(r) \/ RetryUpdate(r)
  <2>1. req[r].pc \in RetrySteps
    BY <1>9 DEF RetryExpire, RetryUpdate, RetrySteps
  <2>2. \/ TakeAndRequeue(r, claim, FALSE)
        \/ TakeAndRequeue(r, Without(req[r].seen),
                          Without(req[r].seen)[VideoOf[req[r].job]] = NoJob)
    BY <1>9 DEF RetryExpire, RetryUpdate
  <2> QED
    BY <1>8, <2>1, <2>2
<1> QED
  BY <1>1, <1>3, <1>4, <1>5, <1>6, <1>7, <1>9 DEF RequestStep

\* What users begin, and deletion, keep LedgerInv.
LEMMA UserLedger ==
  ASSUME TypeOK, LedgerInv, UserStep
  PROVE  LedgerInv'
<1>0. TypeRows /\ TypeReq
  BY DEF TypeOK
<1>1. ASSUME NEW r \in Requests, NEW x, req' = [req EXCEPT ![r] = x], x.found = {},
             x.pc \in RetrySteps => x.prior \in Retryable,
             UNCHANGED <<status, owned, ledger, library, run>>
      PROVE  LedgerInv'
  <2>1. Continues(r)
    BY <1>0, <1>1 DEF Continues, TypeReq
  <2> QED
    BY <1>1, <2>1, RequestKept
<1>3. ASSUME NEW r \in Requests, LookForBatch(r) PROVE LedgerInv'
  <2> DEFINE x == [Begun(NoJob, "batchJudge") EXCEPT !.seen = claim]
  <2>1. x.found = {} /\ x.pc \notin RetrySteps
    BY DEF Begun, IdleReq, RetrySteps
  <2>2. req' = [req EXCEPT ![r] = x] /\ UNCHANGED <<status, owned, ledger, library, run>>
    BY <1>3 DEF LookForBatch, dbvars
  <2> HIDE DEF x
  <2> QED
    BY <1>1, <2>1, <2>2
<1>4. ASSUME NEW r \in Requests, NEW j \in Jobs, LookForSubmit(r, j) PROVE LedgerInv'
  <2> DEFINE x == [Begun(j, "submitJudge") EXCEPT !.seen = claim]
  <2>1. x.found = {} /\ x.pc \notin RetrySteps
    BY DEF Begun, IdleReq, RetrySteps
  <2>2. req' = [req EXCEPT ![r] = x] /\ UNCHANGED <<status, owned, ledger, library, run>>
    BY <1>4 DEF LookForSubmit, dbvars
  <2> HIDE DEF x
  <2> QED
    BY <1>1, <2>1, <2>2
<1>5. ASSUME NEW r \in Requests, NEW j \in Jobs, LookForEntry(r, j) \/ CancelCheck(r, j)
      PROVE  LedgerInv'
  <2>1. PICK pc \in {"create", "cancelWrite"} : req' = [req EXCEPT ![r] = Begun(j, pc)]
    BY <1>5 DEF LookForEntry, CancelCheck
  <2>2. Begun(j, pc).found = {} /\ Begun(j, pc).pc \notin RetrySteps
    BY DEF Begun, IdleReq, RetrySteps
  <2>3. UNCHANGED <<status, owned, ledger, library, run>>
    BY <1>5 DEF LookForEntry, CancelCheck, dbvars
  <2> QED
    BY <1>1, <2>1, <2>2, <2>3
<1>6. ASSUME NEW r \in Requests, NEW j \in Jobs, RetryCheck(r, j) PROVE LedgerInv'
  <2> DEFINE x == [Begun(j, "retryAcquire") EXCEPT !.prior = status[j],
                                                   !.priorPhase = phase[j]]
  <2>1. x.found = {} /\ x.prior = status[j] /\ status[j] \in Retryable
    BY <1>6 DEF RetryCheck, Begun, IdleReq
  <2>2. req' = [req EXCEPT ![r] = x] /\ UNCHANGED <<status, owned, ledger, library, run>>
    BY <1>6 DEF RetryCheck, dbvars
  <2> HIDE DEF x
  <2> QED
    BY <1>1, <2>1, <2>2
<1>2. ASSUME NEW j \in Jobs, Delete(j) PROVE LedgerInv'
  <2>1. \A v \in Videos : /\ ledger'[v] = IF ledger[v] = j THEN Severed ELSE ledger[v]
                          /\ ledger'[v] \in Jobs => ledger'[v] = ledger[v]
                          /\ ledger[v] # NoRow => ledger'[v] # NoRow
    BY <1>2, NullsOK DEF Delete
  <2>2. /\ UNCHANGED <<owned, library, run, req>>
        /\ \A k \in Jobs : status'[k] = "succeeded" => status[k] = "succeeded"
    BY <1>0, <1>2 DEF Delete, TypeRows
  <2>3. \A k \in Jobs : VideoOf[k] \in Videos
    BY ConstantsOK
  <2>4. TableInv'
    BY <2>1, <2>2, <2>3 DEF LedgerInv, TableInv, SucceededIsRecorded, RecordedIsFiled,
                            OwnedIsRecorded, OneFirstImport
  <2>5. RunReady' /\ FoundRecorded'
    BY <2>1, <2>2, RunStill, FoundKept DEF Grows, LedgerInv
  <2> QED
    BY <2>2, <2>4, <2>5 DEF LedgerInv, RetryPrior
<1> QED
  BY <1>2, <1>3, <1>4, <1>5, <1>6 DEF UserStep

\* Failures, crashes and restarts keep LedgerInv.
LEMMA MisfortuneLedger ==
  ASSUME TypeOK, LedgerInv, Misfortune
  PROVE  LedgerInv'
<1>0. TypeRun /\ TypeReq /\ RetryPrior
  BY DEF TypeOK, LedgerInv
<1>1. UNCHANGED <<status, owned, ledger, library>>
  BY DEF Misfortune, BeginFails, FailRun, FailChecked, Crash, Abandon, dbvars
<1>2. ASSUME NEW w \in Workers,
             BeginFails(w) \/ FailRun(w) \/ FailChecked(w) \/ Crash(w)
      PROVE  LedgerInv'
  <2>1. Moves(w, {"idle", "failing", "cancelling"})
    <3>1. 0 \in 0 .. LastStage
      BY ConstantsOK
    <3>2. /\ Goto(w, "failing") => Moves(w, {"failing"})
          /\ CheckThen(w, "failing", 0) => Moves(w, {"failing", "cancelling"})
          /\ EndTask(w) => Moves(w, {"idle"})
      BY <1>0, <3>1, Moving DEF RunStep
    <3>3. CASE BeginFails(w)
      BY <3>2, <3>3 DEF BeginFails, Moves
    <3>4. CASE FailRun(w)
      BY <1>0, <3>4 DEF FailRun, Moves, TypeRun, RunType, Filed
    <3>5. CASE FailChecked(w)
      BY <3>2, <3>5 DEF FailChecked, Moves
    <3>6. CASE Crash(w)
      <4>1. run' = [run EXCEPT ![w] = IdleRun]
        BY <3>6 DEF Crash
      <4>2. IdleRun.pc = "idle" /\ IdleRun.found = {}
        BY DEF IdleRun
      <4> QED
        BY <1>0, <4>1, <4>2 DEF Moves, TypeRun, Filed
    <3> QED
      BY <1>2, <3>3, <3>4, <3>5, <3>6
  <2>2. UNCHANGED req
    BY <1>2 DEF BeginFails, FailRun, FailChecked, Crash
  <2> QED
    BY <1>1, <2>1, <2>2, WorkerKept DEF Filed
<1>3. ASSUME NEW r \in Requests, Abandon(r) PROVE LedgerInv'
  BY <1>0, <1>1, <1>3, Continuing, RequestKept DEF Abandon
<1> QED
  BY <1>2, <1>3 DEF Misfortune

\* LedgerInv holds of the empty database.
LEMMA LedgerInit == Init => LedgerInv
<1> SUFFICES ASSUME Init PROVE LedgerInv
  OBVIOUS
<1>1. TableInv
  BY ConstantsOK, NullsOK
  DEF Init, TableInv, SucceededIsRecorded, RecordedIsFiled, OwnedIsRecorded, OneFirstImport
<1>2. /\ \A w \in Workers : run[w].pc = "idle" /\ run[w].found = {}
      /\ \A r \in Requests : req[r].pc = "idle" /\ req[r].found = {}
  BY DEF Init, IdleRun, IdleReq
<1>3. RunReady /\ RetryPrior /\ FoundRecorded
  BY <1>2 DEF RunReady, RetryPrior, FoundRecorded, Filed, RetrySteps
<1> QED
  BY <1>1, <1>3 DEF LedgerInv

\* LedgerInv is inductive, given the types.
LEMMA LedgerStep ==
  TypeOK /\ LedgerInv /\ [Next]_vars => LedgerInv'
<1> SUFFICES ASSUME TypeOK, LedgerInv, [Next]_vars PROVE LedgerInv'
  OBVIOUS
<1>1. CASE Next
  BY <1>1, WorkerLedger, RequestLedger, UserLedger, MisfortuneLedger DEF Next
<1>2. CASE UNCHANGED vars
  BY <1>2, TablesKept, RunStill DEF vars, LedgerInv, RetryPrior, FoundRecorded, Grows
<1> QED
  BY <1>1, <1>2

\* LedgerInv holds throughout.
LEMMA LedgerInvariant == Spec => [](TypeOK /\ LedgerInv)
<1> QED
  BY TypeCorrect, LedgerInit, LedgerStep, PTL DEF Spec

\* A succeeded job's video is in the ledger, or the job skipped its import.
THEOREM SuccessRecorded == Spec => []SucceededIsRecorded
<1>1. LedgerInv => SucceededIsRecorded
  BY DEF LedgerInv, TableInv
<1> QED
  BY <1>1, LedgerInvariant, PTL

\* A job the ledger names has its file in the library, whatever crashes.
THEOREM RecordFiled == Spec => []RecordedIsFiled
<1>1. LedgerInv => RecordedIsFiled
  BY DEF LedgerInv, TableInv
<1> QED
  BY <1>1, LedgerInvariant, PTL

\* Of the jobs that may not re-import, one at most imports a video, with any
\* number of workers, requests, retries and crashes.
THEOREM FirstImportUnique == Spec => []OneFirstImport
<1>1. LedgerInv => OneFirstImport
  BY DEF LedgerInv, TableInv
<1> QED
  BY <1>1, LedgerInvariant, PTL

-----------------------------------------------------------------------------
(* The refinement of DedupLedger *)

\* A step maps to a step of the ledger's specification or leaves it alone.
LEMMA LedgerMapped ==
  ASSUME TypeOK, LedgerInv, [Next]_vars
  PROVE  [Ledger!Next]_(Ledger!vars)
<1> USE DEF Ledger!vars
<1>0. /\ TypeRows /\ TableInv
      /\ \A w \in Workers : /\ run[w].pc # "idle" => run[w].job \in Jobs
                            /\ run[w].pc \in Filed => run[w].job \in library
  BY DEF TypeOK, TypeRun, LedgerInv, RunReady
<1>1. ASSUME NEW w \in Workers, DryRun(w) \/ CommitOutput(w)
      PROVE  [Ledger!Next]_(Ledger!vars)
  <2>1. run[w].job \in Jobs /\ Ledger!File(run[w].job)
    BY <1>0, <1>1 DEF DryRun, CommitOutput, At, dbvars, Ledger!File
  <2> QED
    BY <2>1 DEF Ledger!Next
<1>2. ASSUME NEW w \in Workers, MarkImported(w)
      PROVE  [Ledger!Next]_(Ledger!vars)
  <2> DEFINE j == run[w].job
  <2>1. j \in Jobs /\ j \in library
    BY <1>0, <1>2 DEF MarkImported, At, Filed
  <2>2. CASE ledger[VideoOf[j]] = NoRow
    <3>1. Ledger!Import(j)
      BY <1>2, <2>1, <2>2 DEF MarkImported, Ledger!Import
    <3> QED
      BY <2>1, <3>1 DEF Ledger!Next
  <2>3. CASE ledger[VideoOf[j]] # NoRow /\ j \in Reimport
    <3>1. Ledger!ImportAgain(j)
      BY <1>2, <2>1, <2>3 DEF MarkImported, Ledger!ImportAgain
    <3> QED
      BY <2>1, <3>1 DEF Ledger!Next
  <2>4. CASE ledger[VideoOf[j]] # NoRow /\ j \notin Reimport
    BY <1>2, <2>4 DEF MarkImported
  <2> QED
    BY <2>2, <2>3, <2>4
<1>3. ASSUME NEW w \in Workers, WorkerStep(w),
             ~DryRun(w), ~CommitOutput(w), ~MarkImported(w)
      PROVE  UNCHANGED <<ledger, library>>
  <2>1. CASE Recover(w)
    BY <1>0, <2>1, LedgerReconciled DEF Recover
  <2>2. CASE \E c, inserts : TakeClaim(w, c, inserts)
    BY <2>2 DEF TakeClaim
  <2>3. CASE ExpireAndTake(w) \/ InsertClaim(w) \/ UpdateClaim(w)
    BY <2>3, <2>2 DEF ExpireAndTake, InsertClaim, UpdateClaim
  <2>4. CASE ~Recover(w) /\ ~(ExpireAndTake(w) \/ InsertClaim(w) \/ UpdateClaim(w))
    BY <1>3, <2>4 DEF WorkerStep, Dequeue, LookForRecovery, JudgeForRecovery,
       RecoverFails, Begin, CheckLedger, LookForClaim, JudgeForClaim, SkipExisting,
       DryRunCheck, StartStages, EnterStage, FinishStage, StartCommit, MarkCommitted,
       CheckCommitted, StartScan, FinishScan, Cleanup, Succeed, HandleFailure,
       HandleCancel, ReleaseClaim, DropClaim, Close, LoseRow, dbvars
  <2> QED
    BY <2>1, <2>3, <2>4
<1>4. ASSUME NEW r \in Requests, RequestStep(r)
      PROVE  UNCHANGED <<ledger, library>>
  <2>1. ReconciledLedger = ledger
    BY <1>0, LedgerReconciled
  <2>2. ASSUME NEW c, NEW inserts, TakeAndRequeue(r, c, inserts)
        PROVE  UNCHANGED <<ledger, library>>
    BY <2>2 DEF TakeAndRequeue
  <2>3. CASE RetryExpire(r) \/ RetryUpdate(r)
    BY <2>3, <2>2 DEF RetryExpire, RetryUpdate
  <2>4. CASE ~(RetryExpire(r) \/ RetryUpdate(r))
    BY <1>4, <2>1, <2>4 DEF RequestStep, JudgeForRequest, Submit, BeginBatch,
       SubmitEntry, EnqueueSubmitted, SubmitEnqueueFails, FailSubmitted, RecordQueued,
       CancelWrite, CancelRelease, CancelDrop, LookForRetry, JudgeForRetry, RetryInsert,
       RetryRequeue, EnqueueRetry, RetryEnqueueFails, RetryRestore, dbvars
  <2> QED
    BY <2>3, <2>4
<1>5. ASSUME NEW r \in Requests,
             \/ LookForBatch(r)
             \/ \E j \in Jobs : \/ LookForSubmit(r, j) \/ LookForEntry(r, j)
                                \/ CancelCheck(r, j) \/ RetryCheck(r, j)
      PROVE  UNCHANGED <<ledger, library>>
  BY <1>5 DEF LookForBatch, LookForSubmit, LookForEntry, CancelCheck, RetryCheck, dbvars
<1>6. ASSUME NEW j \in Jobs, Delete(j)
      PROVE  [Ledger!Next]_(Ledger!vars)
  <2>1. /\ ledger' = [v \in Videos |-> IF ledger[v] = j THEN Severed ELSE ledger[v]]
        /\ library' = library
    BY <1>6 DEF Delete
  <2>2. VideoOf[j] \in Videos /\ \A v \in Videos : ledger[v] = j => v = VideoOf[j]
    BY <1>0, ConstantsOK DEF TableInv, RecordedIsFiled
  <2>3. CASE ledger[VideoOf[j]] = j
    <3>1. ledger' = [ledger EXCEPT ![VideoOf[j]] = Severed]
      BY <1>0, <2>1, <2>2, <2>3 DEF TypeRows
    <3>2. Ledger!Sever(j)
      BY <2>1, <2>3, <3>1 DEF Ledger!Sever
    <3> QED
      BY <3>2 DEF Ledger!Next
  <2>4. CASE ledger[VideoOf[j]] # j
    <3>1. ledger' = ledger
      BY <1>0, <2>1, <2>2, <2>4 DEF TypeRows
    <3> QED
      BY <2>1, <3>1
  <2> QED
    BY <2>3, <2>4
<1>7. CASE Misfortune
  BY <1>7 DEF Misfortune, BeginFails, FailRun, FailChecked, Crash, Abandon, dbvars
<1>8. CASE UNCHANGED vars
  BY <1>8 DEF vars
<1>9. CASE UserStep
  BY <1>5, <1>6, <1>9 DEF UserStep
<1>10. CASE \E w \in Workers : WorkerStep(w)
  BY <1>1, <1>2, <1>3, <1>10
<1>11. CASE \E r \in Requests : RequestStep(r)
  BY <1>4, <1>11
<1> QED
  BY <1>7, <1>8, <1>9, <1>10, <1>11 DEF Next

\* The workers, requests, retries and recoveries together keep the promises of
\* DedupLedger: they implement it.
THEOREM LedgerImplemented == Spec => LedgerKept
<1>1. Init => Ledger!Init
  BY DEF Init, Ledger!Init
<1>2. TypeOK /\ LedgerInv /\ [Next]_vars => [Ledger!Next]_(Ledger!vars)
  BY LedgerMapped
<1> QED
  BY <1>1, <1>2, LedgerInvariant, PTL DEF Spec, LedgerKept, Ledger!Spec

-----------------------------------------------------------------------------
(* No job is forgotten *)

Waiting(t, j) == task[t].where = "queued" /\ task[t].job = j

\* A run has the task it was started with to itself.
OwnTask ==
    \A w \in Workers : run[w].pc # "idle" =>
        task[run[w].task].where = "running" /\ task[run[w].task].job = run[w].job

Recovering == {"recover", "recoverJudge", "recoverWrite"}
Releasing == {"release", "drop", "closing"}

\* A task that bears the id stored for a job is that job's, while it lasts.
Names(t, j) ==
    /\ task[t].where # "free"
    /\ task[t].where \in {"queued", "running"} => task[t].job = j

NamesTask ==
    /\ \A j \in Jobs : rqid[j] \in Tasks => Names(rqid[j], j)
    /\ \A r \in Requests : req[r].pc = "recordQueued" =>
          req[r].task \in Tasks /\ Names(req[r].task, req[r].job)

\* No two runs have one task.
OneTask ==
    \A w, x \in Workers :
        /\ run[w].pc # "idle" /\ run[x].pc # "idle"
        /\ run[w].task = run[x].task
        => w = x

\* A run that only has its claim to release has written its end; a worker without a
\* run holds no job.
EndWritten ==
    \A w \in Workers :
        run[w].pc \in {"idle"} \cup Releasing => run[w].mem \notin Active

HandInv == OwnTask /\ OneTask /\ NamesTask /\ EndWritten

\* No row becomes active.
NoneWakes == \A j \in Jobs : status'[j] \in Active => status[j] \in Active

\* A run goes on within its task.  What it leaves active it holds as active, unless
\* it has not touched the status and did not go by it.
Proceeds(w) ==
    /\ UNCHANGED <<task, req, rqid>>
    /\ run[w].pc # "idle"
    /\ run'[w].pc # "idle"
    /\ run'[w].job = run[w].job /\ run'[w].task = run[w].task
    /\ \A x \in Workers : x # w => run'[x] = run[x]
    /\ run'[w].pc \in Releasing => run'[w].mem \notin Active
    /\ \A j \in Jobs \ {run[w].job} : status'[j] \in Active => status[j] \in Active
    /\ status'[run[w].job] \in Active =>
          \/ Pursuing(w, run[w].job)'
          \/ status[run[w].job] \in Active /\ ~Pursuing(w, run[w].job)

\* A run ends: its job is no longer active, or it did not go by that.
Ends(w) ==
    /\ EndTask(w)
    /\ run[w].pc # "idle"
    /\ UNCHANGED <<req, rqid>>
    /\ NoneWakes
    /\ status'[run[w].job] \notin Active \/ ~Pursuing(w, run[w].job)

\* Recovery makes no row active.
LEMMA ReconciledWakes ==
  ASSUME NEW x, status' = ReconciledStatus(x)
  PROVE  NoneWakes
  BY DEF NoneWakes, ReconciledStatus, Active

\* A write of the status.
LEMMA WriteProceeds ==
  ASSUME TypeOK, NEW w \in Workers, run[w].pc \notin {"idle"} \cup Recovering,
         NEW s \in Status, NEW ph, NEW pc \in RunStep \ {"idle"}, WriteJob(w, s, ph, pc),
         pc \in Releasing => s \notin Active,
         UNCHANGED <<task, req, rqid>>
  PROVE  Proceeds(w)
<1>1. /\ run \in [Workers -> RunType] /\ status \in [Jobs -> Status]
      /\ run[w].job \in Jobs
  BY DEF TypeOK, TypeRun, TypeRows
<1>2. /\ run'[w].pc = pc /\ run'[w].mem = s
      /\ run'[w].job = run[w].job /\ run'[w].task = run[w].task
      /\ \A x \in Workers : x # w => run'[x] = run[x]
  BY <1>1 DEF WriteJob, RunType
<1>3. \A j \in Jobs \ {run[w].job} : status'[j] = status[j]
  BY <1>1 DEF WriteJob
<1>4. CASE s \in Active
  BY <1>2, <1>3, <1>4 DEF Proceeds, Pursuing
<1>5. CASE s \notin Active
  <2>1. \/ status'[run[w].job] = s
        \/ status' = status /\ run[w].mem = s
    BY <1>1 DEF WriteJob
  <2> QED
    BY <1>2, <1>3, <1>5, <2>1 DEF Proceeds, Pursuing, Recovering
<1> QED
  BY <1>4, <1>5

\* A check loads the status.
LEMMA CheckProceeds ==
  ASSUME TypeOK, NEW w \in Workers, run[w].pc # "idle",
         NEW pc \in RunStep \ ({"idle"} \cup Releasing), NEW stage,
         CheckThen(w, pc, stage), UNCHANGED <<dbvars, task, req>>
  PROVE  Proceeds(w)
<1>1. run \in [Workers -> RunType] /\ run[w].job \in Jobs
  BY DEF TypeOK, TypeRun
<1>2. /\ run'[w].pc \in {pc, "cancelling"} /\ run'[w].mem = status[run[w].job]
      /\ run'[w].job = run[w].job /\ run'[w].task = run[w].task
      /\ \A x \in Workers : x # w => run'[x] = run[x]
  BY <1>1 DEF CheckThen, RunType
<1> QED
  BY <1>2 DEF Proceeds, Pursuing, Releasing, dbvars

\* Another step of a run leaves the status and what the run holds of it.
LEMMA StepProceeds ==
  ASSUME TypeOK, EndWritten, NEW w \in Workers, run[w].pc # "idle", run'[w].pc # "idle",
         run'[w].mem = run[w].mem,
         run'[w].job = run[w].job, run'[w].task = run[w].task,
         \A x \in Workers : x # w => run'[x] = run[x],
         run[w].pc \in Recovering => run'[w].pc \in Recovering,
         run'[w].pc \in Releasing => run[w].pc \in Releasing,
         UNCHANGED <<status, task, req, rqid>>
  PROVE  Proceeds(w)
  BY DEF Proceeds, Pursuing, EndWritten, Recovering

\* A move within a run that leaves the rows alone.
LEMMA GotoProceeds ==
  ASSUME TypeOK, EndWritten, NEW w \in Workers, run[w].pc \notin {"idle"} \cup Recovering,
         NEW pc \in RunStep \ {"idle"}, Goto(w, pc),
         pc \in Releasing => run[w].pc \in Releasing,
         UNCHANGED <<status, task, req, rqid>>
  PROVE  Proceeds(w)
<1>1. /\ run'[w].pc = pc /\ run'[w].mem = run[w].mem
      /\ run'[w].job = run[w].job /\ run'[w].task = run[w].task
      /\ \A x \in Workers : x # w => run'[x] = run[x]
  BY DEF Goto, RunType, TypeOK, TypeRun
<1> QED
  BY <1>1, StepProceeds

\* The session has read something.
LEMMA SeenProceeds ==
  ASSUME TypeOK, EndWritten, NEW w \in Workers, run[w].pc # "idle",
         NEW pc \in RunStep \ ({"idle"} \cup Releasing), NEW seen, NEW found,
         \/ run' = [run EXCEPT ![w].seen = seen, ![w].pc = pc]
         \/ run' = [run EXCEPT ![w].seen = seen, ![w].found = found, ![w].pc = pc],
         run[w].pc \in Recovering => pc \in Recovering,
         UNCHANGED <<status, task, req, rqid>>
  PROVE  Proceeds(w)
<1>0. run \in [Workers -> RunType]
  BY DEF TypeOK, TypeRun
<1>1. /\ run'[w].pc = pc /\ run'[w].mem = run[w].mem
      /\ run'[w].job = run[w].job /\ run'[w].task = run[w].task
      /\ \A x \in Workers : x # w => run'[x] = run[x]
  BY <1>0 DEF RunType
<1> QED
  BY <1>1, StepProceeds

\* What a worker's step makes of its run.
LEMMA WorkerProceeds ==
  ASSUME TypeOK, EndWritten, NEW w \in Workers, WorkerStep(w)
  PROVE  \/ Proceeds(w) \/ Ends(w) \/ RecoverFails(w)
         \/ \E t \in Tasks : Dequeue(w, t)
<1>0. /\ run \in [Workers -> RunType]
      /\ {"dedup", "claim", "claimJudge", "claimExpire", "claimInsert", "claimUpdate",
          "failing", "setup", "enter", "work", "publish", "commit", "filed", "landed",
          "scan", "scanned", "tidy", "dryCheck", "record", "succeed"}
            \subseteq RunStep \ ({"idle"} \cup Recovering \cup Releasing)
      /\ Releasing \cup Recovering \subseteq RunStep \ {"idle"}
      /\ Releasing \cap Recovering = {}
      /\ {"running", "succeeded", "scanning", "failed", "cancelled"} \subseteq Status
      /\ \A s \in {"succeeded", "failed", "cancelled"} : s \notin Active
  BY DEF TypeOK, TypeRun, RunStep, Status, Active, Terminal, Recovering, Releasing
<1>1. CASE Recover(w)
  <2>1. /\ NoneWakes /\ UNCHANGED <<req, rqid>> /\ run[w].pc # "idle"
        /\ run[w].job \in Jobs
    BY <1>1, ReconciledWakes DEF Recover, At, TypeOK, TypeRun
  <2>2. CASE Present(run[w].job)
    <3>1. /\ run' = [run EXCEPT ![w] = [IdleRun EXCEPT !.job = run[w].job,
                          !.task = run[w].task, !.pc = "begin",
                          !.mem = status'[run[w].job]]]
          /\ UNCHANGED task
      BY <1>1, <2>2 DEF Recover
    <3>2. /\ run'[w].pc = "begin" /\ run'[w].mem = status'[run[w].job]
          /\ run'[w].job = run[w].job /\ run'[w].task = run[w].task
          /\ \A x \in Workers : x # w => run'[x] = run[x]
      BY <1>0, <3>1 DEF IdleRun
    <3> QED
      BY <2>1, <3>1, <3>2 DEF Proceeds, Pursuing, NoneWakes, Releasing
  <2>3. CASE ~Present(run[w].job)
    <3>1. status[run[w].job] \notin Active
      BY <2>3 DEF Present, Active
    <3> QED
      BY <1>1, <2>1, <2>3, <3>1 DEF Recover, Ends, NoneWakes
  <2> QED
    BY <2>2, <2>3
<1>2. CASE LookForRecovery(w) \/ JudgeForRecovery(w)
  <2>1. /\ run[w].pc \in Recovering /\ UNCHANGED <<status, task, req, rqid>>
        /\ \E pc \in Recovering : \E seen, found :
              \/ run' = [run EXCEPT ![w].seen = seen, ![w].pc = pc]
              \/ run' = [run EXCEPT ![w].seen = seen, ![w].found = found, ![w].pc = pc]
    BY <1>2 DEF LookForRecovery, JudgeForRecovery, At, Recovering, dbvars
  <2> QED
    BY <1>0, <2>1, SeenProceeds
<1>3. CASE \/ Begin(w) \/ SkipExisting(w) \/ StartScan(w) \/ Succeed(w) \/ HandleFailure(w)
           \/ HandleCancel(w)
  <2>1. /\ run[w].pc \notin {"idle"} \cup Recovering /\ UNCHANGED <<task, req, rqid>>
        /\ \/ WriteJob(w, "running", "work", "dedup")
           \/ WriteJob(w, "succeeded", "skipped_collision", "release")
           \/ WriteJob(w, "scanning", "work", "scanned")
           \/ WriteJob(w, "succeeded", "work", "release")
           \/ WriteJob(w, "failed", "work", "release")
           \/ WriteJob(w, "cancelled", "work", "release")
    BY <1>3 DEF Begin, SkipExisting, StartScan, Succeed, HandleFailure, HandleCancel, At,
       Recovering
  <2>2. "release" \in RunStep \ {"idle"}
    BY DEF RunStep
  <2> QED
    BY <1>0, <2>1, <2>2, WriteProceeds
<1>4. CASE EnterStage(w)
  <2>1. StageStatus[run[w].stage] \in Status
    <3>1. run[w].stage \in 1 .. 4
      BY <1>4, ConstantsOK DEF EnterStage, At, TypeOK, TypeRun
    <3> QED
      BY <3>1 DEF StageStatus, Status, Active
  <2> QED
    BY <1>0, <1>4, <2>1, WriteProceeds DEF EnterStage, At, Recovering
<1>5. CASE DryRunCheck(w) \/ StartStages(w) \/ FinishStage(w) \/ CheckCommitted(w) \/ FinishScan(w)
  <2>1. /\ run[w].pc # "idle" /\ UNCHANGED <<dbvars, task, req>>
        /\ \/ CheckThen(w, "record", 0) \/ CheckThen(w, "enter", 1)
           \/ CheckThen(w, "enter", run[w].stage + 1) \/ CheckThen(w, "publish", 0)
           \/ CheckThen(w, "tidy", 0) \/ CheckThen(w, "scan", 0)
    BY <1>5 DEF DryRunCheck, StartStages, FinishStage, CheckCommitted, FinishScan, At
  <2> QED
    BY <1>0, <2>1, CheckProceeds
<1>6. CASE \/ CheckLedger(w) \/ DryRun(w) \/ StartCommit(w) \/ CommitOutput(w)
           \/ MarkCommitted(w) \/ Cleanup(w) \/ MarkImported(w)
  <2>1. /\ run[w].pc \notin {"idle"} \cup Recovering
        /\ UNCHANGED <<status, task, req, rqid>>
        /\ \E pc \in {"failing", "claim", "dryCheck", "commit", "filed", "landed",
                      "record", "succeed"} : Goto(w, pc)
    BY <1>6 DEF CheckLedger, DryRun, StartCommit, CommitOutput, MarkCommitted,
       Cleanup, MarkImported, At, Recovering, dbvars
  <2> QED
    BY <1>0, <2>1, GotoProceeds
<1>7. CASE ReleaseClaim(w) \/ DropClaim(w)
  <2>1. /\ run[w].pc \in Releasing /\ UNCHANGED <<status, task, req, rqid>>
        /\ \E pc \in Releasing : Goto(w, pc)
    BY <1>7 DEF ReleaseClaim, DropClaim, At, Releasing, dbvars
  <2> QED
    BY <1>0, <2>1, GotoProceeds
<1>8. ASSUME NEW c, NEW inserts, run[w].pc \notin {"idle"} \cup Recovering,
             TakeClaim(w, c, inserts)
      PROVE  Proceeds(w)
  <2>1. /\ UNCHANGED <<status, task, req, rqid>>
        /\ \E pc \in {"setup", "failing"} :
              run' = [run EXCEPT ![w].seen = NoClaims, ![w].pc = pc]
    BY <1>8 DEF TakeClaim
  <2> QED
    BY <1>0, <1>8, <2>1, SeenProceeds
<1>9. CASE ExpireAndTake(w) \/ InsertClaim(w) \/ UpdateClaim(w)
  BY <1>8, <1>9 DEF ExpireAndTake, InsertClaim, UpdateClaim, At, Recovering
<1>10. CASE LookForClaim(w) \/ JudgeForClaim(w)
  <2>1. /\ run[w].pc \notin {"idle"} \cup Recovering /\ UNCHANGED <<status, task, req, rqid>>
        /\ \E pc \in {"claimJudge", "claimExpire", "claimInsert", "claimUpdate"} :
           \E seen :
              run' = [run EXCEPT ![w].seen = seen, ![w].pc = pc]
    BY <1>10 DEF LookForClaim, JudgeForClaim, At, Recovering, dbvars
  <2> QED
    BY <1>0, <2>1, SeenProceeds
<1>11. CASE Close(w)
  BY <1>11 DEF Close, Ends, At, NoneWakes, EndWritten, Pursuing, Releasing, dbvars
<1>12. CASE LoseRow(w)
  BY <1>12 DEF LoseRow, Ends, Present, Active, RowSteps, NoneWakes, dbvars
<1> QED
  BY <1>1, <1>2, <1>3, <1>4, <1>5, <1>6, <1>7, <1>9, <1>10, <1>11, <1>12 DEF WorkerStep

\* What may befall a run, short of its worker's death.
LEMMA FailureProceeds ==
  ASSUME TypeOK, EndWritten, NEW w \in Workers,
         BeginFails(w) \/ FailRun(w) \/ FailChecked(w)
  PROVE  Proceeds(w) \/ Ends(w)
<1>0. /\ run \in [Workers -> RunType]
      /\ "failing" \in RunStep \ ({"idle"} \cup Recovering \cup Releasing)
  BY DEF TypeOK, TypeRun, RunStep, Recovering, Releasing
<1>1. CASE BeginFails(w)
  <2>1. CASE run[w].mem = "cancelled"
    BY <1>1, <2>1 DEF BeginFails, Ends, At, NoneWakes, Pursuing, Active, dbvars
  <2>2. CASE run[w].mem # "cancelled"
    BY <1>0, <1>1, <2>2, GotoProceeds DEF BeginFails, At, Recovering, dbvars
  <2> QED
    BY <2>1, <2>2
<1>2. CASE FailRun(w)
  <2>1. run[w].pc \notin {"idle"} \cup Recovering /\ UNCHANGED <<dbvars, task, req>>
    BY <1>2 DEF FailRun, TrySteps, Recovering
  <2>2. /\ run'[w].pc = "failing" /\ run'[w].mem = run[w].mem
        /\ run'[w].job = run[w].job /\ run'[w].task = run[w].task
        /\ \A x \in Workers : x # w => run'[x] = run[x]
    BY <1>0, <1>2 DEF FailRun, RunType
  <2> QED
    BY <1>0, <2>1, <2>2, StepProceeds DEF dbvars
<1>3. CASE FailChecked(w)
  BY <1>0, <1>3, CheckProceeds DEF FailChecked, At
<1> QED
  BY <1>1, <1>2, <1>3

\* A run goes on: nothing of the tasks changes.
LEMMA ProceedsInv ==
  ASSUME TypeOK, HandInv, NEW w \in Workers, Proceeds(w)
  PROVE  HandInv'
<1>1. OwnTask' /\ OneTask'
  BY DEF HandInv, OwnTask, OneTask, Proceeds
<1>2. NamesTask'
  BY DEF HandInv, NamesTask, Names, Proceeds
<1>3. EndWritten'
  BY DEF HandInv, EndWritten, Proceeds
<1> QED
  BY <1>1, <1>2, <1>3 DEF HandInv

\* A run is over: its task is spent or waits again.
LEMMA OverInv ==
  ASSUME TypeOK, HandInv, NEW w \in Workers, run[w].pc # "idle",
         run' = [run EXCEPT ![w] = IdleRun],
         NEW d, task' = [task EXCEPT ![run[w].task] = d],
         d.where \in {"queued", "over"}, d.where = "queued" => d.job = run[w].job,
         UNCHANGED <<req, rqid>>
  PROVE  HandInv'
<1>t. PICK t \in Tasks : t = run[w].task
  BY DEF TypeOK, TypeRun
<1>0. /\ run'[w].pc = "idle" /\ \A x \in Workers : x # w => run'[x] = run[x]
      /\ task'[t] = d /\ \A u \in Tasks : u # t => task'[u] = task[u]
      /\ run'[w].mem \notin Active
  BY <1>t DEF TypeOK, TypeRun, TypeTask, IdleRun, Active
<1>1. OneTask' /\ EndWritten'
  BY <1>0 DEF HandInv, OneTask, EndWritten
<1>2. OwnTask'
  <2> SUFFICES ASSUME NEW x \in Workers, run'[x].pc # "idle"
               PROVE  task'[run'[x].task].where = "running" /\ task'[run'[x].task].job = run'[x].job
    BY DEF OwnTask
  <2>1. x # w /\ run'[x] = run[x]
    BY <1>0
  <2>2. run[x].task \in Tasks /\ run[x].task # t
    BY <1>t, <2>1 DEF HandInv, OneTask, TypeOK, TypeRun
  <2> QED
    BY <1>0, <2>1, <2>2 DEF HandInv, OwnTask
<1>3. ASSUME NEW u \in Tasks, NEW j, Names(u, j) PROVE Names(u, j)'
  <2>1. CASE u = t
    BY <1>t, <1>0, <1>3, <2>1 DEF Names, HandInv, OwnTask
  <2>2. CASE u # t
    BY <1>0, <1>3, <2>2 DEF Names
  <2> QED
    BY <2>1, <2>2
<1>4. NamesTask'
  BY <1>3 DEF HandInv, NamesTask
<1> QED
  BY <1>1, <1>2, <1>4 DEF HandInv

\* The end of a run frees its task.
LEMMA EndsInv ==
  ASSUME TypeOK, HandInv, NEW w \in Workers, Ends(w)
  PROVE  HandInv'
<1>1. SpentTask.where = "over"
  BY DEF SpentTask, FreeTask
<1> QED
  BY <1>1, OverInv DEF Ends, EndTask

\* A recovery that fails ends its run.
LEMMA RecoverFailsInv ==
  ASSUME TypeOK, HandInv, NEW w \in Workers, RecoverFails(w)
  PROVE  HandInv'
<1>1. SpentTask.where = "over"
  BY DEF SpentTask, FreeTask
<1> QED
  BY <1>1, OverInv DEF RecoverFails, EndTask, At, dbvars

\* A death gives the task back, or spends it.
LEMMA CrashInv ==
  ASSUME TypeOK, HandInv, NEW w \in Workers, Crash(w)
  PROVE  HandInv'
<1> DEFINE t == run[w].task
           d == IF task[t].left > 0
                THEN [job |-> run[w].job, where |-> "queued", left |-> task[t].left - 1]
                ELSE SpentTask
<1>1. d.where \in {"queued", "over"} /\ (d.where = "queued" => d.job = run[w].job)
  BY DEF SpentTask, FreeTask
<1>2. task' = [task EXCEPT ![t] = d]
  BY DEF Crash, TypeOK, TypeRun, TypeTask
<1> HIDE DEF d
<1> QED
  BY <1>1, <1>2, OverInv DEF Crash, dbvars

\* A task on the queue is nobody's when a worker takes it.
LEMMA DequeueInv ==
  ASSUME TypeOK, HandInv, NEW w \in Workers, NEW t \in Tasks, Dequeue(w, t)
  PROVE  HandInv'
<1>0. /\ run'[w].pc = "recover" /\ run'[w].job = task[t].job /\ run'[w].task = t
      /\ \A x \in Workers : x # w => run'[x] = run[x]
      /\ task'[t].where = "running" /\ task'[t].job = task[t].job
      /\ \A u \in Tasks : u # t => task'[u] = task[u]
      /\ task[t].where = "queued"
      /\ UNCHANGED <<req, rqid>>
  <2>1. DOMAIN run = Workers /\ DOMAIN task = Tasks /\ DOMAIN task[t] = {"job", "where", "left"}
    BY DEF TypeOK, TypeRun, TypeTask, TaskType
  <2>2. /\ run' = [run EXCEPT ![w] = [IdleRun EXCEPT !.job = task[t].job, !.task = t,
                                                    !.pc = "recover"]]
        /\ task' = [task EXCEPT ![t].where = "running"]
        /\ task[t].where = "queued"
        /\ UNCHANGED <<req, rqid>>
    BY DEF Dequeue, dbvars
  <2>3. run'[w].pc = "recover" /\ run'[w].job = task[t].job /\ run'[w].task = t
    BY <2>1, <2>2 DEF IdleRun
  <2>4. /\ \A x \in Workers : x # w => run'[x] = run[x]
        /\ task'[t].where = "running" /\ task'[t].job = task[t].job
        /\ \A u \in Tasks : u # t => task'[u] = task[u]
    BY <2>1, <2>2
  <2> QED
    BY <2>2, <2>3, <2>4
<1>1. \A x \in Workers : run[x].pc # "idle" => run[x].task \in Tasks /\ run[x].task # t
  BY <1>0 DEF HandInv, OwnTask, TypeOK, TypeRun
<1>2. OneTask' /\ OwnTask' /\ EndWritten'
  BY <1>0, <1>1 DEF HandInv, OneTask, OwnTask, EndWritten, Releasing
<1>3. \A j : \A u \in Tasks : Names(u, j) => Names(u, j)'
  BY <1>0 DEF Names
<1>4. NamesTask'
  BY <1>0, <1>3 DEF HandInv, NamesTask
<1> QED
  BY <1>2, <1>4 DEF HandInv

\* A new task is in no run and bears no id stored.
LEMMA EnqueueInv ==
  ASSUME TypeOK, HandInv, NEW r \in Requests, NEW t \in Tasks, Enqueue(t, req[r].job),
         req' = [req EXCEPT ![r].pc = "recordQueued", ![r].task = t],
         UNCHANGED <<run, rqid>>
  PROVE  HandInv'
<1>0. /\ task[t].where = "free" /\ task'[t].where = "queued" /\ task'[t].job = req[r].job
      /\ \A u \in Tasks : u # t => task'[u] = task[u]
      /\ req'[r].pc = "recordQueued" /\ req'[r].task = t /\ req'[r].job = req[r].job
      /\ \A q \in Requests : q # r => req'[q] = req[q]
  BY DEF Enqueue, TypeOK, TypeReq, ReqType, TypeTask
<1>1. \A x \in Workers : run[x].pc # "idle" => run[x].task \in Tasks /\ run[x].task # t
  BY <1>0 DEF HandInv, OwnTask, TypeOK, TypeRun
<1>2. OneTask' /\ OwnTask' /\ EndWritten'
  BY <1>0, <1>1 DEF HandInv, OneTask, OwnTask, EndWritten
<1>3. \A j : \A u \in Tasks : Names(u, j) => Names(u, j)'
  BY <1>0 DEF Names
<1>4. Names(t, req[r].job)'
  BY <1>0 DEF Names
<1>5. NamesTask'
  BY <1>0, <1>3, <1>4 DEF HandInv, NamesTask
<1> QED
  BY <1>2, <1>5 DEF HandInv

\* A step that leaves runs and tasks alone, and stores no id but one that names its task.
LEMMA StillInv ==
  ASSUME TypeOK, HandInv, UNCHANGED <<run, task>>,
         \A j \in Jobs : rqid'[j] \in Tasks => rqid'[j] = rqid[j] \/ Names(rqid'[j], j),
         \A r \in Requests : req'[r].pc = "recordQueued" => req'[r] = req[r]
  PROVE  HandInv'
<1>1. \A u, j : Names(u, j)' <=> Names(u, j)
  BY DEF Names
<1>2. NamesTask'
  BY <1>1 DEF HandInv, NamesTask
<1>3. OneTask' /\ OwnTask' /\ EndWritten'
  BY DEF HandInv, OneTask, OwnTask, EndWritten
<1> QED
  BY <1>2, <1>3 DEF HandInv

\* The steps of a request.
LEMMA RequestInv ==
  ASSUME TypeOK, HandInv, NEW r \in Requests, RequestStep(r)
  PROVE  HandInv'
<1>0. /\ req \in [Requests -> ReqType] /\ IdleReq.pc = "idle"
      /\ rqid \in [Jobs -> Tasks \cup {NoTask}]
  BY DEF TypeOK, TypeReq, TypeRows, IdleReq
<1>1. CASE EnqueueSubmitted(r) \/ EnqueueRetry(r)
  BY <1>1, EnqueueInv DEF EnqueueSubmitted, EnqueueRetry, dbvars
<1>2. CASE RecordQueued(r)
  <2>1. Names(req[r].task, req[r].job)
    BY <1>2 DEF RecordQueued, HandInv, NamesTask
  <2>2. \A j \in Jobs : rqid'[j] = rqid[j] \/ Names(rqid'[j], j)
    BY <1>0, <1>2, <2>1 DEF RecordQueued
  <2>3. \A q \in Requests : req'[q].pc = "recordQueued" => req'[q] = req[q]
    BY <1>0, <1>2 DEF RecordQueued, Respond
  <2> QED
    BY <1>2, <2>2, <2>3, StillInv DEF RecordQueued
<1>3. ASSUME UNCHANGED <<run, task, rqid>>, \A q \in Requests : q # r => req'[q] = req[q],
             req'[r].pc # "recordQueued"
      PROVE  HandInv'
  BY <1>3, StillInv
<1>4. CASE Respond(r) /\ UNCHANGED <<run, task, rqid>>
  BY <1>0, <1>3, <1>4 DEF Respond
<1>5. ASSUME NEW pc \in ReqStep, pc # "recordQueued", UNCHANGED <<run, task, rqid>>,
             \/ Proceed(r, pc)
             \/ \E seen : req' = [req EXCEPT ![r].seen = seen, ![r].pc = pc]
             \/ \E seen, found : req' = [req EXCEPT ![r].seen = seen, ![r].pc = pc,
                                                    ![r].found = found]
      PROVE  HandInv'
  BY <1>0, <1>3, <1>5 DEF Proceed, ReqType
<1>6. ASSUME NEW s, NEW c, Create(r, s, c), UNCHANGED <<run, task, rqid>> PROVE HandInv'
  <2>1. CASE Respond(r)
    BY <1>4, <1>6, <2>1
  <2>2. CASE req' = [req EXCEPT ![r] = Begun(req[r].job, "submitEnqueue")]
    BY <1>0, <1>3, <1>6, <2>2 DEF Begun, IdleReq
  <2> QED
    BY <1>6, <2>1, <2>2 DEF Create
<1>7. CASE JudgeForRequest(r)
  <2>1. UNCHANGED <<run, task, rqid>>
    BY <1>7 DEF JudgeForRequest, dbvars
  <2>2. \/ Respond(r)
        \/ \E pc \in {"batch", "submit"} : \E seen, found :
              req' = [req EXCEPT ![r].seen = seen, ![r].pc = pc, ![r].found = found]
    BY <1>7 DEF JudgeForRequest
  <2>3. {"batch", "submit"} \subseteq ReqStep
    BY DEF ReqStep
  <2> QED
    BY <1>4, <1>5, <2>1, <2>2, <2>3
<1>8. CASE Submit(r) \/ BeginBatch(r) \/ SubmitEntry(r)
  <2>1. UNCHANGED <<run, task, rqid>>
    BY <1>8 DEF Submit, BeginBatch, SubmitEntry
  <2>2. \/ Respond(r) \/ Create(r, status, claim)
        \/ Create(r, ReconciledStatus(req[r]), ReconciledClaim(req[r]))
    BY <1>8 DEF Submit, BeginBatch, SubmitEntry
  <2> QED
    BY <1>4, <1>6, <2>1, <2>2
<1>9. ASSUME NEW c, NEW inserts, TakeAndRequeue(r, c, inserts) PROVE HandInv'
  <2>1. UNCHANGED <<run, task, rqid>>
    BY <1>9 DEF TakeAndRequeue
  <2>2. \/ Respond(r)
        \/ req' = [req EXCEPT ![r].seen = NoClaims, ![r].pc = "retryEnqueue"]
    BY <1>9 DEF TakeAndRequeue
  <2>3. "retryEnqueue" \in ReqStep
    BY DEF ReqStep
  <2> QED
    BY <1>4, <1>5, <2>1, <2>2, <2>3
<1>10. CASE RetryExpire(r) \/ RetryUpdate(r)
  BY <1>9, <1>10 DEF RetryExpire, RetryUpdate
<1>11. CASE \/ SubmitEnqueueFails(r) \/ FailSubmitted(r) \/ CancelWrite(r)
            \/ CancelRelease(r) \/ CancelDrop(r) \/ LookForRetry(r) \/ JudgeForRetry(r)
            \/ RetryInsert(r) \/ RetryRequeue(r) \/ RetryEnqueueFails(r)
            \/ RetryRestore(r)
  <2>1. UNCHANGED <<run, task, rqid>>
    BY <1>11 DEF SubmitEnqueueFails, FailSubmitted, CancelWrite, CancelRelease, CancelDrop,
       LookForRetry, JudgeForRetry, RetryInsert, RetryRequeue, RetryEnqueueFails,
       RetryRestore, dbvars
  <2>2. \/ Respond(r)
        \/ \E pc \in ReqStep \ {"recordQueued"} :
              \/ Proceed(r, pc)
              \/ \E seen : req' = [req EXCEPT ![r].seen = seen, ![r].pc = pc]
    BY <1>11 DEF SubmitEnqueueFails, FailSubmitted, CancelWrite, CancelRelease, CancelDrop,
       LookForRetry, JudgeForRetry, RetryInsert, RetryRequeue, RetryEnqueueFails,
       RetryRestore, Proceed, ReqStep
  <2> QED
    BY <1>4, <1>5, <2>1, <2>2
<1> QED
  BY <1>1, <1>2, <1>7, <1>8, <1>10, <1>11 DEF RequestStep

\* The calls a user starts.
LEMMA UserInv ==
  ASSUME TypeOK, HandInv, UserStep
  PROVE  HandInv'
<1>0. req \in [Requests -> ReqType]
  BY DEF TypeOK, TypeReq
<1>1. ASSUME NEW r \in Requests,
             \/ LookForBatch(r)
             \/ \E k \in Jobs : \/ LookForSubmit(r, k) \/ LookForEntry(r, k)
                                \/ RetryCheck(r, k)
      PROVE  HandInv'
  <2>1. UNCHANGED <<run, task, rqid>>
    BY <1>1 DEF LookForBatch, LookForSubmit, LookForEntry, RetryCheck, dbvars
  <2>2. /\ \A q \in Requests : q # r => req'[q] = req[q]
        /\ req'[r].pc # "recordQueued"
    BY <1>0, <1>1 DEF LookForBatch, LookForSubmit, LookForEntry, RetryCheck, Begun, IdleReq
  <2> QED
    BY <2>1, <2>2, StillInv
<1>2. ASSUME NEW r \in Requests, NEW k \in Jobs, CancelCheck(r, k) PROVE HandInv'
  <2>0. /\ UNCHANGED <<run, rqid>>
        /\ \A q \in Requests : req'[q].pc = "recordQueued" => req'[q] = req[q]
    BY <1>0, <1>2 DEF CancelCheck, Begun, IdleReq, dbvars
  <2>1. CASE UNCHANGED task
    BY <2>0, <2>1, StillInv
  <2>2. CASE task' # task
    <3> DEFINE t == rqid[k]
    <3>1. /\ t \in Tasks /\ task[t].where = "queued"
          /\ task' = [task EXCEPT ![t] = SpentTask]
      BY <1>2, <2>2 DEF CancelCheck
    <3> HIDE DEF t
    <3>2. task'[t].where = "over" /\ \A u \in Tasks : u # t => task'[u] = task[u]
      BY <3>1 DEF TypeOK, TypeTask, SpentTask, FreeTask
    <3>3. \A x \in Workers : run[x].pc # "idle" => run[x].task \in Tasks /\ run[x].task # t
      BY <3>1 DEF HandInv, OwnTask, TypeOK, TypeRun
    <3>4. OneTask' /\ OwnTask' /\ EndWritten'
      BY <2>0, <3>2, <3>3 DEF HandInv, OneTask, OwnTask, EndWritten
    <3>5. \A j : \A u \in Tasks : Names(u, j) => Names(u, j)'
      BY <3>2 DEF Names
    <3>6. NamesTask'
      BY <2>0, <3>5 DEF HandInv, NamesTask
    <3> QED
      BY <3>4, <3>6 DEF HandInv
  <2> QED
    BY <2>1, <2>2
<1>3. CASE \E k \in Jobs : Delete(k)
  BY <1>3, StillInv DEF Delete
<1> QED
  BY <1>1, <1>2, <1>3 DEF UserStep

\* HandInv is inductive, given the types.
LEMMA HandNext ==
  TypeOK /\ HandInv /\ [Next]_vars => HandInv'
<1> SUFFICES ASSUME TypeOK, HandInv, [Next]_vars PROVE HandInv'
  OBVIOUS
<1>1. ASSUME NEW w \in Workers, WorkerStep(w) PROVE HandInv'
  BY <1>1, WorkerProceeds, ProceedsInv, EndsInv, RecoverFailsInv, DequeueInv DEF HandInv
<1>2. ASSUME NEW w \in Workers, BeginFails(w) \/ FailRun(w) \/ FailChecked(w)
      PROVE  HandInv'
  BY <1>2, FailureProceeds, ProceedsInv, EndsInv DEF HandInv
<1>3. ASSUME NEW r \in Requests, Abandon(r) PROVE HandInv'
  <2>1. \A q \in Requests : req'[q].pc = "recordQueued" => req'[q] = req[q]
    BY <1>3 DEF Abandon, Respond, IdleReq, TypeOK, TypeReq
  <2> QED
    BY <1>3, <2>1, StillInv DEF Abandon, dbvars
<1>4. CASE UNCHANGED vars
  BY <1>4, StillInv DEF vars
<1> QED
  BY <1>1, <1>2, <1>3, <1>4, CrashInv, RequestInv, UserInv DEF Next, Misfortune

\* It holds to begin with.
LEMMA HandInit == Init => HandInv
  BY NullsOK DEF Init, HandInv, OwnTask, OneTask, NamesTask, EndWritten, IdleRun, IdleReq, Active

\* A step of job j that leaves somebody to go on with it, or strands it.
HandStep(j) ==
    /\ status[j] \in Active => InHand(j)
    /\ status'[j] \in Active
    => InHand(j)' \/ Strands(j)

\* The request is about to enqueue the job, to end it or to cancel it.
Asking(r, j) ==
    /\ req[r].job = j
    /\ \/ req[r].pc \in {"submitEnqueue", "retryEnqueue", "retryDrop", "retryRestore",
                         "cancelWrite"}
       \/ req[r].pc \in {"submitDrop", "submitFail"} /\ j \in Batched

\* A step that takes job j out of no hand.
NoLess(j) ==
    /\ \A t \in Tasks : Waiting(t, j) => Waiting(t, j)'
    /\ \A w \in Workers : Pursuing(w, j) => Pursuing(w, j)'
    /\ \A r \in Requests : Asking(r, j) => Asking(r, j)'

\* Such a step keeps somebody at the job.
LEMMA NoLessStep ==
  ASSUME NEW j \in Jobs, NoLess(j), status'[j] \in Active => status[j] \in Active
  PROVE  HandStep(j)
<1>1. \A k : InHand(k) <=> \/ \E t \in Tasks : Waiting(t, k)
                           \/ \E w \in Workers : Pursuing(w, k)
                           \/ \E r \in Requests : Asking(r, k)
  BY DEF InHand, Waiting, Asking
<1>2. InHand(j)' <=> \/ \E t \in Tasks : Waiting(t, j)'
                     \/ \E w \in Workers : Pursuing(w, j)'
                     \/ \E r \in Requests : Asking(r, j)'
  BY DEF InHand, Waiting, Asking
<1> QED
  BY <1>1, <1>2 DEF NoLess, HandStep

\* A run that goes on holds what it leaves active.
LEMMA ProceedsHand ==
  ASSUME TypeOK, NEW w \in Workers, Proceeds(w), NEW j \in Jobs
  PROVE  HandStep(j)
<1>1. CASE Pursuing(w, j)' \/ ~Pursuing(w, j)
  <2>1. NoLess(j)
    BY <1>1 DEF NoLess, Waiting, Asking, Pursuing, Proceeds
  <2>2. CASE status'[j] \in Active => status[j] \in Active
    BY <2>1, <2>2, NoLessStep
  <2>3. CASE status'[j] \in Active /\ status[j] \notin Active
    BY <2>3 DEF Proceeds, Pursuing, InHand, HandStep
  <2> QED
    BY <2>2, <2>3
<1>2. CASE Pursuing(w, j) /\ ~Pursuing(w, j)'
  BY <1>2 DEF Proceeds, Pursuing, HandStep
<1> QED
  BY <1>1, <1>2

\* A run that ends leaves its task, which is not on the queue.
LEMMA EndsHand ==
  ASSUME TypeOK, HandInv, NEW w \in Workers, Ends(w), NEW j \in Jobs
  PROVE  HandStep(j)
<1>1. /\ \A x \in Workers : x # w => run'[x] = run[x]
      /\ \A u \in Tasks : u # run[w].task => task'[u] = task[u]
      /\ task[run[w].task].where = "running"
      /\ UNCHANGED req
  BY DEF Ends, EndTask, TypeOK, TypeRun, TypeTask, HandInv, OwnTask
<1>2. CASE Pursuing(w, j)
  BY <1>2 DEF Ends, Pursuing, HandStep
<1>3. CASE ~Pursuing(w, j)
  <2>1. NoLess(j)
    BY <1>1, <1>3 DEF NoLess, Waiting, Asking, Pursuing
  <2> QED
    BY <2>1, NoLessStep DEF Ends, NoneWakes
<1> QED
  BY <1>2, <1>3

\* A recovery that raises ends its run, and strands its job.
LEMMA RecoverFailsHand ==
  ASSUME TypeOK, HandInv, NEW w \in Workers, RecoverFails(w), NEW j \in Jobs
  PROVE  HandStep(j)
<1>1. /\ \A x \in Workers : x # w => run'[x] = run[x]
      /\ \A u \in Tasks : u # run[w].task => task'[u] = task[u]
      /\ task[run[w].task].where = "running"
      /\ UNCHANGED <<status, req>>
  BY DEF RecoverFails, EndTask, At, dbvars, TypeOK, TypeRun, TypeTask, HandInv, OwnTask
<1>2. CASE run[w].job = j
  BY <1>2 DEF HandStep, Strands
<1>3. CASE run[w].job # j
  <2>1. NoLess(j)
    BY <1>1, <1>3 DEF NoLess, Waiting, Asking, Pursuing
  <2> QED
    BY <1>1, <2>1, NoLessStep
<1> QED
  BY <1>2, <1>3

\* A task taken off the queue becomes a run that has to load its job.
LEMMA DequeueHand ==
  ASSUME TypeOK, HandInv, NEW w \in Workers, NEW t \in Tasks, Dequeue(w, t), NEW j \in Jobs
  PROVE  HandStep(j)
<1>1. /\ run'[w].pc = "recover" /\ run'[w].job = task[t].job
      /\ \A x \in Workers : x # w => run'[x] = run[x]
      /\ \A u \in Tasks : u # t => task'[u] = task[u]
      /\ UNCHANGED <<status, req>>
  BY DEF Dequeue, IdleRun, dbvars, TypeOK, TypeRun, TypeTask
<1>2. CASE task[t].job = j
  BY <1>1, <1>2 DEF HandStep, InHand, Pursuing
<1>3. CASE task[t].job # j
  <2>1. ~Pursuing(w, j)
    BY DEF Dequeue, Pursuing, HandInv, EndWritten
  <2>2. NoLess(j)
    BY <1>1, <1>3, <2>1 DEF NoLess, Waiting, Asking, Pursuing
  <2> QED
    BY <1>1, <2>2, NoLessStep
<1> QED
  BY <1>2, <1>3

\* The task of a worker that dies goes back to the queue, while it has retries left.
LEMMA CrashHand ==
  ASSUME TypeOK, HandInv, NEW w \in Workers, Crash(w), NEW j \in Jobs
  PROVE  HandStep(j)
<1>k. PICK k \in Jobs, t \in Tasks : k = run[w].job /\ t = run[w].task
  BY DEF Crash, TypeOK, TypeRun
<1>1. /\ \A x \in Workers : x # w => run'[x] = run[x]
      /\ \A u \in Tasks : u # t => task'[u] = task[u]
      /\ task[t].where = "running" /\ task[t].left \in Nat
      /\ task[t].left > 0 => task'[t].where = "queued" /\ task'[t].job = k
      /\ UNCHANGED <<status, req>>
  BY <1>k DEF Crash, dbvars, TypeOK, TypeRun, TypeTask, TaskType, HandInv, OwnTask
<1>2. CASE j # k
  <2>1. NoLess(j)
    BY <1>k, <1>1, <1>2 DEF NoLess, Waiting, Asking, Pursuing
  <2> QED
    BY <1>1, <2>1, NoLessStep
<1>3. CASE j = k /\ task[t].left > 0
  BY <1>1, <1>3 DEF HandStep, InHand
<1>4. CASE j = k /\ task[t].left = 0
  BY <1>k, <1>4 DEF HandStep, Strands
<1> QED
  BY <1>1, <1>2, <1>3, <1>4

\* A step of a request that keeps runs and tasks, for the jobs it is not about.
LEMMA OtherHand ==
  ASSUME TypeOK, NEW r \in Requests, NEW j \in Jobs, UNCHANGED run,
         \A t \in Tasks : Waiting(t, j) => task'[t] = task[t],
         \A q \in Requests : q # r => req'[q] = req[q],
         Asking(r, j) => Asking(r, j)',
         status'[j] \in Active => status[j] \in Active
  PROVE  HandStep(j)
<1>1. NoLess(j)
  BY DEF NoLess, Waiting, Asking, Pursuing
<1> QED
  BY <1>1, NoLessStep

\* A request enqueues its job.
LEMMA EnqueueHand ==
  ASSUME TypeOK, NEW r \in Requests, EnqueueSubmitted(r) \/ EnqueueRetry(r), NEW j \in Jobs
  PROVE  HandStep(j)
<1>t. PICK t \in Tasks : /\ Enqueue(t, req[r].job)
                         /\ req' = [req EXCEPT ![r].pc = "recordQueued", ![r].task = t]
  BY DEF EnqueueSubmitted, EnqueueRetry
<1>1. /\ task[t].where = "free" /\ task'[t].where = "queued" /\ task'[t].job = req[r].job
      /\ \A u \in Tasks : u # t => task'[u] = task[u]
      /\ \A q \in Requests : q # r => req'[q] = req[q]
      /\ UNCHANGED <<run, status>>
  BY <1>t DEF Enqueue, EnqueueSubmitted, EnqueueRetry, dbvars, TypeOK, TypeReq, TypeTask
<1>2. CASE req[r].job = j
  BY <1>1, <1>2 DEF HandStep, InHand
<1>3. CASE req[r].job # j
  BY <1>1, <1>3, OtherHand DEF Waiting, Asking
<1> QED
  BY <1>2, <1>3

\* Recovery makes no row active.
LEMMA ReconciledActive ==
  ASSUME NEW x, NEW j \in Jobs, ReconciledStatus(x)[j] \in Active
  PROVE  status[j] \in Active
  BY DEF ReconciledStatus, Active

\* A new job is in its request's hand.
LEMMA CreateHand ==
  ASSUME TypeOK, NEW r \in Requests, req[r].pc \in {"submit", "create"},
         NEW s \in [Jobs -> Status], NEW c, Create(r, s, c), UNCHANGED <<task, run>>,
         \A j \in Jobs : s[j] \in Active => status[j] \in Active, NEW j \in Jobs
  PROVE  HandStep(j)
<1> DEFINE k == req[r].job
<1>0. k \in Jobs /\ req \in [Requests -> ReqType]
  BY DEF TypeOK, TypeReq
<1>1. CASE /\ status' = [s EXCEPT ![k] = "queued"]
           /\ req' = [req EXCEPT ![r] = Begun(k, "submitEnqueue")]
  <2>1. /\ req'[r].pc = "submitEnqueue" /\ req'[r].job = k
        /\ \A q \in Requests : q # r => req'[q] = req[q]
    BY <1>0, <1>1 DEF Begun, IdleReq
  <2>2. CASE j = k
    BY <2>1, <2>2 DEF HandStep, InHand
  <2>3. CASE j # k
    BY <1>1, <2>1, <2>3, OtherHand DEF Asking
  <2> QED
    BY <2>2, <2>3
<1>2. CASE status' = s /\ Respond(r)
  <2>1. \A q \in Requests : q # r => req'[q] = req[q]
    BY <1>0, <1>2 DEF Respond
  <2> QED
    BY <1>2, <2>1, OtherHand DEF Asking
<1> QED
  BY <1>1, <1>2 DEF Create

\* A request about a job whose row stays, ends or becomes queued.
LEMMA RequestHand ==
  ASSUME TypeOK, RetryPrior, NEW r \in Requests, RequestStep(r), NEW j \in Jobs
  PROVE  HandStep(j)
<1>0. /\ req \in [Requests -> ReqType] /\ status \in [Jobs -> Status]
      /\ req[r].pc \notin Jobless => req[r].job \in Jobs
      /\ req[r].seen \in Owners
      /\ {"failed", "cancelled"} \cap Active = {}
      /\ ~Present(j) => status[j] \notin Active
  BY DEF TypeOK, TypeReq, ReqType, TypeRows, Active, Present, Jobless
<1>1. CASE EnqueueSubmitted(r) \/ EnqueueRetry(r)
  BY <1>1, EnqueueHand
<1>2. ASSUME UNCHANGED <<run, task>>, \A q \in Requests : q # r => req'[q] = req[q],
             Asking(r, j) => Asking(r, j)', status'[j] \in Active => status[j] \in Active
      PROVE  HandStep(j)
  BY <1>2, OtherHand
<1>3. CASE Submit(r)
  <2>1. /\ req[r].pc \in {"submit", "create"} /\ UNCHANGED <<task, run>>
        /\ ReconciledStatus(req[r]) \in [Jobs -> Status]
    BY <1>0, <1>3, ReconciledType DEF Submit, TypeOK
  <2>2. CASE Create(r, ReconciledStatus(req[r]), ReconciledClaim(req[r]))
    BY <2>1, <2>2, CreateHand, ReconciledActive
  <2>3. CASE Respond(r) /\ UNCHANGED status
    BY <1>0, <1>2, <2>1, <2>3 DEF Respond, Asking
  <2> QED
    BY <1>3, <2>2, <2>3 DEF Submit
<1>4. CASE SubmitEntry(r)
  BY <1>0, <1>4, CreateHand DEF SubmitEntry
<1>5. CASE BeginBatch(r)
  <2>1. /\ UNCHANGED <<run, task>> /\ Respond(r) /\ req[r].pc = "batch"
        /\ status' = status \/ status' = ReconciledStatus(req[r])
    BY <1>5 DEF BeginBatch
  <2> QED
    BY <1>0, <1>2, <2>1, ReconciledActive DEF Respond, Asking
<1>6. CASE JudgeForRequest(r) \/ LookForRetry(r) \/ JudgeForRetry(r)
  <2>1. /\ UNCHANGED <<run, task, status>> /\ ~Asking(r, j)
        /\ \A q \in Requests : q # r => req'[q] = req[q]
    BY <1>0, <1>6 DEF JudgeForRequest, LookForRetry, JudgeForRetry, Asking, Respond, dbvars
  <2> QED
    BY <1>2, <2>1
<1>7. CASE CancelRelease(r) \/ CancelDrop(r) \/ RetryInsert(r)
  <2>1. /\ UNCHANGED <<run, task, status>> /\ ~Asking(r, j)
        /\ \A q \in Requests : q # r => req'[q] = req[q]
    BY <1>0, <1>7 DEF CancelRelease, CancelDrop, RetryInsert, Asking, Respond, Proceed, dbvars
  <2> QED
    BY <1>2, <2>1
<1>8. CASE SubmitEnqueueFails(r)
  <2>1. CASE req[r].job = j /\ j \notin Batched
    BY <1>8, <2>1 DEF HandStep, Strands
  <2>2. CASE req[r].job = j /\ j \in Batched
    <3>1. PICK pc \in {"submitDrop", "submitFail"} : Proceed(r, pc)
      BY <1>8, <2>2 DEF SubmitEnqueueFails
    <3>2. req'[r].pc = pc /\ req'[r].job = j
      BY <1>0, <2>2, <3>1 DEF Proceed, ReqType
    <3> QED
      BY <2>2, <3>2 DEF HandStep, InHand
  <2>3. CASE req[r].job # j
    BY <1>0, <1>2, <1>8, <2>3 DEF SubmitEnqueueFails, Asking, Proceed, Respond, dbvars
  <2> QED
    BY <2>1, <2>2, <2>3
<1>9. CASE FailSubmitted(r)
  <2>1. /\ UNCHANGED <<run, task>> /\ req[r].job \in Jobs
        /\ req[r].pc \in {"submitDrop", "submitFail"}
        /\ \A q \in Requests : q # r => req'[q] = req[q]
        /\ \A k \in Jobs : status'[k] \in Active => status[k] \in Active
    BY <1>0, <1>9 DEF FailSubmitted, Respond, Jobless
  <2>2. CASE req[r].job = j /\ j \in Batched
    BY <1>0, <1>9, <2>2 DEF FailSubmitted, HandStep
  <2>3. CASE ~(req[r].job = j /\ j \in Batched)
    BY <1>2, <2>1, <2>3 DEF Asking
  <2> QED
    BY <2>2, <2>3
<1>10. CASE RecordQueued(r)
  <2>1. /\ UNCHANGED <<run, task>> /\ ~Asking(r, j)
        /\ \A q \in Requests : q # r => req'[q] = req[q]
    BY <1>0, <1>10 DEF RecordQueued, Asking, Respond
  <2>2. CASE req[r].job = j /\ status[j] \notin Active
    BY <1>10, <2>2 DEF HandStep, Strands
  <2>3. CASE status[j] \in Active
    BY <1>2, <2>1, <2>3
  <2>4. CASE req[r].job # j
    BY <1>0, <1>2, <1>10, <2>1, <2>4 DEF RecordQueued
  <2> QED
    BY <2>2, <2>3, <2>4
<1>11. CASE CancelWrite(r)
  <2>1. /\ UNCHANGED <<run, task>>
        /\ \A q \in Requests : q # r => req'[q] = req[q]
        /\ req[r].job # j => status'[j] = status[j]
        /\ req[r].job = j => status'[j] \notin Active
    BY <1>0, <1>11 DEF CancelWrite, Respond
  <2> QED
    BY <1>2, <2>1 DEF Asking, HandStep
<1>12. ASSUME NEW c, NEW inserts, TakeAndRequeue(r, c, inserts), ~Asking(r, j)
       PROVE  HandStep(j)
  <2>1. UNCHANGED <<run, task>> /\ \A q \in Requests : q # r => req'[q] = req[q]
    BY <1>0, <1>12 DEF TakeAndRequeue, Respond
  <2>2. CASE /\ req[r].job = j
             /\ req' = [req EXCEPT ![r].seen = NoClaims, ![r].pc = "retryEnqueue"]
    <3>1. req'[r].pc = "retryEnqueue" /\ req'[r].job = j
      BY <1>0, <1>12, <2>2 DEF TakeAndRequeue, ReqType
    <3> QED
      BY <3>1 DEF HandStep, InHand
  <2>3. CASE req[r].job # j
    <3>1. status'[j] = status[j]
      BY <1>0, <1>12, <2>3 DEF TakeAndRequeue
    <3> QED
      BY <1>2, <1>12, <2>1, <3>1
  <2>4. CASE UNCHANGED status
    BY <1>2, <1>12, <2>1, <2>4
  <2> QED
    BY <1>12, <2>2, <2>3, <2>4 DEF TakeAndRequeue
<1>13. CASE RetryExpire(r) \/ RetryUpdate(r)
  <2>1. ~Asking(r, j)
    BY <1>13 DEF RetryExpire, RetryUpdate, Asking
  <2>2. \/ TakeAndRequeue(r, claim, FALSE)
        \/ TakeAndRequeue(r, Without(req[r].seen),
                          Without(req[r].seen)[VideoOf[req[r].job]] = NoJob)
    BY <1>13 DEF RetryExpire, RetryUpdate
  <2> QED
    BY <1>12, <2>1, <2>2
<1>14. CASE RetryRequeue(r)
  <2>1. /\ UNCHANGED <<run, task>> /\ ~Asking(r, j)
        /\ \A q \in Requests : q # r => req'[q] = req[q]
        /\ req'[r].pc = "retryEnqueue" /\ req'[r].job = req[r].job
        /\ req[r].job # j => status'[j] = status[j]
    BY <1>0, <1>14 DEF RetryRequeue, Proceed, Asking, ReqType
  <2> QED
    BY <1>2, <2>1 DEF HandStep, InHand
<1>15. CASE RetryEnqueueFails(r)
  <2>1. /\ UNCHANGED <<run, task, status>>
        /\ \A q \in Requests : q # r => req'[q] = req[q]
        /\ req'[r].pc \in {"retryDrop", "retryRestore"} /\ req'[r].job = req[r].job
    BY <1>0, <1>15 DEF RetryEnqueueFails, Proceed, ReqType, dbvars
  <2> QED
    BY <1>2, <2>1 DEF Asking
<1>16. CASE RetryRestore(r)
  <2>1. /\ UNCHANGED <<run, task>>
        /\ \A q \in Requests : q # r => req'[q] = req[q]
        /\ req[r].job # j => status'[j] = status[j]
        /\ req[r].job = j => status'[j] \notin Active
    BY <1>0, <1>16 DEF RetryRestore, Respond, RetryPrior, RetrySteps, Retryable
  <2> QED
    BY <1>2, <2>1 DEF Asking, HandStep
<1> QED
  BY <1>1, <1>3, <1>4, <1>5, <1>6, <1>7, <1>8, <1>9, <1>10, <1>11, <1>13, <1>14,
     <1>15, <1>16 DEF RequestStep

\* What users ask for: a cancellation takes away the job's own task only.
LEMMA UserHand ==
  ASSUME TypeOK, HandInv, UserStep, NEW j \in Jobs
  PROVE  HandStep(j)
<1>0. TypeRows
  BY DEF TypeOK
<1>1. ASSUME NEW r \in Requests,
             \/ LookForBatch(r)
             \/ \E k \in Jobs : \/ LookForSubmit(r, k) \/ LookForEntry(r, k)
                                \/ RetryCheck(r, k)
      PROVE  HandStep(j)
  <2>1. /\ req[r].pc = "idle" /\ UNCHANGED <<run, task, status>>
        /\ \A q \in Requests : q # r => req'[q] = req[q]
    BY <1>1 DEF LookForBatch, LookForSubmit, LookForEntry, RetryCheck, dbvars, TypeOK, TypeReq
  <2> QED
    BY <2>1, OtherHand DEF Asking
<1>2. ASSUME NEW r \in Requests, NEW k \in Jobs, CancelCheck(r, k) PROVE HandStep(j)
  <2>1. /\ req[r].pc = "idle" /\ UNCHANGED <<run, status>>
        /\ \A q \in Requests : q # r => req'[q] = req[q]
        /\ req'[r].pc = "cancelWrite" /\ req'[r].job = k
    BY <1>2 DEF CancelCheck, Begun, IdleReq, dbvars, TypeOK, TypeReq
  <2>2. CASE j = k
    BY <2>1, <2>2 DEF HandStep, InHand
  <2>3. CASE j # k
    <3>1. \A t \in Tasks : Waiting(t, j) => task'[t] = task[t]
      BY <1>2, <2>3 DEF CancelCheck, Waiting, HandInv, NamesTask, Names, TypeOK, TypeTask
    <3> QED
      BY <2>1, <3>1, OtherHand DEF Asking
  <2> QED
    BY <2>2, <2>3
<1>3. CASE \E k \in Jobs : Delete(k)
  <2>1. UNCHANGED <<run, task, req>>
    BY <1>3 DEF Delete
  <2>2. NoLess(j)
    BY <2>1 DEF NoLess, Waiting, Asking, Pursuing
  <2>3. status'[j] \in Active => status[j] \in Active
    BY <1>0, <1>3 DEF Delete, TypeRows, Active
  <2> QED
    BY <2>2, <2>3, NoLessStep
<1> QED
  BY <1>1, <1>2, <1>3 DEF UserStep

\* The request of a web process that stops.
LEMMA AbandonHand ==
  ASSUME TypeOK, NEW r \in Requests, Abandon(r), NEW j \in Jobs
  PROVE  HandStep(j)
<1>1. CASE req[r].job = j
  BY <1>1 DEF HandStep, Strands
<1>2. CASE req[r].job # j
  BY <1>2, OtherHand DEF Abandon, Respond, Asking, dbvars, TypeOK, TypeReq
<1> QED
  BY <1>1, <1>2

\* A job that shows as active has somebody who starts, ends or cancels it, until
\* one of the named misfortunes strands it: for any number of jobs, workers,
\* requests, retries and deaths.
THEOREM NoJobForgotten == Spec => NoneForgotten
<1>1. ASSUME TypeOK, HandInv, LedgerInv, Next, NEW j \in Jobs PROVE HandStep(j)
  <2>1. ASSUME NEW w \in Workers, WorkerStep(w) PROVE HandStep(j)
    BY <1>1, <2>1, WorkerProceeds, ProceedsHand, EndsHand, RecoverFailsHand, DequeueHand
    DEF HandInv
  <2>2. ASSUME NEW w \in Workers, BeginFails(w) \/ FailRun(w) \/ FailChecked(w)
        PROVE  HandStep(j)
    BY <1>1, <2>2, FailureProceeds, ProceedsHand, EndsHand DEF HandInv
  <2>3. ASSUME NEW r \in Requests, RequestStep(r) PROVE HandStep(j)
    BY <1>1, <2>3, RequestHand DEF LedgerInv
  <2> QED
    BY <1>1, <2>1, <2>2, <2>3, CrashHand, UserHand, AbandonHand DEF Next, Misfortune
<1>2. TypeOK /\ HandInv /\ LedgerInv /\ [Next]_vars => [\A j \in Jobs : HandStep(j)]_vars
  BY <1>1
<1>3. Spec => [](TypeOK /\ LedgerInv)
  BY LedgerInvariant
<1> QED
  BY <1>2, <1>3, HandInit, HandNext, PTL DEF Spec, NoneForgotten, HandStep
=============================================================================
