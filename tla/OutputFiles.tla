---------------------------- MODULE OutputFiles ----------------------------
(***************************************************************************)
(* The files of an import: the choice of the output path                   *)
(* (app/services/filesystem.py), the child processes that download and     *)
(* convert (process_runner.py, ytdlp.py, ffmpeg.py), the staged file, its  *)
(* publication beside the library and what the exits of the pipeline       *)
(* remove (import_pipeline.py).  ImportJobs has the same pipeline seen     *)
(* from the database; here a job's row is its status and nothing else.     *)
(*                                                                         *)
(* All jobs have one title and folder, so their first choice is one path.  *)
(* Two runs may hold one path, or one job (a retry overtakes a run that    *)
(* was cancelled), when there is more than one worker, and a child process *)
(* may outlive its run: jobs it has happened to are "mixed".               *)
(***************************************************************************)
EXTENDS Integers, FiniteSets

CONSTANTS
    Workers,
    Jobs,
    Videos,
    VideoOf,     \* the video of each job
    MaxCounter,  \* bound of the "(n)" paths; 9999 in the code
    Kinds,       \* what the jobs may be submitted with: collision mode, dry run
    MaxFaults,   \* bound on crashes, timeouts, disk errors, deletions, retries and
                 \* strange files together
    Base,        \* the path without a suffix
    NoJob, NoPath

Modes == {"skip", "overwrite", "append_id", "append_counter"}

\* "title.m4b", "title [video].m4b", "title (n).m4b".
Paths == {Base} \cup Videos \cup (1 .. MaxCounter)

ASSUME ConstantsOK ==
    /\ VideoOf \in [Jobs -> Videos]
    /\ MaxCounter \in Nat
    /\ MaxFaults \in Nat
    /\ Kinds \subseteq [Jobs -> [mode : Modes, dry : BOOLEAN]]
    /\ NoJob \notin Jobs
    /\ NoPath \notin Paths
    /\ Base \notin Videos \cup (1 .. MaxCounter)
    /\ Videos \cap (1 .. MaxCounter) = {}

VARIABLES
    status,    \* of the job's row
    kind,      \* collision_mode and dry_run of the row
    queue,     \* jobs in the RQ queue
    run,       \* what each worker is doing
    child,     \* the child process of each worker
    staged,    \* <work>/<job>/staged/<name>.partial
    sibling,   \* <path>.partial
    final,     \* <path>
    mixed,     \* jobs whose files another process may have touched
    died,      \* jobs a worker died under
    late,      \* paths where a strange file turned up after a run had chosen them
    faults

jobVars  == <<status, kind, queue>>
libVars  == <<sibling, final>>
ghosts   == <<mixed, died, late>>
vars == <<jobVars, run, child, staged, libVars, ghosts, faults>>

None == [what |-> "none", of |-> NoJob]
File == {None} \cup [what : {"part", "whole", "fake"}, of : Jobs]
             \cup [what : {"strange"}, of : {NoJob}]

IdleRun == [job |-> NoJob, at |-> "idle", path |-> NoPath]

Working  == {"downloading", "primary", "fallback"}    \* with a child process
Saving   == {"copying", "copied"}                     \* in commit_staged_output
Handling == {"failing", "cancelling", "cleaning"}     \* in an except clause
Steps == Working \cup Saving \cup Handling \cup
         {"setup", "dry", "download", "convert", "again", "verify", "committed"}

TypeOK ==
    /\ status \in [Jobs -> {"active", "cancelled", "failed", "succeeded", "deleted"}]
    /\ kind \in [Jobs -> [mode : Modes, dry : BOOLEAN]]
    /\ queue \subseteq Jobs
    /\ run \in [Workers -> [job : Jobs \cup {NoJob}, at : Steps \cup {"idle"},
                            path : Paths \cup {NoPath}]]
    /\ child \in [Workers -> {"none", "running", "stopped"}]
    /\ staged \in [Jobs -> {"none", "part", "whole"}]
    /\ sibling \in [Paths -> File]
    /\ final \in [Paths -> File]
    /\ mixed \subseteq Jobs
    /\ died \subseteq Jobs
    /\ late \subseteq Paths
    /\ faults \in 0 .. MaxFaults

Init ==
    /\ status = [j \in Jobs |-> "active"]
    /\ kind \in Kinds
    /\ queue = Jobs
    /\ run = [w \in Workers |-> IdleRun]
    /\ child = [w \in Workers |-> "none"]
    /\ staged = [j \in Jobs |-> "none"]
    /\ sibling = [p \in Paths |-> None]
    /\ final = [p \in Paths |-> None]
    /\ mixed = {} /\ died = {} /\ late = {}
    /\ faults = 0

Busy(w) == run[w].at # "idle"
Fault == faults < MaxFaults /\ faults' = faults + 1

----------------------------------------------------------------------------
\* The rows, as the web process writes them, and the queue.

\* The task may already have left the queue, or stay in it.
Cancel(j) ==
    /\ status[j] = "active"
    /\ status' = [status EXCEPT ![j] = "cancelled"]
    /\ queue' \in {queue, queue \ {j}}
    /\ UNCHANGED <<kind, run, child, staged, libVars, ghosts, faults>>

Retry(j) ==
    /\ status[j] \in {"failed", "cancelled"}
    /\ Fault
    /\ status' = [status EXCEPT ![j] = "active"]
    /\ queue' = queue \cup {j}
    /\ UNCHANGED <<kind, run, child, staged, libVars, ghosts>>

Delete(j) ==
    /\ status[j] # "deleted"
    /\ Fault
    /\ status' = [status EXCEPT ![j] = "deleted"]
    /\ UNCHANGED <<kind, queue, run, child, staged, libVars, ghosts>>

\* The row says running, whatever it said before.
Take(w, j) ==
    /\ ~Busy(w)
    /\ j \in queue
    /\ queue' = queue \ {j}
    /\ \/ /\ status[j] # "deleted"
          /\ status' = [status EXCEPT ![j] = "active"]
          /\ run' = [run EXCEPT ![w] = [job |-> j, at |-> "setup", path |-> NoPath]]
          /\ mixed' = IF \E x \in Workers : run[x].job = j THEN mixed \cup {j} ELSE mixed
       \/ status[j] = "deleted" /\ UNCHANGED <<status, run, mixed>>
    /\ UNCHANGED <<kind, child, staged, libVars, died, late, faults>>

----------------------------------------------------------------------------
\* One run.  A step that writes or reads the row raises when the row is gone.

Goto(w, at) == run' = [run EXCEPT ![w].at = at]

\* The run is over.  A child that still runs goes on without it.
Leave(w) ==
    /\ run' = [run EXCEPT ![w] = IdleRun]
    /\ child' = [child EXCEPT ![w] = "none"]
    /\ mixed' = IF child[w] = "running" THEN mixed \cup {run[w].job} ELSE mixed

\* check_cancelled, then the next step.
Check(w, at) ==
    \/ status[run[w].job] = "cancelled" /\ Goto(w, "cancelling")
    \/ status[run[w].job] \notin {"cancelled", "deleted"} /\ Goto(w, at)

Exists(p) == final[p].what # "none"

FreeCounters == {n \in 1 .. MaxCounter : ~Exists(n)}

\* Mutant of Resolved: the counter is tried once too often.
ResolvedPast(j) ==
    IF ~Exists(Base) \/ kind[j].mode \in {"skip", "overwrite"} THEN Base
    ELSE IF kind[j].mode = "append_id" THEN VideoOf[j]
    ELSE CHOOSE n \in 1 .. MaxCounter + 1 :
            n \in FreeCounters \/ (n = MaxCounter + 1 /\ FreeCounters = {})

\* Mutant of Resolved: the counter is not tried against the directory.
ResolvedFirst(j) ==
    IF ~Exists(Base) \/ kind[j].mode \in {"skip", "overwrite"} THEN Base
    ELSE IF kind[j].mode = "append_id" THEN VideoOf[j]
    ELSE IF MaxCounter = 0 THEN NoPath ELSE 1

\* NoPath: too many collisions.
Resolved(j) ==
    IF ~Exists(Base) \/ kind[j].mode \in {"skip", "overwrite"} THEN Base
    ELSE IF kind[j].mode = "append_id" THEN VideoOf[j]
    ELSE IF FreeCounters = {} THEN NoPath
    ELSE CHOOSE n \in FreeCounters : \A m \in FreeCounters : n <= m

\* The runs that hold a path already, and this one with them.
Meeting(w, p) ==
    LET others == {x \in Workers \ {w} : run[x].path = p}
    IN IF others = {} THEN {} ELSE {run[x].job : x \in others \cup {w}}

Succeed(w) ==
    /\ status' = [status EXCEPT ![run[w].job] = "succeeded"]
    /\ run' = [run EXCEPT ![w] = IdleRun]

ResolveOutput(w) ==
    LET j == run[w].job
        p == Resolved(j)
    IN
    /\ run[w].at = "setup"
    /\ status[j] # "deleted"
    /\ \/ /\ p = NoPath
          /\ Goto(w, "failing")
          /\ UNCHANGED <<status, mixed>>
       \/ \* collision mode skip: the file that is there is kept
          /\ kind[j].mode = "skip" /\ Exists(p)
          /\ Succeed(w)
          /\ UNCHANGED mixed
       \/ /\ p # NoPath
          /\ ~(kind[j].mode = "skip" /\ Exists(p))
          /\ run' = [run EXCEPT ![w].path = p,
                                ![w].at = IF kind[j].dry THEN "dry" ELSE "download"]
          /\ mixed' = mixed \cup Meeting(w, p)
          /\ UNCHANGED status
    /\ UNCHANGED <<kind, queue, child, staged, libVars, died, late, faults>>

\* A dry run writes its fake where the file would go, then looks for a
\* cancellation and at the ledger.
DryRun(w) ==
    LET j == run[w].job IN
    /\ run[w].at = "dry"
    /\ status[j] # "deleted"
    /\ final' = [final EXCEPT ![run[w].path] = [what |-> "fake", of |-> j]]
    /\ \/ status[j] = "cancelled" /\ Goto(w, "cancelling") /\ UNCHANGED status
       \/ status[j] # "cancelled" /\ Succeed(w)
       \/ status[j] # "cancelled" /\ Goto(w, "failing") /\ UNCHANGED status
    /\ UNCHANGED <<kind, queue, child, staged, sibling, ghosts, faults>>

\* The stage a run is in once its child has started.
Stage == [download |-> "downloading", convert |-> "primary", again |-> "fallback"]

\* yt-dlp, ffmpeg, or ffmpeg without the cover.  The row says which, whatever
\* it said before, except between the two conversions.
StartChild(w) ==
    LET j == run[w].job IN
    /\ run[w].at \in DOMAIN Stage
    /\ status[j] # "deleted"
    /\ \/ /\ run[w].at = "download" /\ status[j] = "cancelled"
          /\ Goto(w, "cancelling")
          /\ UNCHANGED <<status, child, staged>>
       \/ /\ run[w].at = "download" => status[j] # "cancelled"
          /\ Goto(w, Stage[run[w].at])
          /\ status' = IF run[w].at = "again" THEN status
                       ELSE [status EXCEPT ![j] = "active"]
          /\ child' = [child EXCEPT ![w] = "running"]
          /\ staged' = IF run[w].at = "download" THEN staged
                       ELSE [staged EXCEPT ![j] = "part"]
    /\ UNCHANGED <<kind, queue, libVars, ghosts, faults>>

\* What a conversion leaves.  Two writers of one file may spoil it.
Converted(j) == IF j \in mixed THEN {"part", "whole"} ELSE {"whole"}

\* The child is told to go, given five seconds, then killed; the runner returns
\* when it has gone.
StopChild(w) ==
    /\ child[w] = "running"
    /\ status[run[w].job] = "cancelled"
    /\ child' = [child EXCEPT ![w] = "stopped"]
    /\ UNCHANGED <<jobVars, run, staged, libVars, ghosts, faults>>

\* Exit code 0: the download is located, if it can be; the conversion is kept.
ChildSucceeds(w) ==
    LET j == run[w].job IN
    /\ child[w] = "running"
    /\ child' = [child EXCEPT ![w] = "none"]
    /\ \/ /\ run[w].at = "downloading"
          /\ Check(w, "convert") \/ Check(w, "failing")
          /\ UNCHANGED staged
       \/ /\ run[w].at # "downloading"
          /\ Check(w, "verify")
          /\ \E s \in Converted(j) : staged' = [staged EXCEPT ![j] = s]
    /\ UNCHANGED <<jobVars, libVars, ghosts, faults>>

\* Mutant of ChildFails: the second conversion is not looked at.
ChildFailsOnce(w) ==
    LET j == run[w].job IN
    /\ child[w] # "none"
    /\ child' = [child EXCEPT ![w] = "none"]
    /\ Check(w, CASE run[w].at = "downloading" -> "failing"
                  [] run[w].at = "primary" -> "again"
                  [] run[w].at = "fallback" -> "verify")
    /\ UNCHANGED <<jobVars, staged, libVars, ghosts, faults>>

\* It was stopped, exits with an error, or is missing.  The conversion is tried
\* again without the cover, once, from nothing.
ChildFails(w) ==
    LET j == run[w].job
        more == run[w].at = "primary" /\ status[j] # "cancelled"
    IN
    /\ child[w] # "none"
    /\ child' = [child EXCEPT ![w] = "none"]
    /\ Check(w, IF more THEN "again" ELSE "failing")
    /\ staged' = IF more THEN [staged EXCEPT ![j] = "none"] ELSE staged
    /\ UNCHANGED <<jobVars, libVars, ghosts, faults>>

\* ffprobe may reject any file.  What it accepts is copied, after a look for a
\* cancellation, to the sibling.
VerifyOutput(w) ==
    LET j == run[w].job IN
    /\ run[w].at = "verify"
    /\ status[j] # "deleted"
    /\ \/ Goto(w, "failing") /\ UNCHANGED sibling
       \/ /\ staged[j] # "none" /\ status[j] = "cancelled"
          /\ Goto(w, "cancelling")
          /\ UNCHANGED sibling
       \/ /\ staged[j] # "none" /\ status[j] # "cancelled"
          /\ sibling' = [sibling EXCEPT ![run[w].path] = [what |-> "part", of |-> j]]
          /\ Goto(w, "copying")
    /\ UNCHANGED <<jobVars, child, staged, final, ghosts, faults>>

Unlinked(p) == [sibling EXCEPT ![p] = None]

\* Mutant of EndCopy: an error of the copy is swallowed.
EndCopyAnyhow(w) ==
    LET p == run[w].path IN
    /\ run[w].at = "copying"
    /\ \/ /\ Fault
          /\ sibling' = Unlinked(p)
          /\ Goto(w, "committed")
       \/ /\ sibling[p] # None
          /\ sibling' = [sibling EXCEPT ![p].what = "whole"]
          /\ Goto(w, "copied")
          /\ UNCHANGED faults
    /\ UNCHANGED <<jobVars, child, staged, final, ghosts>>

\* The copy fails (the disk is full, the mount is gone) or ends; another run
\* may have removed, renamed or overwritten it meanwhile.
EndCopy(w) ==
    LET j == run[w].job
        p == run[w].path
        mine == sibling[p] = [what |-> "part", of |-> j]
    IN
    /\ run[w].at = "copying"
    /\ \/ /\ Fault \/ (~mine /\ UNCHANGED faults)
          /\ sibling' = Unlinked(p)
          /\ Goto(w, "failing")
       \/ /\ mine
          /\ sibling' = [sibling EXCEPT ![p].what = IF staged[j] = "whole" THEN "whole" ELSE "part"]
          /\ Goto(w, "copied")
          /\ UNCHANGED faults
       \/ /\ ~mine /\ sibling[p] # None
          /\ Goto(w, "copied")
          /\ UNCHANGED <<sibling, faults>>
    /\ UNCHANGED <<jobVars, child, staged, final, ghosts>>

\* Mutant of Rename: the temporary file is copied and stays.
RenameCopies(w) ==
    LET p == run[w].path IN
    /\ run[w].at = "copied"
    /\ sibling[p] # None
    /\ final' = [final EXCEPT ![p] = sibling[p]]
    /\ Goto(w, "committed")
    /\ UNCHANGED <<jobVars, child, staged, sibling, ghosts, faults>>

Rename(w) ==
    LET p == run[w].path IN
    /\ run[w].at = "copied"
    /\ \/ /\ sibling[p] # None
          /\ final' = [final EXCEPT ![p] = sibling[p]]
          /\ sibling' = Unlinked(p)
          /\ Goto(w, "committed")
          /\ UNCHANGED faults
       \/ /\ Fault \/ (sibling[p] = None /\ UNCHANGED faults)
          /\ sibling' = Unlinked(p)
          /\ Goto(w, "failing")
          /\ UNCHANGED final
    /\ UNCHANGED <<jobVars, child, staged, ghosts>>

\* cleanup_output_partials.  The rest of the work directory is not modelled.
Removed(w) ==
    LET j == run[w].job
        p == run[w].path
    IN
    /\ staged' = [staged EXCEPT ![j] = "none"]
    /\ sibling' = IF p = NoPath THEN sibling ELSE Unlinked(p)

\* The file is there and as large as what was verified; no cancellation before
\* and after the scan; the video is not in the ledger yet.
Finish(w) ==
    LET j == run[w].job IN
    /\ run[w].at = "committed"
    /\ status[j] # "deleted"
    /\ \/ /\ status[j] = "cancelled"
          /\ Goto(w, "cancelling")
          /\ UNCHANGED <<status, staged, sibling>>
       \/ /\ final[run[w].path].of # j
          /\ Goto(w, "failing")
          /\ UNCHANGED <<status, staged, sibling>>
       \/ /\ status[j] # "cancelled"
          /\ Exists(run[w].path)
          /\ Removed(w)
          /\ Succeed(w) \/ (Goto(w, "failing") /\ UNCHANGED status)
    /\ UNCHANGED <<kind, queue, child, final, ghosts, faults>>

\* The handlers tell the row first; a retry may start before the files go.
Handle(w) ==
    LET j == run[w].job IN
    /\ run[w].at \in {"failing", "cancelling"}
    /\ status[j] # "deleted"
    /\ status' = [status EXCEPT ![j] = IF run[w].at = "failing" THEN "failed" ELSE "cancelled"]
    /\ Goto(w, "cleaning")
    /\ UNCHANGED <<kind, queue, child, staged, libVars, ghosts, faults>>

CleanUp(w) ==
    /\ run[w].at = "cleaning"
    /\ Removed(w)
    /\ run' = [run EXCEPT ![w] = IdleRun]
    /\ UNCHANGED <<jobVars, child, final, ghosts, faults>>

\* The row is gone: its read or write raises, in the handlers too.
LoseRow(w) ==
    /\ Busy(w)
    /\ run[w].at \notin Saving \cup {"cleaning"}
    /\ status[run[w].job] = "deleted"
    /\ Leave(w)
    /\ UNCHANGED <<jobVars, staged, libVars, died, late, faults>>

\* RQ raises in the run when its time is over.  A child is not stopped; the
\* copy of commit_staged_output is removed.  In a handler nothing catches it
\* but the task, which leaves the files.
TimeOut(w) ==
    LET j == run[w].job IN
    /\ Busy(w)
    /\ Fault
    /\ \/ /\ run[w].at \notin Handling
          /\ Goto(w, "failing")
          /\ child' = [child EXCEPT ![w] = "none"]
          /\ mixed' = IF child[w] = "running" THEN mixed \cup {j} ELSE mixed
          /\ sibling' = IF run[w].at \in Saving THEN Unlinked(run[w].path) ELSE sibling
          /\ UNCHANGED status
       \/ /\ run[w].at \in Handling
          /\ Leave(w)
          /\ status' = IF status[j] \in {"cancelled", "deleted"} THEN status
                       ELSE [status EXCEPT ![j] = "failed"]
          /\ UNCHANGED sibling
    /\ UNCHANGED <<kind, queue, staged, final, died, late>>

\* The worker dies, its child with it or not; RQ runs the job again or not.
Crash(w) ==
    LET j == run[w].job IN
    /\ Busy(w)
    /\ Fault
    /\ run' = [run EXCEPT ![w] = IdleRun]
    /\ child' = [child EXCEPT ![w] = "none"]
    /\ \/ child[w] = "running" /\ mixed' = mixed \cup {j}
       \/ UNCHANGED mixed
    /\ died' = died \cup {j}
    /\ queue' \in {queue, queue \cup {j}}
    /\ UNCHANGED <<status, kind, staged, libVars, late>>

\* Somebody else puts a file into the library.
StrangeFile(p) ==
    /\ final[p] = None
    /\ Fault
    /\ final' = [final EXCEPT ![p] = [what |-> "strange", of |-> NoJob]]
    /\ late' = IF \E w \in Workers : run[w].path = p THEN late \cup {p} ELSE late
    /\ UNCHANGED <<jobVars, run, child, staged, sibling, mixed, died>>

Run(w) ==
    \/ ResolveOutput(w) \/ DryRun(w)
    \/ StartChild(w) \/ StopChild(w) \/ ChildFails(w)
    \/ VerifyOutput(w) \/ EndCopy(w) \/ Rename(w)
    \/ Finish(w) \/ Handle(w) \/ CleanUp(w) \/ LoseRow(w)

Next ==
    \/ \E j \in Jobs : Cancel(j) \/ Retry(j) \/ Delete(j)
    \/ \E w \in Workers, j \in Jobs : Take(w, j)
    \/ \E w \in Workers : Run(w) \/ ChildSucceeds(w) \/ TimeOut(w) \/ Crash(w)
    \/ \E p \in Paths : StrangeFile(p)

Spec == Init /\ [][Next]_vars

----------------------------------------------------------------------------
\* Properties.

\* filesystem.py:292-337.  Whatever stops a run and whatever follows, no part
\* of a file is ever seen under a final name, unless two processes were at the
\* files of its job.
PublishedWhole ==
    \A p \in Paths : final[p].what = "part" => final[p].of \in mixed

\* filesystem.py:332-337, import_pipeline.py:982-985, 1018-1023.  A ".partial"
\* beside the library belongs to a run that is saving right now: every way out
\* of a run removes it, but for the death of the worker (died), and unless two
\* processes were at the files of its job (mixed).
NoStrays ==
    \A p \in Paths : sibling[p] # None =>
        \/ \E w \in Workers : run[w].path = p /\ run[w].at \in Saving
        \/ sibling[p].of \in died \cup mixed

\* filesystem.py:222-284.  The path is chosen long before it is used.  A file
\* that was there is replaced only by overwriting, or by an import of the video
\* it is named after; or two runs chose the path at once (mixed), or the file
\* turned up after the choice (late).
KeptFiles ==
    [][\A p \in Paths \ late : final[p] # None /\ final'[p] # final[p] =>
          \E w \in Workers :
             /\ run[w].path = p
             /\ \/ kind[run[w].job].mode = "overwrite"
                \/ p = VideoOf[run[w].job]
                \/ run[w].job \in mixed]_vars

\* import_pipeline.py:793-821, 930-939.  A job is told to have succeeded only
\* when the whole file it made, or what it found to skip, is under its name,
\* unless two processes were at its files (mixed).
SuccessIsFiled ==
    [][\A j \in Jobs : status[j] # "succeeded" /\ status'[j] = "succeeded" =>
          \/ j \in mixed
          \/ kind[j].mode = "skip" /\ Exists(Base)
          \/ \E p \in Paths :
                final'[p] = [what |-> IF kind[j].dry THEN "fake" ELSE "whole", of |-> j]]_vars
=============================================================================
