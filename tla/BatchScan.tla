----------------------------- MODULE BatchScan -----------------------------
(***************************************************************************)
(* The one Audiobookshelf scan that the children of a batch share          *)
(* (app/services/batch_abs.py): workers whose job has ended and web        *)
(* requests that retry the scan meet at the row of the batch.              *)
(*                                                                         *)
(* A process holds its own copy of the row, proc[p].mem, from the moment   *)
(* it loads it: sessions are made with expire_on_commit=False, so get      *)
(* hands the same object out again after a commit, and an UPDATE through   *)
(* the ORM is repeated on the object in memory, not read back.  A flush    *)
(* writes the columns that have changed in memory and no others (Flushed). *)
(* The batch is one of trigger_abs_scan; Audiobookshelf is configured.     *)
(***************************************************************************)
EXTENDS Integers, FiniteSets

CONSTANTS
    Children,   \* the jobs submit_batch will create for the batch
    Workers,    \* RQ worker processes
    Clients,    \* web requests that retry the scan
    MaxRounds,  \* _MAX_SCAN_ROUNDS
    MaxDirty,   \* bound on the dirty generation up to which clients retry
    MaxCrashes, \* bound on deaths of processes
    NoChild

ASSUME BoundsOK ==
    /\ MaxRounds \in Nat \ {0}
    /\ MaxDirty \in Nat
    /\ MaxCrashes \in Nat
    /\ NoChild \notin Children
    /\ Workers \cap Clients = {}

VARIABLES
    child,     \* Job.status of each child, as far as the scan looks at it
    imported,  \* children that have reached "succeeded" once
    batch,     \* the row of import_batches
    proc,      \* what each process is doing
    noted,     \* children whose success has been counted in the row
    seen,      \* children in the library when a scan that succeeded began
    overwritten, \* a retry has written over a row that had changed since it was read
    crashes

vars == <<child, imported, batch, proc, noted, seen, overwritten, crashes>>

Procs == Workers \cup Clients

BatchType == [dirty : Nat, scanned : Nat, claimed : Nat,
              status : {"idle", "pending", "running", "failed", "succeeded"},
              lease : {"none", "live", "over"}]

NewBatch == [dirty |-> 0, scanned |-> 0, claimed |-> 0, status |-> "idle",
             lease |-> "none"]
IdleProc == [pc |-> "idle", child |-> NoChild, result |-> "none", mem |-> NewBatch,
             rounds |-> 0, from |-> {}]

ProcType == [pc : {"idle", "work", "note", "look", "ready", "claim", "scan",
                   "retryWrite"},
             child : Children \cup {NoChild},
             result : {"none", "succeeded", "failed"},
             mem : BatchType,
             rounds : 0 .. MaxRounds,
             from : SUBSET Children]

\* Type invariant.
TypeOK ==
    /\ child \in [Children -> {"absent", "waiting", "busy", "succeeded", "failed"}]
    /\ imported \subseteq Children
    /\ batch \in BatchType
    /\ proc \in [Procs -> ProcType]
    /\ noted \subseteq imported
    /\ seen \subseteq imported
    /\ overwritten \in BOOLEAN
    /\ crashes \in 0 .. MaxCrashes

Init ==
    /\ child = [c \in Children |-> "absent"]
    /\ imported = {}
    /\ batch = NewBatch
    /\ proc = [p \in Procs |-> IdleProc]
    /\ noted = {}
    /\ seen = {}
    /\ overwritten = FALSE
    /\ crashes = 0

-----------------------------------------------------------------------------
(* The row of the batch *)

At(p, pc) == proc[p].pc = pc
Return(p) == proc' = [proc EXCEPT ![p] = IdleProc]

\* recover_stale_abs_leases
Stale(b) == b.status = "running" /\ b.lease # "live"
Recovered(b) ==
    IF Stale(b) THEN [b EXCEPT !.status = "pending", !.lease = "none"] ELSE b

Outstanding(b) == b.dirty > b.scanned

\* _claim_batch_scan: its WHERE and its SET
Claimable(b) ==
    /\ Outstanding(b)
    /\ b.status \in {"pending", "failed"} \/ Stale(b)
Claimed(b) ==
    [b EXCEPT !.status = "running", !.lease = "live", !.claimed = b.dirty]

\* A session flushes the columns in which its object has changed from old to new.
Flushed(old, new) ==
    [f \in DOMAIN batch |-> IF new[f] = old[f] THEN batch[f] ELSE new[f]]

\* _children_ready.  A worker's session still holds its own job as it left it.
Status(p, c) == IF c = proc[p].child THEN proc[p].result ELSE child[c]
ChildrenReady(p) ==
    LET created == {c \in Children : child[c] # "absent"} IN
    /\ \A c \in created : Status(p, c) \in {"succeeded", "failed"}
    /\ \E c \in created : Status(p, c) = "succeeded"

\* Process p holds the claim and asks Audiobookshelf for a scan.
Scan(p, mem) ==
    proc' = [proc EXCEPT ![p].pc = "scan", ![p].mem = mem,
                         ![p].rounds = @ + 1, ![p].from = imported]

-----------------------------------------------------------------------------
(* Children *)

\* submit_batch creates the children one after the other.
AddChild(c) ==
    /\ child[c] = "absent"
    /\ child' = [child EXCEPT ![c] = "waiting"]
    /\ UNCHANGED <<imported, batch, proc, noted, seen, overwritten, crashes>>

\* The user retries a child that failed or was cancelled.
RetryChild(c) ==
    /\ child[c] = "failed"
    /\ child' = [child EXCEPT ![c] = "waiting"]
    /\ UNCHANGED <<imported, batch, proc, noted, seen, overwritten, crashes>>

\* run_import_job: recovery is committed before the pipeline starts.
StartChild(w, c) ==
    /\ At(w, "idle")
    /\ child[c] = "waiting"
    /\ child' = [child EXCEPT ![c] = "busy"]
    /\ batch' = Recovered(batch)
    /\ proc' = [proc EXCEPT ![w] = [IdleProc EXCEPT !.pc = "work", !.child = c]]
    /\ UNCHANGED <<imported, noted, seen, overwritten, crashes>>

\* The run writes its last status; "failed" is "cancelled" too.  What was
\* imported once is not imported again.
EndChild(w, s) ==
    LET c == proc[w].child IN
    /\ At(w, "work")
    /\ s = "succeeded" => c \notin imported
    /\ child' = [child EXCEPT ![c] = s]
    /\ imported' = IF s = "succeeded" THEN imported \cup {c} ELSE imported
    /\ proc' = [proc EXCEPT ![w].pc = "note", ![w].result = s]
    /\ UNCHANGED <<batch, noted, seen, overwritten, crashes>>

-----------------------------------------------------------------------------
(* note_batch_child_finished and maybe_coalesce_batch_abs_scan *)

\* Mutant of Note: the status of the job is not looked at.
NoteAnyResult(w) ==
    /\ At(w, "note")
    /\ batch' = [batch EXCEPT !.dirty = @ + 1,
                             !.status = IF @ = "running" THEN @ ELSE "pending"]
    /\ noted' = noted \cup {proc[w].child}
    /\ proc' = [proc EXCEPT ![w].pc = "look"]
    /\ UNCHANGED <<child, imported, seen, overwritten, crashes>>

\* mark_batch_dirty_if_needed, committed: the increment is made in SQL.
Note(w) ==
    /\ At(w, "note")
    /\ IF proc[w].result = "succeeded"
       THEN /\ batch' = [batch EXCEPT !.dirty = @ + 1,
                                      !.status = IF @ = "running" THEN @ ELSE "pending"]
            /\ noted' = noted \cup {proc[w].child}
       ELSE UNCHANGED <<batch, noted>>
    /\ proc' = [proc EXCEPT ![w].pc = "look"]
    /\ UNCHANGED <<child, imported, seen, overwritten, crashes>>

\* The row is loaded, anew: the object of Note is gone.
Look(w) ==
    /\ At(w, "look")
    /\ ~Stale(batch)
    /\ IF Outstanding(batch)
       THEN proc' = [proc EXCEPT ![w].pc = "ready", ![w].mem = batch]
       ELSE Return(w)
    /\ UNCHANGED <<child, imported, batch, noted, seen, overwritten, crashes>>

\* A stale lease is taken back first, and the flush of that keeps other writers
\* out up to the commit of the claim; without a claim it is rolled back.
LookAndRecover(w) ==
    LET b == Recovered(batch) IN
    /\ At(w, "look")
    /\ Stale(batch)
    /\ IF Claimable(b) /\ ChildrenReady(w)
       THEN batch' = Claimed(b) /\ Scan(w, Claimed(b))
       ELSE Return(w) /\ UNCHANGED batch
    /\ UNCHANGED <<child, imported, noted, seen, overwritten, crashes>>

CheckChildren(p) ==
    /\ At(p, "ready")
    /\ IF ChildrenReady(p)
       THEN proc' = [proc EXCEPT ![p].pc = "claim"]
       ELSE Return(p)
    /\ UNCHANGED <<child, imported, batch, noted, seen, overwritten, crashes>>

\* Mutant of Claim: a running scan is no obstacle.
ClaimRunning(p) ==
    /\ At(p, "claim")
    /\ Outstanding(batch)
    /\ batch' = Claimed(batch)
    /\ Scan(p, IF Claimable(proc[p].mem) THEN Claimed(proc[p].mem) ELSE proc[p].mem)
    /\ UNCHANGED <<child, imported, noted, seen, overwritten, crashes>>

\* The row decides whether the claim is had; in memory the same assignment
\* is made from what memory holds.
Claim(p) ==
    LET m == proc[p].mem IN
    /\ At(p, "claim")
    /\ IF Claimable(batch)
       THEN /\ batch' = Claimed(batch)
            /\ Scan(p, IF Claimable(m) THEN Claimed(m) ELSE m)
       ELSE Return(p) /\ UNCHANGED batch
    /\ UNCHANGED <<child, imported, noted, seen, overwritten, crashes>>

\* Mutant of ScanSucceeds: what is dirty by now counts as scanned.
ScanCoversAll(p) ==
    LET m == proc[p].mem
        new == [m EXCEPT !.scanned = batch.dirty, !.lease = "none",
                         !.status = "succeeded"]
    IN
    /\ At(p, "scan")
    /\ batch' = Flushed(m, new)
    /\ seen' = seen \cup proc[p].from
    /\ Return(p)
    /\ UNCHANGED <<child, imported, noted, overwritten, crashes>>

\* Audiobookshelf has taken the request; all that follows is worked out from
\* the copy of the row.  With a newer generation in it, another round begins.
ScanSucceeds(p) ==
    LET m == proc[p].mem
        more == m.dirty > m.claimed
        new == [m EXCEPT !.scanned = m.claimed, !.lease = "none",
                         !.status = IF more THEN "pending" ELSE "succeeded"]
    IN
    /\ At(p, "scan")
    /\ batch' = Flushed(m, new)
    /\ seen' = seen \cup proc[p].from
    /\ IF more /\ proc[p].rounds < MaxRounds
       THEN proc' = [proc EXCEPT ![p].pc = "ready", ![p].mem = new]
       ELSE Return(p)
    /\ UNCHANGED <<child, imported, noted, overwritten, crashes>>

ScanFails(p) ==
    LET m == proc[p].mem IN
    /\ At(p, "scan")
    /\ batch' = Flushed(m, [m EXCEPT !.status = "failed", !.lease = "none"])
    /\ Return(p)
    /\ UNCHANGED <<child, imported, noted, seen, overwritten, crashes>>

-----------------------------------------------------------------------------
(* retry_batch_abs_scan *)

\* What the request makes of the row it has loaded.
Requested(b) ==
    [b EXCEPT !.status = "pending",
              !.dirty = IF Outstanding(b) THEN b.dirty ELSE b.dirty + 1]

\* A scan that is running is left alone.
RetryScan(r) ==
    /\ At(r, "idle")
    /\ ~Stale(batch)
    /\ batch.status # "running"
    /\ batch.dirty < MaxDirty
    /\ proc' = [proc EXCEPT ![r] = [IdleProc EXCEPT !.pc = "retryWrite",
                                                    !.mem = batch]]
    /\ UNCHANGED <<child, imported, batch, noted, seen, overwritten, crashes>>

\* After it has taken back a stale lease it has kept other writers out.
RetryStaleScan(r) ==
    LET b == Requested(Recovered(batch)) IN
    /\ At(r, "idle")
    /\ Stale(batch)
    /\ batch.dirty < MaxDirty
    /\ batch' = b
    /\ proc' = [proc EXCEPT ![r] = [IdleProc EXCEPT !.pc = "ready", !.mem = b]]
    /\ UNCHANGED <<child, imported, noted, seen, overwritten, crashes>>

\* The copy goes on to maybe_coalesce_batch_abs_scan with the request.  The row
\* may have changed since the copy was read: overwritten remembers that.
RetryWrite(r) ==
    LET new == Requested(proc[r].mem) IN
    /\ At(r, "retryWrite")
    /\ batch' = Flushed(proc[r].mem, new)
    /\ proc' = [proc EXCEPT ![r].pc = "ready", ![r].mem = new]
    /\ overwritten' = (overwritten \/ batch # proc[r].mem)
    /\ UNCHANGED <<child, imported, noted, seen, crashes>>

-----------------------------------------------------------------------------
(* Time and deaths *)

\* Ten minutes pass.  A request to Audiobookshelf is given up after thirty
\* seconds, so by then no process is in one.
Expire ==
    /\ batch.lease = "live"
    /\ \A p \in Procs : ~At(p, "scan")
    /\ batch' = [batch EXCEPT !.lease = "over"]
    /\ proc' = [p \in Procs |->
                  IF proc[p].mem.lease = "live"
                  THEN [proc[p] EXCEPT !.mem.lease = "over"] ELSE proc[p]]
    /\ UNCHANGED <<child, imported, noted, seen, overwritten, crashes>>

\* A process dies.  RQ runs the job of a worker again if it has retries left.
Crash(p) ==
    LET c == proc[p].child IN
    /\ ~At(p, "idle")
    /\ crashes < MaxCrashes
    /\ crashes' = crashes + 1
    /\ Return(p)
    /\ \/ UNCHANGED child
       \/ c \in Children /\ child' = [child EXCEPT ![c] = "waiting"]
    /\ UNCHANGED <<imported, batch, noted, seen, overwritten>>

-----------------------------------------------------------------------------
(* Specification *)

\* What a process does once it has something to do.
ProcStep(p) ==
    \/ \E s \in {"succeeded", "failed"} : EndChild(p, s)
    \/ Note(p)
    \/ Look(p)
    \/ LookAndRecover(p)
    \/ CheckChildren(p)
    \/ Claim(p)
    \/ ScanSucceeds(p)
    \/ ScanFails(p)
    \/ RetryWrite(p)

Next ==
    \/ \E c \in Children : AddChild(c) \/ RetryChild(c)
    \/ \E w \in Workers, c \in Children : StartChild(w, c)
    \/ \E p \in Procs : ProcStep(p)
    \/ \E r \in Clients : RetryScan(r) \/ RetryStaleScan(r)
    \/ Expire
    \/ \E p \in Procs : Crash(p)

Spec == Init /\ [][Next]_vars

-----------------------------------------------------------------------------
(* Properties *)

\* A batch that shows as scanned, with nothing outstanding, has been scanned
\* after each success counted in it, whatever the copies of its row had missed:
\* unless a client's retry wrote over a row that had changed since it was read.
SettledIsSeen ==
    ~overwritten /\ batch.status = "succeeded" /\ ~Outstanding(batch) => noted \subseteq seen

\* Two scans of a batch are never in flight together, however stale the copies
\* and leases of its workers and clients: with the same exception.
OneScan == ~overwritten => \A p, q \in Procs : At(p, "scan") /\ At(q, "scan") => p = q

\* A child that succeeds while a scan is in flight gets one more scan: the
\* batch is not left as scanned with a generation outstanding.
SucceededIsCaughtUp == batch.status = "succeeded" => ~Outstanding(batch)
=============================================================================
