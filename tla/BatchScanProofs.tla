-------------------------- MODULE BatchScanProofs --------------------------
(***************************************************************************)
(* Types of BatchScan, that a batch is scanned once at a time, and that a  *)
(* batch shown as scanned has been, as long as no client's retry writes    *)
(* over a row that has changed since the client read it.                   *)
(***************************************************************************)
EXTENDS BatchScan, TLAPS

\* A flush writes columns, and leaves a row of the table.
LEMMA FlushedType ==
  ASSUME batch \in BatchType, NEW old \in BatchType, NEW new \in BatchType
  PROVE  Flushed(old, new) \in BatchType
<1>0. PICK f : f = Flushed(old, new)
  OBVIOUS
<1>1. DOMAIN batch = {"dirty", "scanned", "claimed", "status", "lease"}
  BY DEF BatchType
<1>2. f = [x \in {"dirty", "scanned", "claimed", "status", "lease"} |->
              IF new[x] = old[x] THEN batch[x] ELSE new[x]]
  BY <1>0, <1>1 DEF Flushed
<1>3. f = [dirty |-> f.dirty, scanned |-> f.scanned, claimed |-> f.claimed,
           status |-> f.status, lease |-> f.lease]
  BY <1>2
<1>4. /\ f.dirty \in Nat /\ f.scanned \in Nat /\ f.claimed \in Nat
      /\ f.status \in {"idle", "pending", "running", "failed", "succeeded"}
      /\ f.lease \in {"none", "live", "over"}
  BY <1>2 DEF BatchType
<1> QED
  BY <1>0, <1>3, <1>4 DEF BatchType

\* What a process has done by the time it gets somewhere.
ProcReady ==
    \A p \in Procs :
        /\ proc[p].pc # "scan" => proc[p].rounds < MaxRounds
        /\ proc[p].pc \in {"work", "note"} => proc[p].child \in Children
        /\ proc[p].pc = "note" /\ proc[p].result = "succeeded"
           => proc[p].child \in imported
        /\ proc[p].from \subseteq imported

TypeInv == TypeOK /\ ProcReady

\* What the operators on the row make of a row is a row.
LEMMA RowType ==
  ASSUME NEW b \in BatchType
  PROVE  /\ Recovered(b) \in BatchType
         /\ Claimed(b) \in BatchType
         /\ Requested(b) \in BatchType
         /\ \A s \in {"idle", "pending", "running", "failed", "succeeded"} :
               [b EXCEPT !.status = s, !.lease = "none"] \in BatchType
<1>1. \A s \in {"idle", "pending", "running", "failed", "succeeded"} :
         [b EXCEPT !.status = s, !.lease = "none"] \in BatchType
  BY DEF BatchType
<1>2. Recovered(b) \in BatchType
  BY <1>1 DEF Recovered
<1>3. Claimed(b) \in BatchType
  BY DEF Claimed, BatchType
<1>4. Requested(b) \in BatchType
  <2>1. (IF Outstanding(b) THEN b.dirty ELSE b.dirty + 1) \in Nat
    BY DEF BatchType
  <2> QED
    BY <2>1 DEF Requested, BatchType
<1> QED
  BY <1>1, <1>2, <1>3, <1>4

\* A process that moves to a state fit for its step leaves the others alone.
LEMMA Moved ==
  ASSUME proc \in [Procs -> ProcType], ProcReady, NEW p \in Procs, NEW d \in ProcType,
         proc' = [proc EXCEPT ![p] = d], imported \subseteq imported',
         d.pc # "scan" => d.rounds < MaxRounds,
         d.pc \in {"work", "note"} => d.child \in Children,
         d.pc = "note" /\ d.result = "succeeded" => d.child \in imported',
         d.from \subseteq imported'
  PROVE  proc' \in [Procs -> ProcType] /\ ProcReady'
  BY DEF ProcReady

\* An idle process is fit.
LEMMA Idle ==
  /\ NewBatch \in BatchType
  /\ IdleProc \in ProcType
  /\ IdleProc.pc = "idle" /\ IdleProc.from = {} /\ IdleProc.rounds = 0
<1>1. NewBatch \in BatchType
  BY DEF NewBatch, BatchType
<1> QED
  BY <1>1, BoundsOK DEF IdleProc, ProcType

\* A process that returns.
LEMMA Returned ==
  ASSUME proc \in [Procs -> ProcType], ProcReady, NEW p \in Procs,
         Return(p), imported \subseteq imported'
  PROVE  proc' \in [Procs -> ProcType] /\ ProcReady'
<1>1. 0 < MaxRounds
  BY BoundsOK
<1> QED
  BY <1>1, Idle, Moved DEF Return

\* A process that begins a scan.
LEMMA Scanning ==
  ASSUME proc \in [Procs -> ProcType], ProcReady, imported \subseteq Children,
         NEW p \in Procs, NEW mem \in BatchType,
         proc[p].rounds < MaxRounds, Scan(p, mem), UNCHANGED imported
  PROVE  proc' \in [Procs -> ProcType] /\ ProcReady'
<1> DEFINE d == [proc[p] EXCEPT !.pc = "scan", !.mem = mem, !.rounds = @ + 1,
                                !.from = imported]
<1>1. proc' = [proc EXCEPT ![p] = d]
  BY DEF Scan
<1>2. d \in ProcType
  <2>1. proc[p].rounds + 1 \in 0 .. MaxRounds
    BY BoundsOK DEF ProcType
  <2> QED
    BY <2>1 DEF ProcType
<1>3. d.pc = "scan" /\ d.from = imported
  BY DEF ProcType
<1> HIDE DEF d
<1> QED
  BY <1>1, <1>2, <1>3, Moved

\* A step of the scan's protocol keeps the types: one step for each action.
LEMMA ProcTypes ==
  ASSUME TypeInv, NEW p \in Procs, ProcStep(p)
  PROVE  TypeInv'
<1> USE DEF TypeInv
<1>0. /\ proc \in [Procs -> ProcType] /\ ProcReady /\ proc[p] \in ProcType
      /\ imported \subseteq Children /\ batch \in BatchType /\ proc[p].mem \in BatchType
      /\ proc[p].from \subseteq imported
  BY DEF TypeOK, ProcReady, ProcType
<1>1. ASSUME NEW s \in {"succeeded", "failed"}, EndChild(p, s) PROVE TypeInv'
  <2> DEFINE d == [proc[p] EXCEPT !.pc = "note", !.result = s]
  <2>1. proc[p].child \in Children
    BY <1>0, <1>1 DEF EndChild, At, ProcReady
  <2>2. /\ child' \in [Children -> {"absent", "waiting", "busy", "succeeded", "failed"}]
        /\ imported' \subseteq Children /\ imported \subseteq imported'
        /\ s = "succeeded" => proc[p].child \in imported'
    BY <1>1, <2>1 DEF EndChild, TypeOK
  <2>3. proc' = [proc EXCEPT ![p] = d]
    BY <1>1 DEF EndChild
  <2>4. /\ d \in ProcType
        /\ d.pc = "note" /\ d.result = s /\ d.child = proc[p].child
        /\ d.from = proc[p].from /\ d.rounds = proc[p].rounds
    BY <1>0 DEF ProcType
  <2>6. proc[p].rounds < MaxRounds
    BY <1>0, <1>1 DEF EndChild, At, ProcReady
  <2> HIDE DEF d
  <2>5. proc' \in [Procs -> ProcType] /\ ProcReady'
    BY <1>0, <2>1, <2>6, <2>2, <2>3, <2>4, Moved
  <2> QED
    BY <1>1, <2>2, <2>5 DEF EndChild, TypeOK
<1>2. CASE Note(p)
  <2> DEFINE d == [proc[p] EXCEPT !.pc = "look"]
  <2>1. batch' \in BatchType /\ noted' \subseteq imported
    <3>1. CASE proc[p].result = "succeeded"
      <4>1. proc[p].child \in imported
        BY <1>0, <1>2, <3>1 DEF Note, At, ProcReady
      <4>2. batch.dirty + 1 \in Nat
        BY <1>0 DEF BatchType
      <4> QED
        BY <1>0, <1>2, <3>1, <4>1, <4>2 DEF Note, TypeOK, BatchType
    <3>2. CASE proc[p].result # "succeeded"
      BY <1>2, <3>2 DEF Note, TypeOK
    <3> QED
      BY <3>1, <3>2
  <2>2. proc' = [proc EXCEPT ![p] = d]
    BY <1>2 DEF Note
  <2>3. d \in ProcType /\ d.pc = "look" /\ d.from = proc[p].from
        /\ d.rounds < MaxRounds
    BY <1>0, <1>2 DEF ProcType, ProcReady, Note, At
  <2> HIDE DEF d
  <2>4. proc' \in [Procs -> ProcType] /\ ProcReady'
    BY <1>0, <1>2, <2>2, <2>3, Moved DEF Note
  <2> QED
    BY <1>2, <2>1, <2>4 DEF Note, TypeOK
<1>3. CASE Look(p)
  <2> DEFINE d == [proc[p] EXCEPT !.pc = "ready", !.mem = batch]
  <2>1. d \in ProcType /\ d.pc = "ready" /\ d.from = proc[p].from
        /\ d.rounds = proc[p].rounds
    BY <1>0 DEF ProcType
  <2> HIDE DEF d
  <2>2. proc' \in [Procs -> ProcType] /\ ProcReady'
    <3>1. proc[p].rounds < MaxRounds
      BY <1>0, <1>3 DEF Look, At, ProcReady
    <3>2. CASE Outstanding(batch)
      BY <1>0, <1>3, <2>1, <3>1, <3>2, Moved DEF Look, d
    <3>3. CASE ~Outstanding(batch)
      BY <1>0, <1>3, <3>3, Returned DEF Look
    <3> QED
      BY <3>2, <3>3
  <2> QED
    BY <1>3, <2>2 DEF Look, TypeOK
<1>4. CASE LookAndRecover(p)
  <2>1. Claimed(Recovered(batch)) \in BatchType
    BY <1>0, RowType
  <2>2. proc[p].rounds < MaxRounds
    BY <1>0, <1>4 DEF LookAndRecover, At, ProcReady
  <2>3. batch' \in BatchType
    BY <1>0, <1>4, <2>1 DEF LookAndRecover
  <2>4. proc' \in [Procs -> ProcType] /\ ProcReady'
    <3>1. \/ Scan(p, Claimed(Recovered(batch)))
          \/ Return(p)
      BY <1>4 DEF LookAndRecover
    <3>2. UNCHANGED imported
      BY <1>4 DEF LookAndRecover
    <3> QED
      BY <1>0, <2>1, <2>2, <3>1, <3>2, Scanning, Returned
  <2> QED
    BY <1>4, <2>3, <2>4 DEF LookAndRecover, TypeOK
<1>5. CASE CheckChildren(p)
  <2> DEFINE d == [proc[p] EXCEPT !.pc = "claim"]
  <2>1. d \in ProcType /\ d.pc = "claim" /\ d.from = proc[p].from
        /\ d.rounds < MaxRounds
    BY <1>0, <1>5 DEF ProcType, ProcReady, CheckChildren, At
  <2>2. ChildrenReady(p) => proc' = [proc EXCEPT ![p] = d]
    BY <1>5 DEF CheckChildren
  <2>3. ~ChildrenReady(p) => Return(p)
    BY <1>5 DEF CheckChildren
  <2> HIDE DEF d
  <2>4. proc' \in [Procs -> ProcType] /\ ProcReady'
    BY <1>0, <1>5, <2>1, <2>2, <2>3, Moved, Returned DEF CheckChildren
  <2> QED
    BY <1>5, <2>4 DEF CheckChildren, TypeOK
<1>6. CASE Claim(p)
  <2> DEFINE mem == IF Claimable(proc[p].mem) THEN Claimed(proc[p].mem) ELSE proc[p].mem
  <2>1. Claimed(batch) \in BatchType /\ mem \in BatchType
    BY <1>0, RowType
  <2>2. proc[p].rounds < MaxRounds
    BY <1>0, <1>6 DEF Claim, At, ProcReady
  <2>3. Scan(p, mem) \/ Return(p)
    BY <1>6 DEF Claim
  <2> HIDE DEF mem
  <2>4. batch' \in BatchType
    BY <1>0, <1>6, <2>1 DEF Claim
  <2>5. proc' \in [Procs -> ProcType] /\ ProcReady'
    BY <1>0, <1>6, <2>1, <2>2, <2>3, Scanning, Returned DEF Claim
  <2> QED
    BY <1>6, <2>4, <2>5 DEF Claim, TypeOK
<1>7. CASE ScanSucceeds(p)
  <2> DEFINE m == proc[p].mem
             new == [m EXCEPT !.scanned = m.claimed, !.lease = "none",
                              !.status = IF m.dirty > m.claimed
                                         THEN "pending" ELSE "succeeded"]
             d == [proc[p] EXCEPT !.pc = "ready", !.mem = new]
  <2>1. new \in BatchType
    BY <1>0 DEF BatchType
  <2>2. batch' = Flushed(m, new) /\ seen' = seen \cup proc[p].from /\ UNCHANGED imported
    BY <1>7 DEF ScanSucceeds
  <2>3. \/ proc[p].rounds < MaxRounds /\ proc' = [proc EXCEPT ![p] = d]
        \/ Return(p)
    BY <1>7 DEF ScanSucceeds
  <2> HIDE DEF new
  <2>4. d \in ProcType /\ d.pc = "ready" /\ d.from = proc[p].from
        /\ d.rounds = proc[p].rounds
    BY <1>0, <2>1 DEF ProcType
  <2> HIDE DEF d
  <2>5. batch' \in BatchType
    BY <1>0, <2>1, <2>2, FlushedType
  <2>6. proc' \in [Procs -> ProcType] /\ ProcReady'
    BY <1>0, <2>2, <2>3, <2>4, Moved, Returned
  <2> QED
    BY <1>0, <1>7, <2>2, <2>5, <2>6 DEF ScanSucceeds, TypeOK
<1>8. CASE ScanFails(p)
  <2> DEFINE new == [proc[p].mem EXCEPT !.status = "failed", !.lease = "none"]
  <2>1. new \in BatchType
    BY <1>0, RowType
  <2>2. batch' = Flushed(proc[p].mem, new) /\ Return(p)
    BY <1>8 DEF ScanFails
  <2> HIDE DEF new
  <2>3. batch' \in BatchType
    BY <1>0, <2>1, <2>2, FlushedType
  <2>4. proc' \in [Procs -> ProcType] /\ ProcReady'
    BY <1>0, <1>8, <2>2, Returned DEF ScanFails
  <2> QED
    BY <1>8, <2>3, <2>4 DEF ScanFails, TypeOK
<1>9. CASE RetryWrite(p)
  <2> DEFINE new == Requested(proc[p].mem)
             d == [proc[p] EXCEPT !.pc = "ready", !.mem = new]
  <2>1. new \in BatchType
    BY <1>0, RowType
  <2>2. batch' = Flushed(proc[p].mem, new) /\ proc' = [proc EXCEPT ![p] = d]
    BY <1>9 DEF RetryWrite
  <2> HIDE DEF new
  <2>3. d \in ProcType /\ d.pc = "ready" /\ d.from = proc[p].from
        /\ d.rounds < MaxRounds
    BY <1>0, <1>9, <2>1 DEF ProcType, ProcReady, RetryWrite, At
  <2> HIDE DEF d
  <2>4. batch' \in BatchType
    BY <1>0, <2>1, <2>2, FlushedType
  <2>5. proc' \in [Procs -> ProcType] /\ ProcReady'
    BY <1>0, <1>9, <2>2, <2>3, Moved DEF RetryWrite
  <2>6. overwritten' \in BOOLEAN
    BY <1>9 DEF RetryWrite
  <2> QED
    BY <1>9, <2>4, <2>5, <2>6 DEF RetryWrite, TypeOK
<1> QED
  BY <1>1, <1>2, <1>3, <1>4, <1>5, <1>6, <1>7, <1>8, <1>9 DEF ProcStep

\* The rest of the steps keep the types: submission, retries, time and deaths.
LEMMA OtherTypes ==
  ASSUME TypeInv,
         \/ \E c \in Children : AddChild(c) \/ RetryChild(c)
         \/ \E w \in Workers, c \in Children : StartChild(w, c)
         \/ \E r \in Clients : RetryScan(r) \/ RetryStaleScan(r)
         \/ Expire
         \/ \E p \in Procs : Crash(p)
  PROVE  TypeInv'
<1> USE DEF TypeInv
<1>0. /\ proc \in [Procs -> ProcType] /\ ProcReady
      /\ imported \subseteq Children /\ batch \in BatchType
      /\ \A p \in Procs : proc[p] \in ProcType /\ proc[p].mem \in BatchType
      /\ 0 < MaxRounds
      /\ Workers \subseteq Procs /\ Clients \subseteq Procs
  BY BoundsOK DEF TypeOK, ProcType, Procs
<1>1. ASSUME NEW c \in Children, AddChild(c) \/ RetryChild(c) PROVE TypeInv'
  <2>1. UNCHANGED <<proc, imported>>
    BY <1>1 DEF AddChild, RetryChild
  <2>2. ProcReady'
    BY <1>0, <2>1 DEF ProcReady
  <2> QED
    BY <1>1, <2>1, <2>2 DEF AddChild, RetryChild, TypeOK
<1>2. ASSUME NEW w \in Workers, NEW c \in Children, StartChild(w, c) PROVE TypeInv'
  <2> DEFINE d == [IdleProc EXCEPT !.pc = "work", !.child = c]
  <2>1. d \in ProcType /\ d.pc = "work" /\ d.child = c /\ d.from = {} /\ d.rounds = 0
    BY Idle DEF ProcType
  <2>2. proc' = [proc EXCEPT ![w] = d] /\ UNCHANGED imported
    BY <1>2 DEF StartChild
  <2> HIDE DEF d
  <2>3. proc' \in [Procs -> ProcType] /\ ProcReady'
    BY <1>0, <2>1, <2>2, Moved
  <2>4. batch' \in BatchType
    BY <1>0, <1>2, RowType DEF StartChild
  <2> QED
    BY <1>2, <2>3, <2>4 DEF StartChild, TypeOK
<1>3. ASSUME NEW r \in Clients, RetryScan(r) PROVE TypeInv'
  <2> DEFINE d == [IdleProc EXCEPT !.pc = "retryWrite", !.mem = batch]
  <2>1. d \in ProcType /\ d.pc = "retryWrite" /\ d.from = {} /\ d.rounds = 0
    BY <1>0, Idle DEF ProcType
  <2>2. proc' = [proc EXCEPT ![r] = d] /\ UNCHANGED imported
    BY <1>3 DEF RetryScan
  <2> HIDE DEF d
  <2>3. proc' \in [Procs -> ProcType] /\ ProcReady'
    BY <1>0, <2>1, <2>2, Moved
  <2> QED
    BY <1>3, <2>3 DEF RetryScan, TypeOK
<1>4. ASSUME NEW r \in Clients, RetryStaleScan(r) PROVE TypeInv'
  <2> DEFINE b == Requested(Recovered(batch))
             d == [IdleProc EXCEPT !.pc = "ready", !.mem = b]
  <2>1. b \in BatchType
    BY <1>0, RowType
  <2>2. /\ batch' = b
        /\ proc' = [proc EXCEPT ![r] = d]
        /\ UNCHANGED imported
    BY <1>4 DEF RetryStaleScan
  <2> HIDE DEF b
  <2>3. d \in ProcType /\ d.pc = "ready" /\ d.from = {} /\ d.rounds = 0
    BY <2>1, Idle DEF ProcType
  <2> HIDE DEF d
  <2>4. proc' \in [Procs -> ProcType] /\ ProcReady'
    BY <1>0, <2>2, <2>3, Moved
  <2> QED
    BY <1>4, <2>1, <2>2, <2>4 DEF RetryStaleScan, TypeOK
<1>5. CASE Expire
  <2>1. batch' \in BatchType
    BY <1>0, <1>5 DEF Expire, BatchType
  <2>2. \A p \in Procs :
           /\ proc'[p] \in ProcType
           /\ proc'[p].pc = proc[p].pc /\ proc'[p].rounds = proc[p].rounds
           /\ proc'[p].child = proc[p].child /\ proc'[p].result = proc[p].result
           /\ proc'[p].from = proc[p].from
    <3> TAKE p \in Procs
    <3>1. proc'[p] \in {proc[p], [proc[p] EXCEPT !.mem.lease = "over"]}
      BY <1>5 DEF Expire
    <3>2. [proc[p].mem EXCEPT !.lease = "over"] \in BatchType
      BY <1>0 DEF BatchType
    <3> QED
      BY <1>0, <3>1, <3>2 DEF ProcType
  <2>3. DOMAIN proc' = Procs /\ proc' = [p \in Procs |-> proc'[p]]
    BY <1>5 DEF Expire
  <2>4. proc' \in [Procs -> ProcType] /\ ProcReady'
    BY <1>0, <1>5, <2>2, <2>3 DEF ProcReady, Expire
  <2> QED
    BY <1>5, <2>1, <2>4 DEF Expire, TypeOK
<1>6. ASSUME NEW p \in Procs, Crash(p) PROVE TypeInv'
  <2>1. proc' \in [Procs -> ProcType] /\ ProcReady'
    BY <1>0, <1>6, Returned DEF Crash
  <2>2. crashes' \in 0 .. MaxCrashes
    BY <1>6, BoundsOK DEF Crash, TypeOK
  <2>3. child' \in [Children -> {"absent", "waiting", "busy", "succeeded", "failed"}]
    BY <1>6 DEF Crash, TypeOK
  <2> QED
    BY <1>6, <2>1, <2>2, <2>3 DEF Crash, TypeOK
<1> QED
  BY <1>1, <1>2, <1>3, <1>4, <1>5, <1>6

\* The batch before its first child has the types.
LEMMA TypesInit == Init => TypeInv
<1> SUFFICES ASSUME Init PROVE TypeInv
  OBVIOUS
<1>1. batch \in BatchType /\ proc \in [Procs -> ProcType]
  BY Idle DEF Init
<1>2. ProcReady
  BY Idle, BoundsOK DEF Init, ProcReady
<1>3. crashes \in 0 .. MaxCrashes
  BY BoundsOK DEF Init
<1> QED
  BY <1>1, <1>2, <1>3 DEF Init, TypeInv, TypeOK

\* Every step keeps the types.
LEMMA TypesStep == TypeInv /\ [Next]_vars => TypeInv'
<1>1. CASE UNCHANGED vars
  BY <1>1 DEF vars, TypeInv, TypeOK, ProcReady
<1> QED
  BY <1>1, ProcTypes, OtherTypes DEF Next

\* The row, the copies of it and the processes keep their types: the rounds of a
\* scan stay within their bound, and only successes are ever counted or scanned.
THEOREM ScanTypes == Spec => []TypeOK
<1>1. TypeInv => TypeOK
  BY DEF TypeInv
<1> QED
  BY <1>1, TypesInit, TypesStep, PTL DEF Spec

-----------------------------------------------------------------------------
(* One scan at a time *)

\* The row shows a scan in flight as running under a live lease, which is what
\* keeps _claim_batch_scan and recover_stale_abs_leases off it.
ScanHeld == \A p \in Procs : At(p, "scan") => batch.status = "running" /\ batch.lease = "live"

Single == \A p, q \in Procs : At(p, "scan") /\ At(q, "scan") => p = q

ScanInv == Single /\ ScanHeld

\* No process enters a scan, and the row of a scan in flight is left as it is.
Undisturbed ==
    /\ \A p \in Procs : At(p, "scan")' => At(p, "scan")
    /\ (\E p \in Procs : At(p, "scan"))
       => batch'.status = batch.status /\ batch'.lease = batch.lease

\* Such a step keeps ScanInv.
LEMMA QuietStep ==
  ASSUME ScanInv, Undisturbed
  PROVE  ScanInv'
  BY DEF ScanInv, Single, ScanHeld, Undisturbed

\* While a scan is in flight the row can be neither claimed nor recovered.
LEMMA NoClaim ==
  ASSUME ScanInv, NEW p \in Procs, At(p, "scan")
  PROVE  ~Stale(batch) /\ ~Claimable(batch)
  BY DEF ScanInv, ScanHeld, Stale, Claimable

\* A process that has won the claim is the only one in a scan.
LEMMA ClaimedStep ==
  ASSUME TypeInv, ScanInv, NEW p \in Procs, NEW mem, NEW b \in BatchType,
         \A q \in Procs : ~At(q, "scan"),
         Scan(p, mem), batch' = Claimed(b)
  PROVE  ScanInv'
<1>1. \A q \in Procs : At(q, "scan")' => q = p
  BY DEF Scan, At, TypeInv, TypeOK
<1>2. batch'.status = "running" /\ batch'.lease = "live"
  BY DEF Claimed, BatchType
<1> QED
  BY <1>1, <1>2 DEF ScanInv, Single, ScanHeld

\* A scan that ends leaves none in flight.
LEMMA EndedStep ==
  ASSUME TypeInv, ScanInv, NEW p \in Procs, At(p, "scan"),
         NEW d, d.pc # "scan", proc' = [proc EXCEPT ![p] = d]
  PROVE  ScanInv'
<1>1. \A q \in Procs : ~At(q, "scan")'
  BY DEF ScanInv, Single, At, TypeInv, TypeOK
<1> QED
  BY <1>1 DEF ScanInv, Single, ScanHeld

\* A step of a worker keeps ScanInv.
LEMMA WorkerScan ==
  ASSUME TypeInv, ScanInv, NEW p \in Procs, ProcStep(p), ~RetryWrite(p)
  PROVE  ScanInv'
<1>0. /\ proc \in [Procs -> ProcType] /\ proc[p] \in ProcType
      /\ batch \in BatchType /\ IdleProc.pc = "idle"
  BY Idle DEF TypeInv, TypeOK
<1>1. CASE \E s \in {"succeeded", "failed"} : EndChild(p, s)
  BY <1>0, <1>1, QuietStep DEF EndChild, Undisturbed, At, ProcType
<1>2. CASE Note(p)
  <2>1. batch'.lease = batch.lease
        /\ (batch.status = "running" => batch'.status = batch.status)
    BY <1>0, <1>2 DEF Note, BatchType
  <2>2. \A q \in Procs : At(q, "scan")' => At(q, "scan")
    BY <1>0, <1>2 DEF Note, At, ProcType
  <2> QED
    BY <2>1, <2>2, QuietStep DEF Undisturbed, ScanInv, ScanHeld
<1>3. CASE Look(p)
  BY <1>0, <1>3, QuietStep DEF Look, Return, Undisturbed, At, ProcType
<1>4. CASE LookAndRecover(p)
  <2>1. \A q \in Procs : ~At(q, "scan")
    BY <1>4, NoClaim DEF LookAndRecover
  <2>2. CASE Scan(p, Claimed(Recovered(batch))) /\ batch' = Claimed(Recovered(batch))
    BY <1>0, <2>1, <2>2, ClaimedStep, RowType
  <2>3. CASE Return(p) /\ UNCHANGED batch
    BY <1>0, <2>3, QuietStep DEF Return, Undisturbed, At
  <2> QED
    BY <1>4, <2>2, <2>3 DEF LookAndRecover
<1>5. CASE CheckChildren(p)
  BY <1>0, <1>5, QuietStep DEF CheckChildren, Return, Undisturbed, At, ProcType
<1>6. CASE Claim(p)
  <2>1. CASE Claimable(batch)
    <3>1. \A q \in Procs : ~At(q, "scan")
      BY <2>1, NoClaim
    <3> QED
      BY <1>0, <1>6, <2>1, <3>1, ClaimedStep DEF Claim
  <2>2. CASE ~Claimable(batch)
    BY <1>0, <1>6, <2>2, QuietStep DEF Claim, Return, Undisturbed, At
  <2> QED
    BY <2>1, <2>2
<1>7. CASE ScanSucceeds(p) \/ ScanFails(p)
  <2>1. PICK d : d.pc # "scan" /\ proc' = [proc EXCEPT ![p] = d]
    <3>1. CASE Return(p)
      BY <1>0, <3>1 DEF Return
    <3>2. CASE ~Return(p)
      <4>1. PICK new : proc' = [proc EXCEPT ![p] =
                                  [proc[p] EXCEPT !.pc = "ready", !.mem = new]]
        BY <1>7, <3>2 DEF ScanSucceeds, ScanFails
      <4>2. [proc[p] EXCEPT !.pc = "ready", !.mem = new].pc = "ready"
        BY <1>0 DEF ProcType
      <4> QED
        BY <4>1, <4>2
    <3> QED
      BY <3>1, <3>2
  <2> QED
    BY <1>7, <2>1, EndedStep DEF ScanSucceeds, ScanFails
<1> QED
  BY <1>1, <1>2, <1>3, <1>4, <1>5, <1>6, <1>7 DEF ProcStep

\* Recovery at the start of a run, expiry and deaths keep ScanInv: a lease runs
\* out only when no request is in flight.
LEMMA OtherScan ==
  ASSUME TypeInv, ScanInv,
         \/ \E c \in Children : AddChild(c) \/ RetryChild(c)
         \/ \E w \in Workers, c \in Children : StartChild(w, c)
         \/ Expire
         \/ \E p \in Procs : Crash(p)
  PROVE  ScanInv'
<1>0. proc \in [Procs -> ProcType] /\ IdleProc \in ProcType /\ IdleProc.pc = "idle"
  BY Idle DEF TypeInv, TypeOK
<1>1. ASSUME NEW c \in Children, AddChild(c) \/ RetryChild(c) PROVE ScanInv'
  BY <1>1, QuietStep DEF AddChild, RetryChild, Undisturbed, At
<1>2. ASSUME NEW w \in Workers, NEW c \in Children, StartChild(w, c) PROVE ScanInv'
  <2>1. (\E p \in Procs : At(p, "scan")) => batch' = batch
    BY <1>2, NoClaim DEF StartChild, Recovered
  <2>2. [IdleProc EXCEPT !.pc = "work", !.child = c].pc = "work"
    BY <1>0 DEF ProcType
  <2>3. \A p \in Procs : At(p, "scan")' => At(p, "scan")
    BY <1>0, <1>2, <2>2 DEF StartChild, At
  <2> QED
    BY <2>1, <2>3, QuietStep DEF Undisturbed
<1>3. CASE Expire
  <2>1. \A p \in Procs : proc'[p].pc = proc[p].pc
    BY <1>0, <1>3 DEF Expire, ProcType
  <2> QED
    BY <1>3, <2>1, QuietStep DEF Expire, Undisturbed, At
<1>4. ASSUME NEW p \in Procs, Crash(p) PROVE ScanInv'
  BY <1>0, <1>4, QuietStep DEF Crash, Return, Undisturbed, At
<1> QED
  BY <1>1, <1>2, <1>3, <1>4

\* A retry goes on only from a row that did not show a running scan.
RetryIdle == \A p \in Procs : At(p, "retryWrite") => proc[p].mem.status # "running"

\* Every step keeps it: only RetryScan leads there.
LEMMA RetryStep ==
  ASSUME TypeInv, RetryIdle, Next
  PROVE  RetryIdle'
<1>0. /\ proc \in [Procs -> ProcType] /\ IdleProc \in ProcType /\ IdleProc.pc = "idle"
      /\ \A p \in Procs : proc[p] \in ProcType
  BY Idle DEF TypeInv, TypeOK
<1> DEFINE Elsewhere(p) == /\ proc'[p].pc # "retryWrite"
                           /\ \A q \in Procs \ {p} : proc'[q] = proc[q]
<1>1. \A p \in Procs : Elsewhere(p) => RetryIdle'
  BY DEF RetryIdle, At
<1>2. \A p \in Procs : Return(p) => Elsewhere(p)
  BY <1>0 DEF Return
<1>3. \A p \in Procs : \A mem : Scan(p, mem) => Elsewhere(p)
  BY <1>0 DEF Scan, ProcType
<1>4. ASSUME NEW p \in Procs, ProcStep(p) PROVE RetryIdle'
  <2>1. CASE LookAndRecover(p) \/ Claim(p) \/ ScanFails(p)
    BY <1>1, <1>2, <1>3, <2>1 DEF LookAndRecover, Claim, ScanFails
  <2>2. CASE ~(LookAndRecover(p) \/ Claim(p) \/ ScanFails(p)) /\ ~Return(p)
    <3>1. Elsewhere(p)
      BY <1>0, <1>4, <2>2 DEF ProcStep, EndChild, Note, Look, CheckChildren, ScanSucceeds,
                              RetryWrite, ProcType
    <3> QED
      BY <1>1, <3>1
  <2>3. CASE Return(p)
    BY <1>1, <1>2, <2>3
  <2> QED
    BY <2>1, <2>2, <2>3
<1>5. ASSUME NEW c \in Children, AddChild(c) \/ RetryChild(c) PROVE RetryIdle'
  BY <1>5 DEF AddChild, RetryChild, RetryIdle, At
<1>6. ASSUME NEW w \in Workers, NEW c \in Children, StartChild(w, c) PROVE RetryIdle'
  <2>1. w \in Procs /\ Elsewhere(w)
    BY <1>0, <1>6 DEF StartChild, ProcType, Procs
  <2> QED
    BY <1>1, <2>1
<1>7. ASSUME NEW r \in Clients, RetryScan(r) \/ RetryStaleScan(r) PROVE RetryIdle'
  <2>1. r \in Procs /\ \A q \in Procs \ {r} : proc'[q] = proc[q]
    BY <1>0, <1>7 DEF RetryScan, RetryStaleScan, Procs
  <2>2. CASE RetryScan(r)
    <3>1. proc'[r].mem = batch /\ batch.status # "running"
      BY <1>0, <2>1, <2>2 DEF RetryScan, ProcType
    <3> QED
      BY <2>1, <3>1 DEF RetryIdle, At
  <2>3. CASE RetryStaleScan(r)
    <3>1. proc'[r].pc = "ready"
      BY <1>0, <2>1, <2>3 DEF RetryStaleScan, ProcType
    <3> QED
      BY <1>1, <2>1, <3>1
  <2> QED
    BY <1>7, <2>2, <2>3
<1>8. CASE Expire
  <2>1. \A p \in Procs : proc'[p].pc = proc[p].pc /\ proc'[p].mem.status = proc[p].mem.status
    BY <1>0, <1>8 DEF Expire, ProcType, BatchType
  <2> QED
    BY <2>1 DEF RetryIdle, At
<1>9. ASSUME NEW p \in Procs, Crash(p) PROVE RetryIdle'
  BY <1>1, <1>2, <1>9 DEF Crash
<1> QED
  BY <1>4, <1>5, <1>6, <1>7, <1>8, <1>9 DEF Next

\* A step of a client at the row keeps ScanInv, unless it overwrites a row that
\* has changed: a row it may write to has no scan in flight.
LEMMA ClientScan ==
  ASSUME TypeInv, RetryIdle, ScanInv, NEW r \in Procs,
         RetryScan(r) \/ RetryStaleScan(r) \/ RetryWrite(r), ~overwritten'
  PROVE  ScanInv'
<1>0. proc \in [Procs -> ProcType] /\ IdleProc \in ProcType
  BY Idle DEF TypeInv, TypeOK
<1>1. /\ \A q \in Procs \ {r} : proc'[q] = proc[q]
      /\ proc'[r].pc # "scan"
  BY <1>0 DEF RetryScan, RetryStaleScan, RetryWrite, ProcType
<1>2. \A q \in Procs : At(q, "scan")' => At(q, "scan")
  BY <1>1 DEF At
<1>3. CASE RetryScan(r)
  BY <1>2, <1>3, QuietStep DEF RetryScan, Undisturbed
<1>4. CASE RetryStaleScan(r) \/ RetryWrite(r)
  <2>1. RetryWrite(r) => batch.status # "running"
    BY DEF RetryWrite, RetryIdle
  <2>2. \A q \in Procs : ~At(q, "scan")
    BY <1>4, <2>1, NoClaim DEF RetryStaleScan, ScanInv, ScanHeld
  <2> QED
    BY <1>2, <2>2 DEF ScanInv, Single, ScanHeld
<1> QED
  BY <1>3, <1>4

\* What was overwritten stays so.
LEMMA OverwrittenStays == Next /\ ~overwritten' => ~overwritten
BY DEF Next, ProcStep, AddChild, RetryChild, StartChild, EndChild, Note, Look, LookAndRecover,
       CheckChildren, Claim, ScanSucceeds, ScanFails, RetryScan, RetryStaleScan, RetryWrite,
       Expire, Crash

\* Two scans of a batch are never in flight together, however many workers and
\* clients there are, die, or act on old copies of the row, as long as no retry
\* overwrites what it has not read.
THEOREM OneScanKept == Spec => []OneScan
<1> DEFINE Inv == TypeInv /\ RetryIdle /\ (~overwritten => ScanInv)
<1>1. Init => Inv
  BY Idle, TypesInit DEF Init, RetryIdle, ScanInv, Single, ScanHeld, At
<1>2. Inv /\ [Next]_vars => Inv'
  <2> SUFFICES ASSUME Inv, [Next]_vars PROVE Inv'
    OBVIOUS
  <2>1. CASE UNCHANGED vars
    BY <2>1, TypesStep DEF vars, RetryIdle, ScanInv, Single, ScanHeld, At
  <2>2. CASE Next
    <3>1. ASSUME ~overwritten' PROVE ScanInv'
      <4>1. ScanInv
        BY <2>2, <3>1, OverwrittenStays
      <4>2. \/ \E r \in Procs : RetryScan(r) \/ RetryStaleScan(r) \/ RetryWrite(r)
            \/ \E p \in Procs : ProcStep(p) /\ ~RetryWrite(p)
            \/ \E c \in Children : AddChild(c) \/ RetryChild(c)
            \/ \E w \in Workers, c \in Children : StartChild(w, c)
            \/ Expire
            \/ \E p \in Procs : Crash(p)
        BY <2>2 DEF Next, Procs
      <4> QED
        BY <3>1, <4>1, <4>2, ClientScan, WorkerScan, OtherScan
    <3> QED
      BY <2>2, <3>1, TypesStep, RetryStep
  <2> QED
    BY <2>1, <2>2
<1>3. Inv => OneScan
  BY DEF ScanInv, Single, OneScan
<1> QED
  BY <1>1, <1>2, <1>3, PTL DEF Spec

-----------------------------------------------------------------------------
(* What is shown as scanned *)

\* No generation is ahead of the row's count of successes, in the row or in a copy.
Within(b) == b.dirty <= batch.dirty /\ b.claimed <= batch.dirty

Counted ==
    /\ Within(batch)
    /\ batch.scanned <= batch.dirty
    /\ \A p \in Procs : Within(proc[p].mem)

\* A scan in flight that is still up to date began with every counted success in
\* the library.
ScanCovers ==
    \A p \in Procs : At(p, "scan") /\ batch.dirty <= proc[p].mem.claimed => noted \subseteq proc[p].from

\* Nothing outstanding means that all was scanned, whatever the status.
CaughtUp == ~Outstanding(batch) => noted \subseteq seen

SeenInv == Counted /\ ScanCovers /\ CaughtUp

\* The generations of the row stay, scans in flight stay as they began, and only
\* copies of the row or of no row are taken.
Still ==
    /\ batch'.dirty = batch.dirty /\ batch'.scanned = batch.scanned
    /\ Within(batch)'
    /\ noted' = noted /\ seen \subseteq seen'
    /\ \A p \in Procs :
          /\ At(p, "scan")' => /\ At(p, "scan")
                              /\ proc'[p].mem.claimed = proc[p].mem.claimed
                              /\ proc'[p].from = proc[p].from
          /\ Within(proc[p].mem)'

\* Such a step keeps SeenInv.
LEMMA StillStep ==
  ASSUME SeenInv, Still
  PROVE  SeenInv'
  BY DEF SeenInv, Counted, ScanCovers, CaughtUp, Still, Outstanding

\* A process that returns is Still, for it forgets its copy.
LEMMA ReturnStill ==
  ASSUME TypeInv, SeenInv, NEW p \in Procs, Return(p),
         batch'.dirty = batch.dirty, batch'.scanned = batch.scanned,
         batch'.claimed = batch.claimed, noted' = noted, seen \subseteq seen'
  PROVE  SeenInv'
<1>1. /\ proc \in [Procs -> ProcType] /\ batch \in BatchType
      /\ IdleProc.pc = "idle" /\ IdleProc.mem = NewBatch
  BY Idle DEF TypeInv, TypeOK, IdleProc
<1>2. NewBatch.dirty <= batch.dirty /\ NewBatch.claimed <= batch.dirty
  BY <1>1 DEF NewBatch, BatchType
<1>3. \A q \in Procs : q # p => proc'[q] = proc[q]
  BY <1>1 DEF Return
<1>4. proc'[p] = IdleProc
  BY <1>1 DEF Return
<1> QED
  BY <1>1, <1>2, <1>3, <1>4, StillStep DEF Still, SeenInv, Counted, Within, At

\* A claim takes a generation no later than the count, and the scan begins with
\* all that was counted: what is counted was imported before.
LEMMA ClaimCovers ==
  ASSUME TypeInv, SeenInv, NEW p \in Procs, NEW mem \in BatchType, Within(mem),
         Scan(p, mem), batch'.dirty = batch.dirty, batch'.scanned = batch.scanned,
         batch'.claimed = batch.dirty, UNCHANGED <<imported, noted, seen>>
  PROVE  SeenInv'
<1>1. /\ proc \in [Procs -> ProcType] /\ batch \in BatchType /\ noted \subseteq imported
  BY DEF TypeInv, TypeOK
<1>2. \A q \in Procs : q # p => proc'[q] = proc[q]
  BY <1>1 DEF Scan
<1>3. proc'[p].mem = mem /\ proc'[p].from = imported
  BY <1>1 DEF Scan, ProcType
<1> QED
  BY <1>1, <1>2, <1>3 DEF SeenInv, Counted, ScanCovers, CaughtUp, Outstanding, Within, At,
                          BatchType

\* A step of a worker keeps SeenInv.
LEMMA WorkerSeen ==
  ASSUME TypeInv, SeenInv, NEW p \in Procs, ProcStep(p), ~RetryWrite(p)
  PROVE  SeenInv'
<1>0. /\ proc \in [Procs -> ProcType] /\ proc[p] \in ProcType /\ batch \in BatchType
      /\ proc[p].mem \in BatchType
      /\ Within(batch) /\ Within(proc[p].mem) /\ batch.scanned <= batch.dirty
  BY DEF TypeInv, TypeOK, ProcType, SeenInv, Counted
<1>1. CASE \E s \in {"succeeded", "failed"} : EndChild(p, s)
  BY <1>0, <1>1, StillStep DEF EndChild, Still, At, ProcType, SeenInv, Counted, Within
<1>2. CASE Note(p)
  <2>1. \A q \in Procs : /\ proc'[q].mem = proc[q].mem /\ proc'[q].from = proc[q].from
                         /\ At(q, "scan")' => At(q, "scan")
    BY <1>0, <1>2 DEF Note, At, ProcType
  <2>2. CASE proc[p].result = "succeeded"
    <3>1. /\ batch'.dirty = batch.dirty + 1 /\ batch'.scanned = batch.scanned
          /\ batch'.claimed = batch.claimed
      BY <1>0, <1>2, <2>2 DEF Note, BatchType
    <3>2. \A q \in Procs : proc[q].mem \in BatchType
      BY <1>0 DEF ProcType
    <3> QED
      BY <1>0, <2>1, <3>1, <3>2 DEF SeenInv, Counted, ScanCovers, CaughtUp, Outstanding, Within,
                                    BatchType
  <2>3. CASE proc[p].result # "succeeded"
    BY <1>0, <1>2, <2>1, <2>3, StillStep DEF Note, Still, SeenInv, Counted, Within
  <2> QED
    BY <2>2, <2>3
<1>3. CASE Look(p)
  <2>1. CASE Return(p)
    BY <1>3, <2>1, ReturnStill DEF Look
  <2>2. CASE proc' = [proc EXCEPT ![p].pc = "ready", ![p].mem = batch]
    <3>1. proc'[p].pc = "ready" /\ proc'[p].mem = batch
      BY <1>0, <2>2 DEF ProcType
    <3>2. \A q \in Procs : q # p => proc'[q] = proc[q]
      BY <1>0, <2>2
    <3> QED
      BY <1>0, <1>3, <3>1, <3>2, StillStep DEF Look, Still, At, SeenInv, Counted, Within
  <2> QED
    BY <1>3, <2>1, <2>2 DEF Look
<1>4. CASE LookAndRecover(p)
  <2> DEFINE b == Recovered(batch)
  <2>1. /\ b \in BatchType /\ Claimed(b) \in BatchType
    BY <1>0, RowType
  <2>2. b.dirty = batch.dirty /\ b.scanned = batch.scanned /\ b.claimed = batch.claimed
    BY <1>0 DEF Recovered, BatchType
  <2>3. /\ Claimed(b).dirty = batch.dirty /\ Claimed(b).scanned = batch.scanned
        /\ Claimed(b).claimed = batch.dirty
    BY <2>1, <2>2 DEF Claimed, BatchType
  <2>4. CASE Scan(p, Claimed(b)) /\ batch' = Claimed(b)
    BY <1>0, <1>4, <2>1, <2>3, <2>4, ClaimCovers DEF LookAndRecover, Within, BatchType
  <2>5. CASE Return(p) /\ UNCHANGED batch
    BY <1>4, <2>5, ReturnStill DEF LookAndRecover
  <2> QED
    BY <1>4, <2>4, <2>5 DEF LookAndRecover
<1>5. CASE CheckChildren(p)
  <2>1. CASE Return(p)
    BY <1>5, <2>1, ReturnStill DEF CheckChildren
  <2>2. CASE proc' = [proc EXCEPT ![p].pc = "claim"]
    BY <1>0, <1>5, <2>2, StillStep DEF CheckChildren, Still, At, ProcType, SeenInv, Counted, Within
  <2> QED
    BY <1>5, <2>1, <2>2 DEF CheckChildren
<1>6. CASE Claim(p)
  <2> DEFINE m == proc[p].mem
             mem == IF Claimable(m) THEN Claimed(m) ELSE m
  <2>1. mem \in BatchType
    BY <1>0, RowType
  <2>2. Within(mem)
    BY <1>0 DEF Within, Claimed, BatchType
  <2>3. CASE Scan(p, mem) /\ batch' = Claimed(batch)
    <3>1. /\ batch'.dirty = batch.dirty /\ batch'.scanned = batch.scanned
          /\ batch'.claimed = batch.dirty
      BY <1>0, <2>3 DEF Claimed, BatchType
    <3> HIDE DEF mem
    <3> QED
      BY <1>6, <2>1, <2>2, <2>3, <3>1, ClaimCovers DEF Claim
  <2>4. CASE Return(p) /\ UNCHANGED batch
    BY <1>6, <2>4, ReturnStill DEF Claim
  <2> QED
    BY <1>6, <2>3, <2>4 DEF Claim
<1>7. CASE ScanSucceeds(p)
  <2> DEFINE m == proc[p].mem
             new == [m EXCEPT !.scanned = m.claimed, !.lease = "none",
                              !.status = IF m.dirty > m.claimed THEN "pending" ELSE "succeeded"]
  <2>1. /\ new \in BatchType
        /\ new.dirty = m.dirty /\ new.claimed = m.claimed /\ new.scanned = m.claimed
    BY <1>0 DEF BatchType
  <2>2. batch' = Flushed(m, new)
    BY <1>7 DEF ScanSucceeds
  <2> HIDE DEF new
  <2>3. /\ batch'.dirty = batch.dirty /\ batch'.claimed = batch.claimed
        /\ batch'.scanned = batch.scanned \/ batch'.scanned = m.claimed
    BY <1>0, <2>1, <2>2 DEF Flushed, BatchType
  <2>4. Within(batch)' /\ batch'.scanned <= batch'.dirty
    BY <1>0, <2>3 DEF Within
  <2>5. CaughtUp'
    <3>1. seen' = seen \cup proc[p].from /\ noted' = noted /\ At(p, "scan")
      BY <1>7 DEF ScanSucceeds
    <3> QED
      BY <1>0, <2>3, <3>1 DEF CaughtUp, Outstanding, SeenInv, ScanCovers, BatchType
  <2>6. /\ \A q \in Procs : q # p => proc'[q] = proc[q]
        /\ proc'[p].pc # "scan"
        /\ proc'[p].mem = new \/ proc'[p].mem = NewBatch
    <3>1. CASE Return(p)
      BY <1>0, <3>1, Idle DEF Return, IdleProc
    <3>2. CASE proc' = [proc EXCEPT ![p].pc = "ready", ![p].mem = new]
      BY <1>0, <3>2 DEF ProcType
    <3> QED
      BY <1>7, <3>1, <3>2 DEF ScanSucceeds, new
  <2>7. Within(proc[p].mem)'
    BY <1>0, <2>1, <2>3, <2>6 DEF Within, NewBatch, BatchType
  <2> QED
    BY <1>7, <2>3, <2>4, <2>5, <2>6, <2>7 DEF ScanSucceeds, SeenInv, Counted, ScanCovers, Within, At
<1>8. CASE ScanFails(p)
  <2> DEFINE m == proc[p].mem
             new == [m EXCEPT !.status = "failed", !.lease = "none"]
  <2>1. new.dirty = m.dirty /\ new.claimed = m.claimed /\ new.scanned = m.scanned
    BY <1>0 DEF BatchType
  <2>2. batch' = Flushed(m, new)
    BY <1>8 DEF ScanFails
  <2> HIDE DEF new
  <2>3. /\ batch'.dirty = batch.dirty /\ batch'.claimed = batch.claimed
        /\ batch'.scanned = batch.scanned
    BY <1>0, <2>1, <2>2 DEF Flushed, BatchType
  <2> QED
    BY <1>8, <2>3, ReturnStill DEF ScanFails
<1> QED
  BY <1>1, <1>2, <1>3, <1>4, <1>5, <1>6, <1>7, <1>8 DEF ProcStep

\* Children, recovery at the start of a run, expiry and deaths keep SeenInv.
LEMMA OtherSeen ==
  ASSUME TypeInv, SeenInv,
         \/ \E c \in Children : AddChild(c) \/ RetryChild(c)
         \/ \E w \in Workers, c \in Children : StartChild(w, c)
         \/ Expire
         \/ \E p \in Procs : Crash(p)
  PROVE  SeenInv'
<1>0. /\ proc \in [Procs -> ProcType] /\ batch \in BatchType
      /\ IdleProc \in ProcType /\ IdleProc.pc = "idle" /\ IdleProc.mem = NewBatch
      /\ Counted
  BY Idle DEF TypeInv, TypeOK, IdleProc, SeenInv
<1>1. ASSUME NEW c \in Children, AddChild(c) \/ RetryChild(c) PROVE SeenInv'
  BY <1>0, <1>1, StillStep DEF AddChild, RetryChild, Still, At, Counted, Within
<1>2. ASSUME NEW w \in Workers, NEW c \in Children, StartChild(w, c) PROVE SeenInv'
  <2>1. /\ batch'.dirty = batch.dirty /\ batch'.scanned = batch.scanned
        /\ batch'.claimed = batch.claimed
    BY <1>0, <1>2 DEF StartChild, Recovered, BatchType
  <2>2. proc'[w].pc = "work" /\ proc'[w].mem = NewBatch
    BY <1>0, <1>2 DEF StartChild, ProcType, Procs
  <2>3. \A q \in Procs : q # w => proc'[q] = proc[q]
    BY <1>0, <1>2 DEF StartChild
  <2>4. Within(NewBatch)'
    BY <1>0, <2>1 DEF Within, NewBatch, BatchType
  <2> QED
    BY <1>0, <1>2, <2>1, <2>2, <2>3, <2>4, StillStep DEF StartChild, Still, At, Counted, Within
<1>3. CASE Expire
  <2>1. /\ batch'.dirty = batch.dirty /\ batch'.scanned = batch.scanned
        /\ batch'.claimed = batch.claimed
    BY <1>0, <1>3 DEF Expire, BatchType
  <2>2. \A p \in Procs : /\ proc'[p].pc = proc[p].pc /\ proc'[p].from = proc[p].from
                         /\ proc'[p].mem.dirty = proc[p].mem.dirty
                         /\ proc'[p].mem.claimed = proc[p].mem.claimed
    BY <1>0, <1>3 DEF Expire, ProcType, BatchType
  <2> QED
    BY <1>0, <1>3, <2>1, <2>2, StillStep DEF Expire, Still, At, Counted, Within
<1>4. ASSUME NEW p \in Procs, Crash(p) PROVE SeenInv'
  BY <1>4, ReturnStill DEF Crash
<1> QED
  BY <1>1, <1>2, <1>3, <1>4

\* What a request makes of the row leaves a generation outstanding, so nothing
\* more is shown as scanned.
LEMMA RequestSeen ==
  ASSUME TypeInv, SeenInv, NEW r \in Procs, NEW b \in BatchType,
         b.dirty = batch.dirty, b.scanned = batch.scanned, b.claimed = batch.claimed,
         batch' = Requested(b), NEW d, d.pc = "ready", d.mem = Requested(b),
         proc' = [proc EXCEPT ![r] = d], UNCHANGED <<noted, seen>>
  PROVE  SeenInv'
<1>1. /\ proc \in [Procs -> ProcType] /\ batch \in BatchType
      /\ \A p \in Procs : proc[p].mem \in BatchType
  BY DEF TypeInv, TypeOK, ProcType
<1>2. /\ batch'.scanned = batch.scanned /\ batch'.claimed = batch.claimed
      /\ batch'.dirty = IF Outstanding(batch) THEN batch.dirty ELSE batch.dirty + 1
  BY <1>1 DEF Requested, Outstanding, BatchType
<1>3. /\ batch.dirty <= batch'.dirty /\ Outstanding(batch')
      /\ batch'.dirty \in Nat
  BY <1>1, <1>2 DEF Outstanding, SeenInv, Counted, BatchType
<1>4. Counted'
  <2>1. /\ \A p \in Procs : p # r => proc'[p] = proc[p]
        /\ proc'[r].mem = batch'
    BY <1>1
  <2> QED
    BY <1>1, <1>2, <1>3, <2>1 DEF SeenInv, Counted, Within, BatchType
<1>5. ScanCovers'
  <2>1. \A p \in Procs : At(p, "scan")' => At(p, "scan") /\ proc'[p] = proc[p]
    BY <1>1 DEF At
  <2> QED
    BY <1>1, <1>3, <2>1 DEF SeenInv, ScanCovers, BatchType
<1> QED
  BY <1>3, <1>4, <1>5 DEF SeenInv, CaughtUp, Outstanding

\* A step of a client at the row keeps SeenInv, unless it overwrites a row that
\* has changed.
LEMMA ClientSeen ==
  ASSUME TypeInv, SeenInv, NEW r \in Procs,
         RetryScan(r) \/ RetryStaleScan(r) \/ RetryWrite(r), ~overwritten'
  PROVE  SeenInv'
<1>0. /\ proc \in [Procs -> ProcType] /\ batch \in BatchType /\ Counted
      /\ IdleProc \in ProcType
  BY Idle DEF TypeInv, TypeOK, SeenInv
<1>1. CASE RetryScan(r)
  <2>1. proc'[r].pc = "retryWrite" /\ proc'[r].mem = batch
    BY <1>0, <1>1 DEF RetryScan, ProcType
  <2>2. \A q \in Procs : q # r => proc'[q] = proc[q]
    BY <1>0, <1>1 DEF RetryScan
  <2> QED
    BY <1>0, <1>1, <2>1, <2>2, StillStep DEF RetryScan, Still, At, Counted, Within
<1>2. CASE RetryStaleScan(r)
  <2> DEFINE b == Recovered(batch)
             d == [IdleProc EXCEPT !.pc = "ready", !.mem = Requested(b)]
  <2>1. b \in BatchType
    BY <1>0, RowType
  <2>2. b.dirty = batch.dirty /\ b.scanned = batch.scanned /\ b.claimed = batch.claimed
    BY <1>0 DEF Recovered, BatchType
  <2>3. batch' = Requested(b) /\ proc' = [proc EXCEPT ![r] = d] /\ UNCHANGED <<noted, seen>>
    BY <1>2 DEF RetryStaleScan
  <2> HIDE DEF b
  <2>4. d.pc = "ready" /\ d.mem = Requested(b)
    BY <1>0 DEF ProcType
  <2> HIDE DEF d
  <2> QED
    BY <2>1, <2>2, <2>3, <2>4, RequestSeen
<1>3. CASE RetryWrite(r)
  <2> DEFINE d == [proc[r] EXCEPT !.pc = "ready", !.mem = Requested(batch)]
  <2>1. proc[r].mem = batch
    BY <1>3 DEF RetryWrite
  <2>2. /\ proc' = [proc EXCEPT ![r] = d] /\ UNCHANGED <<noted, seen>>
        /\ batch' = Flushed(batch, Requested(batch))
    BY <1>3, <2>1 DEF RetryWrite
  <2>3. Requested(batch) \in BatchType
    BY <1>0, RowType
  <2>4. batch' = Requested(batch)
    BY <1>0, <2>2, <2>3 DEF Flushed, BatchType
  <2>5. d.pc = "ready" /\ d.mem = Requested(batch)
    BY <1>0 DEF ProcType
  <2> HIDE DEF d
  <2> QED
    BY <1>0, <2>2, <2>4, <2>5, RequestSeen
<1> QED
  BY <1>1, <1>2, <1>3

\* A batch shown as scanned has been scanned since each success counted in it, as
\* long as no retry overwrites what it has not read: a scan is credited with the
\* generation of its copy, which is never ahead of the row's, and a later success
\* or request moves the row past it.
THEOREM SettledAlwaysSeen == Spec => []SettledIsSeen
<1> DEFINE Inv == TypeInv /\ (~overwritten => SeenInv)
<1>1. Init => Inv
  <2> SUFFICES ASSUME Init PROVE Inv
    OBVIOUS
  <2>1. TypeInv
    BY TypesInit
  <2>2. \A p \in Procs : proc[p].pc = "idle" /\ proc[p].mem = NewBatch
    BY Idle DEF Init, IdleProc
  <2> QED
    BY <2>1, <2>2 DEF Init, SeenInv, Counted, ScanCovers, CaughtUp, Within, NewBatch, At
<1>2. Inv /\ [Next]_vars => Inv'
  <2> SUFFICES ASSUME Inv, [Next]_vars PROVE Inv'
    OBVIOUS
  <2>1. CASE UNCHANGED vars
    BY <2>1, TypesStep DEF vars, SeenInv, Counted, ScanCovers, CaughtUp, Outstanding, Within, At
  <2>2. CASE Next
    <3>1. ASSUME ~overwritten' PROVE SeenInv'
      <4>1. SeenInv
        BY <2>2, <3>1, OverwrittenStays
      <4>2. \/ \E r \in Procs : RetryScan(r) \/ RetryStaleScan(r) \/ RetryWrite(r)
            \/ \E p \in Procs : ProcStep(p) /\ ~RetryWrite(p)
            \/ \E c \in Children : AddChild(c) \/ RetryChild(c)
            \/ \E w \in Workers, c \in Children : StartChild(w, c)
            \/ Expire
            \/ \E p \in Procs : Crash(p)
        BY <2>2 DEF Next, Procs
      <4> QED
        BY <3>1, <4>1, <4>2, ClientSeen, WorkerSeen, OtherSeen
    <3> QED
      BY <2>2, <3>1, TypesStep
  <2> QED
    BY <2>1, <2>2
<1>3. Inv => SettledIsSeen
  BY DEF SeenInv, CaughtUp, SettledIsSeen
<1> QED
  BY <1>1, <1>2, <1>3, PTL DEF Spec
=============================================================================
