------------------------- MODULE OutputFilesProofs -------------------------
(***************************************************************************)
(* Proofs about OutputFiles, for any number of workers, jobs, videos,      *)
(* counters and faults.                                                    *)
(*                                                                         *)
(* A run touches its own job's staged file, its own path and nothing else; *)
(* two runs that share a job or a path are runs of mixed jobs.  So what is *)
(* known of the files of a run whose job is not mixed survives the steps   *)
(* of the others, and one run at a time can be looked at.                  *)
(***************************************************************************)
EXTENDS OutputFiles, WellFoundedInduction, TLAPS

RunType == [job : Jobs \cup {NoJob}, at : Steps \cup {"idle"}, path : Paths \cup {NoPath}]

\* A run from the choice of its path until its file is published, and then.
Unpublished == Working \cup Saving \cup {"dry", "download", "convert", "again", "verify"}
Chosen == Unpublished \cup {"committed"}

Placed(w) ==
    /\ run[w].at = "idle" => run[w] = IdleRun
    /\ run[w].at # "idle" => run[w].job \in Jobs
    /\ run[w].at \in Chosen => run[w].path \in Paths
    /\ run[w].at \in Chosen => (run[w].at = "dry" <=> kind[run[w].job].dry)
    /\ child[w] # "none" => run[w].at \in Working

\* Runs that meet are runs of mixed jobs.
Apart ==
    \A w, x \in Workers : w # x =>
        /\ run[w].path = run[x].path /\ run[w].path # NoPath => run[w].job \in mixed
        /\ run[w].job = run[x].job /\ run[w].job # NoJob => run[w].job \in mixed

Exempt(w) ==
    \/ kind[run[w].job].mode = "overwrite"
    \/ run[w].path = VideoOf[run[w].job]
    \/ run[w].job \in mixed
    \/ run[w].path \in late

\* The files of one run.
Own(w) ==
    LET j == run[w].job
        p == run[w].path
    IN
    /\ run[w].at \in Saving /\ sibling[p] # None => sibling[p].of \in mixed \cup {j}
    /\ run[w].at = "copying" /\ j \notin mixed => sibling[p] = [what |-> "part", of |-> j]
    /\ run[w].at = "copied" /\ j \notin mixed => sibling[p] = [what |-> "whole", of |-> j]
    /\ run[w].at \in {"verify", "copying"} /\ j \notin mixed => staged[j] = "whole"
    /\ run[w].at \in Unpublished => final[p] = None \/ Exempt(w)
    /\ run[w].at = "committed" /\ j \notin mixed => final[p] = [what |-> "whole", of |-> j]

Inv ==
    /\ TypeOK
    /\ \A w \in Workers : Placed(w) /\ Own(w)
    /\ Apart
    /\ PublishedWhole
    /\ NoStrays

----------------------------------------------------------------------------
(* What a step of one run may touch *)

Local(w) ==
    /\ \A x \in Workers \ {w} : run'[x] = run[x] /\ child'[x] = child[x]
    /\ \A k \in Jobs : k # run[w].job => staged'[k] = staged[k]
    /\ \A q \in Paths : q # run[w].path => sibling'[q] = sibling[q] /\ final'[q] = final[q]
    /\ \A q \in Paths : \/ sibling'[q] = sibling[q]
                        \/ sibling'[q] = None
                        \/ sibling'[q].of = run[w].job
    /\ kind' = kind /\ late' = late /\ mixed \subseteq mixed' /\ died \subseteq died'

\* It holds on to its job and path, or lets both go.
Holds(w) ==
    \/ run'[w] = IdleRun
    \/ run'[w].job = run[w].job /\ run'[w].path = run[w].path

\* It leaves no sibling behind without a reason, nor a part in the library.
Tidy(w) ==
    \A p \in Paths : p = run[w].path =>
        /\ \/ sibling'[p] = None
           \/ run'[w].path = p /\ run'[w].at \in Saving
           \/ sibling'[p].of \in died' \cup mixed'
           \/ sibling'[p] = sibling[p] /\ run[w].at \notin Saving
        /\ final'[p] # final[p] => final'[p].what # "part" \/ final'[p].of \in mixed'

\* A step that leaves the library as it is, from outside the saving.
LEMMA QuietIsTidy ==
    ASSUME NEW w \in Workers, sibling' = sibling, final' = final, run[w].at \notin Saving
    PROVE  Tidy(w)
BY DEF Tidy

\* What is known of another run stays so.
LEMMA OtherRuns ==
    ASSUME Inv, NEW w \in Workers, NEW x \in Workers, x # w, Local(w)
    PROVE  Placed(x)' /\ Own(x)'
<1> DEFINE j == run[x].job
           p == run[x].path
<1>1. run'[x] = run[x] /\ child'[x] = child[x] /\ kind' = kind /\ late' = late /\ mixed \subseteq mixed'
    BY DEF Local
<1>2. Placed(x) /\ Own(x)
    BY DEF Inv
<1>3. Placed(x)'
    BY <1>1, <1>2 DEF Placed
<1>4. run[x].at \in Chosen => p \in Paths /\ j \in Jobs
    BY <1>2 DEF Placed, Chosen, Unpublished, Working, Saving
<1>5. ASSUME p \in Paths, j \notin mixed
      PROVE  sibling'[p] = sibling[p] /\ final'[p] = final[p]
    <2>1. p # run[w].path
        BY <1>5, ConstantsOK DEF Inv, Apart
    <2> QED
        BY <1>5, <2>1 DEF Local
<1>6. ASSUME j \in Jobs, j \notin mixed PROVE staged'[j] = staged[j]
    <2>1. j # run[w].job
        BY <1>6, ConstantsOK DEF Inv, Apart
    <2> QED
        BY <1>6, <2>1 DEF Local
<1>7. ASSUME run[x].at \in Saving, sibling'[p] # None
      PROVE  sibling'[p].of \in mixed' \cup {j}
    <2>1. p \in Paths
        BY <1>4, <1>7 DEF Chosen, Unpublished
    <2>2. CASE sibling'[p] = sibling[p]
        BY <1>1, <1>2, <1>7, <2>2 DEF Own
    <2>3. CASE sibling'[p] # sibling[p]
        <3>1. p = run[w].path /\ sibling'[p].of = run[w].job
            BY <1>7, <2>1, <2>3 DEF Local
        <3>2. run[w].job \in mixed
            BY <2>1, <3>1, ConstantsOK DEF Inv, Apart
        <3> QED
            BY <1>1, <3>1, <3>2
    <2> QED
        BY <2>2, <2>3
<1>8. run[x].at \in Unpublished => final'[p] = None \/ Exempt(x)'
    BY <1>1, <1>2, <1>4, <1>5 DEF Own, Exempt, Chosen
<1>9. run[x].at \in {"verify", "copying", "copied", "committed"} => run[x].at \in Chosen
    BY DEF Chosen, Unpublished, Saving
<1>10. j \notin mixed' => j \notin mixed
    BY <1>1
<1>11. /\ run[x].at = "copying" /\ j \notin mixed' => sibling'[p] = [what |-> "part", of |-> j]
       /\ run[x].at = "copied" /\ j \notin mixed' => sibling'[p] = [what |-> "whole", of |-> j]
       /\ run[x].at \in {"verify", "copying"} /\ j \notin mixed' => staged'[j] = "whole"
       /\ run[x].at = "committed" /\ j \notin mixed' => final'[p] = [what |-> "whole", of |-> j]
    BY <1>2, <1>4, <1>5, <1>6, <1>9, <1>10 DEF Own
<1> QED
    BY <1>1, <1>3, <1>7, <1>8, <1>11 DEF Own

LEMMA StillApart ==
    ASSUME Inv, NEW w \in Workers, Local(w), Holds(w)
    PROVE  Apart'
<1> SUFFICES ASSUME NEW x \in Workers, NEW y \in Workers, x # y
             PROVE  /\ run'[x].path = run'[y].path /\ run'[x].path # NoPath => run'[x].job \in mixed'
                    /\ run'[x].job = run'[y].job /\ run'[x].job # NoJob => run'[x].job \in mixed'
    BY DEF Apart
<1>1. /\ run'[x] = run[x] \/ x = w
      /\ run'[y] = run[y] \/ y = w
      /\ mixed \subseteq mixed'
    BY DEF Local
<1>2. /\ run[x].path = run[y].path /\ run[x].path # NoPath => run[x].job \in mixed
      /\ run[x].job = run[y].job /\ run[x].job # NoJob => run[x].job \in mixed
    BY DEF Inv, Apart
<1>3. IdleRun.path = NoPath /\ IdleRun.job = NoJob
    BY DEF IdleRun
<1> QED
    BY <1>1, <1>2, <1>3 DEF Holds

LEMMA StillTidy ==
    ASSUME Inv, NEW w \in Workers, Local(w), Tidy(w)
    PROVE  PublishedWhole' /\ NoStrays'
<1>1. mixed \subseteq mixed' /\ died \subseteq died'
    BY DEF Local
<1>2. ASSUME NEW p \in Paths, final'[p].what = "part" PROVE final'[p].of \in mixed'
    <2>1. CASE final'[p] = final[p]
        BY <1>1, <1>2, <2>1 DEF Inv, PublishedWhole
    <2>2. CASE final'[p] # final[p]
        BY <1>2, <2>2 DEF Local, Tidy
    <2> QED
        BY <2>1, <2>2
<1>3. ASSUME NEW p \in Paths, sibling'[p] # None
      PROVE  \/ \E x \in Workers : run'[x].path = p /\ run'[x].at \in Saving
             \/ sibling'[p].of \in died' \cup mixed'
    <2>1. CASE sibling'[p] # sibling[p]
        <3>1. p = run[w].path
            BY <2>1 DEF Local
        <3> QED
            BY <1>3, <2>1, <3>1 DEF Tidy
    <2>2. CASE sibling'[p] = sibling[p]
        <3>1. CASE sibling[p].of \in died \cup mixed
            BY <1>1, <2>2, <3>1
        <3>2. ASSUME NEW x \in Workers, run[x].path = p, run[x].at \in Saving
              PROVE  \/ \E y \in Workers : run'[y].path = p /\ run'[y].at \in Saving
                     \/ sibling'[p].of \in died' \cup mixed'
            <4>1. CASE x = w
                BY <1>3, <3>2, <4>1 DEF Tidy
            <4>2. CASE x # w
                BY <3>2, <4>2 DEF Local
            <4> QED
                BY <4>1, <4>2
        <3> QED
            BY <1>3, <2>2, <3>1, <3>2 DEF Inv, NoStrays
    <2> QED
        BY <2>1, <2>2
<1> QED
    BY <1>2, <1>3 DEF PublishedWhole, NoStrays

\* So a step of one run is a matter of that run.
LEMMA OneRun ==
    ASSUME Inv, NEW w \in Workers, TypeOK', Local(w), Holds(w), Tidy(w), Placed(w)', Own(w)'
    PROVE  Inv'
<1>1. ASSUME NEW x \in Workers PROVE Placed(x)' /\ Own(x)'
    BY <1>1, OtherRuns
<1> QED
    BY <1>1, StillApart, StillTidy DEF Inv

----------------------------------------------------------------------------
(* Where a run goes *)

LEMMA GoesTo ==
    ASSUME TypeOK, NEW w \in Workers, NEW at \in Steps, Goto(w, at)
    PROVE  /\ run' \in [Workers -> RunType]
           /\ run'[w].at = at /\ run'[w].job = run[w].job /\ run'[w].path = run[w].path
           /\ \A x \in Workers \ {w} : run'[x] = run[x]
<1>1. run \in [Workers -> RunType]
    BY DEF TypeOK, RunType
<1>2. run' = [run EXCEPT ![w].at = at]
    BY DEF Goto
<1> QED
    BY <1>1, <1>2 DEF RunType

LEMMA GoesIdle ==
    ASSUME TypeOK, NEW w \in Workers, run' = [run EXCEPT ![w] = IdleRun]
    PROVE  /\ run' \in [Workers -> RunType]
           /\ run'[w] = IdleRun /\ run'[w].at = "idle"
           /\ \A x \in Workers \ {w} : run'[x] = run[x]
<1>1. run \in [Workers -> RunType]
    BY DEF TypeOK, RunType
<1>2. IdleRun \in RunType /\ IdleRun.at = "idle"
    BY DEF IdleRun, RunType
<1> QED
    BY <1>1, <1>2

LEMMA BusyHasJob ==
    ASSUME Inv, NEW w \in Workers, Busy(w)
    PROVE  run[w].job \in Jobs
BY DEF Inv, Placed, Busy

LEMMA ChosenHasPath ==
    ASSUME Inv, NEW w \in Workers, run[w].at \in Chosen
    PROVE  run[w].path \in Paths /\ run[w].job \in Jobs
BY DEF Inv, Placed, Chosen, Unpublished, Working, Saving

\* A run that has not chosen, or gives up, has no files to vouch for.
LEMMA NothingOwned ==
    ASSUME NEW w \in Workers, run'[w].at \notin Chosen, run'[w].at # "idle" => run'[w].job \in Jobs,
           run'[w].at = "idle" => run'[w] = IdleRun, child'[w] = "none"
    PROVE  Placed(w)' /\ Own(w)'
<1>1. Saving \subseteq Chosen /\ {"verify", "copying", "copied", "committed"} \subseteq Chosen
      /\ Unpublished \subseteq Chosen
    BY DEF Chosen, Unpublished, Saving
<1> QED
    BY <1>1 DEF Placed, Own

\* From one stage to the next, before anything is saved.
LEMMA Onward ==
    ASSUME Inv, NEW w \in Workers, run[w].at \in Unpublished, run[w].at # "dry",
           run'[w].job = run[w].job, run'[w].path = run[w].path,
           run'[w].at \in Working \cup {"convert", "again", "verify"},
           child'[w] # "none" => run'[w].at \in Working,
           run'[w].at = "verify" /\ run[w].job \notin mixed => staged'[run[w].job] = "whole",
           kind' = kind, late' = late, mixed' = mixed, final' = final
    PROVE  Placed(w)' /\ Own(w)'
<1>1. run'[w].at \notin Saving \cup {"idle", "dry", "copying", "copied", "committed"}
    BY DEF Working, Saving
<1>2. run'[w].at \in Chosen /\ run[w].at \in Chosen
    BY DEF Chosen, Unpublished
<1>3. Placed(w)'
    BY <1>1, <1>2 DEF Inv, Placed, Chosen, Unpublished, Working, Saving
<1>4. final'[run'[w].path] = None \/ Exempt(w)'
    BY DEF Inv, Own, Exempt
<1> QED
    BY <1>1, <1>3, <1>4 DEF Own

LEMMA FaultType ==
    ASSUME TypeOK, Fault
    PROVE  faults' \in 0 .. MaxFaults
BY ConstantsOK DEF TypeOK, Fault

LEMMA FileTypes ==
    /\ None \in File
    /\ \A j \in Jobs : \A s \in {"part", "whole", "fake"} : [what |-> s, of |-> j] \in File
    /\ \A f \in File : f # None <=> f.what # "none"
BY DEF None, File

LEMMA UnlinkedType ==
    ASSUME TypeOK, NEW p
    PROVE  /\ Unlinked(p) \in [Paths -> File]
           /\ \A q \in Paths : Unlinked(p)[q] = IF q = p THEN None ELSE sibling[q]
BY FileTypes DEF Unlinked, TypeOK

----------------------------------------------------------------------------
(* The steps of a run that leave the library alone *)

\* A run that has no child process.
LEMMA NoChild ==
    ASSUME Inv, NEW w \in Workers, run[w].at \notin Working
    PROVE  child[w] = "none" /\ child = [child EXCEPT ![w] = "none"]
BY DEF Inv, Placed, TypeOK

LEMMA CleanUpInv ==
    ASSUME Inv, NEW w \in Workers, CleanUp(w)
    PROVE  Inv'
<1> DEFINE j == run[w].job
           p == run[w].path
<1>1. TypeOK /\ run[w].at = "cleaning" /\ run' = [run EXCEPT ![w] = IdleRun]
    BY DEF CleanUp, Inv
<1>2. /\ run' \in [Workers -> RunType] /\ run'[w] = IdleRun /\ run'[w].at = "idle"
      /\ \A x \in Workers \ {w} : run'[x] = run[x]
    BY <1>1, GoesIdle
<1>3. /\ staged' = [staged EXCEPT ![j] = "none"]
      /\ sibling' = IF p = NoPath THEN sibling ELSE Unlinked(p)
      /\ UNCHANGED <<status, kind, queue, child, final, mixed, died, late, faults>>
    BY DEF CleanUp, Removed, jobVars, ghosts
<1>4. staged' \in [Jobs -> {"none", "part", "whole"}] /\ sibling' \in [Paths -> File]
    BY <1>1, <1>3, UnlinkedType DEF TypeOK
<1>5. TypeOK'
    BY <1>1, <1>2, <1>3, <1>4 DEF TypeOK, RunType
<1>6. Local(w)
    BY <1>1, <1>2, <1>3, UnlinkedType DEF Local, TypeOK
<1>7. Tidy(w)
    BY <1>1, <1>3, UnlinkedType, ConstantsOK DEF Tidy
<1>8. "idle" \notin Chosen
    BY DEF Chosen, Unpublished, Working, Saving
<1>9. child'[w] = "none"
    BY <1>1, <1>3, NoChild DEF Working
<1> QED
    BY <1>9, <1>2, <1>5, <1>6, <1>7, <1>8, NothingOwned, OneRun DEF Holds

LEMMA QuietRun ==
    ASSUME Inv, NEW w \in Workers, TypeOK',
           \A x \in Workers \ {w} : run'[x] = run[x] /\ child'[x] = child[x],
           \A k \in Jobs : k # run[w].job => staged'[k] = staged[k],
           UNCHANGED <<kind, sibling, final, late>>, mixed \subseteq mixed', died \subseteq died',
           run[w].at \notin Saving, Holds(w), Placed(w)', Own(w)'
    PROVE  Inv'
<1>1. Local(w)
    BY DEF Local
<1> QED
    BY <1>1, QuietIsTidy, OneRun

\* A step to a stage where nothing is owned.
LEMMA QuietExit ==
    ASSUME Inv, NEW w \in Workers, Busy(w), TypeOK', NEW at \in Handling,
           Goto(w, at) \/ run' = [run EXCEPT ![w] = IdleRun],
           child' = [child EXCEPT ![w] = "none"],
           \A k \in Jobs : k # run[w].job => staged'[k] = staged[k],
           UNCHANGED <<kind, sibling, final, late>>, mixed \subseteq mixed', died \subseteq died',
           run[w].at \notin Saving
    PROVE  Inv'
<1>1. TypeOK /\ at \in Steps /\ run[w].job \in Jobs
      /\ child'[w] = "none" /\ \A x \in Workers \ {w} : child'[x] = child[x]
    BY BusyHasJob DEF Inv, Steps, TypeOK
<1>2. at \notin Chosen \cup {"idle"} /\ "idle" \notin Chosen
    BY DEF Chosen, Unpublished, Working, Saving, Handling
<1>3. CASE Goto(w, at)
    BY <1>1, <1>2, <1>3, GoesTo, NothingOwned, QuietRun DEF Holds
<1>4. CASE run' = [run EXCEPT ![w] = IdleRun]
    BY <1>1, <1>2, <1>4, GoesIdle, NothingOwned, QuietRun DEF Holds
<1> QED
    BY <1>3, <1>4

LEMMA HandleInv ==
    ASSUME Inv, NEW w \in Workers, Handle(w)
    PROVE  Inv'
<1>1. TypeOK /\ Busy(w) /\ "cleaning" \in Handling \cap Steps /\ run[w].at \notin Saving
    BY DEF Handle, Inv, Busy, Handling, Saving, Steps
<1>2. /\ Goto(w, "cleaning")
      /\ status' = [status EXCEPT ![run[w].job] = IF run[w].at = "failing" THEN "failed" ELSE "cancelled"]
      /\ UNCHANGED <<kind, queue, child, staged, sibling, final, mixed, died, late, faults>>
    BY DEF Handle, libVars, ghosts
<1>3. run' \in [Workers -> RunType]
    BY <1>1, <1>2, GoesTo
<1>4. status' \in [Jobs -> {"active", "cancelled", "failed", "succeeded", "deleted"}]
    BY <1>1, <1>2 DEF TypeOK
<1>5. TypeOK'
    BY <1>1, <1>2, <1>3, <1>4 DEF TypeOK, RunType
<1>6. child' = [child EXCEPT ![w] = "none"]
    BY <1>2, NoChild DEF Handle, Working
<1> QED
    BY <1>1, <1>2, <1>5, <1>6, QuietExit

LEMMA LeaveType ==
    ASSUME Inv, NEW w \in Workers, Busy(w), Leave(w)
    PROVE  /\ run' \in [Workers -> RunType] /\ child' \in [Workers -> {"none", "running", "stopped"}]
           /\ mixed' \subseteq Jobs /\ mixed \subseteq mixed'
<1>1. run[w].job \in Jobs /\ TypeOK
    BY BusyHasJob DEF Inv
<1> QED
    BY <1>1, GoesIdle DEF Leave, TypeOK

LEMMA LoseRowInv ==
    ASSUME Inv, NEW w \in Workers, LoseRow(w)
    PROVE  Inv'
<1>1. TypeOK /\ Busy(w) /\ run[w].at \notin Saving /\ Leave(w)
    BY DEF LoseRow, Inv
<1>2. UNCHANGED <<status, kind, queue, staged, sibling, final, died, late, faults>>
    BY DEF LoseRow, jobVars, libVars
<1>3. TypeOK' /\ mixed \subseteq mixed'
    BY <1>1, <1>2, LeaveType DEF TypeOK, RunType
<1>4. /\ "failing" \in Handling /\ run' = [run EXCEPT ![w] = IdleRun]
      /\ child' = [child EXCEPT ![w] = "none"]
    BY <1>1 DEF Handling, Leave
<1> QED
    BY <1>1, <1>2, <1>3, <1>4, QuietExit

LEMMA StopChildInv ==
    ASSUME Inv, NEW w \in Workers, StopChild(w)
    PROVE  Inv'
<1>1. child' = [child EXCEPT ![w] = "stopped"]
    BY DEF StopChild
<1>2. UNCHANGED <<status, kind, queue, run, staged, sibling, final, mixed, died, late, faults>>
    BY DEF StopChild, jobVars, libVars, ghosts
<1>3. TypeOK'
    BY <1>1, <1>2 DEF Inv, TypeOK
<1>4. \A x \in Workers : child'[x] # "none" => child[x] # "none"
    BY <1>1 DEF StopChild, Inv, TypeOK
<1> QED
    BY <1>2, <1>3, <1>4 DEF Inv, Placed, Own, Exempt, Apart, PublishedWhole, NoStrays

\* Where a child process ends: on to the next step, or into a handler.
LEMMA CheckGoes ==
    ASSUME NEW w, NEW at, Check(w, at)
    PROVE  Goto(w, "cancelling") \/ Goto(w, at)
BY DEF Check

LEMMA ChildSucceedsInv ==
    ASSUME Inv, NEW w \in Workers, ChildSucceeds(w)
    PROVE  Inv'
<1> DEFINE j == run[w].job
<1>1. /\ TypeOK /\ run[w].at \in Working
      /\ child' = [child EXCEPT ![w] = "none"] /\ child'[w] = "none"
      /\ UNCHANGED <<status, kind, queue, sibling, final, mixed, died, late, faults>>
    BY DEF ChildSucceeds, Inv, Placed, jobVars, libVars, ghosts, TypeOK
<1>2. /\ run[w].at \notin Saving /\ run[w].at # "idle" /\ run[w].at # "dry" /\ Busy(w)
      /\ run[w].at \in Unpublished /\ j \in Jobs
    BY <1>1, BusyHasJob DEF Working, Saving, Unpublished, Busy
<1>3. \/ staged' = staged
      \/ \E s \in Converted(j) : staged' = [staged EXCEPT ![j] = s]
    BY DEF ChildSucceeds
<1>4. /\ staged' \in [Jobs -> {"none", "part", "whole"}]
      /\ \A k \in Jobs : k # j => staged'[k] = staged[k]
    BY <1>1, <1>3 DEF TypeOK, Converted
<1>5. \E at \in {"cancelling", "failing", "convert", "verify"} :
          Goto(w, at) /\ (at = "verify" => run[w].at # "downloading")
    BY CheckGoes DEF ChildSucceeds
<1>6. PICK at \in {"cancelling", "failing", "convert", "verify"} :
          Goto(w, at) /\ (at = "verify" => run[w].at # "downloading")
    BY <1>5
<1>7. at \in Steps
    BY DEF Steps, Handling
<1>8. TypeOK'
    BY <1>1, <1>4, <1>6, <1>7, GoesTo DEF TypeOK, RunType
<1>9. CASE at \in Handling
    BY <1>1, <1>2, <1>4, <1>6, <1>8, <1>9, QuietExit
<1>10. CASE at \in {"convert", "verify"}
    <2>1. at = "verify" /\ j \notin mixed => staged'[j] = "whole"
        BY <1>1, <1>2, <1>6 DEF ChildSucceeds, Converted, TypeOK
    <2>2. Placed(w)' /\ Own(w)'
        BY <1>1, <1>2, <1>6, <1>7, <1>10, <2>1, GoesTo, Onward
    <2> QED
        BY <1>1, <1>2, <1>4, <1>6, <1>7, <1>8, <2>2, GoesTo, QuietRun DEF Holds, TypeOK
<1> QED
    BY <1>9, <1>10 DEF Handling

LEMMA ChildFailsInv ==
    ASSUME Inv, NEW w \in Workers, ChildFails(w)
    PROVE  Inv'
<1> DEFINE j == run[w].job
<1>1. /\ TypeOK /\ run[w].at \in Working
      /\ child' = [child EXCEPT ![w] = "none"] /\ child'[w] = "none"
      /\ UNCHANGED <<status, kind, queue, sibling, final, mixed, died, late, faults>>
    BY DEF ChildFails, Inv, Placed, jobVars, libVars, ghosts, TypeOK
<1>2. /\ run[w].at \notin Saving /\ run[w].at # "idle" /\ run[w].at # "dry" /\ Busy(w)
      /\ run[w].at \in Unpublished /\ j \in Jobs
    BY <1>1, BusyHasJob DEF Working, Saving, Unpublished, Busy
<1>3. staged' = staged \/ staged' = [staged EXCEPT ![j] = "none"]
    BY DEF ChildFails
<1>4. /\ staged' \in [Jobs -> {"none", "part", "whole"}]
      /\ \A k \in Jobs : k # j => staged'[k] = staged[k]
    BY <1>1, <1>3 DEF TypeOK
<1>5. PICK at \in {"cancelling", "failing", "again"} : Goto(w, at)
    BY CheckGoes DEF ChildFails
<1>6. at \in Steps
    BY DEF Steps, Handling
<1>7. TypeOK'
    BY <1>1, <1>4, <1>5, <1>6, GoesTo DEF TypeOK, RunType
<1>8. CASE at \in Handling
    BY <1>1, <1>2, <1>4, <1>5, <1>7, <1>8, QuietExit
<1>9. CASE at = "again"
    <2>1. Placed(w)' /\ Own(w)'
        BY <1>1, <1>2, <1>5, <1>6, <1>9, GoesTo, Onward
    <2> QED
        BY <1>1, <1>2, <1>4, <1>5, <1>6, <1>7, <2>1, GoesTo, QuietRun DEF Holds, TypeOK
<1> QED
    BY <1>8, <1>9 DEF Handling

LEMMA StartChildInv ==
    ASSUME Inv, NEW w \in Workers, StartChild(w)
    PROVE  Inv'
<1> DEFINE j == run[w].job
<1>1. /\ TypeOK /\ run[w].at \in {"download", "convert", "again"}
      /\ UNCHANGED <<kind, queue, sibling, final, mixed, died, late, faults>>
    BY DEF StartChild, Stage, Inv, libVars, ghosts
<1>2. /\ run[w].at \notin Saving \cup Working /\ run[w].at # "idle" /\ run[w].at # "dry"
      /\ Busy(w) /\ run[w].at \in Unpublished /\ j \in Jobs
    BY <1>1, BusyHasJob DEF Working, Saving, Unpublished, Busy
<1>3. CASE Goto(w, "cancelling") /\ UNCHANGED <<status, child, staged>>
    <2>1. "cancelling" \in Handling \cap Steps
        BY DEF Handling, Steps
    <2>2. TypeOK'
        BY <1>1, <1>3, <2>1, GoesTo DEF TypeOK, RunType
    <2> QED
        BY <1>1, <1>2, <1>3, <2>1, <2>2, NoChild, QuietExit
<1>4. CASE /\ Goto(w, Stage[run[w].at])
           /\ status' = IF run[w].at = "again" THEN status
                        ELSE [status EXCEPT ![j] = "active"]
           /\ child' = [child EXCEPT ![w] = "running"]
           /\ staged' = IF run[w].at = "download" THEN staged
                        ELSE [staged EXCEPT ![j] = "part"]
    <2>1. Stage[run[w].at] \in Working
        BY <1>1 DEF Stage, Working
    <2>2. Stage[run[w].at] \in Steps /\ Stage[run[w].at] # "verify"
        BY <2>1 DEF Steps, Working
    <2>3. /\ staged' \in [Jobs -> {"none", "part", "whole"}]
          /\ \A k \in Jobs : k # j => staged'[k] = staged[k]
        BY <1>1, <1>4 DEF TypeOK
    <2>4. /\ child' \in [Workers -> {"none", "running", "stopped"}]
          /\ \A x \in Workers \ {w} : child'[x] = child[x]
        BY <1>1, <1>4 DEF TypeOK
    <2>5. status' \in [Jobs -> {"active", "cancelled", "failed", "succeeded", "deleted"}]
        BY <1>1, <1>4 DEF TypeOK
    <2>6. TypeOK'
        BY <1>1, <1>4, <2>2, <2>3, <2>4, <2>5, GoesTo DEF TypeOK, RunType
    <2>7. Placed(w)' /\ Own(w)'
        BY <1>1, <1>2, <1>4, <2>1, <2>2, GoesTo, Onward
    <2> QED
        BY <1>1, <1>2, <1>4, <2>2, <2>3, <2>4, <2>6, <2>7, GoesTo, QuietRun DEF Holds
<1> QED
    BY <1>3, <1>4 DEF StartChild

----------------------------------------------------------------------------
(* A run begins and chooses its path: here two runs may meet *)

LEMMA TakeInv ==
    ASSUME Inv, NEW w \in Workers, NEW j \in Jobs, Take(w, j)
    PROVE  Inv'
<1>1. /\ TypeOK /\ run[w] = IdleRun /\ run[w].at = "idle" /\ run[w].path = NoPath
      /\ queue' = queue \ {j}
      /\ UNCHANGED <<kind, child, staged, sibling, final, died, late, faults>>
    BY DEF Take, Busy, Inv, Placed, IdleRun, libVars
<1>2. CASE UNCHANGED <<status, run, mixed>>
    BY <1>1, <1>2 DEF Inv, TypeOK, Placed, Own, Exempt, Apart, PublishedWhole, NoStrays
<1>3. CASE /\ status' = [status EXCEPT ![j] = "active"]
           /\ run' = [run EXCEPT ![w] = [job |-> j, at |-> "setup", path |-> NoPath]]
           /\ mixed' = IF \E x \in Workers : run[x].job = j THEN mixed \cup {j} ELSE mixed
    <2>1. [job |-> j, at |-> "setup", path |-> NoPath] \in RunType
        BY DEF RunType, Steps
    <2>2. run' \in [Workers -> RunType]
        BY <1>1, <1>3, <2>1 DEF TypeOK, RunType
    <2>3. /\ run'[w] = [job |-> j, at |-> "setup", path |-> NoPath]
          /\ \A x \in Workers \ {w} : run'[x] = run[x]
        BY <1>1, <1>3 DEF TypeOK
    <2>4. mixed \subseteq mixed' /\ mixed' \subseteq Jobs
        BY <1>1, <1>3 DEF TypeOK
    <2>5. status' \in [Jobs -> {"active", "cancelled", "failed", "succeeded", "deleted"}]
        BY <1>1, <1>3 DEF TypeOK
    <2>6. TypeOK'
        BY <1>1, <2>2, <2>4, <2>5 DEF TypeOK, RunType
    <2>7. Local(w) /\ Tidy(w)
        BY <1>1, <2>3, <2>4, QuietIsTidy DEF Local, Saving
    <2>8. Placed(w)' /\ Own(w)'
        <3>1. "setup" \notin Chosen /\ child'[w] = "none"
            BY <1>1, NoChild DEF Chosen, Unpublished, Working, Saving
        <3> QED
            BY <2>3, <3>1, NothingOwned
    <2>9. ASSUME NEW x \in Workers, x # w, run[x].job = j PROVE j \in mixed'
        BY <1>3, <2>9
    <2>10. Apart'
        <3>1. ASSUME NEW x \in Workers, NEW y \in Workers, x # y, x # w, y # w
              PROVE  /\ run'[x].path = run'[y].path /\ run'[x].path # NoPath => run'[x].job \in mixed'
                     /\ run'[x].job = run'[y].job /\ run'[x].job # NoJob => run'[x].job \in mixed'
            BY <2>3, <2>4, <3>1 DEF Inv, Apart
        <3>2. ASSUME NEW x \in Workers, x # w
              PROVE  /\ run'[x].path = run'[w].path => run'[x].path = NoPath
                     /\ run'[x].job = run'[w].job => run'[x].job \in mixed' /\ run'[w].job \in mixed'
            BY <2>3, <2>9, <3>2
        <3> QED
            BY <3>1, <3>2 DEF Apart
    <2>11. \A x \in Workers : Placed(x)' /\ Own(x)'
        BY <2>7, <2>8, OtherRuns
    <2> QED
        BY <2>6, <2>7, <2>10, <2>11, StillTidy DEF Inv
<1> QED
    BY <1>2, <1>3 DEF Take

\* There is a smallest free counter.
LEMMA SmallestCounter ==
    ASSUME NEW T, T \subseteq Nat, T # {}
    PROVE  \E n \in T : \A m \in T : n <= m
<1>1. \E n \in T : \A m \in T : ~(m < n)
    <2> DEFINE R == OpToRel(<, Nat)
    <2>1. PICK n \in T : \A m \in T : <<m, n>> \notin R
        BY NatLessThanWellFounded, WFMin
    <2>2. \A m \in T : <<m, n>> \in R <=> m < n
        BY DEF OpToRel
    <2>3. \A m \in T : ~(m < n)
        BY <2>1, <2>2, Zenon
    <2> QED
        BY <2>3, Zenon
<1> QED
    BY <1>1

\* A path that is chosen is free, or the choice says why it may not be.
LEMMA ResolvedIsFree ==
    ASSUME TypeOK, NEW j \in Jobs, Resolved(j) # NoPath
    PROVE  /\ Resolved(j) \in Paths
           /\ \/ ~Exists(Resolved(j))
              \/ kind[j].mode = "overwrite"
              \/ Resolved(j) = VideoOf[j]
              \/ kind[j].mode = "skip" /\ Exists(Resolved(j))
<1>1. Base \in Paths /\ VideoOf[j] \in Paths /\ FreeCounters \subseteq Paths
    BY ConstantsOK DEF Paths, FreeCounters
<1>2. \A n \in FreeCounters : ~Exists(n)
    BY DEF FreeCounters
<1>3. CASE FreeCounters = {}
    BY <1>1, <1>3 DEF Resolved, TypeOK
<1>4. CASE FreeCounters # {}
    <2>1. \E n \in FreeCounters : \A m \in FreeCounters : n <= m
        <3>1. FreeCounters \subseteq Nat
            BY ConstantsOK DEF FreeCounters
        <3> QED
            BY <1>4, <3>1, SmallestCounter
    <2> QED
        BY <1>1, <1>2, <1>4, <2>1 DEF Resolved, TypeOK
<1> QED
    BY <1>3, <1>4

LEMMA ResolveInv ==
    ASSUME Inv, NEW w \in Workers, ResolveOutput(w)
    PROVE  Inv'
<1> DEFINE j == run[w].job
           p == Resolved(j)
<1>1. /\ TypeOK /\ run[w].at = "setup" /\ Busy(w) /\ j \in Jobs
      /\ UNCHANGED <<kind, queue, child, staged, sibling, final, died, late, faults>>
    BY BusyHasJob DEF ResolveOutput, Inv, Busy, libVars
<1>2. /\ run[w].at \notin Saving \cup Working
      /\ child = [child EXCEPT ![w] = "none"] /\ child[w] = "none"
    BY <1>1, NoChild DEF Working, Saving
<1>3. CASE Goto(w, "failing") /\ UNCHANGED <<status, mixed>>
    <2>1. "failing" \in Handling \cap Steps
        BY DEF Handling, Steps
    <2>2. TypeOK'
        BY <1>1, <1>3, <2>1, GoesTo DEF TypeOK, RunType
    <2> QED
        BY <1>1, <1>2, <1>3, <2>1, <2>2, QuietExit
<1>4. CASE Succeed(w) /\ UNCHANGED mixed
    <2>1. "failing" \in Handling
        BY DEF Handling
    <2>2. status' \in [Jobs -> {"active", "cancelled", "failed", "succeeded", "deleted"}]
        BY <1>1, <1>4 DEF TypeOK, Succeed
    <2>3. TypeOK'
        BY <1>1, <1>4, <2>2, GoesIdle DEF TypeOK, RunType, Succeed
    <2> QED
        BY <1>1, <1>2, <1>4, <2>1, <2>3, QuietExit DEF Succeed
<1>5. CASE /\ p # NoPath
           /\ ~(kind[j].mode = "skip" /\ Exists(p))
           /\ run' = [run EXCEPT ![w].path = p,
                                 ![w].at = IF kind[j].dry THEN "dry" ELSE "download"]
           /\ mixed' = mixed \cup Meeting(w, p)
           /\ UNCHANGED status
    <2> DEFINE at == IF kind[j].dry THEN "dry" ELSE "download"
    <2>1. p \in Paths
        BY <1>1, <1>5, ResolvedIsFree
    <2>2. run \in [Workers -> RunType] /\ at \in Steps
        BY <1>1 DEF TypeOK, RunType, Steps
    <2>3. /\ run' \in [Workers -> RunType]
          /\ run'[w].job = j /\ run'[w].at = at /\ run'[w].path = p
          /\ \A x \in Workers \ {w} : run'[x] = run[x]
        BY <1>5, <2>1, <2>2 DEF RunType
    <2>4. Meeting(w, p) \subseteq Jobs
        <3>1. ASSUME NEW x \in Workers, run[x].path = p PROVE run[x].job \in Jobs
            <4>1. run[x] # IdleRun
                BY <2>1, <3>1, ConstantsOK DEF IdleRun
            <4> QED
                BY <4>1 DEF Inv, Placed
        <3> QED
            BY <1>1, <3>1 DEF Meeting
    <2>5. mixed \subseteq mixed' /\ mixed' \subseteq Jobs
        BY <1>1, <1>5, <2>4 DEF TypeOK
    <2>6. TypeOK'
        BY <1>1, <1>5, <2>3, <2>5 DEF TypeOK, RunType
    <2>7. Local(w) /\ Tidy(w)
        BY <1>1, <1>2, <2>3, <2>5, QuietIsTidy DEF Local
    <2>8. Exists(p) => Exempt(w)'
        BY <1>1, <1>5, <2>3, ResolvedIsFree DEF Exempt
    <2>9. ~Exists(p) => final[p] = None
        BY <1>1, <2>1, FileTypes DEF Exists, TypeOK
    <2>10. Placed(w)' /\ Own(w)'
        <3>1. at \notin Saving \cup Working \cup {"idle", "verify", "copying", "copied", "committed"}
            BY DEF Saving, Working
        <3>2. Placed(w)'
            BY <1>1, <1>2, <2>1, <2>3, <3>1 DEF Placed
        <3>3. final'[run'[w].path] = None \/ Exempt(w)'
            BY <1>1, <2>3, <2>8, <2>9
        <3> QED
            BY <2>3, <3>1, <3>2, <3>3 DEF Own
    <2>11. \A x \in Workers \ {w} : run[x].path = p => run[x].job \in mixed' /\ j \in mixed'
        BY <1>5 DEF Meeting
    <2>12. Apart'
        <3>1. ASSUME NEW x \in Workers, NEW y \in Workers, x # y, x # w, y # w
              PROVE  /\ run'[x].path = run'[y].path /\ run'[x].path # NoPath => run'[x].job \in mixed'
                     /\ run'[x].job = run'[y].job /\ run'[x].job # NoJob => run'[x].job \in mixed'
            BY <2>3, <2>5, <3>1 DEF Inv, Apart
        <3>2. ASSUME NEW x \in Workers, x # w, run'[x].path = run'[w].path
              PROVE  run'[x].job \in mixed' /\ run'[w].job \in mixed'
            BY <2>3, <2>11, <3>2
        <3>3. ASSUME NEW x \in Workers, x # w, run'[x].job = run'[w].job
              PROVE  run'[w].job \in mixed'
            BY <1>1, <2>3, <2>5, <3>3, ConstantsOK DEF Inv, Apart
        <3> QED
            BY <3>1, <3>2, <3>3 DEF Apart
    <2>13. \A x \in Workers : Placed(x)' /\ Own(x)'
        BY <2>7, <2>10, OtherRuns
    <2> QED
        BY <2>6, <2>7, <2>12, <2>13, StillTidy DEF Inv
<1> QED
    BY <1>3, <1>4, <1>5 DEF ResolveOutput

----------------------------------------------------------------------------
(* The steps that touch the library *)

LEMMA DryRunInv ==
    ASSUME Inv, NEW w \in Workers, DryRun(w)
    PROVE  Inv'
<1> DEFINE j == run[w].job
           p == run[w].path
           fake == [what |-> "fake", of |-> j]
<1>1. /\ TypeOK /\ run[w].at = "dry" /\ Busy(w) /\ j \in Jobs /\ p \in Paths
      /\ final' = [final EXCEPT ![p] = fake]
      /\ UNCHANGED <<kind, queue, child, staged, sibling, mixed, died, late, faults>>
    BY BusyHasJob, ChosenHasPath DEF DryRun, Inv, Busy, ghosts, Chosen, Unpublished
<1>2. final' \in [Paths -> File] /\ final'[p] = fake /\ \A q \in Paths : q # p => final'[q] = final[q]
    BY <1>1, FileTypes DEF TypeOK
<1>3. child[w] = "none" /\ run[w].at \notin Saving
    BY <1>1, NoChild DEF Working, Saving
<1>4. PICK at \in {"cancelling", "failing"} :
          \/ Goto(w, at) /\ status' = status
          \/ run' = [run EXCEPT ![w] = IdleRun] /\ status' = [status EXCEPT ![j] = "succeeded"]
    BY DEF DryRun, Succeed
<1>5. at \in Steps /\ at \notin Chosen \cup {"idle"} /\ "idle" \notin Chosen
    BY DEF Steps, Handling, Chosen, Unpublished, Working, Saving
<1>6. /\ run' \in [Workers -> RunType] /\ Holds(w)
      /\ \A x \in Workers \ {w} : run'[x] = run[x]
      /\ Placed(w)' /\ Own(w)'
    BY <1>1, <1>3, <1>4, <1>5, GoesTo, GoesIdle, NothingOwned DEF Holds
<1>7. status' \in [Jobs -> {"active", "cancelled", "failed", "succeeded", "deleted"}]
    BY <1>1, <1>4 DEF TypeOK
<1>8. TypeOK'
    BY <1>1, <1>2, <1>6, <1>7 DEF TypeOK, RunType
<1>9. Local(w)
    BY <1>1, <1>2, <1>6 DEF Local
<1>10. Tidy(w)
    BY <1>1, <1>2, <1>3 DEF Tidy
<1> QED
    BY <1>6, <1>8, <1>9, <1>10, OneRun

LEMMA VerifyInv ==
    ASSUME Inv, NEW w \in Workers, VerifyOutput(w)
    PROVE  Inv'
<1> DEFINE j == run[w].job
           p == run[w].path
           part == [what |-> "part", of |-> j]
<1>1. /\ TypeOK /\ run[w].at = "verify" /\ Busy(w) /\ j \in Jobs /\ p \in Paths
      /\ UNCHANGED <<status, kind, queue, child, staged, final, mixed, died, late, faults>>
    BY BusyHasJob, ChosenHasPath DEF VerifyOutput, Inv, Busy, jobVars, ghosts, Chosen, Unpublished
<1>2. /\ child[w] = "none" /\ child = [child EXCEPT ![w] = "none"]
      /\ run[w].at \notin Saving
    BY <1>1, NoChild DEF Working, Saving
<1>3. ASSUME NEW at \in Handling, Goto(w, at), sibling' = sibling PROVE Inv'
    <2>1. at \in Steps
        BY DEF Steps
    <2>2. TypeOK'
        BY <1>1, <1>3, <2>1, GoesTo DEF TypeOK, RunType
    <2> QED
        BY <1>1, <1>2, <1>3, <2>2, QuietExit
<1>4. CASE Goto(w, "copying") /\ sibling' = [sibling EXCEPT ![p] = part]
    <2>1. "copying" \in Steps
        BY DEF Steps, Saving
    <2>2. /\ run' \in [Workers -> RunType]
          /\ run'[w].at = "copying" /\ run'[w].job = j /\ run'[w].path = p
          /\ \A x \in Workers \ {w} : run'[x] = run[x]
        BY <1>1, <1>4, <2>1, GoesTo
    <2>3. /\ sibling' \in [Paths -> File] /\ sibling'[p] = part
          /\ \A q \in Paths : q # p => sibling'[q] = sibling[q]
        BY <1>1, <1>4, FileTypes DEF TypeOK
    <2>4. TypeOK'
        BY <1>1, <2>2, <2>3 DEF TypeOK, RunType
    <2>5. Local(w)
        BY <1>1, <2>2, <2>3 DEF Local
    <2>6. Tidy(w)
        BY <1>1, <2>2 DEF Tidy, Saving
    <2>7. Placed(w)'
        BY <1>1, <1>2, <2>2 DEF Inv, Placed, Chosen, Unpublished, Saving
    <2>8. /\ final[p] = None \/ Exempt(w)
          /\ j \notin mixed => staged[j] = "whole"
        BY <1>1 DEF Inv, Own, Unpublished
    <2>9. Own(w)'
        BY <1>1, <2>2, <2>3, <2>8 DEF Own, Exempt
    <2> QED
        BY <2>2, <2>4, <2>5, <2>6, <2>7, <2>9, OneRun DEF Holds
<1> QED
    BY <1>3, <1>4 DEF VerifyOutput, Handling

\* A step out of the saving, the sibling removed.
LEMMA SavingExit ==
    ASSUME Inv, NEW w \in Workers, run[w].at \in Saving, TypeOK', Goto(w, "failing"),
           UNCHANGED <<kind, child, staged, final, mixed, died, late>>,
           sibling' = Unlinked(run[w].path)
    PROVE  Inv'
<1>1. TypeOK /\ "failing" \in Steps \ Chosen /\ "failing" # "idle"
    BY DEF Inv, Steps, Handling, Chosen, Unpublished, Working, Saving
<1>2. run[w].path \in Paths /\ run[w].job \in Jobs /\ child[w] = "none"
    BY ChosenHasPath, NoChild DEF Chosen, Unpublished, Saving, Working
<1>3. Local(w) /\ Tidy(w)
    BY <1>1, <1>2, GoesTo, UnlinkedType DEF Local, Tidy
<1>4. Placed(w)' /\ Own(w)' /\ Holds(w)
    BY <1>1, <1>2, GoesTo, NothingOwned DEF Holds
<1> QED
    BY <1>3, <1>4, OneRun

LEMMA EndCopyInv ==
    ASSUME Inv, NEW w \in Workers, EndCopy(w)
    PROVE  Inv'
<1> DEFINE j == run[w].job
           p == run[w].path
           mine == sibling[p] = [what |-> "part", of |-> j]
<1>1. /\ TypeOK /\ run[w].at = "copying" /\ j \in Jobs /\ p \in Paths
      /\ run[w].at \in Saving /\ child[w] = "none"
      /\ UNCHANGED <<status, kind, queue, child, staged, final, mixed, died, late>>
    BY ChosenHasPath, NoChild DEF EndCopy, Inv, jobVars, ghosts, Chosen, Unpublished, Saving, Working
<1>2. faults' \in 0 .. MaxFaults
    BY <1>1, FaultType DEF EndCopy, TypeOK
<1>3. CASE Goto(w, "failing") /\ sibling' = Unlinked(p)
    <2>1. "failing" \in Steps
        BY DEF Steps, Handling
    <2>2. TypeOK'
        BY <1>1, <1>2, <1>3, <2>1, GoesTo, UnlinkedType DEF TypeOK, RunType
    <2> QED
        BY <1>1, <1>3, <2>2, SavingExit
<1>4. CASE Goto(w, "copied") /\ sibling'[p].of = sibling[p].of /\ sibling' \in [Paths -> File]
           /\ (\A q \in Paths : q # p => sibling'[q] = sibling[q])
           /\ (sibling'[p] = sibling[p] \/ sibling[p].of = j)
           /\ sibling[p] # None
           /\ (j \notin mixed => sibling'[p] = [what |-> "whole", of |-> j])
    <2>1. "copied" \in Steps \cap Chosen \cap Unpublished
        BY DEF Steps, Chosen, Unpublished, Saving
    <2>2. /\ run' \in [Workers -> RunType]
          /\ run'[w].at = "copied" /\ run'[w].job = j /\ run'[w].path = p
          /\ \A x \in Workers \ {w} : run'[x] = run[x]
        BY <1>1, <1>4, <2>1, GoesTo
    <2>3. TypeOK'
        BY <1>1, <1>2, <1>4, <2>2 DEF TypeOK, RunType
    <2>4. Local(w)
        BY <1>1, <1>4, <2>2 DEF Local
    <2>5. Tidy(w)
        BY <1>1, <2>2 DEF Tidy, Saving
    <2>6. Placed(w)'
        BY <1>1, <2>1, <2>2 DEF Inv, Placed, Chosen, Unpublished, Saving
    <2>7. /\ final[p] = None \/ Exempt(w)
          /\ sibling[p].of \in mixed \cup {j}
        BY <1>1, <1>4 DEF Inv, Own, Unpublished
    <2>8. Own(w)'
        BY <1>1, <1>4, <2>2, <2>7 DEF Own, Exempt
    <2> QED
        BY <2>2, <2>3, <2>4, <2>5, <2>6, <2>8, OneRun DEF Holds
<1>5. CASE mine /\ Goto(w, "copied")
           /\ sibling' = [sibling EXCEPT ![p].what = IF staged[j] = "whole" THEN "whole" ELSE "part"]
    <2>1. sibling \in [Paths -> File] /\ sibling[p] # None
        BY <1>1, <1>5 DEF TypeOK, None
    <2>2. sibling'[p] = [what |-> IF staged[j] = "whole" THEN "whole" ELSE "part", of |-> j]
        BY <1>1, <1>5, <2>1
    <2>3. sibling' \in [Paths -> File] /\ \A q \in Paths : q # p => sibling'[q] = sibling[q]
        <3>1. sibling' = [sibling EXCEPT ![p] = sibling'[p]]
            BY <1>1, <1>5, <2>1
        <3>2. sibling'[p] \in File
            BY <1>1, <2>2, FileTypes
        <3> QED
            BY <1>1, <2>1, <3>1, <3>2
    <2>4. j \notin mixed => staged[j] = "whole"
        BY <1>1 DEF Inv, Own
    <2> QED
        BY <1>4, <1>5, <2>1, <2>2, <2>3, <2>4
<1>6. CASE ~mine /\ sibling[p] # None /\ Goto(w, "copied") /\ sibling' = sibling
    <2>1. j \in mixed
        BY <1>1, <1>6 DEF Inv, Own
    <2> QED
        BY <1>1, <1>4, <1>6, <2>1 DEF TypeOK
<1> QED
    BY <1>3, <1>5, <1>6 DEF EndCopy

LEMMA RenameInv ==
    ASSUME Inv, NEW w \in Workers, Rename(w)
    PROVE  Inv'
<1> DEFINE j == run[w].job
           p == run[w].path
<1>1. /\ TypeOK /\ run[w].at = "copied" /\ j \in Jobs /\ p \in Paths
      /\ run[w].at \in Saving /\ child[w] = "none"
      /\ UNCHANGED <<status, kind, queue, child, staged, mixed, died, late>>
    BY ChosenHasPath, NoChild DEF Rename, Inv, jobVars, ghosts, Chosen, Unpublished, Saving, Working
<1>2. faults' \in 0 .. MaxFaults
    BY <1>1, FaultType DEF Rename, TypeOK
<1>3. /\ Unlinked(p) \in [Paths -> File]
      /\ \A q \in Paths : Unlinked(p)[q] = IF q = p THEN None ELSE sibling[q]
    BY <1>1, UnlinkedType
<1>4. CASE Goto(w, "failing") /\ sibling' = Unlinked(p) /\ final' = final
    <2>1. "failing" \in Steps
        BY DEF Steps, Handling
    <2>2. TypeOK'
        BY <1>1, <1>2, <1>3, <1>4, <2>1, GoesTo DEF TypeOK, RunType
    <2> QED
        BY <1>1, <1>4, <2>2, SavingExit
<1>5. CASE /\ sibling[p] # None /\ final' = [final EXCEPT ![p] = sibling[p]]
           /\ sibling' = Unlinked(p) /\ Goto(w, "committed")
    <2>1. "committed" \in Steps \cap Chosen /\ "committed" \notin Unpublished
        BY DEF Steps, Chosen, Unpublished, Saving, Working
    <2>2. /\ run' \in [Workers -> RunType]
          /\ run'[w].at = "committed" /\ run'[w].job = j /\ run'[w].path = p
          /\ \A x \in Workers \ {w} : run'[x] = run[x]
        BY <1>1, <1>5, <2>1, GoesTo
    <2>3. /\ final' \in [Paths -> File] /\ final'[p] = sibling[p]
          /\ \A q \in Paths : q # p => final'[q] = final[q]
        BY <1>1, <1>5 DEF TypeOK
    <2>4. TypeOK'
        BY <1>1, <1>2, <1>3, <1>5, <2>2, <2>3 DEF TypeOK, RunType
    <2>5. Local(w)
        BY <1>1, <1>3, <1>5, <2>2, <2>3 DEF Local
    <2>6. /\ sibling[p].of \in mixed \cup {j}
          /\ j \notin mixed => sibling[p] = [what |-> "whole", of |-> j]
        BY <1>1, <1>5 DEF Inv, Own
    <2>7. sibling[p].what # "part" \/ sibling[p].of \in mixed
        BY <2>6
    <2>8. Tidy(w)
        BY <1>1, <1>3, <1>5, <2>3, <2>7 DEF Tidy
    <2>9. Placed(w)'
        BY <1>1, <2>1, <2>2 DEF Inv, Placed, Chosen, Unpublished
    <2>10. Own(w)'
        BY <1>1, <2>1, <2>2, <2>3, <2>6 DEF Own, Saving
    <2> QED
        BY <2>2, <2>4, <2>5, <2>8, <2>9, <2>10, OneRun DEF Holds
<1> QED
    BY <1>4, <1>5 DEF Rename

LEMMA FinishInv ==
    ASSUME Inv, NEW w \in Workers, Finish(w)
    PROVE  Inv'
<1> DEFINE j == run[w].job
           p == run[w].path
<1>1. /\ TypeOK /\ run[w].at = "committed" /\ Busy(w) /\ j \in Jobs /\ p \in Paths
      /\ UNCHANGED <<kind, queue, child, final, mixed, died, late, faults>>
    BY BusyHasJob, ChosenHasPath DEF Finish, Inv, Busy, ghosts, Chosen
<1>2. /\ child[w] = "none" /\ child = [child EXCEPT ![w] = "none"]
      /\ run[w].at \notin Saving
    BY <1>1, NoChild DEF Working, Saving
<1>3. ASSUME NEW at \in Handling, Goto(w, at), UNCHANGED <<status, staged, sibling>> PROVE Inv'
    <2>1. at \in Steps
        BY DEF Steps
    <2>2. TypeOK'
        BY <1>1, <1>3, <2>1, GoesTo DEF TypeOK, RunType
    <2> QED
        BY <1>1, <1>2, <1>3, <2>2, QuietExit
<1>4. CASE Removed(w) /\ (Succeed(w) \/ (Goto(w, "failing") /\ UNCHANGED status))
    <2>1. /\ staged' = [staged EXCEPT ![j] = "none"]
          /\ sibling' = Unlinked(p)
        BY <1>1, <1>4, ConstantsOK DEF Removed
    <2>2. /\ "failing" \in Steps /\ "failing" \notin Chosen \cup {"idle"} /\ "idle" \notin Chosen
        BY DEF Steps, Handling, Chosen, Unpublished, Working, Saving
    <2>3. /\ run' \in [Workers -> RunType] /\ Holds(w)
          /\ \A x \in Workers \ {w} : run'[x] = run[x]
          /\ Placed(w)' /\ Own(w)'
        <3>1. CASE Succeed(w)
            BY <1>1, <1>2, <2>2, <3>1, GoesIdle, NothingOwned DEF Holds, Succeed
        <3>2. CASE Goto(w, "failing")
            BY <1>1, <1>2, <2>2, <3>2, GoesTo, NothingOwned DEF Holds
        <3> QED
            BY <1>4, <3>1, <3>2
    <2>4. status' \in [Jobs -> {"active", "cancelled", "failed", "succeeded", "deleted"}]
        BY <1>1, <1>4 DEF TypeOK, Succeed
    <2>5. staged' \in [Jobs -> {"none", "part", "whole"}]
        BY <1>1, <2>1 DEF TypeOK
    <2>6. TypeOK'
        BY <1>1, <2>1, <2>3, <2>4, <2>5, UnlinkedType DEF TypeOK, RunType
    <2>7. Local(w)
        BY <1>1, <2>1, <2>3, UnlinkedType DEF Local, TypeOK
    <2>8. Tidy(w)
        BY <1>1, <2>1, UnlinkedType DEF Tidy
    <2> QED
        BY <2>3, <2>6, <2>7, <2>8, OneRun
<1> QED
    BY <1>3, <1>4 DEF Finish, Handling

\* The end of the time of a run, and the death of its worker.
LEMMA TimeOutInv ==
    ASSUME Inv, NEW w \in Workers, TimeOut(w)
    PROVE  Inv'
<1> DEFINE j == run[w].job
           p == run[w].path
<1>1. /\ TypeOK /\ Busy(w) /\ run[w].at # "idle" /\ j \in Jobs /\ faults' \in 0 .. MaxFaults
      /\ UNCHANGED <<kind, queue, staged, final, died, late>>
    BY BusyHasJob, FaultType DEF TimeOut, Inv, Busy
<1>2. CASE /\ run[w].at \in Handling /\ Leave(w) /\ sibling' = sibling
           /\ status' = IF status[j] \in {"cancelled", "deleted"} THEN status
                        ELSE [status EXCEPT ![j] = "failed"]
    <2>1. status' \in [Jobs -> {"active", "cancelled", "failed", "succeeded", "deleted"}]
        BY <1>1, <1>2 DEF TypeOK
    <2>2. TypeOK' /\ mixed \subseteq mixed'
        BY <1>1, <1>2, <2>1, LeaveType DEF TypeOK, RunType
    <2>3. /\ run[w].at \notin Saving /\ run' = [run EXCEPT ![w] = IdleRun]
          /\ child' = [child EXCEPT ![w] = "none"]
        BY <1>2 DEF Leave, Handling, Saving
    <2> QED
        BY <1>1, <1>2, <2>2, <2>3, QuietExit
<1>3. CASE /\ run[w].at \notin Handling /\ Goto(w, "failing")
           /\ child' = [child EXCEPT ![w] = "none"]
           /\ mixed' = IF child[w] = "running" THEN mixed \cup {j} ELSE mixed
           /\ sibling' = IF run[w].at \in Saving THEN Unlinked(p) ELSE sibling
           /\ status' = status
    <2>1. "failing" \in Handling \cap Steps /\ "failing" \notin Chosen \cup {"idle"}
        BY DEF Handling, Steps, Chosen, Unpublished, Working, Saving
    <2>2. /\ mixed \subseteq mixed' /\ mixed' \subseteq Jobs
          /\ child' \in [Workers -> {"none", "running", "stopped"}] /\ child'[w] = "none"
          /\ \A x \in Workers \ {w} : child'[x] = child[x]
          /\ sibling' \in [Paths -> File]
        BY <1>1, <1>3, UnlinkedType DEF TypeOK
    <2>3. TypeOK'
        BY <1>1, <1>3, <2>1, <2>2, GoesTo DEF TypeOK, RunType
    <2>4. CASE run[w].at \notin Saving
        BY <1>1, <1>3, <2>1, <2>2, <2>3, <2>4, QuietExit
    <2>5. CASE run[w].at \in Saving
        <3>1. Local(w) /\ Tidy(w)
            BY <1>1, <1>3, <2>1, <2>2, <2>5, GoesTo, UnlinkedType DEF Local, Tidy
        <3>2. Placed(w)' /\ Own(w)' /\ Holds(w)
            BY <1>1, <1>3, <2>1, <2>2, GoesTo, NothingOwned DEF Holds
        <3> QED
            BY <2>3, <3>1, <3>2, OneRun
    <2> QED
        BY <2>4, <2>5
<1> QED
    BY <1>2, <1>3 DEF TimeOut

LEMMA CrashInv ==
    ASSUME Inv, NEW w \in Workers, Crash(w)
    PROVE  Inv'
<1> DEFINE j == run[w].job
           p == run[w].path
<1>1. /\ TypeOK /\ Busy(w) /\ j \in Jobs /\ faults' \in 0 .. MaxFaults
      /\ run' = [run EXCEPT ![w] = IdleRun] /\ child' = [child EXCEPT ![w] = "none"]
      /\ died' = died \cup {j}
      /\ UNCHANGED <<status, kind, staged, sibling, final, late>>
    BY BusyHasJob, FaultType DEF Crash, Inv, libVars
<1>2. /\ mixed \subseteq mixed' /\ mixed' \subseteq Jobs /\ died' \subseteq Jobs
      /\ queue' \subseteq Jobs
    BY <1>1 DEF Crash, TypeOK
<1>3. /\ child' \in [Workers -> {"none", "running", "stopped"}] /\ child'[w] = "none"
      /\ \A x \in Workers \ {w} : child'[x] = child[x]
    BY <1>1 DEF TypeOK
<1>4. TypeOK'
    BY <1>1, <1>2, <1>3, GoesIdle DEF TypeOK, RunType
<1>5. Local(w)
    BY <1>1, <1>2, <1>3, GoesIdle DEF Local
<1>6. run[w].at \in Saving /\ sibling[p] # None => sibling[p].of \in mixed \cup {j}
    BY DEF Inv, Own
<1>7. Tidy(w)
    BY <1>1, <1>2, <1>6 DEF Tidy
<1>8. "idle" \notin Chosen
    BY DEF Chosen, Unpublished, Working, Saving
<1>9. Placed(w)' /\ Own(w)' /\ Holds(w)
    BY <1>1, <1>3, <1>8, GoesIdle, NothingOwned DEF Holds
<1> QED
    BY <1>4, <1>5, <1>7, <1>9, OneRun

----------------------------------------------------------------------------
(* The rest of the world *)

LEMMA WorldInv ==
    ASSUME Inv, UNCHANGED vars \/ (\E j \in Jobs : Cancel(j) \/ Retry(j) \/ Delete(j))
    PROVE  Inv'
<1>1. UNCHANGED <<kind, run, child, staged, sibling, final, mixed, died, late>>
    BY DEF vars, jobVars, libVars, ghosts, Cancel, Retry, Delete
<1>2. /\ status' \in [Jobs -> {"active", "cancelled", "failed", "succeeded", "deleted"}]
      /\ queue' \subseteq Jobs /\ faults' \in 0 .. MaxFaults
    <2>1. CASE UNCHANGED vars
        BY <2>1 DEF vars, jobVars, Inv, TypeOK
    <2>2. ASSUME NEW j \in Jobs, Cancel(j) \/ Retry(j) \/ Delete(j)
          PROVE  /\ status' \in [Jobs -> {"active", "cancelled", "failed", "succeeded", "deleted"}]
                 /\ queue' \subseteq Jobs /\ faults' \in 0 .. MaxFaults
        BY <2>2, FaultType DEF Cancel, Retry, Delete, Inv, TypeOK
    <2> QED
        BY <2>1, <2>2
<1>3. TypeOK'
    BY <1>1, <1>2 DEF Inv, TypeOK
<1> QED
    BY <1>1, <1>3 DEF Inv, Placed, Own, Exempt, Apart, PublishedWhole, NoStrays

LEMMA StrangeInv ==
    ASSUME Inv, NEW f \in Paths, StrangeFile(f)
    PROVE  Inv'
<1> DEFINE strange == [what |-> "strange", of |-> NoJob]
<1>1. /\ TypeOK /\ faults' \in 0 .. MaxFaults /\ final[f] = None
      /\ final' = [final EXCEPT ![f] = strange]
      /\ UNCHANGED <<status, kind, queue, run, child, staged, sibling, mixed, died>>
    BY FaultType DEF StrangeFile, Inv, jobVars
<1>2. late' \subseteq Paths /\ late \subseteq late' /\ \A w \in Workers : run[w].path = f => f \in late'
    BY <1>1 DEF StrangeFile, TypeOK
<1>3. final' \in [Paths -> File] /\ final'[f] = strange
      /\ \A q \in Paths : q # f => final'[q] = final[q]
    BY <1>1 DEF TypeOK, File
<1>4. TypeOK'
    BY <1>1, <1>2, <1>3 DEF TypeOK
<1>5. ASSUME NEW w \in Workers PROVE Placed(w)' /\ Own(w)'
    <2>1. Placed(w) /\ Own(w)
        BY DEF Inv
    <2>2. Placed(w)'
        BY <1>1, <2>1 DEF Placed
    <2>3. run[w].at \in Chosen => run[w].path \in Paths
        BY ChosenHasPath
    <2>4. CASE run[w].path = f
        <3>1. Exempt(w)'
            BY <1>1, <1>2, <2>4 DEF Exempt
        <3>2. None # [what |-> "whole", of |-> run[w].job]
            BY DEF None
        <3> QED
            BY <1>1, <2>1, <2>2, <2>4, <3>1, <3>2 DEF Own
    <2>5. CASE run[w].path # f
        BY <1>1, <1>2, <1>3, <2>1, <2>2, <2>3, <2>5 DEF Own, Exempt, Chosen
    <2> QED
        BY <2>4, <2>5
<1> QED
    BY <1>1, <1>3, <1>4, <1>5 DEF Inv, Apart, PublishedWhole, NoStrays

----------------------------------------------------------------------------
(* Theorems *)

LEMMA InvInit == Init => Inv
<1> SUFFICES ASSUME Init PROVE Inv
    OBVIOUS
<1>1. IdleRun \in RunType /\ IdleRun.at = "idle" /\ IdleRun.job = NoJob /\ IdleRun.path = NoPath
    BY DEF IdleRun, RunType
<1>2. TypeOK
    BY <1>1, FileTypes, ConstantsOK DEF Init, TypeOK, RunType
<1>3. "idle" \notin Chosen \cup Unpublished \cup Saving
    BY DEF Chosen, Unpublished, Working, Saving
<1>4. \A w \in Workers : Placed(w) /\ Own(w)
    BY <1>1, <1>3 DEF Init, Placed, Own
<1>5. Apart
    BY <1>1 DEF Init, Apart
<1>6. PublishedWhole /\ NoStrays
    BY DEF Init, PublishedWhole, NoStrays, None
<1> QED
    BY <1>2, <1>4, <1>5, <1>6 DEF Inv

LEMMA InvNext ==
    ASSUME Inv, [Next]_vars
    PROVE  Inv'
<1>1. ASSUME NEW w \in Workers, Run(w) PROVE Inv'
    BY <1>1, ResolveInv, DryRunInv, StartChildInv, StopChildInv, ChildFailsInv, VerifyInv,
       EndCopyInv, RenameInv, FinishInv, HandleInv, CleanUpInv, LoseRowInv DEF Run
<1>2. ASSUME NEW w \in Workers, ChildSucceeds(w) \/ TimeOut(w) \/ Crash(w)
      PROVE  Inv'
    BY <1>2, ChildSucceedsInv, TimeOutInv, CrashInv
<1> QED
    BY <1>1, <1>2, TakeInv, StrangeInv, WorldInv DEF Next

\* Every variable has its type, and what is known of the runs and their files
\* (Inv) holds in every reachable state.
THEOREM TypeCorrect == Spec => [](TypeOK /\ Inv)
<1>1. Inv => TypeOK
    BY DEF Inv
<1> QED
    BY <1>1, InvInit, InvNext, PTL DEF Spec

\* filesystem.py:292-337, for any number of workers, jobs, paths and faults: no
\* part of a file is under a final name, unless two processes were at the files
\* of its job.
THEOREM AlwaysPublishedWhole == Spec => []PublishedWhole
<1>1. Inv => PublishedWhole
    BY DEF Inv
<1> QED
    BY <1>1, TypeCorrect, PTL

\* import_pipeline.py:982-985, 1018-1023: a ".partial" beside the library is of a
\* run that is saving now, of a job a worker died under, or of a mixed one.
THEOREM NeverStrays == Spec => []NoStrays
<1>1. Inv => NoStrays
    BY DEF Inv
<1> QED
    BY <1>1, TypeCorrect, PTL

\* Only a dry run and a rename change what is under a final name, apart from
\* strangers.
LEMMA LibraryWriters ==
    ASSUME Inv, [Next]_vars, NEW p \in Paths, final'[p] # final[p], final[p] # None
    PROVE  \E w \in Workers : run[w].path = p /\ run[w].at \in Unpublished
<1>1. CASE final' = final
    BY <1>1
<1>2. ASSUME NEW w \in Workers, DryRun(w) \/ Rename(w)
      PROVE  run[w].path = p /\ run[w].at \in Unpublished
    <2>1. run[w].at \in Unpublished
        BY <1>2 DEF DryRun, Rename, Unpublished, Saving
    <2>2. CASE DryRun(w)
        BY <2>1, <2>2 DEF DryRun, Inv, TypeOK
    <2>3. CASE Rename(w)
        BY <2>1, <2>3 DEF Rename, Inv, TypeOK
    <2> QED
        BY <1>2, <2>2, <2>3
<1>3. ASSUME NEW f \in Paths, StrangeFile(f) PROVE FALSE
    BY <1>3 DEF StrangeFile, Inv, TypeOK
<1>4. ASSUME NEW w \in Workers, Run(w) PROVE DryRun(w) \/ Rename(w) \/ final' = final
    BY <1>4 DEF Run, ResolveOutput, StartChild, StopChild, ChildFails, VerifyOutput, EndCopy, Finish,
       Handle, CleanUp, LoseRow, libVars
<1>5. ASSUME NEW w \in Workers, ChildSucceeds(w) \/ TimeOut(w) \/ Crash(w)
      PROVE  final' = final
    BY <1>5 DEF ChildSucceeds, TimeOut, Crash, libVars
<1>6. ASSUME NEW j \in Jobs, NEW w \in Workers, Cancel(j) \/ Retry(j) \/ Delete(j) \/ Take(w, j)
      PROVE  final' = final
    BY <1>6 DEF Cancel, Retry, Delete, Take, libVars
<1>7. ASSUME NEW j \in Jobs, Cancel(j) \/ Retry(j) \/ Delete(j)
      PROVE  final' = final
    BY <1>7 DEF Cancel, Retry, Delete, libVars
<1>8. CASE UNCHANGED vars
    BY <1>8 DEF vars, libVars
<1> QED
    BY <1>1, <1>2, <1>3, <1>4, <1>5, <1>6, <1>7, <1>8 DEF Next

\* filesystem.py:222-284, for any number of runs: a file that was there when a run
\* chose its path is replaced only by overwriting, by an import of the video it
\* is named after, or by runs that chose the path at once.
THEOREM FilesAreKept == Spec => KeptFiles
<1> DEFINE Kept == \A p \in Paths \ late : final[p] # None /\ final'[p] # final[p] =>
                      \E w \in Workers :
                         /\ run[w].path = p
                         /\ \/ kind[run[w].job].mode = "overwrite"
                            \/ p = VideoOf[run[w].job]
                            \/ run[w].job \in mixed
<1>1. Inv /\ [Next]_vars => Kept
    <2> SUFFICES ASSUME Inv, [Next]_vars, NEW p \in Paths \ late, final[p] # None,
                        final'[p] # final[p]
                 PROVE  \E w \in Workers :
                            /\ run[w].path = p
                            /\ \/ kind[run[w].job].mode = "overwrite"
                               \/ p = VideoOf[run[w].job]
                               \/ run[w].job \in mixed
        OBVIOUS
    <2>1. PICK w \in Workers : run[w].path = p /\ run[w].at \in Unpublished
        BY LibraryWriters
    <2> QED
        BY <2>1 DEF Inv, Own, Exempt
<1>2. Inv /\ [Next]_vars => [Kept]_vars
    BY <1>1
<1>3. [][Kept]_vars => KeptFiles
    BY DEF KeptFiles
<1> QED
    BY <1>2, <1>3, TypeCorrect, PTL DEF Spec

----------------------------------------------------------------------------
(* Success *)

\* The end of a job that is told to have succeeded.
Filed(j) ==
    \/ j \in mixed
    \/ kind[j].mode = "skip" /\ Exists(Base)
    \/ \E p \in Paths :
          final'[p] = [what |-> IF kind[j].dry THEN "fake" ELSE "whole", of |-> j]

LEMMA SuccessStep ==
    ASSUME Inv, [Next]_vars, NEW j \in Jobs, status[j] # "succeeded", status'[j] = "succeeded"
    PROVE  Filed(j)
<1> USE DEF TypeOK
<1>1. TypeOK /\ status \in [Jobs -> {"active", "cancelled", "failed", "succeeded", "deleted"}]
    BY DEF Inv
<1>2. ASSUME NEW w \in Workers, ResolveOutput(w) PROVE Filed(j)
    <2>1. run[w].job = j /\ kind[j].mode = "skip" /\ Exists(Resolved(j))
        BY <1>1, <1>2 DEF ResolveOutput, Succeed
    <2>2. Resolved(j) = Base
        BY <2>1 DEF Resolved
    <2> QED
        BY <2>1, <2>2 DEF Filed
<1>3. ASSUME NEW w \in Workers, DryRun(w) PROVE Filed(j)
    <2>1. run[w].job = j /\ run[w].at = "dry"
        BY <1>1, <1>3 DEF DryRun, Succeed
    <2>2. run[w].path \in Paths /\ kind[j].dry
        BY <2>1 DEF Inv, Placed, Chosen, Unpublished
    <2>3. final'[run[w].path] = [what |-> "fake", of |-> j]
        BY <1>1, <1>3, <2>1, <2>2 DEF DryRun
    <2> QED
        BY <2>2, <2>3 DEF Filed
<1>4. ASSUME NEW w \in Workers, Finish(w) PROVE Filed(j)
    <2>1. run[w].job = j /\ run[w].at = "committed" /\ final' = final
        BY <1>1, <1>4 DEF Finish, Succeed
    <2>2. run[w].path \in Paths /\ ~kind[j].dry
        BY <2>1 DEF Inv, Placed, Chosen
    <2>3. j \notin mixed => final[run[w].path] = [what |-> "whole", of |-> j]
        BY <2>1 DEF Inv, Own
    <2> QED
        BY <2>1, <2>2, <2>3 DEF Filed
<1>5. ASSUME NEW w \in Workers, Run(w) PROVE Filed(j)
    <2>1. ASSUME StartChild(w) PROVE FALSE
        BY <1>1, <2>1 DEF StartChild
    <2>2. ASSUME Handle(w) PROVE FALSE
        BY <1>1, <2>2 DEF Handle
    <2>3. ASSUME StopChild(w) \/ ChildFails(w) \/ VerifyOutput(w) \/ EndCopy(w) \/ Rename(w)
                 \/ CleanUp(w) \/ LoseRow(w)
          PROVE  FALSE
        BY <2>3 DEF StopChild, ChildFails, VerifyOutput, EndCopy, Rename, CleanUp, LoseRow, jobVars
    <2> QED
        BY <1>2, <1>3, <1>4, <1>5, <2>1, <2>2, <2>3 DEF Run
<1>6. ASSUME NEW w \in Workers, ChildSucceeds(w) \/ TimeOut(w) \/ Crash(w)
      PROVE  FALSE
    BY <1>1, <1>6 DEF ChildSucceeds, TimeOut, Crash, jobVars
<1>7. ASSUME NEW w \in Workers, NEW k \in Jobs, Take(w, k) PROVE FALSE
    BY <1>1, <1>7 DEF Take
<1>8. ASSUME NEW k \in Jobs, Cancel(k) \/ Retry(k) \/ Delete(k) PROVE FALSE
    BY <1>1, <1>8 DEF Cancel, Retry, Delete
<1>9. ASSUME UNCHANGED vars \/ \E p \in Paths : StrangeFile(p) PROVE FALSE
    BY <1>9 DEF vars, jobVars, StrangeFile
<1> QED
    BY <1>5, <1>6, <1>7, <1>8, <1>9 DEF Next

\* import_pipeline.py:793-821, 930-939, for any number of runs: a job of which no
\* two processes were at the files succeeds only with its whole file, its fake
\* one, or the one that was skipped, under its name.
THEOREM SuccessAlwaysFiled == Spec => SuccessIsFiled
<1> DEFINE A == \A j \in Jobs : status[j] # "succeeded" /\ status'[j] = "succeeded" =>
                  \/ j \in mixed
                  \/ kind[j].mode = "skip" /\ Exists(Base)
                  \/ \E p \in Paths :
                        final'[p] = [what |-> IF kind[j].dry THEN "fake" ELSE "whole", of |-> j]
<1>1. Inv /\ [Next]_vars => [A]_vars
    BY SuccessStep DEF Filed
<1>2. [][A]_vars => SuccessIsFiled
    BY DEF SuccessIsFiled
<1> QED
    BY <1>1, <1>2, TypeCorrect, PTL DEF Spec
=============================================================================
