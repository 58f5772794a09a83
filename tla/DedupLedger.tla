---------------------------- MODULE DedupLedger ----------------------------
(***************************************************************************)
(* What the table imported_videos promises the rest of ReelDock, apart     *)
(* from how jobs, workers and requests keep it (ImportJobs does that):     *)
(* a video is recorded by a job whose file is already in the library, once *)
(* by a job that may not re-import, and a recorded video stays recorded.   *)
(***************************************************************************)
CONSTANTS Jobs, Videos, VideoOf, Reimport, NoRow, Severed

VARIABLES
    recorded,  \* each video: NoRow, the job that imported it, or Severed
    filed      \* jobs whose output file is in the library

vars == <<recorded, filed>>

Init ==
    /\ recorded = [v \in Videos |-> NoRow]
    /\ filed = {}

\* A job puts its file in the library.
File(j) ==
    /\ filed' = filed \cup {j}
    /\ UNCHANGED recorded

\* The first import of a video.
Import(j) ==
    /\ j \in filed
    /\ recorded[VideoOf[j]] = NoRow
    /\ recorded' = [recorded EXCEPT ![VideoOf[j]] = j]
    /\ UNCHANGED filed

\* A further import takes the row over, if its user allowed that.
ImportAgain(j) ==
    /\ j \in filed \cap Reimport
    /\ recorded[VideoOf[j]] # NoRow
    /\ recorded' = [recorded EXCEPT ![VideoOf[j]] = j]
    /\ UNCHANGED filed

\* The job's row is deleted; the video stays recorded.
Sever(j) ==
    /\ recorded[VideoOf[j]] = j
    /\ recorded' = [recorded EXCEPT ![VideoOf[j]] = Severed]
    /\ UNCHANGED filed

Next == \E j \in Jobs : File(j) \/ Import(j) \/ ImportAgain(j) \/ Sever(j)

Spec == Init /\ [][Next]_vars
=============================================================================
