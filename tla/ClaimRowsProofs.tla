-------------------------- MODULE ClaimRowsProofs --------------------------
(***************************************************************************)
(* The claim of a run at work, in ClaimRows, for any numbers of jobs,      *)
(* workers, requests, retries and deaths.                                  *)
(***************************************************************************)
EXTENDS ClaimRows, TLAPS

SessionType == [op : Operations, pc : Step, job : Jobs \cup {NoJob},
                seen : Jobs \cup {NoJob}]

\* A session's operation fits what it is and where it is.
Fit(s, c) ==
    /\ c \in SessionType
    /\ c.pc = "idle" <=> c.op = "none"
    /\ IF c.pc = "idle" THEN c.job = NoJob ELSE c.job \in Jobs
    /\ c.pc \in {"get", "insert", "update"} => c.op \in {"claim", "retry"}
    /\ s \in Workers =>
           /\ c.op \in {"none", "recover", "claim"}
           /\ c.pc \notin {"create", "requeue", "enqueue"}
           /\ c.pc = "work" => c.op = "claim"
    /\ s \in Requests =>
           /\ c.op \in {"none", "submit", "retry"}
           /\ c.pc \notin {"begin", "work", "refused"}

Placed ==
    /\ session \in [Sessions -> SessionType]
    /\ \A s \in Sessions : Fit(s, session[s])

Tables ==
    /\ status \in [Jobs -> {"absent", "active", "ended"}]
    /\ claim \in Jobs \cup {NoJob}
    /\ lapsed \in BOOLEAN
    /\ queue \subseteq Jobs
    /\ robbed \subseteq Jobs
    /\ twice \subseteq Jobs
    /\ retries \in 0 .. MaxRetries
    /\ deaths \in 0 .. MaxDeaths

\* Nothing is queued or run before its row is committed.
Committed ==
    /\ \A j \in queue : status[j] # "absent"
    /\ \A r \in Requests : At(r, "enqueue") => status[Job(r)] # "absent"
    /\ \A w \in Workers : session[w].pc # "idle" => status[Job(w)] # "absent"

\* A job outside twice is in the hands of one worker.
Alone ==
    \A v, w \in Workers :
        v # w /\ Job(v) = Job(w) /\ Job(w) # NoJob => Job(w) \in twice

\* From the beginning of its run to its end it is active.
Running ==
    \A w \in Workers :
        /\ Op(w) = "claim"
        /\ session[w].pc \notin {"release", "drop"}
        /\ Job(w) \notin twice
        => status[Job(w)] = "active"

\* The job of a run at work is active as long as it is not in twice, so that no
\* other session may take its row without robbing it.
Inv == Placed /\ Tables /\ Committed /\ Alone /\ Running /\ WorkHoldsClaim

-----------------------------------------------------------------------------
(* What the steps of a session have in common *)

\* What the session s becomes, and that the others stay where they are.
Becomes(s, c) ==
    /\ session'[s] = c
    /\ \A u \in Sessions : u # s => session'[u] = session[u]
    /\ Placed'

LEMMA OneSession ==
  ASSUME Placed, NEW s \in Sessions, NEW c, Fit(s, c), Go(s, c)
  PROVE  Becomes(s, c)
<1>1. /\ session'[s] = c
      /\ \A u \in Sessions : u # s => session'[u] = session[u]
      /\ session' \in [Sessions -> SessionType]
  BY DEF Placed, Go, Fit
<1>2. \A u \in Sessions : Fit(u, session'[u])
  BY <1>1 DEF Placed
<1>3. Placed'
  BY <1>1, <1>2 DEF Placed, Fit, SessionType
<1> QED
  BY <1>1, <1>3 DEF Becomes

\* Going on somewhere else only changes the place.
LEMMA OnlyPlace ==
  ASSUME Placed, NEW s \in Sessions, NEW pc \in Step, pc # "idle",
         Goto(s, pc), session[s].pc # "idle",
         pc \in {"get", "insert", "update"} => Op(s) \in {"claim", "retry"},
         s \in Workers =>
             /\ pc \notin {"create", "requeue", "enqueue"}
             /\ pc = "work" => Op(s) = "claim",
         s \in Requests => pc \notin {"begin", "work", "refused"}
  PROVE  /\ Becomes(s, session'[s])
         /\ session'[s].pc = pc
         /\ session'[s].op = session[s].op
         /\ session'[s].job = session[s].job
<1>1. session[s] \in SessionType /\ Fit(s, session[s])
  BY DEF Placed, Fit
<1> DEFINE c == [session[s] EXCEPT !.pc = pc]
<1>2. c.pc = pc /\ c.op = session[s].op /\ c.job = session[s].job /\ c \in SessionType
  BY <1>1 DEF SessionType
<1>3. Go(s, c)
  BY DEF Goto
<1> HIDE DEF c
<1>4. Fit(s, c)
  BY <1>1, <1>2 DEF Fit, Op
<1>5. Becomes(s, c)
  BY <1>3, <1>4, OneSession
<1> QED
  BY <1>2, <1>5 DEF Becomes

\* A session that has nothing more to do.
LEMMA IdleFits ==
  ASSUME NEW s
  PROVE  /\ Fit(s, Idle)
         /\ Idle.op = "none" /\ Idle.pc = "idle" /\ Idle.job = NoJob
  BY DEF Fit, Idle, SessionType, Operations, Step

LEMMA GoesIdle ==
  ASSUME Placed, NEW s \in Sessions, Go(s, Idle)
  PROVE  /\ Becomes(s, session'[s])
         /\ session'[s].op = "none" /\ session'[s].pc = "idle" /\ session'[s].job = NoJob
<1>1. Becomes(s, Idle)
  BY OneSession, IdleFits
<1> QED
  BY <1>1, IdleFits DEF Becomes

\* A session begins an operation.
LEMMA Begins ==
  ASSUME Placed, NEW s \in Sessions, NEW op \in Operations, NEW j \in Jobs,
         Go(s, [Idle EXCEPT !.op = op, !.pc = "look", !.job = j]),
         s \in Workers => op \in {"recover", "claim"},
         s \in Requests => op \in {"submit", "retry"},
         op # "none"
  PROVE  /\ Becomes(s, session'[s])
         /\ session'[s].op = op /\ session'[s].pc = "look" /\ session'[s].job = j
<1> DEFINE c == [Idle EXCEPT !.op = op, !.pc = "look", !.job = j]
<1>1. Idle \in SessionType
  BY IdleFits DEF Fit
<1>2. c.op = op /\ c.pc = "look" /\ c.job = j /\ c \in SessionType
  BY <1>1 DEF SessionType, Step
<1>4. Go(s, c)
  OBVIOUS
<1> HIDE DEF c
<1>5. Fit(s, c)
  BY <1>2 DEF Fit
<1>6. Becomes(s, c)
  BY <1>4, <1>5, OneSession
<1> QED
  BY <1>2, <1>6 DEF Becomes

\* An active job stays so.
LEMMA Activated ==
  ASSUME Tables, NEW j \in Jobs, Activate(j)
  PROVE  /\ status' \in [Jobs -> {"absent", "active", "ended"}]
         /\ status'[j] = "active"
         /\ \A k \in Jobs : k # j => status'[k] = status[k]
  BY DEF Tables, Activate

\* The jobs of sessions are jobs.
LEMMA JobsOfSessions ==
  ASSUME Placed, ConstantsOK
  PROVE  /\ \A s \in Sessions : session[s].pc # "idle" <=> Job(s) \in Jobs
         /\ \A s \in Sessions : Job(s) \in Jobs \cup {NoJob}
  BY DEF Placed, Fit, SessionType, Job, ConstantsOK

-----------------------------------------------------------------------------
(* What a step has to show *)

\* No job leaves the tables, and only its own run ends it.
StatusKept ==
    \A j \in Jobs : /\ status[j] = "active" => status'[j] = "active"
                    /\ status[j] # "absent" => status'[j] # "absent"

\* The row of an active job stays or is robbed, and who is off the robbed has it.
RowKept ==
    /\ \A j \in Jobs : claim = j /\ status[j] = "active" => claim' = j \/ j \in robbed'
    /\ \A j \in robbed : j \in robbed' \/ claim' = j

\* Where the session s has gone, the invariant holds of it.
Good(s) ==
    /\ s \in Workers =>
          LET w == session'[s]
          IN  /\ w.pc # "idle" => status'[w.job] # "absent"
              /\ w.op = "claim" /\ w.pc \notin {"release", "drop"} /\ w.job \notin twice'
                     => status'[w.job] = "active"
              /\ w.pc = "work" /\ w.job \notin robbed' \cup twice' => claim' = w.job
    /\ s \in Requests =>
          (session'[s].pc = "enqueue" => status'[session'[s].job] # "absent")

LEMMA StepKeeps ==
  ASSUME ConstantsOK, Inv, NEW s \in Sessions, Becomes(s, session'[s]), Tables',
         StatusKept, RowKept, Good(s), Alone', twice \subseteq twice',
         \A j \in queue' : status'[j] # "absent"
  PROVE  Inv'
<1>1. /\ \A u \in Sessions : u # s => session'[u] = session[u]
      /\ Placed'
  BY DEF Becomes
<1>2. \A u \in Sessions : session[u].pc # "idle" <=> Job(u) \in Jobs
  BY JobsOfSessions DEF Inv
<1>3. Committed'
  <2>1. ASSUME NEW r \in Requests, session'[r].pc = "enqueue"
        PROVE  status'[session'[r].job] # "absent"
    <3>1. CASE r = s
      BY <2>1, <3>1 DEF Good
    <3>2. CASE r # s
      BY <1>1, <1>2, <2>1, <3>2 DEF Inv, Committed, StatusKept, At, Job, Sessions
    <3> QED
      BY <3>1, <3>2
  <2>2. ASSUME NEW w \in Workers, session'[w].pc # "idle"
        PROVE  status'[session'[w].job] # "absent"
    <3>1. CASE w = s
      BY <2>2, <3>1 DEF Good
    <3>2. CASE w # s
      BY <1>1, <1>2, <2>2, <3>2 DEF Inv, Committed, StatusKept, Job, Sessions
    <3> QED
      BY <3>1, <3>2
  <2> QED
    BY <2>1, <2>2 DEF Committed, At, Job
<1>4. Running'
  <2> SUFFICES ASSUME NEW w \in Workers, session'[w].op = "claim",
                      session'[w].pc \notin {"release", "drop"},
                      session'[w].job \notin twice'
               PROVE  status'[session'[w].job] = "active"
    BY DEF Running, Op, Job
  <2>1. CASE w = s
    BY <2>1 DEF Good
  <2>2. CASE w # s
    <3>1. session'[w] = session[w] /\ Fit(w, session[w]) /\ Job(w) \notin twice
      BY <1>1, <2>2 DEF Sessions, Inv, Placed, Job
    <3>2. status[Job(w)] = "active" /\ Job(w) \in Jobs
      BY <3>1 DEF Inv, Running, Op, Job, Fit
    <3> QED
      BY <3>1, <3>2 DEF StatusKept, Job
  <2> QED
    BY <2>1, <2>2
<1>5. WorkHoldsClaim'
  <2> SUFFICES ASSUME NEW w \in Workers, session'[w].pc = "work",
                      session'[w].job \notin robbed' \cup twice'
               PROVE  claim' = session'[w].job
    BY DEF WorkHoldsClaim, At, Job
  <2>1. CASE w = s
    BY <2>1 DEF Good
  <2>2. CASE w # s
    <3>1. session'[w] = session[w] /\ Fit(w, session[w]) /\ Job(w) \notin twice
      BY <1>1, <2>2 DEF Sessions, Inv, Placed, Job
    <3>2. status[Job(w)] = "active" /\ Job(w) \in Jobs
      BY <3>1 DEF Inv, Running, Op, Job, Fit
    <3>3. CASE Job(w) \in robbed
      BY <3>1, <3>3 DEF RowKept, Job
    <3>4. CASE Job(w) \notin robbed
      <4>1. claim = Job(w)
        BY <3>1, <3>4 DEF Inv, WorkHoldsClaim, At, Job
      <4> QED
        BY <3>1, <3>2, <4>1 DEF RowKept, Job
    <3> QED
      BY <3>3, <3>4
  <2> QED
    BY <2>1, <2>2
<1> QED
  BY <1>1, <1>3, <1>4, <1>5 DEF Inv

\* A session that keeps its job, or puts it down, stays alone with it.
LEMMA AloneKept ==
  ASSUME ConstantsOK, Inv, NEW s \in Sessions, Becomes(s, session'[s]), UNCHANGED twice,
         s \in Workers => session'[s].job \in {Job(s), NoJob}
  PROVE  Alone'
  BY DEF Inv, Alone, Becomes, Job, Sessions

\* Steps that write nothing.
LEMMA Quiet ==
  ASSUME UNCHANGED <<status, rows, queue, twice, bounds>>, Inv
  PROVE  /\ Tables' /\ StatusKept /\ RowKept
         /\ \A j \in queue' : status'[j] # "absent"
         /\ UNCHANGED <<status, claim, robbed, twice>>
  BY DEF Inv, Tables, StatusKept, RowKept, rows, bounds, Committed

-----------------------------------------------------------------------------
(* The statements that read *)

\* A session that only reads goes on with its operation.
LEMMA WalkOn ==
  ASSUME ConstantsOK, Inv, NEW s \in Sessions, Becomes(s, session'[s]),
         session'[s].op = Op(s), session'[s].job = Job(s),
         session[s].pc # "idle", session'[s].pc \notin {"work", "enqueue"},
         session[s].pc \in {"release", "drop"} => session'[s].pc \in {"release", "drop"},
         UNCHANGED <<status, rows, queue, twice, bounds>>
  PROVE  Inv'
<1>1. /\ Tables' /\ StatusKept /\ RowKept
      /\ \A j \in queue' : status'[j] # "absent"
      /\ UNCHANGED <<status, claim, robbed, twice>>
  BY Quiet
<1>2. Alone'
  BY <1>1, AloneKept
<1>3. Good(s)
  BY <1>1 DEF Good, Inv, Committed, Running, Op, Job
<1> QED
  BY <1>1, <1>2, <1>3, StepKeeps

\* A session that puts its job down.
LEMMA PutDown ==
  ASSUME ConstantsOK, Inv, NEW s \in Sessions, Go(s, Idle), Tables', StatusKept,
         RowKept, UNCHANGED twice, \A j \in queue' : status'[j] # "absent"
  PROVE  Inv'
<1>1. /\ Becomes(s, session'[s])
      /\ session'[s].op = "none" /\ session'[s].pc = "idle" /\ session'[s].job = NoJob
  BY GoesIdle DEF Inv
<1>2. Alone'
  BY <1>1, AloneKept
<1>3. Good(s)
  BY <1>1 DEF Good
<1> QED
  BY <1>1, <1>2, <1>3, StepKeeps

\* The operations of sessions that are not idle, and where expiry leads them.
LEMMA Places ==
  ASSUME Placed, ConstantsOK, NEW s \in Sessions, session[s].pc # "idle"
  PROVE  /\ Job(s) \in Jobs
         /\ session[s] \in SessionType
         /\ s \in Workers \/ s \in Requests
         /\ ~ (s \in Workers /\ s \in Requests)
         /\ s \in Workers => Op(s) \in {"recover", "claim"}
         /\ session[s].pc \in {"get", "insert", "update"} => Op(s) \in {"claim", "retry"}
         /\ s \in Workers /\ session[s].pc = "work" => Op(s) = "claim"
         /\ s \in Requests => Op(s) \in {"submit", "retry"}
         /\ AfterExpiry(s) \in {"begin", "create", "get"}
         /\ s \in Workers => AfterExpiry(s) # "create"
         /\ AfterExpiry(s) = "get" => Op(s) \in {"claim", "retry"}
         /\ s \in Requests => AfterExpiry(s) # "begin"
<1>1. Fit(s, session[s])
  BY DEF Placed
<1>2. /\ Job(s) \in Jobs
      /\ session[s] \in SessionType
      /\ s \in Workers => Op(s) \in {"recover", "claim"}
      /\ s \in Requests => Op(s) \in {"submit", "retry"}
      /\ session[s].pc \in {"get", "insert", "update"} => Op(s) \in {"claim", "retry"}
      /\ s \in Workers /\ session[s].pc = "work" => Op(s) = "claim"
  BY <1>1 DEF Fit, Op, Job
<1>3. s \in Workers \/ s \in Requests
  BY DEF Sessions
<1>4. ~ (s \in Workers /\ s \in Requests)
  BY DEF ConstantsOK
<1>5. \/ Op(s) = "recover" /\ AfterExpiry(s) = "begin"
      \/ Op(s) = "submit" /\ AfterExpiry(s) = "create"
      \/ Op(s) \in {"claim", "retry"} /\ AfterExpiry(s) = "get"
  BY <1>2, <1>3 DEF AfterExpiry
<1> QED
  BY <1>2, <1>3, <1>4, <1>5

\* SELECT the row.
LEMMA LookKeeps ==
  ASSUME ConstantsOK, Inv, NEW s \in Sessions, Look(s)
  PROVE  Inv'
<1>1. Placed /\ session[s].pc = "look" /\ claim \in Jobs \cup {NoJob}
  BY DEF Inv, Look, At, Tables
<1> DEFINE pc == IF claim = NoJob THEN AfterExpiry(s) ELSE "judge"
           c == [session[s] EXCEPT !.seen = claim, !.pc = pc]
<1>2. /\ pc \in {"begin", "create", "get", "judge"}
      /\ s \in Workers => pc # "create"
      /\ pc = "get" => Op(s) \in {"claim", "retry"}
      /\ s \in Requests => pc # "begin"
  BY <1>1, Places
<1>3. Go(s, c)
  BY DEF Look
<1> HIDE DEF pc
<1>4. /\ c.pc = pc /\ c.op = Op(s) /\ c.job = Job(s) /\ c \in SessionType
  BY <1>1, <1>2, Places DEF SessionType, Op, Job, Step
<1> HIDE DEF c
<1>5. Fit(s, c)
  BY <1>1, <1>2, <1>4, Places DEF Fit
<1>6. Becomes(s, session'[s]) /\ session'[s] = c
  BY <1>1, <1>3, <1>5, OneSession DEF Becomes
<1> QED
  BY <1>1, <1>2, <1>4, <1>6, WalkOn DEF Look

\* The other statements that only read.
LEMMA ReadsKeep ==
  ASSUME ConstantsOK, Inv, NEW s \in Sessions, Judge(s) \/ Get(s) \/ Read(s)
  PROVE  Inv'
<1>1. Placed
  BY DEF Inv
<1>2. CASE Judge(s)
  <2> DEFINE pc == IF status[session[s].seen] = "active" THEN AfterExpiry(s) ELSE "delete"
  <2>1. session[s].pc = "judge" /\ Goto(s, pc)
    BY <1>2 DEF Judge, At
  <2>2. /\ pc \in {"begin", "create", "get", "delete"}
        /\ s \in Workers => pc # "create"
        /\ pc = "get" => Op(s) \in {"claim", "retry"}
        /\ s \in Requests => pc # "begin"
    BY <1>1, <2>1, Places
  <2> HIDE DEF pc
  <2>3. /\ Becomes(s, session'[s]) /\ session'[s].pc = pc
        /\ session'[s].op = Op(s) /\ session'[s].job = Job(s)
    BY <1>1, <2>1, <2>2, OnlyPlace DEF Op, Job, Step
  <2> QED
    BY <1>2, <2>1, <2>2, <2>3, WalkOn DEF Judge
<1>3. CASE Get(s)
  <2> DEFINE pc == IF claim = NoJob THEN "insert" ELSE "update"
  <2>1. session[s].pc = "get" /\ Goto(s, pc)
    BY <1>3 DEF Get, At
  <2>2. pc \in Step /\ pc \in {"insert", "update"}
    BY DEF Step
  <2> HIDE DEF pc
  <2>3. Op(s) \in {"claim", "retry"}
    BY <1>1, <2>1, Places
  <2>4. /\ Becomes(s, session'[s]) /\ session'[s].pc = pc
        /\ session'[s].op = Op(s) /\ session'[s].job = Job(s)
    BY <1>1, <2>1, <2>2, <2>3, OnlyPlace DEF Op, Job
  <2> QED
    BY <1>3, <2>1, <2>2, <2>4, WalkOn DEF Get
<1>4. CASE Read(s)
  <2>1. session[s].pc = "release"
    BY <1>4 DEF Read, At
  <2>2. CASE Goto(s, "drop")
    <3>1. /\ Becomes(s, session'[s]) /\ session'[s].pc = "drop"
          /\ session'[s].op = Op(s) /\ session'[s].job = Job(s)
      BY <1>1, <2>1, <2>2, OnlyPlace DEF Op, Job, Step
    <3> QED
      BY <1>4, <2>1, <3>1, WalkOn DEF Read
  <2>3. CASE Go(s, Idle)
    BY <1>4, <2>3, Quiet, PutDown DEF Read
  <2> QED
    BY <1>4, <2>2, <2>3 DEF Read
<1> QED
  BY <1>2, <1>3, <1>4

-----------------------------------------------------------------------------
(* The statements that write *)

\* The row is taken while nobody active has it, or the loser is robbed.
LEMMA Taken ==
  ASSUME ConstantsOK, Inv, NEW j \in Jobs, Take(j),
         claim = NoJob \/ claim = j \/ status[claim] # "active"
  PROVE  RowKept /\ claim' = j /\ lapsed' = FALSE /\ robbed' \subseteq Jobs
  BY DEF Take, RowKept, Inv, Tables, ConstantsOK

\* A session that has just taken the row goes on with it.
LEMMA WithRow ==
  ASSUME ConstantsOK, Inv, NEW s \in Sessions, Becomes(s, session'[s]),
         session'[s].op = Op(s), session'[s].job = Job(s),
         session[s].pc \notin {"idle", "release", "drop"},
         claim' = Job(s), lapsed' = FALSE, robbed' \subseteq Jobs, RowKept,
         UNCHANGED <<queue, twice, bounds>>,
         \/ UNCHANGED status /\ session'[s].pc # "enqueue"
         \/ Activate(Job(s))
  PROVE  Inv'
<1>1. Job(s) \in Jobs
  BY Places DEF Inv
<1>2. /\ status' \in [Jobs -> {"absent", "active", "ended"}]
      /\ StatusKept
      /\ UNCHANGED status \/ status'[Job(s)] = "active"
  BY <1>1, Activated DEF Inv, Tables, StatusKept
<1>3. Tables'
  BY <1>1, <1>2 DEF Inv, Tables, bounds
<1>4. Alone'
  BY AloneKept
<1>5. Good(s)
  <2>1. CASE UNCHANGED status /\ session'[s].pc # "enqueue"
    BY <2>1 DEF Good, Inv, Committed, Running, Op, Job
  <2>2. CASE Activate(Job(s))
    <3>1. status'[Job(s)] = "active"
      BY <1>1, <2>2, Activated DEF Inv
    <3> QED
      BY <3>1 DEF Good, Job
  <2> QED
    BY <2>1, <2>2
<1>6. \A j \in queue' : status'[j] # "absent"
  BY <1>2 DEF Inv, Committed, StatusKept, Tables
<1> QED
  BY <1>2, <1>3, <1>4, <1>5, <1>6, StepKeeps

\* Where a session that is not idle goes with its row.
LEMMA ClaimPlaces ==
  ASSUME ConstantsOK, Inv, NEW s \in Sessions, session[s].pc # "idle",
         NEW pc, Goto(s, pc),
         \/ pc = AfterClaim(s) /\ Op(s) # "recover"
         \/ pc = (IF Op(s) = "claim" THEN "work" ELSE "requeue") /\ Op(s) # "recover"
         \/ pc = "begin" /\ Op(s) = "recover"
  PROVE  /\ Becomes(s, session'[s])
         /\ session'[s].op = Op(s) /\ session'[s].job = Job(s) /\ session'[s].pc = pc
         /\ Op(s) \in {"claim", "recover"} => pc # "enqueue"
<1>1. /\ s \in Workers => Op(s) \in {"recover", "claim"}
      /\ s \in Requests => Op(s) \in {"submit", "retry"}
      /\ s \in Workers \/ s \in Requests
      /\ ~ (s \in Workers /\ s \in Requests)
  BY Places DEF Inv
<1>2. \/ s \in Workers /\ Op(s) = "claim" /\ pc = "work"
      \/ s \in Workers /\ Op(s) = "recover" /\ pc = "begin"
      \/ s \in Requests /\ pc \in {"enqueue", "requeue"}
  BY <1>1 DEF AfterClaim
<1>3. pc \in Step
  BY <1>2 DEF Step
<1>4. /\ s \in Workers => /\ pc \notin {"create", "requeue", "enqueue"}
                          /\ pc = "work" => Op(s) = "claim"
      /\ pc \notin {"get", "insert", "update"}
      /\ s \in Requests => pc \notin {"begin", "work", "refused"}
      /\ pc # "idle"
  BY <1>1, <1>2
<1> QED
  BY <1>1, <1>2, <1>3, <1>4, OnlyPlace DEF Inv, Op, Job

\* A DELETE takes the row from whoever has it, and names the victim.
LEMMA Deleted ==
  ASSUME ConstantsOK, Inv, NEW X \in SUBSET Jobs, NEW k \in Jobs \cup {NoJob},
         claim' = k, robbed' = (robbed \cup Victim) \ X, \A j \in X : j = k
  PROVE  RowKept /\ robbed' \subseteq Jobs
  BY DEF Inv, Tables, RowKept, Victim

LEMMA DeleteKeeps ==
  ASSUME ConstantsOK, Inv, NEW s \in Sessions, Delete(s)
  PROVE  Inv'
<1>1. session[s].pc = "delete" /\ Job(s) \in Jobs
  BY Places DEF Delete, At, Inv
<1>2. CASE Op(s) = "recover"
  <2>1. /\ claim' = NoJob /\ robbed' = (robbed \cup Victim) \ {} /\ Goto(s, "begin")
        /\ UNCHANGED <<status, lapsed, queue, twice, bounds>>
    BY <1>2 DEF Delete
  <2>2. RowKept /\ robbed' \subseteq Jobs
    BY <2>1, Deleted
  <2>3. /\ Becomes(s, session'[s])
        /\ session'[s].op = "recover" /\ session'[s].job = Job(s)
        /\ session'[s].pc = "begin"
    BY <1>1, <1>2, <2>1, ClaimPlaces
  <2>4. Tables' /\ StatusKept
    BY <2>1, <2>2 DEF Inv, Tables, StatusKept, bounds
  <2>5. Alone'
    BY <2>1, <2>3, AloneKept
  <2>6. Good(s)
    BY <1>1, <2>1, <2>3 DEF Good, Inv, Committed, Job
  <2>7. \A j \in queue' : status'[j] # "absent"
    BY <2>1 DEF Inv, Committed
  <2> QED
    BY <2>1, <2>2, <2>3, <2>4, <2>5, <2>6, <2>7, StepKeeps
<1>3. CASE Op(s) # "recover"
  <2>1. /\ claim' = Job(s) /\ lapsed' = FALSE
        /\ robbed' = (robbed \cup Victim) \ {Job(s)}
        /\ Goto(s, AfterClaim(s))
        /\ UNCHANGED <<queue, twice, bounds>>
    BY <1>3 DEF Delete
  <2>2. RowKept /\ robbed' \subseteq Jobs
    BY <1>1, <2>1, Deleted
  <2>3. /\ Becomes(s, session'[s])
        /\ session'[s].op = Op(s) /\ session'[s].job = Job(s)
        /\ session'[s].pc = AfterClaim(s)
        /\ Op(s) \in {"claim", "recover"} => AfterClaim(s) # "enqueue"
    BY <1>1, <1>3, <2>1, ClaimPlaces
  <2>4. Op(s) \in {"claim", "submit", "retry"}
    BY <1>1, <1>3, Places DEF Inv
  <2>5. \/ UNCHANGED status /\ session'[s].pc # "enqueue"
        \/ Activate(Job(s))
    BY <1>3, <2>3, <2>4 DEF Delete
  <2> QED
    BY <1>1, <2>1, <2>2, <2>3, <2>5, WithRow
<1> QED
  BY <1>2, <1>3

\* acquire_claim is refused.
LEMMA RefusedKeeps ==
  ASSUME ConstantsOK, Inv, NEW s \in Sessions, session[s].pc \in {"insert", "update"},
         Refused(s), UNCHANGED <<queue, twice, bounds>>
  PROVE  Inv'
<1>1. CASE Op(s) = "claim"
  <2>1. s \in Workers
    BY <1>1, Places DEF Inv
  <2>2. ~ (s \in Requests)
    BY <2>1, Places DEF Inv
  <2>3. Goto(s, "refused")
    BY <1>1 DEF Refused
  <2>4. /\ Becomes(s, session'[s]) /\ session'[s].pc = "refused"
        /\ session'[s].op = Op(s) /\ session'[s].job = Job(s)
    BY <2>2, <2>3, OnlyPlace DEF Inv, Op, Job, Step
  <2> QED
    BY <2>4, WalkOn DEF Refused
<1>2. CASE Op(s) # "claim"
  BY <1>2, Quiet, PutDown DEF Refused
<1> QED
  BY <1>1, <1>2

LEMMA InsertKeeps ==
  ASSUME ConstantsOK, Inv, NEW s \in Sessions, Insert(s)
  PROVE  Inv'
<1>1. session[s].pc = "insert" /\ Job(s) \in Jobs
  BY Places DEF Insert, At, Inv
<1>2. Op(s) # "recover"
  BY <1>1, Places DEF Inv
<1>3. CASE claim = NoJob
  <2> DEFINE pc == IF Op(s) = "claim" THEN "work" ELSE "requeue"
  <2>1. /\ Take(Job(s)) /\ Goto(s, pc)
        /\ UNCHANGED <<status, queue, twice, bounds>>
    BY <1>3 DEF Insert
  <2>2. RowKept /\ claim' = Job(s) /\ lapsed' = FALSE /\ robbed' \subseteq Jobs
    BY <1>1, <1>3, <2>1, Taken
  <2>3. pc # "enqueue" /\ pc = (IF Op(s) = "claim" THEN "work" ELSE "requeue")
    OBVIOUS
  <2> HIDE DEF pc
  <2>4. /\ Becomes(s, session'[s])
        /\ session'[s].op = Op(s) /\ session'[s].job = Job(s) /\ session'[s].pc = pc
    BY <1>1, <1>2, <2>1, <2>3, ClaimPlaces
  <2> QED
    BY <1>1, <2>1, <2>2, <2>3, <2>4, WithRow
<1>4. CASE claim # NoJob
  BY <1>1, <1>4, RefusedKeeps DEF Insert
<1> QED
  BY <1>3, <1>4

LEMMA UpdateKeeps ==
  ASSUME ConstantsOK, Inv, NEW s \in Sessions, Update(s)
  PROVE  Inv'
<1>1. session[s].pc = "update" /\ Job(s) \in Jobs
  BY Places DEF Update, At, Inv
<1>2. Op(s) # "recover"
  BY <1>1, Places DEF Inv
<1>3. CASE TakeOver(Job(s))
  <2>1. /\ Take(Job(s)) /\ Goto(s, AfterClaim(s))
        /\ UNCHANGED <<queue, twice, bounds>>
    BY <1>3 DEF Update
  <2>2. RowKept /\ claim' = Job(s) /\ lapsed' = FALSE /\ robbed' \subseteq Jobs
    BY <1>1, <1>3, <2>1, Taken DEF TakeOver
  <2>3. /\ Becomes(s, session'[s])
        /\ session'[s].op = Op(s) /\ session'[s].job = Job(s)
        /\ session'[s].pc = AfterClaim(s)
    BY <1>1, <1>2, <2>1, ClaimPlaces
  <2>4. Op(s) \in {"claim", "retry"}
    BY <1>1, Places DEF Inv
  <2>5. \/ UNCHANGED status /\ session'[s].pc # "enqueue"
        \/ Activate(Job(s))
    BY <1>3, <2>3, <2>4 DEF Update, AfterClaim
  <2> QED
    BY <1>1, <2>1, <2>2, <2>3, <2>5, WithRow
<1>4. CASE ~ TakeOver(Job(s))
  BY <1>1, <1>4, RefusedKeeps DEF Update
<1> QED
  BY <1>3, <1>4

LEMMA DropKeeps ==
  ASSUME ConstantsOK, Inv, NEW s \in Sessions, Drop(s)
  PROVE  Inv'
<1>1. /\ claim' = NoJob /\ robbed' = (robbed \cup Victim) \ {} /\ Go(s, Idle)
      /\ UNCHANGED <<status, lapsed, queue, twice, bounds>>
  BY DEF Drop
<1>2. RowKept /\ robbed' \subseteq Jobs
  BY <1>1, Deleted
<1>3. /\ Tables' /\ StatusKept
      /\ \A j \in queue' : status'[j] # "absent"
  BY <1>1, <1>2 DEF Inv, Tables, StatusKept, Committed, bounds
<1> QED
  BY <1>1, <1>2, <1>3, PutDown

-----------------------------------------------------------------------------
(* Workers and requests *)

\* A new run: if another worker has the job, the job is in twice from now on.
LEMMA StartKeeps ==
  ASSUME ConstantsOK, Inv, NEW w \in Workers, NEW j \in Jobs, StartTask(w, j)
  PROVE  Inv'
<1>0. w \in Sessions /\ w \notin Requests
  BY DEF Sessions, ConstantsOK
<1>1. /\ Go(w, [Idle EXCEPT !.op = "recover", !.pc = "look", !.job = j])
      /\ j \in queue /\ queue' = queue \ {j}
      /\ twice' = IF \E v \in Workers : Job(v) = j THEN twice \cup {j} ELSE twice
      /\ UNCHANGED <<status, claim, lapsed, robbed, retries, deaths>>
  BY DEF StartTask, rows, bounds
<1>2. /\ Becomes(w, session'[w])
      /\ session'[w].op = "recover" /\ session'[w].pc = "look" /\ session'[w].job = j
  BY <1>0, <1>1, Begins DEF Inv, Operations
<1>3. /\ Tables' /\ StatusKept /\ RowKept /\ twice \subseteq twice'
      /\ \A k \in queue' : status'[k] # "absent"
      /\ status'[j] # "absent"
  BY <1>1 DEF Inv, Tables, StatusKept, RowKept, Committed
<1>4. Alone'
  <2> SUFFICES ASSUME NEW u \in Workers, NEW v \in Workers, u # v,
                      session'[u].job = session'[v].job, session'[v].job # NoJob
               PROVE  session'[v].job \in twice'
    BY DEF Alone, Job
  <2>1. \A x \in Workers : x # w => session'[x] = session[x]
    BY <1>2 DEF Becomes, Sessions
  <2>2. CASE u # w /\ v # w
    BY <1>3, <2>1, <2>2 DEF Inv, Alone, Job
  <2>3. CASE u = w \/ v = w
    <3>1. session'[v].job = j /\ \E x \in Workers : Job(x) = j
      BY <1>2, <2>1, <2>3 DEF Job
    <3> QED
      BY <1>1, <3>1
  <2> QED
    BY <2>2, <2>3
<1>5. Good(w)
  BY <1>0, <1>2, <1>3 DEF Good
<1> QED
  BY <1>0, <1>2, <1>3, <1>4, <1>5, StepKeeps

\* A step that only makes the session's job active.
LEMMA ActiveStep ==
  ASSUME ConstantsOK, Inv, NEW j \in Jobs, Activate(j), UNCHANGED <<rows, queue, twice, bounds>>
  PROVE  /\ Tables' /\ StatusKept /\ RowKept /\ status'[j] = "active"
         /\ \A k \in queue' : status'[k] # "absent"
         /\ UNCHANGED <<claim, robbed, twice>>
<1>1. /\ status' \in [Jobs -> {"absent", "active", "ended"}]
      /\ status'[j] = "active" /\ StatusKept
  BY Activated DEF Inv, Tables, StatusKept
<1> QED
  BY <1>1 DEF Inv, Tables, StatusKept, RowKept, Committed, rows, bounds

LEMMA BeginKeeps ==
  ASSUME ConstantsOK, Inv, NEW w \in Workers, Begin(w)
  PROVE  Inv'
<1>0. w \in Sessions /\ w \notin Requests
  BY DEF Sessions, ConstantsOK
<1>1. session[w].pc = "begin" /\ Job(w) \in Jobs
  BY <1>0, Places DEF Begin, At, Inv
<1>2. /\ Becomes(w, session'[w])
      /\ session'[w].op = "claim" /\ session'[w].pc = "look" /\ session'[w].job = Job(w)
  BY <1>0, <1>1, Begins DEF Begin, Inv, Operations
<1>3. /\ Tables' /\ StatusKept /\ RowKept /\ status'[Job(w)] = "active"
      /\ \A k \in queue' : status'[k] # "absent"
      /\ UNCHANGED <<claim, robbed, twice>>
  BY <1>1, ActiveStep DEF Begin
<1>4. Alone'
  BY <1>0, <1>2, <1>3, AloneKept
<1>5. Good(w)
  BY <1>0, <1>2, <1>3 DEF Good
<1> QED
  BY <1>0, <1>2, <1>3, <1>4, <1>5, StepKeeps

LEMMA EnterKeeps ==
  ASSUME ConstantsOK, Inv, NEW w \in Workers, EnterStage(w)
  PROVE  Inv'
<1>0. w \in Sessions /\ w \notin Requests
  BY DEF Sessions, ConstantsOK
<1>1. session[w].pc = "work" /\ Job(w) \in Jobs /\ session' = session
  BY <1>0, Places DEF EnterStage, At, Inv
<1>2. Becomes(w, session'[w])
  BY <1>1 DEF Becomes, Inv, Placed, Fit, SessionType
<1>3. /\ Tables' /\ StatusKept /\ RowKept /\ status'[Job(w)] = "active"
      /\ \A k \in queue' : status'[k] # "absent"
      /\ UNCHANGED <<claim, robbed, twice>>
  BY <1>1, ActiveStep DEF EnterStage
<1>4. Alone'
  BY <1>0, <1>1, <1>2, <1>3, AloneKept DEF Job
<1>5. Good(w)
  BY <1>0, <1>1, <1>3 DEF Good, Job, Inv, WorkHoldsClaim, At
<1> QED
  BY <1>0, <1>2, <1>3, <1>4, <1>5, StepKeeps

\* The run's own end of its job: who else has the job is in twice.
LEMMA EndKeeps ==
  ASSUME ConstantsOK, Inv, NEW w \in Workers, End(w)
  PROVE  Inv'
<1>0. w \in Sessions /\ w \notin Requests
  BY DEF Sessions, ConstantsOK
<1>1. /\ session[w].pc \in {"work", "refused"} /\ Job(w) \in Jobs
      /\ status' = [status EXCEPT ![Job(w)] = "ended"] /\ Goto(w, "release")
      /\ UNCHANGED <<claim, lapsed, robbed, queue, twice, retries, deaths>>
  BY <1>0, Places DEF End, At, Inv, rows, bounds
<1>2. /\ Becomes(w, session'[w]) /\ session'[w].pc = "release"
      /\ session'[w].op = Op(w) /\ session'[w].job = Job(w)
  BY <1>0, <1>1, OnlyPlace DEF Inv, Op, Job, Step
<1>3. /\ \A u \in Sessions : u # w => session'[u] = session[u]
      /\ Placed'
  BY <1>2 DEF Becomes
<1>4. /\ status' \in [Jobs -> {"absent", "active", "ended"}]
      /\ status'[Job(w)] = "ended"
      /\ \A k \in Jobs : k # Job(w) => status'[k] = status[k]
  BY <1>1 DEF Inv, Tables
<1>5. Tables'
  BY <1>1, <1>4 DEF Inv, Tables
<1>6. \A k \in Jobs : status[k] # "absent" => status'[k] # "absent"
  BY <1>4
<1>7. Committed'
  <2>1. \A j \in queue' : status'[j] # "absent"
    BY <1>1, <1>6 DEF Inv, Committed, Tables
  <2>2. \A u \in Sessions : session'[u].pc # "idle" => session'[u].job = Job(u) /\ Job(u) \in Jobs
    BY <1>1, <1>2, <1>3, JobsOfSessions DEF Inv, Job
  <2>3. ASSUME NEW r \in Requests, session'[r].pc = "enqueue"
        PROVE  status'[session'[r].job] # "absent"
    BY <1>0, <1>3, <1>6, <2>2, <2>3 DEF Inv, Committed, At, Sessions
  <2>4. ASSUME NEW v \in Workers, session'[v].pc # "idle"
        PROVE  status'[session'[v].job] # "absent"
    <3>1. session[v].pc # "idle"
      BY <1>1, <1>3, <2>4 DEF Sessions
    <3> QED
      BY <1>6, <2>2, <2>4, <3>1 DEF Inv, Committed, Sessions
  <2> QED
    BY <2>1, <2>3, <2>4 DEF Committed, At, Job
<1>8. Alone'
  BY <1>0, <1>1, <1>2, AloneKept
<1>9. Running'
  <2> SUFFICES ASSUME NEW v \in Workers, session'[v].op = "claim",
                      session'[v].pc \notin {"release", "drop"},
                      session'[v].job \notin twice'
               PROVE  status'[session'[v].job] = "active"
    BY DEF Running, Op, Job
  <2>1. v # w /\ v \in Sessions
    BY <1>2 DEF Sessions
  <2>2. session'[v] = session[v] /\ Fit(v, session[v]) /\ Job(v) \notin twice
    BY <1>1, <1>3, <2>1 DEF Inv, Placed, Job
  <2>3. status[Job(v)] = "active" /\ Job(v) \in Jobs
    BY <2>2 DEF Inv, Running, Op, Job, Fit
  <2>4. Job(v) # Job(w)
    BY <1>1, <2>1, <2>2, <2>3 DEF Inv, Alone, ConstantsOK
  <2> QED
    BY <1>4, <2>2, <2>3, <2>4 DEF Job
<1>10. WorkHoldsClaim'
  <2> SUFFICES ASSUME NEW v \in Workers, session'[v].pc = "work",
                      session'[v].job \notin robbed' \cup twice'
               PROVE  claim' = session'[v].job
    BY DEF WorkHoldsClaim, At, Job
  <2>1. v # w /\ session'[v] = session[v]
    BY <1>2, <1>3 DEF Sessions
  <2> QED
    BY <1>1, <2>1 DEF Inv, WorkHoldsClaim, At, Job
<1> QED
  BY <1>3, <1>5, <1>7, <1>8, <1>9, <1>10 DEF Inv

\* A worker dies and its task is queued again; a request has queued its task.
LEMMA QueueKeeps ==
  ASSUME ConstantsOK, Inv, NEW s \in Sessions,
         (Die(s) /\ s \in Workers) \/ (Enqueue(s) /\ s \in Requests)
  PROVE  Inv'
<1>1. /\ Go(s, Idle) /\ queue' = queue \cup {Job(s)}
      /\ UNCHANGED <<status, rows, twice, retries>>
      /\ deaths' \in {deaths, deaths + 1} /\ (deaths' = deaths \/ deaths < MaxDeaths)
      /\ session[s].pc # "idle"
  BY DEF Die, Enqueue, At, bounds
<1>2. Job(s) \in Jobs
  BY <1>1, Places DEF Inv
<1>3. status[Job(s)] # "absent"
  BY <1>1 DEF Inv, Committed, Enqueue, Die, At
<1>4. deaths' \in 0 .. MaxDeaths
  BY <1>1 DEF Inv, Tables, ConstantsOK
<1>5. /\ Tables' /\ StatusKept /\ RowKept
      /\ \A j \in queue' : status'[j] # "absent"
      /\ UNCHANGED twice
  BY <1>1, <1>2, <1>3, <1>4 DEF Inv, Tables, StatusKept, RowKept, Committed, rows
<1> QED
  BY <1>1, <1>5, PutDown

\* A request begins.
LEMMA AskKeeps ==
  ASSUME ConstantsOK, Inv, NEW r \in Requests, NEW j \in Jobs, Submit(r, j) \/ Retry(r, j)
  PROVE  Inv'
<1>0. r \in Sessions /\ r \notin Workers
  BY DEF Sessions, ConstantsOK
<1>1. /\ Becomes(r, session'[r]) /\ session'[r].pc = "look"
  <2>1. CASE Submit(r, j)
    BY <1>0, <2>1, Begins DEF Submit, Inv, Operations
  <2>2. CASE Retry(r, j)
    BY <1>0, <2>2, Begins DEF Retry, Inv, Operations
  <2> QED
    BY <2>1, <2>2
<1>2. /\ UNCHANGED <<status, rows, queue, twice, deaths>>
      /\ retries' \in {retries, retries + 1} /\ (retries' = retries \/ retries < MaxRetries)
  BY DEF Submit, Retry, bounds
<1>3. retries' \in 0 .. MaxRetries
  BY <1>2 DEF Inv, Tables, ConstantsOK
<1>4. /\ Tables' /\ StatusKept /\ RowKept
      /\ \A k \in queue' : status'[k] # "absent"
      /\ UNCHANGED twice
  BY <1>2, <1>3 DEF Inv, Tables, StatusKept, RowKept, Committed, rows
<1>5. Alone'
  BY <1>0, <1>1, <1>4, AloneKept
<1>6. Good(r)
  BY <1>0, <1>1 DEF Good
<1> QED
  BY <1>0, <1>1, <1>4, <1>5, <1>6, StepKeeps

LEMMA CreateKeeps ==
  ASSUME ConstantsOK, Inv, NEW r \in Requests, Create(r)
  PROVE  Inv'
<1>0. r \in Sessions /\ r \notin Workers
  BY DEF Sessions, ConstantsOK
<1>1. session[r].pc = "create" /\ Job(r) \in Jobs
  BY <1>0, Places DEF Create, At, Inv
<1>2. CASE claim = NoJob \/ status[claim] # "active"
  <2>1. /\ Take(Job(r)) /\ Activate(Job(r)) /\ Goto(r, "enqueue")
        /\ UNCHANGED <<queue, twice, bounds>>
    BY <1>2 DEF Create
  <2>2. RowKept /\ claim' = Job(r) /\ lapsed' = FALSE /\ robbed' \subseteq Jobs
    BY <1>1, <1>2, <2>1, Taken
  <2>3. /\ Becomes(r, session'[r])
        /\ session'[r].op = Op(r) /\ session'[r].job = Job(r)
    BY <1>0, <1>1, <2>1, OnlyPlace DEF Inv, Op, Job, Step
  <2> QED
    BY <1>0, <1>1, <2>1, <2>2, <2>3, WithRow
<1>3. CASE ~ (claim = NoJob \/ status[claim] # "active")
  BY <1>0, <1>3, Quiet, PutDown DEF Create
<1> QED
  BY <1>2, <1>3

LEMMA RequeueKeeps ==
  ASSUME ConstantsOK, Inv, NEW r \in Requests, Requeue(r)
  PROVE  Inv'
<1>0. r \in Sessions /\ r \notin Workers
  BY DEF Sessions, ConstantsOK
<1>1. session[r].pc = "requeue" /\ Job(r) \in Jobs
  BY <1>0, Places DEF Requeue, At, Inv
<1>2. /\ Becomes(r, session'[r])
      /\ session'[r].op = Op(r) /\ session'[r].job = Job(r)
  BY <1>0, <1>1, OnlyPlace DEF Requeue, Inv, Op, Job, Step
<1>3. /\ Tables' /\ StatusKept /\ RowKept /\ status'[Job(r)] = "active"
      /\ \A k \in queue' : status'[k] # "absent"
      /\ UNCHANGED <<claim, robbed, twice>>
  BY <1>1, ActiveStep DEF Requeue
<1>4. Alone'
  BY <1>0, <1>2, <1>3, AloneKept
<1>5. Good(r)
  BY <1>0, <1>2, <1>3 DEF Good
<1> QED
  BY <1>0, <1>2, <1>3, <1>4, <1>5, StepKeeps

-----------------------------------------------------------------------------
LEMMA Initially ==
  ASSUME ConstantsOK, Init
  PROVE  Inv
<1>1. \A s \in Sessions : session[s] = Idle
  BY DEF Init
<1>2. Placed
  <2>1. \A s \in Sessions : Fit(s, session[s])
    BY <1>1, IdleFits
  <2>2. Idle \in SessionType
    BY DEF Idle, SessionType, Operations, Step
  <2>3. session \in [Sessions -> SessionType]
    BY <2>2 DEF Init
  <2> QED
    BY <2>1, <2>3 DEF Placed
<1>3. Tables
  <2>1. status \in [Jobs -> {"absent", "active", "ended"}]
    BY DEF Init
  <2>2. retries \in 0 .. MaxRetries /\ deaths \in 0 .. MaxDeaths
    BY DEF Init, ConstantsOK
  <2> QED
    BY <2>1, <2>2 DEF Init, Tables
<1>4. \A s \in Sessions : session[s].pc = "idle" /\ session[s].op = "none" /\ session[s].job = NoJob
  BY <1>1, IdleFits
<1>5. Committed /\ Alone /\ Running /\ WorkHoldsClaim
  BY <1>4 DEF Init, Committed, Alone, Running, WorkHoldsClaim, At, Op, Job, Sessions
<1> QED
  BY <1>2, <1>3, <1>5 DEF Inv

LEMMA StatementKeeps ==
  ASSUME ConstantsOK, Inv, NEW s \in Sessions, Statement(s)
  PROVE  Inv'
  BY LookKeeps, ReadsKeep, DeleteKeeps, InsertKeeps, UpdateKeeps, DropKeeps DEF Statement

LEMMA Inductive ==
  ASSUME ConstantsOK, Inv, [Next]_vars
  PROVE  Inv'
<1>1. ASSUME NEW w \in Workers, RunStep(w) \/ EnterStage(w) \/ Die(w)
      PROVE  Inv'
  <2>0. w \in Sessions
    BY DEF Sessions
  <2>1. CASE Statement(w)
    BY <2>0, <2>1, StatementKeeps
  <2>2. CASE Begin(w)
    BY <2>2, BeginKeeps
  <2>3. CASE End(w)
    BY <2>3, EndKeeps
  <2>4. CASE \E j \in Jobs : StartTask(w, j)
    BY <2>4, StartKeeps
  <2>5. CASE EnterStage(w)
    BY <2>5, EnterKeeps
  <2>6. CASE Die(w)
    <3>1. (Die(w) /\ w \in Workers) \/ (Enqueue(w) /\ w \in Requests)
      BY <2>6
    <3> QED
      BY <2>0, <3>1, QueueKeeps
  <2> QED
    BY <1>1, <2>1, <2>2, <2>3, <2>4, <2>5, <2>6 DEF RunStep
<1>2. ASSUME NEW r \in Requests,
             RequestStep(r) \/ \E j \in Jobs : Submit(r, j) \/ Retry(r, j)
      PROVE  Inv'
  BY <1>2, StatementKeeps, CreateKeeps, RequeueKeeps, QueueKeeps, AskKeeps
     DEF RequestStep, Sessions
<1>3. CASE Lapse
  BY <1>3 DEF Lapse, Inv, Placed, Fit, SessionType, Tables, Committed, Alone, Running,
     WorkHoldsClaim, At, Op, Job, bounds
<1>4. CASE UNCHANGED vars
  BY <1>4 DEF vars, Inv, Placed, Fit, SessionType, Tables, Committed, Alone, Running,
     WorkHoldsClaim, At, Op, Job
<1> QED
  BY <1>1, <1>2, <1>3, <1>4 DEF Next

LEMMA Invariant == Spec => []Inv
<1>1. Init => Inv
  BY ConstantsOK, Initially
<1>2. Inv /\ [Next]_vars => Inv'
  BY ConstantsOK, Inductive
<1> QED
  BY <1>1, <1>2, PTL DEF Spec

\* The types of ClaimRows; a worker's job has a committed row.
THEOREM RowTypes == Spec => []TypeOK
<1>1. Inv => TypeOK
  <2> SUFFICES ASSUME Inv PROVE TypeOK
    OBVIOUS
  <2>1. session \in [Sessions -> SessionType]
    BY DEF Inv, Placed
  <2>2. \A s \in Sessions : session[s].pc # "idle" => session[s].job \in Jobs
    BY DEF Inv, Placed, Fit
  <2> QED
    BY <2>1, <2>2 DEF TypeOK, Inv, Tables, Committed, SessionType, Job
<1> QED
  BY <1>1, Invariant, PTL

\* A run at work holds the row unless a DELETE took it away or its job has had
\* two runs at once, for any numbers of sessions and jobs.
THEOREM WorkAlwaysHoldsClaim == Spec => []WorkHoldsClaim
<1>1. Inv => WorkHoldsClaim
  BY DEF Inv
<1> QED
  BY <1>1, Invariant, PTL

=============================================================================
