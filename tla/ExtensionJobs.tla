--------------------------- MODULE ExtensionJobs ---------------------------
(***************************************************************************)
(* The recent jobs of the browser extension (browser-extension/src/        *)
(* background.js): a list that its service worker keeps in memory and in   *)
(* the browser's storage, and that the popup's commands, polling and the   *)
(* sockets of the jobs all write, each going on after an await with what   *)
(* it looked at before.  The browser may stop the service worker at any    *)
(* moment; the next event starts it again with what is in the storage.     *)
(*                                                                         *)
(* A task is one of its handlers between two awaits.  The browser answers  *)
(* storage calls in the order they are made (replies).  The extension is   *)
(* paired with one server, whose jobs are here only active or ended.       *)
(***************************************************************************)
EXTENDS Integers, Sequences, SequencesExt

CONSTANTS
    Jobs,
    Tasks,      \* bound on the handlers in progress at a time
    Sockets,    \* bound on the WebSockets at a time
    MaxJobs,    \* MAX_RECENT_JOBS
    MaxRetries, \* bound on the retries of a job
    MaxFaults,  \* bound on lost requests and broken connections
    MaxStops,   \* bound on stops of the service worker
    NoJob, NoSocket

ASSUME ConstantsOK ==
    /\ MaxJobs \in Nat \ {0}
    /\ MaxRetries \in Nat
    /\ MaxFaults \in Nat
    /\ MaxStops \in Nat
    /\ NoJob \notin Jobs
    /\ NoSocket \notin Sockets

VARIABLES
    server,     \* the jobs at the server
    retries,    \* how often the server has retried each
    recentJobs, \* the list in memory, the latest record first
    stored,     \* the list in chrome.storage.local
    replies,    \* the handlers that wait for the storage
    task,       \* the handlers in progress
    claimed,    \* claimedTerminalNotifications
    socket,     \* the WebSockets, with what is on its way in each
    active,     \* activeWebSockets
    tickets,    \* starts of a socket that wait for their ticket
    again,      \* jobs with a timer that starts a socket
    polling,    \* reconcileTimer is set
    inFlight,   \* reconcileInFlight
    told,       \* notifications of each job's end since it was queued or retried
    faults, stops

vars == <<server, retries, recentJobs, stored, replies, task, claimed, socket,
          active, tickets, again, polling, inFlight, told, faults, stops>>
lists == <<recentJobs, stored>>
sockets == <<socket, active, tickets, again>>
loop == <<polling, inFlight>>
ledger == <<lists, replies, claimed, told>>
outside == <<server, retries, stops>>

Status == {"active", "ended"}
Record == [job : Jobs, status : Status, sent : BOOLEAN]
Lists == BoundedSeq(Record, MaxJobs)

\* In a handler's list are the jobs that it loads, or has yet to reconcile.
TaskType == [op : {"none", "look", "poll", "tick", "queue", "cancel", "retry",
                   "message"},
             pc : {"idle", "load", "gather", "fetch", "fetched", "request",
                   "answered", "save", "told"},
             job : Jobs \cup {NoJob}, list : Lists, got : Status]
IdleTask == [op |-> "none", pc |-> "idle", job |-> NoJob, list |-> <<>>,
             got |-> "active"]

SocketType == [job : Jobs \cup {NoJob}, state : {"free", "open", "closing"},
               messages : BoundedSeq(Status, 3), last : Status \cup {"none"}]
FreeSocket == [job |-> NoJob, state |-> "free", messages |-> <<>>,
               last |-> "none"]

\* Type invariant, with one record for a job and one flag for a tick.
TypeOK ==
    /\ server \in [Jobs -> Status \cup {"none"}]
    /\ retries \in [Jobs -> 0 .. MaxRetries]
    /\ recentJobs \in Lists
    /\ stored \in Lists
    /\ \A l \in {recentJobs, stored} : \A m, n \in DOMAIN l :
           l[m].job = l[n].job => m = n
    /\ replies \in Seq(Tasks)
    /\ task \in [Tasks -> TaskType]
    /\ claimed \subseteq Jobs
    /\ socket \in [Sockets -> SocketType]
    /\ active \in [Jobs -> Sockets \cup {NoSocket}]
    /\ tickets \in [Jobs -> 0 .. 2]
    /\ again \subseteq Jobs
    /\ polling \in BOOLEAN
    /\ inFlight \in BOOLEAN
    /\ told \in [Jobs -> Nat]
    /\ faults \in 0 .. MaxFaults
    /\ stops \in 0 .. MaxStops

\* After the installation: an empty list.
Init ==
    /\ server = [j \in Jobs |-> "none"]
    /\ retries = [j \in Jobs |-> 0]
    /\ recentJobs = <<>>
    /\ stored = <<>>
    /\ replies = <<>>
    /\ task = [t \in Tasks |-> IdleTask]
    /\ claimed = {}
    /\ socket = [s \in Sockets |-> FreeSocket]
    /\ active = [j \in Jobs |-> NoSocket]
    /\ tickets = [j \in Jobs |-> 0]
    /\ again = {}
    /\ polling = FALSE
    /\ inFlight = FALSE
    /\ told = [j \in Jobs |-> 0]
    /\ faults = 0
    /\ stops = 0

-----------------------------------------------------------------------------
(* The list *)

IsActive(l, j) == \E r \in ToSet(l) : r.job = j /\ r.status = "active"
HasActive(l) == \E j \in Jobs : IsActive(l, j)

Sent(l, j) == \E r \in ToSet(l) : r.job = j /\ r.sent

\* The records of l at the positions P, in their order.
Kept(l, P) ==
    LET kept[n \in 0 .. Len(l)] ==
            IF n = 0 THEN <<>>
            ELSE IF n \in P THEN Append(kept[n - 1], l[n]) ELSE kept[n - 1]
    IN  kept[Len(l)]

ActiveOf(l) == Kept(l, {n \in DOMAIN l : l[n].status = "active"})
Without(l, j) == Kept(l, {n \in DOMAIN l : l[n].job # j})

\* Mutant of Upsert: the list is not capped.
UpsertUncapped(l, r) == <<r>> \o Without(l, r.job)

Upsert(l, r) ==
    LET next == <<r>> \o Without(l, r.job)
    IN  SubSeq(next, 1, Min({MaxJobs, Len(next)}))

\* applyJobPatch, for the two fields that a patch changes.
MarkEnded(l, j) ==
    [n \in DOMAIN l |-> IF l[n].job = j THEN [l[n] EXCEPT !.status = "ended"] ELSE l[n]]

MarkSent(l, j) ==
    [n \in DOMAIN l |-> IF l[n].job = j THEN [l[n] EXCEPT !.sent = TRUE] ELSE l[n]]

\* mergeJobFromServer, over the record `existing` with its flag.
MergeJob(j, status, existingSent) ==
    [job |-> j, status |-> status, sent |-> existingSent]

Dropped(l) ==
    {j \in Jobs : /\ \E r \in ToSet(recentJobs) : r.job = j
                  /\ ~ \E r \in ToSet(l) : r.job = j}

-----------------------------------------------------------------------------
(* Handlers, storage and sockets *)

Go(t, c) == task' = [task EXCEPT ![t] = c]
At(t, pc) == task[t].pc = pc
Idle(t) == At(t, "idle")
Fault == faults < MaxFaults /\ faults' = faults + 1

\* stopJobWebSocket for the jobs J, where the sockets are `from`: a socket
\* that is being closed delivers nothing more.
Stop(from, J) ==
    /\ socket' = [s \in Sockets |->
           IF \E j \in J : active[j] = s
           THEN [from[s] EXCEPT !.state = "closing", !.messages = <<>>]
           ELSE from[s]]
    /\ active' = [j \in Jobs |-> IF j \in J THEN NoSocket ELSE active[j]]

\* startJobWebSocket up to its first await.  A third start that waits with two
\* others is not told apart.
Start(j) ==
    tickets' = IF active[j] = NoSocket
               THEN [tickets EXCEPT ![j] = Min({2, @ + 1})] ELSE tickets

\* persistJobs up to its await: memory and storage have the list, the handler
\* waits for the storage's answer.
Save(t, l, from) ==
    /\ recentJobs' = l
    /\ stored' = l
    /\ Stop(from, Dropped(l))
    /\ replies' = Append(replies, t)

\* Mutant of Finish: the flag is not cleared when polling stops.
FinishStopped(t) ==
    /\ Go(t, IdleTask)
    /\ polling' = (HasActive(recentJobs) \/ task[t].op \in {"queue", "retry"})
    /\ inFlight' = (inFlight /\ (task[t].op # "tick" \/ ~ HasActive(recentJobs)))

\* The end of a handler, with what it does to the reconcile loop.
Finish(t) ==
    /\ Go(t, IdleTask)
    /\ polling' = CASE task[t].op = "poll" -> polling \/ HasActive(recentJobs)
                    [] task[t].op = "tick" -> polling /\ HasActive(recentJobs)
                    [] task[t].op \in {"queue", "retry"} -> TRUE
                    [] OTHER -> polling
    /\ inFlight' = (inFlight /\ task[t].op # "tick")

\* reconcileActiveJobs goes on with the next of the jobs it found active;
\* the other handlers have none.
Proceed(t) ==
    IF Len(task[t].list) > 1
    THEN /\ Go(t, [task[t] EXCEPT !.pc = "fetch", !.job = NoJob,
                                  !.list = Tail(@)])
         /\ UNCHANGED loop
    ELSE Finish(t)

-----------------------------------------------------------------------------
(* Handlers begin: most refresh the settings and load the stored list first *)

Begin(t, op, j) ==
    /\ Idle(t)
    /\ Go(t, [IdleTask EXCEPT !.op = op, !.pc = "load", !.job = j, !.list = stored])
    /\ replies' = Append(replies, t)
    /\ UNCHANGED <<outside, lists, claimed, sockets, loop, told, faults>>

\* The popup opens (handleGetPublicState).
Poll(t) == Begin(t, "poll", NoJob)

\* handleOpenJob, handleOpenReelDock and handleLoadDestinations only load.
Look(t) == Begin(t, "look", NoJob)

\* The server knows no job for the video; it would become j.
Queue(t, j) ==
    /\ server[j] = "none"
    /\ \A u \in Tasks : ~ (task[u].op = "queue" /\ task[u].job = j)
    /\ Begin(t, "queue", j)

\* The popup offers what the job it shows allows; the server decides.
Cancel(t, j) == IsActive(recentJobs, j) /\ Begin(t, "cancel", j)

Retry(t, j) ==
    /\ \E r \in ToSet(recentJobs) : r.job = j /\ r.status = "ended"
    /\ Begin(t, "retry", j)

\* tickReconcile: the list in memory is used as it is.
Tick(t) ==
    /\ polling
    /\ ~ inFlight
    /\ Idle(t)
    /\ IF HasActive(recentJobs)
       THEN /\ inFlight' = TRUE
            /\ Go(t, [IdleTask EXCEPT !.op = "tick", !.pc = "fetch",
                         !.list = ActiveOf(recentJobs)])
            /\ UNCHANGED polling
       ELSE polling' = FALSE /\ UNCHANGED <<task, inFlight>>
    /\ UNCHANGED <<outside, ledger, sockets, faults>>

\* A job_update arrives: the handler of a socket does not wait for the one
\* before it.
Message(t, s) ==
    /\ Idle(t)
    /\ socket[s].state = "open"
    /\ socket[s].messages # <<>>
    /\ LET j == socket[s].job
           status == Head(socket[s].messages)
           merged == MergeJob(j, status, Sent(recentJobs, j))
       IN  /\ Go(t, [IdleTask EXCEPT !.op = "message", !.pc = "save", !.job = j,
                                     !.got = status])
           /\ Save(t, Upsert(recentJobs, merged),
                   [socket EXCEPT ![s].messages = Tail(@)])
    /\ UNCHANGED <<outside, claimed, tickets, again, loop, told, faults>>

-----------------------------------------------------------------------------
(* Handlers go on after an answer of the storage *)

\* refreshSettings: the list in memory becomes what the storage held when it
\* was asked.
Loaded(t) ==
    /\ At(t, "load")
    /\ recentJobs' = task[t].list
    /\ Go(t, CASE task[t].op = "look" -> IdleTask
               [] task[t].op = "poll" -> [task[t] EXCEPT !.pc = "gather", !.list = <<>>]
               [] OTHER -> [task[t] EXCEPT !.pc = "request", !.list = <<>>])
    /\ replies' = Tail(replies)
    /\ UNCHANGED <<stored, claimed, sockets, loop, told>>

\* Mutant of MayTell: the flag of the record is all that is looked at.
MayTellByFlag(j) ==
    \E r \in ToSet(recentJobs) : r.job = j /\ r.status = "ended" /\ ~ r.sent

\* terminalNotificationSpec and claimTerminalNotification.
MayTell(j) ==
    /\ \E r \in ToSet(recentJobs) : r.job = j /\ r.status = "ended" /\ ~ r.sent
    /\ j \notin claimed

\* maybeNotifyTerminal: the claim is taken before the flag is saved.
MaybeNotify(t, j) ==
    IF MayTell(j)
    THEN LET next == MarkSent(recentJobs, j)
         IN  /\ claimed' = claimed \cup {j}
             /\ recentJobs' = next
             /\ stored' = next
             /\ replies' = Append(Tail(replies), t)
             /\ Go(t, [task[t] EXCEPT !.pc = "told"])
             /\ UNCHANGED loop
    ELSE /\ replies' = Tail(replies)
         /\ Proceed(t)
         /\ UNCHANGED <<lists, claimed>>

\* An ended job is stopped and notified, an active one is followed.
Saved(t) ==
    /\ At(t, "save")
    /\ IF task[t].got = "ended"
       THEN /\ Stop(socket, {task[t].job})
            /\ MaybeNotify(t, task[t].job)
            /\ UNCHANGED tickets
       ELSE /\ IF task[t].op = "message" THEN UNCHANGED tickets
               ELSE Start(task[t].job)
            /\ replies' = Tail(replies)
            /\ Proceed(t)
            /\ UNCHANGED <<lists, claimed, socket, active>>
    /\ UNCHANGED <<again, told>>

\* The notification is shown; NoJob: the job has been retried meanwhile.
Told(t) ==
    /\ At(t, "told")
    /\ told' = [j \in Jobs |-> IF j = task[t].job THEN told[j] + 1 ELSE told[j]]
    /\ replies' = Tail(replies)
    /\ Proceed(t)
    /\ UNCHANGED <<lists, claimed, sockets>>

Reply ==
    /\ replies # <<>>
    /\ LET t == Head(replies) IN Loaded(t) \/ Saved(t) \/ Told(t)
    /\ UNCHANGED <<outside, faults>>

-----------------------------------------------------------------------------
(* Requests to the server *)

\* The server does what the command asks, and its answer is on its way.
Accept(t) ==
    LET j == task[t].job
        op == task[t].op
    IN  /\ At(t, "request")
        /\ \/ op = "queue" /\ server[j] = "none"
           \/ op = "cancel" /\ server[j] = "active"
           \/ op = "retry" /\ server[j] = "ended" /\ retries[j] < MaxRetries
        /\ server' = [server EXCEPT ![j] = IF op = "cancel" THEN "ended" ELSE "active"]
        /\ retries' = [retries EXCEPT ![j] = IF op = "retry" THEN @ + 1 ELSE @]
        /\ Go(t, [task[t] EXCEPT !.pc = "answered", !.got = server'[j]])
        /\ UNCHANGED <<ledger, sockets, loop, faults, stops>>

\* The server answers 409: a job that is not active is not cancelled, one that
\* is active, or has succeeded, is not retried.  The handler throws.
Refuse(t) ==
    /\ At(t, "request")
    /\ task[t].op = "cancel" => server[task[t].job] # "active"
    /\ task[t].op # "queue"
    /\ Go(t, IdleTask)
    /\ UNCHANGED <<outside, ledger, sockets, loop, faults>>

\* handleQueue and handleRetry put the job in front, handleCancel changes it
\* where it is.  A retry gives the claim of the notification up: one that is
\* on its way then is of the run before.
Answered(t) ==
    LET j == task[t].job
        cancel == task[t].op = "cancel"
        renewed == IF cancel THEN {} ELSE {j}
    IN  /\ At(t, "answered")
        /\ Save(t, IF cancel THEN MarkEnded(recentJobs, j)
                   ELSE Upsert(recentJobs, MergeJob(j, "active", FALSE)), socket)
        /\ claimed' = claimed \ renewed
        /\ told' = [k \in Jobs |-> IF k \in renewed THEN 0 ELSE told[k]]
        /\ task' = [u \in Tasks |->
               IF u = t THEN [task[t] EXCEPT !.pc = "save"]
               ELSE IF At(u, "told") /\ task[u].job \in renewed
               THEN [task[u] EXCEPT !.job = NoJob] ELSE task[u]]
        /\ UNCHANGED <<outside, tickets, again, loop, faults>>

\* reconcileActiveJobs begins for a poll, after its other requests.
Gather(t) ==
    LET found == ActiveOf(recentJobs)
    IN  /\ At(t, "gather")
        /\ IF found = <<>> THEN Finish(t)
           ELSE /\ Go(t, [task[t] EXCEPT !.pc = "fetch", !.list = found])
                /\ UNCHANGED loop
        /\ UNCHANGED <<outside, ledger, sockets, faults>>

\* The server answers for the next of the jobs found.
Fetch(t) ==
    /\ At(t, "fetch")
    /\ Go(t, [task[t] EXCEPT !.pc = "fetched",
                             !.got = server[Head(task[t].list).job]])
    /\ UNCHANGED <<outside, ledger, sockets, loop, faults>>

\* Mutant of Fetched: a status known before wins over the server's.
FetchedPrefersOld(t) ==
    LET job == Head(task[t].list)
    IN  /\ At(t, "fetched")
        /\ Save(t, Upsert(recentJobs, job), socket)
        /\ Go(t, [task[t] EXCEPT !.pc = "save", !.job = job.job])
        /\ UNCHANGED <<outside, claimed, tickets, again, loop, told, faults>>

\* The answer is merged over the record as it was when the list was gathered.
Fetched(t) ==
    LET job == Head(task[t].list)
    IN  /\ At(t, "fetched")
        /\ Save(t, Upsert(recentJobs, MergeJob(job.job, task[t].got, job.sent)),
                socket)
        /\ Go(t, [task[t] EXCEPT !.pc = "save", !.job = job.job])
        /\ UNCHANGED <<outside, claimed, tickets, again, loop, told, faults>>

\* Mutant of Lost: a job the server does not answer for counts as failed.
LostIsFailed(t) ==
    /\ Fault
    /\ At(t, "fetch") \/ At(t, "fetched")
    /\ Save(t, MarkEnded(recentJobs, Head(task[t].list).job), socket)
    /\ Go(t, [task[t] EXCEPT !.pc = "save", !.got = "ended",
                             !.job = Head(task[t].list).job])
    /\ UNCHANGED <<outside, claimed, tickets, again, loop, told>>

\* A request or its answer is lost: a command throws, reconcileActiveJobs
\* leaves the record as it is and goes on.
Lost(t) ==
    /\ Fault
    /\ \/ (At(t, "request") \/ At(t, "answered")) /\ Go(t, IdleTask) /\ UNCHANGED loop
       \/ (At(t, "fetch") \/ At(t, "fetched")) /\ Proceed(t)
    /\ UNCHANGED <<outside, ledger, sockets>>

-----------------------------------------------------------------------------
(* Sockets *)

\* The ticket comes and the socket is opened, whatever the map of the sockets
\* holds by then; or there is no ticket, and no other attempt.
Ticket(j) ==
    /\ tickets[j] > 0
    /\ tickets' = [tickets EXCEPT ![j] = @ - 1]
    /\ \/ \E s \in Sockets :
              /\ socket[s].state = "free"
              /\ socket' = [socket EXCEPT ![s] = [FreeSocket EXCEPT
                                !.job = j, !.state = "open"]]
              /\ active' = [active EXCEPT ![j] = s]
              /\ UNCHANGED faults
       \/ Fault /\ UNCHANGED <<socket, active>>
    /\ UNCHANGED <<outside, ledger, task, again, loop>>

\* The server sends the status it finds: once when the socket is opened, then at
\* each change of the job's progress (one such update on its way at a time), and
\* the end of a job twice; after an end it closes.
Send(s) ==
    LET status == server[socket[s].job]
    IN  /\ socket[s].state = "open"
        /\ socket[s].last # "ended"
        /\ status # "ended" => socket[s].messages = <<>>
        /\ socket' = [socket EXCEPT
               ![s].messages = @ \o (IF status = "ended" /\ socket[s].last # "none"
                                     THEN <<status, status>> ELSE <<status>>),
               ![s].last = status]
        /\ UNCHANGED <<outside, ledger, task, active, tickets, again, loop, faults>>

\* onclose: the entry of the job goes, whichever socket it names.
Gone(s) ==
    /\ socket' = [socket EXCEPT ![s] = FreeSocket]
    /\ active' = [active EXCEPT ![socket[s].job] = NoSocket]

\* Closed from here, or by the server after the end of the job: code 1000.
Closed(s) ==
    /\ \/ socket[s].state = "closing"
       \/ socket[s].state = "open" /\ socket[s].last = "ended" /\ socket[s].messages = <<>>
    /\ Gone(s)
    /\ UNCHANGED <<outside, ledger, task, tickets, again, loop, faults>>

\* The connection breaks, or the server refuses the ticket: a timer is set for
\* a job that is active.
Broken(s) ==
    /\ socket[s].state # "free"
    /\ Fault
    /\ Gone(s)
    /\ again' = IF IsActive(recentJobs, socket[s].job)
                THEN again \cup {socket[s].job} ELSE again
    /\ UNCHANGED <<outside, ledger, task, tickets, loop>>

Again(j) ==
    /\ j \in again
    /\ again' = again \ {j}
    /\ Start(j)
    /\ UNCHANGED <<outside, ledger, task, socket, active, loop, faults>>

-----------------------------------------------------------------------------
(* The server and the browser *)

\* A worker ends the job.
End(j) ==
    /\ server[j] = "active"
    /\ server' = [server EXCEPT ![j] = "ended"]
    /\ UNCHANGED <<ledger, retries, task, sockets, loop, faults, stops>>

\* The service worker is stopped, and started again by a later event: what was
\* in memory is gone, and boot loads and reconciles like a poll.
Restart(t) ==
    /\ stops < MaxStops
    /\ stops' = stops + 1
    /\ recentJobs' = <<>>
    /\ replies' = <<t>>
    /\ task' = [u \in Tasks |-> IF u = t
           THEN [IdleTask EXCEPT !.op = "poll", !.pc = "load", !.list = stored]
           ELSE IdleTask]
    /\ claimed' = {}
    /\ socket' = [s \in Sockets |-> FreeSocket]
    /\ active' = [j \in Jobs |-> NoSocket]
    /\ tickets' = [j \in Jobs |-> 0]
    /\ again' = {}
    /\ polling' = FALSE
    /\ inFlight' = FALSE
    /\ UNCHANGED <<server, retries, stored, told, faults>>

Next ==
    \/ Reply
    \/ \E t \in Tasks :
           \/ Poll(t) \/ Look(t) \/ Tick(t)
           \/ \E j \in Jobs : Queue(t, j) \/ Cancel(t, j) \/ Retry(t, j)
           \/ \E s \in Sockets : Message(t, s)
           \/ Accept(t) \/ Refuse(t) \/ Answered(t)
           \/ Gather(t) \/ Fetch(t) \/ Fetched(t)
           \/ Lost(t) \/ Restart(t)
    \/ \E j \in Jobs : Ticket(j) \/ Again(j) \/ End(j)
    \/ \E s \in Sockets : Send(s) \/ Closed(s) \/ Broken(s)

Spec == Init /\ [][Next]_vars

\* A handler in progress goes on.
GoOn(t) ==
    \/ Accept(t) \/ Refuse(t) \/ Answered(t)
    \/ Gather(t) \/ Fetch(t) \/ Fetched(t)

\* The storage and the server go on answering, whichever handler is first, and the
\* user opens the popup again and again.
FairSpec ==
    /\ Spec
    /\ WF_vars(Reply \/ \E t \in Tasks : GoOn(t))
    /\ SF_vars(\E t \in Tasks : Poll(t))

-----------------------------------------------------------------------------
(* Properties *)

\* However socket, polling and commands overlap, the end of a job is notified
\* once from its queueing or retry to the next, plus once for each stop of the
\* service worker, which forgets the claims (notifications.js,
\* maybeNotifyTerminal in background.js).
ToldOncePerLife == \A j \in Jobs : told[j] <= 1 + stops

\* The list never shows an end that the server has not reached, whatever
\* requests are refused or lost and in whatever order answers come; a job that
\* was retried may be shown with an end of before.
EndIsReal ==
    \A l \in {recentJobs, stored} : \A r \in ToSet(l) :
        r.status = "ended" /\ retries[r.job] = 0 => server[r.job] = "ended"

\* reconcileInFlight is set exactly while a tick is in progress: no failure of
\* its requests leaves polling switched off.
FlagIsTick == inFlight = (\E t \in Tasks : task[t].op = "tick")

\* The stored list does not go on showing as active, for good, a job that has ended:
\* whatever requests, messages, timers and claims are lost or stale, opening the
\* popup brings the end back.  It may be undone meanwhile, and over again, by the
\* saves of handlers that loaded the list before (background.js:98, 328).
EndShown ==
    \A j \in Jobs : []<>(server[j] = "ended" => ~ IsActive(stored, j))
=============================================================================
