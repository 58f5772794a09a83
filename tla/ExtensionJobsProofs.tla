------------------------ MODULE ExtensionJobsProofs ------------------------
(***************************************************************************)
(* ExtensionJobs for every value of the constants.  Notifications and      *)
(* polling do not depend on what the lists hold: it is enough to know      *)
(* which handlers are in progress and what was claimed (Inv).  That the    *)
(* lists are right depends on everything that may get into them: the lists *)
(* and answers of the handlers, and the messages of the sockets (Truth).   *)
(***************************************************************************)
EXTENDS ExtensionJobs, WellFoundedInduction, TLAPS

Fields == {"op", "pc", "job", "list", "got"}

\* Handlers are records with the fields of IdleTask.
Shape ==
    /\ replies \in Seq(Tasks)
    /\ DOMAIN task = Tasks
    /\ \A t \in Tasks : DOMAIN task[t] = Fields
    /\ told \in [Jobs -> Nat]
    /\ stops \in Nat
    /\ inFlight \in BOOLEAN

\* A notification of j's end is about to be shown by t.
Pending(t, j) == task[t].pc = "told" /\ task[t].job = j

\* Who claims a notification is alone with it until it is shown, and shows it
\* as the first since the last stop of the service worker.
Claims ==
    /\ \A j \in Jobs : j \notin claimed =>
           told[j] <= stops /\ \A t \in Tasks : ~ Pending(t, j)
    /\ \A j \in Jobs, t \in Tasks : Pending(t, j) => told[j] <= stops
    /\ \A j \in Jobs, t, u \in Tasks : Pending(t, j) /\ Pending(u, j) => t = u

Ticking(t) == task[t].op = "tick"

\* Where a tick never is: it begins with its first request.
Early == {"idle", "load", "gather", "request", "answered"}

\* There is one tick while the flag is set, and none otherwise.
Flag ==
    /\ inFlight <=> \E t \in Tasks : Ticking(t)
    /\ \A t, u \in Tasks : Ticking(t) /\ Ticking(u) => t = u
    /\ \A t \in Tasks : task[t].pc \in Early => ~ Ticking(t)

Inv == Shape /\ ToldOncePerLife /\ Claims /\ Flag

-----------------------------------------------------------------------------
(* What a step of one handler keeps *)

\* The idle handler has the fields, and is neither ticking nor telling.
LEMMA IdleShape ==
  /\ DOMAIN IdleTask = Fields
  /\ IdleTask.op = "none" /\ IdleTask.pc = "idle" /\ IdleTask.job = NoJob
BY DEF IdleTask, Fields

\* A handler that goes on somewhere else but to a notification keeps the claims.
LEMMA CalmStep ==
  ASSUME Shape, ToldOncePerLife, Claims, NEW t \in Tasks, NEW c, Go(t, c),
         c.pc # "told", UNCHANGED <<claimed, told, stops>>
  PROVE  ToldOncePerLife' /\ Claims'
<1>1. \A u \in Tasks : task'[u] = IF u = t THEN c ELSE task[u]
  BY DEF Go, Shape
<1>2. \A u \in Tasks, j \in Jobs : Pending(u, j)' => Pending(u, j)
  BY <1>1 DEF Pending
<1> QED
  BY <1>2 DEF ToldOncePerLife, Claims

\* A handler that stays what it is keeps the flag.
LEMMA SameHandler ==
  ASSUME Shape, Flag, NEW t \in Tasks, NEW c, Go(t, c),
         c.op = task[t].op, c.pc \in Early => ~ Ticking(t), UNCHANGED inFlight
  PROVE  Flag'
<1>1. \A u \in Tasks : task'[u] = IF u = t THEN c ELSE task[u]
  BY DEF Go, Shape
<1>2. \A u \in Tasks : Ticking(u)' <=> Ticking(u)
  BY <1>1 DEF Ticking
<1>3. \A u \in Tasks : task'[u].pc \in Early => ~ Ticking(u)
  BY <1>1 DEF Flag
<1> QED
  BY <1>2, <1>3 DEF Flag

\* A handler that begins, and is no tick, keeps the flag.
LEMMA NewHandler ==
  ASSUME Shape, Flag, NEW t \in Tasks, NEW c, Go(t, c), Idle(t),
         c.op # "tick", UNCHANGED inFlight
  PROVE  Flag'
<1>1. \A u \in Tasks : task'[u] = IF u = t THEN c ELSE task[u]
  BY DEF Go, Shape
<1>2. \A u \in Tasks : Ticking(u)' <=> Ticking(u)
  BY <1>1 DEF Ticking, Flag, Idle, At, Early
<1>3. \A u \in Tasks : task'[u].pc \in Early => task[u].pc \in Early
  BY <1>1 DEF Idle, At, Early
<1> QED
  BY <1>2, <1>3 DEF Flag

\* A handler that ends takes its flag along.
LEMMA EndHandler ==
  ASSUME Shape, Flag, NEW t \in Tasks, Go(t, IdleTask),
         inFlight' = (inFlight /\ ~ Ticking(t))
  PROVE  Flag'
<1>1. \A u \in Tasks : task'[u] = IF u = t THEN IdleTask ELSE task[u]
  BY DEF Go, Shape
<1>2. \A u \in Tasks : Ticking(u)' <=> Ticking(u) /\ u # t
  BY <1>1, IdleShape DEF Ticking
<1>3. \A u \in Tasks : task'[u].pc \in Early => task[u].pc \in Early \/ u = t
  BY <1>1
<1>4. (\E u \in Tasks : Ticking(u)') <=> inFlight /\ ~ Ticking(t)
  BY <1>2 DEF Flag
<1> QED
  BY <1>2, <1>3, <1>4 DEF Flag

\* A handler replaced by one with the fields keeps the shape.
LEMMA ShapeStep ==
  ASSUME Shape, NEW t \in Tasks, NEW c, Go(t, c), DOMAIN c = Fields,
         replies' \in Seq(Tasks), told' \in [Jobs -> Nat], UNCHANGED stops,
         inFlight' \in BOOLEAN
  PROVE  Shape'
<1>1. DOMAIN task' = Tasks /\ \A u \in Tasks : task'[u] = IF u = t THEN c ELSE task[u]
  BY DEF Go, Shape
<1> QED
  BY <1>1 DEF Shape

\* A handler goes on.
LEMMA GoesOn ==
  ASSUME Inv, NEW t \in Tasks, NEW c, Go(t, c), DOMAIN c = Fields,
         c.op = task[t].op, c.pc # "told", c.pc \in Early => ~ Ticking(t),
         replies' \in Seq(Tasks),
         UNCHANGED <<claimed, told, stops, inFlight>>
  PROVE  Inv'
<1>1. ToldOncePerLife' /\ Claims'
  BY CalmStep DEF Inv
<1>2. Flag'
  BY SameHandler DEF Inv
<1>3. Shape'
  BY ShapeStep DEF Inv, Shape
<1> QED
  BY <1>1, <1>2, <1>3 DEF Inv

\* A handler begins.
LEMMA Begins ==
  ASSUME Inv, NEW t \in Tasks, NEW c, Go(t, c), Idle(t), DOMAIN c = Fields,
         c.op # "tick", c.pc # "told", replies' \in Seq(Tasks),
         UNCHANGED <<claimed, told, stops, inFlight>>
  PROVE  Inv'
<1>1. ToldOncePerLife' /\ Claims'
  BY CalmStep DEF Inv
<1>2. Flag'
  BY NewHandler DEF Inv
<1>3. Shape'
  BY ShapeStep DEF Inv, Shape
<1> QED
  BY <1>1, <1>2, <1>3 DEF Inv

\* A handler ends.
LEMMA Ends ==
  ASSUME Inv, NEW t \in Tasks, Go(t, IdleTask), replies' \in Seq(Tasks),
         inFlight' = (inFlight /\ ~ Ticking(t)),
         UNCHANGED <<claimed, told, stops>>
  PROVE  Inv'
<1>1. ToldOncePerLife' /\ Claims'
  BY CalmStep, IdleShape DEF Inv
<1>2. Flag'
  BY EndHandler DEF Inv
<1>3. Shape'
  BY ShapeStep, IdleShape DEF Inv, Shape
<1> QED
  BY <1>1, <1>2, <1>3 DEF Inv

\* A handler goes on with its list, or ends.
LEMMA Proceeds ==
  ASSUME Inv, NEW t \in Tasks, Proceed(t), replies' \in Seq(Tasks),
         UNCHANGED <<claimed, told, stops>>
  PROVE  Inv'
<1>1. CASE Len(task[t].list) > 1
  <2> DEFINE c == [task[t] EXCEPT !.pc = "fetch", !.job = NoJob, !.list = Tail(@)]
  <2>1. Go(t, c) /\ UNCHANGED inFlight
    BY <1>1 DEF Proceed, loop
  <2>2. DOMAIN c = Fields /\ c.op = task[t].op /\ c.pc = "fetch"
    BY DEF Inv, Shape, Fields
  <2> HIDE DEF c
  <2> QED
    BY <2>1, <2>2, GoesOn DEF Early
<1>2. CASE ~ (Len(task[t].list) > 1)
  <2>1. Finish(t)
    BY <1>2 DEF Proceed
  <2>2. Go(t, IdleTask) /\ inFlight' = (inFlight /\ ~ Ticking(t))
    BY <2>1 DEF Finish, Ticking
  <2> QED
    BY <2>2, Ends
<1> QED
  BY <1>1, <1>2

\* Handlers, claims and the flag are as they were.
LEMMA Still ==
  ASSUME Inv, UNCHANGED <<replies, task, claimed, told, stops, inFlight>>
  PROVE  Inv'
BY DEF Inv, Shape, ToldOncePerLife, Claims, Pending, Flag, Ticking

-----------------------------------------------------------------------------
(* The steps: claims and ticks *)

\* Commands, polls and looks begin by loading the list.
LEMMA BeginKeeps ==
  ASSUME Inv, NEW t \in Tasks, NEW op \in {"look", "poll", "queue", "cancel", "retry"},
         NEW j, Begin(t, op, j)
  PROVE  Inv'
<1> DEFINE c == [IdleTask EXCEPT !.op = op, !.pc = "load", !.job = j, !.list = stored]
<1>1. Go(t, c) /\ Idle(t) /\ UNCHANGED <<claimed, told, stops, inFlight>>
  BY DEF Begin, outside, loop
<1>2. DOMAIN c = Fields /\ c.op = op /\ c.pc = "load"
  BY DEF IdleTask, Fields
<1>3. replies' \in Seq(Tasks)
  BY DEF Begin, Inv, Shape
<1> HIDE DEF c
<1> QED
  BY <1>1, <1>2, <1>3, Begins

\* A tick begins only while no other is in progress.
LEMMA TickKeeps ==
  ASSUME Inv, NEW t \in Tasks, Tick(t)
  PROVE  Inv'
<1> DEFINE c == [IdleTask EXCEPT !.op = "tick", !.pc = "fetch",
                    !.list = ActiveOf(recentJobs)]
<1>1. UNCHANGED <<claimed, told, stops, replies>>
  BY DEF Tick, outside, ledger
<1>2. CASE HasActive(recentJobs)
  <2>1. Go(t, c) /\ inFlight' = TRUE /\ ~ inFlight
    BY <1>2 DEF Tick
  <2>2. DOMAIN c = Fields /\ c.op = "tick" /\ c.pc = "fetch"
    BY DEF IdleTask, Fields
  <2> HIDE DEF c
  <2>3. \A u \in Tasks : task'[u] = IF u = t THEN c ELSE task[u]
    BY <2>1 DEF Go, Inv, Shape
  <2>4. \A u \in Tasks : ~ Ticking(u)
    BY <2>1 DEF Inv, Flag
  <2>5. \A u \in Tasks : (Ticking(u)' <=> u = t) /\ (task'[u].pc \in Early => u # t)
    BY <2>2, <2>3, <2>4 DEF Ticking, Early
  <2>6. Flag'
    BY <2>1, <2>5 DEF Flag
  <2>7. ToldOncePerLife' /\ Claims'
    BY <1>1, <2>1, <2>2, CalmStep DEF Inv
  <2>8. Shape'
    BY <1>1, <2>1, <2>2, ShapeStep DEF Inv, Shape
  <2> QED
    BY <2>6, <2>7, <2>8 DEF Inv
<1>3. CASE ~ HasActive(recentJobs)
  BY <1>1, <1>3, Still DEF Tick
<1> QED
  BY <1>2, <1>3

\* A message begins a handler that saves at once.
LEMMA MessageKeeps ==
  ASSUME Inv, NEW t \in Tasks, NEW s \in Sockets, Message(t, s)
  PROVE  Inv'
<1> DEFINE c == [IdleTask EXCEPT !.op = "message", !.pc = "save",
                    !.job = socket[s].job, !.got = Head(socket[s].messages)]
<1>1. Go(t, c) /\ Idle(t) /\ UNCHANGED <<claimed, told, stops, inFlight>>
  BY DEF Message, outside, loop
<1>2. DOMAIN c = Fields /\ c.op = "message" /\ c.pc = "save"
  BY DEF IdleTask, Fields
<1>3. replies' \in Seq(Tasks)
  BY DEF Message, Save, Inv, Shape
<1> HIDE DEF c
<1> QED
  BY <1>1, <1>2, <1>3, Begins

\* The first of those that wait for the storage is a handler.
LEMMA HeadTyped ==
  ASSUME Inv, replies # <<>>
  PROVE  Head(replies) \in Tasks /\ Tail(replies) \in Seq(Tasks)
BY DEF Inv, Shape

\* A look ends with its list loaded, the others go on.
LEMMA LoadedKeeps ==
  ASSUME Inv, replies # <<>>, NEW t \in Tasks, Loaded(t), UNCHANGED stops
  PROVE  Inv'
<1>1. UNCHANGED <<claimed, told, stops, inFlight>> /\ replies' \in Seq(Tasks)
  BY HeadTyped DEF Loaded, loop
<1>2. CASE task[t].op = "look"
  <2>1. Go(t, IdleTask) /\ ~ Ticking(t)
    BY <1>2 DEF Loaded, Ticking
  <2>2. inFlight' = (inFlight /\ ~ Ticking(t))
    BY <1>1, <2>1 DEF Inv, Shape
  <2> QED
    BY <1>1, <2>1, <2>2, Ends
<1>3. CASE task[t].op # "look"
  <2>1. PICK pc \in {"gather", "request"} :
            Go(t, [task[t] EXCEPT !.pc = pc, !.list = <<>>])
    BY <1>3 DEF Loaded
  <2> DEFINE c == [task[t] EXCEPT !.pc = pc, !.list = <<>>]
  <2>2. DOMAIN c = Fields /\ c.op = task[t].op /\ c.pc = pc
    BY DEF Inv, Shape, Fields
  <2>3. ~ Ticking(t)
    BY DEF Loaded, At, Inv, Flag, Early
  <2> HIDE DEF c
  <2> QED
    BY <1>1, <2>1, <2>2, <2>3, GoesOn DEF c
<1> QED
  BY <1>2, <1>3

\* maybeNotifyTerminal: who takes the claim is the only one to tell.
LEMMA MaybeNotifyKeeps ==
  ASSUME Inv, replies # <<>>, NEW t \in Tasks, MaybeNotify(t, task[t].job),
         UNCHANGED <<told, stops>>
  PROVE  Inv'
<1> DEFINE j == task[t].job
<1>1. CASE MayTell(j)
  <2> DEFINE c == [task[t] EXCEPT !.pc = "told"]
  <2>1. /\ Go(t, c) /\ claimed' = claimed \cup {j} /\ j \notin claimed
        /\ UNCHANGED inFlight /\ replies' \in Seq(Tasks)
    BY <1>1, HeadTyped DEF MaybeNotify, MayTell, loop
  <2>2. DOMAIN c = Fields /\ c.op = task[t].op /\ c.pc = "told" /\ c.job = j
    BY DEF Inv, Shape, Fields
  <2> HIDE DEF c
  <2>3. \A u \in Tasks : task'[u] = IF u = t THEN c ELSE task[u]
    BY <2>1 DEF Go, Inv, Shape
  <2>4. \A u \in Tasks, k \in Jobs :
            Pending(u, k)' => Pending(u, k) \/ (u = t /\ k = j)
    BY <2>2, <2>3 DEF Pending
  <2>5. \A u \in Tasks, k \in Jobs : Pending(u, k) => k # j
    BY <2>1 DEF Inv, Claims
  <2>6. ToldOncePerLife'
    BY DEF Inv, ToldOncePerLife
  <2>7. Claims'
    <3>1. \A k \in Jobs : k \notin claimed' =>
              told'[k] <= stops' /\ \A u \in Tasks : ~ Pending(u, k)'
      BY <2>1, <2>4 DEF Inv, Claims
    <3>2. \A k \in Jobs, u \in Tasks : Pending(u, k)' => told'[k] <= stops'
      BY <2>1, <2>4 DEF Inv, Claims
    <3>3. \A k \in Jobs, u, v \in Tasks : Pending(u, k)' /\ Pending(v, k)' => u = v
      BY <2>4, <2>5 DEF Inv, Claims
    <3> QED
      BY <3>1, <3>2, <3>3 DEF Claims
  <2>8. Flag'
    BY <2>1, <2>2, SameHandler DEF Inv, Early
  <2>9. Shape'
    BY <2>1, <2>2, ShapeStep DEF Inv, Shape
  <2> QED
    BY <2>6, <2>7, <2>8, <2>9 DEF Inv
<1>2. CASE ~ MayTell(j)
  <2>1. Proceed(t) /\ replies' \in Seq(Tasks) /\ UNCHANGED claimed
    BY <1>2, HeadTyped DEF MaybeNotify
  <2> QED
    BY <2>1, Proceeds
<1> QED
  BY <1>1, <1>2

\* A handler whose list is saved tells an end, or follows the job.
LEMMA SavedKeeps ==
  ASSUME Inv, replies # <<>>, NEW t \in Tasks, Saved(t), UNCHANGED stops
  PROVE  Inv'
<1>1. CASE task[t].got = "ended"
  BY <1>1, MaybeNotifyKeeps DEF Saved
<1>2. CASE task[t].got # "ended"
  <2>1. Proceed(t) /\ replies' \in Seq(Tasks) /\ UNCHANGED <<claimed, told>>
    BY <1>2, HeadTyped DEF Saved
  <2> QED
    BY <2>1, Proceeds
<1> QED
  BY <1>1, <1>2

\* A notification is shown, and is no longer pending.
LEMMA ToldKeeps ==
  ASSUME Inv, replies # <<>>, NEW t \in Tasks, Told(t), UNCHANGED stops
  PROVE  Inv'
<1> DEFINE j == task[t].job
<1>1. /\ Proceed(t) /\ replies' \in Seq(Tasks) /\ UNCHANGED claimed
      /\ task[t].pc = "told"
      /\ told' = [k \in Jobs |-> IF k = j THEN told[k] + 1 ELSE told[k]]
  BY HeadTyped DEF Told, ledger, At
<1>2. told' \in [Jobs -> Nat]
  BY <1>1 DEF Inv, Shape
<1>3. PICK c :
          /\ Go(t, c)
          /\ c.pc \in {"fetch", "idle"}
          /\ DOMAIN c = Fields
          /\ \/ /\ c.op = task[t].op
                /\ c.pc = "fetch"
                /\ UNCHANGED inFlight
             \/ /\ c = IdleTask
                /\ inFlight' = (inFlight /\ ~ Ticking(t))
  <2> DEFINE d == [task[t] EXCEPT !.pc = "fetch", !.job = NoJob, !.list = Tail(@)]
  <2>1. DOMAIN d = Fields /\ d.op = task[t].op /\ d.pc = "fetch"
    BY DEF Inv, Shape, Fields
  <2>2. \/ Go(t, d) /\ UNCHANGED inFlight
        \/ Go(t, IdleTask) /\ inFlight' = (inFlight /\ ~ Ticking(t))
    BY <1>1 DEF Proceed, Finish, loop, Ticking
  <2> HIDE DEF d
  <2>3. CASE Go(t, d) /\ UNCHANGED inFlight
    <3> WITNESS d
    <3> QED
      BY <2>1, <2>3
  <2>4. CASE Go(t, IdleTask) /\ inFlight' = (inFlight /\ ~ Ticking(t))
    <3> WITNESS IdleTask
    <3> QED
      BY <2>4, IdleShape
  <2> QED
    BY <2>2, <2>3, <2>4
<1>4. \A u \in Tasks : task'[u] = IF u = t THEN c ELSE task[u]
  BY <1>3 DEF Go, Inv, Shape
<1>5. \A u \in Tasks, k \in Jobs : Pending(u, k)' => Pending(u, k) /\ u # t
  BY <1>3, <1>4 DEF Pending
<1>6. \A u \in Tasks, k \in Jobs : Pending(u, k)' => k # j
  BY <1>1, <1>5 DEF Inv, Claims, Pending
<1>7. \A k \in Jobs : k = j => Pending(t, k)
  BY <1>1 DEF Pending
<1>8. ToldOncePerLife'
  <2> SUFFICES ASSUME NEW k \in Jobs
               PROVE  told'[k] <= 1 + stops
    BY DEF ToldOncePerLife
  <2>1. told[k] \in Nat /\ stops \in Nat /\ told[k] <= 1 + stops
    BY DEF Inv, Shape, ToldOncePerLife
  <2>2. k = j => told[k] <= stops
    BY <1>7 DEF Inv, Claims
  <2> QED
    BY <1>1, <2>1, <2>2
<1>9. Claims'
  <2>1. \A k \in Jobs : k \notin claimed' =>
            told'[k] <= stops' /\ \A u \in Tasks : ~ Pending(u, k)'
    BY <1>1, <1>5, <1>7 DEF Inv, Claims
  <2>2. \A k \in Jobs, u \in Tasks : Pending(u, k)' => told'[k] <= stops'
    BY <1>1, <1>5, <1>6 DEF Inv, Claims
  <2>3. \A k \in Jobs, u, v \in Tasks : Pending(u, k)' /\ Pending(v, k)' => u = v
    BY <1>5 DEF Inv, Claims
  <2> QED
    BY <2>1, <2>2, <2>3 DEF Claims
<1>10. Flag'
  <2>1. CASE c.op = task[t].op /\ c.pc = "fetch" /\ UNCHANGED inFlight
    BY <1>3, <2>1, SameHandler DEF Inv, Early
  <2>2. CASE c = IdleTask /\ inFlight' = (inFlight /\ ~ Ticking(t))
    BY <1>3, <2>2, EndHandler DEF Inv
  <2> QED
    BY <1>3, <2>1, <2>2
<1>11. Shape'
  BY <1>1, <1>2, <1>3, ShapeStep DEF Inv, Shape
<1> QED
  BY <1>8, <1>9, <1>10, <1>11 DEF Inv

\* Any answer of the storage.
LEMMA ReplyKeeps == Inv /\ Reply => Inv'
<1> SUFFICES ASSUME Inv, Reply PROVE Inv'
  OBVIOUS
<1>1. replies # <<>> /\ UNCHANGED stops
  BY DEF Reply, outside
<1>2. PICK t \in Tasks : Loaded(t) \/ Saved(t) \/ Told(t)
  BY <1>1, HeadTyped DEF Reply
<1> QED
  BY <1>1, <1>2, LoadedKeeps, SavedKeeps, ToldKeeps

\* Whoever ends where no tick is leaves the flag alone.
LEMMA EndsEarly ==
  ASSUME Inv, NEW t \in Tasks, task[t].pc \in Early, Go(t, IdleTask),
         UNCHANGED <<replies, claimed, told, stops, inFlight>>
  PROVE  Inv'
<1>1. ~ Ticking(t)
  BY DEF Inv, Flag
<1>2. inFlight' = (inFlight /\ ~ Ticking(t)) /\ replies' \in Seq(Tasks)
  BY <1>1 DEF Inv, Shape
<1> QED
  BY <1>2, Ends

\* The server accepts a command.
LEMMA AcceptKeeps ==
  ASSUME Inv, NEW t \in Tasks, Accept(t)
  PROVE  Inv'
<1> DEFINE c == [task[t] EXCEPT !.pc = "answered", !.got = server'[task[t].job]]
<1>1. Go(t, c) /\ UNCHANGED <<claimed, told, stops, inFlight>>
  BY DEF Accept, outside, ledger, loop
<1>2. DOMAIN c = Fields /\ c.op = task[t].op /\ c.pc = "answered"
  BY DEF Inv, Shape, Fields
<1>3. replies' \in Seq(Tasks)
  BY DEF Accept, ledger, Inv, Shape
<1>4. ~ Ticking(t)
  BY DEF Accept, At, Inv, Flag, Early
<1> HIDE DEF c
<1> QED
  BY <1>1, <1>2, <1>3, <1>4, GoesOn DEF Early

\* The server refuses one.
LEMMA RefuseKeeps ==
  ASSUME Inv, NEW t \in Tasks, Refuse(t)
  PROVE  Inv'
BY EndsEarly DEF Refuse, At, Early, outside, ledger, loop

\* The server answers for a job of the list.
LEMMA FetchKeeps ==
  ASSUME Inv, NEW t \in Tasks, Fetch(t)
  PROVE  Inv'
<1> DEFINE c == [task[t] EXCEPT !.pc = "fetched", !.got = server[Head(task[t].list).job]]
<1>1. Go(t, c) /\ UNCHANGED <<claimed, told, stops, inFlight>>
  BY DEF Fetch, outside, ledger, loop
<1>2. DOMAIN c = Fields /\ c.op = task[t].op /\ c.pc = "fetched"
  BY DEF Inv, Shape, Fields
<1>3. replies' \in Seq(Tasks)
  BY DEF Fetch, ledger, Inv, Shape
<1> HIDE DEF c
<1> QED
  BY <1>1, <1>2, <1>3, GoesOn DEF Early

\* The answer is merged and saved.
LEMMA FetchedKeeps ==
  ASSUME Inv, NEW t \in Tasks, Fetched(t)
  PROVE  Inv'
<1> DEFINE c == [task[t] EXCEPT !.pc = "save", !.job = Head(task[t].list).job]
<1>1. Go(t, c) /\ UNCHANGED <<claimed, told, stops, inFlight>>
  BY DEF Fetched, outside, ledger, loop
<1>2. DOMAIN c = Fields /\ c.op = task[t].op /\ c.pc = "save"
  BY DEF Inv, Shape, Fields
<1>3. replies' \in Seq(Tasks)
  BY DEF Fetched, Save, Inv, Shape
<1> HIDE DEF c
<1> QED
  BY <1>1, <1>2, <1>3, GoesOn DEF Early

\* A poll finds jobs to reconcile, or none.
LEMMA GatherKeeps ==
  ASSUME Inv, NEW t \in Tasks, Gather(t)
  PROVE  Inv'
<1> DEFINE found == ActiveOf(recentJobs)
           c == [task[t] EXCEPT !.pc = "fetch", !.list = found]
<1>1. UNCHANGED <<claimed, told, stops, replies>>
  BY DEF Gather, outside, ledger
<1>2. CASE found = <<>>
  <2>1. Go(t, IdleTask) /\ inFlight' = (inFlight /\ ~ Ticking(t))
    BY <1>2 DEF Gather, Finish, Ticking
  <2> QED
    BY <1>1, <2>1, Ends DEF Inv, Shape
<1>3. CASE found # <<>>
  <2>1. Go(t, c) /\ UNCHANGED inFlight
    BY <1>3 DEF Gather, loop
  <2>2. DOMAIN c = Fields /\ c.op = task[t].op /\ c.pc = "fetch"
    BY DEF Inv, Shape, Fields
  <2>3. replies' \in Seq(Tasks)
    BY <1>1 DEF Inv, Shape
  <2> HIDE DEF c
  <2> QED
    BY <1>1, <2>1, <2>2, <2>3, GoesOn DEF Early
<1> QED
  BY <1>2, <1>3

\* A lost request ends a command; reconciliation goes on.
LEMMA LostKeeps ==
  ASSUME Inv, NEW t \in Tasks, Lost(t)
  PROVE  Inv'
<1>1. UNCHANGED <<claimed, told, stops, replies>>
  BY DEF Lost, outside, ledger
<1>2. CASE (At(t, "request") \/ At(t, "answered")) /\ Go(t, IdleTask) /\ UNCHANGED loop
  BY <1>1, <1>2, EndsEarly DEF At, Early, loop
<1>3. CASE Proceed(t)
  BY <1>1, <1>3, Proceeds DEF Inv, Shape
<1> QED
  BY <1>2, <1>3 DEF Lost

\* The answer to a retry gives the claim up, and what is pending then counts no
\* more; a queued job begins anew as well.
LEMMA AnsweredKeeps ==
  ASSUME Inv, NEW t \in Tasks, Answered(t)
  PROVE  Inv'
<1> DEFINE renewed == IF task[t].op = "cancel" THEN {} ELSE {task[t].job}
<1>1. /\ claimed' = claimed \ renewed
      /\ told' = [k \in Jobs |-> IF k \in renewed THEN 0 ELSE told[k]]
      /\ UNCHANGED <<stops, inFlight>>
      /\ task[t].pc = "answered"
  BY DEF Answered, outside, loop, At
<1>2. replies' \in Seq(Tasks)
  BY DEF Answered, Save, Inv, Shape
<1>3. DOMAIN task' = Tasks /\ \A u \in Tasks : task'[u] =
          IF u = t THEN [task[t] EXCEPT !.pc = "save"]
          ELSE IF At(u, "told") /\ task[u].job \in renewed
          THEN [task[u] EXCEPT !.job = NoJob] ELSE task[u]
  BY DEF Answered
<1>4. \A u \in Tasks : DOMAIN task'[u] = Fields /\ task'[u].op = task[u].op
                       /\ (task'[u].pc = IF u = t THEN "save" ELSE task[u].pc)
  BY <1>3 DEF Inv, Shape, Fields
<1>5. \A u \in Tasks, k \in Jobs : Pending(u, k)' => Pending(u, k) /\ k \notin renewed
  BY <1>3, <1>4, ConstantsOK DEF Pending, At, Inv, Shape, Fields
<1>6. told' \in [Jobs -> Nat]
  BY <1>1 DEF Inv, Shape
<1>7. \A k \in Jobs : told'[k] = (IF k \in renewed THEN 0 ELSE told[k])
                      /\ told[k] \in Nat /\ stops \in Nat
  BY <1>1 DEF Inv, Shape
<1>8. Shape'
  BY <1>1, <1>2, <1>3, <1>4, <1>6 DEF Inv, Shape
<1> HIDE DEF renewed
<1>9. ToldOncePerLife'
  BY <1>1, <1>7 DEF Inv, ToldOncePerLife
<1>10. Claims'
  <2>1. \A k \in Jobs : k \notin claimed' =>
            told'[k] <= stops' /\ \A u \in Tasks : ~ Pending(u, k)'
    BY <1>1, <1>5, <1>7 DEF Inv, Claims
  <2>2. \A k \in Jobs, u \in Tasks : Pending(u, k)' => told'[k] <= stops'
    BY <1>1, <1>5, <1>7 DEF Inv, Claims
  <2>3. \A k \in Jobs, u, v \in Tasks : Pending(u, k)' /\ Pending(v, k)' => u = v
    BY <1>5 DEF Inv, Claims
  <2> QED
    BY <2>1, <2>2, <2>3 DEF Claims
<1>11. Flag'
  <2>1. \A u \in Tasks : Ticking(u)' <=> Ticking(u)
    BY <1>4 DEF Ticking
  <2>2. \A u \in Tasks : task'[u].pc \in Early => task[u].pc \in Early
    BY <1>4 DEF Early
  <2> QED
    BY <1>1, <2>1, <2>2 DEF Inv, Flag
<1> QED
  BY <1>8, <1>9, <1>10, <1>11 DEF Inv

\* A stop of the service worker forgets claims and handlers, and makes room for
\* one more notification.
LEMMA RestartKeeps ==
  ASSUME Inv, NEW t \in Tasks, Restart(t)
  PROVE  Inv'
<1> DEFINE boot == [IdleTask EXCEPT !.op = "poll", !.pc = "load", !.list = stored]
<1>1. /\ DOMAIN boot = Fields
      /\ boot.op = "poll" /\ boot.pc = "load" /\ boot.job = NoJob
  BY DEF IdleTask, Fields
<1>2. /\ task' = [u \in Tasks |-> IF u = t THEN boot ELSE IdleTask]
      /\ stops' = stops + 1 /\ claimed' = {} /\ inFlight' = FALSE
      /\ replies' = <<t>> /\ told' = told
  BY DEF Restart
<1> HIDE DEF boot
<1>3. \A u \in Tasks : /\ DOMAIN task'[u] = Fields
                       /\ task'[u].pc # "told" /\ task'[u].op # "tick"
  BY <1>1, <1>2, IdleShape
<1>4. \A k \in Jobs : told[k] \in Nat /\ stops \in Nat /\ told[k] <= 1 + stops
  BY DEF Inv, Shape, ToldOncePerLife
<1>5. ToldOncePerLife' /\ Claims'
  BY <1>2, <1>3, <1>4 DEF ToldOncePerLife, Claims, Pending
<1>6. Flag'
  BY <1>2, <1>3 DEF Flag, Ticking
<1>7. Shape'
  <2>1. replies' \in Seq(Tasks)
    BY <1>2
  <2>2. DOMAIN task' = Tasks
    BY <1>2
  <2>3. told' \in [Jobs -> Nat] /\ stops' \in Nat
    BY <1>2 DEF Inv, Shape
  <2>4. inFlight' \in BOOLEAN
    BY <1>2
  <2> QED
    BY <1>3, <2>1, <2>2, <2>3, <2>4 DEF Shape
<1> QED
  BY <1>5, <1>6, <1>7 DEF Inv

\* Sockets, timers and the server leave handlers and claims alone.
LEMMA SocketsKeep ==
  ASSUME Inv,
         \/ \E j \in Jobs : Ticket(j) \/ Again(j) \/ End(j)
         \/ \E s \in Sockets : Send(s) \/ Closed(s) \/ Broken(s)
  PROVE  Inv'
<1>1. UNCHANGED <<replies, task, claimed, told, stops, inFlight>>
  BY DEF Ticket, Again, End, Send, Closed, Broken, outside, ledger, loop
<1> QED
  BY <1>1, Still

-----------------------------------------------------------------------------
(* Induction, and what Kept keeps *)

\* Induction, over a set of numbers.
LEMMA NatSet ==
  ASSUME NEW S, 0 \in S, \A n \in Nat : n \in S => n + 1 \in S
  PROVE  \A n \in Nat : n \in S
<1> DEFINE T == Nat \ S
           R == OpToRel(<, Nat)
<1> SUFFICES ASSUME T # {} PROVE FALSE
  OBVIOUS
<1>1. PICK n \in T : \A m \in T : <<m, n>> \notin R
  BY NatLessThanWellFounded, WFMin
<1>2. n \in Nat /\ n # 0 /\ n \notin S
  OBVIOUS
<1>3. n - 1 \in Nat /\ n - 1 < n /\ (n - 1) + 1 = n
  BY <1>2
<1>4. n - 1 \notin T
  BY <1>1, <1>2, <1>3 DEF OpToRel
<1> QED
  BY <1>2, <1>3, <1>4

\* What Kept has of the list after each of its positions.
KeptUpTo(f, l, P, k) ==
  f = [n \in 0 .. k |-> IF n = 0 THEN <<>>
                        ELSE IF n \in P THEN Append(f[n - 1], l[n]) ELSE f[n - 1]]

\* There is such a function.
LEMMA KeptExists ==
  ASSUME NEW l, NEW P
  PROVE  \A k \in Nat : \E f : KeptUpTo(f, l, P, k)
<1> DEFINE S == {k \in Nat : \E f : KeptUpTo(f, l, P, k)}
<1>1. 0 \in S
  <2> DEFINE f == [n \in 0 .. 0 |-> <<>>]
  <2>1. KeptUpTo(f, l, P, 0)
    BY DEF KeptUpTo
  <2> QED
    BY <2>1
<1>2. ASSUME NEW k \in Nat, k \in S
      PROVE  k + 1 \in S
  <2>1. PICK f : KeptUpTo(f, l, P, k)
    BY <1>2
  <2> DEFINE last == IF k + 1 \in P THEN Append(f[k], l[k + 1]) ELSE f[k]
             g == [n \in 0 .. k + 1 |-> IF n = k + 1 THEN last ELSE f[n]]
  <2>2. \A n \in 0 .. k : f[n] = IF n = 0 THEN <<>>
                          ELSE IF n \in P THEN Append(f[n - 1], l[n]) ELSE f[n - 1]
    BY <2>1 DEF KeptUpTo
  <2>3. \A n \in 0 .. k + 1 : n = k + 1 \/ n \in 0 .. k
    OBVIOUS
  <2>4. \A n \in 1 .. k + 1 : g[n - 1] = f[n - 1]
    OBVIOUS
  <2> HIDE DEF last
  <2>5. \A n \in 0 .. k + 1 : g[n] = IF n = 0 THEN <<>>
                          ELSE IF n \in P THEN Append(g[n - 1], l[n]) ELSE g[n - 1]
    <3> SUFFICES ASSUME NEW n \in 0 .. k + 1
                 PROVE  g[n] = IF n = 0 THEN <<>>
                          ELSE IF n \in P THEN Append(g[n - 1], l[n]) ELSE g[n - 1]
      OBVIOUS
    <3>1. CASE n = k + 1
      <4>1. g[n] = last /\ n # 0 /\ n - 1 = k /\ g[n - 1] = f[k]
        BY <3>1, <2>4
      <4> QED
        BY <3>1, <4>1 DEF last
    <3>2. CASE n \in 0 .. k
      <4>1. g[n] = f[n] /\ (n # 0 => g[n - 1] = f[n - 1])
        BY <3>2, <2>4
      <4> QED
        BY <3>2, <4>1, <2>2
    <3> QED
      BY <3>1, <3>2, <2>3
  <2>6. KeptUpTo(g, l, P, k + 1)
    BY <2>5 DEF KeptUpTo
  <2> QED
    BY <2>6
<1> HIDE DEF S
<1>3. \A k \in Nat : k \in S
  BY <1>1, <1>2, NatSet
<1> QED
  BY <1>3 DEF S

\* Kept has the value of such a function at its end.
LEMMA KeptDef ==
  ASSUME NEW l, NEW P, Len(l) \in Nat
  PROVE  \E f : KeptUpTo(f, l, P, Len(l)) /\ Kept(l, P) = f[Len(l)]
<1> DEFINE kept == CHOOSE f : KeptUpTo(f, l, P, Len(l))
<1>1. \E f : KeptUpTo(f, l, P, Len(l))
  BY KeptExists
<1>2. KeptUpTo(kept, l, P, Len(l))
  BY <1>1, Zenon
<1>3. Kept(l, P) = kept[Len(l)]
  BY DEF Kept, KeptUpTo
<1> HIDE DEF kept
<1> QED
  BY <1>2, <1>3

\* Kept has the records at the positions in P, all of them and in their order.
LEMMA KeptFrom ==
  ASSUME NEW S, NEW l \in Seq(S), NEW P
  PROVE  /\ Kept(l, P) \in Seq(S)
         /\ Len(Kept(l, P)) <= Len(l)
         /\ \E from \in [1 .. Len(Kept(l, P)) -> 1 .. Len(l)] :
                /\ \A m \in 1 .. Len(Kept(l, P)) :
                       from[m] \in P /\ Kept(l, P)[m] = l[from[m]]
                /\ \A m, n \in 1 .. Len(Kept(l, P)) : m < n => from[m] < from[n]
                /\ \A n \in P \cap 1 .. Len(l) : \E m \in 1 .. Len(Kept(l, P)) : from[m] = n
<1>1. PICK f : KeptUpTo(f, l, P, Len(l)) /\ Kept(l, P) = f[Len(l)]
  BY KeptDef
<1> DEFINE Good(s, k) ==
             /\ s \in Seq(S)
             /\ Len(s) <= k
             /\ \E from \in [1 .. Len(s) -> 1 .. k] :
                    /\ \A m \in 1 .. Len(s) : from[m] \in P /\ s[m] = l[from[m]]
                    /\ \A m, n \in 1 .. Len(s) : m < n => from[m] < from[n]
                    /\ \A n \in P \cap 1 .. k : \E m \in 1 .. Len(s) : from[m] = n
           T == {k \in Nat : k <= Len(l) => Good(f[k], k)}
<1>2. \A n \in 0 .. Len(l) : f[n] = IF n = 0 THEN <<>>
                             ELSE IF n \in P THEN Append(f[n - 1], l[n]) ELSE f[n - 1]
  BY <1>1 DEF KeptUpTo
<1>3. 0 \in T
  <2>1. f[0] = <<>>
    BY <1>2
  <2>2. Good(<<>>, 0)
    <3> DEFINE from == [m \in 1 .. Len(<<>>) |-> 1]
    <3>1. <<>> \in Seq(S) /\ Len(<<>>) = 0 /\ 1 .. Len(<<>>) = {} /\ Len(<<>>) <= 0
      OBVIOUS
    <3>2. from \in [1 .. Len(<<>>) -> 1 .. 0]
      BY <3>1
    <3>3. /\ \A m \in 1 .. Len(<<>>) : from[m] \in P /\ <<>>[m] = l[from[m]]
          /\ \A m, n \in 1 .. Len(<<>>) : m < n => from[m] < from[n]
          /\ \A n \in P \cap 1 .. 0 : \E m \in 1 .. Len(<<>>) : from[m] = n
      BY <3>1
    <3> HIDE DEF from
    <3>4. \E g \in [1 .. Len(<<>>) -> 1 .. 0] :
             /\ \A m \in 1 .. Len(<<>>) : g[m] \in P /\ <<>>[m] = l[g[m]]
             /\ \A m, n \in 1 .. Len(<<>>) : m < n => g[m] < g[n]
             /\ \A n \in P \cap 1 .. 0 : \E m \in 1 .. Len(<<>>) : g[m] = n
      BY <3>2, <3>3, Zenon
    <3> QED
      BY <3>1, <3>4, Zenon
  <2> HIDE DEF Good
  <2> QED
    BY <2>1, <2>2
<1>4. ASSUME NEW k \in Nat, k \in T
      PROVE  k + 1 \in T
  <2> SUFFICES ASSUME k + 1 <= Len(l)
               PROVE  Good(f[k + 1], k + 1)
    OBVIOUS
  <2>1. k + 1 \in 1 .. Len(l) /\ k + 1 \in 0 .. Len(l) /\ (k + 1) - 1 = k
    OBVIOUS
  <2>2. f[k] \in Seq(S) /\ Len(f[k]) <= k
    BY <1>4, <2>1
  <2>3. PICK from \in [1 .. Len(f[k]) -> 1 .. k] :
               /\ \A m \in 1 .. Len(f[k]) : from[m] \in P /\ f[k][m] = l[from[m]]
               /\ \A m, n \in 1 .. Len(f[k]) : m < n => from[m] < from[n]
               /\ \A n \in P \cap 1 .. k : \E m \in 1 .. Len(f[k]) : from[m] = n
    BY <1>4, <2>1
  <2>6. f[k + 1] = IF k + 1 \in P THEN Append(f[k], l[k + 1]) ELSE f[k]
    <3>1. f[k + 1] = IF k + 1 = 0 THEN <<>>
                     ELSE IF k + 1 \in P THEN Append(f[(k + 1) - 1], l[k + 1]) ELSE f[(k + 1) - 1]
      BY <2>1, <1>2, Zenon
    <3>2. k + 1 # 0
      OBVIOUS
    <3> QED
      BY <2>1, <3>1, <3>2, Zenon
  <2>4. CASE k + 1 \in P
    <3> DEFINE s == Append(f[k], l[k + 1])
               next == [m \in 1 .. Len(s) |-> IF m = Len(s) THEN k + 1 ELSE from[m]]
    <3>1. f[k + 1] = s
      BY <2>4, <2>6
    <3>2. s \in Seq(S) /\ Len(s) = Len(f[k]) + 1 /\ Len(f[k]) \in Nat
      BY <2>1, <2>2
    <3>3. \A m \in 1 .. Len(s) : IF m = Len(s) THEN s[m] = l[k + 1]
                                 ELSE m \in 1 .. Len(f[k]) /\ s[m] = f[k][m]
      BY <2>1, <2>2
    <3> HIDE DEF s
    <3>4. next \in [1 .. Len(s) -> 1 .. k + 1]
      BY <3>2, <3>3
    <3>5. \A m \in 1 .. Len(s) : next[m] \in P /\ s[m] = l[next[m]]
      BY <2>3, <2>4, <3>3
    <3>6. \A m \in 1 .. Len(f[k]) : from[m] < k + 1
      BY <2>3
    <3>7. \A m, n \in 1 .. Len(s) : m < n => next[m] < next[n]
      BY <2>3, <3>2, <3>3, <3>6
    <3>9. ASSUME NEW n \in P \cap 1 .. k + 1
          PROVE  \E m \in 1 .. Len(s) : next[m] = n
      <4>1. CASE n = k + 1
        <5>1. Len(s) \in 1 .. Len(s) /\ next[Len(s)] = k + 1
          BY <3>2
        <5> QED
          BY <4>1, <5>1
      <4>2. CASE n \in 1 .. k
        <5>1. PICK m \in 1 .. Len(f[k]) : from[m] = n
          BY <2>3, <4>2
        <5>2. m \in 1 .. Len(s) /\ m # Len(s)
          BY <3>2
        <5> QED
          BY <5>1, <5>2
      <4> QED
        BY <4>1, <4>2
    <3>8. Len(s) <= k + 1
      BY <2>2, <3>2
    <3> HIDE DEF next
    <3> QED
      BY <3>1, <3>2, <3>4, <3>5, <3>7, <3>8, <3>9
  <2>5. CASE k + 1 \notin P
    <3>1. f[k + 1] = f[k]
      BY <2>5, <2>6
    <3>2. from \in [1 .. Len(f[k]) -> 1 .. k + 1]
      BY <2>3
    <3>3. P \cap 1 .. k + 1 = P \cap 1 .. k
      BY <2>5
    <3>4. \A n \in P \cap 1 .. k + 1 : \E m \in 1 .. Len(f[k]) : from[m] = n
      BY <3>3, <2>3, Zenon
    <3>5. Len(f[k]) <= k + 1
      BY <2>2
    <3>6. Good(f[k], k + 1)
      BY <3>2, <3>4, <3>5, <2>2, <2>3, Zenon
    <3> HIDE DEF Good
    <3> QED
      BY <3>1, <3>6, Zenon
  <2> QED
    BY <2>4, <2>5
<1> HIDE DEF T
<1>5. \A k \in Nat : k \in T
  BY <1>3, <1>4, NatSet
<1>6. Good(f[Len(l)], Len(l))
  BY <1>5 DEF T
<1>7. Good(Kept(l, P), Len(l))
  <2> HIDE DEF Good
  <2> QED
    BY <1>1, <1>6
<1> QED
  BY <1>7, Zenon

-----------------------------------------------------------------------------
(* Lists of the jobs of a server, and what they may show *)

\* The server sv has the job; with rt retries, an end of it may be shown.
Known(sv, j) == j \in Jobs /\ sv[j] # "none"
Over(sv, rt, j) == rt[j] = 0 => sv[j] = "ended"

Fair(r, sv, rt) ==
  /\ r \in Record
  /\ Known(sv, r.job)
  /\ r.status = "ended" => Over(sv, rt, r.job)

\* At most MaxJobs records, one for a job, each of them fair.
Honest(l, sv, rt) ==
  /\ l \in Seq(Record)
  /\ Len(l) <= MaxJobs
  /\ \A m, n \in DOMAIN l : l[m].job = l[n].job => m = n
  /\ \A n \in DOMAIN l : Fair(l[n], sv, rt)

\* The server goes on: it forgets no job, and an end stays one until a retry.
Onward(sv, rt, sv2, rt2) ==
  \A j \in Jobs : /\ Known(sv, j) => Known(sv2, j)
                  /\ Over(sv, rt, j) => Over(sv2, rt2, j)

\* The lists of the type are the sequences that fit.
LEMMA ListsAre ==
  \A l : l \in Lists <=> l \in Seq(Record) /\ Len(l) <= MaxJobs
<1>1. ASSUME NEW l, l \in Lists
      PROVE  l \in Seq(Record) /\ Len(l) <= MaxJobs
  <2>1. PICK m \in 0 .. MaxJobs : l \in [1 .. m -> Record]
    BY <1>1 DEF Lists, BoundedSeq, SeqOf
  <2> QED
    BY <2>1, ConstantsOK
<1>2. ASSUME NEW l, l \in Seq(Record), Len(l) <= MaxJobs
      PROVE  l \in Lists
  <2>1. Len(l) \in 0 .. MaxJobs /\ l \in [1 .. Len(l) -> Record]
    BY <1>2, ConstantsOK
  <2> QED
    BY <2>1 DEF Lists, BoundedSeq, SeqOf
<1> QED
  BY <1>1, <1>2

\* A list stays honest while the server goes on.
LEMMA HonestLater ==
  ASSUME NEW l, NEW sv, NEW rt, NEW sv2, NEW rt2,
         Honest(l, sv, rt), Onward(sv, rt, sv2, rt2)
  PROVE  Honest(l, sv2, rt2)
<1>1. \A n \in DOMAIN l : l[n].job \in Jobs
  BY DEF Honest, Fair, Known
<1> QED
  BY <1>1 DEF Honest, Fair, Onward

\* The empty list is honest.
LEMMA HonestEmpty ==
  ASSUME NEW sv, NEW rt
  PROVE  Honest(<<>>, sv, rt)
BY ConstantsOK DEF Honest

\* What is left of an honest list is honest.
LEMMA HonestTail ==
  ASSUME NEW l, NEW sv, NEW rt, Honest(l, sv, rt), l # <<>>
  PROVE  Honest(Tail(l), sv, rt)
<1>1. /\ Tail(l) \in Seq(Record) /\ Len(Tail(l)) = Len(l) - 1
      /\ Len(l) \in Nat
      /\ \A n \in 1 .. Len(Tail(l)) : n + 1 \in 1 .. Len(l) /\ Tail(l)[n] = l[n + 1]
      /\ DOMAIN l = 1 .. Len(l) /\ DOMAIN Tail(l) = 1 .. Len(Tail(l))
  BY DEF Honest
<1>2. \A m, n \in 1 .. Len(Tail(l)) : m + 1 = n + 1 => m = n
  OBVIOUS
<1> QED
  BY <1>1, <1>2, ConstantsOK DEF Honest

\* Each record kept is one of the list at a position in P.
LEMMA KeptPicks ==
  ASSUME NEW S, NEW l \in Seq(S), NEW P, NEW m \in DOMAIN Kept(l, P)
  PROVE  \E n \in DOMAIN l : n \in P /\ Kept(l, P)[m] = l[n]
<1>1. Kept(l, P) \in Seq(S)
  BY KeptFrom
<1>2. m \in 1 .. Len(Kept(l, P)) /\ DOMAIN l = 1 .. Len(l)
  BY <1>1
<1>3. PICK from \in [1 .. Len(Kept(l, P)) -> 1 .. Len(l)] :
             \A n \in 1 .. Len(Kept(l, P)) : from[n] \in P /\ Kept(l, P)[n] = l[from[n]]
  BY KeptFrom
<1>4. from[m] \in DOMAIN l /\ from[m] \in P /\ Kept(l, P)[m] = l[from[m]]
  BY <1>2, <1>3
<1> QED
  BY <1>4

\* Where there is such a position, something is kept.
LEMMA KeptSome ==
  ASSUME NEW S, NEW l \in Seq(S), NEW P, NEW n \in DOMAIN l, n \in P
  PROVE  Kept(l, P) # <<>>
<1>1. n \in P \cap 1 .. Len(l)
  OBVIOUS
<1>2. \E from \in [1 .. Len(Kept(l, P)) -> 1 .. Len(l)] :
          \A k \in P \cap 1 .. Len(l) : \E m \in 1 .. Len(Kept(l, P)) : from[m] = k
  BY KeptFrom
<1>3. \E m \in 1 .. Len(Kept(l, P)) : TRUE
  BY <1>1, <1>2
<1> QED
  BY <1>3

\* What is kept of an honest list is honest.
LEMMA HonestKept ==
  ASSUME NEW l, NEW sv, NEW rt, NEW P, Honest(l, sv, rt)
  PROVE  Honest(Kept(l, P), sv, rt)
<1> DEFINE k == Kept(l, P)
<1>1. l \in Seq(Record) /\ DOMAIN l = 1 .. Len(l) /\ Len(l) \in Nat
  BY DEF Honest
<1>2. PICK from \in [1 .. Len(k) -> 1 .. Len(l)] :
             /\ \A m \in 1 .. Len(k) : from[m] \in P /\ k[m] = l[from[m]]
             /\ \A m, n \in 1 .. Len(k) : m < n => from[m] < from[n]
  BY <1>1, KeptFrom
<1>3. k \in Seq(Record) /\ Len(k) <= Len(l)
  BY <1>1, KeptFrom
<1> HIDE DEF k
<1>4. DOMAIN k = 1 .. Len(k) /\ Len(k) \in Nat
  BY <1>3
<1>5. \A m, n \in DOMAIN k : k[m].job = k[n].job => m = n
  <2> SUFFICES ASSUME NEW m \in 1 .. Len(k), NEW n \in 1 .. Len(k), k[m].job = k[n].job
               PROVE  m = n
    BY <1>4
  <2>1. from[m] = from[n]
    BY <1>1, <1>2 DEF Honest
  <2>2. m < n \/ n < m \/ m = n
    BY <1>4
  <2> QED
    BY <1>2, <2>1, <2>2
<1>6. \A n \in DOMAIN k : Fair(k[n], sv, rt)
  BY <1>1, <1>2, <1>4 DEF Honest
<1>7. Len(k) <= MaxJobs
  BY <1>1, <1>3, <1>4, ConstantsOK DEF Honest
<1>8. Honest(k, sv, rt)
  BY <1>3, <1>5, <1>6, <1>7 DEF Honest
<1> QED
  BY <1>8 DEF k

\* A fair record goes in front of an honest list, for the one it had of the job.
LEMMA HonestUpsert ==
  ASSUME NEW l, NEW sv, NEW rt, NEW r, Honest(l, sv, rt), Fair(r, sv, rt)
  PROVE  Honest(Upsert(l, r), sv, rt)
<1> DEFINE k == Without(l, r.job)
           next == <<r>> \o k
           cut == Min({MaxJobs, Len(next)})
<1>1. Honest(k, sv, rt)
  BY HonestKept DEF Without
<1>2. \A m \in DOMAIN k : k[m].job # r.job
  <2> DEFINE P == {n \in DOMAIN l : l[n].job # r.job}
  <2>1. k = Kept(l, P)
    BY DEF Without
  <2>2. \A m \in DOMAIN Kept(l, P) : \E n \in DOMAIN l : n \in P /\ Kept(l, P)[m] = l[n]
    <3> HIDE DEF P, k, next, cut
    <3> QED
      BY KeptPicks DEF Honest
  <2> HIDE DEF k
  <2>3. \A m \in DOMAIN k : \E n \in DOMAIN l : n \in P /\ k[m] = l[n]
    BY <2>1, <2>2
  <2> QED
    BY <2>3
<1> HIDE DEF k
<1>3. k \in Seq(Record) /\ DOMAIN k = 1 .. Len(k) /\ Len(k) \in Nat /\ r \in Record
  BY <1>1 DEF Honest, Fair
<1>4. /\ next \in Seq(Record) /\ Len(next) = Len(k) + 1 /\ next[1] = r
      /\ \A n \in 2 .. Len(next) : n - 1 \in DOMAIN k /\ next[n] = k[n - 1]
  BY <1>3
<1> HIDE DEF next
<1>5. cut \in Nat /\ cut <= MaxJobs /\ cut <= Len(next)
  <2> DEFINE S == {MaxJobs, Len(next)}
  <2>1. Len(next) \in Nat /\ MaxJobs \in Nat
    BY <1>3, <1>4, ConstantsOK
  <2>2. \E x \in S : \A y \in S : x <= y
    BY <2>1
  <2>3. cut \in S /\ \A y \in S : cut <= y
    BY <2>2 DEF Min
  <2> QED
    BY <2>1, <2>3
<1> HIDE DEF cut
<1>6. /\ SubSeq(next, 1, cut) \in Seq(Record) /\ Len(SubSeq(next, 1, cut)) = cut
      /\ \A n \in 1 .. cut : n \in 1 .. Len(next) /\ SubSeq(next, 1, cut)[n] = next[n]
  BY <1>3, <1>4, <1>5
<1>7. \A n \in 1 .. Len(next) : Fair(next[n], sv, rt)
  <2> SUFFICES ASSUME NEW n \in 1 .. Len(next) PROVE Fair(next[n], sv, rt)
    OBVIOUS
  <2>1. n = 1 \/ n \in 2 .. Len(next)
    OBVIOUS
  <2> QED
    BY <1>1, <1>4, <2>1 DEF Honest
<1>8. \A m, n \in 1 .. Len(next) : next[m].job = next[n].job => m = n
  <2> SUFFICES ASSUME NEW m \in 1 .. Len(next), NEW n \in 1 .. Len(next),
                      next[m].job = next[n].job
               PROVE  m = n
    OBVIOUS
  <2>1. (m = 1 \/ m \in 2 .. Len(next)) /\ (n = 1 \/ n \in 2 .. Len(next))
    OBVIOUS
  <2>2. m \in 2 .. Len(next) /\ n \in 2 .. Len(next) => m - 1 = n - 1
    BY <1>1, <1>4 DEF Honest
  <2> QED
    BY <1>2, <1>4, <2>1, <2>2
<1>9. Upsert(l, r) = SubSeq(next, 1, cut)
  BY DEF Upsert, next, cut, k
<1>10. DOMAIN SubSeq(next, 1, cut) = 1 .. cut
  BY <1>6
<1> DEFINE u == SubSeq(next, 1, cut)
<1> HIDE DEF u
<1>11. Honest(u, sv, rt)
  <2>1. u \in Seq(Record) /\ Len(u) <= MaxJobs /\ DOMAIN u = 1 .. cut
    BY <1>5, <1>6, <1>10 DEF u
  <2>2. \A n \in 1 .. cut : n \in 1 .. Len(next) /\ u[n] = next[n]
    BY <1>6 DEF u
  <2> QED
    BY <1>7, <1>8, <2>1, <2>2 DEF Honest
<1> QED
  BY <1>9, <1>11 DEF u

\* A record may be marked as sent, and as ended once its job has ended.
LEMMA HonestMarks ==
  ASSUME NEW l, NEW sv, NEW rt, NEW j, Honest(l, sv, rt)
  PROVE  /\ Honest(MarkSent(l, j), sv, rt)
         /\ j \in Jobs /\ Over(sv, rt, j) => Honest(MarkEnded(l, j), sv, rt)
<1>1. DOMAIN l = 1 .. Len(l) /\ Len(l) \in Nat /\ \A n \in DOMAIN l : l[n] \in Record
  BY DEF Honest
<1>2. ASSUME NEW m, DOMAIN m = DOMAIN l, m = [n \in DOMAIN l |-> m[n]],
             \A n \in DOMAIN l : m[n].job = l[n].job /\ Fair(m[n], sv, rt)
      PROVE  Honest(m, sv, rt)
  <2>1. \A n \in DOMAIN l : m[n] \in Record
    BY <1>2 DEF Fair
  <2>2. m \in Seq(Record) /\ Len(m) = Len(l)
    BY <1>1, <1>2, <2>1
  <2> QED
    BY <1>2, <2>2 DEF Honest
<1>3. Honest(MarkSent(l, j), sv, rt)
  <2> DEFINE m == MarkSent(l, j)
  <2>1. DOMAIN m = DOMAIN l /\ m = [n \in DOMAIN l |-> m[n]]
    BY DEF MarkSent
  <2>2. \A n \in DOMAIN l : m[n] = IF l[n].job = j THEN [l[n] EXCEPT !.sent = TRUE] ELSE l[n]
    BY DEF MarkSent
  <2> HIDE DEF m
  <2>3. \A n \in DOMAIN l : m[n].job = l[n].job /\ Fair(m[n], sv, rt)
    BY <1>1, <2>2 DEF Honest, Fair, Record
  <2>4. Honest(m, sv, rt)
    BY <1>2, <2>1, <2>3
  <2> QED
    BY <2>4 DEF m
<1>4. ASSUME j \in Jobs, Over(sv, rt, j)
      PROVE  Honest(MarkEnded(l, j), sv, rt)
  <2> DEFINE m == MarkEnded(l, j)
  <2>1. DOMAIN m = DOMAIN l /\ m = [n \in DOMAIN l |-> m[n]]
    BY DEF MarkEnded
  <2>2. \A n \in DOMAIN l : m[n] = IF l[n].job = j THEN [l[n] EXCEPT !.status = "ended"] ELSE l[n]
    BY DEF MarkEnded
  <2> HIDE DEF m
  <2>3. \A n \in DOMAIN l : m[n].job = l[n].job /\ Fair(m[n], sv, rt)
    BY <1>1, <1>4, <2>2 DEF Honest, Fair, Record, Status
  <2>4. Honest(m, sv, rt)
    BY <1>2, <2>1, <2>3
  <2> QED
    BY <2>4 DEF m
<1> QED
  BY <1>3, <1>4

-----------------------------------------------------------------------------
(* What handlers and sockets may bring *)

Commands == {"queue", "cancel", "retry"}

\* A handler has a list that may be shown, and an answer it may act on.
HandlerGood(c, sv, rt) ==
  /\ c \in TaskType
  /\ Honest(c.list, sv, rt)
  /\ c.pc = "load" => c.op \in Commands \cup {"look", "poll"}
  /\ c.pc \in {"request", "answered"} => c.op \in Commands
  /\ c.pc \in {"load", "request"} /\ c.op \in Commands => c.job \in Jobs
  /\ c.pc \in {"answered", "save"} => Known(sv, c.job)
  /\ c.pc \in {"fetch", "fetched"} => c.list # <<>>
  /\ c.pc = "answered" /\ c.op = "cancel" => Over(sv, rt, c.job)
  /\ c.pc = "fetched" /\ c.got = "ended" => Over(sv, rt, Head(c.list).job)

\* A socket is of a job of the server's and brings it no false end.
SocketGood(x, sv, rt) ==
  /\ x \in SocketType
  /\ x.state = "free" <=> x.job = NoJob
  /\ x.job \in Jobs => Known(sv, x.job)
  /\ x.state # "open" \/ x.last = "none" => x.messages = <<>>
  /\ x.last = "active" => Len(x.messages) <= 1
  /\ \A n \in DOMAIN x.messages : x.messages[n] = "ended" => Over(sv, rt, x.job)

World ==
  /\ server \in [Jobs -> Status \cup {"none"}]
  /\ retries \in [Jobs -> 0 .. MaxRetries]

ListsGood == Honest(recentJobs, server, retries) /\ Honest(stored, server, retries)

TasksGood ==
  /\ task \in [Tasks -> TaskType]
  /\ \A t \in Tasks : HandlerGood(task[t], server, retries)

\* The map names a socket of the job.
SocketsGood ==
  /\ socket \in [Sockets -> SocketType]
  /\ \A s \in Sockets : SocketGood(socket[s], server, retries)
  /\ active \in [Jobs -> Sockets \cup {NoSocket}]
  /\ \A j \in Jobs : active[j] # NoSocket => socket[active[j]].job = j

\* Sockets are started for jobs of the server's.
StartsGood ==
  /\ tickets \in [Jobs -> 0 .. 2]
  /\ \A j \in Jobs : tickets[j] > 0 => Known(server, j)
  /\ \A j \in again : Known(server, j)

RestGood ==
  /\ claimed \subseteq Jobs
  /\ polling \in BOOLEAN
  /\ faults \in 0 .. MaxFaults
  /\ stops \in 0 .. MaxStops

Truth == World /\ ListsGood /\ TasksGood /\ SocketsGood /\ StartsGood /\ RestGood

-----------------------------------------------------------------------------
(* What becomes of lists, handlers and sockets while the server goes on *)

Forward == Onward(server, retries, server', retries')

\* The server's jobs and retries as they are.
LEMMA SameWorld ==
  ASSUME World, UNCHANGED <<server, retries>>
  PROVE  World' /\ Forward
BY DEF World, Forward, Onward, Known, Over

\* The messages of a socket are the sequences that fit.
LEMMA MessagesAre ==
  \A m : m \in BoundedSeq(Status, 3) <=> m \in Seq(Status) /\ Len(m) <= 3
<1>1. ASSUME NEW m, m \in BoundedSeq(Status, 3)
      PROVE  m \in Seq(Status) /\ Len(m) <= 3
  <2>1. PICK n \in 0 .. 3 : m \in [1 .. n -> Status]
    BY <1>1 DEF BoundedSeq, SeqOf
  <2> QED
    BY <2>1
<1>2. ASSUME NEW m, m \in Seq(Status), Len(m) <= 3
      PROVE  m \in BoundedSeq(Status, 3)
  <2>1. Len(m) \in Nat /\ m \in [1 .. Len(m) -> Status]
    BY <1>2
  <2>2. Len(m) \in 0 .. 3
    BY <1>2, <2>1
  <2> QED
    BY <2>1, <2>2 DEF BoundedSeq, SeqOf
<1> QED
  BY <1>1, <1>2

\* One of the messages is taken, and the others move up.
LEMMA MessagesTail ==
  ASSUME NEW m \in BoundedSeq(Status, 3), m # <<>>
  PROVE  /\ Tail(m) \in BoundedSeq(Status, 3)
         /\ 1 \in DOMAIN m /\ Head(m) = m[1] /\ Head(m) \in Status
         /\ Len(m) <= 1 => Tail(m) = <<>>
         /\ \A n \in DOMAIN Tail(m) : n + 1 \in DOMAIN m /\ Tail(m)[n] = m[n + 1]
<1> DEFINE k == Len(m)
           i == Len(Tail(m))
<1>1. m \in Seq(Status) /\ k <= 3
  BY MessagesAre
<1>2. k \in Nat /\ Len(<<>>) = 0
  BY <1>1
<1>3. k # 0
  BY <1>1
<1>4. i = k - 1 /\ Tail(m) \in Seq(Status)
  BY <1>1
<1>5. 1 \in DOMAIN m /\ Head(m) = m[1] /\ Head(m) \in Status
  BY <1>1
<1>6. DOMAIN m = 1 .. k /\ DOMAIN Tail(m) = 1 .. i
  BY <1>1, <1>4
<1>7. \A n \in 1 .. i : Tail(m)[n] = m[n + 1]
  BY <1>1
<1>10. i = 0 => Tail(m) = <<>>
  <2>1. \A e \in Seq(Status) : Len(e) = 0 => e = <<>>
    OBVIOUS
  <2> QED
    BY <1>4, <2>1
<1> HIDE DEF k, i
<1>8. i <= 3 /\ (\A n \in 1 .. i : n + 1 \in 1 .. k) /\ (k <= 1 => i = 0)
  BY <1>1, <1>2, <1>3, <1>4
<1>9. Tail(m) \in BoundedSeq(Status, 3)
  BY <1>4, <1>8, MessagesAre DEF i
<1> QED
  BY <1>5, <1>6, <1>7, <1>8, <1>9, <1>10 DEF k

\* What a handler holds stays good while the server goes on.
LEMMA HandlerLater ==
  ASSUME NEW c, NEW sv, NEW rt, NEW sv2, NEW rt2,
         HandlerGood(c, sv, rt), Onward(sv, rt, sv2, rt2)
  PROVE  HandlerGood(c, sv2, rt2)
<1>1. Honest(c.list, sv2, rt2)
  BY HonestLater DEF HandlerGood
<1>2. c.pc \in {"answered", "save"} => Known(sv2, c.job)
  BY DEF HandlerGood, Onward, Known
<1>3. c.pc = "answered" /\ c.op = "cancel" => Over(sv2, rt2, c.job)
  BY DEF HandlerGood, Onward, Known
<1>4. c.pc \in {"fetch", "fetched"} => Head(c.list).job \in Jobs
  <2> SUFFICES ASSUME c.list # <<>> PROVE Head(c.list).job \in Jobs
    BY DEF HandlerGood
  <2>1. c.list \in Seq(Record) /\ 1 \in DOMAIN c.list /\ Head(c.list) = c.list[1]
    BY DEF HandlerGood, Honest
  <2> QED
    BY <2>1 DEF HandlerGood, Honest, Fair, Known
<1>5. c.pc = "fetched" /\ c.got = "ended" => Over(sv2, rt2, Head(c.list).job)
  BY <1>4 DEF HandlerGood, Onward
<1> QED
  BY <1>1, <1>2, <1>3, <1>5 DEF HandlerGood

\* The records that a handler is still to reconcile are fair.
LEMMA HeadFair ==
  ASSUME NEW l, NEW sv, NEW rt, Honest(l, sv, rt), l # <<>>
  PROVE  Fair(Head(l), sv, rt)
<1>1. l \in Seq(Record) /\ 1 \in DOMAIN l /\ Head(l) = l[1]
  BY DEF Honest
<1> QED
  BY <1>1 DEF Honest

\* So does what a socket has to bring,
LEMMA SocketLater ==
  ASSUME NEW x, NEW sv, NEW rt, NEW sv2, NEW rt2,
         SocketGood(x, sv, rt), Onward(sv, rt, sv2, rt2)
  PROVE  SocketGood(x, sv2, rt2)
<1>1. x.job \in Jobs \/ x.job = NoJob
  BY DEF SocketGood, SocketType
<1>2. x.job \in Jobs => Known(sv2, x.job)
  BY DEF SocketGood, Onward
<1>3. x.job = NoJob => x.messages = <<>>
  BY DEF SocketGood
<1> QED
  BY <1>1, <1>2, <1>3 DEF SocketGood, Onward

\* the two lists,
LEMMA ListsLater ==
  ASSUME ListsGood, Forward, UNCHANGED lists
  PROVE  ListsGood'
BY HonestLater DEF ListsGood, Forward, lists

\* the handlers together,
LEMMA TasksLater ==
  ASSUME TasksGood, Forward, UNCHANGED task
  PROVE  TasksGood'
<1>1. \A t \in Tasks : HandlerGood(task[t], server', retries')
  BY HandlerLater DEF TasksGood, Forward
<1> QED
  BY <1>1 DEF TasksGood

\* A handler that goes on has to be good.
LEMMA TasksStep ==
  ASSUME TasksGood, Forward, NEW t \in Tasks, NEW c, Go(t, c),
         HandlerGood(c, server', retries')
  PROVE  TasksGood'
<1>1. \A u \in Tasks : HandlerGood(task[u], server', retries')
  BY HandlerLater DEF TasksGood, Forward
<1>2. task' = [task EXCEPT ![t] = c] /\ c \in TaskType
  BY DEF Go, HandlerGood
<1>3. task' \in [Tasks -> TaskType] /\ \A u \in Tasks : task'[u] = IF u = t THEN c ELSE task[u]
  BY <1>2 DEF TasksGood
<1> QED
  BY <1>1, <1>3 DEF TasksGood

\* The idle handler has nothing.
LEMMA IdleGood == \A sv, rt : HandlerGood(IdleTask, sv, rt)
<1> SUFFICES ASSUME NEW sv, NEW rt PROVE HandlerGood(IdleTask, sv, rt)
  OBVIOUS
<1>1. Honest(<<>>, sv, rt)
  BY HonestEmpty
<1>2. <<>> \in Lists
  BY <1>1, ListsAre DEF Honest
<1>3. IdleTask \in TaskType
  BY <1>2 DEF IdleTask, TaskType, Status
<1> QED
  BY <1>1, <1>3 DEF HandlerGood, IdleTask, Commands

\* An idle handler takes up the list l.
LEMMA NewTask ==
  ASSUME NEW sv, NEW rt, NEW op, NEW pc, NEW j \in Jobs \cup {NoJob}, NEW l,
         Honest(l, sv, rt),
         op \in {"look", "poll", "tick", "message"} \cup Commands,
         pc \in {"load", "fetch"},
         pc = "load" => op \in Commands \cup {"look", "poll"},
         op \in Commands => j \in Jobs,
         pc = "fetch" => l # <<>>
  PROVE  HandlerGood([IdleTask EXCEPT !.op = op, !.pc = pc, !.job = j, !.list = l], sv, rt)
<1> DEFINE c == [IdleTask EXCEPT !.op = op, !.pc = pc, !.job = j, !.list = l]
<1>1. l \in Lists
  BY ListsAre DEF Honest
<1>2. /\ c.op = op /\ c.pc = pc /\ c.job = j /\ c.list = l /\ c.got = "active"
      /\ c \in TaskType
  BY <1>1 DEF IdleTask, TaskType, Status, Commands
<1> HIDE DEF c
<1>3. HandlerGood(c, sv, rt)
  BY <1>2 DEF HandlerGood, Commands
<1> QED
  BY <1>3 DEF c

\* The sockets stay good while the server goes on,
LEMMA SocketsLater ==
  ASSUME SocketsGood, Forward, UNCHANGED <<socket, active>>
  PROVE  SocketsGood'
<1>1. \A s \in Sockets : SocketGood(socket[s], server', retries')
  BY SocketLater DEF SocketsGood, Forward
<1> QED
  BY <1>1 DEF SocketsGood

\* and so do their starts.
LEMMA StartsLater ==
  ASSUME StartsGood, Forward, UNCHANGED <<tickets, again>>
  PROVE  StartsGood'
<1>1. \A j \in Jobs : Known(server, j) => Known(server', j)
  BY DEF Forward, Onward
<1>2. \A j \in again : j \in Jobs
  BY DEF StartsGood, Known
<1> QED
  BY <1>1, <1>2 DEF StartsGood

\* Sockets are stopped, from what they are or have just become.
LEMMA StopGood ==
  ASSUME SocketsGood, UNCHANGED <<server, retries>>,
         NEW J \in SUBSET Jobs, NEW from, Stop(from, J),
         from \in [Sockets -> SocketType],
         \A s \in Sockets : SocketGood(from[s], server, retries) /\ from[s].job = socket[s].job
  PROVE  SocketsGood'
<1>1. ASSUME NEW s \in Sockets
      PROVE  /\ socket'[s] \in SocketType
             /\ SocketGood(socket'[s], server, retries)
             /\ socket'[s].job = socket[s].job
  <2>1. CASE socket'[s] = from[s]
    BY <2>1
  <2>2. CASE /\ socket'[s] = [from[s] EXCEPT !.state = "closing", !.messages = <<>>]
             /\ \E j \in J : active[j] = s
    <3> DEFINE x == [from[s] EXCEPT !.state = "closing", !.messages = <<>>]
    <3>1. from[s] \in SocketType /\ SocketGood(from[s], server, retries)
      OBVIOUS
    <3>2. x.state = "closing" /\ x.messages = <<>> /\ x.job = from[s].job /\ x.last = from[s].last
      BY <3>1 DEF SocketType
    <3>3. <<>> \in BoundedSeq(Status, 3)
      BY DEF BoundedSeq, SeqOf
    <3>4. x \in SocketType
      BY <3>1, <3>3 DEF SocketType
    <3> HIDE DEF x
    <3>5. from[s].job # NoJob
      <4>1. PICK j \in J : active[j] = s
        BY <2>2
      <4>2. j \in Jobs /\ active[j] # NoSocket
        BY <4>1, ConstantsOK
      <4>3. socket[s].job = j
        BY <4>1, <4>2 DEF SocketsGood
      <4> QED
        BY <4>2, <4>3, ConstantsOK
    <3>6. SocketGood(x, server, retries)
      BY <3>1, <3>2, <3>4, <3>5 DEF SocketGood
    <3> QED
      BY <2>2, <3>2, <3>4, <3>6 DEF x
  <2> QED
    BY <2>1, <2>2 DEF Stop
<1>2. socket' \in [Sockets -> SocketType]
  BY <1>1 DEF Stop
<1>3. /\ active' \in [Jobs -> Sockets \cup {NoSocket}]
      /\ \A j \in Jobs : active'[j] # NoSocket => active'[j] = active[j]
  BY DEF Stop, SocketsGood
<1>4. \A j \in Jobs : active'[j] # NoSocket => socket'[active'[j]].job = j
  <2> SUFFICES ASSUME NEW j \in Jobs, active'[j] # NoSocket
               PROVE  socket'[active'[j]].job = j
    OBVIOUS
  <2>1. active'[j] = active[j] /\ active[j] \in Sockets /\ socket[active[j]].job = j
    BY <1>3 DEF SocketsGood
  <2> QED
    BY <1>1, <2>1
<1> QED
  BY <1>1, <1>2, <1>3, <1>4 DEF SocketsGood

\* A list is saved: jobs that fall out of it have their sockets stopped.
LEMMA SaveGood ==
  ASSUME SocketsGood, UNCHANGED <<server, retries>>, NEW t, NEW l, NEW from, Save(t, l, from),
         Honest(l, server, retries),
         from \in [Sockets -> SocketType],
         \A s \in Sockets : SocketGood(from[s], server, retries) /\ from[s].job = socket[s].job
  PROVE  ListsGood' /\ SocketsGood'
<1>1. Dropped(l) \in SUBSET Jobs /\ Stop(from, Dropped(l))
  BY DEF Dropped, Save
<1>2. SocketsGood'
  BY <1>1, StopGood
<1> QED
  BY <1>2 DEF Save, ListsGood

\* Of more than one, some are left.
LEMMA TailSome ==
  ASSUME NEW S, NEW l \in Seq(S), Len(l) > 1
  PROVE  l # <<>> /\ Tail(l) # <<>>
<1> DEFINE m == Len(l)
           k == Len(Tail(l))
<1>1. m \in Nat /\ Len(<<>>) = 0
  OBVIOUS
<1>2. l # <<>>
  BY <1>1
<1>3. k = m - 1
  BY <1>2
<1> HIDE DEF m, k
<1>4. m > 1
  BY DEF m
<1>5. k # 0
  BY <1>1, <1>3, <1>4
<1> QED
  BY <1>1, <1>2, <1>5 DEF k

\* The handler t goes on with what is left of its list, or ends.
LEMMA ProceedGood ==
  ASSUME TasksGood, RestGood, Forward, NEW t \in Tasks, Proceed(t)
  PROVE  TasksGood' /\ polling' \in BOOLEAN
<1>1. CASE Len(task[t].list) > 1
  <2> DEFINE c == [task[t] EXCEPT !.pc = "fetch", !.job = NoJob, !.list = Tail(@)]
  <2>1. Go(t, c) /\ UNCHANGED polling
    BY <1>1 DEF Proceed, loop
  <2>2. task[t] \in TaskType /\ Honest(task[t].list, server, retries)
    BY DEF TasksGood, HandlerGood
  <2>3. task[t].list # <<>> /\ Tail(task[t].list) # <<>>
    BY <1>1, <2>2, TailSome DEF Honest
  <2>4. Honest(Tail(task[t].list), server', retries')
    BY <2>2, <2>3, HonestTail, HonestLater DEF Forward
  <2>5. Tail(task[t].list) \in Lists
    BY <2>4, ListsAre DEF Honest
  <2>6. /\ c \in TaskType /\ c.pc = "fetch" /\ c.list = Tail(task[t].list)
    BY <2>2, <2>5 DEF TaskType
  <2> HIDE DEF c
  <2>7. HandlerGood(c, server', retries')
    BY <2>3, <2>4, <2>6 DEF HandlerGood
  <2> QED
    BY <2>1, <2>7, TasksStep DEF RestGood
<1>2. CASE ~ (Len(task[t].list) > 1)
  <2>1. Finish(t)
    BY <1>2 DEF Proceed
  <2>2. Go(t, IdleTask)
    BY <2>1 DEF Finish
  <2>3. TasksGood'
    BY <2>2, TasksStep, IdleGood
  <2>4. polling' \in BOOLEAN
    BY <2>1 DEF Finish, RestGood, HasActive, IsActive
  <2> QED
    BY <2>3, <2>4
<1> QED
  BY <1>1, <1>2

-----------------------------------------------------------------------------
(* The steps: lists, answers and messages *)

\* What a step of a handler leaves alone in most cases.
LEMMA Parts ==
  ASSUME Truth, Forward, World', ListsGood', TasksGood', SocketsGood', StartsGood',
         claimed' \subseteq Jobs, polling' \in BOOLEAN,
         faults' \in 0 .. MaxFaults, stops' \in 0 .. MaxStops
  PROVE  Truth'
BY DEF Truth, RestGood

\* A fault keeps within their bound.
LEMMA FaultCounted ==
  ASSUME faults \in 0 .. MaxFaults, Fault
  PROVE  faults' \in 0 .. MaxFaults
BY ConstantsOK DEF Fault

\* A step that only replaces a handler.
LEMMA OnlyTask ==
  ASSUME Truth, NEW t \in Tasks, NEW c, Go(t, c), HandlerGood(c, server, retries),
         UNCHANGED <<server, retries, lists, sockets, claimed, polling, faults, stops>>
  PROVE  Truth'
<1>1. World' /\ Forward
  BY SameWorld DEF Truth
<1>2. TasksGood'
  BY <1>1, TasksStep DEF Truth
<1>3. ListsGood' /\ SocketsGood' /\ StartsGood'
  BY <1>1, ListsLater, SocketsLater, StartsLater DEF Truth, sockets
<1> QED
  BY <1>1, <1>2, <1>3, Parts DEF Truth, RestGood

\* A handler begins with the stored list, which is honest.
LEMMA BeginGood ==
  ASSUME Truth, NEW t \in Tasks, NEW op \in Commands \cup {"look", "poll"},
         NEW j \in Jobs \cup {NoJob}, op \in Commands => j \in Jobs, Begin(t, op, j)
  PROVE  Truth'
<1> DEFINE c == [IdleTask EXCEPT !.op = op, !.pc = "load", !.job = j, !.list = stored]
<1>1. HandlerGood(c, server, retries)
  BY NewTask DEF Truth, ListsGood
<1> HIDE DEF c
<1> QED
  BY <1>1, OnlyTask DEF Begin, outside, loop, c

\* The active records of an honest list are honest, and there is one if a job is active.
LEMMA ActiveOfHonest ==
  ASSUME ListsGood
  PROVE  /\ Honest(ActiveOf(recentJobs), server, retries)
         /\ HasActive(recentJobs) => ActiveOf(recentJobs) # <<>>
<1> DEFINE P == {n \in DOMAIN recentJobs : recentJobs[n].status = "active"}
<1>1. Honest(Kept(recentJobs, P), server, retries)
  BY HonestKept DEF ListsGood
<1>2. ASSUME HasActive(recentJobs)
      PROVE  Kept(recentJobs, P) # <<>>
  <2>1. PICK n \in DOMAIN recentJobs : n \in P
    BY <1>2 DEF HasActive, IsActive, ToSet
  <2>2. recentJobs \in Seq(Record)
    BY DEF ListsGood, Honest
  <2> HIDE DEF P
  <2> QED
    BY <2>1, <2>2, KeptSome
<1> QED
  BY <1>1, <1>2 DEF ActiveOf

\* A tick begins with the active records in memory.
LEMMA TickGood ==
  ASSUME Truth, NEW t \in Tasks, Tick(t)
  PROVE  Truth'
<1>1. CASE HasActive(recentJobs)
  <2> DEFINE c == [IdleTask EXCEPT !.op = "tick", !.pc = "fetch", !.list = ActiveOf(recentJobs)]
  <2>1. Go(t, c) /\ UNCHANGED <<server, retries, lists, sockets, claimed, polling, faults, stops>>
    BY <1>1 DEF Tick, outside, ledger
  <2>2. ActiveOf(recentJobs) # <<>> /\ Honest(ActiveOf(recentJobs), server, retries)
    BY <1>1, ActiveOfHonest DEF Truth
  <2>3. ActiveOf(recentJobs) \in Lists
    BY <2>2, ListsAre DEF Honest
  <2>5. c \in TaskType /\ c.op = "tick" /\ c.pc = "fetch" /\ c.list = ActiveOf(recentJobs)
    BY <2>3 DEF IdleTask, TaskType, Status
  <2> HIDE DEF c
  <2>4. HandlerGood(c, server, retries)
    BY <2>2, <2>5 DEF HandlerGood, Commands
  <2> QED
    BY <2>1, <2>4, OnlyTask
<1>2. CASE ~ HasActive(recentJobs)
  <2>1. polling' = FALSE /\ UNCHANGED <<server, retries, lists, task, sockets, claimed, faults, stops>>
    BY <1>2 DEF Tick, outside, ledger
  <2>2. World' /\ Forward
    BY <2>1, SameWorld DEF Truth
  <2>3. ListsGood' /\ TasksGood' /\ SocketsGood' /\ StartsGood'
    BY <2>1, <2>2, ListsLater, TasksLater, SocketsLater, StartsLater DEF Truth, sockets
  <2> QED
    BY <2>1, <2>2, <2>3, Parts DEF Truth, RestGood
<1> QED
  BY <1>1, <1>2

\* A message of a good socket is merged: it brings no false end.
LEMMA MessageGood ==
  ASSUME Truth, NEW t \in Tasks, NEW s \in Sockets, Message(t, s)
  PROVE  Truth'
<1> DEFINE j == socket[s].job
           status == Head(socket[s].messages)
           merged == MergeJob(j, status, Sent(recentJobs, j))
           c == [IdleTask EXCEPT !.op = "message", !.pc = "save", !.job = j, !.got = status]
           from == [socket EXCEPT ![s].messages = Tail(@)]
<1>1. /\ Go(t, c) /\ Save(t, Upsert(recentJobs, merged), from)
      /\ socket[s].state = "open" /\ socket[s].messages # <<>>
      /\ UNCHANGED <<server, retries, claimed, tickets, again, polling, faults, stops>>
  BY DEF Message, outside, loop
<1>2. World' /\ Forward
  BY <1>1, SameWorld DEF Truth
<1>3. socket[s] \in SocketType /\ SocketGood(socket[s], server, retries)
  BY DEF Truth, SocketsGood
<1>4. j \in Jobs /\ Known(server, j)
  BY <1>1, <1>3 DEF SocketGood, SocketType
<1>5. socket[s].messages \in BoundedSeq(Status, 3)
  BY <1>3 DEF SocketType
<1>6. status \in Status /\ (status = "ended" => Over(server, retries, j))
  BY <1>1, <1>3, <1>5, MessagesTail DEF SocketGood
<1>7. Fair(merged, server, retries)
  <2>1. Sent(recentJobs, j) \in BOOLEAN
    BY DEF Sent
  <2> QED
    BY <1>4, <1>6, <2>1 DEF Fair, MergeJob, Record
<1>8. HandlerGood(c, server, retries)
  <2>1. Honest(<<>>, server, retries) /\ <<>> \in Lists
    BY HonestEmpty, ListsAre DEF Honest
  <2>2. c \in TaskType /\ c.pc = "save" /\ c.job = j /\ c.list = <<>>
    BY <1>4, <1>6, <2>1 DEF IdleTask, TaskType
  <2> HIDE DEF c
  <2> QED
    BY <1>4, <2>1, <2>2 DEF HandlerGood
<1>9. /\ from \in [Sockets -> SocketType]
      /\ \A x \in Sockets : SocketGood(from[x], server, retries) /\ from[x].job = socket[x].job
  <2> DEFINE y == [socket[s] EXCEPT !.messages = Tail(@)]
  <2>1. /\ y \in SocketType /\ y.state = socket[s].state /\ y.job = socket[s].job
        /\ y.last = socket[s].last /\ y.messages = Tail(socket[s].messages)
    BY <1>1, <1>3, <1>5, MessagesTail DEF SocketType
  <2>2. from = [socket EXCEPT ![s] = y]
    OBVIOUS
  <2>3. \A n \in DOMAIN y.messages : n + 1 \in DOMAIN socket[s].messages
                                    /\ y.messages[n] = socket[s].messages[n + 1]
    BY <1>1, <1>5, <2>1, MessagesTail
  <2>5. y.last = "active" => y.messages = <<>>
    BY <1>1, <1>3, <1>5, <2>1, MessagesTail DEF SocketGood
  <2>6. Len(<<>>) <= 1
    OBVIOUS
  <2> HIDE DEF y
  <2>4. SocketGood(y, server, retries)
    BY <1>1, <1>3, <2>1, <2>3, <2>5, <2>6 DEF SocketGood
  <2> QED
    BY <2>1, <2>2, <2>4 DEF Truth, SocketsGood
<1> HIDE DEF c, from, merged
<1>10. Honest(Upsert(recentJobs, merged), server, retries)
  BY <1>7, HonestUpsert DEF Truth, ListsGood
<1>11. ListsGood' /\ SocketsGood'
  BY <1>1, <1>9, <1>10, SaveGood DEF Truth
<1>12. TasksGood' /\ StartsGood'
  BY <1>1, <1>2, <1>8, TasksStep, StartsLater DEF Truth
<1> QED
  BY <1>1, <1>2, <1>11, <1>12, Parts DEF Truth, RestGood

\* The list that a handler asked the storage for is honest still.
LEMMA LoadedGood ==
  ASSUME Truth, NEW t \in Tasks, Loaded(t), UNCHANGED <<server, retries, stops, faults>>
  PROVE  Truth'
<1>1. /\ recentJobs' = task[t].list
      /\ UNCHANGED <<stored, claimed, socket, active, tickets, again, polling>>
      /\ task[t].pc = "load"
  BY DEF Loaded, At, loop, sockets
<1>2. World' /\ Forward
  BY SameWorld DEF Truth
<1>3. task[t] \in TaskType /\ HandlerGood(task[t], server, retries)
  BY DEF Truth, TasksGood
<1>4. ListsGood'
  BY <1>1, <1>3 DEF HandlerGood, ListsGood, Truth
<1>5. SocketsGood' /\ StartsGood'
  BY <1>1, <1>2, SocketsLater, StartsLater DEF Truth
<1>6. TasksGood'
  <2>1. CASE task[t].op = "look"
    BY <1>2, <2>1, IdleGood, TasksStep DEF Loaded, Truth
  <2>2. ASSUME NEW pc \in {"gather", "request"}, pc = "request" => task[t].op # "poll",
               task[t].op # "look", Go(t, [task[t] EXCEPT !.pc = pc, !.list = <<>>])
        PROVE  TasksGood'
    <3> DEFINE c == [task[t] EXCEPT !.pc = pc, !.list = <<>>]
    <3>1. Honest(<<>>, server, retries) /\ <<>> \in Lists
      BY HonestEmpty, ListsAre DEF Honest
    <3>2. c \in TaskType /\ c.pc = pc /\ c.op = task[t].op /\ c.job = task[t].job /\ c.list = <<>>
      BY <1>3, <3>1 DEF TaskType
    <3> HIDE DEF c
    <3>3. HandlerGood(c, server, retries)
      BY <1>1, <1>3, <2>2, <3>1, <3>2 DEF HandlerGood
    <3>4. HandlerGood(c, server', retries')
      BY <1>2, <3>3, HandlerLater DEF Forward
    <3> QED
      BY <1>2, <2>2, <3>4, TasksStep DEF c, Truth
  <2>3. CASE task[t].op = "poll"
    BY <2>2, <2>3 DEF Loaded
  <2>4. CASE task[t].op \notin {"look", "poll"}
    BY <2>2, <2>4 DEF Loaded
  <2> QED
    BY <2>1, <2>3, <2>4
<1> QED
  BY <1>1, <1>2, <1>4, <1>5, <1>6, Parts DEF Truth, RestGood

\* A start counts for a job of the server's.
LEMMA StartGood ==
  ASSUME StartsGood, UNCHANGED <<server, retries>>, NEW j \in Jobs, Known(server, j),
         Start(j), again' \subseteq again
  PROVE  StartsGood'
<1> DEFINE S == {2, tickets[j] + 1}
<1>1. tickets[j] \in 0 .. 2
  BY DEF StartsGood
<1>2. \E x \in S : \A y \in S : x <= y
  BY <1>1
<1>3. Min(S) \in S /\ \A y \in S : Min(S) <= y
  BY <1>2 DEF Min
<1>4. Min(S) \in 0 .. 2
  BY <1>1, <1>3
<1> HIDE DEF S
<1>5. tickets' = tickets \/ tickets' = [tickets EXCEPT ![j] = Min(S)]
  BY DEF Start, S
<1> QED
  BY <1>4, <1>5 DEF StartsGood

\* maybeNotifyTerminal marks a record, or leaves the lists alone.
LEMMA MaybeNotifyGood ==
  ASSUME Truth, NEW t \in Tasks, task[t].job \in Jobs, MaybeNotify(t, task[t].job),
         UNCHANGED <<server, retries>>
  PROVE  ListsGood' /\ TasksGood' /\ claimed' \subseteq Jobs /\ polling' \in BOOLEAN
<1>1. World' /\ Forward
  BY SameWorld DEF Truth
<1>2. CASE MayTell(task[t].job)
  <2> DEFINE c == [task[t] EXCEPT !.pc = "told"]
  <2>1. /\ recentJobs' = MarkSent(recentJobs, task[t].job) /\ stored' = recentJobs'
        /\ Go(t, c) /\ polling' = polling /\ claimed' = claimed \cup {task[t].job}
    BY <1>2 DEF MaybeNotify, loop
  <2>2. ListsGood'
    BY <2>1, HonestMarks DEF ListsGood, Truth
  <2>3. task[t] \in TaskType /\ HandlerGood(task[t], server, retries)
    BY DEF Truth, TasksGood
  <2>4. c \in TaskType /\ c.pc = "told" /\ c.list = task[t].list
    BY <2>3 DEF TaskType
  <2> HIDE DEF c
  <2>5. HandlerGood(c, server, retries)
    BY <2>3, <2>4 DEF HandlerGood
  <2>6. HandlerGood(c, server', retries')
    BY <2>5
  <2>7. TasksGood'
    BY <1>1, <2>1, <2>6, TasksStep DEF Truth
  <2> QED
    BY <2>1, <2>2, <2>7 DEF Truth, RestGood
<1>3. CASE ~ MayTell(task[t].job)
  <2>1. Proceed(t) /\ UNCHANGED <<lists, claimed>>
    BY <1>3 DEF MaybeNotify
  <2> QED
    BY <1>1, <2>1, ProceedGood, ListsLater DEF Truth, RestGood
<1> QED
  BY <1>2, <1>3

\* What is saved is followed or told.
LEMMA SavedGood ==
  ASSUME Truth, NEW t \in Tasks, Saved(t), UNCHANGED <<server, retries, stops, faults>>
  PROVE  Truth'
<1>1. World' /\ Forward
  BY SameWorld DEF Truth
<1>2. Known(server, task[t].job) /\ task[t].job \in Jobs
  BY DEF Saved, At, Truth, TasksGood, HandlerGood, Known
<1>3. CASE task[t].got = "ended"
  <2>1. /\ Stop(socket, {task[t].job}) /\ MaybeNotify(t, task[t].job)
        /\ UNCHANGED <<tickets, again>>
    BY <1>3 DEF Saved
  <2>2. SocketsGood'
    BY <1>2, <2>1, StopGood DEF Truth, SocketsGood
  <2>3. ListsGood' /\ TasksGood' /\ claimed' \subseteq Jobs /\ polling' \in BOOLEAN
    BY <1>2, <2>1, MaybeNotifyGood
  <2>4. StartsGood'
    BY <1>1, <2>1, StartsLater DEF Truth
  <2> QED
    BY <1>1, <2>2, <2>3, <2>4, Parts DEF Truth, RestGood
<1>4. CASE task[t].got # "ended"
  <2>1. /\ Start(task[t].job) \/ UNCHANGED tickets
        /\ Proceed(t) /\ UNCHANGED <<lists, claimed, socket, active, again>>
    BY <1>4 DEF Saved
  <2>2. StartsGood'
    BY <1>1, <1>2, <2>1, StartsLater, StartGood DEF Truth
  <2>3. TasksGood' /\ polling' \in BOOLEAN
    BY <1>1, <2>1, ProceedGood DEF Truth
  <2>4. ListsGood' /\ SocketsGood'
    BY <1>1, <2>1, ListsLater, SocketsLater DEF Truth
  <2> QED
    BY <1>1, <2>1, <2>2, <2>3, <2>4, Parts DEF Truth, RestGood
<1> QED
  BY <1>3, <1>4

\* A notification changes no list.
LEMMA ToldGood ==
  ASSUME Truth, NEW t \in Tasks, Told(t), UNCHANGED <<server, retries, stops, faults>>
  PROVE  Truth'
<1>1. Proceed(t) /\ UNCHANGED <<lists, claimed, socket, active, tickets, again>>
  BY DEF Told, sockets
<1>2. World' /\ Forward
  BY SameWorld DEF Truth
<1>3. TasksGood' /\ polling' \in BOOLEAN
  BY <1>1, <1>2, ProceedGood DEF Truth
<1>4. ListsGood' /\ SocketsGood' /\ StartsGood'
  BY <1>1, <1>2, ListsLater, SocketsLater, StartsLater DEF Truth
<1> QED
  BY <1>1, <1>2, <1>3, <1>4, Parts DEF Truth, RestGood

\* Any answer of the storage.
LEMMA ReplyGood == Inv /\ Truth /\ Reply => Truth'
<1> SUFFICES ASSUME Inv, Truth, Reply PROVE Truth'
  OBVIOUS
<1>1. replies # <<>> /\ UNCHANGED <<server, retries, stops, faults>>
  BY DEF Reply, outside
<1>2. PICK t \in Tasks : Loaded(t) \/ Saved(t) \/ Told(t)
  BY <1>1, HeadTyped DEF Reply
<1> QED
  BY <1>1, <1>2, LoadedGood, SavedGood, ToldGood

\* The server does what a command asks: its answer is no false end.
LEMMA AcceptGood ==
  ASSUME Truth, NEW t \in Tasks, Accept(t)
  PROVE  Truth'
<1> DEFINE j == task[t].job
           op == task[t].op
           c == [task[t] EXCEPT !.pc = "answered", !.got = server'[j]]
<1>1. /\ Go(t, c) /\ task[t].pc = "request"
      /\ \/ op = "queue" /\ server[j] = "none"
         \/ op = "cancel" /\ server[j] = "active"
         \/ op = "retry" /\ server[j] = "ended" /\ retries[j] < MaxRetries
      /\ server' = [server EXCEPT ![j] = IF op = "cancel" THEN "ended" ELSE "active"]
      /\ retries' = [retries EXCEPT ![j] = IF op = "retry" THEN @ + 1 ELSE @]
      /\ UNCHANGED <<lists, claimed, socket, active, tickets, again, polling, faults, stops>>
  BY DEF Accept, At, ledger, loop, sockets
<1>2. task[t] \in TaskType /\ HandlerGood(task[t], server, retries)
  BY DEF Truth, TasksGood
<1>3. op \in Commands /\ j \in Jobs
  BY <1>1, <1>2 DEF HandlerGood, Commands
<1>4. /\ \A k \in Jobs : server'[k] = IF k = j THEN IF op = "cancel" THEN "ended" ELSE "active"
                                      ELSE server[k]
      /\ \A k \in Jobs : retries'[k] = IF k = j /\ op = "retry" THEN retries[k] + 1 ELSE retries[k]
      /\ server' \in [Jobs -> Status \cup {"none"}]
  BY <1>1, <1>3 DEF Truth, World, Status
<1>5. retries' \in [Jobs -> 0 .. MaxRetries]
  <2>1. retries[j] \in 0 .. MaxRetries /\ MaxRetries \in Nat
    BY <1>3, ConstantsOK DEF Truth, World
  <2>2. op = "retry" => retries[j] < MaxRetries
    BY <1>1
  <2>3. op = "retry" => retries[j] + 1 \in 0 .. MaxRetries
    BY <2>1, <2>2
  <2> QED
    BY <1>1, <2>1, <2>3 DEF Truth, World
<1>6. Forward
  <2> SUFFICES ASSUME NEW k \in Jobs
               PROVE  /\ Known(server, k) => Known(server', k)
                      /\ Over(server, retries, k) => Over(server', retries', k)
    BY DEF Forward, Onward
  <2>1. CASE k # j
    BY <1>4, <2>1 DEF Known, Over
  <2>2. CASE k = j
    <3>1. Known(server', k)
      BY <1>4, <2>2 DEF Known
    <3>2. retries[k] \in Nat
      BY DEF Truth, World
    <3>3. op = "retry" => Over(server', retries', k)
      BY <1>4, <2>2, <3>2 DEF Over
    <3>4. op # "retry" => (Over(server, retries, k) => Over(server', retries', k))
      BY <1>1, <1>4, <2>2 DEF Over
    <3> QED
      BY <3>1, <3>3, <3>4
  <2> QED
    BY <2>1, <2>2
<1>7. World'
  BY <1>4, <1>5 DEF World
<1>8. c \in TaskType /\ c.pc = "answered" /\ c.op = op /\ c.job = j /\ c.list = task[t].list
  <2>1. server'[j] \in Status
    BY <1>3, <1>4 DEF Status
  <2> QED
    BY <1>2, <2>1 DEF TaskType
<1> HIDE DEF c
<1>9. HandlerGood(c, server', retries')
  <2>1. Known(server', j) /\ (op = "cancel" => Over(server', retries', j))
    BY <1>3, <1>4 DEF Known, Over
  <2>2. Honest(task[t].list, server', retries')
    BY <1>2, <1>6, HonestLater DEF HandlerGood, Forward
  <2> QED
    BY <1>3, <1>8, <2>1, <2>2 DEF HandlerGood
<1>10. TasksGood'
  BY <1>1, <1>6, <1>9, TasksStep DEF Truth
<1>11. ListsGood' /\ SocketsGood' /\ StartsGood'
  BY <1>1, <1>6, ListsLater, SocketsLater, StartsLater DEF Truth
<1> QED
  BY <1>1, <1>6, <1>7, <1>10, <1>11, Parts DEF Truth, RestGood

\* A refused command ends.
LEMMA RefuseGood ==
  ASSUME Truth, NEW t \in Tasks, Refuse(t)
  PROVE  Truth'
BY IdleGood, OnlyTask DEF Refuse, outside, ledger, loop

\* A worker ends a job.
LEMMA EndGood ==
  ASSUME Truth, NEW j \in Jobs, End(j)
  PROVE  Truth'
<1>1. /\ server' = [server EXCEPT ![j] = "ended"]
      /\ UNCHANGED <<lists, claimed, retries, task, socket, active, tickets, again, polling,
                     faults, stops>>
  BY DEF End, ledger, loop, sockets
<1>2. World'
  BY <1>1 DEF Truth, World, Status
<1>3. \A k \in Jobs : server'[k] = IF k = j THEN "ended" ELSE server[k]
  BY <1>1 DEF Truth, World
<1>4. Forward
  BY <1>1, <1>3 DEF Forward, Onward, Known, Over
<1>5. ListsGood' /\ TasksGood' /\ SocketsGood' /\ StartsGood'
  BY <1>1, <1>4, ListsLater, TasksLater, SocketsLater, StartsLater DEF Truth
<1> QED
  BY <1>1, <1>2, <1>4, <1>5, Parts DEF Truth, RestGood

\* A command's answer is saved; notifications of a renewed job are disowned.
LEMMA AnsweredGood ==
  ASSUME Truth, NEW t \in Tasks, Answered(t)
  PROVE  Truth'
<1> DEFINE j == task[t].job
           cancel == task[t].op = "cancel"
           renewed == IF cancel THEN {} ELSE {j}
           l == IF cancel THEN MarkEnded(recentJobs, j)
                ELSE Upsert(recentJobs, MergeJob(j, "active", FALSE))
<1>1. /\ Save(t, l, socket) /\ task[t].pc = "answered"
      /\ claimed' = claimed \ renewed
      /\ task' = [u \in Tasks |->
             IF u = t THEN [task[t] EXCEPT !.pc = "save"]
             ELSE IF task[u].pc = "told" /\ task[u].job \in renewed
             THEN [task[u] EXCEPT !.job = NoJob] ELSE task[u]]
      /\ UNCHANGED <<server, retries, tickets, again, polling, faults, stops>>
  BY DEF Answered, At, outside, loop
<1>2. World' /\ Forward
  BY <1>1, SameWorld DEF Truth
<1>3. Known(server, j) /\ j \in Jobs /\ (cancel => Over(server, retries, j))
  BY <1>1 DEF Truth, TasksGood, HandlerGood, Known
<1>4. Honest(l, server, retries)
  <2>1. CASE cancel
    BY <1>3, <2>1, HonestMarks DEF Truth, ListsGood
  <2>2. CASE ~ cancel
    <3>1. Fair(MergeJob(j, "active", FALSE), server, retries)
      BY <1>3 DEF Fair, MergeJob, Record, Status
    <3> QED
      BY <2>2, <3>1, HonestUpsert DEF Truth, ListsGood
  <2> QED
    BY <2>1, <2>2
<1> HIDE DEF l
<1>5. ListsGood' /\ SocketsGood'
  BY <1>1, <1>4, SaveGood DEF Truth, SocketsGood
<1>6. ASSUME NEW u \in Tasks
      PROVE  task'[u] \in TaskType /\ HandlerGood(task'[u], server, retries)
  <2>1. task[u] \in TaskType /\ HandlerGood(task[u], server, retries)
    BY DEF Truth, TasksGood
  <2>2. CASE u = t
    <3> DEFINE c == [task[u] EXCEPT !.pc = "save"]
    <3>1. c \in TaskType /\ c.pc = "save" /\ c.job = task[u].job /\ c.list = task[u].list
      BY <2>1 DEF TaskType
    <3>2. task'[u] = c
      BY <1>1, <2>2
    <3> HIDE DEF c
    <3>3. HandlerGood(c, server, retries)
      BY <1>3, <2>1, <2>2, <3>1 DEF HandlerGood
    <3> QED
      BY <3>1, <3>2, <3>3
  <2>3. CASE u # t /\ task[u].pc = "told" /\ task[u].job \in renewed
    <3> DEFINE c == [task[u] EXCEPT !.job = NoJob]
    <3>1. c \in TaskType /\ c.pc = "told" /\ c.list = task[u].list
      BY <2>1, <2>3 DEF TaskType
    <3>2. task'[u] = c
      BY <1>1, <2>3
    <3> HIDE DEF c
    <3>3. HandlerGood(c, server, retries)
      BY <2>1, <3>1 DEF HandlerGood
    <3> QED
      BY <3>1, <3>2, <3>3
  <2>4. CASE u # t /\ ~ (task[u].pc = "told" /\ task[u].job \in renewed)
    <3>1. task'[u] = task[u]
      BY <1>1, <2>4
    <3> QED
      BY <2>1, <3>1
  <2> QED
    BY <2>2, <2>3, <2>4
<1>7. TasksGood'
  BY <1>1, <1>6 DEF TasksGood
<1>8. StartsGood'
  BY <1>1, <1>2, StartsLater DEF Truth
<1> QED
  BY <1>1, <1>2, <1>5, <1>7, <1>8, Parts DEF Truth, RestGood

\* A poll finds jobs to reconcile, or none.
LEMMA GatherGood ==
  ASSUME Truth, NEW t \in Tasks, Gather(t)
  PROVE  Truth'
<1> DEFINE found == ActiveOf(recentJobs)
<1>1. UNCHANGED <<server, retries, lists, sockets, claimed, faults, stops>>
  BY DEF Gather, outside, ledger
<1>2. CASE found = <<>>
  <2>1. Go(t, IdleTask) /\ polling' \in BOOLEAN
    <3>1. Finish(t)
      BY <1>2 DEF Gather
    <3> QED
      BY <3>1 DEF Finish, Truth, RestGood, HasActive, IsActive
  <2>2. World' /\ Forward
    BY <1>1, SameWorld DEF Truth
  <2>3. TasksGood'
    BY <2>1, <2>2, IdleGood, TasksStep DEF Truth
  <2>4. ListsGood' /\ SocketsGood' /\ StartsGood'
    BY <1>1, <2>2, ListsLater, SocketsLater, StartsLater DEF Truth, sockets
  <2> QED
    BY <1>1, <2>1, <2>2, <2>3, <2>4, Parts DEF Truth, RestGood
<1>3. CASE found # <<>>
  <2> DEFINE c == [task[t] EXCEPT !.pc = "fetch", !.list = found]
  <2>1. Go(t, c) /\ UNCHANGED polling
    BY <1>3 DEF Gather, loop
  <2>2. Honest(found, server, retries) /\ found \in Lists
    BY ActiveOfHonest, ListsAre DEF Truth, Honest
  <2>3. task[t] \in TaskType
    BY DEF Truth, TasksGood
  <2> HIDE DEF found
  <2>4. c \in TaskType /\ c.pc = "fetch" /\ c.list = found
    BY <2>2, <2>3 DEF TaskType
  <2> HIDE DEF c
  <2>5. HandlerGood(c, server, retries)
    BY <1>3, <2>2, <2>4 DEF HandlerGood
  <2> QED
    BY <1>1, <2>1, <2>5, OnlyTask
<1> QED
  BY <1>2, <1>3

\* The server answers with what it has.
LEMMA FetchGood ==
  ASSUME Truth, NEW t \in Tasks, Fetch(t)
  PROVE  Truth'
<1> DEFINE k == Head(task[t].list).job
           c == [task[t] EXCEPT !.pc = "fetched", !.got = server[k]]
<1>1. /\ Go(t, c) /\ task[t].pc = "fetch"
      /\ UNCHANGED <<server, retries, lists, sockets, claimed, polling, faults, stops>>
  BY DEF Fetch, At, outside, ledger, loop
<1>2. task[t] \in TaskType /\ HandlerGood(task[t], server, retries)
  BY DEF Truth, TasksGood
<1>3. task[t].list # <<>> /\ Known(server, k)
  BY <1>1, <1>2, HeadFair DEF HandlerGood, Fair
<1>4. server[k] \in Status
  BY <1>3 DEF Truth, World, Known
<1>5. c \in TaskType /\ c.pc = "fetched" /\ c.got = server[k] /\ c.list = task[t].list
  BY <1>2, <1>4 DEF TaskType
<1> HIDE DEF c
<1>6. HandlerGood(c, server, retries)
  BY <1>2, <1>3, <1>5 DEF HandlerGood, Over
<1> QED
  BY <1>1, <1>6, OnlyTask

\* The answer is merged over the record of before.
LEMMA FetchedGood ==
  ASSUME Truth, NEW t \in Tasks, Fetched(t)
  PROVE  Truth'
<1> DEFINE job == Head(task[t].list)
           merged == MergeJob(job.job, task[t].got, job.sent)
           c == [task[t] EXCEPT !.pc = "save", !.job = job.job]
<1>1. /\ Go(t, c) /\ task[t].pc = "fetched" /\ Save(t, Upsert(recentJobs, merged), socket)
      /\ UNCHANGED <<server, retries, tickets, again, claimed, polling, faults, stops>>
  BY DEF Fetched, At, outside, loop
<1>2. World' /\ Forward
  BY <1>1, SameWorld DEF Truth
<1>3. task[t] \in TaskType /\ HandlerGood(task[t], server, retries)
  BY DEF Truth, TasksGood
<1>4. /\ job \in Record /\ Known(server, job.job)
      /\ task[t].got = "ended" => Over(server, retries, job.job)
  BY <1>1, <1>3, HeadFair DEF HandlerGood, Fair
<1>5. Fair(merged, server, retries)
  BY <1>3, <1>4 DEF Fair, MergeJob, Record, TaskType
<1>6. c \in TaskType /\ c.pc = "save" /\ c.job = job.job /\ c.list = task[t].list
  BY <1>3, <1>4 DEF TaskType, Known
<1> HIDE DEF merged, c
<1>7. HandlerGood(c, server', retries')
  <2>1. HandlerGood(c, server, retries)
    BY <1>3, <1>4, <1>6 DEF HandlerGood
  <2> QED
    BY <1>2, <2>1, HandlerLater DEF Forward
<1>8. ListsGood' /\ SocketsGood'
  <2>1. Honest(Upsert(recentJobs, merged), server, retries)
    BY <1>5, HonestUpsert DEF Truth, ListsGood
  <2> QED
    BY <1>1, <2>1, SaveGood DEF Truth, SocketsGood
<1>9. TasksGood' /\ StartsGood'
  BY <1>1, <1>2, <1>7, TasksStep, StartsLater DEF Truth
<1> QED
  BY <1>1, <1>2, <1>8, <1>9, Parts DEF Truth, RestGood

\* A lost answer leaves no trace in the lists.
LEMMA LostGood ==
  ASSUME Truth, NEW t \in Tasks, Lost(t)
  PROVE  Truth'
<1>1. /\ UNCHANGED <<server, retries, lists, claimed, socket, active, tickets, again, stops>>
      /\ faults' \in 0 .. MaxFaults
  BY FaultCounted DEF Lost, outside, ledger, sockets, Truth, RestGood
<1>2. World' /\ Forward
  BY <1>1, SameWorld DEF Truth
<1>3. TasksGood' /\ polling' \in BOOLEAN
  <2>1. CASE Go(t, IdleTask) /\ UNCHANGED loop
    BY <1>2, <2>1, IdleGood, TasksStep DEF loop, Truth, RestGood
  <2>2. CASE Proceed(t)
    BY <1>2, <2>2, ProceedGood DEF Truth
  <2> QED
    BY <2>1, <2>2 DEF Lost
<1>4. ListsGood' /\ SocketsGood' /\ StartsGood'
  BY <1>1, <1>2, ListsLater, SocketsLater, StartsLater DEF Truth
<1> QED
  BY <1>1, <1>2, <1>3, <1>4, Parts DEF Truth, RestGood

\* A free socket, and the socket of a known job as it is opened, are good.
LEMMA FreshSockets ==
  ASSUME NEW sv, NEW rt
  PROVE  /\ FreeSocket \in SocketType /\ SocketGood(FreeSocket, sv, rt)
         /\ \A j \in Jobs : Known(sv, j) =>
                LET x == [FreeSocket EXCEPT !.job = j, !.state = "open"]
                IN  x \in SocketType /\ SocketGood(x, sv, rt) /\ x.job = j
<1>1. <<>> \in BoundedSeq(Status, 3) /\ DOMAIN <<>> = {} /\ Len(<<>>) <= 1
  <2>1. <<>> \in Seq(Status) /\ Len(<<>>) = 0 /\ DOMAIN <<>> = {}
    OBVIOUS
  <2>2. Len(<<>>) <= 3 /\ Len(<<>>) <= 1
    BY <2>1
  <2> QED
    BY <2>1, <2>2, MessagesAre
<1>2. SocketGood(FreeSocket, sv, rt) /\ FreeSocket \in SocketType
  BY <1>1, ConstantsOK DEF FreeSocket, SocketGood, SocketType
<1>3. ASSUME NEW j \in Jobs, Known(sv, j)
      PROVE  LET x == [FreeSocket EXCEPT !.job = j, !.state = "open"]
             IN  x \in SocketType /\ SocketGood(x, sv, rt) /\ x.job = j
  <2> DEFINE x == [FreeSocket EXCEPT !.job = j, !.state = "open"]
  <2>1. /\ x \in SocketType /\ x.job = j /\ x.state = "open" /\ x.messages = <<>>
        /\ x.last = "none"
    BY <1>1 DEF FreeSocket, SocketType
  <2> HIDE DEF x
  <2>2. SocketGood(x, sv, rt)
    BY <1>1, <1>3, <2>1, ConstantsOK DEF SocketGood
  <2> QED
    BY <2>1, <2>2 DEF x
<1> QED
  BY <1>2, <1>3

\* One socket becomes x, and the map of the sockets may change for one job.
LEMMA SocketStep ==
  ASSUME SocketsGood, UNCHANGED <<server, retries>>, NEW s \in Sockets, NEW x,
         socket' = [socket EXCEPT ![s] = x], SocketGood(x, server, retries),
         active' \in [Jobs -> Sockets \cup {NoSocket}],
         \A j \in Jobs : \/ active'[j] = NoSocket
                         \/ active'[j] = s /\ x.job = j
                         \/ active'[j] = active[j] /\ active[j] # s
  PROVE  SocketsGood'
<1>1. /\ socket' \in [Sockets -> SocketType]
      /\ \A y \in Sockets : socket'[y] = IF y = s THEN x ELSE socket[y]
  BY DEF SocketsGood, SocketGood
<1>2. \A y \in Sockets : SocketGood(socket'[y], server, retries)
  BY <1>1 DEF SocketsGood
<1>3. \A j \in Jobs : active'[j] # NoSocket => socket'[active'[j]].job = j
  BY <1>1 DEF SocketsGood
<1> QED
  BY <1>1, <1>2, <1>3 DEF SocketsGood

\* A step that leaves lists and handlers alone.
LEMMA OnlySockets ==
  ASSUME Truth, SocketsGood', StartsGood', faults' \in 0 .. MaxFaults,
         UNCHANGED <<server, retries, lists, task, claimed, polling, stops>>
  PROVE  Truth'
<1>1. World' /\ Forward
  BY SameWorld DEF Truth
<1>2. ListsGood' /\ TasksGood'
  BY <1>1, ListsLater, TasksLater DEF Truth
<1> QED
  BY <1>1, <1>2, Parts DEF Truth, RestGood

\* A socket of the job is opened, or there is no ticket for it.
LEMMA TicketGood ==
  ASSUME Truth, NEW j \in Jobs, Ticket(j)
  PROVE  Truth'
<1>1. /\ tickets[j] > 0 /\ tickets' = [tickets EXCEPT ![j] = @ - 1]
      /\ UNCHANGED <<server, retries, lists, task, claimed, again, polling, stops>>
  BY DEF Ticket, outside, ledger, loop
<1>2. Known(server, j)
  BY <1>1 DEF Truth, StartsGood
<1>3. StartsGood'
  <2>1. tickets[j] \in 0 .. 2 /\ tickets[j] - 1 \in 0 .. 2
    BY <1>1 DEF Truth, StartsGood
  <2>2. \A k \in Jobs : tickets'[k] > 0 => Known(server, k)
    BY <1>1, <1>2 DEF Truth, StartsGood
  <2>3. tickets' \in [Jobs -> 0 .. 2]
    BY <1>1, <2>1 DEF Truth, StartsGood
  <2> QED
    BY <1>1, <2>2, <2>3 DEF Truth, StartsGood
<1>4. SocketsGood' /\ faults' \in 0 .. MaxFaults
  <2>1. ASSUME NEW s \in Sockets, socket[s].state = "free",
               socket' = [socket EXCEPT ![s] = [FreeSocket EXCEPT !.job = j, !.state = "open"]],
               active' = [active EXCEPT ![j] = s], UNCHANGED faults
        PROVE  SocketsGood' /\ faults' \in 0 .. MaxFaults
    <3> DEFINE x == [FreeSocket EXCEPT !.job = j, !.state = "open"]
    <3>1. SocketGood(x, server, retries) /\ x.job = j
      BY <1>2, FreshSockets
    <3>2. socket' = [socket EXCEPT ![s] = x]
      BY <2>1
    <3> HIDE DEF x
    <3>3. active' \in [Jobs -> Sockets \cup {NoSocket}]
      BY <2>1 DEF Truth, SocketsGood
    <3>4. socket[s].job = NoJob
      BY <2>1 DEF Truth, SocketsGood, SocketGood
    <3>5. \A k \in Jobs : active[k] # s
      BY <3>4, ConstantsOK DEF Truth, SocketsGood
    <3>6. \A k \in Jobs : active'[k] = IF k = j THEN s ELSE active[k]
      BY <2>1 DEF Truth, SocketsGood
    <3> QED
      BY <1>1, <2>1, <3>1, <3>2, <3>3, <3>5, <3>6, SocketStep DEF Truth, RestGood
  <2>2. CASE Fault /\ UNCHANGED <<socket, active>>
    BY <1>1, <2>2, FaultCounted, SameWorld, SocketsLater DEF Truth, RestGood
  <2> QED
    BY <2>1, <2>2 DEF Ticket
<1> QED
  BY <1>1, <1>3, <1>4, OnlySockets

\* One or two more messages than one at most.
LEMMA MessagesMore ==
  ASSUME NEW m \in BoundedSeq(Status, 3), Len(m) <= 1, NEW v \in Status,
         NEW w \in {<<v>>, <<v, v>>}
  PROVE  /\ m \o w \in BoundedSeq(Status, 3)
         /\ m = <<>> => Len(m \o <<v>>) <= 1
         /\ \A n \in DOMAIN (m \o w) : (m \o w)[n] = v \/ (n \in DOMAIN m /\ (m \o w)[n] = m[n])
<1> DEFINE k == Len(m)
           i == Len(w)
<1>1. m \in Seq(Status) /\ k \in Nat
  BY MessagesAre
<1>2. w \in Seq(Status) /\ i \in {1, 2} /\ \A n \in 1 .. i : w[n] = v
  <2>1. <<v>> \in Seq(Status) /\ Len(<<v>>) = 1 /\ \A n \in 1 .. 1 : <<v>>[n] = v
    OBVIOUS
  <2>2. <<v, v>> \in Seq(Status) /\ Len(<<v, v>>) = 2 /\ \A n \in 1 .. 2 : <<v, v>>[n] = v
    OBVIOUS
  <2> QED
    BY <2>1, <2>2
<1>3. /\ m \o w \in Seq(Status) /\ Len(m \o w) = k + i
      /\ DOMAIN (m \o w) = 1 .. k + i /\ DOMAIN m = 1 .. k
      /\ \A n \in 1 .. k + i : (m \o w)[n] = IF n <= k THEN m[n] ELSE w[n - k]
  BY <1>1, <1>2
<1>4. m = <<>> => Len(m \o <<v>>) <= 1
  OBVIOUS
<1>5. k <= 1
  OBVIOUS
<1> HIDE DEF k, i
<1>6. \A n \in 1 .. k + i : n \in 1 .. k \/ (~ n <= k /\ n - k \in 1 .. i)
  BY <1>1, <1>2
<1>7. k + i <= 3
  BY <1>1, <1>2, <1>5
<1>8. m \o w \in BoundedSeq(Status, 3)
  BY <1>3, <1>7, MessagesAre
<1>9. \A n \in 1 .. k : n <= k
  BY <1>1
<1>10. \A n \in 1 .. k + i : (m \o w)[n] = v \/ (n \in 1 .. k /\ (m \o w)[n] = m[n])
  BY <1>2, <1>3, <1>6, <1>9
<1> QED
  BY <1>3, <1>4, <1>8, <1>10

\* The server sends the status it has.
LEMMA SendGood ==
  ASSUME Truth, NEW s \in Sockets, Send(s)
  PROVE  Truth'
<1> DEFINE status == server[socket[s].job]
           more == IF status = "ended" /\ socket[s].last # "none"
                   THEN <<status, status>> ELSE <<status>>
           x == [socket[s] EXCEPT !.messages = @ \o more, !.last = status]
<1>1. /\ socket[s].state = "open" /\ socket[s].last # "ended"
      /\ status # "ended" => socket[s].messages = <<>>
      /\ socket' = [socket EXCEPT ![s] = x]
      /\ UNCHANGED <<server, retries, lists, task, claimed, active, tickets, again, polling,
                     faults, stops>>
  BY DEF Send, outside, ledger, loop
<1>2. socket[s] \in SocketType /\ SocketGood(socket[s], server, retries)
  BY DEF Truth, SocketsGood
<1>3. socket[s].job \in Jobs /\ Known(server, socket[s].job)
  BY <1>1, <1>2 DEF SocketGood, SocketType
<1>4. status \in Status
  BY <1>3 DEF Truth, World, Known
<1>5. socket[s].messages \in BoundedSeq(Status, 3) /\ Len(<<>>) <= 1
  BY <1>2 DEF SocketType
<1>6. Len(socket[s].messages) <= 1
  <2>1. socket[s].last \in {"none", "active"}
    BY <1>1, <1>2 DEF SocketType, Status
  <2> QED
    BY <1>2, <1>5, <2>1 DEF SocketGood
<1>7. more \in {<<status>>, <<status, status>>}
  OBVIOUS
<1>8. status # "ended" => more = <<status>> /\ socket[s].messages = <<>>
  BY <1>1, <1>2, <1>4 DEF SocketGood, SocketType, Status
<1> HIDE DEF more
<1>9. /\ x \in SocketType /\ x.job = socket[s].job /\ x.state = "open" /\ x.last = status
      /\ x.messages = socket[s].messages \o more
  <2>1. socket[s].messages \o more \in BoundedSeq(Status, 3)
    BY <1>4, <1>5, <1>6, <1>7, MessagesMore
  <2> QED
    BY <1>1, <1>2, <1>4, <2>1 DEF SocketType
<1> HIDE DEF x
<1>10. SocketGood(x, server, retries)
  <2>1. \A n \in DOMAIN x.messages :
            \/ x.messages[n] = status
            \/ n \in DOMAIN socket[s].messages /\ x.messages[n] = socket[s].messages[n]
    <3> DEFINE m == socket[s].messages
    <3>1. m \in BoundedSeq(Status, 3) /\ Len(m) <= 1
      BY <1>5, <1>6
    <3> HIDE DEF m, status
    <3>2. \A n \in DOMAIN (m \o more) :
              (m \o more)[n] = status \/ (n \in DOMAIN m /\ (m \o more)[n] = m[n])
      BY <1>4, <1>7, <3>1, MessagesMore
    <3>3. x.messages = m \o more
      BY <1>9 DEF m
    <3>4. \A n \in DOMAIN x.messages :
              x.messages[n] = status \/ (n \in DOMAIN m /\ x.messages[n] = m[n])
      BY <3>2, <3>3
    <3> QED
      BY <3>4 DEF m
  <2>2. \A n \in DOMAIN x.messages : x.messages[n] = "ended" => Over(server, retries, x.job)
    BY <1>2, <1>9, <2>1 DEF SocketGood, Over
  <2>3. x.last = "active" => Len(x.messages) <= 1
    BY <1>4, <1>5, <1>6, <1>7, <1>8, <1>9, MessagesMore
  <2>4. x.last # "none"
    BY <1>4, <1>9 DEF Status
  <2> QED
    BY <1>3, <1>9, <2>2, <2>3, <2>4, ConstantsOK DEF SocketGood
<1>11. SocketsGood'
  <2>1. \A j \in Jobs : active[j] = s => x.job = j
    BY <1>9, ConstantsOK DEF Truth, SocketsGood
  <2>2. active' \in [Jobs -> Sockets \cup {NoSocket}]
    BY <1>1 DEF Truth, SocketsGood
  <2>3. \A j \in Jobs : \/ active'[j] = NoSocket
                        \/ active'[j] = s /\ x.job = j
                        \/ active'[j] = active[j] /\ active[j] # s
    BY <1>1, <2>1
  <2> QED
    BY <1>1, <1>10, <2>2, <2>3, SocketStep DEF Truth
<1>12. StartsGood' /\ faults' \in 0 .. MaxFaults
  BY <1>1, SameWorld, StartsLater DEF Truth, RestGood
<1> QED
  BY <1>1, <1>11, <1>12, OnlySockets

\* A socket is gone, with the entry of its job.
LEMMA GoneGood ==
  ASSUME SocketsGood, UNCHANGED <<server, retries>>, NEW s \in Sockets,
         socket[s].state # "free", Gone(s)
  PROVE  SocketsGood' /\ Known(server, socket[s].job)
<1>1. socket[s].job \in Jobs /\ Known(server, socket[s].job)
  BY DEF SocketsGood, SocketGood, SocketType
<1>2. /\ active' \in [Jobs -> Sockets \cup {NoSocket}]
      /\ \A j \in Jobs : active'[j] = IF j = socket[s].job THEN NoSocket ELSE active[j]
  BY <1>1 DEF Gone, SocketsGood
<1>3. \A j \in Jobs : active[j] = s => j = socket[s].job
  BY ConstantsOK DEF SocketsGood
<1>4. socket' = [socket EXCEPT ![s] = FreeSocket] /\ SocketGood(FreeSocket, server, retries)
  BY FreshSockets DEF Gone
<1>5. \A j \in Jobs : active'[j] = NoSocket \/ (active'[j] = active[j] /\ active[j] # s)
  BY <1>2, <1>3
<1>6. SocketsGood'
  BY <1>2, <1>4, <1>5, SocketStep
<1> QED
  BY <1>1, <1>6

\* A socket is closed.
LEMMA ClosedGood ==
  ASSUME Truth, NEW s \in Sockets, Closed(s)
  PROVE  Truth'
<1>1. /\ Gone(s) /\ socket[s].state # "free"
      /\ UNCHANGED <<server, retries, lists, task, claimed, tickets, again, polling, faults, stops>>
  BY DEF Closed, outside, ledger, loop
<1>2. SocketsGood'
  BY <1>1, GoneGood DEF Truth
<1>3. StartsGood' /\ faults' \in 0 .. MaxFaults
  BY <1>1, SameWorld, StartsLater DEF Truth, RestGood
<1> QED
  BY <1>1, <1>2, <1>3, OnlySockets

\* A connection breaks; the timer is for a job of the server's.
LEMMA BrokenGood ==
  ASSUME Truth, NEW s \in Sockets, Broken(s)
  PROVE  Truth'
<1>1. /\ Gone(s) /\ socket[s].state # "free" /\ Fault
      /\ again' \subseteq again \cup {socket[s].job}
      /\ UNCHANGED <<server, retries, lists, task, claimed, tickets, polling, stops>>
  BY DEF Broken, outside, ledger, loop
<1>2. SocketsGood' /\ Known(server, socket[s].job)
  BY <1>1, GoneGood DEF Truth
<1>3. StartsGood'
  BY <1>1, <1>2 DEF Truth, StartsGood
<1>4. faults' \in 0 .. MaxFaults
  BY <1>1, FaultCounted DEF Truth, RestGood
<1> QED
  BY <1>1, <1>2, <1>3, <1>4, OnlySockets

\* The timer starts a socket.
LEMMA AgainGood ==
  ASSUME Truth, NEW j \in Jobs, Again(j)
  PROVE  Truth'
<1>1. /\ j \in again /\ again' = again \ {j} /\ Start(j)
      /\ UNCHANGED <<server, retries, lists, task, claimed, socket, active, polling, faults, stops>>
  BY DEF Again, outside, ledger, loop
<1>2. SocketsGood' /\ faults' \in 0 .. MaxFaults
  BY <1>1, SameWorld, SocketsLater DEF Truth, RestGood
<1>3. StartsGood'
  <2>1. Known(server, j)
    BY <1>1 DEF Truth, StartsGood
  <2> QED
    BY <1>1, <2>1, StartGood DEF Truth
<1> QED
  BY <1>1, <1>2, <1>3, OnlySockets

\* What is in memory is gone; the storage's list is honest.
LEMMA RestartGood ==
  ASSUME Truth, NEW t \in Tasks, Restart(t)
  PROVE  Truth'
<1> DEFINE boot == [IdleTask EXCEPT !.op = "poll", !.pc = "load", !.list = stored]
<1>1. /\ UNCHANGED <<server, retries, stored, faults>>
      /\ recentJobs' = <<>> /\ claimed' = {} /\ polling' = FALSE
      /\ task' = [u \in Tasks |-> IF u = t THEN boot ELSE IdleTask]
      /\ socket' = [s \in Sockets |-> FreeSocket]
      /\ active' = [j \in Jobs |-> NoSocket]
      /\ tickets' = [j \in Jobs |-> 0] /\ again' = {}
      /\ stops < MaxStops /\ stops' = stops + 1
  BY DEF Restart
<1>2. World' /\ Forward
  BY <1>1, SameWorld DEF Truth
<1>3. ListsGood'
  BY <1>1, HonestEmpty DEF Truth, ListsGood
<1>4. TasksGood'
  <2>1. Honest(stored, server, retries) /\ stored \in Lists
    BY ListsAre DEF Truth, ListsGood, Honest
  <2>2. boot \in TaskType /\ boot.pc = "load" /\ boot.op = "poll" /\ boot.list = stored
    <3>1. IdleTask \in TaskType
      BY IdleGood DEF HandlerGood
    <3> QED
      BY <2>1, <3>1 DEF TaskType
  <2> HIDE DEF boot
  <2>3. HandlerGood(boot, server, retries)
    BY <2>1, <2>2 DEF HandlerGood, Commands
  <2>4. HandlerGood(IdleTask, server, retries) /\ IdleTask \in TaskType
    BY IdleGood DEF HandlerGood
  <2> QED
    BY <1>1, <2>2, <2>3, <2>4 DEF TasksGood
<1>5. SocketsGood'
  BY <1>1, FreshSockets DEF SocketsGood
<1>6. StartsGood'
  BY <1>1 DEF StartsGood
<1>7. stops' \in 0 .. MaxStops
  BY <1>1, ConstantsOK DEF Truth, RestGood
<1> QED
  BY <1>1, <1>2, <1>3, <1>4, <1>5, <1>6, <1>7, Parts DEF Truth, RestGood

-----------------------------------------------------------------------------
(* The theorems *)

\* Initially nothing is claimed, told or in progress.
LEMMA InitInv == Init => Inv
<1> SUFFICES ASSUME Init PROVE Inv
  OBVIOUS
<1>1. \A t \in Tasks : /\ DOMAIN task[t] = Fields
                       /\ task[t].pc = "idle" /\ task[t].op = "none"
  BY IdleShape DEF Init
<1>2. Shape
  <2>1. replies \in Seq(Tasks) /\ DOMAIN task = Tasks
    BY DEF Init
  <2>2. told \in [Jobs -> Nat] /\ stops \in Nat /\ inFlight \in BOOLEAN
    BY DEF Init
  <2> QED
    BY <1>1, <2>1, <2>2 DEF Shape
<1>3. ToldOncePerLife /\ Claims
  BY <1>1 DEF Init, ToldOncePerLife, Claims, Pending
<1>4. Flag
  BY <1>1 DEF Init, Flag, Ticking
<1> QED
  BY <1>2, <1>3, <1>4 DEF Inv

\* Every step keeps the invariant.
LEMMA NextInv == Inv /\ [Next]_vars => Inv'
<1> SUFFICES ASSUME Inv, [Next]_vars PROVE Inv'
  OBVIOUS
<1>1. CASE Reply
  BY <1>1, ReplyKeeps
<1>2. ASSUME NEW t \in Tasks, Poll(t) \/ Look(t)
      PROVE  Inv'
  BY <1>2, BeginKeeps DEF Poll, Look
<1>3. ASSUME NEW t \in Tasks, NEW j \in Jobs, Queue(t, j) \/ Cancel(t, j) \/ Retry(t, j)
      PROVE  Inv'
  BY <1>3, BeginKeeps DEF Queue, Cancel, Retry
<1>4. ASSUME NEW t \in Tasks, Tick(t) \/ \E s \in Sockets : Message(t, s)
      PROVE  Inv'
  BY <1>4, TickKeeps, MessageKeeps
<1>5. ASSUME NEW t \in Tasks, Accept(t) \/ Refuse(t) \/ Answered(t)
      PROVE  Inv'
  BY <1>5, AcceptKeeps, RefuseKeeps, AnsweredKeeps
<1>6. ASSUME NEW t \in Tasks, Gather(t) \/ Fetch(t) \/ Fetched(t)
      PROVE  Inv'
  BY <1>6, GatherKeeps, FetchKeeps, FetchedKeeps
<1>7. ASSUME NEW t \in Tasks, Lost(t) \/ Restart(t)
      PROVE  Inv'
  BY <1>7, LostKeeps, RestartKeeps
<1>8. CASE \/ \E j \in Jobs : Ticket(j) \/ Again(j) \/ End(j)
           \/ \E s \in Sockets : Send(s) \/ Closed(s) \/ Broken(s)
  BY <1>8, SocketsKeep
<1>9. CASE UNCHANGED vars
  BY <1>9, Still DEF vars
<1> QED
  BY <1>1, <1>2, <1>3, <1>4, <1>5, <1>6, <1>7, <1>8, <1>9 DEF Next

\* Inv holds in every state.
LEMMA Invariant == Spec => []Inv
BY InitInv, NextInv, PTL DEF Spec

\* Initially the lists are empty.
LEMMA InitTruth == Init => Truth
<1> SUFFICES ASSUME Init PROVE Truth
  OBVIOUS
<1>1. World /\ RestGood
  <2>1. 0 \in 0 .. MaxRetries /\ 0 \in 0 .. MaxFaults /\ 0 \in 0 .. MaxStops
    BY ConstantsOK
  <2>2. World
    BY <2>1 DEF Init, World
  <2>3. RestGood
    BY <2>1 DEF Init, RestGood
  <2> QED
    BY <2>2, <2>3
<1>2. ListsGood
  BY HonestEmpty DEF Init, ListsGood
<1>3. TasksGood
  BY IdleGood DEF Init, TasksGood, HandlerGood
<1>4. SocketsGood
  BY FreshSockets DEF Init, SocketsGood
<1>5. StartsGood
  BY DEF Init, StartsGood
<1> QED
  BY <1>1, <1>2, <1>3, <1>4, <1>5 DEF Truth

\* Every step keeps what is true of the lists.
LEMMA NextTruth == Inv /\ Truth /\ [Next]_vars => Truth'
<1> SUFFICES ASSUME Inv, Truth, [Next]_vars PROVE Truth'
  OBVIOUS
<1>1. CASE Reply
  BY <1>1, ReplyGood
<1>2. ASSUME NEW t \in Tasks, Poll(t) \/ Look(t)
      PROVE  Truth'
  BY <1>2, BeginGood DEF Poll, Look, Commands
<1>3. ASSUME NEW t \in Tasks, NEW j \in Jobs, Queue(t, j) \/ Cancel(t, j) \/ Retry(t, j)
      PROVE  Truth'
  BY <1>3, BeginGood DEF Queue, Cancel, Retry, Commands
<1>4. ASSUME NEW t \in Tasks, Tick(t) \/ \E s \in Sockets : Message(t, s)
      PROVE  Truth'
  BY <1>4, TickGood, MessageGood
<1>5. ASSUME NEW t \in Tasks, Accept(t) \/ Refuse(t) \/ Answered(t)
      PROVE  Truth'
  BY <1>5, AcceptGood, RefuseGood, AnsweredGood
<1>6. ASSUME NEW t \in Tasks, Gather(t) \/ Fetch(t) \/ Fetched(t)
      PROVE  Truth'
  BY <1>6, GatherGood, FetchGood, FetchedGood
<1>7. ASSUME NEW t \in Tasks, Lost(t) \/ Restart(t)
      PROVE  Truth'
  BY <1>7, LostGood, RestartGood
<1>8. ASSUME NEW j \in Jobs, Ticket(j) \/ Again(j) \/ End(j)
      PROVE  Truth'
  BY <1>8, TicketGood, AgainGood, EndGood
<1>9. ASSUME NEW s \in Sockets, Send(s) \/ Closed(s) \/ Broken(s)
      PROVE  Truth'
  BY <1>9, SendGood, ClosedGood, BrokenGood
<1>10. CASE UNCHANGED vars
  BY <1>10, OnlySockets, SameWorld, SocketsLater, StartsLater
     DEF vars, sockets, lists, ledger, loop, Truth, RestGood
<1> QED
  BY <1>1, <1>2, <1>3, <1>4, <1>5, <1>6, <1>7, <1>8, <1>9, <1>10 DEF Next

\* Truth holds in every state.
LEMMA Truthful == Spec => []Truth
<1>1. Inv /\ Truth /\ [Next]_vars => Truth'
  BY NextTruth
<1> QED
  BY <1>1, InitTruth, Invariant, PTL DEF Spec

\* However handlers, sockets and ticks overlap, the end of a job is notified at
\* most once between two of its retries, and once more for each stop of the
\* service worker.
THEOREM TellsOncePerLife == Spec => []ToldOncePerLife
<1>1. Inv => ToldOncePerLife
  BY DEF Inv
<1> QED
  BY <1>1, Invariant, PTL

\* reconcileInFlight is set exactly while a tick is in progress: whatever fails,
\* polling does not stay switched off.
THEOREM FlagIsAlwaysTick == Spec => []FlagIsTick
<1>1. Inv => FlagIsTick
  BY DEF Inv, Shape, Flag, Ticking, FlagIsTick
<1> QED
  BY <1>1, Invariant, PTL

\* The lists, in memory and in the storage, never show an end that the server
\* has not reached, except one of before a retry: no lost or late answer, refused
\* command, stale record or message of a socket makes one up.
THEOREM EndsAreReal == Spec => []EndIsReal
<1>1. Truth => EndIsReal
  <2> SUFFICES ASSUME Truth, NEW l \in {recentJobs, stored}, NEW r \in ToSet(l),
                      r.status = "ended", retries[r.job] = 0
               PROVE  server[r.job] = "ended"
    BY DEF EndIsReal
  <2>1. Fair(r, server, retries)
    BY DEF Truth, ListsGood, Honest, ToSet
  <2> QED
    BY <2>1 DEF Fair, Over
<1> QED
  BY <1>1, Truthful, PTL

\* Every variable has its type; in particular a list has one record for a job
\* and no more than MAX_RECENT_JOBS of them.
THEOREM TypeCorrect == Spec => []TypeOK
<1>1. Inv /\ Truth => TypeOK
  <2> SUFFICES ASSUME Inv, Truth PROVE TypeOK
    OBVIOUS
  <2>1. \A l \in {recentJobs, stored} : l \in Lists /\ \A m, n \in DOMAIN l :
            l[m].job = l[n].job => m = n
    BY ListsAre DEF Truth, ListsGood, Honest
  <2>2. again \subseteq Jobs
    BY DEF Truth, StartsGood, Known
  <2>3. replies \in Seq(Tasks) /\ told \in [Jobs -> Nat] /\ inFlight \in BOOLEAN
    BY DEF Inv, Shape
  <2> QED
    BY <2>1, <2>2, <2>3 DEF TypeOK, Truth, World, TasksGood, SocketsGood, StartsGood, RestGood
<1> QED
  BY <1>1, Invariant, Truthful, PTL
=============================================================================
