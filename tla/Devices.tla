------------------------------ MODULE Devices ------------------------------
(***************************************************************************)
(* Browsers paired with a ReelDock server: pairing codes and device rows   *)
(* in the database (app/services/pairing.py), one-use WebSocket tickets,   *)
(* revocation marks and the counter of failed attempts in Redis            *)
(* (app/services/ws_tickets.py), the sockets that poll a job               *)
(* (app/routes/ws.py) and the token one browser keeps                      *)
(* (browser-extension/src/pairing.js).                                     *)
(*                                                                         *)
(* One web process serves all requests from one event loop, so a handler   *)
(* without an await is one step; the check of a device token runs in a     *)
(* thread before its handler and is a step of its own.  A socket is a      *)
(* coroutine, cut where it awaits.  One source address makes the attempts. *)
(***************************************************************************)
EXTENDS Integers, FiniteSets

CONSTANTS
    Codes,     \* pairing codes in the table at once
    Devices,   \* device rows that are ever created
    Jobs,
    Tickets,   \* tickets that are ever issued; each names the socket it opens
    Requests,  \* requests of the browser under way at once
    Limit,     \* PAIR_RATE_LIMIT
    MaxFaults, \* bound on lost answers, stops of the process, Redis outages
    NoDevice, NoJob

ASSUME ConstantsOK ==
    /\ Limit \in Nat \ {0}
    /\ MaxFaults \in Nat
    /\ NoDevice \notin Devices
    /\ NoJob \notin Jobs

VARIABLES
    code,    \* extension_pairing_codes rows
    device,  \* extension_devices rows
    held,    \* the device whose token the browser has stored
    result,  \* Redis: reeldock:pair:result:<pairing>
    fails,   \* Redis: reeldock:pair:fail:<source>
    fading,  \* that counter has an expiry
    torn,    \* its EXPIRE was lost
    mark,    \* Redis: reeldock:device-revoked:<device>
    unsaid,  \* revoked devices whose mark Redis has not got
    ticket,  \* Redis: reeldock:ws-ticket:<hash>
    req,     \* requests whose token has been accepted, and what they end with
    sock,    \* the socket opened with each ticket
    opened,  \* how many sockets each ticket has opened
    job,     \* what the job a socket follows is doing
    up,      \* Redis answers
    faults

pairVars  == <<code, device, held, result>>
countVars == <<fails, fading, torn>>
markVars  == <<mark, unsaid>>
sockVars  == <<sock, opened>>
vars == <<pairVars, countVars, markVars, ticket, req, sockVars, job, up, faults>>

AnyDevice == Devices \cup {NoDevice}

CodeType   == [state : {"none", "live", "expired", "used"}, dev : AnyDevice]
TicketType == [state : {"none", "live", "gone"}, dev : AnyDevice, job : Jobs \cup {NoJob}]
\* "clear": the server has revoked, the browser has its answer.
ReqType    == [kind : {"idle", "ticket", "revoke", "clear"}, dev : AnyDevice]

\* "joining": accepted, the job is being read.  "round": at the top of the
\* loop.  "checked": past the revocation check, the job is being read.
Open   == {"joining", "round", "checked"}
Closed == {"told", "missing", "refused", "dropped"}

TypeOK ==
    /\ code \in [Codes -> CodeType]
    /\ device \in [Devices -> {"none", "live", "revoked"}]
    /\ held \in AnyDevice
    /\ result \in [Codes -> AnyDevice]
    /\ fails \in 0 .. Limit
    /\ fading \in BOOLEAN
    /\ torn \in BOOLEAN
    /\ mark \subseteq Devices
    /\ unsaid \subseteq Devices
    /\ ticket \in [Tickets -> TicketType]
    /\ req \in [Requests -> ReqType]
    /\ sock \in [Tickets -> Open \cup Closed \cup {"none"}]
    /\ opened \in [Tickets -> Nat]
    /\ job \in [Jobs -> {"active", "ended", "deleted"}]
    /\ up \in BOOLEAN
    /\ faults \in 0 .. MaxFaults

NoCode == [state |-> "none", dev |-> NoDevice]
NewCode == [state |-> "live", dev |-> NoDevice]
Idle == [kind |-> "idle", dev |-> NoDevice]

Init ==
    /\ code = [c \in Codes |-> NoCode]
    /\ device = [d \in Devices |-> "none"]
    /\ held = NoDevice
    /\ result = [c \in Codes |-> NoDevice]
    /\ fails = 0 /\ fading = FALSE /\ torn = FALSE
    /\ mark = {} /\ unsaid = {}
    /\ ticket = [t \in Tickets |-> [state |-> "none", dev |-> NoDevice, job |-> NoJob]]
    /\ req = [r \in Requests |-> Idle]
    /\ sock = [t \in Tickets |-> "none"]
    /\ opened = [t \in Tickets |-> 0]
    /\ job = [j \in Jobs |-> "active"]
    /\ up = TRUE
    /\ faults = 0

Fault == faults < MaxFaults /\ faults' = faults + 1

----------------------------------------------------------------------------
\* Pairing codes.

\* Unused codes whose time is over are dropped when a code is made or used.
Purged(codes) ==
    [c \in Codes |-> IF codes[c].state = "expired" THEN NoCode ELSE codes[c]]

CreateCode(c) ==
    /\ code[c].state = "none"
    /\ code' = [Purged(code) EXCEPT ![c] = NewCode]
    /\ UNCHANGED <<device, held, result, countVars, markVars, ticket, req,
                   sockVars, job, up, faults>>

CodeExpires(c) ==
    /\ code[c].state = "live"
    /\ code' = [code EXCEPT ![c].state = "expired"]
    /\ UNCHANGED <<device, held, result, countVars, markVars, ticket, req,
                   sockVars, job, up, faults>>

\* Mutant of Blocked: off by one.
BlockedLate == ~up \/ fails > Limit

\* Without Redis the limiter fails closed.
Blocked == ~up \/ fails >= Limit

\* Mutant of Consumable: consumed_at is not looked at.
ConsumableTwice(c) == code[c].state \in {"live", "used"}

\* The UPDATE with its conditions decides who gets the code.
Consumable(c) == code[c].state = "live"

\* The rows of one pairing, committed together.
PairRows(c, d) ==
    /\ code' = [Purged(code) EXCEPT ![c] = [state |-> "used", dev |-> d]]
    /\ device' = [device EXCEPT ![d] = "live"]

\* A browser keeps one token: pairing once more leaves the old device behind.
AnswerStored(d) == held' = d /\ UNCHANGED faults

\* The code is used all the same.
AnswerLost == Fault /\ UNCHANGED held

Pair(c, d) ==
    /\ ~Blocked
    /\ Consumable(c)
    /\ device[d] = "none"
    /\ PairRows(c, d)
    /\ AnswerStored(d) \/ AnswerLost
    /\ \/ result' = [result EXCEPT ![c] = d]
       \/ faults' # faults /\ UNCHANGED result    \* stopped before Redis was told
    /\ UNCHANGED <<countVars, markVars, ticket, req, sockVars, job, up>>

\* Mutant of CountFailure: the counter gets no expiry.
CountForever ==
    /\ fails' = fails + 1
    /\ UNCHANGED <<fading, torn, faults>>

\* INCR, and for the first failure of a window EXPIRE.
CountFailure ==
    /\ fails' = fails + 1
    /\ \/ /\ fading' = (fading \/ fails = 0)
          /\ UNCHANGED <<torn, faults>>
       \/ \* stopped, or refused, between the two
          /\ fails = 0
          /\ Fault
          /\ torn' = TRUE
          /\ UNCHANGED fading

\* An attempt with a code that is unknown, used, expired or malformed.
PairFails ==
    /\ ~Blocked
    /\ CountFailure
    /\ UNCHANGED <<pairVars, markVars, ticket, req, sockVars, job, up>>

CounterExpires ==
    /\ fading
    /\ fails' = 0
    /\ fading' = FALSE
    /\ UNCHANGED <<torn, pairVars, markVars, ticket, req, sockVars, job, up, faults>>

\* What the web page shows of a pairing: the cached result, else the row.
Shown(c) == IF result[c] # NoDevice THEN result[c] ELSE code[c].dev

ResultExpires(c) ==
    /\ result[c] # NoDevice
    /\ result' = [result EXCEPT ![c] = NoDevice]
    /\ UNCHANGED <<code, device, held, countVars, markVars, ticket, req,
                   sockVars, job, up, faults>>

----------------------------------------------------------------------------
\* Requests with the token, and revocation.

\* Runs in a thread: the handler comes later, whatever happens in between.
Authenticate(r, kind) ==
    /\ req[r].kind = "idle"
    /\ held # NoDevice
    /\ device[held] = "live"
    /\ req' = [req EXCEPT ![r] = [kind |-> kind, dev |-> held]]
    /\ UNCHANGED <<pairVars, countVars, markVars, ticket, sockVars, job, up, faults>>

IssueTicket(r, t, j) ==
    /\ req[r].kind = "ticket"
    /\ up
    /\ ticket[t].state = "none"
    /\ ticket' = [ticket EXCEPT ![t] = [state |-> "live", dev |-> req[r].dev, job |-> j]]
    /\ req' = [req EXCEPT ![r] = Idle]
    /\ UNCHANGED <<pairVars, countVars, markVars, sockVars, job, up, faults>>

\* 503 without Redis; or the answer never comes.
TicketFails(r) ==
    /\ req[r].kind = "ticket"
    /\ ~up
    /\ req' = [req EXCEPT ![r] = Idle]
    /\ UNCHANGED <<pairVars, countVars, markVars, ticket, sockVars, job, up, faults>>

\* The rows first, then Redis, whose refusal is only logged.
RevokeRows(ds) ==
    device' = [d \in Devices |-> IF d \in ds /\ device[d] = "live" THEN "revoked"
                                 ELSE device[d]]

\* Mutant of Publish: the database alone is told.
PublishNothing(ds) == UNCHANGED markVars

Publish(ds) ==
    \/ up  /\ mark' = mark \cup ds /\ unsaid' = unsaid \ ds
    \/ ~up /\ unsaid' = unsaid \cup (ds \ mark) /\ UNCHANGED mark

Revoke(ds) == RevokeRows(ds) /\ Publish(ds)

\* The browser closes its sockets and forgets its token.
ForgetToken ==
    /\ held' = NoDevice
    /\ sock' = [t \in Tickets |-> IF sock[t] \in Open THEN "dropped" ELSE sock[t]]

\* Disconnect: the server first.  If the answer is lost, or the browser stops,
\* the browser keeps a token that is worth nothing.
RevokeMe(r) ==
    /\ req[r].kind = "revoke"
    /\ Revoke({req[r].dev})
    /\ \/ req' = [req EXCEPT ![r].kind = "clear"] /\ UNCHANGED faults
       \/ req' = [req EXCEPT ![r] = Idle] /\ Fault
    /\ UNCHANGED <<code, held, result, countVars, ticket, sockVars, job, up>>

\* Then the browser's own copy: whatever token it holds by now, one that another
\* page has paired since the request was sent included.
Clear(r) ==
    /\ req[r].kind = "clear"
    /\ ForgetToken
    /\ req' = [req EXCEPT ![r] = Idle]
    /\ UNCHANGED <<code, device, result, countVars, markVars, ticket, opened, job, up, faults>>

\* One device, or all of them, from the settings page.
RevokeFromPage(ds) ==
    /\ \/ \E d \in Devices : ds = {d} /\ device[d] # "none"
       \/ ds = {d \in Devices : device[d] # "none"} /\ ds # {}
    /\ Revoke(ds)
    /\ UNCHANGED <<code, held, result, countVars, ticket, req, sockVars, job, up, faults>>

\* "Disconnect locally without revoking".
DisconnectLocally ==
    /\ held # NoDevice
    /\ ForgetToken
    /\ UNCHANGED <<code, device, result, countVars, markVars, ticket, req, opened,
                   job, up, faults>>

\* What may still act for a device without a look at its row.
Afoot(d) ==
    \/ \E r \in Requests : req[r].dev = d /\ req[r].kind # "clear"
    \/ \E t \in Tickets : ticket[t].dev = d /\ (ticket[t].state = "live" \/ sock[t] \in Open)

\* A mark lasts a day: longer than a ticket (a minute), a request, or a round
\* of a socket (seconds).
MarkExpires(d) ==
    /\ d \in mark
    /\ ~Afoot(d)
    /\ mark' = mark \ {d}
    /\ UNCHANGED <<pairVars, countVars, unsaid, ticket, req, sockVars, job, up, faults>>

----------------------------------------------------------------------------
\* Sockets.

\* Mutant of Redeemed: GET without the DEL.
RedeemedKept(t) == ticket

\* GETDEL: the first connection that shows a ticket uses it up.
Redeemed(t) == [ticket EXCEPT ![t].state = "gone"]

\* The ticket is for the job of the URL (NoJob: another one), its device is not
\* marked.
Admitted(t, j) == ticket[t].job = j /\ ticket[t].dev \notin mark

Connect(t, j) ==
    /\ up
    /\ ticket[t].state = "live"
    /\ ticket' = Redeemed(t)
    /\ \/ /\ Admitted(t, j)
          /\ sock' = [sock EXCEPT ![t] = "joining"]
          /\ opened' = [opened EXCEPT ![t] = @ + 1]
       \/ /\ ~Admitted(t, j)
          /\ UNCHANGED sockVars
    /\ UNCHANGED <<pairVars, countVars, markVars, req, job, up, faults>>

TicketExpires(t) ==
    /\ ticket[t].state = "live"
    /\ ticket' = [ticket EXCEPT ![t].state = "gone"]
    /\ UNCHANGED <<pairVars, countVars, markVars, req, sockVars, job, up, faults>>

Move(t, s) ==
    /\ sock' = [sock EXCEPT ![t] = s]
    /\ UNCHANGED <<pairVars, countVars, markVars, ticket, req, opened, job, up, faults>>

\* Mutant of ReadJob: only the first read looks for the end.
ReadJobOnce(t) ==
    LET j == ticket[t].job IN
    /\ sock[t] \in {"joining", "checked"}
    /\ \/ job[j] = "deleted" /\ Move(t, "missing")
       \/ job[j] = "ended" /\ sock[t] = "joining" /\ Move(t, "told")
       \/ (job[j] = "active" \/ sock[t] = "checked") /\ Move(t, "round")

\* The job, as the socket's own session reads it: once to begin with, then in
\* every round.  An end is sent before the socket is closed.
ReadJob(t) ==
    LET j == ticket[t].job IN
    /\ sock[t] \in {"joining", "checked"}
    /\ \/ job[j] = "deleted" /\ Move(t, "missing")
       \/ job[j] = "ended"   /\ Move(t, "told")
       \/ job[j] = "active"  /\ Move(t, "round")

\* Mutant of CheckRevoked: marks are looked at on connecting only.
NeverCheck(t) == sock[t] = "round" /\ Move(t, "checked")

\* An outage of Redis does not close a socket.
CheckRevoked(t) ==
    /\ sock[t] = "round"
    /\ \/ up /\ ticket[t].dev \in mark /\ Move(t, "refused")
       \/ ~(up /\ ticket[t].dev \in mark) /\ Move(t, "checked")

\* The connection is lost, or the browser closes it.
Drop(t) == sock[t] \in Open /\ Move(t, "dropped")

----------------------------------------------------------------------------
\* The rest of the world.

\* Nothing here looks at a job before a socket follows it.
JobMoves(j) ==
    /\ \E t \in Tickets : sock[t] \in Open /\ ticket[t].job = j
    /\ \/ job[j] = "active"  /\ job' = [job EXCEPT ![j] = "ended"]
       \/ job[j] = "ended"   /\ job' = [job EXCEPT ![j] = "active"]    \* a retry
       \/ job[j] # "deleted" /\ job' = [job EXCEPT ![j] = "deleted"]
    /\ UNCHANGED <<pairVars, countVars, markVars, ticket, req, sockVars, up, faults>>

RedisFails ==
    /\ up
    /\ Fault
    /\ up' = FALSE
    /\ UNCHANGED <<pairVars, countVars, markVars, ticket, req, sockVars, job>>

RedisReturns ==
    /\ ~up
    /\ up' = TRUE
    /\ UNCHANGED <<pairVars, countVars, markVars, ticket, req, sockVars, job, faults>>

\* The web process stops, perhaps in the middle of a revocation: rows written,
\* marks not, or not all.
WebStops ==
    /\ Fault
    /\ \/ UNCHANGED <<device, markVars>>
       \/ \E r \in Requests : \E d \in Devices :
             /\ req[r] = [kind |-> "revoke", dev |-> d]
             /\ RevokeRows({d})
             /\ unsaid' = unsaid \cup ({d} \ mark)
             /\ UNCHANGED mark
       \/ \E ds, said \in SUBSET {d \in Devices : device[d] # "none"} :
             /\ said \subseteq ds
             /\ RevokeRows(ds)
             /\ mark' = mark \cup said
             /\ unsaid' = (unsaid \ said) \cup (ds \ (said \cup mark))
    /\ req' = [r \in Requests |-> IF req[r].kind = "clear" THEN req[r] ELSE Idle]
    /\ sock' = [t \in Tickets |-> IF sock[t] \in Open THEN "dropped" ELSE sock[t]]
    /\ UNCHANGED <<code, held, result, countVars, ticket, opened, job, up>>

Next ==
    \/ \E c \in Codes : CreateCode(c) \/ CodeExpires(c) \/ ResultExpires(c)
    \/ \E c \in Codes, d \in Devices : Pair(c, d)
    \/ PairFails \/ CounterExpires
    \/ \E r \in Requests : \E kind \in {"ticket", "revoke"} : Authenticate(r, kind)
    \/ \E r \in Requests, t \in Tickets, j \in Jobs : IssueTicket(r, t, j)
    \/ \E r \in Requests : TicketFails(r) \/ RevokeMe(r) \/ Clear(r)
    \/ \E ds \in SUBSET Devices : RevokeFromPage(ds)
    \/ DisconnectLocally
    \/ \E d \in Devices : MarkExpires(d)
    \/ \E t \in Tickets, j \in Jobs \cup {NoJob} : Connect(t, j)
    \/ \E t \in Tickets : TicketExpires(t) \/ ReadJob(t) \/ CheckRevoked(t) \/ Drop(t)
    \/ \E j \in Jobs : JobMoves(j)
    \/ RedisFails \/ RedisReturns \/ WebStops

Spec == Init /\ [][Next]_vars

\* The event loop comes back to every socket, keys with an expiry go, and an
\* outage of Redis ends.
Fairness ==
    /\ \A t \in Tickets : WF_vars(ReadJob(t)) /\ WF_vars(CheckRevoked(t))
    /\ WF_vars(CounterExpires)
    /\ WF_vars(RedisReturns)

FairSpec == Spec /\ Fairness

----------------------------------------------------------------------------
\* Properties.

\* pairing.py:132-165.  However attempts, expiry, purges, lost answers and
\* stops fall, a code pairs at most one device, every device came by one code
\* whose row names it, and the web page never shows another device for it.
PairedOnce ==
    /\ \A d \in Devices : device[d] # "none" =>
           \E c \in Codes : code[c].state = "used" /\ code[c].dev = d
    /\ \A c \in Codes : code[c].state = "used" =>
           /\ code[c].dev \in Devices /\ device[code[c].dev] # "none"
           /\ Shown(c) = code[c].dev
    /\ \A b, c \in Codes :
           code[b].state = "used" /\ code[c].state = "used" /\ code[b].dev = code[c].dev
           => b = c

\* ws_tickets.py:32.  A ticket opens one socket at most, and not one for a
\* ticket that is still in Redis.
TicketOpensOne ==
    \A t \in Tickets :
        /\ opened[t] <= 1
        /\ sock[t] # "none" => ticket[t].state = "gone"

\* extension.py:130-136, pages.py:1140-1144.  A request accepted before the
\* revocation may get its ticket after it: as long as anything can act for a
\* revoked device without a look at its row, Redis has its mark, or has never
\* been told (an outage, or a stop between the two).
RevokedIsMarked ==
    \A d \in Devices : device[d] = "revoked" /\ Afoot(d) => d \in mark \cup unsaid

\* ws.py:64-76.  No socket of a device whose revocation was published stays.
RevokedSocketsClose ==
    \A t \in Tickets :
        (sock[t] \in Open /\ ticket[t].dev \in mark) ~> sock[t] \in Closed

\* ws.py:57, 107.  A socket that is open when its job ends sends the end, if
\* the job does not leave that state, the browser stays and is not revoked.
EndIsTold ==
    \A t \in Tickets : \A j \in Jobs :
        (sock[t] \in Open /\ ticket[t].job = j /\ job[j] = "ended")
        ~> (sock[t] \in {"told", "refused", "dropped"} \/ job[j] # "ended")

\* pairing.py:279-302.  A source that was blocked is let in again, however
\* often it tries, unless the EXPIRE of its counter was lost.
BlockEnds == (fails >= Limit /\ ~torn) ~> fails < Limit
=============================================================================
