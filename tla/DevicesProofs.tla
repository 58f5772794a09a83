--------------------------- MODULE DevicesProofs ---------------------------
(***************************************************************************)
(* Proofs about the safety of Devices, for any number of codes, devices,   *)
(* jobs, tickets, requests and faults.                                     *)
(***************************************************************************)
EXTENDS Devices, TLAPS

(* Groups of steps *)

QuietStep ==
    \/ PairFails \/ CounterExpires
    \/ \E j \in Jobs : JobMoves(j)
    \/ RedisFails \/ RedisReturns
    \/ UNCHANGED vars

CodeStep == \E c \in Codes : CreateCode(c) \/ CodeExpires(c) \/ ResultExpires(c)

RequestStep ==
    \/ \E r \in Requests : \E kind \in {"ticket", "revoke"} : Authenticate(r, kind)
    \/ \E r \in Requests, t \in Tickets, j \in Jobs : IssueTicket(r, t, j)
    \/ \E r \in Requests : TicketFails(r)

SockStep ==
    \/ \E t \in Tickets, j \in Jobs \cup {NoJob} : Connect(t, j)
    \/ \E t \in Tickets : TicketExpires(t) \/ ReadJob(t) \/ CheckRevoked(t) \/ Drop(t)

RevokeStep ==
    \/ \E r \in Requests : RevokeMe(r) \/ Clear(r)
    \/ \E ds \in SUBSET Devices : RevokeFromPage(ds)
    \/ DisconnectLocally
    \/ WebStops

PairStep == \E c \in Codes, d \in Devices : Pair(c, d)
MarkStep == \E d \in Devices : MarkExpires(d)

LEMMA StepsAreGrouped ==
    ASSUME [Next]_vars
    PROVE  QuietStep \/ CodeStep \/ PairStep \/ RequestStep \/ SockStep \/ RevokeStep \/ MarkStep
BY DEF Next, QuietStep, CodeStep, PairStep, RequestStep, SockStep, RevokeStep, MarkStep

LEMMA QuietFrame ==
    ASSUME QuietStep
    PROVE  UNCHANGED <<code, device, held, result, mark, unsaid, ticket, req, sock, opened>>
BY DEF QuietStep, PairFails, CounterExpires, JobMoves, RedisFails, RedisReturns, vars, pairVars,
       countVars, markVars, sockVars

LEMMA CodeFrame ==
    ASSUME CodeStep
    PROVE  UNCHANGED <<device, held, mark, unsaid, ticket, req, sock, opened, faults,
                       fails, fading, torn, job, up>>
BY DEF CodeStep, CreateCode, CodeExpires, ResultExpires, countVars, markVars, sockVars

LEMMA PairFrame ==
    ASSUME PairStep
    PROVE  UNCHANGED <<mark, unsaid, ticket, req, sock, opened, fails, fading, torn, job, up>>
BY DEF PairStep, Pair, countVars, markVars, sockVars

LEMMA RequestFrame ==
    ASSUME RequestStep
    PROVE  UNCHANGED <<code, device, held, result, mark, unsaid, sock, opened, faults,
                       fails, fading, torn, job, up>>
BY DEF RequestStep, Authenticate, IssueTicket, TicketFails, pairVars, countVars, markVars, sockVars

LEMMA SockFrame ==
    ASSUME SockStep
    PROVE  UNCHANGED <<code, device, held, result, mark, unsaid, req, faults,
                       fails, fading, torn, job, up>>
BY DEF SockStep, Connect, TicketExpires, ReadJob, CheckRevoked, Drop, Move, pairVars, countVars,
       markVars, sockVars

LEMMA RevokeFrame ==
    ASSUME RevokeStep
    PROVE  UNCHANGED <<code, result, ticket, opened, fails, fading, torn, job, up>>
BY DEF RevokeStep, RevokeMe, Clear, RevokeFromPage, DisconnectLocally, WebStops, countVars, sockVars

LEMMA MarkFrame ==
    ASSUME MarkStep
    PROVE  UNCHANGED <<code, device, held, result, unsaid, ticket, req, sock, opened,
                       faults, fails, fading, torn, job, up>>
BY DEF MarkStep, MarkExpires, pairVars, countVars, sockVars

----------------------------------------------------------------------------
(* Types *)

\* A request under way is one of a device.
ReqInv == \A r \in Requests : req[r].kind # "idle" => req[r].dev \in Devices

SockStates == Open \cup Closed \cup {"none"}

LEMMA TypeInit == Init => TypeOK /\ ReqInv
<1> SUFFICES ASSUME Init PROVE TypeOK /\ ReqInv
    OBVIOUS
<1>1. code \in [Codes -> CodeType] /\ req \in [Requests -> ReqType]
    BY DEF Init, NoCode, CodeType, Idle, ReqType, AnyDevice
<1>2. ticket \in [Tickets -> TicketType] /\ sock \in [Tickets -> SockStates]
    BY DEF Init, TicketType, AnyDevice, SockStates
<1>3. fails \in 0 .. Limit /\ faults \in 0 .. MaxFaults
    BY ConstantsOK DEF Init
<1>4. held \in AnyDevice /\ result \in [Codes -> AnyDevice]
    BY DEF Init, AnyDevice
<1>5. ReqInv
    BY DEF Init, ReqInv, Idle
<1> QED
    BY <1>1, <1>2, <1>3, <1>4, <1>5 DEF Init, TypeOK, SockStates

LEMMA FaultType ==
    ASSUME TypeOK, Fault
    PROVE  faults' \in 0 .. MaxFaults
BY ConstantsOK DEF TypeOK, Fault

LEMMA PurgedType ==
    ASSUME TypeOK
    PROVE  Purged(code) \in [Codes -> CodeType]
<1>1. NoCode \in CodeType
    BY DEF NoCode, CodeType, AnyDevice
<1> QED
    BY <1>1 DEF Purged, TypeOK

LEMMA RevokeRowsType ==
    ASSUME TypeOK, NEW ds, RevokeRows(ds)
    PROVE  device' \in [Devices -> {"none", "live", "revoked"}]
BY DEF TypeOK, RevokeRows

LEMMA PublishType ==
    ASSUME TypeOK, NEW ds \in SUBSET Devices, Publish(ds)
    PROVE  mark' \subseteq Devices /\ unsaid' \subseteq Devices
BY DEF TypeOK, Publish

LEMMA DroppedType ==
    ASSUME TypeOK, sock' = [t \in Tickets |-> IF sock[t] \in Open THEN "dropped" ELSE sock[t]]
    PROVE  sock' \in [Tickets -> SockStates]
BY DEF TypeOK, SockStates, Open, Closed

LEMMA QuietType ==
    ASSUME TypeOK, QuietStep
    PROVE  TypeOK'
<1>1. UNCHANGED <<code, device, held, result, mark, unsaid, ticket, req, sock, opened>>
    BY QuietFrame
<1>2. CASE PairFails
    <2>1. fails \in 0 .. Limit /\ fails < Limit
        BY <1>2, ConstantsOK DEF PairFails, Blocked, TypeOK
    <2>2. fails' \in 0 .. Limit
        BY <1>2, <2>1, ConstantsOK DEF PairFails, CountFailure
    <2>3. fading' \in BOOLEAN /\ torn' \in BOOLEAN /\ faults' \in 0 .. MaxFaults
        BY <1>2, FaultType DEF PairFails, CountFailure, TypeOK
    <2>4. job' = job /\ up' = up
        BY <1>2 DEF PairFails
    <2> QED
        BY <1>1, <2>2, <2>3, <2>4 DEF TypeOK
<1>3. CASE CounterExpires
    <2>1. fails' \in 0 .. Limit
        <3>1. fails' = 0
            BY <1>3, Zenon DEF CounterExpires
        <3> QED
            BY <3>1, ConstantsOK
    <2>2. UNCHANGED <<torn, job, up, faults>>
        BY <1>3 DEF CounterExpires
    <2>3. fading' \in BOOLEAN
        BY <1>3, Zenon DEF CounterExpires
    <2> QED
        BY <1>1, <2>1, <2>2, <2>3 DEF TypeOK
<1>4. ASSUME NEW j \in Jobs, JobMoves(j) PROVE TypeOK'
    <2>1. job' \in [Jobs -> {"active", "ended", "deleted"}]
        BY <1>4 DEF JobMoves, TypeOK
    <2> QED
        BY <1>1, <1>4, <2>1 DEF JobMoves, countVars, TypeOK
<1>5. CASE RedisFails
    BY <1>1, <1>5, FaultType DEF RedisFails, countVars, TypeOK
<1>6. CASE RedisReturns
    BY <1>1, <1>6 DEF RedisReturns, countVars, TypeOK
<1>7. CASE UNCHANGED vars
    BY <1>1, <1>7 DEF vars, countVars, TypeOK
<1> QED
    BY <1>2, <1>3, <1>4, <1>5, <1>6, <1>7 DEF QuietStep

LEMMA CodeType2 ==
    ASSUME TypeOK, CodeStep
    PROVE  TypeOK'
<1>1. code' \in [Codes -> CodeType] /\ result' \in [Codes -> AnyDevice]
    <2>1. ASSUME NEW c \in Codes, CreateCode(c)
          PROVE  code' \in [Codes -> CodeType] /\ result' = result
        <3>1. NewCode \in CodeType
            BY DEF NewCode, CodeType, AnyDevice
        <3> QED
            BY <2>1, <3>1, PurgedType DEF CreateCode
    <2>2. ASSUME NEW c \in Codes, CodeExpires(c)
          PROVE  code' \in [Codes -> CodeType] /\ result' = result
        BY <2>2 DEF CodeExpires, CodeType, TypeOK
    <2>3. ASSUME NEW c \in Codes, ResultExpires(c)
          PROVE  code' = code /\ result' \in [Codes -> AnyDevice]
        BY <2>3 DEF ResultExpires, TypeOK, AnyDevice
    <2> QED
        BY <2>1, <2>2, <2>3 DEF CodeStep, TypeOK
<1> QED
    BY <1>1, CodeFrame DEF TypeOK

LEMMA PairType ==
    ASSUME TypeOK, PairStep
    PROVE  TypeOK'
<1> PICK c \in Codes, d \in Devices : Pair(c, d)
    BY DEF PairStep
<1>1. [state |-> "used", dev |-> d] \in CodeType
    BY DEF CodeType, AnyDevice
<1>2. code' \in [Codes -> CodeType]
    BY <1>1, PurgedType DEF Pair, PairRows
<1>3. device' \in [Devices -> {"none", "live", "revoked"}]
    BY DEF Pair, PairRows, TypeOK
<1>4. held' \in AnyDevice /\ faults' \in 0 .. MaxFaults
    <2>1. CASE AnswerStored(d)
        BY <2>1 DEF AnswerStored, TypeOK, AnyDevice
    <2>2. CASE AnswerLost
        BY <2>2, FaultType DEF AnswerLost, TypeOK
    <2> QED
        BY <2>1, <2>2 DEF Pair
<1>5. result' \in [Codes -> AnyDevice]
    BY DEF Pair, TypeOK, AnyDevice
<1> QED
    BY <1>2, <1>3, <1>4, <1>5, PairFrame DEF TypeOK

LEMMA RequestType ==
    ASSUME TypeOK, ReqInv, RequestStep
    PROVE  TypeOK' /\ ReqInv'
<1>1. Idle \in ReqType /\ Idle.kind = "idle"
    BY DEF Idle, ReqType, AnyDevice
<1>2. /\ req' \in [Requests -> ReqType] /\ ticket' \in [Tickets -> TicketType]
      /\ ReqInv'
    <2>1. ASSUME NEW r \in Requests, NEW kind \in {"ticket", "revoke"}, Authenticate(r, kind)
          PROVE  req' \in [Requests -> ReqType] /\ ticket' = ticket /\ ReqInv'
        <3>1. held \in Devices
            BY <2>1 DEF Authenticate, TypeOK, AnyDevice
        <3>2. [kind |-> kind, dev |-> held] \in ReqType
            BY <3>1 DEF ReqType, AnyDevice
        <3>3. req' = [req EXCEPT ![r] = [kind |-> kind, dev |-> held]] /\ ticket' = ticket
            BY <2>1 DEF Authenticate
        <3> QED
            BY <3>1, <3>2, <3>3 DEF TypeOK, ReqInv
    <2>2. ASSUME NEW r \in Requests, NEW t \in Tickets, NEW j \in Jobs, IssueTicket(r, t, j)
          PROVE  req' \in [Requests -> ReqType] /\ ticket' \in [Tickets -> TicketType] /\ ReqInv'
        <3>1. req' = [req EXCEPT ![r] = Idle]
            BY <2>2 DEF IssueTicket
        <3>2. [state |-> "live", dev |-> req[r].dev, job |-> j] \in TicketType
            BY DEF TypeOK, ReqType, TicketType
        <3>3. ticket' \in [Tickets -> TicketType]
            BY <2>2, <3>2 DEF IssueTicket, TypeOK
        <3> QED
            BY <1>1, <3>1, <3>3 DEF TypeOK, ReqInv
    <2>3. ASSUME NEW r \in Requests, TicketFails(r)
          PROVE  req' \in [Requests -> ReqType] /\ ticket' = ticket /\ ReqInv'
        <3>1. req' = [req EXCEPT ![r] = Idle] /\ ticket' = ticket
            BY <2>3 DEF TicketFails
        <3> QED
            BY <1>1, <3>1 DEF TypeOK, ReqInv
    <2> QED
        BY <2>1, <2>2, <2>3 DEF RequestStep, TypeOK
<1> QED
    BY <1>2, RequestFrame DEF TypeOK

LEMMA SockType ==
    ASSUME TypeOK, SockStep
    PROVE  TypeOK'
<1>1. /\ ticket' \in [Tickets -> TicketType] /\ sock' \in [Tickets -> SockStates]
      /\ opened' \in [Tickets -> Nat]
    <2>1. ASSUME NEW t \in Tickets PROVE Redeemed(t) \in [Tickets -> TicketType]
        BY DEF Redeemed, TypeOK, TicketType
    <2>2. ASSUME NEW t \in Tickets, NEW j \in Jobs \cup {NoJob}, Connect(t, j)
          PROVE  /\ ticket' \in [Tickets -> TicketType] /\ sock' \in [Tickets -> SockStates]
                 /\ opened' \in [Tickets -> Nat]
        <3>1. ticket' \in [Tickets -> TicketType]
            BY <2>1, <2>2 DEF Connect
        <3>2. CASE Admitted(t, j)
            <4>1. /\ sock' = [sock EXCEPT ![t] = "joining"]
                  /\ opened' = [opened EXCEPT ![t] = @ + 1]
                BY <2>2, <3>2 DEF Connect
            <4>2. sock' \in [Tickets -> SockStates]
                BY <4>1 DEF TypeOK, SockStates, Open
            <4>3. opened' \in [Tickets -> Nat]
                BY <4>1 DEF TypeOK
            <4> QED
                BY <3>1, <4>2, <4>3
        <3>3. CASE ~Admitted(t, j)
            <4>1. UNCHANGED <<sock, opened>>
                BY <2>2, <3>3 DEF Connect, sockVars
            <4> QED
                BY <3>1, <4>1 DEF TypeOK, SockStates
        <3> QED
            BY <3>2, <3>3
    <2>3. ASSUME NEW t \in Tickets, TicketExpires(t)
          PROVE  ticket' \in [Tickets -> TicketType] /\ sock' = sock /\ opened' = opened
        BY <2>3 DEF TicketExpires, TypeOK, TicketType, sockVars
    <2>4. ASSUME NEW t \in Tickets, ReadJob(t) \/ CheckRevoked(t) \/ Drop(t)
          PROVE  /\ ticket' = ticket /\ sock' \in [Tickets -> SockStates] /\ opened' = opened
        BY <2>4 DEF ReadJob, CheckRevoked, Drop, Move, TypeOK, SockStates, Open, Closed
    <2> QED
        BY <2>2, <2>3, <2>4 DEF SockStep, TypeOK, SockStates
<1> QED
    BY <1>1, SockFrame DEF TypeOK, SockStates

\* What a stop may leave of a revocation: nothing, the rows of one device, or
\* rows and some of the marks.
LEMMA StopEffects ==
    ASSUME WebStops
    PROVE  \/ UNCHANGED <<device, markVars>>
           \/ \E d \in Devices :
                 /\ RevokeRows({d}) /\ UNCHANGED mark
                 /\ unsaid' = unsaid \cup ({d} \ mark)
           \/ \E ds \in SUBSET Devices : \E said \in SUBSET Devices :
                 /\ RevokeRows(ds)
                 /\ mark' = mark \cup said
                 /\ unsaid' = (unsaid \ said) \cup (ds \ (said \cup mark))
<1> DEFINE Made == {d \in Devices : device[d] # "none"}
<1>1. CASE UNCHANGED <<device, markVars>>
    BY <1>1
<1>2. ASSUME NEW r \in Requests, NEW d \in Devices, RevokeRows({d}), UNCHANGED mark,
             unsaid' = unsaid \cup ({d} \ mark)
      PROVE  \E e \in Devices :
                 /\ RevokeRows({e}) /\ UNCHANGED mark
                 /\ unsaid' = unsaid \cup ({e} \ mark)
    BY <1>2
<1>3. ASSUME NEW ds \in SUBSET Made, NEW said \in SUBSET Made, RevokeRows(ds),
             mark' = mark \cup said,
             unsaid' = (unsaid \ said) \cup (ds \ (said \cup mark))
      PROVE  \E es \in SUBSET Devices : \E told \in SUBSET Devices :
                 /\ RevokeRows(es)
                 /\ mark' = mark \cup told
                 /\ unsaid' = (unsaid \ told) \cup (es \ (told \cup mark))
    <2>1. Made \subseteq Devices
        OBVIOUS
    <2>2. ds \in SUBSET Devices /\ said \in SUBSET Devices
        BY <2>1
    <2> QED
        BY <1>3, <2>2
<1> QED
    BY <1>1, <1>2, <1>3 DEF WebStops

LEMMA RevokeType ==
    ASSUME TypeOK, ReqInv, RevokeStep
    PROVE  TypeOK' /\ ReqInv'
<1>1. Idle \in ReqType /\ Idle.kind = "idle"
    BY DEF Idle, ReqType, AnyDevice
<1> DEFINE Typed == /\ device' \in [Devices -> {"none", "live", "revoked"}]
                    /\ held' \in AnyDevice
                    /\ mark' \subseteq Devices /\ unsaid' \subseteq Devices
                    /\ req' \in [Requests -> ReqType] /\ sock' \in [Tickets -> SockStates]
                    /\ faults' \in 0 .. MaxFaults /\ ReqInv'
<1>2. ASSUME NEW r \in Requests, RevokeMe(r) PROVE Typed
    <2>1. req[r].dev \in Devices
        BY <1>2 DEF RevokeMe, ReqInv
    <2>2. /\ device' \in [Devices -> {"none", "live", "revoked"}]
          /\ mark' \subseteq Devices /\ unsaid' \subseteq Devices
        BY <1>2, <2>1, RevokeRowsType, PublishType DEF RevokeMe, Revoke
    <2>3. \/ req' = [req EXCEPT ![r].kind = "clear"]
          \/ req' = [req EXCEPT ![r] = Idle]
        BY <1>2 DEF RevokeMe
    <2>4. req' \in [Requests -> ReqType] /\ ReqInv'
        BY <1>1, <2>1, <2>3 DEF TypeOK, ReqInv, ReqType
    <2>5. UNCHANGED <<held, sock>> /\ faults' \in 0 .. MaxFaults
        BY <1>2, FaultType DEF RevokeMe, TypeOK, sockVars
    <2> QED
        BY <2>2, <2>4, <2>5 DEF TypeOK, SockStates
<1>3. ASSUME NEW ds \in SUBSET Devices, RevokeFromPage(ds) PROVE Typed
    <2>1. /\ device' \in [Devices -> {"none", "live", "revoked"}]
          /\ mark' \subseteq Devices /\ unsaid' \subseteq Devices
        BY <1>3, RevokeRowsType, PublishType DEF RevokeFromPage, Revoke
    <2>2. UNCHANGED <<held, req, sock, faults>>
        BY <1>3 DEF RevokeFromPage, sockVars
    <2> QED
        BY <2>1, <2>2 DEF TypeOK, SockStates, ReqInv
<1>4. ASSUME DisconnectLocally PROVE Typed
    <2>1. /\ held' = NoDevice
          /\ UNCHANGED <<device, mark, unsaid, req, faults>>
        BY <1>4 DEF DisconnectLocally, ForgetToken, markVars
    <2>2. sock' \in [Tickets -> SockStates]
        BY <1>4, DroppedType DEF DisconnectLocally, ForgetToken
    <2> QED
        BY <2>1, <2>2 DEF TypeOK, AnyDevice, ReqInv
<1>8. ASSUME NEW r \in Requests, Clear(r) PROVE Typed
    <2>1. /\ held' = NoDevice
          /\ req' = [req EXCEPT ![r] = Idle]
          /\ UNCHANGED <<device, mark, unsaid, faults>>
        BY <1>8 DEF Clear, ForgetToken, markVars
    <2>2. sock' \in [Tickets -> SockStates]
        BY <1>8, DroppedType DEF Clear, ForgetToken
    <2>3. req' \in [Requests -> ReqType] /\ ReqInv'
        BY <1>1, <2>1 DEF TypeOK, ReqInv
    <2> QED
        BY <2>1, <2>2, <2>3 DEF TypeOK, AnyDevice
<1>5. ASSUME WebStops PROVE Typed
    <2>1. /\ req' = [r \in Requests |-> IF req[r].kind = "clear" THEN req[r] ELSE Idle]
          /\ held' = held
          /\ sock' = [t \in Tickets |-> IF sock[t] \in Open THEN "dropped" ELSE sock[t]]
        BY <1>5 DEF WebStops
    <2>2. req' \in [Requests -> ReqType] /\ ReqInv' /\ sock' \in [Tickets -> SockStates]
        BY <1>1, <2>1, DroppedType DEF ReqInv, TypeOK
    <2>3. faults' \in 0 .. MaxFaults
        BY <1>5, FaultType DEF WebStops
    <2>4. /\ device' \in [Devices -> {"none", "live", "revoked"}]
          /\ mark' \subseteq Devices /\ unsaid' \subseteq Devices
        <3>1. CASE UNCHANGED <<device, markVars>>
            BY <3>1 DEF TypeOK, markVars
        <3>2. ASSUME NEW d \in Devices, RevokeRows({d}), UNCHANGED mark,
                     unsaid' = unsaid \cup ({d} \ mark)
              PROVE  /\ device' \in [Devices -> {"none", "live", "revoked"}]
                     /\ mark' \subseteq Devices /\ unsaid' \subseteq Devices
            BY <3>2, RevokeRowsType DEF TypeOK
        <3>3. ASSUME NEW ds \in SUBSET Devices, NEW said \in SUBSET Devices, RevokeRows(ds),
                     mark' = mark \cup said,
                     unsaid' = (unsaid \ said) \cup (ds \ (said \cup mark))
              PROVE  /\ device' \in [Devices -> {"none", "live", "revoked"}]
                     /\ mark' \subseteq Devices /\ unsaid' \subseteq Devices
            BY <3>3, RevokeRowsType DEF TypeOK
        <3> QED
            BY <1>5, <3>1, <3>2, <3>3, StopEffects
    <2>5. held' \in AnyDevice
        BY <2>1 DEF TypeOK
    <2> QED
        BY <2>2, <2>3, <2>4, <2>5
<1>6. Typed
    BY <1>2, <1>3, <1>4, <1>5, <1>8 DEF RevokeStep
<1>7. /\ code' \in [Codes -> CodeType] /\ result' \in [Codes -> AnyDevice]
      /\ fails' \in 0 .. Limit /\ fading' \in BOOLEAN /\ torn' \in BOOLEAN
      /\ ticket' \in [Tickets -> TicketType] /\ opened' \in [Tickets -> Nat]
      /\ job' \in [Jobs -> {"active", "ended", "deleted"}] /\ up' \in BOOLEAN
    BY RevokeFrame DEF TypeOK
<1> QED
    BY <1>6, <1>7 DEF TypeOK, SockStates

LEMMA MarkType ==
    ASSUME TypeOK, MarkStep
    PROVE  TypeOK'
<1>1. mark' \subseteq Devices
    BY DEF MarkStep, MarkExpires, TypeOK
<1> QED
    BY <1>1, MarkFrame DEF TypeOK

LEMMA TypeNext ==
    ASSUME TypeOK, ReqInv, [Next]_vars
    PROVE  TypeOK' /\ ReqInv'
<1>1. CASE UNCHANGED req
    <2>1. ReqInv'
        BY <1>1 DEF ReqInv
    <2> QED
        BY <2>1, StepsAreGrouped, QuietType, CodeType2, PairType, RequestType, SockType,
           RevokeType, MarkType
<1>2. CASE req' # req
    BY <1>2, StepsAreGrouped, QuietFrame, CodeFrame, PairFrame, SockFrame, MarkFrame,
       RequestType, RevokeType
<1> QED
    BY <1>1, <1>2

\* Every variable has its type; with it, a request under way is one of a device
\* that has been created.
THEOREM TypeCorrect == Spec => [](TypeOK /\ ReqInv)
<1>1. Init => TypeOK /\ ReqInv
    BY TypeInit
<1>2. TypeOK /\ ReqInv /\ [Next]_vars => (TypeOK /\ ReqInv)'
    BY TypeNext
<1> QED
    BY <1>1, <1>2, PTL DEF Spec

----------------------------------------------------------------------------
(* A revoked device that may still act has its mark *)

LEMMA PublishedMarks ==
    ASSUME NEW ds, Publish(ds)
    PROVE  mark' \cup unsaid' = mark \cup unsaid \cup ds
BY DEF Publish

\* Revocation adds its devices to the marked or the unsaid ones, and starts
\* nothing for them.
LEMMA RevokeMarks ==
    ASSUME TypeOK, RevokedIsMarked, RevokeStep
    PROVE  RevokedIsMarked'
<1>1. ticket' = ticket
    BY RevokeFrame
<1>2. \A r \in Requests : req'[r] = req[r] \/ req'[r] = Idle \/ req'[r].kind = "clear"
    <2>1. \/ \E r \in Requests : req' = [req EXCEPT ![r] = Idle]
          \/ \E r \in Requests : req' = [req EXCEPT ![r].kind = "clear"]
          \/ req' = req
          \/ req' = [r \in Requests |-> IF req[r].kind = "clear" THEN req[r] ELSE Idle]
        BY DEF RevokeStep, RevokeMe, Clear, RevokeFromPage, DisconnectLocally, WebStops
    <2> QED
        BY <2>1 DEF TypeOK, ReqType
<1>3. \A t \in Tickets : sock'[t] \in Open => sock[t] \in Open
    <2>1. \/ sock' = [t \in Tickets |-> IF sock[t] \in Open THEN "dropped" ELSE sock[t]]
          \/ sock' = sock
        BY DEF RevokeStep, RevokeMe, Clear, RevokeFromPage, DisconnectLocally, WebStops, ForgetToken,
               sockVars
    <2>2. "dropped" \notin Open
        BY DEF Open
    <2> QED
        BY <2>1, <2>2 DEF TypeOK
<1>4. \A d \in Devices : Afoot(d)' => Afoot(d)
    BY <1>1, <1>2, <1>3, ConstantsOK DEF Afoot, Idle
<1> DEFINE Known == mark \cup unsaid
<1>5. CASE device' = device /\ Known \subseteq Known'
    BY <1>4, <1>5 DEF RevokedIsMarked
<1>6. ASSUME NEW ds, RevokeRows(ds), Known' = Known \cup ds
      PROVE  RevokedIsMarked'
    BY <1>4, <1>6 DEF RevokeRows, RevokedIsMarked
<1>7. ASSUME NEW r \in Requests, RevokeMe(r) PROVE RevokedIsMarked'
    <2> DEFINE d == req[r].dev
    <2>1. RevokeRows({d}) /\ Known' = Known \cup {d}
        BY <1>7, PublishedMarks DEF RevokeMe, Revoke
    <2> QED
        BY <1>6, <2>1
<1>8. ASSUME NEW ds \in SUBSET Devices, RevokeFromPage(ds) PROVE RevokedIsMarked'
    <2>1. RevokeRows(ds) /\ Known' = Known \cup ds
        BY <1>8, PublishedMarks DEF RevokeFromPage, Revoke
    <2> QED
        BY <1>6, <2>1
<1>9. CASE DisconnectLocally \/ \E r \in Requests : Clear(r)
    BY <1>5, <1>9 DEF DisconnectLocally, Clear, markVars
<1>10. CASE WebStops
    <2>1. CASE UNCHANGED <<device, markVars>>
        BY <1>5, <2>1 DEF markVars
    <2>2. ASSUME NEW d \in Devices, RevokeRows({d}), UNCHANGED mark,
                 unsaid' = unsaid \cup ({d} \ mark)
          PROVE  RevokedIsMarked'
        <3>1. Known' = Known \cup {d}
            BY <2>2
        <3> QED
            BY <1>6, <2>2, <3>1
    <2>3. ASSUME NEW ds \in SUBSET Devices, NEW said \in SUBSET Devices, RevokeRows(ds),
                 mark' = mark \cup said,
                 unsaid' = (unsaid \ said) \cup (ds \ (said \cup mark))
          PROVE  RevokedIsMarked'
        <3>1. Known \cup ds \subseteq Known'
            BY <2>3
        <3> QED
            BY <1>4, <2>3, <3>1 DEF RevokeRows, RevokedIsMarked
    <2> QED
        BY <1>10, <2>1, <2>2, <2>3, StopEffects
<1> QED
    BY <1>7, <1>8, <1>9, <1>10 DEF RevokeStep

\* A request is accepted only with a live device, and what follows it is for
\* the device of the request.
LEMMA RequestMarks ==
    ASSUME TypeOK, ReqInv, RevokedIsMarked, RequestStep
    PROVE  RevokedIsMarked'
<1>1. UNCHANGED <<device, mark, unsaid, sock>>
    BY RequestFrame
<1> SUFFICES ASSUME NEW d \in Devices, device[d] = "revoked", Afoot(d)' PROVE Afoot(d)
    BY <1>1 DEF RevokedIsMarked
<1>2. ASSUME NEW r \in Requests, NEW kind, Authenticate(r, kind) PROVE Afoot(d)
    <2>1. /\ device[held] = "live" /\ ticket' = ticket
          /\ req' = [req EXCEPT ![r] = [kind |-> kind, dev |-> held]]
        BY <1>2 DEF Authenticate
    <2>2. \A q \in Requests : req'[q].dev = d => req'[q] = req[q]
        BY <2>1 DEF TypeOK
    <2> QED
        BY <1>1, <2>1, <2>2 DEF Afoot
<1>3. ASSUME NEW r \in Requests, NEW t \in Tickets, NEW j \in Jobs, IssueTicket(r, t, j)
      PROVE  Afoot(d)
    <2>1. /\ ticket' = [ticket EXCEPT ![t] = [state |-> "live", dev |-> req[r].dev, job |-> j]]
          /\ req' = [req EXCEPT ![r] = Idle]
          /\ req[r].kind = "ticket"
        BY <1>3 DEF IssueTicket
    <2>2. \A q \in Requests : req'[q].dev = d => req'[q] = req[q]
        BY <2>1, ConstantsOK DEF TypeOK, Idle
    <2>3. ASSUME NEW u \in Tickets, ticket'[u].dev = d
          PROVE  \/ u = t /\ req[r].dev = d
                 \/ ticket'[u] = ticket[u]
        BY <2>1, <2>3 DEF TypeOK
    <2> QED
        BY <1>1, <2>1, <2>2, <2>3 DEF Afoot
<1>4. ASSUME NEW r \in Requests, TicketFails(r) PROVE Afoot(d)
    <2>1. req' = [req EXCEPT ![r] = Idle] /\ ticket' = ticket
        BY <1>4 DEF TicketFails
    <2>2. \A q \in Requests : req'[q].dev = d => req'[q] = req[q]
        BY <2>1, ConstantsOK DEF TypeOK, Idle
    <2> QED
        BY <1>1, <2>1, <2>2 DEF Afoot
<1> QED
    BY <1>2, <1>3, <1>4 DEF RequestStep

\* A socket is opened with a live ticket.
LEMMA SockMarks ==
    ASSUME TypeOK, RevokedIsMarked, SockStep
    PROVE  RevokedIsMarked'
<1>1. UNCHANGED <<device, mark, unsaid, req>>
    BY SockFrame
<1> DEFINE Kept(t) == /\ ticket'[t].dev = ticket[t].dev
                      /\ ticket'[t].state = "live" => ticket[t].state = "live"
                      /\ sock'[t] \in Open => sock[t] \in Open \/ ticket[t].state = "live"
<1>2. ASSUME NEW u \in Tickets PROVE Kept(u)
    <2>1. ASSUME NEW t \in Tickets, NEW j \in Jobs \cup {NoJob}, Connect(t, j) PROVE Kept(u)
        <3>1. /\ ticket[t].state = "live"
              /\ ticket' = [ticket EXCEPT ![t].state = "gone"]
            BY <2>1 DEF Connect, Redeemed
        <3>2. \/ sock' = sock
              \/ sock' = [sock EXCEPT ![t] = "joining"]
            BY <2>1 DEF Connect, sockVars
        <3> QED
            BY <3>1, <3>2 DEF TypeOK, TicketType
    <2>2. ASSUME NEW t \in Tickets, TicketExpires(t) PROVE Kept(u)
        <3>1. ticket' = [ticket EXCEPT ![t].state = "gone"] /\ sock' = sock
            BY <2>2 DEF TicketExpires, sockVars
        <3> QED
            BY <3>1 DEF TypeOK, TicketType
    <2>3. ASSUME NEW t \in Tickets, ReadJob(t) \/ CheckRevoked(t) \/ Drop(t) PROVE Kept(u)
        <3>1. ticket' = ticket
            BY <2>3 DEF ReadJob, CheckRevoked, Drop, Move
        <3>2. sock[t] \in Open /\ \E v : sock' = [sock EXCEPT ![t] = v]
            BY <2>3 DEF ReadJob, CheckRevoked, Drop, Move, Open
        <3> QED
            BY <3>1, <3>2 DEF TypeOK
    <2> QED
        BY <2>1, <2>2, <2>3 DEF SockStep
<1>3. \A d \in Devices : Afoot(d)' => Afoot(d)
    BY <1>1, <1>2 DEF Afoot
<1> QED
    BY <1>1, <1>3 DEF RevokedIsMarked

LEMMA MarkStepInv ==
    ASSUME TypeOK, ReqInv, RevokedIsMarked, [Next]_vars
    PROVE  RevokedIsMarked'
<1>1. CASE QuietStep \/ CodeStep
    <2>1. UNCHANGED <<device, mark, unsaid, req, ticket, sock>>
        BY <1>1, QuietFrame, CodeFrame
    <2> QED
        BY <2>1 DEF RevokedIsMarked, Afoot
<1>2. CASE PairStep
    <2>1. UNCHANGED <<mark, unsaid, req, ticket, sock>>
        BY <1>2, PairFrame
    <2>2. \A d \in Devices : device'[d] = "revoked" => device[d] = "revoked"
        BY <1>2 DEF PairStep, Pair, PairRows, TypeOK
    <2> QED
        BY <2>1, <2>2 DEF RevokedIsMarked, Afoot
<1>3. ASSUME NEW e \in Devices, MarkExpires(e) PROVE RevokedIsMarked'
    <2>1. UNCHANGED <<device, unsaid, req, ticket, sock>>
        BY <1>3, MarkFrame DEF MarkStep
    <2>2. ~Afoot(e) /\ mark' = mark \ {e}
        BY <1>3 DEF MarkExpires
    <2>3. \A d \in Devices : Afoot(d)' => Afoot(d)
        BY <2>1 DEF Afoot
    <2> QED
        BY <2>1, <2>2, <2>3 DEF RevokedIsMarked
<1> QED
    BY <1>1, <1>2, <1>3, StepsAreGrouped, RequestMarks, SockMarks, RevokeMarks DEF MarkStep

\* For any number of devices, requests, tickets, outages and stops: as long as
\* something can act for a revoked device without a look at its row, Redis has
\* its mark or was never told.
THEOREM RevokedStaysMarked == Spec => []RevokedIsMarked
<1>1. Init => RevokedIsMarked
    BY DEF Init, RevokedIsMarked
<1>2. TypeOK /\ ReqInv /\ RevokedIsMarked /\ [Next]_vars => RevokedIsMarked'
    BY MarkStepInv
<1> QED
    BY <1>1, <1>2, TypeCorrect, PTL DEF Spec

----------------------------------------------------------------------------
(* A ticket opens one socket *)

\* A ticket that has not gone has opened nothing.
TicketInv ==
    \A t \in Tickets :
        /\ opened[t] <= 1
        /\ ticket[t].state # "gone" => opened[t] = 0 /\ sock[t] = "none"

LEMMA SockTickets ==
    ASSUME TypeOK, TicketInv, SockStep
    PROVE  TicketInv'
<1> DEFINE Once(u) == /\ opened'[u] <= 1
                      /\ ticket'[u].state # "gone" => opened'[u] = 0 /\ sock'[u] = "none"
<1> SUFFICES ASSUME NEW u \in Tickets PROVE Once(u)
    BY DEF TicketInv
<1>1. ASSUME NEW t \in Tickets, NEW j \in Jobs \cup {NoJob}, Connect(t, j) PROVE Once(u)
    <2>1. /\ ticket[t].state = "live"
          /\ ticket' = [ticket EXCEPT ![t].state = "gone"]
        BY <1>1 DEF Connect, Redeemed
    <2>2. \/ sock' = sock /\ opened' = opened
          \/ /\ sock' = [sock EXCEPT ![t] = "joining"]
             /\ opened' = [opened EXCEPT ![t] = @ + 1]
        BY <1>1 DEF Connect, sockVars
    <2>3. ticket'[t].state = "gone" /\ opened[t] = 0 /\ opened[u] \in Nat
        BY <2>1 DEF TypeOK, TicketType, TicketInv
    <2>4. CASE u = t
        BY <2>2, <2>3, <2>4 DEF TypeOK
    <2>5. CASE u # t
        BY <2>1, <2>2, <2>5 DEF TypeOK, TicketInv
    <2> QED
        BY <2>4, <2>5
<1>2. ASSUME NEW t \in Tickets, TicketExpires(t) PROVE Once(u)
    <2>1. /\ ticket' = [ticket EXCEPT ![t].state = "gone"]
          /\ sock' = sock /\ opened' = opened
        BY <1>2 DEF TicketExpires, sockVars
    <2> QED
        BY <2>1 DEF TypeOK, TicketType, TicketInv
<1>3. ASSUME NEW t \in Tickets, ReadJob(t) \/ CheckRevoked(t) \/ Drop(t) PROVE Once(u)
    <2>1. ticket' = ticket /\ opened' = opened
        BY <1>3 DEF ReadJob, CheckRevoked, Drop, Move
    <2>2. sock[t] \in Open /\ \E v : sock' = [sock EXCEPT ![t] = v]
        BY <1>3 DEF ReadJob, CheckRevoked, Drop, Move, Open
    <2>3. ticket[t].state = "gone"
        BY <2>2 DEF TicketInv, Open
    <2> QED
        BY <2>1, <2>2, <2>3 DEF TypeOK, TicketInv
<1> QED
    BY <1>1, <1>2, <1>3 DEF SockStep

LEMMA RequestTickets ==
    ASSUME TypeOK, TicketInv, RequestStep
    PROVE  TicketInv'
<1>1. UNCHANGED <<sock, opened>>
    BY RequestFrame
<1>2. CASE ticket' = ticket
    BY <1>1, <1>2 DEF TicketInv
<1>3. ASSUME NEW r \in Requests, NEW t \in Tickets, NEW j \in Jobs, IssueTicket(r, t, j)
      PROVE  TicketInv'
    <2>1. /\ ticket[t].state = "none"
          /\ ticket' = [ticket EXCEPT ![t] = [state |-> "live", dev |-> req[r].dev, job |-> j]]
        BY <1>3 DEF IssueTicket
    <2> QED
        BY <1>1, <2>1 DEF TypeOK, TicketInv
<1> QED
    BY <1>2, <1>3 DEF RequestStep, Authenticate, TicketFails

LEMMA RevokeTickets ==
    ASSUME TypeOK, TicketInv, RevokeStep
    PROVE  TicketInv'
<1>1. UNCHANGED <<ticket, opened>>
    BY RevokeFrame
<1>2. \/ sock' = [t \in Tickets |-> IF sock[t] \in Open THEN "dropped" ELSE sock[t]]
      \/ sock' = sock
    BY DEF RevokeStep, RevokeMe, Clear, RevokeFromPage, DisconnectLocally, WebStops, ForgetToken,
           sockVars
<1>3. "none" \notin Open
    BY DEF Open
<1> QED
    BY <1>1, <1>2, <1>3 DEF TicketInv

LEMMA TicketStep ==
    ASSUME TypeOK, TicketInv, [Next]_vars
    PROVE  TicketInv'
<1>1. CASE UNCHANGED <<ticket, sock, opened>>
    BY <1>1 DEF TicketInv
<1> QED
    BY <1>1, StepsAreGrouped, QuietFrame, CodeFrame, PairFrame, MarkFrame, SockTickets,
       RequestTickets, RevokeTickets

\* ws_tickets.py:32, for any number of tickets and connections: a ticket opens
\* one socket at most, and none while it is still in Redis.
THEOREM TicketsOpenOneSocket == Spec => []TicketOpensOne
<1>1. Init => TicketInv
    BY DEF Init, TicketInv
<1>2. TypeOK /\ TicketInv /\ [Next]_vars => TicketInv'
    BY TicketStep
<1>3. TicketInv => TicketOpensOne
    BY DEF TicketInv, TicketOpensOne
<1> QED
    BY <1>1, <1>2, <1>3, TypeCorrect, PTL DEF Spec

----------------------------------------------------------------------------
(* A code pairs one device *)

\* A code that is not used has no result in Redis.
PairInv ==
    /\ PairedOnce
    /\ \A c \in Codes : code[c].state # "used" => result[c] = NoDevice

\* What PairedOnce says of the codes.
UsedRow(c) == /\ code[c].dev \in Devices
              /\ device[code[c].dev] # "none"
              /\ result[c] \in {NoDevice, code[c].dev}

LEMMA PairInvParts ==
    PairInv <=>
        /\ \A d \in Devices : device[d] # "none" =>
               \E c \in Codes : code[c].state = "used" /\ code[c].dev = d
        /\ \A c \in Codes : code[c].state = "used" => UsedRow(c)
        /\ \A b, c \in Codes :
               code[b].state = "used" /\ code[c].state = "used" /\ code[b].dev = code[c].dev
               => b = c
        /\ \A c \in Codes : code[c].state # "used" => result[c] = NoDevice
BY ConstantsOK DEF PairInv, PairedOnce, Shown, UsedRow

\* A step that leaves the code, but may expire, purge or make an unused one and
\* forget a result.
Same(c) == /\ code'[c].state = "used" <=> code[c].state = "used"
           /\ code[c].state = "used" => code'[c].dev = code[c].dev
           /\ result'[c] \in {result[c], NoDevice}

\* A step that keeps the used codes and which devices exist.
LEMMA SameCodes ==
    ASSUME PairInv, \A c \in Codes : Same(c),
           \A d \in Devices : device'[d] = "none" <=> device[d] = "none"
    PROVE  PairInv'
<1>1. \A d \in Devices : device'[d] # "none" =>
          \E c \in Codes : code'[c].state = "used" /\ code'[c].dev = d
    BY PairInvParts DEF Same
<1>2. \A c \in Codes : code'[c].state = "used" => UsedRow(c)'
    BY PairInvParts DEF Same, UsedRow
<1>3. \A b, c \in Codes :
          code'[b].state = "used" /\ code'[c].state = "used" /\ code'[b].dev = code'[c].dev
          => b = c
    BY PairInvParts DEF Same
<1>4. \A c \in Codes : code'[c].state # "used" => result'[c] = NoDevice
    BY PairInvParts DEF Same
<1> QED
    BY <1>1, <1>2, <1>3, <1>4, ConstantsOK DEF PairInv, PairedOnce, Shown, UsedRow

LEMMA CodeSame ==
    ASSUME TypeOK, CodeStep, NEW c \in Codes, PairInv
    PROVE  Same(c)
<1>1. ASSUME NEW b \in Codes, CreateCode(b) PROVE Same(c)
    <2>1. result' = result
        BY <1>1 DEF CreateCode
    <2>2. \/ code'[c] = code[c]
          \/ code'[c].state # "used" /\ code[c].state # "used"
        BY <1>1 DEF CreateCode, Purged, NoCode, NewCode
    <2> QED
        BY <2>1, <2>2 DEF Same
<1>2. ASSUME NEW b \in Codes, CodeExpires(b) PROVE Same(c)
    BY <1>2 DEF CodeExpires, Same, TypeOK, CodeType
<1>3. ASSUME NEW b \in Codes, ResultExpires(b) PROVE Same(c)
    BY <1>3 DEF ResultExpires, Same, TypeOK
<1> QED
    BY <1>1, <1>2, <1>3 DEF CodeStep

\* The new row is the only one that names the new device, and the only result
\* that changes is its own.
LEMMA PairPairs ==
    ASSUME TypeOK, PairInv, NEW k \in Codes, NEW e \in Devices, Pair(k, e)
    PROVE  PairInv'
<1>1. /\ code[k].state = "live" /\ device[e] = "none"
      /\ device' = [device EXCEPT ![e] = "live"]
      /\ code' = [Purged(code) EXCEPT ![k] = [state |-> "used", dev |-> e]]
      /\ result' = [result EXCEPT ![k] = e] \/ result' = result
    BY DEF Pair, PairRows, Consumable
<1>2. code'[k] = [state |-> "used", dev |-> e]
    BY <1>1 DEF Purged
<1>3. ASSUME NEW c \in Codes, c # k
      PROVE  \/ code'[c] = code[c]
             \/ (code'[c].state # "used" /\ code[c].state # "used")
    BY <1>1, <1>3 DEF Purged, NoCode
<1>4. \A c \in Codes : c # k => result'[c] = result[c]
    BY <1>1 DEF TypeOK
<1>5. result'[k] \in {NoDevice, e}
    BY <1>1, PairInvParts DEF TypeOK
<1>6. \A c \in Codes : code[c].state = "used" => code[c].dev # e /\ code[c].dev \in Devices
    BY <1>1, PairInvParts DEF UsedRow
<1>7. ASSUME NEW d \in Devices, device'[d] # "none"
      PROVE  \E c \in Codes : code'[c].state = "used" /\ code'[c].dev = d
    <2>1. CASE d = e
        BY <1>2, <2>1
    <2>2. CASE d # e
        <3>1. device[d] # "none"
            BY <1>1, <1>7, <2>2 DEF TypeOK
        <3>2. PICK c \in Codes : code[c].state = "used" /\ code[c].dev = d
            BY <3>1, PairInvParts
        <3>3. c # k /\ code'[c] = code[c]
            BY <1>1, <1>3, <3>2
        <3> QED
            BY <3>2, <3>3
    <2> QED
        BY <2>1, <2>2
<1>8. ASSUME NEW c \in Codes, code'[c].state = "used" PROVE UsedRow(c)'
    <2>1. CASE c = k
        BY <1>1, <1>2, <1>5, <2>1 DEF UsedRow, TypeOK
    <2>2. CASE c # k
        <3>1. code'[c] = code[c] /\ code[c].state = "used" /\ result'[c] = result[c]
            BY <1>3, <1>4, <1>8, <2>2
        <3>2. UsedRow(c) /\ code[c].dev # e
            BY <1>6, <3>1, PairInvParts
        <3> QED
            BY <1>1, <3>1, <3>2 DEF UsedRow, TypeOK
    <2> QED
        BY <2>1, <2>2
<1>9. \A b, c \in Codes :
          code'[b].state = "used" /\ code'[c].state = "used" /\ code'[b].dev = code'[c].dev
          => b = c
    BY <1>2, <1>3, <1>6, PairInvParts
<1>10. \A c \in Codes : code'[c].state # "used" => result'[c] = NoDevice
    BY <1>2, <1>3, <1>4, PairInvParts
<1> QED
    BY <1>7, <1>8, <1>9, <1>10, ConstantsOK DEF PairInv, PairedOnce, Shown, UsedRow

LEMMA RevokedRows ==
    ASSUME NEW ds, RevokeRows(ds)
    PROVE  \A d \in Devices : device'[d] = "none" <=> device[d] = "none"
BY DEF RevokeRows

LEMMA PairInvStep ==
    ASSUME TypeOK, PairInv, [Next]_vars
    PROVE  PairInv'
<1> DEFINE Exist == \A d \in Devices : device'[d] = "none" <=> device[d] = "none"
<1>1. CASE UNCHANGED <<code, result>> /\ Exist
    BY <1>1, SameCodes DEF Same
<1>2. CASE CodeStep
    BY <1>2, CodeFrame, CodeSame, SameCodes
<1>3. CASE RevokeStep
    <2>1. Exist
        <3>1. ASSUME NEW r \in Requests, RevokeMe(r) PROVE Exist
            BY <3>1, RevokedRows DEF RevokeMe, Revoke
        <3>2. ASSUME NEW ds \in SUBSET Devices, RevokeFromPage(ds) PROVE Exist
            BY <3>2, RevokedRows DEF RevokeFromPage, Revoke
        <3>3. CASE DisconnectLocally
            BY <3>3 DEF DisconnectLocally
        <3>4. CASE WebStops
            BY <3>4, StopEffects, RevokedRows
        <3>5. ASSUME NEW r \in Requests, Clear(r) PROVE Exist
            BY <3>5 DEF Clear
        <3> QED
            BY <1>3, <3>1, <3>2, <3>3, <3>4, <3>5 DEF RevokeStep
    <2> QED
        BY <1>1, <1>3, <2>1, RevokeFrame
<1>4. CASE PairStep
    BY <1>4, PairPairs DEF PairStep
<1>5. CASE QuietStep \/ RequestStep \/ SockStep \/ MarkStep
    BY <1>1, <1>5, QuietFrame, RequestFrame, SockFrame, MarkFrame
<1> QED
    BY <1>2, <1>3, <1>4, <1>5, StepsAreGrouped

\* pairing.py:132-165, for any number of codes, devices, attempts and faults: a
\* code pairs one device, whose row it names, and the page shows no other one.
THEOREM CodesPairOnce == Spec => []PairedOnce
<1>1. Init => PairInv
    BY DEF Init, PairInv, PairedOnce, NoCode
<1>2. TypeOK /\ PairInv /\ [Next]_vars => PairInv'
    BY PairInvStep
<1>3. PairInv => PairedOnce
    BY DEF PairInv
<1> QED
    BY <1>1, <1>2, <1>3, TypeCorrect, PTL DEF Spec
=============================================================================
