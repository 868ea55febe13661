------------------------ MODULE TicketQueueConcurrent ------------------------
(***************************************************************************)
(* The ticket queue of one ER when requests overlap.                       *)
(*                                                                         *)
(* PostgreSQL runs the transactions at READ COMMITTED.  A request in       *)
(* flight holds what it has read (a ticket row, the open ticket of a       *)
(* counter, the business date) while other requests commit, and then       *)
(* commits itself.  A guarded updateMany evaluates its WHERE on the row it *)
(* locks, so the guard and the write of a commit are one step.             *)
(*                                                                         *)
(* Two locks order the requests.  callNext holds the row of its counter    *)
(* from its checks to its commit: LockedCounters.  create, restore,        *)
(* openDay and closeDay hold the row of the ER FOR UPDATE; every other     *)
(* transaction inserts an audit event, whose foreign key takes the same    *)
(* row FOR KEY SHARE and waits, so nothing commits between the first check *)
(* of one of these four and its commit: they are one step after the lock,  *)
(* and what they bring from before it is the business date.                *)
(***************************************************************************)
EXTENDS TicketQueue

CONSTANTS
  Procs,        \* bound: requests in flight at the same time
  Overlapping   \* kinds of requests that may be in flight

VARIABLE requests

cvars == <<tickets, counters, queues, er, today, requests>>

TicketKinds ==
  {"startService", "finishService", "noShow", "advanceToInService",
   "completeService", "correct", "staffPause", "staffResume", "expireCall",
   "expirePause"}
CounterKinds == {"openCounter", "closeCounter", "forceRelease", "callNext"}
ERKinds == {"create", "restore", "openDay", "closeDay"}
Kinds == TicketKinds \cup CounterKinds \cup ERKinds

ASSUME OverlappingAssumption == Overlapping \subseteq Kinds

(* What a transaction uses of a ticket row read before it. *)
Read(t) == [state |-> tickets[t].state, counter |-> tickets[t].counter]
NothingRead == [state |-> "ABSENT", counter |-> None]

Request ==
  [kind: Kinds \cup {"idle"}, ticket: Tickets \cup {None},
   pre: [state: TicketState \cup {"ABSENT"}, counter: Counters \cup {None}],
   operator: Operators \cup {None}, counter: Counters \cup {None},
   day: 0 .. MaxDay]

Idle ==
  [kind |-> "idle", ticket |-> None, pre |-> NothingRead, operator |-> None,
   counter |-> None, day |-> 0]

CTypeOK == TypeOK /\ requests \in [Procs -> Request]

CInit == Init /\ requests = [p \in Procs |-> Idle]

(* SELECT ... FOR UPDATE on a counter. *)
LockedCounters ==
  {requests[p].counter : p \in {q \in Procs : requests[q].kind = "callNext"}}

-----------------------------------------------------------------------------
(* Reading: from the start of a request to its transaction *)

Begin(p, request) ==
  /\ requests[p] = Idle
  /\ request.kind \in Overlapping
  /\ requests' = [requests EXCEPT ![p] = request]
  /\ UNCHANGED vars

(* The checks each handler makes on the row it has read. *)
MayBegin(kind, t, user) ==
  \/ /\ kind \in {"startService", "finishService", "noShow"}
     /\ user \in Operators /\ AssignedTo(t, user)
  \/ /\ kind = "advanceToInService" /\ user = None
     /\ tickets[t].state = "CALLING"
  \/ /\ kind \in {"completeService", "correct"} /\ user = None
     /\ tickets[t].state = "IN_SERVICE"
  \/ /\ kind = "staffPause" /\ user # None
     /\ tickets[t].state \in {"WAITING", "CALLING", "IN_SERVICE"}
     /\ er.isDayOpen /\ HasActiveCounter(user, tickets[t].counter)
  \/ /\ kind = "staffResume" /\ user # None
     /\ tickets[t].state = "PAUSED"
     /\ er.isDayOpen /\ HasActiveCounter(user, None)
  \/ /\ kind = "expireCall" /\ user = None
     /\ tickets[t].state = "CALLING" /\ tickets[t].overdue
  \/ /\ kind = "expirePause" /\ user = None
     /\ tickets[t].state = "PAUSED" /\ tickets[t].overdue

(* The operator of a transition is checked again by its transaction; the   *)
(* user of a pause is not.                                                 *)
BeginTicketRequest(p, kind, t, user) ==
  /\ MayBegin(kind, t, user)
  /\ Begin(p, [Idle EXCEPT
       !.kind = kind, !.ticket = t, !.pre = Read(t),
       !.operator = IF kind \in {"startService", "finishService", "noShow"} THEN user ELSE None,
       !.day = IF kind = "expirePause" THEN today ELSE 0])

BeginOpenCounter(p, c, o) ==
  /\ MayOpen(c, o)
  /\ Begin(p, [Idle EXCEPT !.kind = "openCounter", !.counter = c, !.operator = o])

BeginCloseCounter(p, c, o) ==
  /\ counters[c].operator = o /\ counters[c].state \in {"ACTIVE", "PAUSED"}
  /\ OpenTicketsAt(c) = {}
  /\ Begin(p, [Idle EXCEPT !.kind = "closeCounter", !.counter = c, !.operator = o])

BeginForceRelease(p, c) ==
  \E open \in FirstOpenTicket(c) :
    Begin(p, [Idle EXCEPT
      !.kind = "forceRelease", !.counter = c, !.ticket = open,
      !.pre = IF open = None THEN NothingRead ELSE Read(open)])

(* callNext up to its SELECT of the head: the counter is locked, the       *)
(* operator has no open ticket, the queue of today exists.                 *)
BeginCallNext(p, c, o) ==
  /\ c \notin LockedCounters
  /\ MayCall(c, o)
  /\ queues[today].exists
  /\ Begin(p, [Idle EXCEPT
       !.kind = "callNext", !.counter = c, !.operator = o, !.day = today])

(* getBusinessDate(), before the transaction and its lock on the ER. *)
BeginERRequest(p, kind) ==
  /\ kind \in ERKinds
  /\ Begin(p, [Idle EXCEPT !.kind = kind, !.day = today])

-----------------------------------------------------------------------------
(* Committing *)

End(p) == requests' = [requests EXCEPT ![p] = Idle]

(* A guard of the transaction fails, it is the victim of a deadlock, or    *)
(* the process dies: rollback.                                             *)
Abort(p) ==
  /\ requests[p] # Idle
  /\ End(p)
  /\ UNCHANGED vars

CommitStartService(p) ==
  LET r == requests[p] IN
  /\ r.kind \in {"startService", "advanceToInService"}
  /\ r.pre.counter \notin LockedCounters
  /\ TransitionToInService(r.ticket, r.pre, r.operator)
  /\ End(p)

CommitFinishService(p) ==
  LET r == requests[p] IN
  /\ r.kind \in {"finishService", "completeService"}
  /\ r.pre.counter \notin LockedCounters
  /\ TransitionToFinished(r.ticket, r.pre, r.operator)
  /\ End(p)

CommitNoShow(p) ==
  LET r == requests[p] IN
  /\ r.kind = "noShow"
  /\ r.pre.counter \notin LockedCounters
  /\ MarkNoShow(r.ticket, r.pre, r.operator)
  /\ End(p)

CommitCorrect(p) ==
  LET r == requests[p] IN
  /\ r.kind = "correct"
  /\ r.pre.counter \notin LockedCounters
  /\ \E target \in {"FINISHED", "CANCELLED"} : CorrectTx(r.ticket, r.pre, target)
  /\ End(p)

(* The guarded update of staffPause and of the timeouts matches no         *)
(* committed row of a counter callNext has locked: it does not wait.       *)
CommitStaffPause(p) ==
  LET r == requests[p] IN
  /\ r.kind = "staffPause"
  /\ StaffPauseTx(r.ticket, r.pre)
  /\ End(p)

CommitExpireCall(p) ==
  LET r == requests[p] IN
  /\ r.kind = "expireCall"
  /\ ExpireCallTimeout(r.ticket, r.pre)
  /\ End(p)

CommitStaffResume(p) ==
  LET r == requests[p] IN
  /\ r.kind = "staffResume"
  /\ ResumeInPlace(r.ticket)
  /\ End(p)

(* The business date is taken between the read and the transaction. *)
CommitExpirePause(p) ==
  LET r == requests[p] IN
  /\ r.kind = "expirePause"
  /\ \E day \in r.day .. today : ResumeToEndOfQueue(r.ticket, day)
  /\ End(p)

CommitOpenCounter(p) ==
  LET r == requests[p] IN
  /\ r.kind = "openCounter"
  /\ OpenTx(r.counter, r.operator)
  /\ End(p)

CommitCloseCounter(p) ==
  LET r == requests[p] IN
  /\ r.kind = "closeCounter"
  /\ r.counter \notin LockedCounters
  /\ CloseTx(r.counter, r.operator)
  /\ End(p)

CommitForceRelease(p) ==
  LET r == requests[p] IN
  /\ r.kind = "forceRelease"
  /\ r.counter \notin LockedCounters
  /\ ForceReleaseTx(r.counter, r.ticket, r.pre.state)
  /\ End(p)

CommitCallNext(p) ==
  LET r == requests[p] IN
  /\ r.kind = "callNext"
  /\ \E t \in Tickets : IsHead(t, r.day) /\ CallTicket(t, r.counter, r.operator)
  /\ End(p)

CommitCreate(p) ==
  LET r == requests[p] IN
  /\ r.kind = "create"
  /\ er.isDayOpen
  /\ \E t \in Tickets, rep \in Reps, priority \in BOOLEAN :
       ~HasActiveTicket(rep, {}) /\ InsertTicket(t, rep, r.day, priority)
  /\ End(p)

\* Fault: the active tickets are not looked up again under the lock.
CommitRestoreUnchecked(p) ==
  LET r == requests[p] IN
  /\ r.kind = "restore"
  /\ er.isDayOpen
  /\ \E t \in Tickets : RestoreTx(t, r.day)
  /\ End(p)

CommitRestore(p) ==
  LET r == requests[p] IN
  /\ r.kind = "restore"
  /\ er.isDayOpen
  /\ \E t \in Tickets :
       ~HasActiveTicket(tickets[t].rep, {t}) /\ RestoreTx(t, r.day)
  /\ End(p)

CommitOpenDay(p) ==
  LET r == requests[p] IN
  /\ r.kind = "openDay"
  /\ LockedCounters = {}
  /\ ~DayAlreadyOpen(r.day)
  /\ OpenDayTx(r.day, StaleTickets(r.day))
  /\ End(p)

CommitCloseDay(p) ==
  LET r == requests[p] IN
  /\ r.kind = "closeDay"
  /\ LockedCounters = {}
  /\ er.isDayOpen
  /\ PendingTickets(r.day) = {}
  /\ CloseDayTx(r.day, InDay(r.day, {"IN_SERVICE"}))
  /\ End(p)

-----------------------------------------------------------------------------

BeginRequest(p) ==
  \/ \E kind \in TicketKinds, t \in Tickets, user \in Operators \cup {Staff, None} :
       BeginTicketRequest(p, kind, t, user)
  \/ \E c \in Counters, o \in Operators :
       \/ BeginOpenCounter(p, c, o)
       \/ BeginCloseCounter(p, c, o)
       \/ BeginCallNext(p, c, o)
  \/ \E c \in Counters : BeginForceRelease(p, c)
  \/ \E kind \in ERKinds : BeginERRequest(p, kind)

CommitTicketRequest(p) ==
  \/ CommitStartService(p)
  \/ CommitFinishService(p)
  \/ CommitNoShow(p)
  \/ CommitCorrect(p)
  \/ CommitStaffPause(p)
  \/ CommitExpireCall(p)
  \/ CommitStaffResume(p)
  \/ CommitExpirePause(p)

CommitCounterRequest(p) ==
  \/ CommitOpenCounter(p)
  \/ CommitCloseCounter(p)
  \/ CommitForceRelease(p)
  \/ CommitCallNext(p)

CommitERRequest(p) ==
  \/ CommitCreate(p)
  \/ CommitRestore(p)
  \/ CommitOpenDay(p)
  \/ CommitCloseDay(p)

(* A request that nothing overlaps; it writes no locked counter. *)
WholeRequest ==
  /\ Next
  /\ \A c \in LockedCounters : counters'[c] = counters[c]
  /\ UNCHANGED requests

CNext ==
  \/ WholeRequest
  \/ \E p \in Procs :
       \/ BeginRequest(p)
       \/ CommitTicketRequest(p)
       \/ CommitCounterRequest(p)
       \/ CommitERRequest(p)
       \/ Abort(p)

CSpec == CInit /\ [][CNext]_cvars

-----------------------------------------------------------------------------
(* What overlapping requests may never do *)

(* A step leaves a service going on or finished, or ends it as the staff   *)
(* can: by a pause, by a correction, or by opening a later day.            *)
KeepsService(t) ==
  CASE tickets[t].state = "FINISHED" -> tickets'[t].state = "FINISHED"
    [] tickets[t].state = "IN_SERVICE" ->
         \/ tickets'[t].state \in {"IN_SERVICE", "FINISHED", "PAUSED", "CANCELLED"}
         \/ er' # er /\ tickets[t].day < today
    [] OTHER -> TRUE

(* A service is paused by nobody who had not found it begun. *)
PausedByItsReader(t) ==
  tickets[t].state = "IN_SERVICE" /\ tickets'[t].state = "PAUSED" =>
    \A p \in Procs : requests'[p] # requests[p] =>
      requests[p].ticket = t /\ requests[p].pre.state = "IN_SERVICE"

Commits(p, kind) == requests[p].kind = kind /\ requests'[p] = Idle /\ vars' # vars

(* A service is lost to one request only, the forced release that read the *)
(* ticket while it was being called (counter.service.ts:205-229).  The     *)
(* timeouts, a no-show and a pause that read the ticket before the service *)
(* began, or before it ended, do not take it back.                         *)
ServiceLostOnlyToARelease ==
  [][\A t \in Tickets :
       /\ PausedByItsReader(t)
       /\ \/ KeepsService(t)
          \/ \E p \in Procs :
               /\ Commits(p, "forceRelease")
               /\ requests[p].ticket = t /\ requests[p].pre.state = "CALLING"]_cvars

-----------------------------------------------------------------------------
(* Statements of the repository that overlapping requests break: TLC finds *)
(* each one violated.                                                      *)

(* ticket-timeout.service.ts:36-40: each expired call is resolved in its   *)
(* own transaction so as not to compete with a concurrent recall: a call   *)
(* that is not overdue when the sweep writes stays a call.                 *)
SweepSparesRecalledCalls ==
  [][\A p \in Procs :
       Commits(p, "expireCall") => tickets[requests[p].ticket].overdue]_cvars

(* counter.service.ts:198-203: a forced release resolves the open ticket   *)
(* of the counter, in service to finished, called to no-show: a ticket     *)
(* whose service began is not recorded as a no-show.                       *)
ForceReleaseKeepsServiceRecord ==
  [][\A p \in Procs :
       /\ Commits(p, "forceRelease") /\ requests[p].ticket # None
       /\ tickets[requests[p].ticket].state \in {"IN_SERVICE", "FINISHED"}
       => tickets'[requests[p].ticket].state = "FINISHED"]_cvars

(* ticket.service.ts:1105-1106: the counter of a ticket paused by the      *)
(* staff is freed under a guard on its state, so as not to overwrite a     *)
(* counter that has moved on: it does not free one that serves another.    *)
StaffPauseFreesOnlyItsOwnCounter ==
  [][\A p \in Procs : Commits(p, "staffPause") =>
       \A c \in Counters : counters'[c] # counters[c] =>
         OpenTicketsAt(c) \subseteq {requests[p].ticket}]_cvars

==============================================================================
