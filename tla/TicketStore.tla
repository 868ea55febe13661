----------------------------- MODULE TicketStore -----------------------------
(***************************************************************************)
(* The rows one ER (one store) keeps in PostgreSQL, and one operator per   *)
(* database transaction of the ticket, queue, counter and ER services of   *)
(* apps/backend.  Every service filters by erId, so one ER is modelled.    *)
(*                                                                         *)
(* A handler reads rows BEFORE it opens its transaction and uses what it   *)
(* read inside it.  Each transaction therefore takes the row read earlier  *)
(* as the parameter "pre".  TicketQueue runs a request from end to end     *)
(* (pre is the current row); TicketQueueConcurrent lets other requests in  *)
(* between.                                                                *)
(***************************************************************************)
EXTENDS Integers, FiniteSets

CONSTANTS
  Tickets,      \* ids of ticket rows
  Reps,         \* representatives
  Counters,     \* counters (caixas) of the ER
  Operators,    \* staff with role OPERATOR
  Staff,        \* one user with role ATTENDANT, MANAGER or ADMIN
  None,         \* SQL NULL
  MaxDay,       \* bound: business days modelled
  MaxSequence   \* bound: positions handed out per daily queue

ASSUME NoneAssumption == None \notin Tickets \cup Reps \cup Counters \cup Operators
ASSUME StaffAssumption == Staff \notin Operators
ASSUME FiniteAssumption == IsFiniteSet(Tickets)
ASSUME BoundAssumption == MaxDay \in Nat \ {0} /\ MaxSequence \in Nat \ {0}

VARIABLES
  tickets,      \* table tickets
  counters,     \* table counters
  queues,       \* table queues, one row per business date
  er,           \* the row of table ers
  today         \* getBusinessDate()

vars == <<tickets, counters, queues, er, today>>

-----------------------------------------------------------------------------
(* Types.  calledAt and pausedAt are abstracted to what _isCallExpired and *)
(* _isPauseExpired read of them: "overdue" is TRUE once the ER's tolerance *)
(* for the call or the pause the ticket is in has run out.                 *)

Days == 1 .. MaxDay
Positions == 1 .. MaxSequence

AT_COUNTER == {"CALLING", "IN_SERVICE"}
ACTIVE_STATES == {"WAITING", "CALLING", "IN_SERVICE", "PAUSED"}
TicketState == ACTIVE_STATES \cup {"FINISHED", "NO_SHOW", "CANCELLED"}
CounterState == {"UNAVAILABLE", "ACTIVE", "CALLING", "IN_SERVICE", "PAUSED"}

Codes == (0 .. 25) \X (1 .. 999)

Ticket ==
  [state: TicketState, rep: Reps, day: Days, position: Positions, code: Codes,
   priority: BOOLEAN, counter: Counters \cup {None},
   operator: Operators \cup {None}, started: BOOLEAN, overdue: BOOLEAN]

\* An id of Tickets no row has been inserted for yet.
NoRow ==
  [state |-> "ABSENT", rep |-> None, day |-> 0, position |-> 0, code |-> <<0, 0>>,
   priority |-> FALSE, counter |-> None, operator |-> None,
   started |-> FALSE, overdue |-> FALSE]

Counter == [state: CounterState, operator: Operators \cup {None}]
Queue == [exists: BOOLEAN, nextSequence: 0 .. MaxSequence, closed: BOOLEAN]

(* dayOpenedOn is the business date of ers.dayOpenedAt, 0 while it is NULL. *)
ER == [isDayOpen: BOOLEAN, dayOpenedOn: 0 .. MaxDay]

TypeOK ==
  /\ tickets \in [Tickets -> Ticket \cup {NoRow}]
  /\ counters \in [Counters -> Counter]
  /\ queues \in [Days -> Queue]
  /\ er \in ER
  /\ today \in Days

Init ==
  /\ tickets = [t \in Tickets |-> NoRow]
  /\ counters = [c \in Counters |-> [state |-> "UNAVAILABLE", operator |-> None]]
  /\ queues = [d \in Days |-> [exists |-> FALSE, nextSequence |-> 0, closed |-> FALSE]]
  /\ er = [isDayOpen |-> FALSE, dayOpenedOn |-> 0]
  /\ today = 1

-----------------------------------------------------------------------------
(* Queue rows and codes *)

(* _generateCode: letters advance every 999 sequences and wrap after Z. *)
GenerateCode(seq) == <<((seq - 1) \div 999) % 26, ((seq - 1) % 999) + 1>>

(* queue.upsert of create, restore and _resumeToEndOfQueue: the row of the *)
(* business date is created open if there is none; the sequence it returns *)
(* is the position of the ticket.                                          *)
\* Fault: the position is the sequence read before the increment.
NextPositionBeforeIncrement(day) == queues[day].nextSequence

NextPosition(day) == queues[day].nextSequence + 1

UpsertQueue(day) ==
  /\ queues[day].nextSequence < MaxSequence
  /\ queues' = [queues EXCEPT ![day].exists = TRUE, ![day].nextSequence = @ + 1]

(* ORDER BY isPriority DESC, queuePosition ASC *)
Precedes(a, b) ==
  \/ a.priority /\ ~b.priority
  \/ a.priority = b.priority /\ a.position < b.position

Waiting(day) == {t \in Tickets : tickets[t].state = "WAITING" /\ tickets[t].day = day}

IsHead(t, day) ==
  /\ t \in Waiting(day)
  /\ \A u \in Waiting(day) \ {t} : Precedes(tickets[t], tickets[u])

\* Fault: the count of a normal ticket forgets the preferential ones.
WaitingPositionCountOneBucket(ticket) ==
  Cardinality({u \in Waiting(ticket.day) :
    /\ tickets[u].priority = ticket.priority
    /\ tickets[u].position <= ticket.position})

(* _waitingPositionCount: waiting tickets called before or together with   *)
(* the given one, counted bucket by bucket.                                *)
WaitingPositionCount(ticket) ==
  Cardinality({u \in Waiting(ticket.day) :
    \/ ~ticket.priority /\ tickets[u].priority
    \/ /\ tickets[u].priority = ticket.priority
       /\ tickets[u].position <= ticket.position})

\* Fault: a paused ticket does not count as active.
HasActiveTicketButPaused(rep, except) ==
  \E t \in Tickets \ except :
     tickets[t].rep = rep /\ tickets[t].state \in ACTIVE_STATES \ {"PAUSED"}

HasActiveTicket(rep, except) ==
  \E t \in Tickets \ except :
     tickets[t].rep = rep /\ tickets[t].state \in ACTIVE_STATES

-----------------------------------------------------------------------------
(* Writes shared by several transactions *)

SetTicket(t, row) == tickets' = [tickets EXCEPT ![t] = row]

(* counter.update by id, whatever state the counter is in. *)
SetCounterState(c, state) ==
  counters' = [counters EXCEPT ![c].state = state]

(* if (ticket.counterId) counter.update(...) *)
FreeCounterIfAny(c) ==
  IF c = None THEN UNCHANGED counters ELSE SetCounterState(c, "ACTIVE")

(* counter.updateMany guarded by the state of the counter. *)
FreeCounterIn(c, states) ==
  IF c # None /\ counters[c].state \in states
    THEN SetCounterState(c, "ACTIVE")
    ELSE UNCHANGED counters

ReleaseAllCounters ==
  counters' = [c \in Counters |->
                 IF counters[c].state = "UNAVAILABLE" THEN counters[c]
                 ELSE [state |-> "UNAVAILABLE", operator |-> None]]

-----------------------------------------------------------------------------
(* TicketService: one operator per transaction *)

InsertTicket(t, rep, day, priority) ==
  /\ tickets[t] = NoRow
  /\ UpsertQueue(day)
  /\ SetTicket(t,
       [state |-> "WAITING", rep |-> rep, day |-> day,
        position |-> NextPosition(day), code |-> GenerateCode(NextPosition(day)),
        priority |-> priority, counter |-> None, operator |-> None,
        started |-> FALSE, overdue |-> FALSE])
  /\ UNCHANGED <<counters, er, today>>

SelfCancelTx(t) ==
  /\ tickets[t].state \in {"WAITING", "PAUSED"}
  /\ SetTicket(t, [tickets[t] EXCEPT !.state = "CANCELLED", !.overdue = FALSE])
  /\ UNCHANGED <<counters, queues, er, today>>

CancelTx(t) ==
  /\ tickets[t].state \in ACTIVE_STATES
  /\ SetTicket(t, [tickets[t] EXCEPT !.state = "CANCELLED", !.overdue = FALSE])
  /\ FreeCounterIfAny(tickets[t].counter)
  /\ UNCHANGED <<queues, er, today>>

\* Fault: the date of the start of the service is not looked at.
RestorableEvenServed(ticket) == ticket.state \in {"NO_SHOW", "CANCELLED"}

(* The OR of restore's updateMany. *)
Restorable(ticket) ==
  \/ ticket.state = "NO_SHOW"
  \/ ticket.state = "CANCELLED" /\ ~ticket.started

\* Fault: the restored ticket gets its old place in the line back.
RestoreTxInPlace(t, day) ==
  /\ Restorable(tickets[t])
  /\ UpsertQueue(day)
  /\ SetTicket(t, [tickets[t] EXCEPT
       !.state = "WAITING", !.counter = None, !.operator = None, !.started = FALSE])
  /\ UNCHANGED <<counters, er, today>>

\* Fault: the restored ticket stays linked to the counter that called it.
RestoreTxStillLinked(t, day) ==
  /\ Restorable(tickets[t])
  /\ UpsertQueue(day)
  /\ SetTicket(t, [tickets[t] EXCEPT
       !.state = "WAITING", !.day = day, !.position = NextPosition(day),
       !.started = FALSE])
  /\ UNCHANGED <<counters, er, today>>

RestoreTx(t, day) ==
  /\ Restorable(tickets[t])
  /\ UpsertQueue(day)
  /\ SetTicket(t, [tickets[t] EXCEPT
       !.state = "WAITING", !.day = day, !.position = NextPosition(day),
       !.counter = None, !.operator = None, !.started = FALSE])
  /\ UNCHANGED <<counters, er, today>>

RecallTx(t, o) ==
  /\ tickets[t].state = "CALLING" /\ tickets[t].operator = o
  /\ SetTicket(t, [tickets[t] EXCEPT !.overdue = FALSE])
  /\ UNCHANGED <<counters, queues, er, today>>

(* restrictTo is the operator of the request, None for the integration. *)
OwnedBy(ticket, restrictTo) == restrictTo # None => ticket.operator = restrictTo

TransitionToInService(t, pre, restrictTo) ==
  /\ pre.counter # None
  /\ tickets[t].state = "CALLING" /\ OwnedBy(tickets[t], restrictTo)
  /\ SetTicket(t, [tickets[t] EXCEPT !.state = "IN_SERVICE", !.started = TRUE, !.overdue = FALSE])
  /\ SetCounterState(pre.counter, "IN_SERVICE")
  /\ UNCHANGED <<queues, er, today>>

\* Fault: a service already finished is finished again.
TransitionToFinishedAgain(t, pre, restrictTo) ==
  /\ pre.counter # None
  /\ tickets[t].state \in {"IN_SERVICE", "FINISHED"} /\ OwnedBy(tickets[t], restrictTo)
  /\ SetTicket(t, [tickets[t] EXCEPT !.state = "FINISHED"])
  /\ SetCounterState(pre.counter, "ACTIVE")
  /\ UNCHANGED <<queues, er, today>>

TransitionToFinished(t, pre, restrictTo) ==
  /\ pre.counter # None
  /\ tickets[t].state = "IN_SERVICE" /\ OwnedBy(tickets[t], restrictTo)
  /\ SetTicket(t, [tickets[t] EXCEPT !.state = "FINISHED"])
  /\ SetCounterState(pre.counter, "ACTIVE")
  /\ UNCHANGED <<queues, er, today>>

MarkNoShow(t, pre, o) ==
  /\ tickets[t].state = "CALLING" /\ tickets[t].operator = o
  /\ SetTicket(t, [tickets[t] EXCEPT !.state = "NO_SHOW", !.overdue = FALSE])
  /\ SetCounterState(pre.counter, "ACTIVE")
  /\ UNCHANGED <<queues, er, today>>

CorrectTx(t, pre, target) ==
  /\ tickets[t].state = "IN_SERVICE"
  /\ SetTicket(t, [tickets[t] EXCEPT !.state = target])
  /\ FreeCounterIfAny(pre.counter)
  /\ UNCHANGED <<queues, er, today>>

\* Fault: the update does not compare the state of the ticket again.
ExpireCallTimeoutAsRead(t, pre) ==
  /\ SetTicket(t, [tickets[t] EXCEPT !.state = "NO_SHOW", !.overdue = FALSE])
  /\ FreeCounterIn(pre.counter, {"CALLING"})
  /\ UNCHANGED <<queues, er, today>>

(* _expireCallTimeout and one iteration of sweepExpiredCalls. *)
ExpireCallTimeout(t, pre) ==
  /\ tickets[t].state = "CALLING"
  /\ SetTicket(t, [tickets[t] EXCEPT !.state = "NO_SHOW", !.overdue = FALSE])
  /\ FreeCounterIn(pre.counter, {"CALLING"})
  /\ UNCHANGED <<queues, er, today>>

PauseTx(t) ==
  /\ tickets[t].state = "WAITING"
  /\ SetTicket(t, [tickets[t] EXCEPT !.state = "PAUSED"])
  /\ UNCHANGED <<counters, queues, er, today>>

\* Fault: pausing a ticket at a counter leaves the counter busy.
StaffPauseTxKeepsCounter(t, pre) ==
  /\ tickets[t].state = pre.state
  /\ SetTicket(t, [tickets[t] EXCEPT
       !.state = "PAUSED", !.counter = None, !.operator = None,
       !.started = FALSE, !.overdue = FALSE])
  /\ UNCHANGED <<counters, queues, er, today>>

StaffPauseTx(t, pre) ==
  /\ tickets[t].state = pre.state
  /\ SetTicket(t, [tickets[t] EXCEPT
       !.state = "PAUSED", !.counter = None, !.operator = None,
       !.started = FALSE, !.overdue = FALSE])
  /\ FreeCounterIn(pre.counter, AT_COUNTER)
  /\ UNCHANGED <<queues, er, today>>

ResumeInPlace(t) ==
  /\ tickets[t].state = "PAUSED"
  /\ SetTicket(t, [tickets[t] EXCEPT !.state = "WAITING", !.overdue = FALSE])
  /\ UNCHANGED <<counters, queues, er, today>>

\* Fault: the ticket moves to the queue of the day with its old place.
ResumeToEndOfQueueOldPlace(t, day) ==
  /\ UpsertQueue(day)
  /\ IF tickets[t].state = "PAUSED"
       THEN SetTicket(t, [tickets[t] EXCEPT
              !.state = "WAITING", !.day = day, !.overdue = FALSE])
       ELSE UNCHANGED tickets
  /\ UNCHANGED <<counters, er, today>>

(* The sequence is taken before the compare-and-swap, and stays taken when *)
(* the ticket has left PAUSED meanwhile: the transaction commits.          *)
ResumeToEndOfQueue(t, day) ==
  /\ UpsertQueue(day)
  /\ IF tickets[t].state = "PAUSED"
       THEN SetTicket(t, [tickets[t] EXCEPT
              !.state = "WAITING", !.day = day, !.position = NextPosition(day),
              !.code = GenerateCode(NextPosition(day)), !.overdue = FALSE])
       ELSE UNCHANGED tickets
  /\ UNCHANGED <<counters, er, today>>

SetTicketPriorityTx(t, isPriority) ==
  /\ tickets[t].state \in {"WAITING", "PAUSED"}
  /\ tickets[t].priority = ~isPriority
  /\ SetTicket(t, [tickets[t] EXCEPT !.priority = isPriority])
  /\ UNCHANGED <<counters, queues, er, today>>

(* _assertOperatorActiveCounter *)
HasActiveCounter(user, ticketCounter) ==
  user \in Operators =>
    \E c \in Counters :
      /\ counters[c].operator = user
      /\ counters[c].state \in {"ACTIVE", "CALLING", "IN_SERVICE"}
      /\ ticketCounter \in {None, c}

-----------------------------------------------------------------------------
(* QueueService.callNext *)

HasOpenTicket(o) ==
  \E t \in Tickets : tickets[t].operator = o /\ tickets[t].state \in AT_COUNTER

\* Fault: the operator may call with a ticket still open.
MayCallWithOpenTicket(c, o) ==
  counters[c].operator = o /\ counters[c].state = "ACTIVE"

MayCall(c, o) ==
  /\ counters[c].operator = o /\ counters[c].state = "ACTIVE"
  /\ ~HasOpenTicket(o)

CallTicket(t, c, o) ==
  /\ SetTicket(t, [tickets[t] EXCEPT
       !.state = "CALLING", !.counter = c, !.operator = o])
  /\ SetCounterState(c, "CALLING")
  /\ UNCHANGED <<queues, er, today>>

-----------------------------------------------------------------------------
(* CounterService *)

MayOpen(c, o) ==
  /\ er.isDayOpen
  /\ counters[c].operator \in {None, o} /\ counters[c].state = "UNAVAILABLE"
  /\ \A d \in Counters \ {c} : counters[d].operator = o => counters[d].state = "UNAVAILABLE"

(* The compare-and-swap and the unique index on counters.operatorId. *)
OpenTx(c, o) ==
  /\ counters[c].state = "UNAVAILABLE" /\ counters[c].operator = None
  /\ \A d \in Counters : counters[d].operator # o
  /\ counters' = [counters EXCEPT ![c] = [state |-> "ACTIVE", operator |-> o]]
  /\ UNCHANGED <<tickets, queues, er, today>>

PauseCounterTx(c, o) ==
  /\ counters[c] = [state |-> "ACTIVE", operator |-> o]
  /\ SetCounterState(c, "PAUSED")
  /\ UNCHANGED <<tickets, queues, er, today>>

ResumeCounterTx(c, o) ==
  /\ counters[c] = [state |-> "PAUSED", operator |-> o]
  /\ SetCounterState(c, "ACTIVE")
  /\ UNCHANGED <<tickets, queues, er, today>>

OpenTicketsAt(c) ==
  {t \in Tickets : tickets[t].counter = c /\ tickets[t].state \in AT_COUNTER}

\* Fault: the state of the counter is not compared again.
CloseTxByOwner(c, o) ==
  /\ counters[c].operator = o
  /\ counters' = [counters EXCEPT ![c] = [state |-> "UNAVAILABLE", operator |-> None]]
  /\ UNCHANGED <<tickets, queues, er, today>>

CloseTx(c, o) ==
  /\ counters[c].operator = o /\ counters[c].state \in {"ACTIVE", "PAUSED"}
  /\ counters' = [counters EXCEPT ![c] = [state |-> "UNAVAILABLE", operator |-> None]]
  /\ UNCHANGED <<tickets, queues, er, today>>

(* findFirst returns one open ticket of the counter, or none. *)
FirstOpenTicket(c) == IF OpenTicketsAt(c) = {} THEN {None} ELSE OpenTicketsAt(c)

ForceReleaseTx(c, open, readState) ==
  /\ IF open = None
       THEN UNCHANGED tickets
       ELSE SetTicket(open, [tickets[open] EXCEPT
              !.state = IF readState = "IN_SERVICE" THEN "FINISHED" ELSE "NO_SHOW",
              !.overdue = FALSE])
  /\ counters' = [counters EXCEPT ![c] = [state |-> "UNAVAILABLE", operator |-> None]]
  /\ UNCHANGED <<queues, er, today>>

-----------------------------------------------------------------------------
(* ERService *)

DayAlreadyOpen(day) == er.isDayOpen /\ queues[day].exists /\ ~queues[day].closed

\* Fault: paused tickets of earlier days are left alone.
StaleTicketsButPaused(day) ==
  {t \in Tickets : tickets[t].state \in ACTIVE_STATES \ {"PAUSED"} /\ tickets[t].day < day}

(* Rows _forceCloseStaleTickets selects, by PENDING_TICKET_STATES. *)
StaleTickets(day) ==
  {t \in Tickets : tickets[t].state \in ACTIVE_STATES /\ tickets[t].day < day}

\* Fault: reopening a day starts its sequence again.
OpenDayTxRestartsSequence(day, stale) ==
  /\ tickets' = [t \in Tickets |->
                   IF t \in stale THEN [tickets[t] EXCEPT !.state = "NO_SHOW", !.overdue = FALSE]
                   ELSE tickets[t]]
  /\ ReleaseAllCounters
  /\ queues' = [queues EXCEPT ![day] = [exists |-> TRUE, nextSequence |-> 0, closed |-> FALSE]]
  /\ er' = [isDayOpen |-> TRUE, dayOpenedOn |-> day]
  /\ UNCHANGED today

OpenDayTx(day, stale) ==
  /\ tickets' = [t \in Tickets |->
                   IF t \in stale THEN [tickets[t] EXCEPT !.state = "NO_SHOW", !.overdue = FALSE]
                   ELSE tickets[t]]
  /\ ReleaseAllCounters
  /\ queues' = [queues EXCEPT ![day].exists = TRUE, ![day].closed = FALSE]
  /\ er' = [isDayOpen |-> TRUE, dayOpenedOn |-> day]
  /\ UNCHANGED today

InDay(day, states) ==
  {t \in Tickets : tickets[t].day = day /\ tickets[t].state \in states}

(* The count that blocks closeDay. *)
PendingTickets(day) == InDay(day, {"WAITING", "CALLING", "PAUSED"})

\* Fault: closing the day leaves the counters as they are.
CloseDayTxKeepsCounters(day, inService) ==
  /\ tickets' = [t \in Tickets |->
                   IF t \in inService THEN [tickets[t] EXCEPT !.state = "FINISHED", !.overdue = FALSE]
                   ELSE tickets[t]]
  /\ queues' = [queues EXCEPT ![day].closed = queues[day].exists]
  /\ er' = [er EXCEPT !.isDayOpen = FALSE]
  /\ UNCHANGED <<counters, today>>

CloseDayTx(day, inService) ==
  /\ tickets' = [t \in Tickets |->
                   IF t \in inService THEN [tickets[t] EXCEPT !.state = "FINISHED", !.overdue = FALSE]
                   ELSE tickets[t]]
  /\ ReleaseAllCounters
  /\ queues' = [queues EXCEPT ![day].closed = queues[day].exists]
  /\ er' = [er EXCEPT !.isDayOpen = FALSE]
  /\ UNCHANGED today

-----------------------------------------------------------------------------
(* The clock.  A tolerance of the ER runs out while a ticket is called or  *)
(* paused; the business date advances at midnight.                         *)

ToleranceElapses(t) ==
  /\ tickets[t].state \in {"CALLING", "PAUSED"} /\ ~tickets[t].overdue
  /\ SetTicket(t, [tickets[t] EXCEPT !.overdue = TRUE])
  /\ UNCHANGED <<counters, queues, er, today>>

Midnight ==
  /\ today < MaxDay
  /\ today' = today + 1
  /\ UNCHANGED <<tickets, counters, queues, er>>

Clock ==
  \/ \E t \in Tickets : ToleranceElapses(t)
  \/ Midnight

-----------------------------------------------------------------------------
(* What the rows must satisfy *)

(* A representative has at most one ticket in the four states the partial  *)
(* unique index of migration 20260610220000 covers, whichever of create,   *)
(* restore, resume and expiry put them there.                              *)
OneActivePerRep ==
  \A t, u \in Tickets :
    /\ tickets[t].state \in {"WAITING", "CALLING", "IN_SERVICE", "PAUSED"}
    /\ tickets[u].state \in {"WAITING", "CALLING", "IN_SERVICE", "PAUSED"}
    /\ tickets[t].rep = tickets[u].rep
    => t = u

(* No operator has two tickets called or in service, at one counter or at  *)
(* two: the check of callNext survives every way a counter changes hands.  *)
OneOpenTicketPerOperator ==
  \A t, u \in Tickets :
    /\ tickets[t].state \in AT_COUNTER /\ tickets[u].state \in AT_COUNTER
    /\ tickets[t].operator = tickets[u].operator
    => t = u

(* While the day is open, a counter is busy exactly when one ticket is at  *)
(* it, in the same state and with the same operator: no counter is stuck   *)
(* in CALLING or IN_SERVICE without a ticket, none is ACTIVE under one.    *)
CounterServesItsTicket ==
  er.isDayOpen =>
    /\ \A t \in Tickets : tickets[t].state \in AT_COUNTER =>
         /\ tickets[t].counter # None
         /\ counters[tickets[t].counter] =
              [state |-> tickets[t].state, operator |-> tickets[t].operator]
    /\ \A c \in Counters : counters[c].state \in AT_COUNTER =>
         \E t \in OpenTicketsAt(c) : OpenTicketsAt(c) = {t}

(* A ticket in the line or paused names no counter and no operator, so     *)
(* that cancelling or pausing it again cannot free a counter at work.      *)
QueuedTicketsHoldNoCounter ==
  \A t \in Tickets : tickets[t].state \in {"WAITING", "PAUSED"} =>
    tickets[t].counter = None /\ tickets[t].operator = None

(* Two tickets never share a place of a daily queue, over reopened days,   *)
(* restores and expired pauses, and the sequence is never behind a place.  *)
PlacesAreUnique ==
  \A t \in Tickets : tickets[t] # NoRow =>
    /\ tickets[t].position <= queues[tickets[t].day].nextSequence
    /\ \A u \in Tickets \ {t} :
         tickets[u].day = tickets[t].day => tickets[u].position # tickets[t].position

(* While the day is closed no counter belongs to an operator.              *)
ClosedDayLeavesNoOwner ==
  ~er.isDayOpen => \A c \in Counters : counters[c].operator = None

(* Once the day has been opened today, no ticket of an earlier day is in   *)
(* the line, paused or at a counter.                                       *)
OpenedTodayLeavesNoStaleTicket ==
  er.isDayOpen /\ er.dayOpenedOn = today =>
    \A t \in Tickets : tickets[t].state \in ACTIVE_STATES => tickets[t].day = today

(* An unavailable counter belongs to nobody and no operator holds two.     *)
OwnersAreUnique ==
  \A c \in Counters :
    /\ counters[c].state = "UNAVAILABLE" => counters[c].operator = None
    /\ \A d \in Counters \ {c} :
         counters[c].operator = counters[d].operator => counters[c].operator = None

(* A ticket called or in service names the counter and the operator.       *)
OpenTicketsAreAssigned ==
  \A t \in Tickets : tickets[t].state \in AT_COUNTER =>
    tickets[t].counter \in Counters /\ tickets[t].operator \in Operators

(* Queues exist, tickets hang on them and the day is opened up to today;   *)
(* only a queue that exists is closed, and not while today is open.        *)
DatesAreOrdered ==
  /\ \A t \in Tickets : tickets[t] # NoRow => queues[tickets[t].day].exists
  /\ \A d \in Days : queues[d].exists => d <= today
  /\ \A d \in Days : queues[d].closed => queues[d].exists
  /\ er.dayOpenedOn <= today
  /\ er.isDayOpen => ~queues[today].closed

(* What the closing of a day leaves at the counters, only tickets of       *)
(* earlier days, is what the next opening resolves.                        *)
ClosedDayLeavesOnlyEarlierCalls ==
  ~er.isDayOpen =>
    \A t \in Tickets : tickets[t].state \in AT_COUNTER => tickets[t].day < today

(* The position shown to a representative is her rank in the order in      *)
(* which callNext calls the tickets of her queue.                          *)
PositionIsCallRank ==
  \A d \in Days : \A t \in Waiting(d) :
    WaitingPositionCount(tickets[t]) =
      1 + Cardinality({u \in Waiting(d) : Precedes(tickets[u], tickets[t])})

==============================================================================
