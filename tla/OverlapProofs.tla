----------------------------- MODULE OverlapProofs -----------------------------
(***************************************************************************)
(* Theorems of TicketQueueConcurrent about operators and services: what a  *)
(* request has checked still holds when it commits, or what it has read no *)
(* longer matters, for any number of requests in flight.                   *)
(***************************************************************************)
EXTENDS TicketQueueConcurrentProofs

-----------------------------------------------------------------------------
(* No operator has two open tickets however requests overlap, for any      *)
(* number of requests in flight: what callNext checked before its commit   *)
(* still holds when it commits, by the lock on its counter alone.          *)
(*                                                                         *)
(* The lock is on the counter and the check is about the operator.  The    *)
(* two meet because no operator owns two counters.                         *)

(* What callNext has checked: its counter is free and its operator's, who  *)
(* serves nobody; no two calls in flight share a counter.                  *)
CallsInFlight == {p \in Procs : requests[p].kind = "callNext"}

Holds(c, o) == counters[c] = [state |-> "ACTIVE", operator |-> o] /\ ~HasOpenTicket(o)

HoldsAfter(c, o) ==
  /\ counters'[c] = [state |-> "ACTIVE", operator |-> o]
  /\ \A t \in Tickets : tickets'[t].state \in AT_COUNTER => tickets'[t].operator # o

CallsHoldTheirCounters ==
  \A p \in CallsInFlight :
    /\ Holds(requests[p].counter, requests[p].operator)
    /\ \A q \in CallsInFlight \ {p} : requests[q].counter # requests[p].counter

OpenTicketsHaveOperators ==
  \A t \in Tickets : tickets[t].state \in AT_COUNTER => tickets[t].operator \in Operators

RowsOfOperators == OwnersAreUnique /\ OpenTicketsHaveOperators /\ OneOpenTicketPerOperator

OperatorInv == LineInv /\ RowsOfOperators /\ CallsHoldTheirCounters

-----------------------------------------------------------------------------
(* The kinds of steps *)

(* Tickets may leave the counters; a counter keeps its operator and stays  *)
(* open, or loses its operator.                                            *)
CallsNobody ==
  /\ \A t \in Tickets : tickets'[t].state \in AT_COUNTER =>
       tickets[t].state \in AT_COUNTER /\ tickets'[t].operator = tickets[t].operator
  /\ \A c \in Counters :
       \/ counters'[c] = counters[c]
       \/ counters'[c].operator = counters[c].operator /\ counters'[c].state # "UNAVAILABLE"
       \/ counters'[c].operator = None

Opens == \E c \in Counters, o \in Operators : OpenTx(c, o)

Calls(t, c, o) == Holds(c, o) /\ CallTicket(t, c, o)

OperatorStep ==
  \/ CallsNobody
  \/ Opens
  \/ \E t \in Tickets, c \in Counters, o \in Operators :
       tickets[t].state = "WAITING" /\ Calls(t, c, o)

(* The counters the requests of Q hold are not written. *)
Spares(Q) == \A q \in Q : counters'[requests[q].counter] = counters[requests[q].counter]

-----------------------------------------------------------------------------
(* Every kind of step keeps the rows of the operators *)

LEMMA HeldAfter ==
  ASSUME \A p \in CallsInFlight' : HoldsAfter(requests'[p].counter, requests'[p].operator),
         \A p \in CallsInFlight' : \A q \in CallsInFlight' \ {p} :
           requests'[q].counter # requests'[p].counter
  PROVE  CallsHoldTheirCounters'
BY DEF CallsHoldTheirCounters, Holds, HoldsAfter, HasOpenTicket

LEMMA CallingNobodyKeepsRows ==
  ASSUME RowsOfOperators, CallsNobody
  PROVE  RowsOfOperators'
<1>. USE DEF RowsOfOperators, CallsNobody
<1>1. OwnersAreUnique'
  BY DEF OwnersAreUnique
<1>2. OpenTicketsHaveOperators'
  BY DEF OpenTicketsHaveOperators
<1>3. OneOpenTicketPerOperator'
  BY DEF OneOpenTicketPerOperator
<1>. QED
  BY <1>1, <1>2, <1>3

LEMMA OpeningKeepsRows ==
  ASSUME TypeOK, RowsOfOperators, Opens
  PROVE  RowsOfOperators'
<1>1. PICK c \in Counters, o \in Operators : OpenTx(c, o)
  BY DEF Opens
<1>2. UNCHANGED tickets /\ \A d \in Counters \ {c} : counters'[d] = counters[d]
  BY <1>1 DEF OpenTx, TypeOK
<1>3. counters'[c] = [state |-> "ACTIVE", operator |-> o]
  BY <1>1 DEF OpenTx, TypeOK
<1>4. OwnersAreUnique'
  BY <1>1, <1>2, <1>3 DEF RowsOfOperators, OwnersAreUnique, OpenTx
<1>. QED
  BY <1>2, <1>4
     DEF RowsOfOperators, OpenTicketsHaveOperators, OneOpenTicketPerOperator

(* What a call writes. *)
LEMMA CallWrites ==
  ASSUME TypeOK, NEW t \in Tickets, NEW c \in Counters, NEW o \in Operators,
         tickets[t].state = "WAITING", Calls(t, c, o)
  PROVE  /\ \A u \in Tickets \ {t} : tickets'[u] = tickets[u]
         /\ tickets'[t].state = "CALLING" /\ tickets'[t].operator = o
         /\ \A d \in Counters \ {c} : counters'[d] = counters[d]
         /\ counters'[c] = [state |-> "CALLING", operator |-> o]
<1>1. tickets[t] \in Ticket
  BY PresentRow DEF TicketState, ACTIVE_STATES
<1>. QED
  BY <1>1 DEF Calls, Holds, CallTicket, SetTicket, SetCounterState, TypeOK, Ticket, Counter

LEMMA CallingKeepsRows ==
  ASSUME TypeOK, RowsOfOperators, NEW t \in Tickets, NEW c \in Counters, NEW o \in Operators,
         tickets[t].state = "WAITING", Calls(t, c, o)
  PROVE  RowsOfOperators'
<1>1. /\ \A u \in Tickets \ {t} : tickets'[u] = tickets[u]
      /\ tickets'[t].state = "CALLING" /\ tickets'[t].operator = o
      /\ \A d \in Counters \ {c} : counters'[d] = counters[d]
      /\ counters'[c] = [state |-> "CALLING", operator |-> o]
  BY CallWrites
<1>2. counters[c].operator = o
  BY DEF Calls, Holds
<1>3. \A u \in Tickets : tickets[u].state \in AT_COUNTER => tickets[u].operator # o
  BY DEF Calls, Holds, HasOpenTicket
<1>4. OwnersAreUnique'
  BY <1>1, <1>2 DEF RowsOfOperators, OwnersAreUnique
<1>5. OpenTicketsHaveOperators'
  BY <1>1 DEF RowsOfOperators, OpenTicketsHaveOperators
<1>6. OneOpenTicketPerOperator'
  BY <1>1, <1>3 DEF RowsOfOperators, OneOpenTicketPerOperator
<1>. QED
  BY <1>4, <1>5, <1>6 DEF RowsOfOperators

LEMMA OperatorStepKeepsRows ==
  ASSUME TypeOK, RowsOfOperators, OperatorStep
  PROVE  RowsOfOperators'
BY CallingNobodyKeepsRows, OpeningKeepsRows, CallingKeepsRows DEF OperatorStep

(* A call in flight whose counter a step does not write still holds it: a  *)
(* call for its operator would have been at this counter.                  *)
LEMMA OperatorStepKeepsHold ==
  ASSUME TypeOK, RowsOfOperators, OperatorStep,
         NEW c \in Counters, NEW o \in Operators, Holds(c, o), counters'[c] = counters[c]
  PROVE  HoldsAfter(c, o)
<1>1. CASE CallsNobody
  BY <1>1 DEF Holds, HoldsAfter, HasOpenTicket, CallsNobody
<1>2. CASE Opens
  BY <1>2 DEF Holds, HoldsAfter, HasOpenTicket, Opens, OpenTx
<1>3. ASSUME NEW t \in Tickets, NEW d \in Counters, NEW u \in Operators,
             tickets[t].state = "WAITING", Calls(t, d, u)
      PROVE  HoldsAfter(c, o)
  <2>1. /\ \A v \in Tickets \ {t} : tickets'[v] = tickets[v]
        /\ tickets'[t].operator = u
        /\ counters'[d] = [state |-> "CALLING", operator |-> u]
    BY <1>3, CallWrites
  <2>2. d # c
    BY <2>1 DEF Holds
  <2>3. u # o
    <3>1. counters[c].operator = o /\ counters[d].operator = u
      BY <1>3 DEF Calls, Holds
    <3>. QED
      BY <2>2, <3>1, NoneAssumption DEF RowsOfOperators, OwnersAreUnique
  <2>. QED
    BY <2>1, <2>3 DEF Holds, HoldsAfter, HasOpenTicket
<1>. QED
  BY <1>1, <1>2, <1>3 DEF OperatorStep

-----------------------------------------------------------------------------
(* Every transaction but openTx and callTicket calls nobody, whatever      *)
(* "pre" its request has read                                              *)

CountersStayOwned ==
  \A c \in Counters :
    \/ counters'[c] = counters[c]
    \/ counters'[c].operator = counters[c].operator /\ counters'[c].state # "UNAVAILABLE"
    \/ counters'[c].operator = None

LEMMA WriteCallsNobody ==
  ASSUME TypeOK, NEW t \in Tickets, NEW row, SetTicket(t, row), CountersStayOwned,
         row.state \in AT_COUNTER =>
           tickets[t].state \in AT_COUNTER /\ row.operator = tickets[t].operator
  PROVE  CallsNobody
BY DEF CallsNobody, CountersStayOwned, SetTicket, TypeOK

LEMMA LeavingCallsNobody ==
  ASSUME TypeOK, NEW t \in Tickets, tickets[t] \in Ticket, NEW row, SetTicket(t, row),
         CountersStayOwned, row.state \notin AT_COUNTER
  PROVE  CallsNobody
BY WriteCallsNobody

LEMMA CounterWriteStaysOwned ==
  ASSUME TypeOK,
         \/ UNCHANGED counters
         \/ \E c \in Counters \cup {None}, state \in CounterState \ {"UNAVAILABLE"} :
              SetCounterState(c, state)
  PROVE  CountersStayOwned
<1>1. CASE UNCHANGED counters
  BY <1>1 DEF CountersStayOwned
<1>2. ASSUME NEW c \in Counters \cup {None}, NEW state \in CounterState \ {"UNAVAILABLE"},
             SetCounterState(c, state)
      PROVE  CountersStayOwned
  <2>1. counters' = [counters EXCEPT ![c].state = state]
    BY <1>2 DEF SetCounterState
  <2>. QED
    BY <2>1 DEF CountersStayOwned, TypeOK, Counter
<1>. QED
  BY <1>1, <1>2

LEMMA ReleaseStaysOwned ==
  ASSUME ReleaseAllCounters
  PROVE  CountersStayOwned
BY DEF ReleaseAllCounters, CountersStayOwned

(* The transactions that write one ticket and no counter.                  *)
LEMMA TicketTxCallsNobody ==
  ASSUME TypeOK, NEW t \in Tickets,
         \/ \E rep \in Reps, day \in Days, priority \in BOOLEAN :
              InsertTicket(t, rep, day, priority)
         \/ \E day \in Days : RestoreTx(t, day) \/ ResumeToEndOfQueue(t, day)
         \/ SelfCancelTx(t) \/ PauseTx(t) \/ ResumeInPlace(t) \/ ToleranceElapses(t)
         \/ \E isPriority \in BOOLEAN : SetTicketPriorityTx(t, isPriority)
         \/ \E o : RecallTx(t, o)
  PROVE  CallsNobody /\ UNCHANGED counters
<1>1. UNCHANGED counters
  BY DEF InsertTicket, RestoreTx, ResumeToEndOfQueue, SelfCancelTx, PauseTx, ResumeInPlace,
         ToleranceElapses, SetTicketPriorityTx, RecallTx
<1>2. CountersStayOwned
  BY <1>1, CounterWriteStaysOwned
<1>3. CASE \E rep \in Reps, day \in Days, priority \in BOOLEAN :
             InsertTicket(t, rep, day, priority)
  BY <1>2, <1>3, WriteCallsNobody DEF InsertTicket, AT_COUNTER
<1>4. ASSUME tickets[t] \in Ticket,
             \/ \E day \in Days : RestoreTx(t, day)
             \/ SelfCancelTx(t) \/ PauseTx(t) \/ ResumeInPlace(t)
      PROVE  CallsNobody
  BY <1>2, <1>4, WriteCallsNobody
     DEF RestoreTx, SelfCancelTx, PauseTx, ResumeInPlace, Ticket, AT_COUNTER
<1>5. ASSUME NEW day \in Days, ResumeToEndOfQueue(t, day)
      PROVE  CallsNobody
  <2>1. CASE tickets[t].state = "PAUSED"
    <3>1. tickets[t] \in Ticket
      BY <2>1, PresentRow DEF TicketState, ACTIVE_STATES
    <3>. QED
      BY <1>2, <1>5, <2>1, <3>1, WriteCallsNobody DEF ResumeToEndOfQueue, Ticket, AT_COUNTER
  <2>2. CASE tickets[t].state # "PAUSED"
    BY <1>2, <1>5, <2>2 DEF ResumeToEndOfQueue, CallsNobody, CountersStayOwned
  <2>. QED
    BY <2>1, <2>2
<1>6. ASSUME tickets[t] \in Ticket,
             \/ ToleranceElapses(t)
             \/ \E isPriority \in BOOLEAN : SetTicketPriorityTx(t, isPriority)
             \/ \E o : RecallTx(t, o)
      PROVE  CallsNobody
  BY <1>2, <1>6, WriteCallsNobody
     DEF ToleranceElapses, SetTicketPriorityTx, RecallTx, Ticket
<1>7. ASSUME ~\E rep \in Reps, day \in Days, priority \in BOOLEAN :
                InsertTicket(t, rep, day, priority),
             ~\E day \in Days : ResumeToEndOfQueue(t, day)
      PROVE  tickets[t] \in Ticket
  BY <1>7, PresentRow
     DEF RestoreTx, Restorable, SelfCancelTx, PauseTx, ResumeInPlace, ToleranceElapses,
         SetTicketPriorityTx, RecallTx, TicketState, ACTIVE_STATES
<1>. QED
  BY <1>1, <1>3, <1>4, <1>5, <1>6, <1>7

(* The transactions that also write the counter of the ticket.             *)
LEMMA ServiceTxCallsNobody ==
  ASSUME TypeOK, NEW t \in Tickets, tickets[t] \in Ticket, NEW pre, NEW o,
         pre.counter \in Counters \cup {None},
         \/ TransitionToInService(t, pre, o)
         \/ TransitionToFinished(t, pre, o)
         \/ MarkNoShow(t, pre, o)
         \/ \E target \in {"FINISHED", "CANCELLED"} : CorrectTx(t, pre, target)
         \/ ExpireCallTimeout(t, pre)
         \/ StaffPauseTx(t, pre)
         \/ CancelTx(t) /\ pre = tickets[t]
  PROVE  CallsNobody
<1>1. CountersStayOwned
  <2>1. \/ UNCHANGED counters
        \/ \E state \in CounterState \ {"UNAVAILABLE"} : SetCounterState(pre.counter, state)
    BY DEF TransitionToInService, TransitionToFinished, MarkNoShow, CorrectTx,
           ExpireCallTimeout, StaffPauseTx, CancelTx, FreeCounterIfAny, FreeCounterIn, CounterState
  <2>. QED
    BY <2>1, CounterWriteStaysOwned
<1>2. CASE TransitionToInService(t, pre, o)
  BY <1>1, <1>2, WriteCallsNobody DEF TransitionToInService, Ticket, AT_COUNTER
<1>3. CASE TransitionToFinished(t, pre, o)
  BY <1>1, <1>3, LeavingCallsNobody DEF TransitionToFinished, Ticket, AT_COUNTER
<1>4. CASE MarkNoShow(t, pre, o)
  BY <1>1, <1>4, LeavingCallsNobody DEF MarkNoShow, Ticket, AT_COUNTER
<1>5. CASE \E target \in {"FINISHED", "CANCELLED"} : CorrectTx(t, pre, target)
  BY <1>1, <1>5, LeavingCallsNobody DEF CorrectTx, Ticket, AT_COUNTER
<1>6. CASE ExpireCallTimeout(t, pre) \/ StaffPauseTx(t, pre)
  BY <1>1, <1>6, LeavingCallsNobody DEF ExpireCallTimeout, StaffPauseTx, Ticket, AT_COUNTER
<1>7. CASE CancelTx(t)
  BY <1>1, <1>7, LeavingCallsNobody DEF CancelTx, Ticket, AT_COUNTER
<1>. QED
  BY <1>2, <1>3, <1>4, <1>5, <1>6, <1>7

LEMMA CounterTxCallsNobody ==
  ASSUME TypeOK, NEW c \in Counters, NEW o \in Operators,
         PauseCounterTx(c, o) \/ ResumeCounterTx(c, o) \/ CloseTx(c, o)
  PROVE  CallsNobody
<1>1. UNCHANGED tickets
  BY DEF PauseCounterTx, ResumeCounterTx, CloseTx
<1>2. CASE PauseCounterTx(c, o) \/ ResumeCounterTx(c, o)
  <2>1. CountersStayOwned
    BY <1>2, CounterWriteStaysOwned DEF PauseCounterTx, ResumeCounterTx, CounterState
  <2>. QED
    BY <1>1, <2>1 DEF CallsNobody, CountersStayOwned
<1>3. CASE CloseTx(c, o)
  BY <1>1, <1>3 DEF CloseTx, CallsNobody, TypeOK
<1>. QED
  BY <1>2, <1>3

LEMMA ForceReleaseCallsNobody ==
  ASSUME TypeOK, NEW c \in Counters, NEW open \in Tickets \cup {None}, NEW readState,
         open # None => tickets[open] \in Ticket, ForceReleaseTx(c, open, readState)
  PROVE  CallsNobody
<1>1. CountersStayOwned
  BY DEF ForceReleaseTx, CountersStayOwned, TypeOK
<1>2. CASE open = None
  BY <1>1, <1>2 DEF ForceReleaseTx, CallsNobody, CountersStayOwned
<1>3. CASE open # None
  BY <1>1, <1>3, LeavingCallsNobody DEF ForceReleaseTx, Ticket, AT_COUNTER
<1>. QED
  BY <1>2, <1>3

LEMMA DayTxCallsNobody ==
  ASSUME TypeOK, NEW day \in Days,
         \/ OpenDayTx(day, StaleTickets(day))
         \/ CloseDayTx(day, InDay(day, {"IN_SERVICE"}))
  PROVE  CallsNobody
<1>1. CountersStayOwned
  BY ReleaseStaysOwned DEF OpenDayTx, CloseDayTx
<1>2. \A t \in StaleTickets(day) \cup InDay(day, {"IN_SERVICE"}) : tickets[t] \in Ticket
  BY PresentRow DEF StaleTickets, InDay, TicketState, ACTIVE_STATES
<1>3. \A t \in Tickets : tickets'[t].state \in AT_COUNTER => tickets'[t] = tickets[t]
  <2>1. ASSUME NEW T \in {StaleTickets(day), InDay(day, {"IN_SERVICE"})},
               NEW final \in {"NO_SHOW", "FINISHED"},
               tickets' = [t \in Tickets |->
                             IF t \in T THEN [tickets[t] EXCEPT !.state = final, !.overdue = FALSE]
                             ELSE tickets[t]],
               NEW t \in Tickets, tickets'[t].state \in AT_COUNTER
        PROVE  tickets'[t] = tickets[t]
    <3>1. tickets[t] \in Ticket => t \notin T
      BY <2>1 DEF Ticket, AT_COUNTER
    <3>. QED
      BY <1>2, <2>1, <3>1
  <2>. QED
    BY <2>1 DEF OpenDayTx, CloseDayTx
<1>. QED
  BY <1>1, <1>3 DEF CallsNobody, CountersStayOwned

LEMMA ClockCallsNobody ==
  ASSUME TypeOK, Clock
  PROVE  CallsNobody
<1>1. CASE Midnight
  BY <1>1 DEF Midnight, CallsNobody
<1>. QED
  BY <1>1, TicketTxCallsNobody DEF Clock

-----------------------------------------------------------------------------
(* Commits and whole requests *)

LEMMA CallInFlight ==
  ASSUME OperatorInv, NEW p \in CallsInFlight
  PROVE  /\ requests[p].counter \in Counters /\ requests[p].operator \in Operators
         /\ Holds(requests[p].counter, requests[p].operator)
         /\ requests[p].counter \in LockedCounters
<1>1. p \in Procs /\ requests[p].kind = "callNext"
  BY DEF CallsInFlight
<1>. QED
  BY <1>1, KnownInFlight
     DEF OperatorInv, CallsHoldTheirCounters, Formed, CounterKinds, LockedCounters

(* A write to a counter that no call has locked. *)
LEMMA UnlockedWriteSpares ==
  ASSUME OperatorInv, NEW c, c \notin LockedCounters,
         \A d \in Counters \ {c} : counters'[d] = counters[d]
  PROVE  Spares(CallsInFlight)
BY CallInFlight DEF Spares

(* A write that finds the counter in another state than ACTIVE. *)
LEMMA GuardedWriteSpares ==
  ASSUME OperatorInv,
         \A d \in Counters : counters[d].state = "ACTIVE" => counters'[d] = counters[d]
  PROVE  Spares(CallsInFlight)
<1>. SUFFICES ASSUME NEW p \in CallsInFlight
              PROVE  counters'[requests[p].counter] = counters[requests[p].counter]
  BY DEF Spares
<1>. DEFINE c == requests[p].counter  o == requests[p].operator
<1>1. c \in Counters /\ Holds(c, o)
  BY CallInFlight
<1>. HIDE DEF c, o
<1>2. counters[c] = [state |-> "ACTIVE", operator |-> o]
  BY <1>1 DEF Holds
<1>3. counters[c].state = "ACTIVE"
  BY <1>2
<1>. QED
  BY <1>1, <1>3 DEF c

LEMMA CommitTicketCallsNobody ==
  ASSUME OperatorInv, NEW p \in Procs, CommitTicketRequest(p)
  PROVE  CallsNobody /\ Spares(CallsInFlight)
<1>. USE DEF OperatorInv, LineInv, LineOK
<1>. DEFINE r == requests[p]
<1>1. /\ r.kind \in TicketKinds => r.ticket \in Tickets
      /\ r.kind = "staffPause" => r.pre.state \in AT_COUNTER \cup {"WAITING"}
      /\ r.kind = "expirePause" => r.day \in Days
      /\ r.pre.counter \in Counters \cup {None}
  BY KnownInFlight DEF Formed
<1>. HIDE DEF r
<1>2. ASSUME NEW k \in {"startService", "advanceToInService", "finishService", "completeService",
                        "noShow", "correct"},
             r.kind = k, r.pre.counter \notin LockedCounters,
             \/ TransitionToInService(r.ticket, r.pre, r.operator)
             \/ TransitionToFinished(r.ticket, r.pre, r.operator)
             \/ MarkNoShow(r.ticket, r.pre, r.operator)
             \/ \E target \in {"FINISHED", "CANCELLED"} : CorrectTx(r.ticket, r.pre, target)
      PROVE  CallsNobody /\ Spares(CallsInFlight)
  <2>1. r.ticket \in Tickets
    BY <1>1, <1>2 DEF TicketKinds
  <2>2. tickets[r.ticket] \in Ticket
    BY <1>2, <2>1, PresentRow
       DEF TransitionToInService, TransitionToFinished, MarkNoShow, CorrectTx, TicketState,
           ACTIVE_STATES
  <2>3. CallsNobody
    BY <1>1, <1>2, <2>1, <2>2, ServiceTxCallsNobody
  <2>4. \A d \in Counters \ {r.pre.counter} : counters'[d] = counters[d]
    BY <1>2 DEF TransitionToInService, TransitionToFinished, MarkNoShow, CorrectTx,
         FreeCounterIfAny, SetCounterState, TypeOK
  <2>. QED
    BY <1>2, <2>3, <2>4, UnlockedWriteSpares
<1>3. ASSUME r.kind \in {"staffPause", "expireCall"},
             \/ r.kind = "staffPause" /\ StaffPauseTx(r.ticket, r.pre)
             \/ ExpireCallTimeout(r.ticket, r.pre)
      PROVE  CallsNobody /\ Spares(CallsInFlight)
  <2>1. r.ticket \in Tickets
    BY <1>1, <1>3 DEF TicketKinds
  <2>2. tickets[r.ticket] \in Ticket
    BY <1>1, <1>3, <2>1, PresentRow
       DEF StaffPauseTx, ExpireCallTimeout, AT_COUNTER, TicketState, ACTIVE_STATES
  <2>3. CallsNobody
    BY <1>1, <1>3, <2>1, <2>2, ServiceTxCallsNobody
  <2>4. \A d \in Counters : counters[d].state = "ACTIVE" => counters'[d] = counters[d]
    BY <1>3 DEF StaffPauseTx, ExpireCallTimeout, FreeCounterIn, SetCounterState, AT_COUNTER, TypeOK
  <2>5. Spares(CallsInFlight)
    BY <2>4, GuardedWriteSpares
  <2>. QED
    BY <2>3, <2>5
<1>4. ASSUME r.kind \in {"staffResume", "expirePause"},
             \/ ResumeInPlace(r.ticket)
             \/ \E day \in Days : ResumeToEndOfQueue(r.ticket, day)
      PROVE  CallsNobody /\ Spares(CallsInFlight)
  BY <1>1, <1>4, TicketTxCallsNobody DEF TicketKinds, Spares
<1>5. ASSUME r.kind = "expirePause", NEW day \in r.day .. today
      PROVE  day \in Days
  BY <1>1, <1>5, BoundAssumption DEF Days, TypeOK
<1>6. CASE CommitStartService(p) \/ CommitFinishService(p) \/ CommitNoShow(p) \/ CommitCorrect(p)
  BY <1>2, <1>6 DEF CommitStartService, CommitFinishService, CommitNoShow, CommitCorrect, r
<1>7. CASE CommitStaffPause(p) \/ CommitExpireCall(p)
  BY <1>3, <1>7 DEF CommitStaffPause, CommitExpireCall, r
<1>8. CASE CommitStaffResume(p) \/ CommitExpirePause(p)
  BY <1>4, <1>5, <1>8 DEF CommitStaffResume, CommitExpirePause, r
<1>. QED
  BY <1>6, <1>7, <1>8 DEF CommitTicketRequest

(* Only callNext calls, and it writes the counter it holds.                *)
LEMMA CommitCounterIsOperatorStep ==
  ASSUME OperatorInv, NEW p \in Procs, CommitCounterRequest(p)
  PROVE  OperatorStep /\ Spares(CallsInFlight \ {p})
<1>. USE DEF OperatorInv, LineInv, LineOK
<1>. DEFINE r == requests[p]
<1>1. /\ r.kind \in CounterKinds => r.counter \in Counters
      /\ r.kind \in {"openCounter", "closeCounter", "callNext"} => r.operator \in Operators
  BY KnownInFlight DEF Formed, CounterKinds
<1>. HIDE DEF r
<1>2. CASE CommitOpenCounter(p)
  <2>1. OpenTx(r.counter, r.operator) /\ r.counter \in Counters /\ r.operator \in Operators
    BY <1>1, <1>2 DEF CommitOpenCounter, CounterKinds, r
  <2>2. \A d \in Counters : counters[d].state = "ACTIVE" => counters'[d] = counters[d]
    BY <2>1 DEF OpenTx, TypeOK
  <2>3. Spares(CallsInFlight)
    BY <2>2, GuardedWriteSpares
  <2>. QED
    BY <2>1, <2>3 DEF OperatorStep, Opens, Spares
<1>3. CASE CommitCloseCounter(p)
  <2>1. /\ CloseTx(r.counter, r.operator) /\ r.counter \in Counters /\ r.operator \in Operators
        /\ r.counter \notin LockedCounters
    BY <1>1, <1>3 DEF CommitCloseCounter, CounterKinds, r
  <2>2. Spares(CallsInFlight)
    <3>1. \A d \in Counters \ {r.counter} : counters'[d] = counters[d]
      BY <2>1 DEF CloseTx, TypeOK
    <3>. QED
      BY <2>1, <3>1, UnlockedWriteSpares
  <2>. QED
    BY <2>1, <2>2, CounterTxCallsNobody DEF OperatorStep, Spares
<1>4. CASE CommitForceRelease(p)
  <2>1. /\ r.kind = "forceRelease" /\ ForceReleaseTx(r.counter, r.ticket, r.pre.state)
        /\ r.counter \in Counters /\ r.counter \notin LockedCounters
    BY <1>1, <1>4 DEF CommitForceRelease, CounterKinds, r
  <2>2. r.ticket \in Tickets \cup {None}
    BY KnownInFlight DEF Request, r
  <2>3. r.ticket # None => tickets[r.ticket] \in Ticket
    BY <2>1 DEF ReadRowsRemain, TypeOK, r
  <2>4. CallsNobody
    BY <2>1, <2>2, <2>3, ForceReleaseCallsNobody
  <2>5. Spares(CallsInFlight)
    <3>1. \A d \in Counters \ {r.counter} : counters'[d] = counters[d]
      BY <2>1 DEF ForceReleaseTx, TypeOK
    <3>. QED
      BY <2>1, <3>1, UnlockedWriteSpares
  <2>. QED
    BY <2>4, <2>5 DEF OperatorStep, Spares
<1>5. CASE CommitCallNext(p)
  <2>1. p \in CallsInFlight /\ r.counter \in Counters /\ r.operator \in Operators
    BY <1>1, <1>5 DEF CommitCallNext, CallsInFlight, CounterKinds, r
  <2>2. PICK t \in Tickets : IsHead(t, r.day) /\ CallTicket(t, r.counter, r.operator)
    BY <1>5 DEF CommitCallNext, r
  <2>3. tickets[t].state = "WAITING" /\ Calls(t, r.counter, r.operator)
    BY <2>1, <2>2, CallInFlight DEF IsHead, Waiting, Calls, r
  <2>4. \A d \in Counters \ {r.counter} : counters'[d] = counters[d]
    BY <2>1, <2>3, CallWrites
  <2>5. Spares(CallsInFlight \ {p})
    BY <2>1, <2>4, CallInFlight DEF Spares, CallsHoldTheirCounters, r
  <2>. QED
    BY <2>1, <2>3, <2>5 DEF OperatorStep
<1>. QED
  BY <1>2, <1>3, <1>4, <1>5 DEF CommitCounterRequest

LEMMA CommitERCallsNobody ==
  ASSUME OperatorInv, NEW p \in Procs, CommitERRequest(p)
  PROVE  CallsNobody /\ Spares(CallsInFlight)
<1>. USE DEF OperatorInv, LineInv, LineOK
<1>1. requests[p].kind \in ERKinds => requests[p].day \in Days
  BY KnownInFlight DEF Formed
<1>2. CASE CommitCreate(p) \/ CommitRestore(p)
  BY <1>1, <1>2, TicketTxCallsNobody DEF CommitCreate, CommitRestore, ERKinds, Spares
<1>3. CASE CommitOpenDay(p) \/ CommitCloseDay(p)
  <2>1. CallsInFlight = {}
    BY <1>3, CallInFlight DEF CommitOpenDay, CommitCloseDay
  <2>2. CallsNobody
    BY <1>1, <1>3, DayTxCallsNobody DEF CommitOpenDay, CommitCloseDay, ERKinds
  <2>. QED
    BY <2>1, <2>2 DEF Spares
<1>. QED
  BY <1>2, <1>3 DEF CommitERRequest

LEMMA NextIsOperatorStep ==
  ASSUME TypeOK, Next
  PROVE  OperatorStep
<1>1. today \in Days
  BY DEF TypeOK
<1>2. CASE RepresentativeNext
  BY <1>1, <1>2, TicketTxCallsNobody
     DEF RepresentativeNext, Create, SelfCancel, PauseTicket, ResumeTicket, OperatorStep
<1>3. ASSUME NEW t \in Tickets, tickets[t].state \in ACTIVE_STATES, NEW o,
             \/ TransitionToInService(t, tickets[t], o)
             \/ TransitionToFinished(t, tickets[t], o)
             \/ MarkNoShow(t, tickets[t], o)
             \/ \E target \in {"FINISHED", "CANCELLED"} : CorrectTx(t, tickets[t], target)
             \/ ExpireCallTimeout(t, tickets[t])
             \/ StaffPauseTx(t, tickets[t])
             \/ CancelTx(t)
      PROVE  OperatorStep
  <2>1. tickets[t] \in Ticket
    BY <1>3, PresentRow DEF TicketState
  <2>2. tickets[t].counter \in Counters \cup {None}
    BY <2>1 DEF Ticket
  <2>. QED
    BY <1>3, <2>1, <2>2, ServiceTxCallsNobody DEF OperatorStep
<1>4. CASE StaffNext
  BY <1>1, <1>3, <1>4, TicketTxCallsNobody
     DEF StaffNext, Cancel, CancelTx, Restore, Correct, StaffPause, StaffResume,
         SetTicketPriority, ACTIVE_STATES, OperatorStep
<1>5. CASE ServiceNext
  <2>1. ASSUME NEW t \in Tickets, NEW o,
               \/ TransitionToInService(t, tickets[t], o)
               \/ TransitionToFinished(t, tickets[t], o)
               \/ MarkNoShow(t, tickets[t], o)
               \/ ExpireCallTimeout(t, tickets[t])
        PROVE  OperatorStep
    BY <1>3, <2>1
       DEF TransitionToInService, TransitionToFinished, MarkNoShow, ExpireCallTimeout,
           ACTIVE_STATES
  <2>. QED
    BY <1>1, <1>5, <2>1, TicketTxCallsNobody
       DEF ServiceNext, Recall, StartService, FinishService, NoShow, AdvanceToInService,
           CompleteService, ExpireCall, ExpirePause, OperatorStep
<1>6. CASE CounterNext
  <2>1. ASSUME NEW c \in Counters, ForceRelease(c)
        PROVE  OperatorStep
    <3>1. PICK open \in FirstOpenTicket(c) :
            ForceReleaseTx(c, open, IF open = None THEN None ELSE tickets[open].state)
      BY <2>1 DEF ForceRelease
    <3>2. open # None => open \in Tickets /\ tickets[open].state \in AT_COUNTER
      BY DEF FirstOpenTicket, OpenTicketsAt
    <3>3. open # None => tickets[open] \in Ticket
      BY <3>2, PresentRow DEF AT_COUNTER, TicketState, ACTIVE_STATES
    <3>. QED
      BY <3>1, <3>2, <3>3, ForceReleaseCallsNobody DEF OperatorStep
  <2>2. ASSUME NEW c \in Counters, NEW o \in Operators, CallNext(c, o)
        PROVE  OperatorStep
    <3>1. PICK t \in Tickets : IsHead(t, today) /\ CallTicket(t, c, o)
      BY <2>2 DEF CallNext
    <3>2. Holds(c, o)
      BY <2>2 DEF CallNext, MayCall, Holds, TypeOK, Counter
    <3>. QED
      BY <3>1, <3>2 DEF IsHead, Waiting, Calls, OperatorStep
  <2>. QED
    BY <1>6, <2>1, <2>2, CounterTxCallsNobody
       DEF CounterNext, OpenCounter, CloseCounter, OperatorStep, Opens
<1>7. CASE DayNext
  BY <1>1, <1>7, DayTxCallsNobody DEF DayNext, OpenDay, CloseDay, OperatorStep
<1>8. CASE Clock
  BY <1>8, ClockCallsNobody DEF OperatorStep
<1>. QED
  BY <1>2, <1>4, <1>5, <1>6, <1>7, <1>8 DEF Next

-----------------------------------------------------------------------------
(* The inductive invariant *)

(* A step that writes rows and begins no call. *)
LEMMA RowStepKeepsCalls ==
  ASSUME OperatorInv, OperatorStep, NEW Q \in SUBSET CallsInFlight, Spares(Q),
         \A p \in Procs : requests'[p].kind = "callNext" =>
           p \in Q /\ requests'[p] = requests[p]
  PROVE  RowsOfOperators' /\ CallsHoldTheirCounters'
<1>. USE DEF OperatorInv
<1>1. RowsOfOperators'
  BY OperatorStepKeepsRows DEF LineInv, LineOK
<1>2. \A p \in CallsInFlight' : p \in Q /\ requests'[p] = requests[p]
  BY <1>1 DEF CallsInFlight
<1>3. ASSUME NEW p \in CallsInFlight'
      PROVE  HoldsAfter(requests'[p].counter, requests'[p].operator)
  <2>1. p \in CallsInFlight /\ p \in Q /\ requests'[p] = requests[p]
    BY <1>2
  <2>. DEFINE c == requests[p].counter  o == requests[p].operator
  <2>2. c \in Counters /\ o \in Operators /\ Holds(c, o) /\ counters'[c] = counters[c]
    BY <2>1, CallInFlight DEF Spares
  <2>. HIDE DEF c, o
  <2>3. HoldsAfter(c, o)
    BY <2>2, OperatorStepKeepsHold DEF LineInv, LineOK
  <2>. QED
    BY <2>1, <2>3 DEF c, o
<1>4. ASSUME NEW p \in CallsInFlight', NEW q \in CallsInFlight' \ {p}
      PROVE  requests'[q].counter # requests'[p].counter
  BY <1>2 DEF CallsHoldTheirCounters
<1>. QED
  BY <1>1, <1>3, <1>4, HeldAfter

LEMMA EndKeepsOtherCalls ==
  ASSUME OperatorInv, NEW p \in Procs, End(p)
  PROVE  \A q \in Procs : requests'[q].kind = "callNext" =>
           q \in CallsInFlight \ {p} /\ requests'[q] = requests[q]
BY DEF OperatorInv, LineInv, RequestsAreFormed, End, Idle, CallsInFlight

(* A call begins with its counter locked and its checks made. *)
LEMMA BeginKeepsCalls ==
  ASSUME OperatorInv, NEW p \in Procs, BeginRequest(p)
  PROVE  RowsOfOperators' /\ CallsHoldTheirCounters'
<1>. USE DEF OperatorInv
<1>1. UNCHANGED <<tickets, counters>>
  BY DEF BeginRequest, BeginTicketRequest, BeginOpenCounter, BeginCloseCounter,
     BeginCallNext, BeginForceRelease, BeginERRequest, Begin, vars
<1>2. RowsOfOperators'
  BY <1>1 DEF RowsOfOperators, OwnersAreUnique, OpenTicketsHaveOperators,
     OneOpenTicketPerOperator
<1>3. ASSUME NEW request, Begin(p, request), request.kind # "callNext"
      PROVE  CallsHoldTheirCounters'
  BY <1>1, <1>3
     DEF Begin, LineInv, RequestsAreFormed, Idle, CallsHoldTheirCounters, CallsInFlight, Holds,
         HasOpenTicket
<1>4. ASSUME NEW c \in Counters, NEW o \in Operators, BeginCallNext(p, c, o)
      PROVE  CallsHoldTheirCounters'
  <2>. DEFINE request == [Idle EXCEPT
         !.kind = "callNext", !.counter = c, !.operator = o, !.day = today]
  <2>1. request.kind = "callNext" /\ request.counter = c /\ request.operator = o
    BY DEF Idle
  <2>2. /\ requests[p] = Idle
        /\ requests' = [requests EXCEPT ![p] = request]
        /\ c \notin LockedCounters
    BY <1>4 DEF BeginCallNext, Begin
  <2>3. Holds(c, o)
    BY <1>4 DEF BeginCallNext, MayCall, Holds, LineInv, LineOK, TypeOK, Counter
  <2>. HIDE DEF request
  <2>4. /\ p \notin CallsInFlight
        /\ CallsInFlight' = CallsInFlight \cup {p}
        /\ \A q \in CallsInFlight : requests'[q] = requests[q]
        /\ requests'[p] = request
    BY <2>1, <2>2 DEF CallsInFlight, LineInv, RequestsAreFormed, Idle
  <2>5. \A q \in CallsInFlight : requests[q].counter # c
    BY <2>2 DEF LockedCounters, CallsInFlight
  <2>6. ASSUME NEW q \in CallsInFlight'
        PROVE  HoldsAfter(requests'[q].counter, requests'[q].operator)
    <3>1. CASE q = p
      BY <1>1, <2>1, <2>3, <2>4, <3>1 DEF Holds, HoldsAfter, HasOpenTicket
    <3>2. CASE q \in CallsInFlight
      BY <1>1, <2>4, <3>2 DEF CallsHoldTheirCounters, Holds, HoldsAfter, HasOpenTicket
    <3>. QED
      BY <2>4, <3>1, <3>2
  <2>7. ASSUME NEW q \in CallsInFlight', NEW r \in CallsInFlight' \ {q}
        PROVE  requests'[r].counter # requests'[q].counter
    BY <2>1, <2>4, <2>5 DEF CallsHoldTheirCounters
  <2>. QED
    BY <2>6, <2>7, HeldAfter
<1>5. ASSUME NEW kind \in TicketKinds, NEW t \in Tickets, NEW user,
             BeginTicketRequest(p, kind, t, user)
      PROVE  CallsHoldTheirCounters'
  BY <1>3, <1>5 DEF BeginTicketRequest, Idle, TicketKinds
<1>6. ASSUME NEW c \in Counters, NEW o \in Operators,
             BeginOpenCounter(p, c, o) \/ BeginCloseCounter(p, c, o)
      PROVE  CallsHoldTheirCounters'
  BY <1>3, <1>6 DEF BeginOpenCounter, BeginCloseCounter, Idle
<1>7. ASSUME NEW c \in Counters, BeginForceRelease(p, c)
      PROVE  CallsHoldTheirCounters'
  BY <1>3, <1>7 DEF BeginForceRelease, Idle
<1>8. ASSUME NEW kind \in ERKinds, BeginERRequest(p, kind)
      PROVE  CallsHoldTheirCounters'
  BY <1>3, <1>8 DEF BeginERRequest, Idle, ERKinds
<1>. QED
  BY <1>2, <1>4, <1>5, <1>6, <1>7, <1>8 DEF BeginRequest

LEMMA OperatorInvKept ==
  ASSUME OperatorInv, [CNext]_cvars
  PROVE  OperatorInv'
<1>. USE DEF OperatorInv
<1>1. LineInv'
  BY CStep
<1>2. CASE WholeRequest
  <2>1. OperatorStep
    BY <1>2, NextIsOperatorStep DEF WholeRequest, LineInv, LineOK
  <2>2. Spares(CallsInFlight)
    BY <1>2, CallInFlight DEF WholeRequest, Spares
  <2>3. \A p \in Procs : requests'[p].kind = "callNext" =>
          p \in CallsInFlight /\ requests'[p] = requests[p]
    BY <1>2 DEF WholeRequest, CallsInFlight
  <2>. QED
    BY <1>1, <2>1, <2>2, <2>3, RowStepKeepsCalls
<1>3. ASSUME NEW p \in Procs, BeginRequest(p)
      PROVE  OperatorInv'
  BY <1>1, <1>3, BeginKeepsCalls
<1>4. ASSUME NEW p \in Procs, OperatorStep, Spares(CallsInFlight \ {p}), End(p)
      PROVE  OperatorInv'
  BY <1>1, <1>4, EndKeepsOtherCalls, RowStepKeepsCalls
<1>5. ASSUME NEW p \in Procs, CommitTicketRequest(p) \/ CommitERRequest(p)
      PROVE  OperatorInv'
  BY <1>4, <1>5, CommitTicketCallsNobody, CommitERCallsNobody, CommitTicketStep, CommitERStep
     DEF OperatorStep, Spares
<1>6. ASSUME NEW p \in Procs, CommitCounterRequest(p)
      PROVE  OperatorInv'
  BY <1>4, <1>6, CommitCounterIsOperatorStep, CommitCounterStep
<1>7. ASSUME NEW p \in Procs, Abort(p)
      PROVE  OperatorInv'
  BY <1>4, <1>7 DEF Abort, vars, OperatorStep, CallsNobody, Spares
<1>8. CASE UNCHANGED cvars
  <2>1. UNCHANGED <<tickets, counters, requests>>
    BY <1>8 DEF cvars
  <2>2. OperatorStep /\ Spares(CallsInFlight)
    BY <2>1 DEF OperatorStep, CallsNobody, Spares
  <2>. QED
    BY <1>1, <2>1, <2>2, RowStepKeepsCalls DEF CallsInFlight
<1>. QED
  BY <1>2, <1>3, <1>5, <1>6, <1>7, <1>8 DEF CNext

LEMMA OperatorAlways == CSpec => []OperatorInv
<1>1. CInit => OperatorInv
  <2>. SUFFICES ASSUME CInit PROVE OperatorInv
    OBVIOUS
  <2>1. RowsOfOperators
    BY DEF CInit, Init, RowsOfOperators, OwnersAreUnique, OpenTicketsHaveOperators,
       OneOpenTicketPerOperator, NoRow, AT_COUNTER
  <2>2. CallsHoldTheirCounters
    BY DEF CInit, CallsHoldTheirCounters, CallsInFlight, Idle
  <2>. QED
    BY <2>1, <2>2, CInitLine DEF OperatorInv
<1>2. OperatorInv /\ [CNext]_cvars => OperatorInv'
  BY OperatorInvKept
<1>. QED
  BY <1>1, <1>2, PTL DEF CSpec

-----------------------------------------------------------------------------

(* However requests overlap, no operator has two tickets called or in      *)
(* service: the check of callNext and its commit are apart, and only the   *)
(* row of the counter is locked between them.                              *)
THEOREM COneOpenTicket == CSpec => []OneOpenTicketPerOperator
<1>1. OperatorInv => OneOpenTicketPerOperator
  BY DEF OperatorInv, RowsOfOperators
<1>. QED
  BY <1>1, OperatorAlways, PTL

(* However requests overlap, no operator owns two counters, and a counter  *)
(* that is not open belongs to nobody.                                     *)
THEOREM COwnersUnique == CSpec => []OwnersAreUnique
<1>1. OperatorInv => OwnersAreUnique
  BY DEF OperatorInv, RowsOfOperators
<1>. QED
  BY <1>1, OperatorAlways, PTL

-----------------------------------------------------------------------------
(* A service that has begun is lost to nobody but a forced release that    *)
(* read the ticket while it was being called, however requests overlap and *)
(* whatever they have read.                                                *)

(* An open day has been opened on a queue that is there and open, so that  *)
(* opening another day writes another date: the openings that resolve      *)
(* services of earlier days show in the row of the ER.                     *)
OpenDayHasItsQueue ==
  er.isDayOpen =>
    /\ er.dayOpenedOn \in Days
    /\ queues[er.dayOpenedOn].exists /\ ~queues[er.dayOpenedOn].closed

(* A business date read is a day of the past, an open ticket read was open.*)
RequestsReadThePast == \A p \in Procs : requests[p].day <= today

ReleasesReadOpenTickets ==
  \A p \in Procs : requests[p].kind = "forceRelease" /\ requests[p].ticket # None =>
    requests[p].pre.state \in AT_COUNTER

ServiceInv == LineInv /\ OpenDayHasItsQueue /\ RequestsReadThePast /\ ReleasesReadOpenTickets

-----------------------------------------------------------------------------
(* The kinds of steps *)

KeepsServices == \A t \in Tickets : KeepsService(t)

(* Neither the row of the ER nor the flags of its queues change, but for a *)
(* queue created open.                                                     *)
KeepsOpenDay ==
  /\ er' = er
  /\ \A d \in Days :
       /\ queues[d].exists => queues'[d].exists
       /\ queues'[d].closed => queues[d].closed

ServiceStep == KeepsServices /\ (KeepsOpenDay \/ OpenDayHasItsQueue')

LEMMA KeptService ==
  ASSUME NEW t \in Tickets,
         tickets[t].state = "FINISHED" => tickets'[t].state = "FINISHED",
         tickets[t].state = "IN_SERVICE" =>
           tickets'[t].state \in {"IN_SERVICE", "FINISHED", "PAUSED", "CANCELLED"}
  PROVE  KeepsService(t)
BY DEF KeepsService

LEMMA WriteKeepsServices ==
  ASSUME TypeOK, NEW t \in Tickets, NEW row, SetTicket(t, row),
         tickets[t].state = "FINISHED" => row.state = "FINISHED",
         tickets[t].state = "IN_SERVICE" =>
           row.state \in {"IN_SERVICE", "FINISHED", "PAUSED", "CANCELLED"}
  PROVE  KeepsServices
<1>1. tickets'[t] = row /\ \A u \in Tickets \ {t} : tickets'[u] = tickets[u]
  BY DEF SetTicket, TypeOK
<1>. QED
  BY <1>1, KeptService DEF KeepsServices

LEMMA NoWriteKeepsServices ==
  ASSUME UNCHANGED tickets
  PROVE  KeepsServices
BY KeptService DEF KeepsServices

LEMMA SameDayStaysOpen ==
  ASSUME UNCHANGED <<queues, er>>
  PROVE  KeepsOpenDay
BY DEF KeepsOpenDay

LEMMA UpsertStaysOpen ==
  ASSUME TypeOK, NEW day \in Days, UpsertQueue(day), UNCHANGED er
  PROVE  KeepsOpenDay
BY UpsertEffect DEF KeepsOpenDay

-----------------------------------------------------------------------------
(* Every transaction but the openings of a day and the forced release      *)
(* keeps every service, whatever "pre" its request has read                *)

LEMMA InsertKeepsServices ==
  ASSUME TypeOK, NEW t \in Tickets, NEW rep \in Reps, NEW day \in Days, NEW priority \in BOOLEAN,
         InsertTicket(t, rep, day, priority)
  PROVE  KeepsServices /\ KeepsOpenDay
BY WriteKeepsServices, UpsertStaysOpen DEF InsertTicket, NoRow

LEMMA RestoreKeepsServices ==
  ASSUME TypeOK, NEW t \in Tickets, NEW day \in Days, RestoreTx(t, day)
  PROVE  KeepsServices /\ KeepsOpenDay
BY WriteKeepsServices, UpsertStaysOpen DEF RestoreTx, Restorable

LEMMA ResumeToEndKeepsServices ==
  ASSUME TypeOK, NEW t \in Tickets, NEW day \in Days, ResumeToEndOfQueue(t, day)
  PROVE  KeepsServices /\ KeepsOpenDay
BY WriteKeepsServices, NoWriteKeepsServices, UpsertStaysOpen DEF ResumeToEndOfQueue

(* The transactions on a ticket in the line or called. *)
LEMMA EarlyTxKeepsServices ==
  ASSUME TypeOK, NEW t \in Tickets, NEW pre, NEW o,
         \/ SelfCancelTx(t) \/ PauseTx(t) \/ ResumeInPlace(t) \/ ToleranceElapses(t)
         \/ \E isPriority \in BOOLEAN : SetTicketPriorityTx(t, isPriority)
         \/ RecallTx(t, o)
         \/ TransitionToInService(t, pre, o)
         \/ MarkNoShow(t, pre, o)
         \/ ExpireCallTimeout(t, pre)
         \/ \E c \in Counters : tickets[t].state = "WAITING" /\ CallTicket(t, c, o)
  PROVE  KeepsServices /\ KeepsOpenDay
<1>1. /\ tickets[t].state \in {"WAITING", "PAUSED", "CALLING"}
      /\ \E row : SetTicket(t, row)
      /\ UNCHANGED <<queues, er>>
  BY DEF SelfCancelTx, PauseTx, ResumeInPlace, ToleranceElapses, SetTicketPriorityTx, RecallTx,
     TransitionToInService, MarkNoShow, ExpireCallTimeout, CallTicket
<1>. QED
  BY <1>1, WriteKeepsServices, SameDayStaysOpen

(* The transactions that may end a service. *)
LEMMA LateTxKeepsServices ==
  ASSUME TypeOK, NEW t \in Tickets, tickets[t].state \in ACTIVE_STATES, NEW pre, NEW o,
         \/ TransitionToFinished(t, pre, o)
         \/ \E target \in {"FINISHED", "CANCELLED"} : CorrectTx(t, pre, target)
         \/ StaffPauseTx(t, pre)
         \/ CancelTx(t)
  PROVE  KeepsServices /\ KeepsOpenDay
<1>1. tickets[t] \in Ticket /\ tickets[t].state # "FINISHED"
  BY PresentRow DEF TicketState, ACTIVE_STATES
<1>2. KeepsOpenDay
  BY SameDayStaysOpen DEF TransitionToFinished, CorrectTx, StaffPauseTx, CancelTx
<1>3. ASSUME NEW row, SetTicket(t, row), row.state \in {"FINISHED", "CANCELLED", "PAUSED"}
      PROVE  KeepsServices
  BY <1>1, <1>3, WriteKeepsServices
<1>4. CASE TransitionToFinished(t, pre, o)
  BY <1>1, <1>2, <1>3, <1>4 DEF TransitionToFinished, Ticket
<1>5. CASE \E target \in {"FINISHED", "CANCELLED"} : CorrectTx(t, pre, target)
  BY <1>1, <1>2, <1>3, <1>5 DEF CorrectTx, Ticket
<1>6. CASE StaffPauseTx(t, pre)
  BY <1>1, <1>2, <1>3, <1>6 DEF StaffPauseTx, Ticket
<1>7. CASE CancelTx(t)
  BY <1>1, <1>2, <1>3, <1>7 DEF CancelTx, Ticket
<1>. QED
  BY <1>4, <1>5, <1>6, <1>7

LEMMA CounterTxKeepsServices ==
  ASSUME NEW c \in Counters, NEW o \in Operators,
         OpenTx(c, o) \/ PauseCounterTx(c, o) \/ ResumeCounterTx(c, o) \/ CloseTx(c, o)
  PROVE  KeepsServices /\ KeepsOpenDay
BY NoWriteKeepsServices, SameDayStaysOpen DEF OpenTx, PauseCounterTx, ResumeCounterTx, CloseTx

(* A forced release ends as served the service of a ticket read in service.*)
LEMMA ForceReleaseKeepsServices ==
  ASSUME TypeOK, NEW c \in Counters, NEW open \in Tickets \cup {None}, NEW readState,
         open # None => tickets[open] \in Ticket,
         open # None =>
           readState = "IN_SERVICE" \/ tickets[open].state \notin {"IN_SERVICE", "FINISHED"},
         ForceReleaseTx(c, open, readState)
  PROVE  KeepsServices /\ KeepsOpenDay
<1>1. KeepsOpenDay
  BY SameDayStaysOpen DEF ForceReleaseTx
<1>2. CASE open = None
  BY <1>1, <1>2, NoWriteKeepsServices DEF ForceReleaseTx
<1>3. CASE open # None
  BY <1>1, <1>3, WriteKeepsServices DEF ForceReleaseTx, Ticket
<1>. QED
  BY <1>2, <1>3

LEMMA CloseDayKeepsServices ==
  ASSUME TypeOK, NEW day \in Days, CloseDayTx(day, InDay(day, {"IN_SERVICE"}))
  PROVE  KeepsServices /\ OpenDayHasItsQueue'
<1>1. OpenDayHasItsQueue'
  BY DEF CloseDayTx, OpenDayHasItsQueue, TypeOK, ER
<1>2. ASSUME NEW t \in Tickets
      PROVE  KeepsService(t)
  <2>1. CASE t \in InDay(day, {"IN_SERVICE"})
    <3>1. tickets[t] \in Ticket
      BY <2>1, PresentRow DEF InDay, TicketState, ACTIVE_STATES
    <3>2. tickets'[t].state = "FINISHED"
      BY <2>1, <3>1 DEF CloseDayTx, Ticket
    <3>. QED
      BY <3>2, KeptService
  <2>2. CASE t \notin InDay(day, {"IN_SERVICE"})
    BY <2>2, KeptService DEF CloseDayTx
  <2>. QED
    BY <2>1, <2>2
<1>. QED
  BY <1>1, <1>2 DEF KeepsServices

(* Opening resolves services of earlier days only, and writes the day.     *)
LEMMA OpenDayKeepsServices ==
  ASSUME TypeOK, OpenDayHasItsQueue, NEW day \in Days, day <= today,
         ~DayAlreadyOpen(day), OpenDayTx(day, StaleTickets(day))
  PROVE  KeepsServices /\ OpenDayHasItsQueue'
<1>1. er' = [isDayOpen |-> TRUE, dayOpenedOn |-> day]
  BY DEF OpenDayTx
<1>2. er' # er
  BY <1>1 DEF DayAlreadyOpen, OpenDayHasItsQueue
<1>3. OpenDayHasItsQueue'
  <2>1. queues'[day].exists /\ ~queues'[day].closed
    BY DEF OpenDayTx, TypeOK, Queue
  <2>. QED
    BY <1>1, <2>1 DEF OpenDayHasItsQueue
<1>4. ASSUME NEW t \in Tickets
      PROVE  KeepsService(t)
  <2>1. CASE t \in StaleTickets(day)
    <3>1. tickets[t] \in Ticket /\ tickets[t].day < day /\ tickets[t].state # "FINISHED"
      BY <2>1, PresentRow DEF StaleTickets, TicketState, ACTIVE_STATES
    <3>2. tickets[t].day < today
      BY <3>1 DEF TypeOK, Ticket, Days
    <3>. QED
      BY <1>2, <3>1, <3>2 DEF KeepsService
  <2>2. CASE t \notin StaleTickets(day)
    BY <2>2, KeptService DEF OpenDayTx
  <2>. QED
    BY <2>1, <2>2
<1>. QED
  BY <1>3, <1>4 DEF KeepsServices

LEMMA ClockKeepsServices ==
  ASSUME TypeOK, Clock
  PROVE  KeepsServices /\ KeepsOpenDay
<1>1. CASE Midnight
  BY <1>1, NoWriteKeepsServices, SameDayStaysOpen DEF Midnight
<1>. QED
  BY <1>1, EarlyTxKeepsServices DEF Clock

-----------------------------------------------------------------------------
(* Requests in flight *)

ReleaseOfCall(t) ==
  \E p \in Procs :
    /\ requests[p].kind = "forceRelease" /\ requests'[p] = Idle
    /\ requests[p].ticket = t /\ requests[p].pre.state = "CALLING"

LEMMA NextKeepsServices ==
  ASSUME TypeOK, OpenDayHasItsQueue, Next
  PROVE  ServiceStep
<1>1. today \in Days /\ today <= today
  BY DEF TypeOK, Days
<1>2. CASE RepresentativeNext
  <2>1. ASSUME NEW t \in Tickets, SelfCancelTx(t) \/ PauseTx(t) \/ ResumeInPlace(t)
        PROVE  ServiceStep
    BY <2>1, EarlyTxKeepsServices DEF ServiceStep
  <2>. QED
    BY <1>1, <1>2, <2>1, InsertKeepsServices
       DEF RepresentativeNext, Create, SelfCancel, PauseTicket, ResumeTicket, ServiceStep
<1>3. CASE StaffNext
  <2>1. ASSUME NEW t \in Tickets,
               \/ ResumeInPlace(t)
               \/ \E isPriority \in BOOLEAN : SetTicketPriorityTx(t, isPriority)
        PROVE  ServiceStep
    BY <2>1, EarlyTxKeepsServices DEF ServiceStep
  <2>2. ASSUME NEW t \in Tickets,
               \/ CancelTx(t)
               \/ \E target \in {"FINISHED", "CANCELLED"} : Correct(t, target)
               \/ \E user : StaffPause(t, user)
        PROVE  ServiceStep
    <3>1. tickets[t].state \in ACTIVE_STATES
      BY <2>2 DEF CancelTx, Correct, StaffPause, ACTIVE_STATES
    <3>. QED
      BY <2>2, <3>1, LateTxKeepsServices DEF Correct, StaffPause, ServiceStep
  <2>. QED
    BY <1>1, <1>3, <2>1, <2>2, RestoreKeepsServices
       DEF StaffNext, Cancel, Restore, StaffResume, SetTicketPriority, ServiceStep
<1>4. CASE ServiceNext
  <2>1. ASSUME NEW t \in Tickets, NEW o,
               \/ RecallTx(t, o) \/ TransitionToInService(t, tickets[t], o)
               \/ MarkNoShow(t, tickets[t], o) \/ ExpireCallTimeout(t, tickets[t])
        PROVE  ServiceStep
    BY <2>1, EarlyTxKeepsServices DEF ServiceStep
  <2>2. ASSUME NEW t \in Tickets, NEW o, TransitionToFinished(t, tickets[t], o)
        PROVE  ServiceStep
    <3>1. tickets[t].state \in ACTIVE_STATES
      BY <2>2 DEF TransitionToFinished, ACTIVE_STATES
    <3>. QED
      BY <2>2, <3>1, LateTxKeepsServices DEF ServiceStep
  <2>. QED
    BY <1>1, <1>4, <2>1, <2>2, ResumeToEndKeepsServices
       DEF ServiceNext, Recall, StartService, FinishService, NoShow, AdvanceToInService,
           CompleteService, ExpireCall, ExpirePause, ServiceStep
<1>5. CASE CounterNext
  <2>1. ASSUME NEW c \in Counters, ForceRelease(c)
        PROVE  ServiceStep
    <3>1. PICK open \in FirstOpenTicket(c) :
            ForceReleaseTx(c, open, IF open = None THEN None ELSE tickets[open].state)
      BY <2>1 DEF ForceRelease
    <3>2. open # None => open \in Tickets /\ tickets[open].state \in AT_COUNTER
      BY DEF FirstOpenTicket, OpenTicketsAt
    <3>3. open # None => tickets[open] \in Ticket
      BY <3>2, PresentRow DEF AT_COUNTER, TicketState, ACTIVE_STATES
    <3>. QED
      BY <3>1, <3>2, <3>3, ForceReleaseKeepsServices DEF ServiceStep, AT_COUNTER
  <2>2. ASSUME NEW c \in Counters, NEW o \in Operators, CallNext(c, o)
        PROVE  ServiceStep
    <3>1. PICK t \in Tickets : tickets[t].state = "WAITING" /\ CallTicket(t, c, o)
      BY <2>2 DEF CallNext, IsHead, Waiting
    <3>. QED
      BY <3>1, EarlyTxKeepsServices DEF ServiceStep
  <2>. QED
    BY <1>5, <2>1, <2>2, CounterTxKeepsServices
       DEF CounterNext, OpenCounter, CloseCounter, ServiceStep
<1>6. CASE DayNext
  BY <1>1, <1>6, OpenDayKeepsServices, CloseDayKeepsServices
     DEF DayNext, OpenDay, CloseDay, ServiceStep
<1>7. CASE Clock
  BY <1>7, ClockKeepsServices DEF ServiceStep
<1>. QED
  BY <1>2, <1>3, <1>4, <1>5, <1>6, <1>7 DEF Next

LEMMA CommitTicketKeepsServices ==
  ASSUME ServiceInv, NEW p \in Procs, CommitTicketRequest(p)
  PROVE  ServiceStep
<1>. USE DEF ServiceInv, LineInv, LineOK
<1>. DEFINE r == requests[p]
<1>1. /\ r.kind \in TicketKinds => r.ticket \in Tickets
      /\ r.kind = "staffPause" => r.pre.state \in AT_COUNTER \cup {"WAITING"}
      /\ r.kind = "expirePause" => r.day \in Days
  BY KnownInFlight DEF Formed
<1>. HIDE DEF r
<1>2. ASSUME r.kind \in TicketKinds,
             \/ ResumeInPlace(r.ticket)
             \/ TransitionToInService(r.ticket, r.pre, r.operator)
             \/ MarkNoShow(r.ticket, r.pre, r.operator)
             \/ ExpireCallTimeout(r.ticket, r.pre)
      PROVE  ServiceStep
  BY <1>1, <1>2, EarlyTxKeepsServices DEF ServiceStep
<1>3. ASSUME r.kind \in TicketKinds,
             \/ TransitionToFinished(r.ticket, r.pre, r.operator)
             \/ \E target \in {"FINISHED", "CANCELLED"} : CorrectTx(r.ticket, r.pre, target)
             \/ r.kind = "staffPause" /\ StaffPauseTx(r.ticket, r.pre)
      PROVE  ServiceStep
  <2>1. r.ticket \in Tickets /\ tickets[r.ticket].state \in ACTIVE_STATES
    BY <1>1, <1>3 DEF TransitionToFinished, CorrectTx, StaffPauseTx, AT_COUNTER, ACTIVE_STATES
  <2>. QED
    BY <1>3, <2>1, LateTxKeepsServices DEF ServiceStep
<1>4. ASSUME r.kind = "expirePause", NEW day \in r.day .. today, ResumeToEndOfQueue(r.ticket, day)
      PROVE  ServiceStep
  <2>1. day \in Days /\ r.ticket \in Tickets
    BY <1>1, <1>4, BoundAssumption DEF Days, TypeOK, TicketKinds
  <2>. QED
    BY <1>4, <2>1, ResumeToEndKeepsServices DEF ServiceStep
<1>5. CASE CommitStartService(p) \/ CommitNoShow(p) \/ CommitExpireCall(p) \/ CommitStaffResume(p)
  BY <1>2, <1>5
     DEF CommitStartService, CommitNoShow, CommitExpireCall, CommitStaffResume, TicketKinds, r
<1>6. CASE CommitFinishService(p) \/ CommitCorrect(p) \/ CommitStaffPause(p)
  BY <1>3, <1>6 DEF CommitFinishService, CommitCorrect, CommitStaffPause, TicketKinds, r
<1>7. CASE CommitExpirePause(p)
  BY <1>4, <1>7 DEF CommitExpirePause, r
<1>. QED
  BY <1>5, <1>6, <1>7 DEF CommitTicketRequest

(* The forced release that lost a race with the start of the service is    *)
(* the exception.                                                          *)
LEMMA CommitCounterKeepsServices ==
  ASSUME ServiceInv, NEW p \in Procs, CommitCounterRequest(p)
  PROVE  /\ KeepsOpenDay
         /\ \A t \in Tickets : KeepsService(t) \/ ReleaseOfCall(t)
<1>. USE DEF ServiceInv, LineInv, LineOK
<1>. DEFINE r == requests[p]
<1>1. /\ r.kind \in CounterKinds => r.counter \in Counters
      /\ r.kind \in {"openCounter", "closeCounter", "callNext"} => r.operator \in Operators
  BY KnownInFlight DEF Formed, CounterKinds
<1>2. ASSUME KeepsServices /\ KeepsOpenDay
      PROVE  KeepsOpenDay /\ \A t \in Tickets : KeepsService(t) \/ ReleaseOfCall(t)
  BY <1>2 DEF KeepsServices
<1>3. CASE CommitOpenCounter(p) \/ CommitCloseCounter(p)
  BY <1>1, <1>2, <1>3, CounterTxKeepsServices
     DEF CommitOpenCounter, CommitCloseCounter, CounterKinds
<1>4. CASE CommitForceRelease(p)
  <2>1. /\ r.kind = "forceRelease" /\ ForceReleaseTx(r.counter, r.ticket, r.pre.state)
        /\ r.counter \in Counters
    BY <1>1, <1>4 DEF CommitForceRelease, CounterKinds
  <2>2. r.ticket \in Tickets \cup {None}
    BY KnownInFlight DEF Request
  <2>3. r.ticket # None => tickets[r.ticket] \in Ticket
    BY <2>1 DEF ReadRowsRemain, TypeOK
  <2>4. CASE r.ticket = None \/ r.pre.state = "IN_SERVICE"
    BY <1>2, <2>1, <2>2, <2>3, <2>4, ForceReleaseKeepsServices
  <2>5. CASE r.ticket # None /\ r.pre.state # "IN_SERVICE"
    <3>1. r.pre.state = "CALLING"
      BY <2>1, <2>5 DEF ReleasesReadOpenTickets, AT_COUNTER
    <3>2. requests'[p] = Idle
      BY <1>4 DEF CommitForceRelease, End, RequestsAreFormed
    <3>3. \A t \in Tickets \ {r.ticket} : tickets'[t] = tickets[t]
      BY <2>1, <2>5 DEF ForceReleaseTx, SetTicket, TypeOK
    <3>4. KeepsOpenDay
      BY <2>1, SameDayStaysOpen DEF ForceReleaseTx
    <3>. QED
      BY <2>1, <3>1, <3>2, <3>3, <3>4, KeptService DEF ReleaseOfCall
  <2>. QED
    BY <2>4, <2>5
<1>5. CASE CommitCallNext(p)
  <2>1. PICK t \in Tickets : tickets[t].state = "WAITING" /\ CallTicket(t, r.counter, r.operator)
    BY <1>5 DEF CommitCallNext, IsHead, Waiting
  <2>2. r.counter \in Counters
    BY <1>1, <1>5 DEF CommitCallNext, CounterKinds
  <2>. QED
    BY <1>2, <2>1, <2>2, EarlyTxKeepsServices
<1>. QED
  BY <1>3, <1>4, <1>5 DEF CommitCounterRequest

LEMMA CommitERKeepsServices ==
  ASSUME ServiceInv, NEW p \in Procs, CommitERRequest(p)
  PROVE  ServiceStep
<1>. USE DEF ServiceInv, LineInv, LineOK
<1>1. /\ requests[p].kind \in ERKinds => requests[p].day \in Days
      /\ requests[p].day <= today
  BY KnownInFlight DEF Formed, RequestsReadThePast
<1>2. CASE CommitCreate(p) \/ CommitRestore(p)
  BY <1>1, <1>2, InsertKeepsServices, RestoreKeepsServices
     DEF CommitCreate, CommitRestore, ERKinds, ServiceStep
<1>3. CASE CommitOpenDay(p)
  BY <1>1, <1>3, OpenDayKeepsServices DEF CommitOpenDay, ERKinds, ServiceStep
<1>4. CASE CommitCloseDay(p)
  BY <1>1, <1>4, CloseDayKeepsServices DEF CommitCloseDay, ERKinds, ServiceStep
<1>. QED
  BY <1>2, <1>3, <1>4 DEF CommitERRequest

-----------------------------------------------------------------------------
(* The inductive invariant *)

LEMMA OpenDayKept ==
  ASSUME TypeOK, OpenDayHasItsQueue, KeepsOpenDay
  PROVE  OpenDayHasItsQueue'
BY DEF OpenDayHasItsQueue, KeepsOpenDay

LEMMA TodayOfNext ==
  ASSUME TypeOK, Next
  PROVE  today <= today'
<1>1. today <= today
  BY DEF TypeOK, Days
<1>2. CASE Clock
  <2>1. CASE Midnight
    <3>1. today \in Nat /\ today' = today + 1
      BY <2>1 DEF Midnight, TypeOK, Days
    <3>. QED
      BY <3>1
  <2>2. CASE ~Midnight
    BY <1>1, <1>2, <2>2 DEF Clock, ToleranceElapses
  <2>. QED
    BY <2>1, <2>2
<1>3. CASE RepresentativeNext
  BY <1>1, <1>3
     DEF RepresentativeNext, Create, InsertTicket, SelfCancel, SelfCancelTx, PauseTicket, PauseTx,
         ResumeTicket, ResumeInPlace
<1>4. CASE StaffNext
  BY <1>1, <1>4
     DEF StaffNext, Cancel, CancelTx, Restore, RestoreTx, Correct, CorrectTx, StaffPause,
         StaffPauseTx, StaffResume, ResumeInPlace, SetTicketPriority, SetTicketPriorityTx
<1>5. CASE ServiceNext
  BY <1>1, <1>5
     DEF ServiceNext, Recall, RecallTx, StartService, FinishService, NoShow, MarkNoShow,
         AdvanceToInService, CompleteService, TransitionToInService, TransitionToFinished,
         ExpireCall, ExpireCallTimeout, ExpirePause, ResumeToEndOfQueue
<1>6. CASE CounterNext
  BY <1>1, <1>6
     DEF CounterNext, CallNext, CallTicket, OpenCounter, OpenTx, PauseCounterTx, ResumeCounterTx,
         CloseCounter, CloseTx, ForceRelease, ForceReleaseTx
<1>7. CASE DayNext
  BY <1>1, <1>7 DEF DayNext, OpenDay, OpenDayTx, CloseDay, CloseDayTx
<1>. QED
  BY <1>2, <1>3, <1>4, <1>5, <1>6, <1>7 DEF Next

LEMMA TodayOfCommit ==
  ASSUME NEW p \in Procs,
         \/ CommitTicketRequest(p) \/ CommitCounterRequest(p) \/ CommitERRequest(p)
         \/ Abort(p)
  PROVE  UNCHANGED today
<1>1. CASE CommitTicketRequest(p)
  BY <1>1
     DEF CommitTicketRequest, CommitStartService, CommitFinishService, CommitNoShow,
         CommitCorrect, CommitStaffPause, CommitExpireCall, CommitStaffResume, CommitExpirePause,
         TransitionToInService, TransitionToFinished, MarkNoShow, CorrectTx, StaffPauseTx,
         ExpireCallTimeout, ResumeInPlace, ResumeToEndOfQueue
<1>2. CASE CommitCounterRequest(p)
  BY <1>2
     DEF CommitCounterRequest, CommitOpenCounter, CommitCloseCounter, CommitForceRelease,
         CommitCallNext, OpenTx, CloseTx, ForceReleaseTx, CallTicket
<1>3. CASE CommitERRequest(p)
  BY <1>3
     DEF CommitERRequest, CommitCreate, CommitRestore, CommitOpenDay, CommitCloseDay,
         InsertTicket, RestoreTx, OpenDayTx, CloseDayTx
<1>4. CASE Abort(p)
  BY <1>4 DEF Abort, vars
<1>. QED
  BY <1>1, <1>2, <1>3, <1>4

(* What requests have read stays true while none begins. *)
LEMMA ReadingsRemain ==
  ASSUME ServiceInv, TypeOK', today <= today',
         \A p \in Procs : requests'[p] = requests[p] \/ requests'[p] = Idle
  PROVE  RequestsReadThePast' /\ ReleasesReadOpenTickets'
<1>. USE DEF ServiceInv
<1>1. today \in Nat /\ today' \in Nat
  BY DEF LineInv, LineOK, TypeOK, Days
<1>2. ASSUME NEW p \in Procs
      PROVE  requests'[p].day <= today'
  <2>1. requests[p].day \in Nat /\ requests[p].day <= today
    BY KnownInFlight DEF Request, RequestsReadThePast
  <2>2. CASE requests'[p] = requests[p]
    BY <1>1, <2>1, <2>2
  <2>3. CASE requests'[p] = Idle
    BY <1>1, <2>3 DEF Idle
  <2>. QED
    BY <2>2, <2>3
<1>3. ReleasesReadOpenTickets'
  BY DEF ReleasesReadOpenTickets, Idle
<1>. QED
  BY <1>2, <1>3 DEF RequestsReadThePast

LEMMA BeginKeepsReadings ==
  ASSUME ServiceInv, NEW p \in Procs, BeginRequest(p)
  PROVE  RequestsReadThePast' /\ ReleasesReadOpenTickets' /\ UNCHANGED vars
<1>. USE DEF ServiceInv
<1>1. UNCHANGED vars
  BY DEF BeginRequest, BeginTicketRequest, BeginOpenCounter, BeginCloseCounter,
     BeginCallNext, BeginForceRelease, BeginERRequest, Begin
<1>2. UNCHANGED <<tickets, today>> /\ 0 <= today /\ today <= today
  BY <1>1 DEF vars, LineInv, LineOK, TypeOK, Days
<1>3. ASSUME NEW request, Begin(p, request), request.day \in {0, today},
             request.kind = "forceRelease" /\ request.ticket # None =>
               request.pre.state \in AT_COUNTER
      PROVE  RequestsReadThePast' /\ ReleasesReadOpenTickets'
  <2>1. requests'[p] = request /\ \A q \in Procs \ {p} : requests'[q] = requests[q]
    BY <1>3 DEF Begin, LineInv, RequestsAreFormed
  <2>. QED
    BY <1>2, <1>3, <2>1 DEF RequestsReadThePast, ReleasesReadOpenTickets
<1>4. ASSUME NEW kind \in TicketKinds, NEW t \in Tickets, NEW user,
             BeginTicketRequest(p, kind, t, user)
      PROVE  RequestsReadThePast' /\ ReleasesReadOpenTickets'
  BY <1>3, <1>4 DEF BeginTicketRequest, Idle, TicketKinds
<1>5. ASSUME NEW c \in Counters, NEW o \in Operators,
             \/ BeginOpenCounter(p, c, o) \/ BeginCloseCounter(p, c, o)
             \/ BeginCallNext(p, c, o)
      PROVE  RequestsReadThePast' /\ ReleasesReadOpenTickets'
  BY <1>3, <1>5 DEF BeginOpenCounter, BeginCloseCounter, BeginCallNext, Idle
<1>6. ASSUME NEW c \in Counters, BeginForceRelease(p, c)
      PROVE  RequestsReadThePast' /\ ReleasesReadOpenTickets'
  <2>1. PICK open \in FirstOpenTicket(c) :
          Begin(p, [Idle EXCEPT
            !.kind = "forceRelease", !.counter = c, !.ticket = open,
            !.pre = IF open = None THEN NothingRead ELSE Read(open)])
    BY <1>6 DEF BeginForceRelease
  <2>2. open # None => tickets[open].state \in AT_COUNTER
    BY DEF FirstOpenTicket, OpenTicketsAt
  <2>. QED
    BY <1>3, <2>1, <2>2 DEF Idle, Read
<1>7. ASSUME NEW kind \in ERKinds, BeginERRequest(p, kind)
      PROVE  RequestsReadThePast' /\ ReleasesReadOpenTickets'
  BY <1>3, <1>7 DEF BeginERRequest, Idle, ERKinds
<1>. QED
  BY <1>1, <1>4, <1>5, <1>6, <1>7 DEF BeginRequest

(* Every step keeps every service, or is the commit of such a release.     *)
LEMMA ServiceInvKept ==
  ASSUME ServiceInv, [CNext]_cvars
  PROVE  /\ ServiceInv'
         /\ \A t \in Tickets : KeepsService(t) \/ ReleaseOfCall(t)
<1>. USE DEF ServiceInv
<1>1. LineInv' /\ TypeOK /\ TypeOK'
  BY CStep DEF LineInv, LineOK
<1>2. today <= today
  BY <1>1 DEF TypeOK, Days
<1>3. ASSUME UNCHANGED <<tickets, queues, er>>
      PROVE  OpenDayHasItsQueue' /\ \A t \in Tickets : KeepsService(t) \/ ReleaseOfCall(t)
  BY <1>1, <1>3, NoWriteKeepsServices, SameDayStaysOpen, OpenDayKept DEF KeepsServices
<1>4. ASSUME ServiceStep
      PROVE  OpenDayHasItsQueue' /\ \A t \in Tickets : KeepsService(t) \/ ReleaseOfCall(t)
  BY <1>1, <1>4, OpenDayKept DEF ServiceStep, KeepsServices
<1>5. CASE WholeRequest
  <2>1. ServiceStep /\ today <= today' /\ UNCHANGED requests
    BY <1>1, <1>5, NextKeepsServices, TodayOfNext DEF WholeRequest
  <2>. QED
    BY <1>1, <1>4, <2>1, ReadingsRemain
<1>6. ASSUME NEW p \in Procs, BeginRequest(p)
      PROVE  ServiceInv' /\ \A t \in Tickets : KeepsService(t) \/ ReleaseOfCall(t)
  BY <1>1, <1>3, <1>6, BeginKeepsReadings DEF vars
<1>7. ASSUME NEW p \in Procs, End(p), UNCHANGED today
      PROVE  RequestsReadThePast' /\ ReleasesReadOpenTickets'
  <2>1. \A q \in Procs : requests'[q] = requests[q] \/ requests'[q] = Idle
    BY <1>7 DEF End, LineInv, RequestsAreFormed
  <2>. QED
    BY <1>1, <1>2, <1>7, <2>1, ReadingsRemain
<1>8. ASSUME NEW p \in Procs, CommitTicketRequest(p) \/ CommitERRequest(p)
      PROVE  ServiceInv' /\ \A t \in Tickets : KeepsService(t) \/ ReleaseOfCall(t)
  <2>1. End(p) /\ UNCHANGED today
    BY <1>8, CommitTicketStep, CommitERStep, TodayOfCommit
  <2>2. ServiceStep
    BY <1>8, CommitTicketKeepsServices, CommitERKeepsServices
  <2>. QED
    BY <1>1, <1>4, <1>7, <2>1, <2>2
<1>9. ASSUME NEW p \in Procs, CommitCounterRequest(p)
      PROVE  ServiceInv' /\ \A t \in Tickets : KeepsService(t) \/ ReleaseOfCall(t)
  <2>1. End(p) /\ UNCHANGED today
    BY <1>9, CommitCounterStep, TodayOfCommit
  <2>2. KeepsOpenDay /\ \A t \in Tickets : KeepsService(t) \/ ReleaseOfCall(t)
    BY <1>9, CommitCounterKeepsServices
  <2>. QED
    BY <1>1, <1>7, <2>1, <2>2, OpenDayKept
<1>10. ASSUME NEW p \in Procs, Abort(p)
       PROVE  ServiceInv' /\ \A t \in Tickets : KeepsService(t) \/ ReleaseOfCall(t)
  BY <1>1, <1>3, <1>7, <1>10 DEF Abort, vars
<1>11. CASE UNCHANGED cvars
  <2>1. UNCHANGED <<tickets, queues, er, today, requests>>
    BY <1>11 DEF cvars
  <2>. QED
    BY <1>1, <1>2, <1>3, <2>1, ReadingsRemain
<1>. QED
  BY <1>5, <1>6, <1>8, <1>9, <1>10, <1>11 DEF CNext

LEMMA ServiceAlways == CSpec => []ServiceInv
<1>1. CInit => ServiceInv
  <2>. SUFFICES ASSUME CInit PROVE ServiceInv
    OBVIOUS
  <2>1. OpenDayHasItsQueue
    BY DEF CInit, Init, OpenDayHasItsQueue
  <2>2. RequestsReadThePast /\ ReleasesReadOpenTickets
    BY DEF CInit, Init, RequestsReadThePast, ReleasesReadOpenTickets, Idle
  <2>. QED
    BY <2>1, <2>2, CInitLine DEF ServiceInv
<1>2. ServiceInv /\ [CNext]_cvars => ServiceInv'
  BY ServiceInvKept
<1>. QED
  BY <1>1, <1>2, PTL DEF CSpec

-----------------------------------------------------------------------------

(* Of the transactions only a pause pauses a service, and it compares the  *)
(* state of the ticket with the one its request has read.                  *)
LEMMA CommitPausesWhatItRead ==
  ASSUME LineInv, NEW p \in Procs, NEW t \in Tickets,
         CommitTicketRequest(p) \/ CommitCounterRequest(p) \/ CommitERRequest(p),
         tickets[t].state = "IN_SERVICE", tickets'[t].state = "PAUSED"
  PROVE  requests[p].ticket = t /\ requests[p].pre.state = "IN_SERVICE"
<1>1. TypeOK /\ tickets[t] \in Ticket
  BY PresentRow DEF LineInv, LineOK, TicketState, ACTIVE_STATES
<1>2. ASSUME NEW u, NEW row, SetTicket(u, row)
      PROVE  u = t /\ row.state = "PAUSED"
  BY <1>1, <1>2 DEF SetTicket, TypeOK
<1>3. tickets' # tickets
  OBVIOUS
<1>4. CASE CommitStaffPause(p)
  BY <1>2, <1>4 DEF CommitStaffPause, StaffPauseTx
<1>5. CASE CommitStartService(p) \/ CommitNoShow(p) \/ CommitExpireCall(p)
  BY <1>2, <1>5
     DEF CommitStartService, CommitNoShow, CommitExpireCall, TransitionToInService, MarkNoShow,
         ExpireCallTimeout
<1>6. CASE CommitStaffResume(p) \/ CommitExpirePause(p)
  BY <1>2, <1>3, <1>6
     DEF CommitStaffResume, CommitExpirePause, ResumeInPlace, ResumeToEndOfQueue
<1>7. ASSUME NEW row, SetTicket(t, row), row.state # "PAUSED"
      PROVE  FALSE
  BY <1>2, <1>7
<1>8. CASE CommitFinishService(p)
  <2>1. requests[p].ticket = t
    BY <1>2, <1>8 DEF CommitFinishService, TransitionToFinished
  <2>. QED
    BY <1>1, <1>7, <1>8, <2>1 DEF CommitFinishService, TransitionToFinished, Ticket
<1>9. CASE CommitCorrect(p)
  <2>1. requests[p].ticket = t
    BY <1>2, <1>9 DEF CommitCorrect, CorrectTx
  <2>. QED
    BY <1>1, <1>7, <1>9, <2>1 DEF CommitCorrect, CorrectTx, Ticket
<1>10. CASE CommitOpenCounter(p) \/ CommitCloseCounter(p)
  BY <1>3, <1>10 DEF CommitOpenCounter, CommitCloseCounter, OpenTx, CloseTx
<1>11. CASE CommitCallNext(p)
  <2>1. PICK u \in Tickets : CallTicket(u, requests[p].counter, requests[p].operator)
    BY <1>11 DEF CommitCallNext
  <2>2. u = t
    BY <1>2, <2>1 DEF CallTicket
  <2>. QED
    BY <1>1, <1>7, <2>1, <2>2 DEF CallTicket, Ticket
<1>12. CASE CommitForceRelease(p)
  <2>1. requests[p].ticket = t
    BY <1>2, <1>3, <1>12 DEF CommitForceRelease, ForceReleaseTx
  <2>. QED
    BY <1>1, <1>3, <1>7, <1>12, <2>1 DEF CommitForceRelease, ForceReleaseTx, Ticket
<1>13. ASSUME NEW u \in Tickets, NEW rep, NEW day, NEW priority,
              InsertTicket(u, rep, day, priority) \/ RestoreTx(u, day)
       PROVE  FALSE
  <2>1. u = t
    BY <1>2, <1>13 DEF InsertTicket, RestoreTx
  <2>. QED
    BY <1>13, <2>1 DEF InsertTicket, RestoreTx, NoRow, Restorable
<1>14. CASE CommitCreate(p) \/ CommitRestore(p)
  BY <1>13, <1>14 DEF CommitCreate, CommitRestore
<1>15. CASE CommitOpenDay(p)
  <2>1. OpenDayTx(requests[p].day, StaleTickets(requests[p].day))
    BY <1>15 DEF CommitOpenDay
  <2>. QED
    BY <1>1, <2>1 DEF OpenDayTx, Ticket
<1>16. CASE CommitCloseDay(p)
  <2>1. CloseDayTx(requests[p].day, InDay(requests[p].day, {"IN_SERVICE"}))
    BY <1>16 DEF CommitCloseDay
  <2>. QED
    BY <1>1, <2>1 DEF CloseDayTx, Ticket
<1>. QED
  BY <1>4, <1>5, <1>6, <1>8, <1>9, <1>10, <1>11, <1>12, <1>14, <1>15, <1>16
     DEF CommitTicketRequest, CommitCounterRequest, CommitERRequest

LEMMA ServicePausedByItsReader ==
  ASSUME LineInv, [CNext]_cvars, NEW t \in Tickets
  PROVE  PausedByItsReader(t)
<1>. SUFFICES ASSUME tickets[t].state = "IN_SERVICE", tickets'[t].state = "PAUSED",
                     NEW p \in Procs, requests'[p] # requests[p]
              PROVE  requests[p].ticket = t /\ requests[p].pre.state = "IN_SERVICE"
  BY DEF PausedByItsReader
<1>1. ~WholeRequest /\ cvars' # cvars
  BY DEF WholeRequest, cvars
<1>2. vars' # vars
  BY DEF vars
<1>3. PICK q \in Procs : BeginRequest(q) \/ CommitTicketRequest(q) \/ CommitCounterRequest(q)
                         \/ CommitERRequest(q) \/ Abort(q)
  BY <1>1 DEF CNext
<1>4. ~BeginRequest(q) /\ ~Abort(q)
  BY <1>2
     DEF Abort, BeginRequest, BeginTicketRequest, BeginOpenCounter, BeginCloseCounter,
         BeginCallNext, BeginForceRelease, BeginERRequest, Begin
<1>5. End(q)
  BY <1>3, <1>4, CommitTicketStep, CommitCounterStep, CommitERStep
<1>6. p = q
  BY <1>5 DEF End, LineInv, RequestsAreFormed
<1>. QED
  BY <1>3, <1>4, <1>6, CommitPausesWhatItRead

(* However requests overlap, a service that has begun goes on, is finished *)
(* or is ended by the staff or by opening a later day, unless a forced     *)
(* release that read the ticket while called records it as a no-show       *)
(* (counter.service.ts:205-229).  A pause that read the call before the    *)
(* service began does not end it.                                          *)
THEOREM CServiceLostOnlyToARelease == CSpec => ServiceLostOnlyToARelease
<1>1. ASSUME ServiceInv, [CNext]_cvars, NEW t \in Tickets, ~KeepsService(t)
      PROVE  \E p \in Procs :
               /\ Commits(p, "forceRelease")
               /\ requests[p].ticket = t /\ requests[p].pre.state = "CALLING"
  <2>1. ReleaseOfCall(t)
    BY <1>1, ServiceInvKept
  <2>2. tickets' # tickets
    BY <1>1, NoWriteKeepsServices DEF KeepsServices
  <2>3. vars' # vars
    BY <2>2 DEF vars
  <2>. QED
    BY <2>1, <2>3 DEF ReleaseOfCall, Commits
<1>2. ServiceInv /\ [CNext]_cvars =>
        [\A t \in Tickets :
           /\ PausedByItsReader(t)
           /\ \/ KeepsService(t)
              \/ \E p \in Procs :
                   /\ Commits(p, "forceRelease")
                   /\ requests[p].ticket = t /\ requests[p].pre.state = "CALLING"]_cvars
  BY <1>1, ServicePausedByItsReader DEF ServiceInv
<1>. QED
  BY <1>2, ServiceAlways, PTL DEF CSpec, ServiceLostOnlyToARelease

-----------------------------------------------------------------------------
(* Counters and tickets agree while requests that put a ticket in the line *)
(* or a counter into other hands overlap with the calls.                   *)

DayKinds == {"openDay", "closeDay"}
HandOverKinds ==
  {"callNext", "closeCounter", "create", "restore", "staffResume", "expirePause"} \cup DayKinds

(* The kinds of requests the theorem below allows in flight.  An opening   *)
(* or closing that took its date before midnight leaves the tickets of the *)
(* new day at their counters, so for these two the date must not change.   *)
HandOvers ==
  /\ Overlapping \subseteq HandOverKinds
  /\ Overlapping \cap DayKinds # {} => MaxDay = 1

OnlyHandOvers == HandOvers /\ \A p \in Procs : requests[p].kind \in Overlapping \cup {"idle"}

HandOverInv == RowsAgree /\ OnlyHandOvers

(* A place taken for a ticket that has left its pause meanwhile. *)
LEMMA TakenPlaceStep ==
  ASSUME RowsAgree, NEW day \in Days, day <= today, UpsertQueue(day), TypeOK',
         UNCHANGED <<tickets, counters, er, today>>
  PROVE  RowsAgree'
<1>. USE DEF RowsAgree
<1>1. /\ queues'[day].exists
      /\ \A d \in Days : queues'[d].closed = queues[d].closed
      /\ \A d \in Days \ {day} : queues'[d] = queues[d]
  BY UpsertEffect
<1>2. \A d \in Days : /\ queues[d].nextSequence \in Nat /\ queues'[d].nextSequence \in Nat
                      /\ queues'[d].nextSequence >= queues[d].nextSequence
  BY UpsertEffect DEF TypeOK, Queue, NextPosition
<1>3. OneActivePerRep' /\ OneOpenTicketPerOperator' /\ OpenTicketsAreAssigned'
  BY DEF OneActivePerRep, OneOpenTicketPerOperator, OpenTicketsAreAssigned
<1>4. QueuedTicketsHoldNoCounter' /\ OwnersAreUnique' /\ ClosedDayLeavesNoOwner'
  BY DEF QueuedTicketsHoldNoCounter, OwnersAreUnique, ClosedDayLeavesNoOwner
<1>5. ClosedDayLeavesOnlyEarlierCalls' /\ CounterServesItsTicket'
  BY DEF ClosedDayLeavesOnlyEarlierCalls, CounterServesItsTicket, OpenTicketsAt
<1>6. PlacesAreUnique'
  <2>1. \A t \in Tickets : tickets[t] # NoRow =>
          /\ tickets[t].position \in Nat /\ tickets[t].day \in Days
          /\ tickets[t].position <= queues[tickets[t].day].nextSequence
    BY DEF TypeOK, Ticket, Positions, PlacesAreUnique
  <2>2. \A t \in Tickets : tickets[t] # NoRow =>
          tickets[t].position <= queues'[tickets[t].day].nextSequence
    BY <1>2, <2>1
  <2>. QED
    BY <2>2 DEF PlacesAreUnique
<1>7. DatesAreOrdered'
  <2>1. \A t \in Tickets : tickets[t] # NoRow => queues'[tickets[t].day].exists
    BY <1>1, TicketDates
  <2>2. \A d \in Days : /\ queues'[d].exists => d <= today
                        /\ queues'[d].closed => queues'[d].exists
    BY <1>1 DEF DatesAreOrdered
  <2>3. er.isDayOpen => ~queues'[today].closed
    BY <1>1 DEF DatesAreOrdered, TypeOK
  <2>. QED
    BY <2>1, <2>2, <2>3 DEF DatesAreOrdered
<1>. QED
  BY <1>3, <1>4, <1>5, <1>6, <1>7

(* A call in flight finds its checks as it left them. *)
LEMMA CommitCallAgrees ==
  ASSUME RowsAgree, OperatorInv, NEW p \in Procs, CommitCallNext(p)
  PROVE  RowsAgree'
<1>. DEFINE c == requests[p].counter  o == requests[p].operator
<1>1. p \in CallsInFlight
  BY DEF CommitCallNext, CallsInFlight
<1>2. c \in Counters /\ o \in Operators /\ Holds(c, o)
  BY <1>1, CallInFlight
<1>3. PICK t \in Tickets : tickets[t].state = "WAITING" /\ CallTicket(t, c, o)
  BY DEF CommitCallNext, IsHead, Waiting
<1>. HIDE DEF c, o
<1>4. MayCall(c, o)
  BY <1>2 DEF Holds, MayCall
<1>. QED
  BY <1>2, <1>3, <1>4, CallStep DEF KeepsRows

LEMMA CommitExpirePauseAgrees ==
  ASSUME RowsAgree, ServiceInv, NEW p \in Procs, CommitExpirePause(p)
  PROVE  RowsAgree'
<1>. DEFINE r == requests[p]
<1>1. r.ticket \in Tickets /\ r.day \in Days
  BY KnownInFlight DEF ServiceInv, Formed, CommitExpirePause, TicketKinds
<1>2. PICK day \in r.day .. today : ResumeToEndOfQueue(r.ticket, day)
  BY DEF CommitExpirePause
<1>. HIDE DEF r
<1>3. day \in Days /\ day <= today
  BY <1>1, <1>2, BoundAssumption DEF Days, RowsAgree, TypeOK
<1>4. CASE tickets[r.ticket].state = "PAUSED"
  BY <1>1, <1>2, <1>3, <1>4, ResumingAtEndStep
<1>5. CASE tickets[r.ticket].state # "PAUSED"
  <2>1. UpsertQueue(day) /\ UNCHANGED <<tickets, counters, er, today>>
    BY <1>2, <1>5 DEF ResumeToEndOfQueue
  <2>2. TypeOK'
    BY <1>1, <1>2, <1>3, ResumeToEndType DEF RowsAgree
  <2>. QED
    BY <1>3, <2>1, <2>2, TakenPlaceStep
<1>. QED
  BY <1>4, <1>5

LEMMA CommitEntryAgrees ==
  ASSUME RowsAgree, ServiceInv, NEW p \in Procs, CommitCreate(p) \/ CommitRestore(p)
  PROVE  RowsAgree'
<1>. DEFINE day == requests[p].day
<1>1. day \in Days /\ day <= today
  BY KnownInFlight DEF ServiceInv, RequestsReadThePast, Formed, CommitCreate, CommitRestore, ERKinds
<1>2. CASE CommitCreate(p)
  <2>1. PICK t \in Tickets, rep \in Reps, priority \in BOOLEAN :
          ~HasActiveTicket(rep, {}) /\ InsertTicket(t, rep, day, priority)
    BY <1>2 DEF CommitCreate
  <2>. HIDE DEF day
  <2>. QED
    BY <1>1, <2>1, InsertStep
<1>3. CASE CommitRestore(p)
  <2>1. PICK t \in Tickets : ~HasActiveTicket(tickets[t].rep, {t}) /\ RestoreTx(t, day)
    BY <1>3 DEF CommitRestore
  <2>. HIDE DEF day
  <2>. QED
    BY <1>1, <2>1, RestoringStep
<1>. QED
  BY <1>2, <1>3

(* With one business day an opening or a closing in flight is a whole one. *)
LEMMA CommitDayAgrees ==
  ASSUME RowsAgree, LineInv, MaxDay = 1, NEW p \in Procs, CommitOpenDay(p) \/ CommitCloseDay(p)
  PROVE  RowsAgree'
<1>1. requests[p].day \in Days
  BY KnownInFlight DEF Formed, CommitOpenDay, CommitCloseDay, ERKinds
<1>2. requests[p].day = today
  BY <1>1 DEF Days, RowsAgree, TypeOK
<1>3. OpenDay \/ CloseDay
  BY <1>2 DEF CommitOpenDay, OpenDay, CommitCloseDay, CloseDay
<1>. QED
  BY <1>3, OpenDayStep, CloseDayStep DEF KeepsRows

LEMMA CommitAgrees ==
  ASSUME HandOverInv, OperatorInv, ServiceInv, NEW p \in Procs,
         CommitTicketRequest(p) \/ CommitCounterRequest(p) \/ CommitERRequest(p)
  PROVE  RowsAgree'
<1>. USE DEF HandOverInv
<1>1. /\ requests[p].kind \in HandOverKinds \cup {"idle"}
      /\ requests[p].kind \in DayKinds => MaxDay = 1
  BY DEF OnlyHandOvers, HandOvers, DayKinds
<1>2. CASE CommitTicketRequest(p)
  <2>1. CommitStaffResume(p) \/ CommitExpirePause(p)
    BY <1>1, <1>2
       DEF CommitTicketRequest, CommitStartService, CommitFinishService, CommitNoShow,
           CommitCorrect, CommitStaffPause, CommitExpireCall, HandOverKinds, DayKinds
  <2>2. CASE CommitStaffResume(p)
    <3>1. requests[p].ticket \in Tickets
      BY <2>2, KnownInFlight DEF ServiceInv, Formed, CommitStaffResume, TicketKinds
    <3>. QED
      BY <2>2, <3>1, ResumeInPlaceStep DEF CommitStaffResume, KeepsRows
  <2>. QED
    BY <2>1, <2>2, CommitExpirePauseAgrees
<1>3. CASE CommitCounterRequest(p)
  <2>1. CommitCloseCounter(p) \/ CommitCallNext(p)
    BY <1>1, <1>3
       DEF CommitCounterRequest, CommitOpenCounter, CommitForceRelease, HandOverKinds, DayKinds
  <2>2. CASE CommitCloseCounter(p)
    <3>1. requests[p].counter \in Counters /\ requests[p].operator \in Operators
      BY <2>2, KnownInFlight DEF ServiceInv, Formed, CommitCloseCounter, CounterKinds
    <3>. QED
      BY <2>2, <3>1, CloseCounterStep DEF CommitCloseCounter, KeepsRows
  <2>. QED
    BY <2>1, <2>2, CommitCallAgrees
<1>4. CASE CommitERRequest(p)
  <2>1. CASE CommitOpenDay(p) \/ CommitCloseDay(p)
    BY <1>1, <2>1, CommitDayAgrees DEF ServiceInv, CommitOpenDay, CommitCloseDay, DayKinds
  <2>. QED
    BY <1>4, <2>1, CommitEntryAgrees DEF CommitERRequest
<1>. QED
  BY <1>2, <1>3, <1>4

LEMMA HandOverInvKept ==
  ASSUME HandOverInv, OperatorInv, ServiceInv, [CNext]_cvars
  PROVE  HandOverInv'
<1>. USE DEF HandOverInv
<1>1. HandOvers'
  BY DEF OnlyHandOvers, HandOvers
<1>2. ASSUME \A p \in Procs : \/ requests'[p].kind \in {requests[p].kind, "idle"}
                              \/ requests'[p].kind \in Overlapping
      PROVE  OnlyHandOvers'
  BY <1>1, <1>2 DEF OnlyHandOvers
<1>3. CASE WholeRequest
  BY <1>2, <1>3, StepAgrees DEF WholeRequest, KeepsRows
<1>4. ASSUME UNCHANGED vars
      PROVE  RowsAgree'
  BY <1>4, StepAgrees DEF KeepsRows
<1>5. ASSUME NEW p \in Procs, BeginRequest(p)
      PROVE  HandOverInv'
  <2>1. PICK request : Begin(p, request)
    BY <1>5
       DEF BeginRequest, BeginTicketRequest, BeginOpenCounter, BeginCloseCounter,
           BeginCallNext, BeginForceRelease, BeginERRequest
  <2>2. \A q \in Procs : requests'[q] \in {requests[q], request}
    BY <2>1 DEF Begin, ServiceInv, LineInv, RequestsAreFormed
  <2>. QED
    BY <1>2, <1>4, <2>1, <2>2 DEF Begin
<1>6. ASSUME NEW p \in Procs, End(p)
      PROVE  OnlyHandOvers'
  BY <1>2, <1>6 DEF End, Idle, ServiceInv, LineInv, RequestsAreFormed
<1>7. ASSUME NEW p \in Procs,
             CommitTicketRequest(p) \/ CommitCounterRequest(p) \/ CommitERRequest(p)
      PROVE  HandOverInv'
  <2>1. End(p)
    BY <1>7, CommitTicketStep, CommitCounterStep, CommitERStep DEF ServiceInv
  <2>. QED
    BY <1>6, <1>7, <2>1, CommitAgrees
<1>8. ASSUME NEW p \in Procs, Abort(p)
      PROVE  HandOverInv'
  BY <1>4, <1>6, <1>8 DEF Abort
<1>9. CASE UNCHANGED cvars
  BY <1>2, <1>4, <1>9 DEF cvars, vars
<1>. QED
  BY <1>3, <1>5, <1>7, <1>8, <1>9 DEF CNext

LEMMA HandOverAlways == HandOvers /\ CSpec => []HandOverInv
<1>1. HandOvers /\ CInit => HandOverInv
  <2>. SUFFICES ASSUME HandOvers, CInit PROVE HandOverInv
    OBVIOUS
  <2>1. RowsAgree
    BY InitConsistent DEF CInit, RowsAreConsistent, RowsAgree
  <2>2. OnlyHandOvers
    BY DEF CInit, OnlyHandOvers, Idle
  <2>. QED
    BY <2>1, <2>2 DEF HandOverInv
<1>2. HandOverInv /\ OperatorInv /\ ServiceInv /\ [CNext]_cvars => HandOverInv'
  BY HandOverInvKept
<1>. QED
  BY <1>1, <1>2, OperatorAlways, ServiceAlways, PTL DEF CSpec

-----------------------------------------------------------------------------

(* While calls, closings of counters, entries, restores, resumes and       *)
(* expired pauses overlap, and openings and closings of the day as long as *)
(* no midnight falls into one, an open day has no counter that is busy     *)
(* without its ticket and none that is free under one (queue.service.ts,   *)
(* counter.service.ts): the lock of callNext on its counter is enough.     *)
THEOREM CCountersServe == HandOvers /\ CSpec => []CounterServesItsTicket
<1>1. HandOverInv => CounterServesItsTicket
  BY DEF HandOverInv, RowsAgree
<1>. QED
  BY <1>1, HandOverAlways, PTL

================================================================================
