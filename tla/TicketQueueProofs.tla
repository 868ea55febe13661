-------------------------- MODULE TicketQueueProofs --------------------------
(***************************************************************************)
(* Theorems of TicketQueue: its invariants hold for every number of        *)
(* tickets, representatives, counters, operators, days and positions.      *)
(*                                                                         *)
(* First come lemmas on what each transaction of TicketStore does to the   *)
(* types and to the places of the tickets, whichever specification runs it.*)
(***************************************************************************)
EXTENDS TicketQueue, FiniteSetTheorems, WellFoundedInduction, TLAPS

-----------------------------------------------------------------------------
(* Types of the writes *)

(* A row in one of the states of TicketState has been inserted. *)
LEMMA PresentRow ==
  ASSUME TypeOK, NEW t \in Tickets, tickets[t].state \in TicketState
  PROVE  tickets[t] \in Ticket
BY DEF TypeOK, NoRow, TicketState, ACTIVE_STATES

(* Writing one well-typed row keeps the table well-typed. *)
LEMMA SetTicketType ==
  ASSUME TypeOK, NEW t \in Tickets, NEW row \in Ticket, SetTicket(t, row)
  PROVE  tickets' \in [Tickets -> Ticket \cup {NoRow}]
BY DEF TypeOK, SetTicket

(* So does writing the state of a counter, or leaving the counters alone. *)
LEMMA SetCounterStateType ==
  ASSUME TypeOK, NEW c \in Counters, NEW state \in CounterState, SetCounterState(c, state)
  PROVE  counters' \in [Counters -> Counter]
BY DEF TypeOK, SetCounterState, Counter

LEMMA FreeCounterIfAnyType ==
  ASSUME TypeOK, NEW c \in Counters \cup {None}, FreeCounterIfAny(c)
  PROVE  counters' \in [Counters -> Counter]
BY SetCounterStateType DEF TypeOK, FreeCounterIfAny, CounterState

LEMMA FreeCounterInType ==
  ASSUME TypeOK, NEW c \in Counters \cup {None}, NEW states, FreeCounterIn(c, states)
  PROVE  counters' \in [Counters -> Counter]
BY SetCounterStateType DEF TypeOK, FreeCounterIn, CounterState

LEMMA ReleaseAllCountersType ==
  ASSUME TypeOK, ReleaseAllCounters
  PROVE  counters' \in [Counters -> Counter]
BY DEF TypeOK, ReleaseAllCounters, Counter, CounterState

(* The sequence an upsert hands out is a place, and has a code. *)
LEMMA UpsertQueueType ==
  ASSUME TypeOK, NEW day \in Days, UpsertQueue(day)
  PROVE  /\ queues' \in [Days -> Queue]
         /\ NextPosition(day) \in Positions
BY BoundAssumption DEF TypeOK, UpsertQueue, Queue, NextPosition, Positions

LEMMA GenerateCodeType == \A seq \in Positions : GenerateCode(seq) \in Codes
BY BoundAssumption DEF GenerateCode, Codes, Positions

-----------------------------------------------------------------------------
(* TypeOK, transaction by transaction *)

LEMMA InsertTicketType ==
  ASSUME TypeOK, NEW t \in Tickets, NEW rep \in Reps, NEW day \in Days,
         NEW priority \in BOOLEAN, InsertTicket(t, rep, day, priority)
  PROVE  TypeOK'
<1>1. UpsertQueue(day)
  BY DEF InsertTicket
<1>2. [state |-> "WAITING", rep |-> rep, day |-> day,
        position |-> NextPosition(day), code |-> GenerateCode(NextPosition(day)),
        priority |-> priority, counter |-> None, operator |-> None,
        started |-> FALSE, overdue |-> FALSE] \in Ticket
  BY <1>1, UpsertQueueType, GenerateCodeType DEF Ticket, TicketState, ACTIVE_STATES
<1>. QED
  BY <1>1, <1>2, SetTicketType, UpsertQueueType DEF InsertTicket, TypeOK

LEMMA SelfCancelType ==
  ASSUME TypeOK, NEW t \in Tickets, SelfCancelTx(t)
  PROVE  TypeOK'
<1>1. tickets[t] \in Ticket
  BY PresentRow DEF SelfCancelTx, TicketState, ACTIVE_STATES
<1>. QED
  BY <1>1, SetTicketType DEF SelfCancelTx, TypeOK, Ticket, TicketState

LEMMA CancelType ==
  ASSUME TypeOK, NEW t \in Tickets, CancelTx(t)
  PROVE  TypeOK'
<1>1. tickets[t] \in Ticket
  BY PresentRow DEF CancelTx, TicketState, ACTIVE_STATES
<1>2. counters' \in [Counters -> Counter]
  BY <1>1, FreeCounterIfAnyType DEF CancelTx, Ticket
<1>3. tickets' \in [Tickets -> Ticket \cup {NoRow}]
  BY <1>1, SetTicketType DEF CancelTx, Ticket, TicketState
<1>. QED
  BY <1>2, <1>3 DEF CancelTx, TypeOK

LEMMA RestoreType ==
  ASSUME TypeOK, NEW t \in Tickets, NEW day \in Days, RestoreTx(t, day)
  PROVE  TypeOK'
<1>1. tickets[t] \in Ticket
  BY PresentRow DEF RestoreTx, Restorable, TicketState, ACTIVE_STATES
<1>2. UpsertQueue(day)
  BY DEF RestoreTx
<1>3. tickets' \in [Tickets -> Ticket \cup {NoRow}]
  BY <1>1, <1>2, UpsertQueueType, SetTicketType
     DEF RestoreTx, Ticket, TicketState, ACTIVE_STATES
<1>. QED
  BY <1>2, <1>3, UpsertQueueType DEF RestoreTx, TypeOK

LEMMA RecallType ==
  ASSUME TypeOK, NEW t \in Tickets, NEW o, RecallTx(t, o)
  PROVE  TypeOK'
<1>1. tickets[t] \in Ticket
  BY PresentRow DEF RecallTx, TicketState, ACTIVE_STATES
<1>. QED
  BY <1>1, SetTicketType DEF RecallTx, TypeOK, Ticket

(* pre is the row, or the columns of it, that the request has read. *)
LEMMA ToInServiceType ==
  ASSUME TypeOK, NEW t \in Tickets, NEW pre, NEW restrictTo,
         pre.counter \in Counters \cup {None},
         TransitionToInService(t, pre, restrictTo)
  PROVE  TypeOK'
<1>1. tickets[t] \in Ticket
  BY PresentRow DEF TransitionToInService, TicketState, ACTIVE_STATES
<1>2. tickets' \in [Tickets -> Ticket \cup {NoRow}]
  BY <1>1, SetTicketType DEF TransitionToInService, Ticket, TicketState, ACTIVE_STATES
<1>3. counters' \in [Counters -> Counter]
  BY SetCounterStateType DEF TransitionToInService, CounterState
<1>. QED
  BY <1>2, <1>3 DEF TransitionToInService, TypeOK

LEMMA ToFinishedType ==
  ASSUME TypeOK, NEW t \in Tickets, NEW pre, NEW restrictTo,
         pre.counter \in Counters \cup {None},
         TransitionToFinished(t, pre, restrictTo)
  PROVE  TypeOK'
<1>1. tickets[t] \in Ticket
  BY PresentRow DEF TransitionToFinished, TicketState, ACTIVE_STATES
<1>2. tickets' \in [Tickets -> Ticket \cup {NoRow}]
  BY <1>1, SetTicketType DEF TransitionToFinished, Ticket, TicketState
<1>3. counters' \in [Counters -> Counter]
  BY SetCounterStateType DEF TransitionToFinished, CounterState
<1>. QED
  BY <1>2, <1>3 DEF TransitionToFinished, TypeOK

LEMMA MarkNoShowType ==
  ASSUME TypeOK, NEW t \in Tickets, NEW pre, NEW o, pre.counter \in Counters,
         MarkNoShow(t, pre, o)
  PROVE  TypeOK'
<1>1. tickets[t] \in Ticket
  BY PresentRow DEF MarkNoShow, TicketState, ACTIVE_STATES
<1>2. tickets' \in [Tickets -> Ticket \cup {NoRow}]
  BY <1>1, SetTicketType DEF MarkNoShow, Ticket, TicketState
<1>3. counters' \in [Counters -> Counter]
  BY SetCounterStateType DEF MarkNoShow, CounterState
<1>. QED
  BY <1>2, <1>3 DEF MarkNoShow, TypeOK

LEMMA CorrectType ==
  ASSUME TypeOK, NEW t \in Tickets, NEW pre, NEW target \in {"FINISHED", "CANCELLED"},
         pre.counter \in Counters \cup {None}, CorrectTx(t, pre, target)
  PROVE  TypeOK'
<1>1. tickets[t] \in Ticket
  BY PresentRow DEF CorrectTx, TicketState, ACTIVE_STATES
<1>2. tickets' \in [Tickets -> Ticket \cup {NoRow}]
  BY <1>1, SetTicketType DEF CorrectTx, Ticket, TicketState
<1>3. counters' \in [Counters -> Counter]
  BY FreeCounterIfAnyType DEF CorrectTx
<1>. QED
  BY <1>2, <1>3 DEF CorrectTx, TypeOK

LEMMA ExpireCallType ==
  ASSUME TypeOK, NEW t \in Tickets, NEW pre, pre.counter \in Counters \cup {None},
         ExpireCallTimeout(t, pre)
  PROVE  TypeOK'
<1>1. tickets[t] \in Ticket
  BY PresentRow DEF ExpireCallTimeout, TicketState, ACTIVE_STATES
<1>2. tickets' \in [Tickets -> Ticket \cup {NoRow}]
  BY <1>1, SetTicketType DEF ExpireCallTimeout, Ticket, TicketState
<1>3. counters' \in [Counters -> Counter]
  BY FreeCounterInType DEF ExpireCallTimeout
<1>. QED
  BY <1>2, <1>3 DEF ExpireCallTimeout, TypeOK

LEMMA PauseType ==
  ASSUME TypeOK, NEW t \in Tickets, PauseTx(t)
  PROVE  TypeOK'
<1>1. tickets[t] \in Ticket
  BY PresentRow DEF PauseTx, TicketState, ACTIVE_STATES
<1>. QED
  BY <1>1, SetTicketType DEF PauseTx, TypeOK, Ticket, TicketState, ACTIVE_STATES

LEMMA StaffPauseType ==
  ASSUME TypeOK, NEW t \in Tickets, NEW pre, pre.state \in TicketState,
         pre.counter \in Counters \cup {None}, StaffPauseTx(t, pre)
  PROVE  TypeOK'
<1>1. tickets[t] \in Ticket
  BY PresentRow DEF StaffPauseTx
<1>2. tickets' \in [Tickets -> Ticket \cup {NoRow}]
  BY <1>1, SetTicketType DEF StaffPauseTx, Ticket, TicketState, ACTIVE_STATES
<1>3. counters' \in [Counters -> Counter]
  BY FreeCounterInType DEF StaffPauseTx
<1>. QED
  BY <1>2, <1>3 DEF StaffPauseTx, TypeOK

LEMMA ResumeInPlaceType ==
  ASSUME TypeOK, NEW t \in Tickets, ResumeInPlace(t)
  PROVE  TypeOK'
<1>1. tickets[t] \in Ticket
  BY PresentRow DEF ResumeInPlace, TicketState, ACTIVE_STATES
<1>. QED
  BY <1>1, SetTicketType DEF ResumeInPlace, TypeOK, Ticket, TicketState, ACTIVE_STATES

LEMMA ResumeToEndType ==
  ASSUME TypeOK, NEW t \in Tickets, NEW day \in Days, ResumeToEndOfQueue(t, day)
  PROVE  TypeOK'
<1>1. UpsertQueue(day)
  BY DEF ResumeToEndOfQueue
<1>2. CASE tickets[t].state = "PAUSED"
  <2>1. tickets[t] \in Ticket
    BY <1>2, PresentRow DEF TicketState, ACTIVE_STATES
  <2>2. tickets' \in [Tickets -> Ticket \cup {NoRow}]
    BY <1>1, <1>2, <2>1, UpsertQueueType, GenerateCodeType, SetTicketType
       DEF ResumeToEndOfQueue, Ticket, TicketState, ACTIVE_STATES
  <2>. QED
    BY <1>1, <2>2, UpsertQueueType DEF ResumeToEndOfQueue, TypeOK
<1>3. CASE tickets[t].state # "PAUSED"
  BY <1>1, <1>3, UpsertQueueType DEF ResumeToEndOfQueue, TypeOK
<1>. QED
  BY <1>2, <1>3

LEMMA SetPriorityType ==
  ASSUME TypeOK, NEW t \in Tickets, NEW isPriority \in BOOLEAN,
         SetTicketPriorityTx(t, isPriority)
  PROVE  TypeOK'
<1>1. tickets[t] \in Ticket
  BY PresentRow DEF SetTicketPriorityTx, TicketState, ACTIVE_STATES
<1>. QED
  BY <1>1, SetTicketType DEF SetTicketPriorityTx, TypeOK, Ticket

LEMMA CallTicketType ==
  ASSUME TypeOK, NEW t \in Tickets, NEW c \in Counters, NEW o \in Operators,
         tickets[t].state = "WAITING", CallTicket(t, c, o)
  PROVE  TypeOK'
<1>1. tickets[t] \in Ticket
  BY PresentRow DEF TicketState, ACTIVE_STATES
<1>2. tickets' \in [Tickets -> Ticket \cup {NoRow}]
  BY <1>1, SetTicketType DEF CallTicket, Ticket, TicketState, ACTIVE_STATES
<1>3. counters' \in [Counters -> Counter]
  BY SetCounterStateType DEF CallTicket, CounterState
<1>. QED
  BY <1>2, <1>3 DEF CallTicket, TypeOK

LEMMA CounterTxType ==
  ASSUME TypeOK, NEW c \in Counters, NEW o \in Operators,
         \/ OpenTx(c, o)
         \/ PauseCounterTx(c, o)
         \/ ResumeCounterTx(c, o)
         \/ CloseTx(c, o)
  PROVE  TypeOK'
BY DEF TypeOK, OpenTx, PauseCounterTx, ResumeCounterTx, CloseTx, SetCounterState,
       Counter, CounterState

LEMMA ForceReleaseType ==
  ASSUME TypeOK, NEW c \in Counters, NEW open \in Tickets \cup {None}, NEW readState,
         open # None => tickets[open] \in Ticket,
         ForceReleaseTx(c, open, readState)
  PROVE  TypeOK'
<1>1. counters' \in [Counters -> Counter]
  BY DEF ForceReleaseTx, TypeOK, Counter, CounterState
<1>2. CASE open = None
  BY <1>1, <1>2 DEF ForceReleaseTx, TypeOK
<1>3. CASE open # None
  <2>1. tickets' \in [Tickets -> Ticket \cup {NoRow}]
    BY <1>3, SetTicketType DEF ForceReleaseTx, Ticket, TicketState
  <2>. QED
    BY <1>1, <2>1 DEF ForceReleaseTx, TypeOK
<1>. QED
  BY <1>2, <1>3

LEMMA OpenDayType ==
  ASSUME TypeOK, NEW day \in Days, OpenDayTx(day, StaleTickets(day))
  PROVE  TypeOK'
<1>1. \A t \in StaleTickets(day) : tickets[t] \in Ticket
  BY PresentRow DEF StaleTickets, TicketState
<1>2. tickets' \in [Tickets -> Ticket \cup {NoRow}]
  <2>1. ASSUME NEW t \in StaleTickets(day)
        PROVE  [tickets[t] EXCEPT !.state = "NO_SHOW", !.overdue = FALSE] \in Ticket
    BY <1>1, <2>1 DEF Ticket, TicketState
  <2>2. tickets \in [Tickets -> Ticket \cup {NoRow}]
    BY DEF TypeOK
  <2>. QED
    BY <2>1, <2>2 DEF OpenDayTx
<1>3. counters' \in [Counters -> Counter]
  BY ReleaseAllCountersType DEF OpenDayTx
<1>4. queues' \in [Days -> Queue]
  <2>1. [queues EXCEPT ![day].exists = TRUE] \in [Days -> Queue]
    BY DEF TypeOK, Queue
  <2>. QED
    BY <2>1 DEF OpenDayTx, Queue
<1>5. er' \in ER
  <2>1. er' = [isDayOpen |-> TRUE, dayOpenedOn |-> day]
    BY DEF OpenDayTx
  <2>2. day \in 0 .. MaxDay
    BY BoundAssumption DEF Days
  <2>. QED
    BY <2>1, <2>2 DEF ER
<1>. QED
  BY <1>2, <1>3, <1>4, <1>5 DEF OpenDayTx, TypeOK

LEMMA CloseDayType ==
  ASSUME TypeOK, NEW day \in Days, CloseDayTx(day, InDay(day, {"IN_SERVICE"}))
  PROVE  TypeOK'
<1>1. \A t \in InDay(day, {"IN_SERVICE"}) : tickets[t] \in Ticket
  BY PresentRow DEF InDay, TicketState, ACTIVE_STATES
<1>2. tickets' \in [Tickets -> Ticket \cup {NoRow}]
  <2>1. ASSUME NEW t \in InDay(day, {"IN_SERVICE"})
        PROVE  [tickets[t] EXCEPT !.state = "FINISHED", !.overdue = FALSE] \in Ticket
    BY <1>1, <2>1 DEF Ticket, TicketState
  <2>2. tickets \in [Tickets -> Ticket \cup {NoRow}]
    BY DEF TypeOK
  <2>. QED
    BY <2>1, <2>2 DEF CloseDayTx
<1>3. counters' \in [Counters -> Counter]
  BY ReleaseAllCountersType DEF CloseDayTx
<1>. QED
  BY <1>2, <1>3 DEF CloseDayTx, TypeOK, Queue, ER

LEMMA ClockType ==
  ASSUME TypeOK, Clock
  PROVE  TypeOK'
<1>1. ASSUME NEW t \in Tickets, ToleranceElapses(t)
      PROVE  TypeOK'
  <2>1. tickets[t] \in Ticket
    BY <1>1, PresentRow DEF ToleranceElapses, TicketState, ACTIVE_STATES
  <2>. QED
    BY <1>1, <2>1, SetTicketType DEF ToleranceElapses, TypeOK, Ticket
<1>2. CASE Midnight
  BY <1>2, BoundAssumption DEF Midnight, TypeOK, Days
<1>. QED
  BY <1>1, <1>2 DEF Clock

(* Types alone are inductive: no handler trusts what the rows agree on. *)
LEMMA StepKeepsTypes == TypeOK /\ [Next]_vars => TypeOK'
<1>. SUFFICES ASSUME TypeOK, [Next]_vars PROVE TypeOK'
  OBVIOUS
<1>1. today \in Days /\ \A t \in Tickets : tickets[t].counter \in Counters \cup {None}
  BY DEF TypeOK, Ticket, NoRow
<1>2. CASE RepresentativeNext
  BY <1>1, <1>2, InsertTicketType, SelfCancelType, PauseType, ResumeInPlaceType
     DEF RepresentativeNext, Create, SelfCancel, PauseTicket, ResumeTicket
<1>3. CASE StaffNext
  <2>1. PICK t \in Tickets :
          \/ Cancel(t) \/ Restore(t)
          \/ \E target \in {"FINISHED", "CANCELLED"} : Correct(t, target)
          \/ \E user \in Operators \cup {Staff} : StaffPause(t, user) \/ StaffResume(t, user)
          \/ \E isPriority \in BOOLEAN : SetTicketPriority(t, isPriority)
    BY <1>3 DEF StaffNext
  <2>2. CASE \E user \in Operators \cup {Staff} : StaffPause(t, user)
    BY <1>1, <2>2, StaffPauseType DEF StaffPause, TicketState, ACTIVE_STATES
  <2>3. QED
    BY <1>1, <2>1, <2>2, CancelType, RestoreType, CorrectType, ResumeInPlaceType, SetPriorityType
       DEF Cancel, Restore, Correct, StaffResume, SetTicketPriority
<1>4. CASE ServiceNext
  <2>1. ASSUME NEW t \in Tickets, NEW o \in Operators, NoShow(t, o)
        PROVE  TypeOK'
    BY <1>1, <2>1, MarkNoShowType DEF NoShow, AssignedTo
  <2>2. QED
    BY <1>1, <1>4, <2>1, RecallType, ToInServiceType, ToFinishedType, ExpireCallType,
       ResumeToEndType
       DEF ServiceNext, Recall, StartService, FinishService, AdvanceToInService,
           CompleteService, ExpireCall, ExpirePause
<1>5. CASE CounterNext
  <2>1. ASSUME NEW c \in Counters, NEW o \in Operators, CallNext(c, o)
        PROVE  TypeOK'
    BY <2>1, CallTicketType DEF CallNext, IsHead, Waiting
  <2>2. ASSUME NEW c \in Counters, ForceRelease(c)
        PROVE  TypeOK'
    <3>1. PICK open \in FirstOpenTicket(c) :
            ForceReleaseTx(c, open, IF open = None THEN None ELSE tickets[open].state)
      BY <2>2 DEF ForceRelease
    <3>2. open \in Tickets \cup {None} /\ (open # None => tickets[open] \in Ticket)
      BY PresentRow DEF FirstOpenTicket, OpenTicketsAt, AT_COUNTER, TicketState, ACTIVE_STATES
    <3>3. QED
      BY <3>1, <3>2, ForceReleaseType
  <2>3. QED
    BY <1>5, <2>1, <2>2, CounterTxType DEF CounterNext, OpenCounter, CloseCounter
<1>6. CASE DayNext
  BY <1>1, <1>6, OpenDayType, CloseDayType DEF DayNext, OpenDay, CloseDay
<1>7. CASE Clock
  BY <1>7, ClockType
<1>8. CASE UNCHANGED vars
  BY <1>8 DEF vars, TypeOK
<1>9. QED
  BY <1>2, <1>3, <1>4, <1>5, <1>6, <1>7, <1>8 DEF Next

-----------------------------------------------------------------------------
(* What the rows agree on, whatever the days of the tickets: all parts of  *)
(* RowsAreConsistent but that a day opened today has no ticket of an       *)
(* earlier one, which a request that took its date before midnight breaks. *)

RowsAgree ==
  /\ TypeOK
  /\ OneActivePerRep
  /\ OneOpenTicketPerOperator
  /\ OpenTicketsAreAssigned
  /\ QueuedTicketsHoldNoCounter
  /\ PlacesAreUnique
  /\ OwnersAreUnique
  /\ DatesAreOrdered
  /\ ClosedDayLeavesNoOwner
  /\ ClosedDayLeavesOnlyEarlierCalls
  /\ CounterServesItsTicket

KeepsRows ==
  RowsAgree' /\ (OpenedTodayLeavesNoStaleTicket => OpenedTodayLeavesNoStaleTicket')

-----------------------------------------------------------------------------
(* Most transactions change the state of one active ticket, and perhaps    *)
(* of one counter, and neither the place nor the owner of either.          *)

KeepsOwners ==
  \A c \in Counters :
    /\ counters'[c].operator = counters[c].operator
    /\ counters'[c].state = "UNAVAILABLE" => counters[c].state = "UNAVAILABLE"

KeepsPlace(t) ==
  /\ \A u \in Tickets \ {t} : tickets'[u] = tickets[u]
  /\ tickets[t].state \in ACTIVE_STATES /\ tickets'[t].state \in TicketState
  /\ tickets'[t].rep = tickets[t].rep
  /\ tickets'[t].day = tickets[t].day
  /\ tickets'[t].position = tickets[t].position
  /\ KeepsOwners
  /\ UNCHANGED <<queues, er, today>>

LEMMA SetCounterStateKeepsOwners ==
  ASSUME TypeOK, NEW c \in Counters, NEW state \in CounterState \ {"UNAVAILABLE"},
         SetCounterState(c, state)
  PROVE  KeepsOwners
BY DEF TypeOK, Counter, KeepsOwners, SetCounterState

LEMMA FreeCounterIfAnyKeepsOwners ==
  ASSUME TypeOK, NEW c \in Counters \cup {None}, FreeCounterIfAny(c)
  PROVE  KeepsOwners
BY SetCounterStateKeepsOwners DEF FreeCounterIfAny, KeepsOwners, CounterState

LEMMA FreeCounterInKeepsOwners ==
  ASSUME TypeOK, NEW c \in Counters \cup {None}, NEW states, FreeCounterIn(c, states)
  PROVE  KeepsOwners
BY SetCounterStateKeepsOwners DEF FreeCounterIn, KeepsOwners, CounterState

LEMMA SelfCancelKeepsPlace ==
  ASSUME TypeOK, NEW t \in Tickets, SelfCancelTx(t)
  PROVE  KeepsPlace(t)
<1>1. tickets[t] \in Ticket
  BY PresentRow DEF SelfCancelTx, TicketState, ACTIVE_STATES
<1>2. KeepsOwners
  BY DEF SelfCancelTx, KeepsOwners
<1>. QED
  BY <1>1, <1>2 DEF KeepsPlace, SelfCancelTx, SetTicket, TypeOK, Ticket, TicketState, ACTIVE_STATES

LEMMA CancelKeepsPlace ==
  ASSUME TypeOK, NEW t \in Tickets, CancelTx(t)
  PROVE  KeepsPlace(t)
<1>1. tickets[t] \in Ticket
  BY PresentRow DEF CancelTx, TicketState, ACTIVE_STATES
<1>2. KeepsOwners
  BY <1>1, FreeCounterIfAnyKeepsOwners DEF CancelTx, Ticket
<1>. QED
  BY <1>1, <1>2 DEF KeepsPlace, CancelTx, SetTicket, TypeOK, Ticket, TicketState, ACTIVE_STATES

LEMMA RecallKeepsPlace ==
  ASSUME TypeOK, NEW t \in Tickets, NEW o, RecallTx(t, o)
  PROVE  KeepsPlace(t)
<1>1. tickets[t] \in Ticket
  BY PresentRow DEF RecallTx, TicketState, ACTIVE_STATES
<1>2. KeepsOwners
  BY DEF RecallTx, KeepsOwners
<1>. QED
  BY <1>1, <1>2 DEF KeepsPlace, RecallTx, SetTicket, TypeOK, Ticket, TicketState, ACTIVE_STATES

LEMMA ToInServiceKeepsPlace ==
  ASSUME TypeOK, NEW t \in Tickets, NEW pre, NEW restrictTo,
         pre.counter \in Counters \cup {None},
         TransitionToInService(t, pre, restrictTo)
  PROVE  KeepsPlace(t)
<1>1. tickets[t] \in Ticket
  BY PresentRow DEF TransitionToInService, TicketState, ACTIVE_STATES
<1>2. KeepsOwners
  BY SetCounterStateKeepsOwners DEF TransitionToInService, CounterState
<1>. QED
  BY <1>1, <1>2 DEF KeepsPlace, TransitionToInService, SetTicket, TypeOK, Ticket, TicketState, ACTIVE_STATES

LEMMA ToFinishedKeepsPlace ==
  ASSUME TypeOK, NEW t \in Tickets, NEW pre, NEW restrictTo,
         pre.counter \in Counters \cup {None},
         TransitionToFinished(t, pre, restrictTo)
  PROVE  KeepsPlace(t)
<1>1. tickets[t] \in Ticket
  BY PresentRow DEF TransitionToFinished, TicketState, ACTIVE_STATES
<1>2. KeepsOwners
  BY SetCounterStateKeepsOwners DEF TransitionToFinished, CounterState
<1>. QED
  BY <1>1, <1>2 DEF KeepsPlace, TransitionToFinished, SetTicket, TypeOK, Ticket, TicketState, ACTIVE_STATES

LEMMA MarkNoShowKeepsPlace ==
  ASSUME TypeOK, NEW t \in Tickets, NEW pre, NEW o, pre.counter \in Counters,
         MarkNoShow(t, pre, o)
  PROVE  KeepsPlace(t)
<1>1. tickets[t] \in Ticket
  BY PresentRow DEF MarkNoShow, TicketState, ACTIVE_STATES
<1>2. KeepsOwners
  BY SetCounterStateKeepsOwners DEF MarkNoShow, CounterState
<1>. QED
  BY <1>1, <1>2 DEF KeepsPlace, MarkNoShow, SetTicket, TypeOK, Ticket, TicketState, ACTIVE_STATES

LEMMA CorrectKeepsPlace ==
  ASSUME TypeOK, NEW t \in Tickets, NEW pre, NEW target \in {"FINISHED", "CANCELLED"},
         pre.counter \in Counters \cup {None},
         CorrectTx(t, pre, target)
  PROVE  KeepsPlace(t)
<1>1. tickets[t] \in Ticket
  BY PresentRow DEF CorrectTx, TicketState, ACTIVE_STATES
<1>2. KeepsOwners
  BY FreeCounterIfAnyKeepsOwners DEF CorrectTx
<1>. QED
  BY <1>1, <1>2 DEF KeepsPlace, CorrectTx, SetTicket, TypeOK, Ticket, TicketState, ACTIVE_STATES

LEMMA ExpireCallKeepsPlace ==
  ASSUME TypeOK, NEW t \in Tickets, NEW pre, pre.counter \in Counters \cup {None},
         ExpireCallTimeout(t, pre)
  PROVE  KeepsPlace(t)
<1>1. tickets[t] \in Ticket
  BY PresentRow DEF ExpireCallTimeout, TicketState, ACTIVE_STATES
<1>2. KeepsOwners
  BY FreeCounterInKeepsOwners DEF ExpireCallTimeout
<1>. QED
  BY <1>1, <1>2 DEF KeepsPlace, ExpireCallTimeout, SetTicket, TypeOK, Ticket, TicketState, ACTIVE_STATES

LEMMA PauseKeepsPlace ==
  ASSUME TypeOK, NEW t \in Tickets, PauseTx(t)
  PROVE  KeepsPlace(t)
<1>1. tickets[t] \in Ticket
  BY PresentRow DEF PauseTx, TicketState, ACTIVE_STATES
<1>2. KeepsOwners
  BY DEF PauseTx, KeepsOwners
<1>. QED
  BY <1>1, <1>2 DEF KeepsPlace, PauseTx, SetTicket, TypeOK, Ticket, TicketState, ACTIVE_STATES

LEMMA StaffPauseKeepsPlace ==
  ASSUME TypeOK, NEW t \in Tickets, NEW pre, pre.state \in AT_COUNTER \cup {"WAITING"},
         pre.counter \in Counters \cup {None},
         StaffPauseTx(t, pre)
  PROVE  KeepsPlace(t)
<1>1. tickets[t] \in Ticket
  BY PresentRow DEF StaffPauseTx, TicketState, ACTIVE_STATES, AT_COUNTER
<1>2. KeepsOwners
  BY FreeCounterInKeepsOwners DEF StaffPauseTx
<1>. QED
  BY <1>1, <1>2 DEF KeepsPlace, StaffPauseTx, SetTicket, TypeOK, Ticket, TicketState, ACTIVE_STATES,
     AT_COUNTER

LEMMA ResumeInPlaceKeepsPlace ==
  ASSUME TypeOK, NEW t \in Tickets, ResumeInPlace(t)
  PROVE  KeepsPlace(t)
<1>1. tickets[t] \in Ticket
  BY PresentRow DEF ResumeInPlace, TicketState, ACTIVE_STATES
<1>2. KeepsOwners
  BY DEF ResumeInPlace, KeepsOwners
<1>. QED
  BY <1>1, <1>2 DEF KeepsPlace, ResumeInPlace, SetTicket, TypeOK, Ticket, TicketState, ACTIVE_STATES

LEMMA SetPriorityKeepsPlace ==
  ASSUME TypeOK, NEW t \in Tickets, NEW isPriority \in BOOLEAN,
         SetTicketPriorityTx(t, isPriority)
  PROVE  KeepsPlace(t)
<1>1. tickets[t] \in Ticket
  BY PresentRow DEF SetTicketPriorityTx, TicketState, ACTIVE_STATES
<1>2. KeepsOwners
  BY DEF SetTicketPriorityTx, KeepsOwners
<1>. QED
  BY <1>1, <1>2 DEF KeepsPlace, SetTicketPriorityTx, SetTicket, TypeOK, Ticket, TicketState, ACTIVE_STATES

LEMMA CallTicketKeepsPlace ==
  ASSUME TypeOK, NEW t \in Tickets, NEW c \in Counters, NEW o \in Operators,
         tickets[t].state = "WAITING", CallTicket(t, c, o)
  PROVE  KeepsPlace(t)
<1>1. tickets[t] \in Ticket
  BY PresentRow DEF CallTicket, TicketState, ACTIVE_STATES
<1>2. KeepsOwners
  BY SetCounterStateKeepsOwners DEF CallTicket, CounterState
<1>. QED
  BY <1>1, <1>2 DEF KeepsPlace, CallTicket, SetTicket, TypeOK, Ticket, TicketState, ACTIVE_STATES

LEMMA ToleranceElapsesKeepsPlace ==
  ASSUME TypeOK, NEW t \in Tickets, ToleranceElapses(t)
  PROVE  KeepsPlace(t)
<1>1. tickets[t] \in Ticket
  BY PresentRow DEF ToleranceElapses, TicketState, ACTIVE_STATES
<1>2. KeepsOwners
  BY DEF ToleranceElapses, KeepsOwners
<1>. QED
  BY <1>1, <1>2 DEF KeepsPlace, ToleranceElapses, SetTicket, TypeOK, Ticket, TicketState, ACTIVE_STATES

-----------------------------------------------------------------------------
(* Steps that keep the place of the one ticket they write *)

LEMMA KeepingPlaceKeepsTheLine ==
  ASSUME RowsAgree, TypeOK', NEW t \in Tickets, KeepsPlace(t)
  PROVE  /\ OneActivePerRep'
         /\ PlacesAreUnique'
         /\ OwnersAreUnique'
         /\ DatesAreOrdered'
         /\ ClosedDayLeavesNoOwner'
         /\ OpenedTodayLeavesNoStaleTicket => OpenedTodayLeavesNoStaleTicket'
<1>. USE DEF RowsAgree, KeepsRows
<1>1. tickets[t] # NoRow /\ tickets'[t] # NoRow
  BY DEF KeepsPlace, NoRow, TicketState, ACTIVE_STATES
<1>2. OneActivePerRep'
  BY DEF KeepsPlace, OneActivePerRep, ACTIVE_STATES
<1>3. PlacesAreUnique'
  BY <1>1 DEF KeepsPlace, PlacesAreUnique
<1>4. OwnersAreUnique'
  BY DEF KeepsPlace, KeepsOwners, OwnersAreUnique
<1>5. DatesAreOrdered'
  BY <1>1 DEF KeepsPlace, DatesAreOrdered
<1>6. ClosedDayLeavesNoOwner'
  BY DEF KeepsPlace, KeepsOwners, ClosedDayLeavesNoOwner
<1>7. OpenedTodayLeavesNoStaleTicket => OpenedTodayLeavesNoStaleTicket'
  BY DEF KeepsPlace, OpenedTodayLeavesNoStaleTicket
<1>. QED
  BY <1>2, <1>3, <1>4, <1>5, <1>6, <1>7

(* What such a step does at the counters is left to show.                  *)
LEMMA KeepingPlaceStep ==
  ASSUME RowsAgree, TypeOK', NEW t \in Tickets, KeepsPlace(t),
         OneOpenTicketPerOperator', OpenTicketsAreAssigned',
         QueuedTicketsHoldNoCounter', ClosedDayLeavesOnlyEarlierCalls',
         CounterServesItsTicket'
  PROVE  KeepsRows
BY KeepingPlaceKeepsTheLine DEF RowsAgree, KeepsRows

(* The facts about the tickets at the counters that a step leaves true     *)
(* when it takes none there: every ticket keeps its state, its counter and *)
(* its operator or goes to a state away from the counters.                 *)
LeavesCounter(t) ==
  /\ tickets'[t].state \notin AT_COUNTER
  /\ tickets'[t].state \in {"WAITING", "PAUSED"} =>
       tickets'[t].counter = None /\ tickets'[t].operator = None

LEMMA LeavingKeepsAssignments ==
  ASSUME RowsAgree, NEW t \in Tickets, KeepsPlace(t), LeavesCounter(t)
  PROVE  /\ OneOpenTicketPerOperator'
         /\ OpenTicketsAreAssigned'
         /\ QueuedTicketsHoldNoCounter'
         /\ ClosedDayLeavesOnlyEarlierCalls'
<1>. USE DEF RowsAgree, KeepsRows
<1>1. OneOpenTicketPerOperator'
  BY DEF KeepsPlace, LeavesCounter, OneOpenTicketPerOperator
<1>2. OpenTicketsAreAssigned'
  BY DEF KeepsPlace, LeavesCounter, OpenTicketsAreAssigned
<1>3. QueuedTicketsHoldNoCounter'
  BY DEF KeepsPlace, LeavesCounter, QueuedTicketsHoldNoCounter
<1>4. ClosedDayLeavesOnlyEarlierCalls'
  BY DEF KeepsPlace, LeavesCounter, ClosedDayLeavesOnlyEarlierCalls
<1>. QED
  BY <1>1, <1>2, <1>3, <1>4

(* A ticket away from the counters leaves them as they are.                *)
LEMMA QueuedTicketStep ==
  ASSUME RowsAgree, TypeOK', NEW t \in Tickets, KeepsPlace(t), LeavesCounter(t),
         tickets[t].state \notin AT_COUNTER, UNCHANGED counters
  PROVE  KeepsRows
<1>1. CounterServesItsTicket'
  BY DEF RowsAgree, KeepsPlace, LeavesCounter, CounterServesItsTicket, OpenTicketsAt
<1>. QED
  BY <1>1, LeavingKeepsAssignments, KeepingPlaceStep

(* A ticket that leaves its counter leaves it active, and alone.           *)
LEMMA FreedCounterStep ==
  ASSUME RowsAgree, TypeOK', NEW t \in Tickets, KeepsPlace(t), LeavesCounter(t),
         tickets[t].state \in AT_COUNTER,
         er.isDayOpen => SetCounterState(tickets[t].counter, "ACTIVE")
  PROVE  KeepsRows
<1>1. CounterServesItsTicket'
  <2>. SUFFICES ASSUME er.isDayOpen
                PROVE  CounterServesItsTicket'
    BY DEF KeepsPlace, CounterServesItsTicket
  <2>. DEFINE c == tickets[t].counter
  <2>1. /\ c \in Counters
        /\ counters[c] = [state |-> tickets[t].state, operator |-> tickets[t].operator]
    BY DEF RowsAgree, CounterServesItsTicket, OpenTicketsAreAssigned
  <2>2. /\ counters'[c] = [counters[c] EXCEPT !.state = "ACTIVE"]
        /\ \A d \in Counters \ {c} : counters'[d] = counters[d]
    BY <2>1 DEF SetCounterState, RowsAgree, TypeOK
  <2>3. \A u \in Tickets \ {t} : tickets[u].state \in AT_COUNTER => tickets[u].counter # c
    <3>. SUFFICES ASSUME NEW u \in Tickets \ {t},
                         tickets[u].state \in AT_COUNTER, tickets[u].counter = c
                  PROVE  FALSE
      OBVIOUS
    <3>1. counters[c] = [state |-> tickets[u].state, operator |-> tickets[u].operator]
      BY DEF RowsAgree, CounterServesItsTicket
    <3>. QED
      BY <2>1, <3>1 DEF RowsAgree, OneOpenTicketPerOperator
  <2>4. ASSUME NEW u \in Tickets, tickets'[u].state \in AT_COUNTER
        PROVE  /\ tickets'[u].counter # None
               /\ counters'[tickets'[u].counter] =
                    [state |-> tickets'[u].state, operator |-> tickets'[u].operator]
    BY <2>2, <2>3, <2>4 DEF KeepsPlace, LeavesCounter, RowsAgree,
       CounterServesItsTicket, OpenTicketsAreAssigned
  <2>5. ASSUME NEW d \in Counters, counters'[d].state \in AT_COUNTER
        PROVE  \E u \in OpenTicketsAt(d)' : OpenTicketsAt(d)' = {u}
    <3>1. d # c
      BY <2>1, <2>2, <2>5 DEF AT_COUNTER
    <3>2. OpenTicketsAt(d)' = OpenTicketsAt(d)
      BY <3>1 DEF OpenTicketsAt, KeepsPlace, LeavesCounter
    <3>. QED
      BY <2>2, <2>5, <3>1, <3>2 DEF RowsAgree, CounterServesItsTicket
  <2>. QED
    BY <2>4, <2>5 DEF CounterServesItsTicket
<1>. QED
  BY <1>1, LeavingKeepsAssignments, KeepingPlaceStep

-----------------------------------------------------------------------------
(* Actions on one ticket that is not at a counter *)

LEMMA SelfCancelStep ==
  ASSUME RowsAgree, NEW t \in Tickets, SelfCancelTx(t)
  PROVE  KeepsRows
<1>1. TypeOK'
  BY SelfCancelType DEF RowsAgree
<1>2. KeepsPlace(t)
  BY SelfCancelKeepsPlace DEF RowsAgree
<1>3. LeavesCounter(t) /\ tickets[t].state \notin AT_COUNTER /\ UNCHANGED counters
  BY DEF SelfCancelTx, SetTicket, LeavesCounter, AT_COUNTER, RowsAgree, TypeOK,
     Ticket, NoRow
<1>. QED
  BY <1>1, <1>2, <1>3, QueuedTicketStep

LEMMA PauseStep ==
  ASSUME RowsAgree, NEW t \in Tickets, PauseTx(t)
  PROVE  KeepsRows
<1>1. TypeOK'
  BY PauseType DEF RowsAgree
<1>2. KeepsPlace(t)
  BY PauseKeepsPlace DEF RowsAgree
<1>3. LeavesCounter(t) /\ tickets[t].state \notin AT_COUNTER /\ UNCHANGED counters
  BY DEF PauseTx, SetTicket, LeavesCounter, AT_COUNTER, RowsAgree, TypeOK,
     Ticket, NoRow, QueuedTicketsHoldNoCounter
<1>. QED
  BY <1>1, <1>2, <1>3, QueuedTicketStep

LEMMA ResumeInPlaceStep ==
  ASSUME RowsAgree, NEW t \in Tickets, ResumeInPlace(t)
  PROVE  KeepsRows
<1>1. TypeOK'
  BY ResumeInPlaceType DEF RowsAgree
<1>2. KeepsPlace(t)
  BY ResumeInPlaceKeepsPlace DEF RowsAgree
<1>3. LeavesCounter(t) /\ tickets[t].state \notin AT_COUNTER /\ UNCHANGED counters
  BY DEF ResumeInPlace, SetTicket, LeavesCounter, AT_COUNTER, RowsAgree, TypeOK,
     Ticket, NoRow, QueuedTicketsHoldNoCounter
<1>. QED
  BY <1>1, <1>2, <1>3, QueuedTicketStep

LEMMA SetPriorityStep ==
  ASSUME RowsAgree, NEW t \in Tickets, NEW isPriority \in BOOLEAN,
         SetTicketPriorityTx(t, isPriority)
  PROVE  KeepsRows
<1>1. TypeOK'
  BY SetPriorityType DEF RowsAgree
<1>2. KeepsPlace(t)
  BY SetPriorityKeepsPlace DEF RowsAgree
<1>3. LeavesCounter(t) /\ tickets[t].state \notin AT_COUNTER /\ UNCHANGED counters
  BY DEF SetTicketPriorityTx, SetTicket, LeavesCounter, AT_COUNTER, RowsAgree,
     TypeOK, Ticket, NoRow, QueuedTicketsHoldNoCounter
<1>. QED
  BY <1>1, <1>2, <1>3, QueuedTicketStep

-----------------------------------------------------------------------------
(* Actions on one ticket that leave its counter free *)

LEMMA CancelStep ==
  ASSUME RowsAgree, NEW t \in Tickets, CancelTx(t)
  PROVE  KeepsRows
<1>1. TypeOK'
  BY CancelType DEF RowsAgree
<1>2. KeepsPlace(t)
  BY CancelKeepsPlace DEF RowsAgree
<1>3. LeavesCounter(t)
  BY DEF CancelTx, SetTicket, LeavesCounter, AT_COUNTER, RowsAgree, TypeOK,
     Ticket, NoRow
<1>4. CASE tickets[t].state \in AT_COUNTER
  <2>1. SetCounterState(tickets[t].counter, "ACTIVE")
    BY <1>4, NoneAssumption
       DEF CancelTx, FreeCounterIfAny, RowsAgree, OpenTicketsAreAssigned
  <2>. QED
    BY <1>1, <1>2, <1>3, <1>4, <2>1, FreedCounterStep
<1>5. CASE tickets[t].state \notin AT_COUNTER
  <2>1. UNCHANGED counters
    BY <1>5 DEF CancelTx, FreeCounterIfAny, ACTIVE_STATES, AT_COUNTER,
       RowsAgree, QueuedTicketsHoldNoCounter
  <2>. QED
    BY <1>1, <1>2, <1>3, <1>5, <2>1, QueuedTicketStep
<1>. QED
  BY <1>4, <1>5

LEMMA FinishStep ==
  ASSUME RowsAgree, NEW t \in Tickets, NEW restrictTo,
         TransitionToFinished(t, tickets[t], restrictTo)
  PROVE  KeepsRows
<1>1. tickets[t].counter \in Counters /\ tickets[t].state \in AT_COUNTER
  BY DEF TransitionToFinished, RowsAgree, OpenTicketsAreAssigned, AT_COUNTER
<1>2. TypeOK'
  BY <1>1, ToFinishedType DEF RowsAgree
<1>3. KeepsPlace(t)
  BY <1>1, ToFinishedKeepsPlace DEF RowsAgree
<1>4. LeavesCounter(t)
  BY DEF TransitionToFinished, SetTicket, LeavesCounter, AT_COUNTER, RowsAgree,
     TypeOK, Ticket, NoRow
<1>5. SetCounterState(tickets[t].counter, "ACTIVE")
  BY DEF TransitionToFinished
<1>. QED
  BY <1>1, <1>2, <1>3, <1>4, <1>5, FreedCounterStep

LEMMA NoShowStep ==
  ASSUME RowsAgree, NEW t \in Tickets, NEW o, MarkNoShow(t, tickets[t], o)
  PROVE  KeepsRows
<1>1. tickets[t].counter \in Counters /\ tickets[t].state \in AT_COUNTER
  BY DEF MarkNoShow, RowsAgree, OpenTicketsAreAssigned, AT_COUNTER
<1>2. TypeOK'
  BY <1>1, MarkNoShowType DEF RowsAgree
<1>3. KeepsPlace(t)
  BY <1>1, MarkNoShowKeepsPlace DEF RowsAgree
<1>4. LeavesCounter(t)
  BY DEF MarkNoShow, SetTicket, LeavesCounter, AT_COUNTER, RowsAgree,
     TypeOK, Ticket, NoRow
<1>5. SetCounterState(tickets[t].counter, "ACTIVE")
  BY DEF MarkNoShow
<1>. QED
  BY <1>1, <1>2, <1>3, <1>4, <1>5, FreedCounterStep

LEMMA CorrectStep ==
  ASSUME RowsAgree, NEW t \in Tickets, NEW target \in {"FINISHED", "CANCELLED"},
         CorrectTx(t, tickets[t], target)
  PROVE  KeepsRows
<1>1. tickets[t].counter \in Counters /\ tickets[t].state \in AT_COUNTER
  BY DEF CorrectTx, RowsAgree, OpenTicketsAreAssigned, AT_COUNTER
<1>2. TypeOK'
  BY <1>1, CorrectType DEF RowsAgree
<1>3. KeepsPlace(t)
  BY <1>1, CorrectKeepsPlace DEF RowsAgree
<1>4. LeavesCounter(t)
  BY DEF CorrectTx, SetTicket, LeavesCounter, AT_COUNTER, RowsAgree,
     TypeOK, Ticket, NoRow
<1>5. SetCounterState(tickets[t].counter, "ACTIVE")
  BY <1>1, NoneAssumption DEF CorrectTx, FreeCounterIfAny
<1>. QED
  BY <1>1, <1>2, <1>3, <1>4, <1>5, FreedCounterStep

(* The guarded updates find the counter in the state of its ticket.        *)
LEMMA BusyCounter ==
  ASSUME RowsAgree, NEW t \in Tickets, tickets[t].state \in AT_COUNTER, er.isDayOpen
  PROVE  /\ tickets[t].counter \in Counters
         /\ counters[tickets[t].counter].state = tickets[t].state
         /\ counters[tickets[t].counter].operator = tickets[t].operator
<1>1. counters[tickets[t].counter] =
        [state |-> tickets[t].state, operator |-> tickets[t].operator]
  BY DEF RowsAgree, CounterServesItsTicket
<1>2. tickets[t].counter \in Counters
  BY DEF RowsAgree, OpenTicketsAreAssigned
<1>. QED
  BY <1>1, <1>2

LEMMA ExpireCallStep ==
  ASSUME RowsAgree, NEW t \in Tickets, ExpireCallTimeout(t, tickets[t])
  PROVE  KeepsRows
<1>1. tickets[t].counter \in Counters /\ tickets[t].state \in AT_COUNTER
  BY DEF ExpireCallTimeout, RowsAgree, OpenTicketsAreAssigned, AT_COUNTER
<1>2. TypeOK'
  BY <1>1, ExpireCallType DEF RowsAgree
<1>3. KeepsPlace(t)
  BY <1>1, ExpireCallKeepsPlace DEF RowsAgree
<1>4. LeavesCounter(t)
  BY DEF ExpireCallTimeout, SetTicket, LeavesCounter, AT_COUNTER, RowsAgree,
     TypeOK, Ticket, NoRow
<1>5. er.isDayOpen => SetCounterState(tickets[t].counter, "ACTIVE")
  BY <1>1, BusyCounter, NoneAssumption DEF ExpireCallTimeout, FreeCounterIn
<1>. QED
  BY <1>1, <1>2, <1>3, <1>4, <1>5, FreedCounterStep

LEMMA StaffPauseStep ==
  ASSUME RowsAgree, NEW t \in Tickets,
         tickets[t].state \in {"WAITING", "CALLING", "IN_SERVICE"},
         StaffPauseTx(t, tickets[t])
  PROVE  KeepsRows
<1>1. tickets[t] \in Ticket
  BY PresentRow DEF RowsAgree, TicketState, ACTIVE_STATES
<1>2. TypeOK'
  BY <1>1, StaffPauseType DEF RowsAgree, Ticket
<1>3. KeepsPlace(t)
  BY <1>1, StaffPauseKeepsPlace DEF RowsAgree, Ticket, AT_COUNTER
<1>4. LeavesCounter(t)
  BY <1>1 DEF StaffPauseTx, SetTicket, LeavesCounter, AT_COUNTER, RowsAgree,
     TypeOK, Ticket
<1>5. CASE tickets[t].state \in AT_COUNTER
  <2>1. er.isDayOpen => SetCounterState(tickets[t].counter, "ACTIVE")
    BY <1>5, BusyCounter, NoneAssumption DEF StaffPauseTx, FreeCounterIn
  <2>. QED
    BY <1>2, <1>3, <1>4, <1>5, <2>1, FreedCounterStep
<1>6. CASE tickets[t].state \notin AT_COUNTER
  <2>1. UNCHANGED counters
    BY <1>6 DEF StaffPauseTx, FreeCounterIn, AT_COUNTER, RowsAgree,
       QueuedTicketsHoldNoCounter
  <2>. QED
    BY <1>2, <1>3, <1>4, <1>6, <2>1, QueuedTicketStep
<1>. QED
  BY <1>5, <1>6

-----------------------------------------------------------------------------
(* Actions on one ticket that stays at its counter, or goes to one *)

(* Two tickets are never at one counter. *)
LEMMA OneTicketAtACounter ==
  ASSUME RowsAgree, er.isDayOpen, NEW t \in Tickets, NEW u \in Tickets,
         tickets[t].state \in AT_COUNTER, tickets[u].state \in AT_COUNTER,
         tickets[t].counter = tickets[u].counter
  PROVE  t = u
<1>1. tickets[t].operator = tickets[u].operator
  BY BusyCounter
<1>. QED
  BY <1>1 DEF RowsAgree, OneOpenTicketPerOperator

(* A recall, or a tolerance running out, changes neither.                  *)
SameAssignments ==
  \A u \in Tickets :
    /\ tickets'[u].state = tickets[u].state /\ tickets'[u].day = tickets[u].day
    /\ tickets'[u].counter = tickets[u].counter
    /\ tickets'[u].operator = tickets[u].operator

LEMMA SameAssignmentsStep ==
  ASSUME RowsAgree, TypeOK', NEW t \in Tickets, KeepsPlace(t), SameAssignments,
         UNCHANGED <<counters, er, today>>
  PROVE  KeepsRows
<1>. USE DEF SameAssignments
<1>1. OneOpenTicketPerOperator' /\ OpenTicketsAreAssigned'
  BY DEF RowsAgree, OneOpenTicketPerOperator, OpenTicketsAreAssigned
<1>2. QueuedTicketsHoldNoCounter' /\ ClosedDayLeavesOnlyEarlierCalls'
  BY DEF RowsAgree, QueuedTicketsHoldNoCounter, ClosedDayLeavesOnlyEarlierCalls
<1>3. CounterServesItsTicket'
  BY DEF RowsAgree, CounterServesItsTicket, OpenTicketsAt
<1>. QED
  BY <1>1, <1>2, <1>3, KeepingPlaceStep

LEMMA RecallStep ==
  ASSUME RowsAgree, NEW t \in Tickets, NEW o, RecallTx(t, o)
  PROVE  KeepsRows
<1>1. TypeOK' /\ KeepsPlace(t)
  BY RecallType, RecallKeepsPlace DEF RowsAgree
<1>2. tickets[t] \in Ticket
  BY PresentRow DEF RecallTx, RowsAgree, TicketState, ACTIVE_STATES
<1>3. SameAssignments
  BY <1>2 DEF RecallTx, SetTicket, Ticket, RowsAgree, TypeOK, SameAssignments
<1>. QED
  BY <1>1, <1>3, SameAssignmentsStep DEF RecallTx

LEMMA ToleranceElapsesStep ==
  ASSUME RowsAgree, NEW t \in Tickets, ToleranceElapses(t)
  PROVE  KeepsRows
<1>1. TypeOK' /\ KeepsPlace(t)
  BY ClockType, ToleranceElapsesKeepsPlace DEF RowsAgree, Clock
<1>2. tickets[t] \in Ticket
  BY PresentRow DEF ToleranceElapses, RowsAgree, TicketState, ACTIVE_STATES
<1>3. SameAssignments
  BY <1>2 DEF ToleranceElapses, SetTicket, Ticket, RowsAgree, TypeOK, SameAssignments
<1>. QED
  BY <1>1, <1>3, SameAssignmentsStep DEF ToleranceElapses

(* One ticket t is at counter c with operator o after the step, and it is  *)
(* the only thing that changed there.                                      *)
LEMMA TicketAtCounterStep ==
  ASSUME RowsAgree, TypeOK', NEW t \in Tickets, KeepsPlace(t),
         NEW c \in Counters, NEW o \in Operators, NEW state \in AT_COUNTER,
         tickets'[t].state = state, tickets'[t].counter = c, tickets'[t].operator = o,
         SetCounterState(c, state),
         er.isDayOpen => /\ counters[c].operator = o
                         /\ \A u \in Tickets \ {t} :
                              tickets[u].state \in AT_COUNTER => tickets[u].counter # c,
         \A u \in Tickets \ {t} : tickets[u].state \in AT_COUNTER => tickets[u].operator # o,
         tickets[t].state \in AT_COUNTER => tickets[t].counter = c,
         ~er.isDayOpen => tickets[t].state \in AT_COUNTER
  PROVE  KeepsRows
<1>1. OneOpenTicketPerOperator'
  BY DEF RowsAgree, KeepsPlace, OneOpenTicketPerOperator
<1>2. OpenTicketsAreAssigned'
  BY DEF RowsAgree, KeepsPlace, OpenTicketsAreAssigned
<1>3. QueuedTicketsHoldNoCounter'
  BY DEF RowsAgree, KeepsPlace, QueuedTicketsHoldNoCounter, AT_COUNTER
<1>4. ClosedDayLeavesOnlyEarlierCalls'
  BY DEF RowsAgree, KeepsPlace, ClosedDayLeavesOnlyEarlierCalls
<1>5. CounterServesItsTicket'
  <2>. SUFFICES ASSUME er.isDayOpen
                PROVE  CounterServesItsTicket'
    BY DEF KeepsPlace, CounterServesItsTicket
  <2>1. /\ counters'[c] = [state |-> state, operator |-> o]
        /\ \A d \in Counters \ {c} : counters'[d] = counters[d]
    BY DEF SetCounterState, RowsAgree, TypeOK, Counter
  <2>2. ASSUME NEW u \in Tickets, tickets'[u].state \in AT_COUNTER
        PROVE  /\ tickets'[u].counter # None
               /\ counters'[tickets'[u].counter] =
                    [state |-> tickets'[u].state, operator |-> tickets'[u].operator]
    <3>1. CASE u = t
      BY <2>1, <3>1, NoneAssumption
    <3>2. CASE u # t
      BY <2>1, <2>2, <3>2 DEF KeepsPlace, RowsAgree, CounterServesItsTicket,
         OpenTicketsAreAssigned
    <3>. QED
      BY <3>1, <3>2
  <2>3. OpenTicketsAt(c)' = {t}
    BY DEF OpenTicketsAt, KeepsPlace
  <2>4. ASSUME NEW d \in Counters \ {c}, counters'[d].state \in AT_COUNTER
        PROVE  \E u \in OpenTicketsAt(d)' : OpenTicketsAt(d)' = {u}
    <3>1. OpenTicketsAt(d)' = OpenTicketsAt(d)
      BY DEF OpenTicketsAt, KeepsPlace
    <3>. QED
      BY <2>1, <2>4, <3>1 DEF RowsAgree, CounterServesItsTicket
  <2>. QED
    BY <2>2, <2>3, <2>4 DEF CounterServesItsTicket
<1>. QED
  BY <1>1, <1>2, <1>3, <1>4, <1>5, KeepingPlaceStep

LEMMA StartStep ==
  ASSUME RowsAgree, NEW t \in Tickets, NEW restrictTo,
         TransitionToInService(t, tickets[t], restrictTo)
  PROVE  KeepsRows
<1>. DEFINE c == tickets[t].counter
            o == tickets[t].operator
<1>1. tickets[t].state = "CALLING" /\ tickets[t].state \in AT_COUNTER
  BY DEF TransitionToInService, AT_COUNTER
<1>2. c \in Counters /\ o \in Operators
  BY <1>1 DEF RowsAgree, OpenTicketsAreAssigned
<1>3. TypeOK'
  BY <1>2, ToInServiceType DEF RowsAgree
<1>4. KeepsPlace(t)
  BY <1>2, ToInServiceKeepsPlace DEF RowsAgree
<1>5. tickets[t] \in Ticket
  BY <1>1, PresentRow DEF RowsAgree, TicketState, ACTIVE_STATES
<1>6. tickets'[t].state = "IN_SERVICE" /\ tickets'[t].counter = c /\ tickets'[t].operator = o
  BY <1>5 DEF TransitionToInService, SetTicket, RowsAgree, TypeOK, Ticket
<1>7. SetCounterState(c, "IN_SERVICE")
  BY DEF TransitionToInService
<1>8. er.isDayOpen => /\ counters[c].operator = o
                      /\ \A u \in Tickets \ {t} :
                           tickets[u].state \in AT_COUNTER => tickets[u].counter # c
  BY <1>1, BusyCounter, OneTicketAtACounter
<1>9. \A u \in Tickets \ {t} : tickets[u].state \in AT_COUNTER => tickets[u].operator # o
  BY <1>1 DEF RowsAgree, OneOpenTicketPerOperator
<1>. HIDE DEF c, o
<1>10. "IN_SERVICE" \in AT_COUNTER
  BY DEF AT_COUNTER
<1>11. tickets[t].counter = c
  BY DEF c
<1>. QED
  BY <1>1, <1>2, <1>3, <1>4, <1>6, <1>7, <1>8, <1>9, <1>10, <1>11, TicketAtCounterStep

LEMMA CallStep ==
  ASSUME RowsAgree, NEW c \in Counters, NEW o \in Operators, MayCall(c, o),
         NEW t \in Tickets, tickets[t].state = "WAITING", CallTicket(t, c, o)
  PROVE  KeepsRows
<1>1. /\ counters[c].operator = o /\ counters[c].state = "ACTIVE"
      /\ \A u \in Tickets : tickets[u].state \in AT_COUNTER => tickets[u].operator # o
  BY DEF MayCall, HasOpenTicket
<1>2. TypeOK'
  BY CallTicketType DEF RowsAgree
<1>3. KeepsPlace(t)
  BY CallTicketKeepsPlace DEF RowsAgree
<1>4. tickets[t] \in Ticket
  BY PresentRow DEF RowsAgree, TicketState, ACTIVE_STATES
<1>5. tickets'[t].state = "CALLING" /\ tickets'[t].counter = c /\ tickets'[t].operator = o
  BY <1>4 DEF CallTicket, SetTicket, RowsAgree, TypeOK, Ticket
<1>6. SetCounterState(c, "CALLING")
  BY DEF CallTicket
<1>7. er.isDayOpen
  BY <1>1, NoneAssumption DEF RowsAgree, ClosedDayLeavesNoOwner
<1>8. \A u \in Tickets : tickets[u].state \in AT_COUNTER => tickets[u].counter # c
  BY <1>1, <1>7, BusyCounter DEF AT_COUNTER
<1>9. "CALLING" \in AT_COUNTER /\ "WAITING" \notin AT_COUNTER
  BY DEF AT_COUNTER
<1>. QED
  BY <1>1, <1>2, <1>3, <1>5, <1>6, <1>7, <1>8, <1>9, TicketAtCounterStep

LEMMA CallNextStep ==
  ASSUME RowsAgree, NEW c \in Counters, NEW o \in Operators, CallNext(c, o)
  PROVE  KeepsRows
BY CallStep DEF CallNext, IsHead, Waiting

-----------------------------------------------------------------------------
(* Actions that put a ticket at the end of a line *)

(* What an upsert does to the queues. *)
LEMMA UpsertEffect ==
  ASSUME TypeOK, NEW day \in Days, UpsertQueue(day)
  PROVE  /\ queues'[day].exists
         /\ queues'[day].nextSequence = NextPosition(day)
         /\ NextPosition(day) > queues[day].nextSequence
         /\ queues[day].nextSequence \in Nat
         /\ \A d \in Days : queues'[d].closed = queues[d].closed
         /\ \A d \in Days \ {day} : queues'[d] = queues[d]
<1>1. queues[day] \in Queue /\ queues[day].nextSequence \in Nat
  BY DEF TypeOK, Queue
<1>. DEFINE created == [queues EXCEPT ![day].exists = TRUE]
<1>2. /\ created \in [Days -> Queue]
      /\ created[day].exists
      /\ created[day].nextSequence = queues[day].nextSequence
      /\ \A d \in Days : created[d].closed = queues[d].closed
      /\ \A d \in Days \ {day} : created[d] = queues[d]
  BY DEF TypeOK, Queue
<1>3. queues' = [created EXCEPT ![day].nextSequence = @ + 1]
  BY DEF UpsertQueue
<1>. HIDE DEF created
<1>4. /\ queues'[day].exists
      /\ queues'[day].nextSequence = created[day].nextSequence + 1
      /\ \A d \in Days : queues'[d].closed = created[d].closed
      /\ \A d \in Days \ {day} : queues'[d] = created[d]
  BY <1>2, <1>3 DEF Queue
<1>. QED
  BY <1>1, <1>2, <1>4 DEF NextPosition

LEMMA EnteringStep ==
  ASSUME RowsAgree, TypeOK', NEW t \in Tickets,
         NEW day \in Days, day <= today,
         \A u \in Tickets \ {t} : tickets'[u] = tickets[u],
         tickets[t].state \notin AT_COUNTER,
         tickets'[t] \in Ticket,
         tickets'[t].state = "WAITING",
         tickets'[t].day = day,
         tickets'[t].position = NextPosition(day),
         tickets'[t].counter = None, tickets'[t].operator = None,
         \A u \in Tickets \ {t} :
           tickets[u].state \in ACTIVE_STATES => tickets[u].rep # tickets'[t].rep,
         UpsertQueue(day),
         UNCHANGED <<counters, er, today>>
  PROVE  /\ RowsAgree'
         /\ day = today => KeepsRows
<1>. USE DEF RowsAgree, KeepsRows
<1>1. today \in Days /\ day <= today
  BY DEF TypeOK
<1>2. tickets'[t].state \notin AT_COUNTER
  BY DEF AT_COUNTER
<1>3. OneActivePerRep'
  BY DEF OneActivePerRep, ACTIVE_STATES
<1>4. OneOpenTicketPerOperator' /\ OpenTicketsAreAssigned'
  BY <1>2 DEF OneOpenTicketPerOperator, OpenTicketsAreAssigned
<1>5. QueuedTicketsHoldNoCounter'
  BY DEF QueuedTicketsHoldNoCounter
<1>6. PlacesAreUnique'
  <2>1. \A u \in Tickets \ {t} : tickets[u] # NoRow =>
          /\ tickets[u] \in Ticket
          /\ tickets[u].position <= queues[tickets[u].day].nextSequence
          /\ queues'[tickets[u].day].nextSequence >= queues[tickets[u].day].nextSequence
    <3>1. \A d \in Days : /\ queues[d].nextSequence \in Nat /\ queues'[d].nextSequence \in Nat
                          /\ queues'[d].nextSequence >= queues[d].nextSequence
      BY <1>1, UpsertEffect DEF TypeOK, Queue, NextPosition
    <3>. QED
      BY <3>1 DEF TypeOK, Ticket, PlacesAreUnique
  <2>2. \A u \in Tickets \ {t} : tickets[u].day = day => tickets[u].position # NextPosition(day)
    <3>. SUFFICES ASSUME NEW u \in Tickets \ {t}, tickets[u].day = day
                  PROVE  tickets[u].position # NextPosition(day)
      OBVIOUS
    <3>1. tickets[u] # NoRow
      BY <1>1 DEF NoRow, Days
    <3>. QED
      BY <1>1, <2>1, <3>1, UpsertEffect DEF Ticket, Positions, NextPosition
  <2>3. ASSUME NEW u \in Tickets, tickets'[u] # NoRow
        PROVE  tickets'[u].position <= queues'[tickets'[u].day].nextSequence
    <3>1. CASE u = t
      BY <1>1, <3>1, UpsertEffect DEF NextPosition
    <3>2. CASE u # t
      BY <2>1, <2>3, <3>2 DEF TypeOK, Ticket, Queue, Positions
    <3>. QED
      BY <3>1, <3>2
  <2>4. ASSUME NEW u \in Tickets, tickets'[u] # NoRow, NEW v \in Tickets \ {u},
               tickets'[v].day = tickets'[u].day
        PROVE  tickets'[v].position # tickets'[u].position
    BY <2>2, <2>4 DEF PlacesAreUnique
  <2>. QED
    BY <2>3, <2>4 DEF PlacesAreUnique
<1>7. OwnersAreUnique' /\ ClosedDayLeavesNoOwner'
  BY DEF OwnersAreUnique, ClosedDayLeavesNoOwner
<1>8. DatesAreOrdered'
  <2>1. /\ queues'[day].exists
        /\ \A d \in Days : queues'[d].closed = queues[d].closed
        /\ \A d \in Days \ {day} : queues'[d] = queues[d]
    BY <1>1, UpsertEffect
  <2>2. ASSUME NEW u \in Tickets, tickets'[u] # NoRow
        PROVE  queues'[tickets'[u].day].exists
    <3>1. CASE u = t
      BY <2>1, <3>1
    <3>2. CASE u # t
      <4>1. tickets[u] \in Ticket /\ tickets[u].day \in Days
        BY <2>2, <3>2 DEF TypeOK, Ticket
      <4>. QED
        BY <2>1, <2>2, <3>2, <4>1 DEF DatesAreOrdered
    <3>. QED
      BY <3>1, <3>2
  <2>3. ASSUME NEW d \in Days
        PROVE  /\ queues'[d].exists => d <= today
               /\ queues'[d].closed => queues'[d].exists
    <3>1. CASE d = day
      BY <1>1, <2>1, <3>1 DEF Days
    <3>2. CASE d # day
      BY <2>1, <3>2 DEF DatesAreOrdered
    <3>. QED
      BY <3>1, <3>2
  <2>4. er'.dayOpenedOn <= today' /\ (er'.isDayOpen => ~queues'[today'].closed)
    BY <1>1, <2>1 DEF DatesAreOrdered
  <2>. QED
    BY <2>2, <2>3, <2>4 DEF DatesAreOrdered
<1>9. ClosedDayLeavesOnlyEarlierCalls'
  BY <1>2 DEF ClosedDayLeavesOnlyEarlierCalls
<1>10. day = today =>
         (OpenedTodayLeavesNoStaleTicket => OpenedTodayLeavesNoStaleTicket')
  BY DEF OpenedTodayLeavesNoStaleTicket
<1>11. CounterServesItsTicket'
  BY <1>2 DEF CounterServesItsTicket, OpenTicketsAt
<1>. QED
  BY <1>3, <1>4, <1>5, <1>6, <1>7, <1>8, <1>9, <1>10, <1>11

LEMMA InsertStep ==
  ASSUME RowsAgree, NEW t \in Tickets, NEW rep \in Reps, NEW priority \in BOOLEAN,
         NEW day \in Days, day <= today,
         ~HasActiveTicket(rep, {}), InsertTicket(t, rep, day, priority)
  PROVE  RowsAgree' /\ (day = today => KeepsRows)
<1>1. TypeOK'
  BY InsertTicketType DEF RowsAgree
<1>2. tickets[t].state \notin AT_COUNTER
  BY DEF InsertTicket, NoRow, AT_COUNTER
<1>3. /\ \A u \in Tickets \ {t} : tickets'[u] = tickets[u]
      /\ tickets'[t].state = "WAITING" /\ tickets'[t].rep = rep
      /\ tickets'[t].day = day /\ tickets'[t].position = NextPosition(day)
      /\ tickets'[t].counter = None /\ tickets'[t].operator = None
  BY DEF InsertTicket, SetTicket, RowsAgree, TypeOK
<1>4. tickets'[t] \in Ticket
  BY <1>1, <1>3 DEF TypeOK, NoRow
<1>5. \A u \in Tickets \ {t} :
        tickets[u].state \in ACTIVE_STATES => tickets[u].rep # tickets'[t].rep
  BY <1>3 DEF HasActiveTicket
<1>6. UpsertQueue(day) /\ UNCHANGED <<counters, er, today>>
  BY DEF InsertTicket
<1>. QED
  BY <1>1, <1>2, <1>3, <1>4, <1>5, <1>6, EnteringStep

LEMMA RestoringStep ==
  ASSUME RowsAgree, NEW t \in Tickets, NEW day \in Days, day <= today,
         ~HasActiveTicket(tickets[t].rep, {t}), RestoreTx(t, day)
  PROVE  RowsAgree' /\ (day = today => KeepsRows)
<1>1. TypeOK'
  BY RestoreType DEF RowsAgree
<1>2. tickets[t].state \notin AT_COUNTER /\ tickets[t] \in Ticket
  BY PresentRow DEF RestoreTx, Restorable, AT_COUNTER, TicketState, ACTIVE_STATES, RowsAgree
<1>3. /\ \A u \in Tickets \ {t} : tickets'[u] = tickets[u]
      /\ tickets'[t].state = "WAITING" /\ tickets'[t].rep = tickets[t].rep
      /\ tickets'[t].day = day /\ tickets'[t].position = NextPosition(day)
      /\ tickets'[t].counter = None /\ tickets'[t].operator = None
  BY <1>2 DEF RestoreTx, SetTicket, RowsAgree, TypeOK, Ticket
<1>4. tickets'[t] \in Ticket
  BY <1>1, <1>3 DEF TypeOK, NoRow
<1>5. \A u \in Tickets \ {t} :
        tickets[u].state \in ACTIVE_STATES => tickets[u].rep # tickets'[t].rep
  BY <1>3 DEF HasActiveTicket
<1>6. UpsertQueue(day) /\ UNCHANGED <<counters, er, today>>
  BY DEF RestoreTx
<1>. QED
  BY <1>1, <1>2, <1>3, <1>4, <1>5, <1>6, EnteringStep

LEMMA ResumingAtEndStep ==
  ASSUME RowsAgree, NEW t \in Tickets, NEW day \in Days, day <= today,
         tickets[t].state = "PAUSED", ResumeToEndOfQueue(t, day)
  PROVE  RowsAgree' /\ (day = today => KeepsRows)
<1>1. TypeOK'
  BY ResumeToEndType DEF RowsAgree
<1>2. tickets[t].state \notin AT_COUNTER /\ tickets[t] \in Ticket
  BY PresentRow DEF AT_COUNTER, TicketState, ACTIVE_STATES, RowsAgree
<1>3. /\ \A u \in Tickets \ {t} : tickets'[u] = tickets[u]
      /\ tickets'[t].state = "WAITING" /\ tickets'[t].rep = tickets[t].rep
      /\ tickets'[t].day = day /\ tickets'[t].position = NextPosition(day)
      /\ tickets'[t].counter = None /\ tickets'[t].operator = None
  <2>1. tickets' = [tickets EXCEPT ![t] = [tickets[t] EXCEPT
          !.state = "WAITING", !.day = day, !.position = NextPosition(day),
          !.code = GenerateCode(NextPosition(day)), !.overdue = FALSE]]
    BY DEF ResumeToEndOfQueue, SetTicket
  <2>2. tickets[t].counter = None /\ tickets[t].operator = None
    BY DEF RowsAgree, QueuedTicketsHoldNoCounter
  <2>. QED
    BY <1>2, <2>1, <2>2 DEF RowsAgree, TypeOK, Ticket
<1>4. tickets'[t] \in Ticket
  BY <1>1, <1>3 DEF TypeOK, NoRow
<1>5. \A u \in Tickets \ {t} :
        tickets[u].state \in ACTIVE_STATES => tickets[u].rep # tickets'[t].rep
  BY <1>3 DEF RowsAgree, OneActivePerRep, ACTIVE_STATES
<1>6. UpsertQueue(day) /\ UNCHANGED <<counters, er, today>>
  BY DEF ResumeToEndOfQueue
<1>. QED
  BY <1>1, <1>2, <1>3, <1>4, <1>5, <1>6, EnteringStep

LEMMA DateOfToday ==
  ASSUME TypeOK
  PROVE  today \in Days /\ today <= today
BY DEF TypeOK, Days

LEMMA CreateStep ==
  ASSUME RowsAgree, NEW t \in Tickets, NEW rep \in Reps, NEW priority \in BOOLEAN,
         Create(t, rep, priority)
  PROVE  KeepsRows
BY DateOfToday, InsertStep DEF Create, RowsAgree

LEMMA RestoreStep ==
  ASSUME RowsAgree, NEW t \in Tickets, Restore(t)
  PROVE  KeepsRows
BY DateOfToday, RestoringStep DEF Restore, RowsAgree

LEMMA ExpirePauseStep ==
  ASSUME RowsAgree, NEW t \in Tickets, ExpirePause(t)
  PROVE  KeepsRows
BY DateOfToday, ResumingAtEndStep DEF ExpirePause, RowsAgree

-----------------------------------------------------------------------------
(* Actions on a counter that serves no ticket *)

LEMMA IdleCounterStep ==
  ASSUME RowsAgree, TypeOK', NEW c \in Counters, NEW row \in Counter,
         counters[c].state \notin AT_COUNTER, row.state \notin AT_COUNTER,
         counters' = [counters EXCEPT ![c] = row],
         row.state = "UNAVAILABLE" => row.operator = None,
         \A d \in Counters \ {c} : counters[d].operator = row.operator => row.operator = None,
         ~er.isDayOpen => row.operator = None,
         UNCHANGED <<tickets, queues, er, today>>
  PROVE  KeepsRows
<1>. USE DEF RowsAgree, KeepsRows
<1>1. counters'[c] = row /\ \A d \in Counters \ {c} : counters'[d] = counters[d]
  BY DEF TypeOK
<1>2. OneActivePerRep' /\ OneOpenTicketPerOperator' /\ OpenTicketsAreAssigned'
  BY DEF OneActivePerRep, OneOpenTicketPerOperator, OpenTicketsAreAssigned
<1>3. QueuedTicketsHoldNoCounter' /\ PlacesAreUnique' /\ DatesAreOrdered'
  BY DEF QueuedTicketsHoldNoCounter, PlacesAreUnique, DatesAreOrdered
<1>4. /\ ClosedDayLeavesOnlyEarlierCalls'
      /\ OpenedTodayLeavesNoStaleTicket => OpenedTodayLeavesNoStaleTicket'
  BY DEF ClosedDayLeavesOnlyEarlierCalls, OpenedTodayLeavesNoStaleTicket
<1>5. OwnersAreUnique'
  BY <1>1 DEF OwnersAreUnique
<1>6. ClosedDayLeavesNoOwner'
  BY <1>1 DEF ClosedDayLeavesNoOwner
<1>7. CounterServesItsTicket'
  <2>. SUFFICES ASSUME er.isDayOpen
                PROVE  CounterServesItsTicket'
    BY DEF CounterServesItsTicket
  <2>1. \A t \in Tickets : tickets[t].state \in AT_COUNTER => tickets[t].counter # c
    BY BusyCounter
  <2>2. \A d \in Counters : OpenTicketsAt(d)' = OpenTicketsAt(d)
    BY DEF OpenTicketsAt
  <2>. QED
    BY <1>1, <2>1, <2>2 DEF CounterServesItsTicket, OpenTicketsAreAssigned
<1>. QED
  BY <1>2, <1>3, <1>4, <1>5, <1>6, <1>7

LEMMA OpenCounterStep ==
  ASSUME RowsAgree, NEW c \in Counters, NEW o \in Operators, OpenCounter(c, o)
  PROVE  KeepsRows
<1>. DEFINE row == [state |-> "ACTIVE", operator |-> o]
<1>1. OpenTx(c, o) /\ er.isDayOpen
  BY DEF OpenCounter, MayOpen
<1>2. TypeOK'
  BY <1>1, CounterTxType DEF RowsAgree
<1>3. row \in Counter /\ row.state \notin AT_COUNTER /\ row.state # "UNAVAILABLE"
  BY DEF Counter, CounterState, AT_COUNTER
<1>4. counters[c].state \notin AT_COUNTER /\ counters' = [counters EXCEPT ![c] = row]
  BY <1>1 DEF OpenTx, AT_COUNTER
<1>5. \A d \in Counters \ {c} : counters[d].operator # row.operator
  BY <1>1 DEF OpenTx
<1>6. UNCHANGED <<tickets, queues, er, today>>
  BY <1>1 DEF OpenTx
<1>. HIDE DEF row
<1>. QED
  BY <1>1, <1>2, <1>3, <1>4, <1>5, <1>6, IdleCounterStep

LEMMA PauseCounterStep ==
  ASSUME RowsAgree, NEW c \in Counters, NEW o \in Operators,
         PauseCounterTx(c, o) \/ ResumeCounterTx(c, o)
  PROVE  KeepsRows
<1>1. PICK state \in {"ACTIVE", "PAUSED"} : SetCounterState(c, state)
  BY DEF PauseCounterTx, ResumeCounterTx
<1>. DEFINE row == [state |-> state, operator |-> o]
<1>2. counters[c].operator = o /\ counters[c].state \in {"ACTIVE", "PAUSED"}
  BY DEF PauseCounterTx, ResumeCounterTx
<1>3. TypeOK'
  BY CounterTxType DEF RowsAgree
<1>4. row \in Counter /\ row.state \notin AT_COUNTER /\ row.state # "UNAVAILABLE"
  BY DEF Counter, CounterState, AT_COUNTER
<1>5. counters[c].state \notin AT_COUNTER /\ counters' = [counters EXCEPT ![c] = row]
  <2>1. counters[c] \in Counter
    BY DEF RowsAgree, TypeOK
  <2>2. [counters[c] EXCEPT !.state = state] = row
    BY <1>2, <2>1 DEF Counter
  <2>3. counters' = [counters EXCEPT ![c] = [counters[c] EXCEPT !.state = state]]
    BY <1>1 DEF SetCounterState
  <2>. HIDE DEF row
  <2>. QED
    BY <1>2, <2>2, <2>3 DEF AT_COUNTER
<1>6. \A d \in Counters \ {c} : counters[d].operator = row.operator => row.operator = None
  BY <1>2 DEF RowsAgree, OwnersAreUnique
<1>7. ~er.isDayOpen => row.operator = None
  BY <1>2 DEF RowsAgree, ClosedDayLeavesNoOwner
<1>8. UNCHANGED <<tickets, queues, er, today>>
  BY DEF PauseCounterTx, ResumeCounterTx
<1>. HIDE DEF row
<1>. QED
  BY <1>3, <1>4, <1>5, <1>6, <1>7, <1>8, IdleCounterStep

LEMMA CloseCounterStep ==
  ASSUME RowsAgree, NEW c \in Counters, NEW o \in Operators, CloseTx(c, o)
  PROVE  KeepsRows
<1>. DEFINE row == [state |-> "UNAVAILABLE", operator |-> None]
<1>1. TypeOK'
  BY CounterTxType DEF RowsAgree
<1>2. row \in Counter /\ row.state \notin AT_COUNTER /\ row.operator = None
  BY DEF Counter, CounterState, AT_COUNTER
<1>3. counters[c].state \notin AT_COUNTER /\ counters' = [counters EXCEPT ![c] = row]
  BY DEF CloseTx, AT_COUNTER
<1>4. UNCHANGED <<tickets, queues, er, today>>
  BY DEF CloseTx
<1>. HIDE DEF row
<1>. QED
  BY <1>1, <1>2, <1>3, <1>4, IdleCounterStep

(* The forced release resolves the ticket at the counter, if there is one, *)
(* before it takes the counter from its operator.                          *)
LEMMA ForceReleaseStep ==
  ASSUME RowsAgree, NEW c \in Counters, ForceRelease(c)
  PROVE  KeepsRows
<1>. USE DEF RowsAgree, KeepsRows
<1>1. PICK open \in FirstOpenTicket(c) :
        ForceReleaseTx(c, open, IF open = None THEN None ELSE tickets[open].state)
  BY DEF ForceRelease
<1>2. /\ open = None => OpenTicketsAt(c) = {}
      /\ open # None => /\ open \in OpenTicketsAt(c) /\ open \in Tickets
                        /\ tickets[open].counter = c
                        /\ tickets[open].state \in AT_COUNTER
  BY NoneAssumption DEF FirstOpenTicket, OpenTicketsAt
<1>3. open # None => tickets[open] \in Ticket
  BY <1>2, PresentRow DEF AT_COUNTER, TicketState, ACTIVE_STATES
<1>4. TypeOK'
  BY <1>1, <1>2, <1>3, ForceReleaseType
<1>5. /\ counters'[c] = [state |-> "UNAVAILABLE", operator |-> None]
      /\ \A d \in Counters \ {c} : counters'[d] = counters[d]
      /\ UNCHANGED <<queues, er, today>>
  BY <1>1 DEF ForceReleaseTx, TypeOK
<1>6. \A t \in Tickets :
        \/ tickets'[t] = tickets[t] /\ t # open
        \/ /\ t = open /\ tickets'[t].state \in {"FINISHED", "NO_SHOW"}
           /\ tickets'[t].day = tickets[t].day /\ tickets'[t].position = tickets[t].position
           /\ tickets[t] # NoRow
  <2>1. CASE open = None
    BY <1>1, <2>1, NoneAssumption DEF ForceReleaseTx
  <2>2. CASE open # None
    <3>1. \A t \in Tickets \ {open} : tickets'[t] = tickets[t]
      BY <1>1, <2>2 DEF ForceReleaseTx, SetTicket, TypeOK
    <3>2. PICK state \in {"FINISHED", "NO_SHOW"} :
            tickets'[open] = [tickets[open] EXCEPT !.state = state, !.overdue = FALSE]
      BY <1>1, <1>2, <2>2 DEF ForceReleaseTx, SetTicket, TypeOK
    <3>3. /\ tickets'[open].state = state
          /\ tickets'[open].day = tickets[open].day
          /\ tickets'[open].position = tickets[open].position
      BY <1>3, <2>2, <3>2 DEF Ticket
    <3>4. tickets[open] # NoRow
      BY <1>2, <2>2 DEF NoRow, AT_COUNTER
    <3>. QED
      BY <1>2, <2>2, <3>1, <3>3, <3>4
  <2>. QED
    BY <2>1, <2>2
<1>7. \A t \in Tickets : tickets'[t] # NoRow => tickets[t] # NoRow
  BY <1>6
<1>8. OneActivePerRep' /\ OneOpenTicketPerOperator' /\ OpenTicketsAreAssigned'
  BY <1>6 DEF OneActivePerRep, OneOpenTicketPerOperator, OpenTicketsAreAssigned, AT_COUNTER
<1>9. QueuedTicketsHoldNoCounter' /\ PlacesAreUnique' /\ DatesAreOrdered'
  BY <1>5, <1>6, <1>7 DEF QueuedTicketsHoldNoCounter, PlacesAreUnique, DatesAreOrdered
<1>10. /\ ClosedDayLeavesOnlyEarlierCalls'
       /\ OpenedTodayLeavesNoStaleTicket => OpenedTodayLeavesNoStaleTicket'
  BY <1>5, <1>6
     DEF ClosedDayLeavesOnlyEarlierCalls, OpenedTodayLeavesNoStaleTicket, AT_COUNTER,
         ACTIVE_STATES
<1>11. OwnersAreUnique' /\ ClosedDayLeavesNoOwner'
  BY <1>5 DEF OwnersAreUnique, ClosedDayLeavesNoOwner
<1>12. CounterServesItsTicket'
  <2>. SUFFICES ASSUME er.isDayOpen
                PROVE  CounterServesItsTicket'
    BY <1>5 DEF CounterServesItsTicket
  <2>1. \A t \in Tickets : tickets'[t].state \in AT_COUNTER =>
          tickets'[t] = tickets[t] /\ tickets[t].counter # c
    <3>. SUFFICES ASSUME NEW t \in Tickets, tickets'[t].state \in AT_COUNTER
                  PROVE  tickets'[t] = tickets[t] /\ tickets[t].counter # c
      OBVIOUS
    <3>1. tickets'[t] = tickets[t] /\ t # open
      BY <1>6 DEF AT_COUNTER
    <3>2. ASSUME tickets[t].counter = c
          PROVE  FALSE
      <4>1. t \in OpenTicketsAt(c) /\ open # None
        BY <1>2, <3>1, <3>2 DEF OpenTicketsAt
      <4>. QED
        BY <1>2, <3>1, <3>2, <4>1, OneTicketAtACounter
    <3>. QED
      BY <3>1, <3>2
  <2>2. ASSUME NEW d \in Counters, counters'[d].state \in AT_COUNTER
        PROVE  d # c /\ OpenTicketsAt(d)' = OpenTicketsAt(d)
    <3>1. d # c
      BY <1>5, <2>2 DEF AT_COUNTER
    <3>2. ASSUME NEW t \in Tickets
          PROVE  /\ tickets'[t].counter = d /\ tickets'[t].state \in AT_COUNTER
                 <=> tickets[t].counter = d /\ tickets[t].state \in AT_COUNTER
      <4>1. CASE t = open
        BY <1>2, <1>6, <3>1, <4>1, NoneAssumption DEF AT_COUNTER
      <4>2. CASE t # open
        BY <1>6, <4>2
      <4>. QED
        BY <4>1, <4>2
    <3>. QED
      BY <3>1, <3>2 DEF OpenTicketsAt
  <2>. QED
    BY <1>5, <2>1, <2>2 DEF CounterServesItsTicket, OpenTicketsAreAssigned
<1>. QED
  BY <1>4, <1>8, <1>9, <1>10, <1>11, <1>12

-----------------------------------------------------------------------------
(* Opening and closing the day, and midnight *)

LEMMA TicketDates ==
  ASSUME RowsAgree, NEW t \in Tickets, tickets[t] # NoRow
  PROVE  /\ tickets[t] \in Ticket
         /\ tickets[t].day \in Days
         /\ queues[tickets[t].day].exists
         /\ tickets[t].day <= today
BY DEF RowsAgree, TypeOK, Ticket, DatesAreOrdered

(* Resolving a set of active tickets at once. *)
Resolves(set, state) ==
  tickets' = [t \in Tickets |->
                IF t \in set THEN [tickets[t] EXCEPT !.state = state, !.overdue = FALSE]
                ELSE tickets[t]]

LEMMA ResolvingStep ==
  ASSUME RowsAgree, NEW set \in SUBSET Tickets, NEW state \in {"FINISHED", "NO_SHOW"},
         \A t \in set : tickets[t] \in Ticket,
         Resolves(set, state),
         \A d \in Days : queues'[d].nextSequence = queues[d].nextSequence
  PROVE  /\ \A t \in Tickets :
              \/ t \notin set /\ tickets'[t] = tickets[t]
              \/ /\ t \in set /\ tickets'[t].state = state
                 /\ tickets'[t].day = tickets[t].day
                 /\ tickets'[t].position = tickets[t].position
                 /\ tickets[t] # NoRow
         /\ OneActivePerRep' /\ OneOpenTicketPerOperator'
         /\ OpenTicketsAreAssigned' /\ QueuedTicketsHoldNoCounter' /\ PlacesAreUnique'
<1>. USE DEF RowsAgree, KeepsRows
<1>1. \A t \in Tickets :
        \/ t \notin set /\ tickets'[t] = tickets[t]
        \/ /\ t \in set /\ tickets'[t].state = state
           /\ tickets'[t].day = tickets[t].day
           /\ tickets'[t].position = tickets[t].position
           /\ tickets[t] # NoRow
  <2>. SUFFICES ASSUME NEW t \in Tickets, t \in set
                PROVE  /\ tickets'[t].state = state
                       /\ tickets'[t].day = tickets[t].day
                       /\ tickets'[t].position = tickets[t].position
                       /\ tickets[t] # NoRow
    BY DEF Resolves
  <2>1. tickets'[t] = [tickets[t] EXCEPT !.state = state, !.overdue = FALSE]
    BY DEF Resolves
  <2>. QED
    BY <2>1 DEF Ticket, NoRow, TicketState, ACTIVE_STATES
<1>2. OneActivePerRep' /\ OneOpenTicketPerOperator' /\ OpenTicketsAreAssigned'
  BY <1>1 DEF OneActivePerRep, OneOpenTicketPerOperator, OpenTicketsAreAssigned, AT_COUNTER
<1>3. QueuedTicketsHoldNoCounter'
  BY <1>1 DEF QueuedTicketsHoldNoCounter
<1>4. PlacesAreUnique'
  <2>1. \A t \in Tickets : /\ tickets'[t].day = tickets[t].day
                           /\ tickets'[t].position = tickets[t].position
                           /\ tickets'[t] # NoRow => tickets[t] # NoRow
    BY <1>1
  <2>2. \A t \in Tickets : tickets[t] # NoRow =>
          queues'[tickets[t].day].nextSequence = queues[tickets[t].day].nextSequence
    BY TicketDates
  <2>. QED
    BY <2>1, <2>2 DEF PlacesAreUnique
<1>. QED
  BY <1>1, <1>2, <1>3, <1>4

(* Opening or closing a day leaves every counter unavailable and unowned.  *)
LEMMA ReleasedCounters ==
  ASSUME RowsAgree, ReleaseAllCounters
  PROVE  \A c \in Counters : counters'[c].state = "UNAVAILABLE" /\ counters'[c].operator = None
BY DEF RowsAgree, ReleaseAllCounters, OwnersAreUnique

LEMMA OpenDayStep ==
  ASSUME RowsAgree, OpenDay
  PROVE  KeepsRows
<1>. USE DEF RowsAgree, KeepsRows
<1>. DEFINE stale == StaleTickets(today)
<1>1. OpenDayTx(today, stale) /\ today \in Days
  BY DEF OpenDay, TypeOK
<1>2. TypeOK'
  BY <1>1, OpenDayType
<1>3. \A t \in Tickets : tickets[t].state \in AT_COUNTER => t \in stale
  <2>. SUFFICES ASSUME NEW t \in Tickets, tickets[t].state \in AT_COUNTER
                PROVE  tickets[t].day < today
    BY DEF StaleTickets, AT_COUNTER, ACTIVE_STATES
  <2>1. /\ tickets[t].day \in Days /\ queues[tickets[t].day].exists
        /\ tickets[t].day <= today
    BY TicketDates DEF NoRow, AT_COUNTER
  <2>2. CASE er.isDayOpen
    <3>1. ~queues[today].exists
      BY <2>2 DEF OpenDay, DayAlreadyOpen, DatesAreOrdered
    <3>. QED
      BY <1>1, <2>1, <3>1 DEF Days
  <2>3. CASE ~er.isDayOpen
    BY <2>3 DEF ClosedDayLeavesOnlyEarlierCalls
  <2>. QED
    BY <2>2, <2>3
<1>4. \A t \in stale : tickets[t] \in Ticket /\ stale \in SUBSET Tickets
  BY PresentRow DEF StaleTickets, TicketState
<1>5. /\ \A d \in Days \ {today} : queues'[d] = queues[d]
      /\ queues'[today].exists /\ ~queues'[today].closed
      /\ queues'[today].nextSequence = queues[today].nextSequence
  <2>. DEFINE created == [queues EXCEPT ![today].exists = TRUE]
  <2>1. /\ created \in [Days -> Queue]
        /\ \A d \in Days \ {today} : created[d] = queues[d]
        /\ created[today].exists
        /\ created[today].nextSequence = queues[today].nextSequence
    BY <1>1 DEF TypeOK, Queue
  <2>2. queues' = [created EXCEPT ![today].closed = FALSE]
    BY <1>1 DEF OpenDayTx
  <2>. HIDE DEF created
  <2>. QED
    BY <1>1, <2>1, <2>2 DEF Queue
<1>6. er'.isDayOpen /\ er'.dayOpenedOn = today /\ today' = today
  BY <1>1 DEF OpenDayTx
<1>7. Resolves(stale, "NO_SHOW") /\ ReleaseAllCounters
  BY <1>1 DEF OpenDayTx, Resolves
<1>8. stale \in SUBSET Tickets
  BY DEF StaleTickets
<1>9. \A d \in Days : queues'[d].nextSequence = queues[d].nextSequence
  BY <1>5
<1>. HIDE DEF stale
<1>10. /\ \A t \in Tickets :
            \/ t \notin stale /\ tickets'[t] = tickets[t]
            \/ /\ t \in stale /\ tickets'[t].state = "NO_SHOW"
               /\ tickets'[t].day = tickets[t].day /\ tickets[t] # NoRow
       /\ OneActivePerRep' /\ OneOpenTicketPerOperator'
       /\ OpenTicketsAreAssigned' /\ QueuedTicketsHoldNoCounter' /\ PlacesAreUnique'
  BY <1>4, <1>7, <1>8, <1>9, ResolvingStep
<1>11. \A t \in Tickets : tickets'[t].state \notin AT_COUNTER
  BY <1>3, <1>10 DEF AT_COUNTER
<1>12. \A c \in Counters : counters'[c].state = "UNAVAILABLE" /\ counters'[c].operator = None
  BY <1>7, ReleasedCounters
<1>13. OwnersAreUnique' /\ ClosedDayLeavesNoOwner' /\ ClosedDayLeavesOnlyEarlierCalls'
  BY <1>11, <1>12 DEF OwnersAreUnique, ClosedDayLeavesNoOwner, ClosedDayLeavesOnlyEarlierCalls
<1>14. CounterServesItsTicket'
  BY <1>11, <1>12 DEF CounterServesItsTicket, AT_COUNTER
<1>15. DatesAreOrdered'
  <2>1. ASSUME NEW t \in Tickets, tickets'[t] # NoRow
        PROVE  queues'[tickets'[t].day].exists
    <3>1. tickets[t] # NoRow /\ tickets'[t].day = tickets[t].day
      BY <1>10, <2>1
    <3>. QED
      BY <1>5, <3>1, TicketDates
  <2>2. ASSUME NEW d \in Days
        PROVE  /\ queues'[d].exists => d <= today
               /\ queues'[d].closed => queues'[d].exists
    <3>1. CASE d = today
      BY <1>1, <1>5, <3>1 DEF Days
    <3>2. CASE d # today
      BY <1>5, <3>2 DEF DatesAreOrdered
    <3>. QED
      BY <3>1, <3>2
  <2>3. er'.dayOpenedOn <= today
    BY <1>1, <1>6 DEF Days
  <2>. QED
    BY <1>5, <1>6, <2>1, <2>2, <2>3 DEF DatesAreOrdered
<1>16. OpenedTodayLeavesNoStaleTicket'
  <2>. SUFFICES ASSUME NEW t \in Tickets, tickets'[t].state \in ACTIVE_STATES
                PROVE  tickets'[t].day = today
    BY <1>6 DEF OpenedTodayLeavesNoStaleTicket
  <2>1. t \notin stale /\ tickets'[t] = tickets[t]
    BY <1>10 DEF ACTIVE_STATES
  <2>2. tickets[t].day <= today /\ tickets[t].day \in Days
    BY <2>1, TicketDates DEF NoRow, ACTIVE_STATES
  <2>3. ~(tickets[t].day < today)
    BY <2>1 DEF stale, StaleTickets
  <2>. QED
    BY <1>1, <2>1, <2>2, <2>3 DEF Days
<1>. QED
  BY <1>2, <1>10, <1>13, <1>14, <1>15, <1>16

LEMMA CloseDayStep ==
  ASSUME RowsAgree, CloseDay
  PROVE  KeepsRows
<1>. USE DEF RowsAgree, KeepsRows
<1>. DEFINE inService == InDay(today, {"IN_SERVICE"})
<1>1. CloseDayTx(today, inService) /\ today \in Days
  BY DEF CloseDay, TypeOK
<1>2. TypeOK'
  BY <1>1, CloseDayType
<1>3. inService \in SUBSET Tickets /\ \A t \in inService : tickets[t] \in Ticket
  BY PresentRow DEF InDay, TicketState, ACTIVE_STATES
<1>4. \A t \in Tickets : tickets[t].state \in AT_COUNTER => t \in inService \/ tickets[t].day < today
  <2>. SUFFICES ASSUME NEW t \in Tickets, tickets[t].state \in AT_COUNTER, tickets[t].day = today
                PROVE  t \in inService
    BY <1>1, TicketDates DEF NoRow, AT_COUNTER, Days
  <2>1. tickets[t].state # "CALLING"
    BY DEF CloseDay, PendingTickets, InDay
  <2>. QED
    BY <2>1 DEF InDay, AT_COUNTER
<1>5. /\ \A d \in Days \ {today} : queues'[d] = queues[d]
      /\ queues'[today].exists = queues[today].exists
      /\ queues'[today].closed = queues[today].exists
      /\ queues'[today].nextSequence = queues[today].nextSequence
  BY <1>1 DEF CloseDayTx, TypeOK, Queue
<1>6. /\ ~er'.isDayOpen /\ er'.dayOpenedOn = er.dayOpenedOn /\ today' = today
  BY <1>1 DEF CloseDayTx, TypeOK, ER
<1>7. Resolves(inService, "FINISHED") /\ ReleaseAllCounters
  BY <1>1 DEF CloseDayTx, Resolves
<1>8. \A d \in Days : queues'[d].nextSequence = queues[d].nextSequence
  BY <1>5
<1>. HIDE DEF inService
<1>9. /\ \A t \in Tickets :
           \/ t \notin inService /\ tickets'[t] = tickets[t]
           \/ /\ t \in inService /\ tickets'[t].state = "FINISHED"
              /\ tickets'[t].day = tickets[t].day /\ tickets[t] # NoRow
      /\ OneActivePerRep' /\ OneOpenTicketPerOperator'
      /\ OpenTicketsAreAssigned' /\ QueuedTicketsHoldNoCounter' /\ PlacesAreUnique'
  BY <1>3, <1>7, <1>8, ResolvingStep
<1>10. \A c \in Counters : counters'[c].state = "UNAVAILABLE" /\ counters'[c].operator = None
  BY <1>7, ReleasedCounters
<1>11. OwnersAreUnique' /\ ClosedDayLeavesNoOwner'
  BY <1>10 DEF OwnersAreUnique, ClosedDayLeavesNoOwner
<1>12. ClosedDayLeavesOnlyEarlierCalls'
  BY <1>4, <1>6, <1>9 DEF ClosedDayLeavesOnlyEarlierCalls, AT_COUNTER
<1>13. CounterServesItsTicket' /\ OpenedTodayLeavesNoStaleTicket'
  BY <1>6 DEF CounterServesItsTicket, OpenedTodayLeavesNoStaleTicket
<1>14. DatesAreOrdered'
  <2>1. ASSUME NEW t \in Tickets, tickets'[t] # NoRow
        PROVE  queues'[tickets'[t].day].exists
    <3>1. tickets[t] # NoRow /\ tickets'[t].day = tickets[t].day
      BY <1>9, <2>1
    <3>. QED
      BY <1>5, <3>1, TicketDates
  <2>2. \A d \in Days : /\ queues'[d].exists => d <= today
                        /\ queues'[d].closed => queues'[d].exists
    BY <1>5 DEF DatesAreOrdered
  <2>. QED
    BY <1>6, <2>1, <2>2 DEF DatesAreOrdered
<1>. QED
  BY <1>2, <1>9, <1>11, <1>12, <1>13, <1>14

LEMMA MidnightStep ==
  ASSUME RowsAgree, Midnight
  PROVE  KeepsRows
<1>. USE DEF RowsAgree, KeepsRows
<1>1. /\ today \in Days /\ today' = today + 1 /\ today' \in Days
      /\ UNCHANGED <<tickets, counters, queues, er>>
  BY BoundAssumption DEF Midnight, TypeOK, Days
<1>2. TypeOK'
  BY ClockType DEF Clock
<1>3. OneActivePerRep' /\ OneOpenTicketPerOperator' /\ OpenTicketsAreAssigned'
  BY <1>1 DEF OneActivePerRep, OneOpenTicketPerOperator, OpenTicketsAreAssigned
<1>4. QueuedTicketsHoldNoCounter' /\ PlacesAreUnique' /\ OwnersAreUnique'
  BY <1>1 DEF QueuedTicketsHoldNoCounter, PlacesAreUnique, OwnersAreUnique
<1>5. ClosedDayLeavesNoOwner' /\ CounterServesItsTicket'
  BY <1>1 DEF ClosedDayLeavesNoOwner, CounterServesItsTicket, OpenTicketsAt
<1>6. DatesAreOrdered'
  <2>1. \A d \in Days : queues[d].exists => d <= today + 1
    BY <1>1 DEF DatesAreOrdered, Days
  <2>2. er.dayOpenedOn <= today + 1
    BY <1>1 DEF DatesAreOrdered, TypeOK, ER, Days
  <2>3. ~queues[today + 1].closed
    BY <1>1 DEF DatesAreOrdered, Days
  <2>. QED
    BY <1>1, <2>1, <2>2, <2>3 DEF DatesAreOrdered
<1>7. ClosedDayLeavesOnlyEarlierCalls'
  <2>. SUFFICES ASSUME ~er.isDayOpen, NEW t \in Tickets, tickets[t].state \in AT_COUNTER
                PROVE  tickets[t].day < today + 1
    BY <1>1 DEF ClosedDayLeavesOnlyEarlierCalls
  <2>1. tickets[t].day \in Days /\ tickets[t].day < today
    BY TicketDates DEF ClosedDayLeavesOnlyEarlierCalls, NoRow, AT_COUNTER
  <2>. QED
    BY <1>1, <2>1 DEF Days
<1>8. OpenedTodayLeavesNoStaleTicket'
  <2>1. er'.dayOpenedOn # today'
    BY <1>1 DEF DatesAreOrdered, TypeOK, ER, Days
  <2>. QED
    BY <2>1 DEF OpenedTodayLeavesNoStaleTicket
<1>. QED
  BY <1>2, <1>3, <1>4, <1>5, <1>6, <1>7, <1>8

-----------------------------------------------------------------------------
(* The inductive invariant *)

LEMMA InitConsistent == Init => RowsAreConsistent
<1>. SUFFICES ASSUME Init PROVE RowsAreConsistent
  OBVIOUS
<1>1. TypeOK
  BY BoundAssumption DEF Init, TypeOK, Counter, CounterState, Queue, ER, Days
<1>2. OneActivePerRep /\ OneOpenTicketPerOperator /\ OpenTicketsAreAssigned
  BY DEF Init, NoRow, OneActivePerRep, OneOpenTicketPerOperator, OpenTicketsAreAssigned,
     AT_COUNTER
<1>3. QueuedTicketsHoldNoCounter /\ PlacesAreUnique /\ OwnersAreUnique
  BY DEF Init, NoRow, QueuedTicketsHoldNoCounter, PlacesAreUnique, OwnersAreUnique
<1>4. DatesAreOrdered
  BY DEF Init, DatesAreOrdered
<1>5. ClosedDayLeavesNoOwner /\ OpenedTodayLeavesNoStaleTicket /\ CounterServesItsTicket
  BY DEF Init, ClosedDayLeavesNoOwner, OpenedTodayLeavesNoStaleTicket, CounterServesItsTicket
<1>6. ClosedDayLeavesOnlyEarlierCalls
  BY DEF Init, NoRow, ClosedDayLeavesOnlyEarlierCalls, AT_COUNTER
<1>. QED
  BY <1>1, <1>2, <1>3, <1>4, <1>5, <1>6 DEF RowsAreConsistent

LEMMA StepAgrees ==
  ASSUME RowsAgree, [Next]_vars
  PROVE  KeepsRows
<1>1. CASE RepresentativeNext
  BY <1>1, CreateStep, SelfCancelStep, PauseStep, ResumeInPlaceStep
     DEF RepresentativeNext, SelfCancel, PauseTicket, ResumeTicket
<1>2. CASE StaffNext
  BY <1>2, CancelStep, RestoreStep, CorrectStep, StaffPauseStep, ResumeInPlaceStep,
     SetPriorityStep
     DEF StaffNext, Cancel, Correct, StaffPause, StaffResume, SetTicketPriority
<1>3. CASE ServiceNext
  BY <1>3, RecallStep, StartStep, FinishStep, NoShowStep, ExpireCallStep, ExpirePauseStep
     DEF ServiceNext, Recall, StartService, FinishService, NoShow, AdvanceToInService,
         CompleteService, ExpireCall
<1>4. CASE CounterNext
  BY <1>4, CallNextStep, OpenCounterStep, PauseCounterStep, CloseCounterStep, ForceReleaseStep
     DEF CounterNext, CloseCounter
<1>5. CASE DayNext
  BY <1>5, OpenDayStep, CloseDayStep DEF DayNext
<1>6. CASE Clock
  BY <1>6, ToleranceElapsesStep, MidnightStep DEF Clock
<1>7. CASE UNCHANGED vars
  <2>1. UNCHANGED <<tickets, counters, queues, er, today>>
    BY <1>7 DEF vars
  <2>. USE <2>1 DEF RowsAgree, KeepsRows
  <2>2. TypeOK' /\ OneActivePerRep' /\ OneOpenTicketPerOperator' /\ OpenTicketsAreAssigned'
    BY DEF TypeOK, OneActivePerRep, OneOpenTicketPerOperator, OpenTicketsAreAssigned
  <2>3. QueuedTicketsHoldNoCounter' /\ PlacesAreUnique' /\ OwnersAreUnique' /\ DatesAreOrdered'
    BY DEF QueuedTicketsHoldNoCounter, PlacesAreUnique, OwnersAreUnique, DatesAreOrdered
  <2>4. /\ ClosedDayLeavesNoOwner' /\ ClosedDayLeavesOnlyEarlierCalls'
        /\ CounterServesItsTicket'
    BY DEF ClosedDayLeavesNoOwner, ClosedDayLeavesOnlyEarlierCalls, CounterServesItsTicket,
           OpenTicketsAt
  <2>5. OpenedTodayLeavesNoStaleTicket => OpenedTodayLeavesNoStaleTicket'
    BY DEF OpenedTodayLeavesNoStaleTicket
  <2>. QED
    BY <2>2, <2>3, <2>4, <2>5
<1>. QED
  BY <1>1, <1>2, <1>3, <1>4, <1>5, <1>6, <1>7 DEF Next

LEMMA StepConsistent == RowsAreConsistent /\ [Next]_vars => RowsAreConsistent'
BY StepAgrees DEF RowsAreConsistent, RowsAgree, KeepsRows

(* When requests do not overlap, every request leaves the rows of the ER   *)
(* consistent: one active ticket per representative, one open ticket per   *)
(* operator and per counter, unique places, counters and days in step.     *)
THEOREM Consistency == Spec => []RowsAreConsistent
<1>1. Init => RowsAreConsistent
  BY InitConsistent
<1>2. RowsAreConsistent /\ [Next]_vars => RowsAreConsistent'
  BY StepConsistent
<1>. QED
  BY <1>1, <1>2, PTL DEF Spec

(* The rows keep their types: no state, link or date outside the schema.   *)
THEOREM TypeCorrect == Spec => []TypeOK
<1>1. RowsAreConsistent => TypeOK
  BY DEF RowsAreConsistent
<1>. QED
  BY <1>1, Consistency, PTL

(* The checks of create and restore, and the guards of the resumes, keep a *)
(* representative from having two active tickets, without the help of the  *)
(* partial unique index.                                                   *)
THEOREM OneActive == Spec => []OneActivePerRep
<1>1. RowsAreConsistent => OneActivePerRep
  BY DEF RowsAreConsistent
<1>. QED
  BY <1>1, Consistency, PTL

(* While the day is open the counters and the tickets at them agree.       *)
THEOREM CountersServe == Spec => []CounterServesItsTicket
<1>1. RowsAreConsistent => CounterServesItsTicket
  BY DEF RowsAreConsistent
<1>. QED
  BY <1>1, Consistency, PTL

(* No two tickets share a place of a daily queue.                          *)
THEOREM PlacesUnique == Spec => []PlacesAreUnique
<1>1. RowsAreConsistent => PlacesAreUnique
  BY DEF RowsAreConsistent
<1>. QED
  BY <1>1, Consistency, PTL

(* A day opened today has no active ticket of an earlier day.              *)
THEOREM NoStaleTicket == Spec => []OpenedTodayLeavesNoStaleTicket
<1>1. RowsAreConsistent => OpenedTodayLeavesNoStaleTicket
  BY DEF RowsAreConsistent
<1>. QED
  BY <1>1, Consistency, PTL

-----------------------------------------------------------------------------
(* Theorems of TicketQueue about its steps: who may enter the line and     *)
(* where, and which tickets never come back.  Both follow from one         *)
(* observation: a step that does not hand out a new place writes active    *)
(* tickets only and leaves their places alone.                             *)

Served(ticket) ==
  \/ ticket.state = "FINISHED"
  \/ ticket.state = "CANCELLED" /\ ticket.started

(* What both theorems say of one step. *)
Orderly ==
  \A t \in Tickets :
    /\ EntersBehind(t)
    /\ Served(tickets[t]) => tickets'[t].state = tickets[t].state

WritesActiveTicketsInPlace ==
  \A t \in Tickets :
    \/ tickets'[t] = tickets[t]
    \/ /\ tickets[t].state \in ACTIVE_STATES
       /\ tickets'[t].position = tickets[t].position

LEMMA InPlaceIsOrderly ==
  ASSUME WritesActiveTicketsInPlace
  PROVE  Orderly
<1>. SUFFICES ASSUME NEW t \in Tickets
              PROVE  /\ EntersBehind(t)
                     /\ Served(tickets[t]) => tickets'[t].state = tickets[t].state
  BY DEF Orderly
<1>1. CASE tickets'[t] = tickets[t]
  BY <1>1 DEF EntersBehind, Served
<1>2. CASE /\ tickets[t].state \in ACTIVE_STATES
           /\ tickets'[t].position = tickets[t].position
  BY <1>2 DEF EntersBehind, Served, ACTIVE_STATES
<1>. QED
  BY <1>1, <1>2 DEF WritesActiveTicketsInPlace

(* The transactions that move one ticket without giving it a new place.    *)
LEMMA KeepingPlaceIsOrderly ==
  ASSUME NEW t \in Tickets, KeepsPlace(t)
  PROVE  Orderly
BY InPlaceIsOrderly DEF KeepsPlace, WritesActiveTicketsInPlace

(* The transactions that write no ticket.                                  *)
LEMMA UnchangedTicketsAreOrderly ==
  ASSUME UNCHANGED tickets
  PROVE  Orderly
BY InPlaceIsOrderly DEF WritesActiveTicketsInPlace

(* The place an upsert hands out is behind every place of its queue.       *)
LEMMA NewPlaceIsOrderly ==
  ASSUME TypeOK, PlacesAreUnique, NEW t \in Tickets, NEW day \in Days,
         \A u \in Tickets \ {t} : tickets'[u] = tickets[u],
         ~Served(tickets[t]),
         tickets'[t].day = day,
         tickets'[t].position = NextPosition(day)
  PROVE  Orderly
<1>1. \A u \in Tickets \ {t} : tickets[u].day = day => tickets[u].position < NextPosition(day)
  <2>. SUFFICES ASSUME NEW u \in Tickets \ {t}, tickets[u].day = day
                PROVE  tickets[u].position < NextPosition(day)
    OBVIOUS
  <2>1. tickets[u] # NoRow
    BY DEF NoRow, Days
  <2>2. tickets[u].position \in Positions /\ tickets[u].position <= queues[day].nextSequence
    BY <2>1 DEF TypeOK, Ticket, PlacesAreUnique
  <2>3. queues[day].nextSequence \in Nat
    BY DEF TypeOK, Queue
  <2>. QED
    BY <2>2, <2>3 DEF NextPosition, Positions
<1>. SUFFICES ASSUME NEW v \in Tickets
              PROVE  /\ EntersBehind(v)
                     /\ Served(tickets[v]) => tickets'[v].state = tickets[v].state
  BY DEF Orderly
<1>2. CASE v = t
  BY <1>1, <1>2 DEF EntersBehind
<1>3. CASE v # t
  BY <1>3 DEF EntersBehind, Served
<1>. QED
  BY <1>2, <1>3

-----------------------------------------------------------------------------
(* Action by action *)

LEMMA RepresentativeIsOrderly ==
  ASSUME RowsAreConsistent, RepresentativeNext
  PROVE  Orderly
<1>. USE DEF RowsAreConsistent
<1>1. ASSUME NEW t \in Tickets, NEW rep \in Reps, NEW priority \in BOOLEAN,
             Create(t, rep, priority)
      PROVE  Orderly
  <2>1. InsertTicket(t, rep, today, priority) /\ today \in Days
    BY <1>1 DEF Create, TypeOK
  <2>2. ~Served(tickets[t])
    BY <2>1 DEF InsertTicket, NoRow, Served
  <2>3. /\ \A u \in Tickets \ {t} : tickets'[u] = tickets[u]
        /\ tickets'[t].day = today /\ tickets'[t].position = NextPosition(today)
    BY <2>1 DEF InsertTicket, SetTicket, TypeOK
  <2>. QED
    BY <2>1, <2>2, <2>3, NewPlaceIsOrderly
<1>2. ASSUME NEW t \in Tickets, SelfCancel(t) \/ PauseTicket(t) \/ ResumeTicket(t)
      PROVE  Orderly
  BY <1>2, SelfCancelKeepsPlace, PauseKeepsPlace, ResumeInPlaceKeepsPlace, KeepingPlaceIsOrderly
     DEF SelfCancel, PauseTicket, ResumeTicket
<1>. QED
  BY <1>1, <1>2 DEF RepresentativeNext

LEMMA StaffIsOrderly ==
  ASSUME RowsAreConsistent, StaffNext
  PROVE  Orderly
<1>. USE DEF RowsAreConsistent
<1>1. ASSUME NEW t \in Tickets, Cancel(t)
      PROVE  Orderly
  BY <1>1, CancelKeepsPlace, KeepingPlaceIsOrderly DEF Cancel
<1>2. ASSUME NEW t \in Tickets, Restore(t)
      PROVE  Orderly
  <2>1. RestoreTx(t, today) /\ today \in Days
    BY <1>2 DEF Restore, TypeOK
  <2>2. ~Served(tickets[t]) /\ tickets[t] \in Ticket
    BY <2>1, PresentRow DEF RestoreTx, Restorable, Served, TicketState
  <2>3. /\ \A u \in Tickets \ {t} : tickets'[u] = tickets[u]
        /\ tickets'[t].day = today /\ tickets'[t].position = NextPosition(today)
    BY <2>1, <2>2 DEF RestoreTx, SetTicket, TypeOK, Ticket
  <2>. QED
    BY <2>1, <2>2, <2>3, NewPlaceIsOrderly
<1>3. ASSUME NEW t \in Tickets, NEW target \in {"FINISHED", "CANCELLED"}, Correct(t, target)
      PROVE  Orderly
  <2>1. tickets[t].counter \in Counters \cup {None}
    BY <1>3, PresentRow DEF Correct, Ticket, TicketState, ACTIVE_STATES
  <2>. QED
    BY <1>3, <2>1, CorrectKeepsPlace, KeepingPlaceIsOrderly DEF Correct
<1>4. ASSUME NEW t \in Tickets, NEW user, StaffPause(t, user)
      PROVE  Orderly
  <2>1. /\ tickets[t].counter \in Counters \cup {None}
        /\ tickets[t].state \in AT_COUNTER \cup {"WAITING"}
    BY <1>4, PresentRow DEF StaffPause, Ticket, TicketState, ACTIVE_STATES, AT_COUNTER
  <2>. QED
    BY <1>4, <2>1, StaffPauseKeepsPlace, KeepingPlaceIsOrderly DEF StaffPause
<1>5. ASSUME NEW t \in Tickets, NEW user, StaffResume(t, user)
      PROVE  Orderly
  BY <1>5, ResumeInPlaceKeepsPlace, KeepingPlaceIsOrderly DEF StaffResume
<1>6. ASSUME NEW t \in Tickets, NEW isPriority \in BOOLEAN, SetTicketPriority(t, isPriority)
      PROVE  Orderly
  BY <1>6, SetPriorityKeepsPlace, KeepingPlaceIsOrderly DEF SetTicketPriority
<1>. QED
  BY <1>1, <1>2, <1>3, <1>4, <1>5, <1>6 DEF StaffNext

LEMMA ServiceIsOrderly ==
  ASSUME RowsAreConsistent, ServiceNext
  PROVE  Orderly
<1>. USE DEF RowsAreConsistent
<1>1. ASSUME NEW t \in Tickets, tickets[t].state \in AT_COUNTER
      PROVE  tickets[t].counter \in Counters
  BY <1>1 DEF OpenTicketsAreAssigned
<1>2. ASSUME NEW t \in Tickets, NEW o, Recall(t, o) \/ StartService(t, o) \/ FinishService(t, o)
                                       \/ NoShow(t, o)
      PROVE  Orderly
  BY <1>1, <1>2, RecallKeepsPlace, ToInServiceKeepsPlace, ToFinishedKeepsPlace,
     MarkNoShowKeepsPlace, KeepingPlaceIsOrderly
     DEF Recall, StartService, FinishService, NoShow, TransitionToInService,
         TransitionToFinished, MarkNoShow, AT_COUNTER
<1>3. ASSUME NEW t \in Tickets, AdvanceToInService(t) \/ CompleteService(t) \/ ExpireCall(t)
      PROVE  Orderly
  BY <1>1, <1>3, ToInServiceKeepsPlace, ToFinishedKeepsPlace, ExpireCallKeepsPlace,
     KeepingPlaceIsOrderly
     DEF AdvanceToInService, CompleteService, ExpireCall, TransitionToInService,
         TransitionToFinished, ExpireCallTimeout, AT_COUNTER
<1>4. ASSUME NEW t \in Tickets, ExpirePause(t)
      PROVE  Orderly
  <2>1. ResumeToEndOfQueue(t, today) /\ today \in Days /\ tickets[t].state = "PAUSED"
    BY <1>4 DEF ExpirePause, TypeOK
  <2>2. tickets[t] \in Ticket /\ ~Served(tickets[t])
    BY <2>1, PresentRow DEF Served, TicketState, ACTIVE_STATES
  <2>3. tickets' = [tickets EXCEPT ![t] = [tickets[t] EXCEPT
          !.state = "WAITING", !.day = today, !.position = NextPosition(today),
          !.code = GenerateCode(NextPosition(today)), !.overdue = FALSE]]
    BY <2>1 DEF ResumeToEndOfQueue, SetTicket
  <2>4. /\ \A u \in Tickets \ {t} : tickets'[u] = tickets[u]
        /\ tickets'[t].day = today /\ tickets'[t].position = NextPosition(today)
    BY <2>2, <2>3 DEF TypeOK, Ticket
  <2>. QED
    BY <2>1, <2>2, <2>4, NewPlaceIsOrderly
<1>. QED
  BY <1>2, <1>3, <1>4 DEF ServiceNext

LEMMA CounterIsOrderly ==
  ASSUME RowsAreConsistent, CounterNext
  PROVE  Orderly
<1>. USE DEF RowsAreConsistent
<1>1. ASSUME NEW c \in Counters, NEW o \in Operators, CallNext(c, o)
      PROVE  Orderly
  <2>1. PICK t \in Tickets : IsHead(t, today) /\ CallTicket(t, c, o)
    BY <1>1 DEF CallNext
  <2>. QED
    BY <2>1, CallTicketKeepsPlace, KeepingPlaceIsOrderly DEF IsHead, Waiting
<1>2. ASSUME NEW c \in Counters, NEW o \in Operators,
             \/ OpenCounter(c, o)
             \/ PauseCounterTx(c, o)
             \/ ResumeCounterTx(c, o)
             \/ CloseCounter(c, o)
      PROVE  Orderly
  BY <1>2, UnchangedTicketsAreOrderly
     DEF OpenCounter, OpenTx, PauseCounterTx, ResumeCounterTx, CloseCounter, CloseTx
<1>3. ASSUME NEW c \in Counters, ForceRelease(c)
      PROVE  Orderly
  <2>1. PICK open \in FirstOpenTicket(c) :
          ForceReleaseTx(c, open, IF open = None THEN None ELSE tickets[open].state)
    BY <1>3 DEF ForceRelease
  <2>2. CASE open = None
    BY <2>1, <2>2, UnchangedTicketsAreOrderly DEF ForceReleaseTx
  <2>3. CASE open # None
    <3>1. open \in Tickets /\ tickets[open].state \in AT_COUNTER
      BY <2>3 DEF FirstOpenTicket, OpenTicketsAt
    <3>2. tickets[open] \in Ticket
      BY <3>1, PresentRow DEF AT_COUNTER, TicketState, ACTIVE_STATES
    <3>3. PICK state \in {"FINISHED", "NO_SHOW"} :
            tickets' = [tickets EXCEPT ![open] =
                          [tickets[open] EXCEPT !.state = state, !.overdue = FALSE]]
      BY <2>1, <2>3 DEF ForceReleaseTx, SetTicket
    <3>4. WritesActiveTicketsInPlace
      BY <3>1, <3>2, <3>3
         DEF WritesActiveTicketsInPlace, TypeOK, Ticket, AT_COUNTER, ACTIVE_STATES
    <3>. QED
      BY <3>4, InPlaceIsOrderly
  <2>. QED
    BY <2>2, <2>3
<1>. QED
  BY <1>1, <1>2, <1>3 DEF CounterNext

LEMMA DayIsOrderly ==
  ASSUME RowsAreConsistent, DayNext
  PROVE  Orderly
<1>. USE DEF RowsAreConsistent
<1>1. PICK set \in SUBSET Tickets, state \in {"FINISHED", "NO_SHOW"} :
        /\ Resolves(set, state)
        /\ \A t \in set : tickets[t].state \in ACTIVE_STATES
  <2>1. CASE OpenDay
    <3>1. Resolves(StaleTickets(today), "NO_SHOW")
      BY <2>1 DEF OpenDay, OpenDayTx, Resolves
    <3>2. /\ StaleTickets(today) \in SUBSET Tickets
          /\ \A t \in StaleTickets(today) : tickets[t].state \in ACTIVE_STATES
      BY DEF StaleTickets
    <3>. QED
      BY <3>1, <3>2
  <2>2. CASE CloseDay
    <3>1. Resolves(InDay(today, {"IN_SERVICE"}), "FINISHED")
      BY <2>2 DEF CloseDay, CloseDayTx, Resolves
    <3>2. /\ InDay(today, {"IN_SERVICE"}) \in SUBSET Tickets
          /\ \A t \in InDay(today, {"IN_SERVICE"}) : tickets[t].state \in ACTIVE_STATES
      BY DEF InDay, ACTIVE_STATES
    <3>. QED
      BY <3>1, <3>2
  <2>. QED
    BY <2>1, <2>2 DEF DayNext
<1>2. \A t \in set : tickets[t] \in Ticket
  BY <1>1, PresentRow DEF TicketState
<1>3. ASSUME NEW t \in Tickets, t \in set
      PROVE  tickets'[t].position = tickets[t].position
  <2>1. tickets'[t] = [tickets[t] EXCEPT !.state = state, !.overdue = FALSE]
    BY <1>1, <1>3 DEF Resolves
  <2>. QED
    BY <1>2, <1>3, <2>1 DEF Ticket
<1>4. \A t \in Tickets \ set : tickets'[t] = tickets[t]
  BY <1>1 DEF Resolves
<1>. QED
  BY <1>1, <1>3, <1>4, InPlaceIsOrderly DEF WritesActiveTicketsInPlace

LEMMA StepIsOrderly ==
  ASSUME RowsAreConsistent, [Next]_vars
  PROVE  Orderly
<1>1. CASE Clock
  BY <1>1, ToleranceElapsesKeepsPlace, KeepingPlaceIsOrderly, UnchangedTicketsAreOrderly
     DEF Clock, Midnight, RowsAreConsistent
<1>2. CASE UNCHANGED vars
  BY <1>2, UnchangedTicketsAreOrderly DEF vars
<1>. QED
  BY <1>1, <1>2, RepresentativeIsOrderly, StaffIsOrderly, ServiceIsOrderly, CounterIsOrderly,
     DayIsOrderly DEF Next

-----------------------------------------------------------------------------
(* The rank shown to a representative *)

(* The tickets counted for a waiting ticket are itself and those callNext  *)
(* calls before it, as no two places of a queue are equal.                 *)
LEMMA CountedAreItselfAndThoseBefore ==
  ASSUME TypeOK, PlacesAreUnique, NEW d \in Days, NEW t \in Waiting(d)
  PROVE  {u \in Waiting(d) :
            \/ ~tickets[t].priority /\ tickets[u].priority
            \/ /\ tickets[u].priority = tickets[t].priority
               /\ tickets[u].position <= tickets[t].position}
         = {u \in Waiting(d) : Precedes(tickets[u], tickets[t])} \cup {t}
<1>1. \A u \in Waiting(d) : tickets[u] \in Ticket /\ tickets[u].position \in Nat
  BY PresentRow DEF Waiting, TicketState, ACTIVE_STATES, TypeOK, Ticket, Positions
<1>2. \A u \in Waiting(d) \ {t} : tickets[u].position # tickets[t].position
  BY DEF Waiting, PlacesAreUnique, NoRow
<1>. QED
  BY <1>1, <1>2 DEF Precedes, Ticket

LEMMA CountIsRank == TypeOK /\ PlacesAreUnique => PositionIsCallRank
<1>. SUFFICES ASSUME TypeOK, PlacesAreUnique, NEW d \in Days, NEW t \in Waiting(d)
              PROVE  WaitingPositionCount(tickets[t]) =
                       1 + Cardinality({u \in Waiting(d) : Precedes(tickets[u], tickets[t])})
  BY DEF PositionIsCallRank
<1>. DEFINE before == {u \in Waiting(d) : Precedes(tickets[u], tickets[t])}
<1>1. tickets[t].day = d /\ tickets[t].position \in Nat
  BY PresentRow DEF Waiting, TicketState, ACTIVE_STATES, TypeOK, Ticket, Positions
<1>2. IsFiniteSet(before)
  BY FiniteAssumption, FS_Subset DEF Waiting
<1>3. t \notin before
  BY <1>1 DEF Precedes
<1>4. WaitingPositionCount(tickets[t]) = Cardinality(before \cup {t})
  BY <1>1, CountedAreItselfAndThoseBefore DEF WaitingPositionCount
<1>5. Cardinality(before \cup {t}) = Cardinality(before) + 1 /\ Cardinality(before) \in Nat
  BY <1>2, <1>3, FS_AddElement, FS_CardinalityType
<1>. QED
  BY <1>4, <1>5

-----------------------------------------------------------------------------
(* The head of the line *)

(* Places are positive numbers, so one of any set of them is the lowest.   *)
LEMMA LowestNumber ==
  ASSUME NEW numbers \in SUBSET Nat, numbers # {}
  PROVE  \E lowest \in numbers : \A n \in numbers : lowest <= n
<1>1. IsWellFoundedOn(OpToRel(<, Nat), Nat)
  BY NatLessThanWellFounded
<1>2. PICK lowest \in numbers : \A n \in numbers : ~ (<<n, lowest>> \in OpToRel(<, Nat))
  BY <1>1, WFMin
<1>3. \A n \in numbers : n < lowest => <<n, lowest>> \in OpToRel(<, Nat)
  BY DEF OpToRel
<1>4. \A n \in numbers : ~(n < lowest)
  BY <1>2, <1>3
<1>. QED
  BY <1>4

(* Of any tickets of one queue, one has its place before the others.       *)
LEMMA FirstPlace ==
  ASSUME TypeOK, PlacesAreUnique, NEW d \in Days, NEW line \in SUBSET Waiting(d), line # {}
  PROVE  \E t \in line : \A u \in line \ {t} : tickets[t].position < tickets[u].position
<1>1. \A t \in line : tickets[t] \in Ticket /\ tickets[t] # NoRow /\ tickets[t].day = d
  BY PresentRow DEF Waiting, Ticket, NoRow, TicketState, ACTIVE_STATES
<1>. DEFINE places == {tickets[t].position : t \in line}
<1>2. places \in SUBSET Nat /\ places # {}
  BY <1>1 DEF Ticket, Positions
<1>3. PICK lowest \in places : \A n \in places : lowest <= n
  <2>. HIDE DEF places
  <2>. QED
    BY <1>2, LowestNumber
<1>4. PICK t \in line : tickets[t].position = lowest
  BY <1>3
<1>5. ASSUME NEW u \in line \ {t}
      PROVE  tickets[t].position < tickets[u].position
  <2>1. tickets[u].position # tickets[t].position
    BY <1>1 DEF PlacesAreUnique, Waiting
  <2>2. tickets[t].position <= tickets[u].position
    BY <1>3, <1>4
  <2>3. tickets[t].position \in Int /\ tickets[u].position \in Int
    BY <1>1 DEF Ticket, Positions
  <2>. QED
    BY <2>1, <2>2, <2>3
<1>. QED
  BY <1>5

LEMMA HeadExists ==
  ASSUME TypeOK, PlacesAreUnique, NEW d \in Days, Waiting(d) # {}
  PROVE  \E t \in Tickets : IsHead(t, d)
<1>1. \A t \in Waiting(d) : tickets[t].priority \in BOOLEAN
  BY PresentRow DEF Waiting, Ticket, TicketState, ACTIVE_STATES
<1>. DEFINE preferential == {t \in Waiting(d) : tickets[t].priority}
            first == IF preferential # {} THEN preferential ELSE Waiting(d)
<1>2. PICK t \in first : \A u \in first \ {t} : tickets[t].position < tickets[u].position
  BY FirstPlace
<1>3. ASSUME NEW u \in Waiting(d) \ {t}
      PROVE  Precedes(tickets[t], tickets[u])
  BY <1>1, <1>2 DEF Precedes
<1>. QED
  BY <1>2, <1>3 DEF IsHead, Waiting

LEMMA HeadIsUnique ==
  ASSUME TypeOK, NEW d \in Days, NEW t, NEW u, IsHead(t, d), IsHead(u, d)
  PROVE  t = u
<1>1. /\ tickets[t].priority \in BOOLEAN /\ tickets[t].position \in Int
      /\ tickets[u].priority \in BOOLEAN /\ tickets[u].position \in Int
  BY PresentRow DEF IsHead, Waiting, Ticket, Positions, TicketState, ACTIVE_STATES
<1>. QED
  BY <1>1 DEF IsHead, Precedes

(* A queue with tickets in the line has exactly one that is called next.   *)
LineHasOneHead ==
  \A d \in Days : Waiting(d) # {} =>
    \E t \in Tickets : IsHead(t, d) /\ \A u \in Tickets : IsHead(u, d) => u = t

-----------------------------------------------------------------------------
(* The counters of an open day *)

(* A counter nobody holds is one openCounter takes.                        *)
FreeCountersAreShut ==
  er.isDayOpen =>
    \A c \in Counters : counters[c].operator = None => counters[c].state = "UNAVAILABLE"

(* Whatever state a transaction gives a counter somebody holds.            *)
LEMMA HeldCounterWritten ==
  ASSUME TypeOK, FreeCountersAreShut, UNCHANGED er, NEW c \in Counters, NEW state,
         SetCounterState(c, state), er.isDayOpen => counters[c].operator # None
  PROVE  FreeCountersAreShut'
BY DEF TypeOK, Counter, FreeCountersAreShut, SetCounterState

LEMMA HeldRowWritten ==
  ASSUME TypeOK, FreeCountersAreShut, UNCHANGED er, NEW c \in Counters, NEW row,
         counters' = [counters EXCEPT ![c] = row],
         row.operator = None => row.state = "UNAVAILABLE"
  PROVE  FreeCountersAreShut'
BY DEF TypeOK, FreeCountersAreShut

LEMMA NoCounterWritten ==
  ASSUME FreeCountersAreShut, UNCHANGED <<counters, er>>
  PROVE  FreeCountersAreShut'
BY DEF FreeCountersAreShut

LEMMA EveryCounterReleased ==
  ASSUME RowsAreConsistent, ReleaseAllCounters
  PROVE  FreeCountersAreShut'
BY DEF RowsAreConsistent, ReleaseAllCounters, FreeCountersAreShut

(* The counter a ticket is at belongs to the operator of the ticket.       *)
LEMMA CounterOfATicket ==
  ASSUME RowsAreConsistent, NEW t \in Tickets, tickets[t].state \in AT_COUNTER
  PROVE  /\ tickets[t].counter \in Counters
         /\ er.isDayOpen => counters[tickets[t].counter].operator # None
<1>1. tickets[t].counter \in Counters /\ tickets[t].operator # None
  BY NoneAssumption DEF RowsAreConsistent, OpenTicketsAreAssigned
<1>2. er.isDayOpen =>
        counters[tickets[t].counter] =
          [state |-> tickets[t].state, operator |-> tickets[t].operator]
  BY DEF RowsAreConsistent, CounterServesItsTicket
<1>. QED
  BY <1>1, <1>2

(* A counter freed with the ticket that leaves it.                         *)
LEMMA CounterFreed ==
  ASSUME RowsAreConsistent, FreeCountersAreShut, UNCHANGED er,
         NEW t \in Tickets, tickets[t].state \in ACTIVE_STATES,
         \/ FreeCounterIfAny(tickets[t].counter)
         \/ \E states : FreeCounterIn(tickets[t].counter, states)
  PROVE  FreeCountersAreShut'
<1>. DEFINE c == tickets[t].counter
<1>1. TypeOK
  BY DEF RowsAreConsistent
<1>2. CASE c = None
  BY <1>2, NoCounterWritten DEF FreeCounterIfAny, FreeCounterIn
<1>3. CASE c # None
  <2>1. tickets[t].state \in AT_COUNTER
    BY <1>3 DEF RowsAreConsistent, QueuedTicketsHoldNoCounter, ACTIVE_STATES, AT_COUNTER
  <2>2. c \in Counters /\ (er.isDayOpen => counters[c].operator # None)
    BY <2>1, CounterOfATicket
  <2>3. UNCHANGED counters \/ SetCounterState(c, "ACTIVE")
    BY <1>3 DEF FreeCounterIfAny, FreeCounterIn
  <2>. HIDE DEF c
  <2>. QED
    BY <1>1, <2>2, <2>3, HeldCounterWritten, NoCounterWritten
<1>. QED
  BY <1>2, <1>3

LEMMA RepresentativeKeepsCountersShut ==
  ASSUME RowsAreConsistent, FreeCountersAreShut, RepresentativeNext
  PROVE  FreeCountersAreShut'
BY NoCounterWritten
   DEF RepresentativeNext, Create, InsertTicket, SelfCancel, SelfCancelTx, PauseTicket, PauseTx,
       ResumeTicket, ResumeInPlace

LEMMA StaffKeepsCountersShut ==
  ASSUME RowsAreConsistent, FreeCountersAreShut, StaffNext
  PROVE  FreeCountersAreShut'
<1>1. ASSUME NEW t \in Tickets,
             \/ Cancel(t)
             \/ \E target \in {"FINISHED", "CANCELLED"} : Correct(t, target)
             \/ \E user \in Operators \cup {Staff} : StaffPause(t, user)
      PROVE  FreeCountersAreShut'
  <2>1. UNCHANGED er /\ tickets[t].state \in ACTIVE_STATES
    BY <1>1 DEF Cancel, CancelTx, Correct, CorrectTx, StaffPause, StaffPauseTx, ACTIVE_STATES
  <2>2. \/ FreeCounterIfAny(tickets[t].counter)
        \/ \E states : FreeCounterIn(tickets[t].counter, states)
    BY <1>1 DEF Cancel, CancelTx, Correct, CorrectTx, StaffPause, StaffPauseTx
  <2>. QED
    BY <2>1, <2>2, CounterFreed
<1>2. ASSUME NEW t \in Tickets,
             \/ Restore(t)
             \/ \E user \in Operators \cup {Staff} : StaffResume(t, user)
             \/ \E isPriority \in BOOLEAN : SetTicketPriority(t, isPriority)
      PROVE  FreeCountersAreShut'
  BY <1>2, NoCounterWritten
     DEF Restore, RestoreTx, StaffResume, ResumeInPlace, SetTicketPriority, SetTicketPriorityTx
<1>. QED
  BY <1>1, <1>2 DEF StaffNext

LEMMA ServiceKeepsCountersShut ==
  ASSUME RowsAreConsistent, FreeCountersAreShut, ServiceNext
  PROVE  FreeCountersAreShut'
<1>1. ASSUME NEW t \in Tickets,
             \/ \E o \in Operators : StartService(t, o) \/ FinishService(t, o) \/ NoShow(t, o)
             \/ AdvanceToInService(t)
             \/ CompleteService(t)
      PROVE  FreeCountersAreShut'
  <2>. DEFINE c == tickets[t].counter
  <2>1. tickets[t].state \in AT_COUNTER /\ UNCHANGED er
    BY <1>1 DEF StartService, FinishService, NoShow, AdvanceToInService, CompleteService,
                TransitionToInService, TransitionToFinished, MarkNoShow, AT_COUNTER
  <2>2. \E state : SetCounterState(c, state)
    BY <1>1 DEF StartService, FinishService, NoShow, AdvanceToInService, CompleteService,
                TransitionToInService, TransitionToFinished, MarkNoShow
  <2>3. TypeOK /\ c \in Counters /\ (er.isDayOpen => counters[c].operator # None)
    BY <2>1, CounterOfATicket DEF RowsAreConsistent
  <2>. HIDE DEF c
  <2>. QED
    BY <2>1, <2>2, <2>3, HeldCounterWritten
<1>2. ASSUME NEW t \in Tickets, ExpireCall(t)
      PROVE  FreeCountersAreShut'
  <2>1. UNCHANGED er /\ tickets[t].state \in ACTIVE_STATES
    BY <1>2 DEF ExpireCall, ExpireCallTimeout, ACTIVE_STATES
  <2>2. \E states : FreeCounterIn(tickets[t].counter, states)
    BY <1>2 DEF ExpireCall, ExpireCallTimeout
  <2>. QED
    BY <2>1, <2>2, CounterFreed
<1>3. ASSUME NEW t \in Tickets, ExpirePause(t) \/ \E o \in Operators : Recall(t, o)
      PROVE  FreeCountersAreShut'
  BY <1>3, NoCounterWritten DEF ExpirePause, ResumeToEndOfQueue, Recall, RecallTx
<1>. QED
  BY <1>1, <1>2, <1>3 DEF ServiceNext

LEMMA CounterRequestsKeepCountersShut ==
  ASSUME RowsAreConsistent, FreeCountersAreShut, CounterNext
  PROVE  FreeCountersAreShut'
<1>1. TypeOK /\ \A o \in Operators : o # None
  BY NoneAssumption DEF RowsAreConsistent
<1>2. ASSUME NEW c \in Counters, NEW o \in Operators,
             CallNext(c, o) \/ PauseCounterTx(c, o) \/ ResumeCounterTx(c, o)
      PROVE  FreeCountersAreShut'
  <2>1. UNCHANGED er
    BY <1>2 DEF CallNext, CallTicket, PauseCounterTx, ResumeCounterTx
  <2>2. counters[c].operator = o
    <3>1. CASE CallNext(c, o)
      BY <3>1 DEF CallNext, MayCall
    <3>2. CASE PauseCounterTx(c, o) \/ ResumeCounterTx(c, o)
      <4>1. \E state : counters[c] = [state |-> state, operator |-> o]
        BY <3>2 DEF PauseCounterTx, ResumeCounterTx
      <4>. QED
        BY <4>1
    <3>. QED
      BY <1>2, <3>1, <3>2
  <2>3. \E state : SetCounterState(c, state)
    BY <1>2 DEF CallNext, CallTicket, PauseCounterTx, ResumeCounterTx
  <2>. QED
    BY <1>1, <2>1, <2>2, <2>3, HeldCounterWritten
<1>3. ASSUME NEW c \in Counters, NEW o \in Operators, OpenCounter(c, o)
      PROVE  FreeCountersAreShut'
  BY <1>1, <1>3, HeldRowWritten DEF OpenCounter, OpenTx
<1>4. ASSUME NEW c \in Counters, ForceRelease(c) \/ \E o \in Operators : CloseCounter(c, o)
      PROVE  FreeCountersAreShut'
  BY <1>1, <1>4, HeldRowWritten DEF ForceRelease, ForceReleaseTx, CloseCounter, CloseTx
<1>. QED
  BY <1>2, <1>3, <1>4 DEF CounterNext

LEMMA StepKeepsCountersShut ==
  RowsAreConsistent /\ FreeCountersAreShut /\ [Next]_vars => FreeCountersAreShut'
<1>. SUFFICES ASSUME RowsAreConsistent, FreeCountersAreShut, [Next]_vars
              PROVE  FreeCountersAreShut'
  OBVIOUS
<1>1. CASE DayNext
  BY <1>1, EveryCounterReleased DEF DayNext, OpenDay, OpenDayTx, CloseDay, CloseDayTx
<1>2. CASE Clock \/ UNCHANGED vars
  BY <1>2, NoCounterWritten DEF Clock, ToleranceElapses, Midnight, vars
<1>. QED
  BY <1>1, <1>2, RepresentativeKeepsCountersShut, StaffKeepsCountersShut,
     ServiceKeepsCountersShut, CounterRequestsKeepCountersShut DEF Next

-----------------------------------------------------------------------------

(* When requests do not overlap, the position a representative is shown is *)
(* her rank in the order in which callNext calls the tickets of her queue. *)
THEOREM PositionShown == Spec => []PositionIsCallRank
<1>1. RowsAreConsistent => PositionIsCallRank
  BY CountIsRank DEF RowsAreConsistent
<1>. QED
  BY <1>1, Consistency, PTL

(* A queue with somebody in the line has one head, so the ORDER BY and     *)
(* LIMIT 1 of callNext (queue.service.ts) leave it nothing to choose and   *)
(* always find a ticket.                                                   *)
THEOREM OneHead == Spec => []LineHasOneHead
<1>1. RowsAreConsistent => LineHasOneHead
  BY HeadExists, HeadIsUnique DEF RowsAreConsistent, LineHasOneHead
<1>. QED
  BY <1>1, Consistency, PTL

(* While the day is open a counter that nobody holds is unavailable, so    *)
(* that openCounter, which takes unavailable counters only, can take it:   *)
(* no request, release or timeout loses a counter for the day.             *)
THEOREM FreeCounters == Spec => []FreeCountersAreShut
<1>1. Init => FreeCountersAreShut
  BY DEF Init, FreeCountersAreShut
<1>. QED
  BY <1>1, Consistency, StepKeepsCountersShut, PTL DEF Spec

(* When requests do not overlap, whoever enters the line or is given a new *)
(* place goes behind every ticket of the same queue and priority that is   *)
(* in the line or holds its place through a pause.                         *)
THEOREM NewcomersBehind == Spec => NewcomersQueueBehind
<1>1. RowsAreConsistent /\ [Next]_vars => [\A t \in Tickets : EntersBehind(t)]_vars
  BY StepIsOrderly DEF Orderly
<1>. QED
  BY <1>1, Consistency, PTL DEF Spec, NewcomersQueueBehind

(* When requests do not overlap, a ticket whose service ended, or was      *)
(* cancelled after it began, stays as it is for ever.                      *)
THEOREM ServedStays == Spec => ServedTicketNeverReturns
<1>1. RowsAreConsistent /\ [Next]_vars =>
        [\A t \in Tickets :
           \/ tickets[t].state = "FINISHED"
           \/ tickets[t].state = "CANCELLED" /\ tickets[t].started
           => tickets'[t].state = tickets[t].state]_vars
  BY StepIsOrderly DEF Orderly, Served
<1>. QED
  BY <1>1, Consistency, PTL DEF Spec, ServedTicketNeverReturns

-----------------------------------------------------------------------------
(* Codes *)

LEMMA DivisionByBlock ==
  ASSUME NEW n \in Nat
  PROVE  /\ n \div 999 \in Nat /\ n % 999 \in Nat
         /\ n = 999 * (n \div 999) + (n % 999)
OBVIOUS

LEMMA BlockBelow26 ==
  ASSUME NEW n \in Nat, n < 25974, NEW k \in Nat, NEW r \in Nat, n = 999 * k + r
  PROVE  k < 26
OBVIOUS

LEMMA LetterOfBlock ==
  ASSUME NEW k \in Nat, k < 26
  PROVE  k % 26 = k
OBVIOUS

LEMMA LetterAndNumberDetermine ==
  ASSUME NEW n \in Nat, NEW m \in Nat, n < 25974, m < 25974,
         (n \div 999) % 26 = (m \div 999) % 26, (n % 999) + 1 = (m % 999) + 1
  PROVE  n = m
<1>. DEFINE k == n \div 999  r == n % 999  j == m \div 999  s == m % 999
<1>1. k \in Nat /\ r \in Nat /\ n = 999 * k + r
  BY DivisionByBlock
<1>2. j \in Nat /\ s \in Nat /\ m = 999 * j + s
  BY DivisionByBlock
<1>3. k % 26 = j % 26 /\ r + 1 = s + 1
  OBVIOUS
<1>. HIDE DEF k, r, j, s
<1>4. k < 26 /\ j < 26
  BY <1>1, <1>2, BlockBelow26
<1>5. k % 26 = k /\ j % 26 = j
  BY <1>1, <1>2, <1>4, LetterOfBlock
<1>6. k = j
  BY <1>3, <1>5
<1>7. r = s
  BY <1>1, <1>2, <1>3
<1>. QED
  BY <1>1, <1>2, <1>6, <1>7

(* The first 26 * 999 places of a day have different codes, from A001 to   *)
(* Z999: while no day hands out more, only a ticket that keeps the code of *)
(* another place can show a code twice.                                    *)
THEOREM CodesDiffer ==
  ASSUME NEW p \in 1 .. 25974, NEW q \in 1 .. 25974, GenerateCode(p) = GenerateCode(q)
  PROVE  p = q
<1>. DEFINE n == p - 1  m == q - 1
<1>1. /\ (n \div 999) % 26 = (m \div 999) % 26
      /\ (n % 999) + 1 = (m % 999) + 1
  BY DEF GenerateCode
<1>2. n \in Nat /\ m \in Nat /\ n < 25974 /\ m < 25974
  OBVIOUS
<1>. HIDE DEF n, m
<1>3. n = m
  BY <1>1, <1>2, LetterAndNumberDetermine
<1>. QED
  BY <1>3 DEF n, m

==============================================================================
