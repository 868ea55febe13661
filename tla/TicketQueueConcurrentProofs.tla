---------------------- MODULE TicketQueueConcurrentProofs ----------------------
(***************************************************************************)
(* Theorems of TicketQueueConcurrent: what the line keeps when requests    *)
(* overlap, for any number of requests in flight, of any kinds.            *)
(*                                                                         *)
(* RowsAreConsistent does not survive overlaps.  LineOK, the part of it    *)
(* about the line, does: whatever a transaction has read before, the       *)
(* guards of its writes make it one of the four kinds of LineStep.         *)
(***************************************************************************)
EXTENDS TicketQueueConcurrent, TicketQueueProofs

LineOK == TypeOK /\ OneActivePerRep /\ PlacesAreUnique /\ QueuedTicketsHoldNoCounter

StaysUnassigned(t) ==
  tickets'[t].state \in {"WAITING", "PAUSED"} =>
    tickets'[t].counter = None /\ tickets'[t].operator = None

EntersLine(t, day) ==
  /\ \A u \in Tickets \ {t} : tickets'[u] = tickets[u]
  /\ ~Served(tickets[t])
  /\ tickets'[t].state = "WAITING"
  /\ tickets'[t].day = day /\ tickets'[t].position = NextPosition(day)
  /\ tickets'[t].counter = None /\ tickets'[t].operator = None
  /\ \A u \in Tickets \ {t} :
       tickets[u].state \in ACTIVE_STATES => tickets[u].rep # tickets'[t].rep
  /\ UpsertQueue(day)

ResolvesRows(set) ==
  /\ \A t \in Tickets \ set : tickets'[t] = tickets[t]
  /\ \A t \in set :
       /\ tickets[t] # NoRow /\ tickets'[t].state \in {"FINISHED", "NO_SHOW"}
       /\ tickets'[t].day = tickets[t].day /\ tickets'[t].position = tickets[t].position
  /\ \A d \in Days : queues'[d].nextSequence = queues[d].nextSequence

WritesNoTicket ==
  /\ tickets' = tickets
  /\ \A d \in Days : queues'[d].nextSequence >= queues[d].nextSequence

LineStep ==
  /\ TypeOK'
  /\ \/ \E t \in Tickets : KeepsPlace(t) /\ StaysUnassigned(t)
     \/ \E t \in Tickets, day \in Days : EntersLine(t, day)
     \/ \E set \in SUBSET Tickets : ResolvesRows(set)
     \/ WritesNoTicket

-----------------------------------------------------------------------------
(* Every kind of step keeps the line *)

(* A place stays at or below the sequence of its queue when sequences grow.*)
LEMMA PlacesBelowSequence ==
  ASSUME TypeOK, TypeOK', PlacesAreUnique, NEW t \in Tickets, tickets[t] # NoRow,
         \A d \in Days : queues'[d].nextSequence >= queues[d].nextSequence
  PROVE  tickets[t].position <= queues'[tickets[t].day].nextSequence
<1>1. tickets[t].day \in Days /\ tickets[t].position \in Positions
  BY DEF TypeOK, Ticket
<1>2. tickets[t].position <= queues[tickets[t].day].nextSequence
  BY DEF PlacesAreUnique
<1>3. /\ queues[tickets[t].day].nextSequence \in Nat
      /\ queues'[tickets[t].day].nextSequence \in Nat
  BY <1>1 DEF TypeOK, Queue
<1>. QED
  BY <1>1, <1>2, <1>3 DEF Positions

LEMMA KeepingPlaceKeepsLine ==
  ASSUME LineOK, TypeOK', NEW t \in Tickets, KeepsPlace(t), StaysUnassigned(t)
  PROVE  LineOK'
<1>. USE DEF LineOK
<1>1. tickets[t] # NoRow
  BY DEF KeepsPlace, NoRow, ACTIVE_STATES
<1>2. OneActivePerRep'
  BY DEF KeepsPlace, OneActivePerRep, ACTIVE_STATES
<1>3. PlacesAreUnique'
  BY <1>1 DEF KeepsPlace, PlacesAreUnique
<1>4. QueuedTicketsHoldNoCounter'
  BY DEF KeepsPlace, StaysUnassigned, QueuedTicketsHoldNoCounter
<1>. QED
  BY <1>2, <1>3, <1>4

LEMMA EnteringKeepsLine ==
  ASSUME LineOK, TypeOK', NEW t \in Tickets, NEW day \in Days, EntersLine(t, day)
  PROVE  LineOK'
<1>. USE DEF LineOK
<1>1. OneActivePerRep'
  BY DEF EntersLine, OneActivePerRep, ACTIVE_STATES
<1>2. QueuedTicketsHoldNoCounter'
  BY DEF EntersLine, QueuedTicketsHoldNoCounter
<1>3. \A d \in Days : queues'[d].nextSequence >= queues[d].nextSequence
  <2>1. \A d \in Days : queues[d].nextSequence \in Nat
    BY DEF TypeOK, Queue
  <2>. QED
    BY <2>1, UpsertEffect DEF EntersLine, NextPosition
<1>4. \A u \in Tickets \ {t} : tickets[u].day = day => tickets[u].position # NextPosition(day)
  <2>. SUFFICES ASSUME NEW u \in Tickets \ {t}, tickets[u].day = day
                PROVE  tickets[u].position # NextPosition(day)
    OBVIOUS
  <2>1. tickets[u] # NoRow /\ tickets[u].position \in Positions
    BY DEF NoRow, Days, TypeOK, Ticket
  <2>2. tickets[u].position <= queues[day].nextSequence /\ queues[day].nextSequence \in Nat
    BY <2>1 DEF PlacesAreUnique, TypeOK, Queue
  <2>. QED
    BY <2>1, <2>2 DEF NextPosition, Positions
<1>5. ASSUME NEW u \in Tickets, tickets'[u] # NoRow
      PROVE  tickets'[u].position <= queues'[tickets'[u].day].nextSequence
  <2>1. CASE u = t
    BY <2>1, UpsertEffect DEF EntersLine, NextPosition
  <2>2. CASE u # t
    BY <1>3, <1>5, <2>2, PlacesBelowSequence DEF EntersLine
  <2>. QED
    BY <2>1, <2>2
<1>6. ASSUME NEW u \in Tickets, tickets'[u] # NoRow, NEW v \in Tickets \ {u},
             tickets'[v].day = tickets'[u].day
      PROVE  tickets'[v].position # tickets'[u].position
  BY <1>4, <1>6 DEF EntersLine, PlacesAreUnique
<1>7. PlacesAreUnique'
  BY <1>5, <1>6 DEF PlacesAreUnique
<1>. QED
  BY <1>1, <1>2, <1>7

LEMMA ResolvingKeepsLine ==
  ASSUME LineOK, TypeOK', NEW set \in SUBSET Tickets, ResolvesRows(set)
  PROVE  LineOK'
<1>. USE DEF LineOK
<1>1. OneActivePerRep' /\ QueuedTicketsHoldNoCounter'
  BY DEF ResolvesRows, OneActivePerRep, QueuedTicketsHoldNoCounter
<1>2. \A t \in Tickets : /\ tickets'[t].day = tickets[t].day
                         /\ tickets'[t].position = tickets[t].position
                         /\ tickets'[t] # NoRow => tickets[t] # NoRow
  BY DEF ResolvesRows
<1>3. \A d \in Days : queues'[d].nextSequence >= queues[d].nextSequence
  BY DEF ResolvesRows, TypeOK, Queue
<1>4. PlacesAreUnique'
  BY <1>2, <1>3, PlacesBelowSequence DEF PlacesAreUnique
<1>. QED
  BY <1>1, <1>4

LEMMA WritingNoTicketKeepsLine ==
  ASSUME LineOK, TypeOK', WritesNoTicket
  PROVE  LineOK'
<1>. USE DEF LineOK, WritesNoTicket
<1>1. OneActivePerRep' /\ QueuedTicketsHoldNoCounter'
  BY DEF OneActivePerRep, QueuedTicketsHoldNoCounter
<1>2. PlacesAreUnique'
  BY PlacesBelowSequence DEF PlacesAreUnique
<1>. QED
  BY <1>1, <1>2

LEMMA LineStepKeepsLine ==
  ASSUME LineOK, LineStep
  PROVE  LineOK'
BY KeepingPlaceKeepsLine, EnteringKeepsLine, ResolvingKeepsLine, WritingNoTicketKeepsLine
   DEF LineStep

(* No row is deleted. *)
LEMMA LineStepKeepsRows ==
  ASSUME LineOK, LineStep, NEW t \in Tickets, tickets[t] # NoRow
  PROVE  tickets'[t] # NoRow
BY DEF LineStep, KeepsPlace, EntersLine, ResolvesRows, WritesNoTicket, NoRow, TicketState,
       ACTIVE_STATES

LEMMA LineStepEntersBehind ==
  ASSUME LineOK, LineStep, NEW t \in Tickets
  PROVE  EntersBehind(t)
<1>1. ASSUME NEW u \in Tickets, KeepsPlace(u)
      PROVE  EntersBehind(t)
  BY <1>1, KeepingPlaceIsOrderly DEF Orderly
<1>2. ASSUME NEW u \in Tickets, NEW day \in Days, EntersLine(u, day)
      PROVE  EntersBehind(t)
  BY <1>2, NewPlaceIsOrderly DEF Orderly, EntersLine, LineOK
<1>3. ASSUME NEW set \in SUBSET Tickets, ResolvesRows(set)
      PROVE  EntersBehind(t)
  BY <1>3 DEF ResolvesRows, EntersBehind
<1>4. CASE WritesNoTicket
  BY <1>4, UnchangedTicketsAreOrderly DEF WritesNoTicket, Orderly
<1>. QED
  BY <1>1, <1>2, <1>3, <1>4 DEF LineStep

-----------------------------------------------------------------------------
(* Every transaction is such a step, whatever "pre" its request has read   *)

LEMMA InsertIsLineStep ==
  ASSUME LineOK, NEW t \in Tickets, NEW rep \in Reps, NEW day \in Days,
         NEW priority \in BOOLEAN, ~HasActiveTicket(rep, {}),
         InsertTicket(t, rep, day, priority)
  PROVE  LineStep
<1>. USE DEF LineOK
<1>1. TypeOK'
  BY InsertTicketType
<1>2. /\ \A u \in Tickets \ {t} : tickets'[u] = tickets[u]
      /\ tickets'[t].state = "WAITING" /\ tickets'[t].rep = rep
      /\ tickets'[t].day = day /\ tickets'[t].position = NextPosition(day)
      /\ tickets'[t].counter = None /\ tickets'[t].operator = None
  BY DEF InsertTicket, SetTicket, TypeOK
<1>3. ~Served(tickets[t])
  BY DEF InsertTicket, NoRow, Served
<1>4. \A u \in Tickets \ {t} :
        tickets[u].state \in ACTIVE_STATES => tickets[u].rep # tickets'[t].rep
  BY <1>2 DEF HasActiveTicket
<1>5. EntersLine(t, day)
  BY <1>2, <1>3, <1>4 DEF EntersLine, InsertTicket
<1>. QED
  BY <1>1, <1>5 DEF LineStep

LEMMA RestoreIsLineStep ==
  ASSUME LineOK, NEW t \in Tickets, NEW day \in Days,
         ~HasActiveTicket(tickets[t].rep, {t}), RestoreTx(t, day)
  PROVE  LineStep
<1>. USE DEF LineOK
<1>1. TypeOK'
  BY RestoreType
<1>2. tickets[t] \in Ticket /\ ~Served(tickets[t])
  BY PresentRow DEF RestoreTx, Restorable, Served, TicketState
<1>3. /\ \A u \in Tickets \ {t} : tickets'[u] = tickets[u]
      /\ tickets'[t].state = "WAITING" /\ tickets'[t].rep = tickets[t].rep
      /\ tickets'[t].day = day /\ tickets'[t].position = NextPosition(day)
      /\ tickets'[t].counter = None /\ tickets'[t].operator = None
  BY <1>2 DEF RestoreTx, SetTicket, TypeOK, Ticket
<1>4. \A u \in Tickets \ {t} :
        tickets[u].state \in ACTIVE_STATES => tickets[u].rep # tickets'[t].rep
  BY <1>3 DEF HasActiveTicket
<1>5. EntersLine(t, day)
  BY <1>2, <1>3, <1>4 DEF EntersLine, RestoreTx
<1>. QED
  BY <1>1, <1>5 DEF LineStep

(* The sequence is consumed even when the ticket has left PAUSED.          *)
LEMMA ResumeToEndIsLineStep ==
  ASSUME LineOK, NEW t \in Tickets, NEW day \in Days, ResumeToEndOfQueue(t, day)
  PROVE  LineStep
<1>. USE DEF LineOK
<1>1. TypeOK'
  BY ResumeToEndType
<1>2. UpsertQueue(day)
  BY DEF ResumeToEndOfQueue
<1>3. CASE tickets[t].state = "PAUSED"
  <2>1. tickets[t] \in Ticket /\ ~Served(tickets[t])
    BY <1>3, PresentRow DEF Served, TicketState, ACTIVE_STATES
  <2>2. tickets' = [tickets EXCEPT ![t] = [tickets[t] EXCEPT
          !.state = "WAITING", !.day = day, !.position = NextPosition(day),
          !.code = GenerateCode(NextPosition(day)), !.overdue = FALSE]]
    BY <1>3 DEF ResumeToEndOfQueue, SetTicket
  <2>3. tickets[t].counter = None /\ tickets[t].operator = None
    BY <1>3 DEF QueuedTicketsHoldNoCounter
  <2>4. /\ \A u \in Tickets \ {t} : tickets'[u] = tickets[u]
        /\ tickets'[t].state = "WAITING" /\ tickets'[t].rep = tickets[t].rep
        /\ tickets'[t].day = day /\ tickets'[t].position = NextPosition(day)
        /\ tickets'[t].counter = None /\ tickets'[t].operator = None
    BY <2>1, <2>2, <2>3 DEF TypeOK, Ticket
  <2>5. \A u \in Tickets \ {t} :
          tickets[u].state \in ACTIVE_STATES => tickets[u].rep # tickets'[t].rep
    BY <1>3, <2>4 DEF OneActivePerRep, ACTIVE_STATES
  <2>6. EntersLine(t, day)
    BY <1>2, <2>1, <2>4, <2>5 DEF EntersLine
  <2>. QED
    BY <1>1, <2>6 DEF LineStep
<1>4. CASE tickets[t].state # "PAUSED"
  <2>1. tickets' = tickets
    BY <1>4 DEF ResumeToEndOfQueue
  <2>2. ASSUME NEW d \in Days
        PROVE  queues'[d].nextSequence >= queues[d].nextSequence
    <3>1. queues[d].nextSequence \in Nat
      BY DEF TypeOK, Queue
    <3>2. CASE d = day
      BY <1>2, <3>1, <3>2, UpsertEffect DEF NextPosition
    <3>3. CASE d # day
      <4>1. queues'[d] = queues[d]
        BY <1>2, <3>3, UpsertEffect
      <4>. QED
        BY <3>1, <4>1
    <3>. QED
      BY <3>2, <3>3
  <2>3. WritesNoTicket
    BY <2>1, <2>2 DEF WritesNoTicket
  <2>. QED
    BY <1>1, <2>3 DEF LineStep
<1>. QED
  BY <1>3, <1>4

(* The transactions on a ticket in the line or paused.                     *)
LEMMA QueuedTxIsLineStep ==
  ASSUME LineOK, NEW t \in Tickets,
         \/ SelfCancelTx(t)
         \/ PauseTx(t)
         \/ ResumeInPlace(t)
         \/ \E isPriority \in BOOLEAN : SetTicketPriorityTx(t, isPriority)
  PROVE  LineStep
<1>. USE DEF LineOK
<1>1. TypeOK'
  BY SelfCancelType, PauseType, ResumeInPlaceType, SetPriorityType
<1>2. KeepsPlace(t)
  BY SelfCancelKeepsPlace, PauseKeepsPlace, ResumeInPlaceKeepsPlace, SetPriorityKeepsPlace
<1>3. tickets[t] \in Ticket /\ tickets[t].counter = None /\ tickets[t].operator = None
  BY PresentRow
     DEF QueuedTicketsHoldNoCounter, SelfCancelTx, PauseTx, ResumeInPlace,
         SetTicketPriorityTx, TicketState, ACTIVE_STATES
<1>4. tickets'[t].counter = tickets[t].counter /\ tickets'[t].operator = tickets[t].operator
  <2>1. CASE SelfCancelTx(t)
    BY <1>3, <2>1 DEF SelfCancelTx, SetTicket, TypeOK, Ticket
  <2>2. CASE PauseTx(t)
    BY <1>3, <2>2 DEF PauseTx, SetTicket, TypeOK, Ticket
  <2>3. CASE ResumeInPlace(t)
    BY <1>3, <2>3 DEF ResumeInPlace, SetTicket, TypeOK, Ticket
  <2>4. CASE \E isPriority \in BOOLEAN : SetTicketPriorityTx(t, isPriority)
    BY <1>3, <2>4 DEF SetTicketPriorityTx, SetTicket, TypeOK, Ticket
  <2>. QED
    BY <2>1, <2>2, <2>3, <2>4
<1>. QED
  BY <1>1, <1>2, <1>3, <1>4 DEF LineStep, StaysUnassigned

LEMMA CancelIsLineStep ==
  ASSUME LineOK, NEW t \in Tickets, CancelTx(t)
  PROVE  LineStep
<1>. USE DEF LineOK
<1>1. TypeOK' /\ KeepsPlace(t)
  BY CancelType, CancelKeepsPlace
<1>2. tickets[t] \in Ticket
  BY PresentRow DEF CancelTx, TicketState
<1>3. StaysUnassigned(t)
  BY <1>2 DEF CancelTx, SetTicket, StaysUnassigned, TypeOK, Ticket
<1>. QED
  BY <1>1, <1>3 DEF LineStep

LEMMA RecallIsLineStep ==
  ASSUME LineOK, NEW t \in Tickets, NEW o, RecallTx(t, o)
  PROVE  LineStep
<1>. USE DEF LineOK
<1>1. TypeOK' /\ KeepsPlace(t)
  BY RecallType, RecallKeepsPlace
<1>2. tickets[t] \in Ticket
  BY PresentRow DEF RecallTx, TicketState, ACTIVE_STATES
<1>3. StaysUnassigned(t)
  BY <1>2 DEF RecallTx, SetTicket, StaysUnassigned, TypeOK, Ticket
<1>. QED
  BY <1>1, <1>3 DEF LineStep

LEMMA ToInServiceIsLineStep ==
  ASSUME LineOK, NEW t \in Tickets, NEW pre, NEW o, pre.counter \in Counters \cup {None},
         TransitionToInService(t, pre, o)
  PROVE  LineStep
<1>. USE DEF LineOK
<1>1. TypeOK' /\ KeepsPlace(t)
  BY ToInServiceType, ToInServiceKeepsPlace
<1>2. tickets[t] \in Ticket
  BY PresentRow DEF TransitionToInService, TicketState, ACTIVE_STATES
<1>3. StaysUnassigned(t)
  BY <1>2 DEF TransitionToInService, SetTicket, StaysUnassigned, TypeOK, Ticket
<1>. QED
  BY <1>1, <1>3 DEF LineStep

LEMMA ToFinishedIsLineStep ==
  ASSUME LineOK, NEW t \in Tickets, NEW pre, NEW o, pre.counter \in Counters \cup {None},
         TransitionToFinished(t, pre, o)
  PROVE  LineStep
<1>. USE DEF LineOK
<1>1. TypeOK' /\ KeepsPlace(t)
  BY ToFinishedType, ToFinishedKeepsPlace
<1>2. tickets[t] \in Ticket
  BY PresentRow DEF TransitionToFinished, TicketState, ACTIVE_STATES
<1>3. StaysUnassigned(t)
  BY <1>2 DEF TransitionToFinished, SetTicket, StaysUnassigned, TypeOK, Ticket
<1>. QED
  BY <1>1, <1>3 DEF LineStep

LEMMA NoShowIsLineStep ==
  ASSUME LineOK, NEW t \in Tickets, NEW pre, NEW o, pre.counter \in Counters,
         MarkNoShow(t, pre, o)
  PROVE  LineStep
<1>. USE DEF LineOK
<1>1. TypeOK' /\ KeepsPlace(t)
  BY MarkNoShowType, MarkNoShowKeepsPlace
<1>2. tickets[t] \in Ticket
  BY PresentRow DEF MarkNoShow, TicketState, ACTIVE_STATES
<1>3. StaysUnassigned(t)
  BY <1>2 DEF MarkNoShow, SetTicket, StaysUnassigned, TypeOK, Ticket
<1>. QED
  BY <1>1, <1>3 DEF LineStep

LEMMA CorrectIsLineStep ==
  ASSUME LineOK, NEW t \in Tickets, NEW pre, NEW target \in {"FINISHED", "CANCELLED"},
         pre.counter \in Counters \cup {None}, CorrectTx(t, pre, target)
  PROVE  LineStep
<1>. USE DEF LineOK
<1>1. TypeOK' /\ KeepsPlace(t)
  BY CorrectType, CorrectKeepsPlace
<1>2. tickets[t] \in Ticket
  BY PresentRow DEF CorrectTx, TicketState, ACTIVE_STATES
<1>3. StaysUnassigned(t)
  BY <1>2 DEF CorrectTx, SetTicket, StaysUnassigned, TypeOK, Ticket
<1>. QED
  BY <1>1, <1>3 DEF LineStep

LEMMA ExpireCallIsLineStep ==
  ASSUME LineOK, NEW t \in Tickets, NEW pre, pre.counter \in Counters \cup {None},
         ExpireCallTimeout(t, pre)
  PROVE  LineStep
<1>. USE DEF LineOK
<1>1. TypeOK' /\ KeepsPlace(t)
  BY ExpireCallType, ExpireCallKeepsPlace
<1>2. tickets[t] \in Ticket
  BY PresentRow DEF ExpireCallTimeout, TicketState, ACTIVE_STATES
<1>3. StaysUnassigned(t)
  BY <1>2 DEF ExpireCallTimeout, SetTicket, StaysUnassigned, TypeOK, Ticket
<1>. QED
  BY <1>1, <1>3 DEF LineStep

LEMMA StaffPauseIsLineStep ==
  ASSUME LineOK, NEW t \in Tickets, NEW pre, pre.state \in AT_COUNTER \cup {"WAITING"},
         pre.counter \in Counters \cup {None}, StaffPauseTx(t, pre)
  PROVE  LineStep
<1>. USE DEF LineOK
<1>1. TypeOK' /\ KeepsPlace(t)
  BY StaffPauseType, StaffPauseKeepsPlace DEF TicketState, ACTIVE_STATES, AT_COUNTER
<1>2. tickets[t] \in Ticket
  BY PresentRow DEF StaffPauseTx, TicketState, ACTIVE_STATES, AT_COUNTER
<1>3. StaysUnassigned(t)
  BY <1>2 DEF StaffPauseTx, SetTicket, StaysUnassigned, TypeOK, Ticket
<1>. QED
  BY <1>1, <1>3 DEF LineStep

LEMMA CallIsLineStep ==
  ASSUME LineOK, NEW t \in Tickets, NEW c \in Counters, NEW o \in Operators,
         tickets[t].state = "WAITING", CallTicket(t, c, o)
  PROVE  LineStep
<1>. USE DEF LineOK
<1>1. TypeOK' /\ KeepsPlace(t)
  BY CallTicketType, CallTicketKeepsPlace
<1>2. tickets[t] \in Ticket
  BY PresentRow DEF TicketState, ACTIVE_STATES
<1>3. StaysUnassigned(t)
  BY <1>2 DEF CallTicket, SetTicket, StaysUnassigned, TypeOK, Ticket
<1>. QED
  BY <1>1, <1>3 DEF LineStep

(* Opening, pausing, resuming and closing a counter write no ticket.       *)
LEMMA CounterTxIsLineStep ==
  ASSUME LineOK, NEW c \in Counters, NEW o \in Operators,
         \/ OpenTx(c, o)
         \/ PauseCounterTx(c, o)
         \/ ResumeCounterTx(c, o)
         \/ CloseTx(c, o)
  PROVE  LineStep
<1>. USE DEF LineOK
<1>1. TypeOK'
  BY CounterTxType
<1>2. UNCHANGED <<tickets, queues>>
  BY DEF OpenTx, PauseCounterTx, ResumeCounterTx, CloseTx
<1>3. WritesNoTicket
  BY <1>2 DEF WritesNoTicket, TypeOK, Queue
<1>. QED
  BY <1>1, <1>3 DEF LineStep

(* The forced release may find its ticket in any state by now; it makes it *)
(* a finished ticket or a no-show all the same.                            *)
LEMMA ForceReleaseIsLineStep ==
  ASSUME LineOK, NEW c \in Counters, NEW open \in Tickets \cup {None}, NEW readState,
         open # None => tickets[open] \in Ticket,
         ForceReleaseTx(c, open, readState)
  PROVE  LineStep
<1>. USE DEF LineOK
<1>1. TypeOK'
  BY ForceReleaseType
<1>2. CASE open = None
  BY <1>1, <1>2 DEF ForceReleaseTx, LineStep, WritesNoTicket, TypeOK, Queue
<1>3. CASE open # None
  <2>1. PICK state \in {"FINISHED", "NO_SHOW"} :
          tickets' = [tickets EXCEPT ![open] =
                        [tickets[open] EXCEPT !.state = state, !.overdue = FALSE]]
    BY <1>3 DEF ForceReleaseTx, SetTicket
  <2>2. /\ tickets'[open].state = state
        /\ tickets'[open].day = tickets[open].day
        /\ tickets'[open].position = tickets[open].position
    BY <1>3, <2>1 DEF TypeOK, Ticket
  <2>3. tickets[open] # NoRow /\ open \in Tickets
    BY <1>3 DEF NoRow, Ticket, TicketState, ACTIVE_STATES
  <2>4. ResolvesRows({open})
    BY <2>1, <2>2, <2>3 DEF ResolvesRows, TypeOK, ForceReleaseTx
  <2>. QED
    BY <1>1, <2>3, <2>4 DEF LineStep
<1>. QED
  BY <1>2, <1>3

(* So do the opening and the closing of a day to sets of active tickets.   *)
LEMMA ResolvesIsLineStep ==
  ASSUME LineOK, TypeOK', NEW set \in SUBSET Tickets, NEW state \in {"FINISHED", "NO_SHOW"},
         \A t \in set : tickets[t].state \in ACTIVE_STATES,
         Resolves(set, state),
         \A d \in Days : queues'[d].nextSequence = queues[d].nextSequence
  PROVE  LineStep
<1>. USE DEF LineOK
<1>1. \A t \in Tickets \ set : tickets'[t] = tickets[t]
  BY DEF Resolves
<1>2. ASSUME NEW t \in set
      PROVE  /\ tickets[t] # NoRow /\ tickets'[t].state \in {"FINISHED", "NO_SHOW"}
             /\ tickets'[t].day = tickets[t].day /\ tickets'[t].position = tickets[t].position
  <2>1. tickets'[t] = [tickets[t] EXCEPT !.state = state, !.overdue = FALSE]
    BY DEF Resolves
  <2>2. tickets[t] \in Ticket
    BY PresentRow DEF TicketState
  <2>. QED
    BY <2>1, <2>2 DEF Ticket, NoRow, TicketState, ACTIVE_STATES
<1>. QED
  BY <1>1, <1>2 DEF LineStep, ResolvesRows

LEMMA OpenDayIsLineStep ==
  ASSUME LineOK, NEW day \in Days, OpenDayTx(day, StaleTickets(day))
  PROVE  LineStep
<1>. USE DEF LineOK
<1>1. TypeOK'
  BY OpenDayType
<1>2. Resolves(StaleTickets(day), "NO_SHOW")
  BY DEF OpenDayTx, Resolves
<1>3. /\ StaleTickets(day) \in SUBSET Tickets
      /\ \A t \in StaleTickets(day) : tickets[t].state \in ACTIVE_STATES
  BY DEF StaleTickets
<1>4. \A d \in Days : queues'[d].nextSequence = queues[d].nextSequence
  <2>. DEFINE created == [queues EXCEPT ![day].exists = TRUE]
  <2>1. /\ created \in [Days -> Queue]
        /\ \A d \in Days : created[d].nextSequence = queues[d].nextSequence
    BY DEF TypeOK, Queue
  <2>2. queues' = [created EXCEPT ![day].closed = FALSE]
    BY DEF OpenDayTx
  <2>. HIDE DEF created
  <2>. QED
    BY <2>1, <2>2 DEF Queue
<1>. QED
  BY <1>1, <1>2, <1>3, <1>4, ResolvesIsLineStep

LEMMA CloseDayIsLineStep ==
  ASSUME LineOK, NEW day \in Days, CloseDayTx(day, InDay(day, {"IN_SERVICE"}))
  PROVE  LineStep
<1>. USE DEF LineOK
<1>1. TypeOK'
  BY CloseDayType
<1>2. Resolves(InDay(day, {"IN_SERVICE"}), "FINISHED")
  BY DEF CloseDayTx, Resolves
<1>3. /\ InDay(day, {"IN_SERVICE"}) \in SUBSET Tickets
      /\ \A t \in InDay(day, {"IN_SERVICE"}) : tickets[t].state \in ACTIVE_STATES
  BY DEF InDay, ACTIVE_STATES
<1>4. \A d \in Days : queues'[d].nextSequence = queues[d].nextSequence
  BY DEF CloseDayTx, TypeOK, Queue
<1>. QED
  BY <1>1, <1>2, <1>3, <1>4, ResolvesIsLineStep

LEMMA ClockIsLineStep ==
  ASSUME LineOK, Clock
  PROVE  LineStep
<1>. USE DEF LineOK
<1>1. TypeOK'
  BY ClockType
<1>2. ASSUME NEW t \in Tickets, ToleranceElapses(t)
      PROVE  LineStep
  <2>1. tickets[t] \in Ticket
    BY <1>2, PresentRow DEF ToleranceElapses, TicketState, ACTIVE_STATES
  <2>2. tickets'[t].state = tickets[t].state /\ tickets'[t].counter = tickets[t].counter
        /\ tickets'[t].operator = tickets[t].operator
    BY <1>2, <2>1 DEF ToleranceElapses, SetTicket, TypeOK, Ticket
  <2>3. StaysUnassigned(t)
    BY <2>2 DEF StaysUnassigned, QueuedTicketsHoldNoCounter
  <2>. QED
    BY <1>1, <1>2, <2>3, ToleranceElapsesKeepsPlace DEF LineStep
<1>3. CASE Midnight
  BY <1>1, <1>3 DEF Midnight, LineStep, WritesNoTicket, TypeOK, Queue
<1>. QED
  BY <1>2, <1>3 DEF Clock

-----------------------------------------------------------------------------
(* Requests in flight *)

(* What the checks of a handler leave true of what it has read.            *)
Formed(r) ==
  /\ r.kind \in TicketKinds => r.ticket \in Tickets
  /\ r.kind = "noShow" => r.pre.counter \in Counters
  /\ r.kind = "staffPause" => r.pre.state \in AT_COUNTER \cup {"WAITING"}
  /\ r.kind = "expirePause" => r.day \in Days
  /\ r.kind \in CounterKinds => r.counter \in Counters
  /\ r.kind \in CounterKinds \ {"forceRelease"} => r.operator \in Operators
  /\ r.kind \in ERKinds \cup {"callNext"} => r.day \in Days

(* A row once read stays in the table.                                     *)
ReadRowsRemain ==
  \A p \in Procs :
    requests[p].kind = "forceRelease" /\ requests[p].ticket # None =>
      requests[p].ticket \in Tickets /\ tickets[requests[p].ticket] # NoRow

RequestsAreFormed == requests \in [Procs -> Request] /\ \A p \in Procs : Formed(requests[p])

LineInv == LineOK /\ RequestsAreFormed /\ ReadRowsRemain

LEMMA IdleIsFormed == Idle \in Request /\ Formed(Idle)
BY BoundAssumption
   DEF Idle, Request, NothingRead, Formed, TicketKinds, CounterKinds, ERKinds, Kinds, TicketState

LEMMA ReadType ==
  ASSUME TypeOK, NEW t \in Tickets
  PROVE  Read(t) \in [state: TicketState \cup {"ABSENT"}, counter: Counters \cup {None}]
BY DEF Read, TypeOK, Ticket, NoRow

(* A request on a ticket is formed of fields of their types. *)
LEMMA TicketRequestType ==
  ASSUME NEW kind \in Kinds, NEW t \in Tickets, NEW operator \in Operators \cup {None},
         NEW day \in 0 .. MaxDay,
         NEW row \in [state: TicketState \cup {"ABSENT"}, counter: Counters \cup {None}]
  PROVE  [Idle EXCEPT !.kind = kind, !.ticket = t, !.pre = row,
                      !.operator = operator, !.day = day] \in Request
BY IdleIsFormed DEF Request

(* Ending a request, whatever it did, keeps the others as they are.        *)
LEMMA EndStep ==
  ASSUME LineInv, NEW p \in Procs, LineStep, End(p)
  PROVE  LineInv'
<1>. USE DEF LineInv
<1>1. LineOK'
  BY LineStepKeepsLine
<1>2. RequestsAreFormed'
  BY IdleIsFormed DEF RequestsAreFormed, End
<1>3. ReadRowsRemain'
  <2>. SUFFICES ASSUME NEW q \in Procs, requests'[q].kind = "forceRelease",
                       requests'[q].ticket # None
                PROVE  requests'[q].ticket \in Tickets /\ tickets'[requests'[q].ticket] # NoRow
    BY DEF ReadRowsRemain
  <2>1. requests'[q] = requests[q]
    BY DEF End, RequestsAreFormed, Idle
  <2>. QED
    BY <2>1, LineStepKeepsRows DEF ReadRowsRemain
<1>. QED
  BY <1>1, <1>2, <1>3

(* A request begins with what its checks leave true.                       *)
LEMMA BeginStep ==
  ASSUME LineInv, NEW p \in Procs, NEW request \in Request, Formed(request),
         request.kind = "forceRelease" /\ request.ticket # None =>
           request.ticket \in Tickets /\ tickets[request.ticket] # NoRow,
         Begin(p, request)
  PROVE  LineInv'
<1>. USE DEF LineInv
<1>1. /\ requests' = [requests EXCEPT ![p] = request]
      /\ UNCHANGED <<tickets, counters, queues, er, today>>
  BY DEF Begin, vars
<1>2. LineOK'
  BY <1>1 DEF LineOK, TypeOK, OneActivePerRep, PlacesAreUnique, QueuedTicketsHoldNoCounter
<1>3. RequestsAreFormed'
  BY <1>1 DEF RequestsAreFormed
<1>4. ReadRowsRemain'
  BY <1>1 DEF ReadRowsRemain, RequestsAreFormed
<1>. QED
  BY <1>2, <1>3, <1>4

LEMMA BeginRequestStep ==
  ASSUME LineInv, NEW p \in Procs, BeginRequest(p)
  PROVE  LineInv'
<1>. USE DEF LineInv, LineOK
<1>1. today \in Days /\ today \in 0 .. MaxDay
  BY BoundAssumption DEF TypeOK, Days
<1>2. ASSUME NEW kind \in TicketKinds, NEW t \in Tickets,
             NEW user \in Operators \cup {Staff, None}, BeginTicketRequest(p, kind, t, user)
      PROVE  LineInv'
  <2>. DEFINE operator == IF kind \in {"startService", "finishService", "noShow"} THEN user ELSE None
              day == IF kind = "expirePause" THEN today ELSE 0
              request == [Idle EXCEPT !.kind = kind, !.ticket = t, !.pre = Read(t),
                                      !.operator = operator, !.day = day]
  <2>1. MayBegin(kind, t, user) /\ Begin(p, request)
    BY <1>2 DEF BeginTicketRequest
  <2>2. kind \in {"startService", "finishService", "noShow"} =>
          user \in Operators /\ tickets[t].counter # None
    BY <2>1 DEF MayBegin, AssignedTo
  <2>3. kind = "staffPause" => tickets[t].state \in AT_COUNTER \cup {"WAITING"}
    BY <2>1 DEF MayBegin, AT_COUNTER
  <2>4. /\ request.kind = kind /\ request.ticket = t /\ request.pre = Read(t)
        /\ kind = "expirePause" => request.day = today
        /\ kind \notin CounterKinds /\ kind \notin ERKinds
    BY DEF Idle, TicketKinds, CounterKinds, ERKinds
  <2>5. request \in Request
    <3>1. kind \in Kinds
      BY DEF Kinds
    <3>2. operator \in Operators \cup {None}
      BY <2>2
    <3>3. day \in 0 .. MaxDay
      BY <1>1, BoundAssumption
    <3>4. Read(t) \in [state: TicketState \cup {"ABSENT"}, counter: Counters \cup {None}]
      BY ReadType
    <3>. HIDE DEF operator, day
    <3>. QED
      BY <3>1, <3>2, <3>3, <3>4, TicketRequestType
  <2>6. Read(t).counter = tickets[t].counter /\ Read(t).state = tickets[t].state
    BY DEF Read
  <2>7. kind = "noShow" => tickets[t].counter \in Counters
    BY <2>2, <2>6, ReadType
  <2>. HIDE DEF request
  <2>8. Formed(request) /\ request.kind # "forceRelease"
    BY <1>1, <2>3, <2>4, <2>6, <2>7 DEF Formed, CounterKinds
  <2>. QED
    BY <2>1, <2>5, <2>8, BeginStep
<1>3. ASSUME NEW c \in Counters, NEW o \in Operators, NEW kind \in {"openCounter", "closeCounter"},
             Begin(p, [Idle EXCEPT !.kind = kind, !.counter = c, !.operator = o])
      PROVE  LineInv'
  <2>. DEFINE request == [Idle EXCEPT !.kind = kind, !.counter = c, !.operator = o]
  <2>1. request.kind = kind /\ request.counter = c /\ request.operator = o
    BY DEF Idle
  <2>2. request \in Request
    BY IdleIsFormed DEF Idle, Request, Kinds, CounterKinds
  <2>3. Begin(p, request)
    BY <1>3
  <2>. HIDE DEF request
  <2>4. Formed(request) /\ request.kind # "forceRelease"
    BY <2>1 DEF Formed, TicketKinds, CounterKinds, ERKinds
  <2>. QED
    BY <2>2, <2>3, <2>4, BeginStep
<1>4. ASSUME NEW c \in Counters, NEW o \in Operators, BeginCallNext(p, c, o)
      PROVE  LineInv'
  <2>. DEFINE request == [Idle EXCEPT
         !.kind = "callNext", !.counter = c, !.operator = o, !.day = today]
  <2>1. /\ request.kind = "callNext" /\ request.counter = c /\ request.operator = o
        /\ request.day = today
    BY DEF Idle
  <2>2. request \in Request
    BY <1>1, IdleIsFormed DEF Idle, Request, Kinds, CounterKinds
  <2>3. Begin(p, request)
    BY <1>4 DEF BeginCallNext
  <2>. HIDE DEF request
  <2>4. Formed(request) /\ request.kind # "forceRelease"
    BY <1>1, <2>1 DEF Formed, TicketKinds, CounterKinds, ERKinds
  <2>. QED
    BY <2>2, <2>3, <2>4, BeginStep
<1>5. ASSUME NEW c \in Counters, BeginForceRelease(p, c)
      PROVE  LineInv'
  <2>1. PICK open \in FirstOpenTicket(c) :
          Begin(p, [Idle EXCEPT
            !.kind = "forceRelease", !.counter = c, !.ticket = open,
            !.pre = IF open = None THEN NothingRead ELSE Read(open)])
    BY <1>5 DEF BeginForceRelease
  <2>. DEFINE request == [Idle EXCEPT
         !.kind = "forceRelease", !.counter = c, !.ticket = open,
         !.pre = IF open = None THEN NothingRead ELSE Read(open)]
  <2>2. open # None => open \in Tickets /\ tickets[open] # NoRow
    BY DEF FirstOpenTicket, OpenTicketsAt, AT_COUNTER, NoRow
  <2>3. request.kind = "forceRelease" /\ request.counter = c /\ request.ticket = open
    BY DEF Idle
  <2>4. request \in Request
    BY <2>2, ReadType, IdleIsFormed DEF Idle, Request, Kinds, CounterKinds
  <2>. HIDE DEF request
  <2>5. Formed(request)
    BY <2>3 DEF Formed, TicketKinds, CounterKinds, ERKinds
  <2>. QED
    BY <2>1, <2>2, <2>3, <2>4, <2>5, BeginStep DEF request
<1>6. ASSUME NEW kind \in ERKinds, BeginERRequest(p, kind)
      PROVE  LineInv'
  <2>. DEFINE request == [Idle EXCEPT !.kind = kind, !.day = today]
  <2>1. request.kind = kind /\ request.day = today
    BY DEF Idle
  <2>2. request \in Request
    BY <1>1, IdleIsFormed DEF Idle, Request, Kinds
  <2>3. Begin(p, request)
    BY <1>6 DEF BeginERRequest
  <2>. HIDE DEF request
  <2>4. Formed(request) /\ request.kind # "forceRelease"
    BY <1>1, <2>1 DEF Formed, TicketKinds, CounterKinds, ERKinds
  <2>. QED
    BY <2>2, <2>3, <2>4, BeginStep
<1>. QED
  BY <1>2, <1>3, <1>4, <1>5, <1>6 DEF BeginRequest, BeginOpenCounter, BeginCloseCounter

-----------------------------------------------------------------------------
(* Commits and whole requests *)

(* What an unfinished request is known to be.                              *)
LEMMA KnownInFlight ==
  ASSUME LineInv, NEW p \in Procs
  PROVE  /\ requests[p] \in Request
         /\ Formed(requests[p])
         /\ requests[p].pre.counter \in Counters \cup {None}
BY DEF LineInv, RequestsAreFormed, Request

LEMMA CommitTicketStep ==
  ASSUME LineInv, NEW p \in Procs, CommitTicketRequest(p)
  PROVE  LineStep /\ End(p)
<1>. USE DEF LineInv
<1>. DEFINE r == requests[p]
<1>1. /\ r.kind \in TicketKinds => r.ticket \in Tickets
      /\ r.kind = "noShow" => r.pre.counter \in Counters
      /\ r.kind = "staffPause" => r.pre.state \in AT_COUNTER \cup {"WAITING"}
      /\ r.kind = "expirePause" => r.day \in Days
      /\ r.pre.counter \in Counters \cup {None}
  BY KnownInFlight DEF Formed
<1>2. CASE CommitStartService(p)
  BY <1>1, <1>2, ToInServiceIsLineStep DEF CommitStartService, TicketKinds
<1>3. CASE CommitFinishService(p)
  BY <1>1, <1>3, ToFinishedIsLineStep DEF CommitFinishService, TicketKinds
<1>4. CASE CommitNoShow(p)
  BY <1>1, <1>4, NoShowIsLineStep DEF CommitNoShow, TicketKinds
<1>5. CASE CommitCorrect(p)
  BY <1>1, <1>5, CorrectIsLineStep DEF CommitCorrect, TicketKinds
<1>6. CASE CommitStaffPause(p)
  BY <1>1, <1>6, StaffPauseIsLineStep DEF CommitStaffPause, TicketKinds
<1>7. CASE CommitExpireCall(p)
  BY <1>1, <1>7, ExpireCallIsLineStep DEF CommitExpireCall, TicketKinds
<1>8. CASE CommitStaffResume(p)
  BY <1>1, <1>8, QueuedTxIsLineStep DEF CommitStaffResume, TicketKinds
<1>9. CASE CommitExpirePause(p)
  <2>1. r.kind = "expirePause" /\ End(p)
    BY <1>9 DEF CommitExpirePause
  <2>2. PICK day \in r.day .. today : ResumeToEndOfQueue(r.ticket, day)
    BY <1>9 DEF CommitExpirePause
  <2>3. day \in Days
    BY <1>1, <2>1, BoundAssumption DEF Days, LineOK, TypeOK
  <2>. QED
    BY <1>1, <2>1, <2>2, <2>3, ResumeToEndIsLineStep DEF TicketKinds
<1>. QED
  BY <1>2, <1>3, <1>4, <1>5, <1>6, <1>7, <1>8, <1>9 DEF CommitTicketRequest

LEMMA CommitCounterStep ==
  ASSUME LineInv, NEW p \in Procs, CommitCounterRequest(p)
  PROVE  LineStep /\ End(p)
<1>. USE DEF LineInv
<1>. DEFINE r == requests[p]
<1>1. /\ r.kind \in CounterKinds => r.counter \in Counters
      /\ r.kind \in {"openCounter", "closeCounter", "callNext"} => r.operator \in Operators
  BY KnownInFlight DEF Formed, CounterKinds
<1>2. CASE CommitOpenCounter(p)
  BY <1>1, <1>2, CounterTxIsLineStep DEF CommitOpenCounter, CounterKinds
<1>3. CASE CommitCloseCounter(p)
  BY <1>1, <1>3, CounterTxIsLineStep DEF CommitCloseCounter, CounterKinds
<1>4. CASE CommitForceRelease(p)
  <2>1. r.kind = "forceRelease" /\ ForceReleaseTx(r.counter, r.ticket, r.pre.state) /\ End(p)
    BY <1>4 DEF CommitForceRelease
  <2>2. r.ticket \in Tickets \cup {None}
    BY KnownInFlight DEF Request
  <2>3. r.ticket # None => tickets[r.ticket] \in Ticket
    BY <2>1 DEF ReadRowsRemain, LineOK, TypeOK
  <2>. QED
    BY <1>1, <2>1, <2>2, <2>3, ForceReleaseIsLineStep DEF CounterKinds
<1>5. CASE CommitCallNext(p)
  BY <1>1, <1>5, CallIsLineStep DEF CommitCallNext, CounterKinds, IsHead, Waiting
<1>. QED
  BY <1>2, <1>3, <1>4, <1>5 DEF CommitCounterRequest

LEMMA CommitERStep ==
  ASSUME LineInv, NEW p \in Procs, CommitERRequest(p)
  PROVE  LineStep /\ End(p)
<1>. USE DEF LineInv
<1>. DEFINE r == requests[p]
<1>1. r.kind \in ERKinds => r.day \in Days
  BY KnownInFlight DEF Formed
<1>2. CASE CommitCreate(p)
  BY <1>1, <1>2, InsertIsLineStep DEF CommitCreate, ERKinds
<1>3. CASE CommitRestore(p)
  BY <1>1, <1>3, RestoreIsLineStep DEF CommitRestore, ERKinds
<1>4. CASE CommitOpenDay(p)
  BY <1>1, <1>4, OpenDayIsLineStep DEF CommitOpenDay, ERKinds
<1>5. CASE CommitCloseDay(p)
  BY <1>1, <1>5, CloseDayIsLineStep DEF CommitCloseDay, ERKinds
<1>. QED
  BY <1>2, <1>3, <1>4, <1>5 DEF CommitERRequest

(* A request that nothing overlaps has read the current rows.              *)
LEMMA NextIsLineStep ==
  ASSUME LineOK, Next
  PROVE  LineStep
<1>. USE DEF LineOK
<1>1. today \in Days
  BY DEF TypeOK
<1>2. ASSUME NEW t \in Tickets, tickets[t].state \in AT_COUNTER
      PROVE  tickets[t].counter \in Counters \cup {None}
  BY <1>2, PresentRow DEF AT_COUNTER, TicketState, ACTIVE_STATES, Ticket
<1>3. CASE RepresentativeNext
  BY <1>1, <1>3, InsertIsLineStep, QueuedTxIsLineStep
     DEF RepresentativeNext, Create, SelfCancel, PauseTicket, ResumeTicket
<1>4. CASE StaffNext
  <2>1. ASSUME NEW t \in Tickets, NEW target \in {"FINISHED", "CANCELLED"}, Correct(t, target)
        PROVE  LineStep
    BY <1>2, <2>1, CorrectIsLineStep DEF Correct, AT_COUNTER
  <2>2. ASSUME NEW t \in Tickets, NEW user, StaffPause(t, user)
        PROVE  LineStep
    <3>1. tickets[t].state \in AT_COUNTER \cup {"WAITING"}
      BY <2>2 DEF StaffPause, AT_COUNTER
    <3>2. tickets[t].counter \in Counters \cup {None}
      BY <1>2, <3>1 DEF QueuedTicketsHoldNoCounter
    <3>. QED
      BY <2>2, <3>1, <3>2, StaffPauseIsLineStep DEF StaffPause
  <2>. QED
    BY <1>1, <1>4, <2>1, <2>2, CancelIsLineStep, RestoreIsLineStep, QueuedTxIsLineStep
       DEF StaffNext, Cancel, Restore, StaffResume, SetTicketPriority
<1>5. CASE ServiceNext
  <2>1. ASSUME NEW t \in Tickets, NEW o \in Operators, NoShow(t, o)
        PROVE  LineStep
    BY <1>2, <2>1, NoShowIsLineStep DEF NoShow, MarkNoShow, AssignedTo, AT_COUNTER
  <2>2. ASSUME NEW t \in Tickets, NEW o \in Operators,
               Recall(t, o) \/ StartService(t, o) \/ FinishService(t, o)
        PROVE  LineStep
    BY <1>2, <2>2, RecallIsLineStep, ToInServiceIsLineStep, ToFinishedIsLineStep
       DEF Recall, StartService, FinishService, TransitionToInService, TransitionToFinished,
           AT_COUNTER
  <2>3. ASSUME NEW t \in Tickets, AdvanceToInService(t) \/ CompleteService(t) \/ ExpireCall(t)
        PROVE  LineStep
    BY <1>2, <2>3, ToInServiceIsLineStep, ToFinishedIsLineStep, ExpireCallIsLineStep
       DEF AdvanceToInService, CompleteService, ExpireCall, TransitionToInService,
           TransitionToFinished, ExpireCallTimeout, AT_COUNTER
  <2>4. ASSUME NEW t \in Tickets, ExpirePause(t)
        PROVE  LineStep
    BY <1>1, <2>4, ResumeToEndIsLineStep DEF ExpirePause
  <2>. QED
    BY <1>5, <2>1, <2>2, <2>3, <2>4 DEF ServiceNext
<1>6. CASE CounterNext
  <2>1. ASSUME NEW c \in Counters, ForceRelease(c)
        PROVE  LineStep
    <3>1. PICK open \in FirstOpenTicket(c) :
            ForceReleaseTx(c, open, IF open = None THEN None ELSE tickets[open].state)
      BY <2>1 DEF ForceRelease
    <3>2. open # None => open \in Tickets /\ tickets[open].state \in AT_COUNTER
      BY DEF FirstOpenTicket, OpenTicketsAt
    <3>3. open # None => tickets[open] \in Ticket
      BY <3>2, PresentRow DEF AT_COUNTER, TicketState, ACTIVE_STATES
    <3>. QED
      BY <3>1, <3>2, <3>3, ForceReleaseIsLineStep
  <2>2. ASSUME NEW c \in Counters, NEW o \in Operators, CallNext(c, o)
        PROVE  LineStep
    BY <2>2, CallIsLineStep DEF CallNext, IsHead, Waiting
  <2>. QED
    BY <1>6, <2>1, <2>2, CounterTxIsLineStep DEF CounterNext, OpenCounter, CloseCounter
<1>7. CASE DayNext
  BY <1>1, <1>7, OpenDayIsLineStep, CloseDayIsLineStep DEF DayNext, OpenDay, CloseDay
<1>8. CASE Clock
  BY <1>8, ClockIsLineStep
<1>. QED
  BY <1>3, <1>4, <1>5, <1>6, <1>7, <1>8 DEF Next

-----------------------------------------------------------------------------
(* The inductive invariant *)

LEMMA CInitLine == CInit => LineInv
<1>. SUFFICES ASSUME CInit PROVE LineInv
  OBVIOUS
<1>1. LineOK
  BY InitConsistent DEF CInit, RowsAreConsistent, LineOK
<1>2. RequestsAreFormed /\ ReadRowsRemain
  BY IdleIsFormed DEF CInit, RequestsAreFormed, ReadRowsRemain, Idle
<1>. QED
  BY <1>1, <1>2 DEF LineInv

(* A step of the rows, or one that leaves every row as it is.              *)
LEMMA CStep ==
  ASSUME LineInv, [CNext]_cvars
  PROVE  /\ LineInv'
         /\ LineStep \/ UNCHANGED vars
<1>. USE DEF LineInv
<1>1. CASE WholeRequest
  <2>1. LineStep /\ UNCHANGED requests
    BY <1>1, NextIsLineStep DEF WholeRequest
  <2>2. LineOK'
    BY <2>1, LineStepKeepsLine
  <2>3. RequestsAreFormed' /\ ReadRowsRemain'
    BY <2>1, LineStepKeepsRows DEF RequestsAreFormed, ReadRowsRemain
  <2>. QED
    BY <2>1, <2>2, <2>3
<1>2. ASSUME NEW p \in Procs, BeginRequest(p)
      PROVE  LineInv' /\ UNCHANGED vars
  <2>1. UNCHANGED vars
    BY <1>2 DEF BeginRequest, BeginTicketRequest, BeginOpenCounter, BeginCloseCounter,
         BeginCallNext, BeginForceRelease, BeginERRequest, Begin
  <2>. QED
    BY <1>2, <2>1, BeginRequestStep
<1>3. ASSUME NEW p \in Procs,
             CommitTicketRequest(p) \/ CommitCounterRequest(p) \/ CommitERRequest(p)
      PROVE  LineInv' /\ LineStep
  BY <1>3, CommitTicketStep, CommitCounterStep, CommitERStep, EndStep
<1>4. ASSUME NEW p \in Procs, Abort(p)
      PROVE  LineInv' /\ UNCHANGED vars
  <2>1. UNCHANGED vars /\ End(p)
    BY <1>4 DEF Abort
  <2>2. UNCHANGED <<tickets, counters, queues, er, today>>
    BY <2>1 DEF vars
  <2>3. WritesNoTicket /\ TypeOK'
    BY <2>2 DEF WritesNoTicket, LineOK, TypeOK, Queue
  <2>. QED
    BY <2>1, <2>3, EndStep DEF LineStep
<1>5. CASE UNCHANGED cvars
  <2>1. UNCHANGED <<tickets, counters, queues, er, today, requests>>
    BY <1>5 DEF cvars
  <2>2. LineOK'
    BY <2>1 DEF LineOK, TypeOK, OneActivePerRep, PlacesAreUnique, QueuedTicketsHoldNoCounter
  <2>3. RequestsAreFormed' /\ ReadRowsRemain'
    BY <2>1 DEF RequestsAreFormed, ReadRowsRemain
  <2>. QED
    BY <2>1, <2>2, <2>3 DEF vars
<1>. QED
  BY <1>1, <1>2, <1>3, <1>4, <1>5 DEF CNext

LEMMA LineAlways == CSpec => []LineInv
<1>1. LineInv /\ [CNext]_cvars => LineInv'
  BY CStep
<1>. QED
  BY <1>1, CInitLine, PTL DEF CSpec

-----------------------------------------------------------------------------

(* Overlapping requests never leave a row outside the types of the schema, *)
(* nor a request that holds something its checks exclude.                  *)
THEOREM CTypeCorrect == CSpec => []CTypeOK
<1>1. LineInv => CTypeOK
  BY DEF LineInv, LineOK, RequestsAreFormed, CTypeOK
<1>. QED
  BY <1>1, LineAlways, PTL

(* However requests overlap, a representative has one active ticket: the   *)
(* lock on the ER and the guards of the resumes suffice, and the partial   *)
(* unique index is only a second line of defence.                          *)
THEOREM COneActive == CSpec => []OneActivePerRep
<1>1. LineInv => OneActivePerRep
  BY DEF LineInv, LineOK
<1>. QED
  BY <1>1, LineAlways, PTL

(* However requests overlap, no place of a daily queue is given twice.     *)
THEOREM CPlacesUnique == CSpec => []PlacesAreUnique
<1>1. LineInv => PlacesAreUnique
  BY DEF LineInv, LineOK
<1>. QED
  BY <1>1, LineAlways, PTL

(* However requests overlap, the position a representative is shown is her *)
(* rank in the order in which callNext calls the tickets of her queue: no  *)
(* commit leaves two tickets at one place or one place out of order.       *)
THEOREM CPositionShown == CSpec => []PositionIsCallRank
<1>1. LineInv => PositionIsCallRank
  BY CountIsRank DEF LineInv, LineOK
<1>. QED
  BY <1>1, LineAlways, PTL

(* However requests overlap, the committed rows of a queue with somebody   *)
(* in the line have one head, which is the ticket callNext is to call.     *)
THEOREM COneHead == CSpec => []LineHasOneHead
<1>1. LineInv => LineHasOneHead
  BY HeadExists, HeadIsUnique DEF LineInv, LineOK, LineHasOneHead
<1>. QED
  BY <1>1, LineAlways, PTL

(* However requests overlap, a ticket in the line or paused is linked to   *)
(* no counter.                                                             *)
THEOREM CQueuedUnlinked == CSpec => []QueuedTicketsHoldNoCounter
<1>1. LineInv => QueuedTicketsHoldNoCounter
  BY DEF LineInv, LineOK
<1>. QED
  BY <1>1, LineAlways, PTL

(* However requests overlap, newcomers queue behind.                       *)
THEOREM CNewcomersBehind == CSpec => NewcomersQueueBehind
<1>1. LineInv /\ [CNext]_cvars => [\A t \in Tickets : EntersBehind(t)]_vars
  BY CStep, LineStepEntersBehind DEF LineInv
<1>. QED
  BY <1>1, LineAlways, PTL DEF CSpec, NewcomersQueueBehind

==============================================================================
