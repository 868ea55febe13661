-------------------------- MODULE StaffScreensProofs --------------------------
(***************************************************************************)
(* The pages of the staff ask only for what their user may ask for, of     *)
(* tickets and counters there are, and whatever the server does of it,     *)
(* however late, is a step of TicketQueue.  What holds of every execution  *)
(* of TicketQueue holds of the desk behind the pages.                      *)
(***************************************************************************)
EXTENDS StaffScreens, TicketQueueProofs

-----------------------------------------------------------------------------
(* What each user asks for *)

OnATicket(kinds) == [kind: kinds, on: Tickets, seen: TicketState]
OnACounter(kinds) == [kind: kinds, on: Counters, seen: CounterState]

OperatorKinds ==
  {"start-service", "recall", "no-show", "finish-service", "staff-pause", "staff-resume",
   "mark-priority", "unmark-priority"}
ManagerKinds ==
  {"staff-pause", "staff-resume", "mark-priority", "unmark-priority", "cancel", "restore",
   "correct-finish", "correct-cancel"}
CounterKinds == {"open", "call-next", "pause-counter", "resume-counter", "close"}

OperatorCommands == OnACounter(CounterKinds) \cup OnATicket(OperatorKinds)
DayCommands == [kind: {"toggle-day"}, on: {None}, seen: {"DAY_OPEN", "DAY_CLOSED"}]
ManagerCommands ==
  OnACounter({"force-release"}) \cup OnATicket(ManagerKinds) \cup DayCommands

CommandsOf(u) == IF u = Staff THEN ManagerCommands ELSE OperatorCommands

PickedFits == picked \in [Operators -> Counters \cup {None}]

AskedFits ==
  /\ asked = [u \in Users |-> asked[u]]
  /\ \A u \in Users : asked[u] \in CommandsOf(u) \cup {None}

ScreensInv == RowsAreConsistent /\ PickedFits /\ AskedFits

LEMMA CommandsAreTyped ==
  ASSUME NEW u
  PROVE  CommandsOf(u) \subseteq Command
BY DEF CommandsOf, ManagerCommands, OperatorCommands, DayCommands, OnACounter, OnATicket,
       Command, OperatorKinds, ManagerKinds, CounterKinds, CounterCommands, TicketCommands

LEMMA ScreensInvTypes == ScreensInv => ScreensTypeOK
<1>. SUFFICES ASSUME ScreensInv PROVE ScreensTypeOK
  OBVIOUS
<1>1. asked \in [Users -> Command \cup {None}]
  BY CommandsAreTyped DEF ScreensInv, AskedFits
<1>2. QED
  BY <1>1 DEF ScreensInv, RowsAreConsistent, PickedFits, ScreensTypeOK

-----------------------------------------------------------------------------
(* What the pages offer *)

LEMMA OfferOnTicket ==
  ASSUME NEW states \in SUBSET TicketState, NEW t \in Listed(states), NEW kinds
  PROVE  OnTicket(t, kinds) \subseteq OnATicket(kinds)
BY DEF Listed, OnTicket, OnATicket

LEMMA OfferOnCounter ==
  ASSUME TypeOK, NEW c \in Counters, NEW kinds
  PROVE  OnCounter(c, kinds) \subseteq OnACounter(kinds)
BY DEF TypeOK, Counter, OnCounter, OnACounter

LEMMA OperationPageFits ==
  ASSUME TypeOK, NEW o \in Operators, NEW c \in Counters \cup {None}
  PROVE  OperationPage(o, c) \subseteq OperatorCommands
<1>1. CounterCard(o, c) \subseteq OnACounter(CounterKinds)
  <2>1. CASE c = None
    BY <2>1 DEF CounterCard
  <2>2. CASE c \in Counters
    <3>1. \A kinds : OnCounter(c, kinds) \subseteq OnACounter(kinds)
      BY <2>2, OfferOnCounter
    <3>2. \A kinds \in SUBSET CounterKinds : OnACounter(kinds) \subseteq OnACounter(CounterKinds)
      BY DEF OnACounter
    <3>3. \A kinds \in SUBSET CounterKinds :
            \A condition : If(condition, OnCounter(c, kinds)) \subseteq OnACounter(CounterKinds)
      BY <3>1, <3>2 DEF If
    <3>4. /\ {"open"} \in SUBSET CounterKinds /\ {"call-next"} \in SUBSET CounterKinds
          /\ {"pause-counter"} \in SUBSET CounterKinds
          /\ {"resume-counter"} \in SUBSET CounterKinds /\ {"close"} \in SUBSET CounterKinds
      BY DEF CounterKinds
    <3>5. c # None
      BY <2>2, NoneAssumption
    <3>6. QED
      BY <3>3, <3>4, <3>5 DEF CounterCard
  <2>3. QED
    BY <2>1, <2>2
<1>2. CurrentTicketCard(c) \subseteq OnATicket(OperatorKinds)
  <2>1. ASSUME NEW t \in CurrentTicket(c)
        PROVE  OnTicket(t, IF tickets[t].state = "CALLING"
                             THEN {"start-service", "recall", "staff-pause", "no-show"}
                             ELSE {"finish-service", "staff-pause"})
                \subseteq OnATicket(OperatorKinds)
    <3>1. t \in Listed(AT_COUNTER) /\ AT_COUNTER \in SUBSET TicketState
      BY DEF CurrentTicket, AT_COUNTER, TicketState, ACTIVE_STATES
    <3>2. \A kinds : OnTicket(t, kinds) \subseteq OnATicket(kinds)
      BY <3>1, OfferOnTicket
    <3>3. QED
      BY <3>2 DEF OnATicket, OperatorKinds
  <2>2. QED
    BY <2>1 DEF CurrentTicketCard
<1>3. QueueLists(o, c) \subseteq OnATicket(OperatorKinds)
  <2>1. ASSUME NEW state \in {"WAITING", "PAUSED"}, NEW t \in Listed({state}),
               NEW kinds \in SUBSET OperatorKinds
        PROVE  OnTicket(t, kinds) \subseteq OnATicket(OperatorKinds)
    <3>1. {state} \in SUBSET TicketState
      BY DEF TicketState, ACTIVE_STATES
    <3>2. OnTicket(t, kinds) \subseteq OnATicket(kinds)
      BY <3>1, OfferOnTicket
    <3>3. QED
      BY <3>2 DEF OnATicket
  <2>2. \A t : /\ {PriorityToggle(t), "staff-pause"} \in SUBSET OperatorKinds
               /\ {PriorityToggle(t), "staff-resume"} \in SUBSET OperatorKinds
    BY DEF PriorityToggle, OperatorKinds
  <2>3. \A t \in Listed({"WAITING"}) :
          OnTicket(t, {PriorityToggle(t), "staff-pause"}) \subseteq OnATicket(OperatorKinds)
    BY <2>1, <2>2
  <2>4. \A t \in Listed({"PAUSED"}) :
          OnTicket(t, {PriorityToggle(t), "staff-resume"}) \subseteq OnATicket(OperatorKinds)
    BY <2>1, <2>2
  <2>5. ASSUME NEW command \in QueueLists(o, c)
        PROVE  \/ \E t \in Listed({"WAITING"}) :
                    command \in OnTicket(t, {PriorityToggle(t), "staff-pause"})
               \/ \E t \in Listed({"PAUSED"}) :
                    command \in OnTicket(t, {PriorityToggle(t), "staff-resume"})
    BY <2>5 DEF QueueLists, If
  <2>6. QED
    BY <2>3, <2>4, <2>5
<1>4. QED
  BY <1>1, <1>2, <1>3 DEF OperationPage, OperatorCommands

LEMMA ManagerPageFits ==
  ASSUME TypeOK
  PROVE  ManagerPage \subseteq ManagerCommands
<1>1. ASSUME NEW states \in SUBSET TicketState, NEW t \in Listed(states),
             NEW kinds \in SUBSET ManagerKinds
      PROVE  OnTicket(t, kinds) \subseteq OnATicket(ManagerKinds)
  BY <1>1, OfferOnTicket DEF OnATicket
<1>2. \A t : PriorityToggle(t) \in ManagerKinds
  BY DEF PriorityToggle, ManagerKinds
<1>3. ASSUME NEW t \in Listed({"WAITING", "CALLING", "IN_SERVICE"})
      PROVE  ActiveTicketMenu(t) \subseteq OnATicket(ManagerKinds)
  <2>1. {"WAITING", "CALLING", "IN_SERVICE"} \in SUBSET TicketState
    BY DEF TicketState, ACTIVE_STATES
  <2>2. \A kinds \in SUBSET ManagerKinds : OnTicket(t, kinds) \subseteq OnATicket(ManagerKinds)
    BY <1>1, <2>1
  <2>3. /\ {"staff-pause"} \in SUBSET ManagerKinds /\ {PriorityToggle(t)} \in SUBSET ManagerKinds
        /\ {"correct-finish", "correct-cancel"} \in SUBSET ManagerKinds
        /\ {"cancel"} \in SUBSET ManagerKinds
    BY <1>2 DEF ManagerKinds
  <2>4. QED
    BY <2>2, <2>3 DEF ActiveTicketMenu, If
<1>4. ASSUME NEW t \in Listed({"PAUSED"})
      PROVE  OnTicket(t, {"staff-resume", PriorityToggle(t)}) \subseteq OnATicket(ManagerKinds)
  <2>1. {"PAUSED"} \in SUBSET TicketState
    BY DEF TicketState, ACTIVE_STATES
  <2>2. {"staff-resume", PriorityToggle(t)} \in SUBSET ManagerKinds
    BY <1>2 DEF ManagerKinds
  <2>3. QED
    BY <1>1, <2>1, <2>2
<1>5. ASSUME NEW t \in Listed({"NO_SHOW", "CANCELLED"})
      PROVE  OnTicket(t, {"restore"}) \subseteq OnATicket(ManagerKinds)
  <2>1. {"NO_SHOW", "CANCELLED"} \in SUBSET TicketState
    BY DEF TicketState
  <2>2. {"restore"} \in SUBSET ManagerKinds
    BY DEF ManagerKinds
  <2>3. QED
    BY <1>1, <2>1, <2>2
<1>6. \A c \in Counters : OnCounter(c, {"force-release"}) \subseteq OnACounter({"force-release"})
  BY OfferOnCounter
<1>7. OnDay \subseteq DayCommands
  BY DEF OnDay, DayCommands
<1>8. ASSUME NEW command \in ManagerPage
      PROVE  \/ \E t \in Listed({"WAITING", "CALLING", "IN_SERVICE"}) :
                  command \in ActiveTicketMenu(t)
             \/ \E t \in Listed({"PAUSED"}) :
                  command \in OnTicket(t, {"staff-resume", PriorityToggle(t)})
             \/ \E t \in Listed({"NO_SHOW", "CANCELLED"}) : command \in OnTicket(t, {"restore"})
             \/ \E c \in Counters : command \in OnCounter(c, {"force-release"})
             \/ command \in OnDay
  BY <1>8 DEF ManagerPage
<1>9. QED
  BY <1>3, <1>4, <1>5, <1>6, <1>7, <1>8 DEF ManagerCommands

LEMMA PageFits ==
  ASSUME ScreensInv, NEW u \in Users
  PROVE  Page(u) \subseteq CommandsOf(u)
BY OperationPageFits, ManagerPageFits, StaffAssumption
   DEF Page, CommandsOf, Users, ScreensInv, RowsAreConsistent, PickedFits

-----------------------------------------------------------------------------
(* What the server does of a command *)

LEMMA CounterHandlerIsAStep ==
  ASSUME NEW o \in Operators, NEW command \in OnACounter(CounterKinds), Handle(o, command)
  PROVE  Next
<1>. DEFINE c == command.on
<1>1. c \in Counters /\ command.kind \in CounterKinds
  BY DEF OnACounter
<1>2. \/ OpenCounter(c, o) \/ CallNext(c, o) \/ PauseCounterTx(c, o) \/ ResumeCounterTx(c, o)
      \/ CloseCounter(c, o)
  BY <1>1 DEF Handle, CounterKinds
<1>3. QED
  BY <1>1, <1>2 DEF CounterNext, Next

LEMMA OperatorHandlerIsAStep ==
  ASSUME NEW o \in Operators, NEW command \in OnATicket(OperatorKinds), Handle(o, command)
  PROVE  Next
<1>. DEFINE t == command.on
<1>1. t \in Tickets /\ command.kind \in OperatorKinds
  BY DEF OnATicket
<1>2. \/ StartService(t, o) \/ Recall(t, o) \/ NoShow(t, o) \/ FinishService(t, o)
      \/ StaffPause(t, o) \/ StaffResume(t, o)
      \/ SetTicketPriority(t, TRUE) \/ SetTicketPriority(t, FALSE)
  BY <1>1 DEF Handle, OperatorKinds
<1>3. QED
  BY <1>1, <1>2 DEF ServiceNext, StaffNext, Next

LEMMA ManagerHandlerIsAStep ==
  ASSUME NEW command \in ManagerCommands, Handle(Staff, command)
  PROVE  Next
<1>1. CASE command \in OnACounter({"force-release"})
  <2>1. command.on \in Counters /\ ForceRelease(command.on)
    BY <1>1 DEF OnACounter, Handle
  <2>2. QED
    BY <2>1 DEF CounterNext, Next
<1>2. CASE command \in OnATicket(ManagerKinds)
  <2>. DEFINE t == command.on
  <2>1. t \in Tickets /\ command.kind \in ManagerKinds
    BY <1>2 DEF OnATicket
  <2>2. \/ StaffPause(t, Staff) \/ StaffResume(t, Staff)
        \/ SetTicketPriority(t, TRUE) \/ SetTicketPriority(t, FALSE)
        \/ Cancel(t) \/ Restore(t) \/ Correct(t, "FINISHED") \/ Correct(t, "CANCELLED")
    BY <2>1 DEF Handle, ManagerKinds
  <2>3. QED
    BY <2>1, <2>2 DEF StaffNext, Next
<1>3. CASE command \in DayCommands
  <2>1. OpenDay \/ CloseDay
    BY <1>3 DEF DayCommands, Handle
  <2>2. QED
    BY <2>1 DEF DayNext, Next
<1>4. QED
  BY <1>1, <1>2, <1>3 DEF ManagerCommands

LEMMA HandlerIsAStep ==
  ASSUME NEW u \in Users, NEW command \in CommandsOf(u), Handle(u, command)
  PROVE  Next
BY CounterHandlerIsAStep, OperatorHandlerIsAStep, ManagerHandlerIsAStep
   DEF Users, CommandsOf, OperatorCommands

-----------------------------------------------------------------------------
(* Every step of the pages *)

LEMMA PagesStep == ScreensInv /\ [ScreensNext]_wvars => [Next]_vars
<1>. SUFFICES ASSUME ScreensInv, [ScreensNext]_wvars PROVE [Next]_vars
  OBVIOUS
<1>1. CASE Outside
  BY <1>1 DEF Outside, ServiceNext, Next
<1>2. ASSUME NEW u \in Users, Send(u)
      PROVE  [Next]_vars
  <2>1. asked[u] \in CommandsOf(u) /\ Handle(u, asked[u])
    BY <1>2 DEF ScreensInv, AskedFits, Send
  <2>2. QED
    BY <2>1, HandlerIsAStep
<1>3. ASSUME NEW o \in Operators, Refresh(o) \/ \E c \in Counters \cup {None} : SelectCounter(o, c)
      PROVE  [Next]_vars
  BY <1>3 DEF Refresh, SelectCounter
<1>4. ASSUME NEW u \in Users, Ask(u) \/ Drop(u)
      PROVE  [Next]_vars
  BY <1>4 DEF Ask, Drop
<1>5. CASE UNCHANGED wvars
  BY <1>5 DEF wvars
<1>6. QED
  BY <1>1, <1>2, <1>3, <1>4, <1>5 DEF ScreensNext

LEMMA PickedFitsAfter == ScreensInv /\ [ScreensNext]_wvars => PickedFits'
<1>. SUFFICES ASSUME ScreensInv, [ScreensNext]_wvars PROVE PickedFits'
  OBVIOUS
<1>1. ASSUME NEW o \in Operators, Refresh(o)
      PROVE  PickedFits'
  <2>1. CounterAfterRefresh(o) \in Counters \cup {None}
    BY DEF CounterAfterRefresh, ScreensInv, PickedFits
  <2>2. QED
    BY <1>1, <2>1 DEF Refresh, ScreensInv, PickedFits
<1>2. ASSUME NEW o \in Operators, NEW c \in Counters \cup {None}, SelectCounter(o, c)
      PROVE  PickedFits'
  BY <1>2 DEF SelectCounter, ScreensInv, PickedFits
<1>3. ASSUME NEW u \in Users, Send(u)
      PROVE  PickedFits'
  BY <1>3 DEF Send, ScreensInv, PickedFits
<1>4. ASSUME NEW u \in Users, Ask(u) \/ Drop(u)
      PROVE  PickedFits'
  BY <1>4 DEF Ask, Drop, ScreensInv, PickedFits
<1>5. CASE Outside \/ UNCHANGED wvars
  BY <1>5 DEF Outside, screens, wvars, ScreensInv, PickedFits
<1>6. QED
  BY <1>1, <1>2, <1>3, <1>4, <1>5 DEF ScreensNext

LEMMA AskedFitsAfter == ScreensInv /\ [ScreensNext]_wvars => AskedFits'
<1>. SUFFICES ASSUME ScreensInv, [ScreensNext]_wvars PROVE AskedFits'
  OBVIOUS
<1>1. ASSUME NEW u \in Users, NEW command \in CommandsOf(u) \cup {None},
             asked' = [asked EXCEPT ![u] = command]
      PROVE  AskedFits'
  BY <1>1 DEF ScreensInv, AskedFits
<1>2. ASSUME NEW u \in Users, Ask(u)
      PROVE  AskedFits'
  BY <1>1, <1>2, PageFits DEF Ask
<1>3. ASSUME NEW u \in Users, Send(u) \/ Drop(u)
      PROVE  AskedFits'
  BY <1>1, <1>3 DEF Send, Drop
<1>4. ASSUME UNCHANGED asked
      PROVE  AskedFits'
  BY <1>4 DEF ScreensInv, AskedFits
<1>5. CASE \/ Outside \/ UNCHANGED wvars
           \/ \E o \in Operators : Refresh(o) \/ \E c \in Counters \cup {None} : SelectCounter(o, c)
  BY <1>4, <1>5 DEF Outside, screens, wvars, Refresh, SelectCounter
<1>6. QED
  BY <1>2, <1>3, <1>5 DEF ScreensNext

LEMMA ScreensInvHoldsAtFirst == ScreensInit => ScreensInv
BY InitConsistent DEF ScreensInit, ScreensInv, PickedFits, AskedFits

LEMMA ScreensInvIsKept == ScreensInv /\ [ScreensNext]_wvars => ScreensInv'
BY PagesStep, PickedFitsAfter, AskedFitsAfter, StepConsistent DEF ScreensInv

LEMMA ScreensAlways == ScreensSpec => []ScreensInv
BY ScreensInvHoldsAtFirst, ScreensInvIsKept, PTL DEF ScreensSpec

-----------------------------------------------------------------------------
(* What a page offers, the handler accepts *)

(* What the handler of a command asks of the rows it finds: the conditions *)
(* of Handle on the current state, one line of which is enough to refuse.  *)
MeetsGuards(u, command) ==
  LET t == command.on
      c == command.on
  IN CASE command.kind = "open" ->
            /\ er.isDayOpen
            /\ counters[c].state = "UNAVAILABLE" /\ counters[c].operator = None
            /\ \A d \in Counters : counters[d].operator # u
       [] command.kind = "call-next" ->
            /\ MayCall(c, u) /\ queues[today].exists
            /\ \E head \in Tickets : IsHead(head, today)
       [] command.kind = "pause-counter" -> counters[c] = [state |-> "ACTIVE", operator |-> u]
       [] command.kind = "resume-counter" -> counters[c] = [state |-> "PAUSED", operator |-> u]
       [] command.kind = "close" ->
            /\ OpenTicketsAt(c) = {}
            /\ counters[c].operator = u /\ counters[c].state \in {"ACTIVE", "PAUSED"}
       [] command.kind = "force-release" -> TRUE
       [] command.kind \in {"start-service", "recall", "no-show"} ->
            AssignedTo(t, u) /\ tickets[t].state = "CALLING"
       [] command.kind = "finish-service" -> AssignedTo(t, u) /\ tickets[t].state = "IN_SERVICE"
       [] command.kind = "staff-pause" ->
            /\ tickets[t].state \in {"WAITING", "CALLING", "IN_SERVICE"}
            /\ er.isDayOpen /\ HasActiveCounter(u, tickets[t].counter)
       [] command.kind = "staff-resume" ->
            tickets[t].state = "PAUSED" /\ er.isDayOpen /\ HasActiveCounter(u, None)
       [] command.kind = "mark-priority" ->
            tickets[t].state \in {"WAITING", "PAUSED"} /\ tickets[t].priority = FALSE
       [] command.kind = "unmark-priority" ->
            tickets[t].state \in {"WAITING", "PAUSED"} /\ tickets[t].priority = TRUE
       [] command.kind = "cancel" -> tickets[t].state \in ACTIVE_STATES
       [] command.kind = "restore" ->
            /\ er.isDayOpen /\ ~HasActiveTicket(tickets[t].rep, {t})
            /\ Restorable(tickets[t]) /\ queues[today].nextSequence < MaxSequence
       [] command.kind \in {"correct-finish", "correct-cancel"} -> tickets[t].state = "IN_SERVICE"

Accepted(u, command) ==
  \/ command.kind = "toggle-day" \/ NothingToCall(command) \/ PausesOfClosedDay(command)
  \/ command.kind = "restore" /\ HasActiveTicket(tickets[command.on].rep, {})
  \/ MeetsGuards(u, command)

OfferedMeetsGuards ==
  \A u \in Users : u = Staff \/ AtHerCounter(u) => \A command \in Page(u) : Accepted(u, command)

(* A handler that takes a command has found the guards met.                *)
LEMMA HandlerMeetsGuards ==
  ASSUME TypeOK, NEW u, NEW command, Handle(u, command),
         command.kind \in CounterCommands \cup TicketCommands
  PROVE  MeetsGuards(u, command)
<1>. USE DEF Handle, MeetsGuards
<1>1. CASE command.kind = "open"
  BY <1>1 DEF OpenCounter, MayOpen, OpenTx
<1>2. CASE command.kind = "call-next"
  BY <1>2 DEF CallNext
<1>3. CASE command.kind \in {"pause-counter", "resume-counter"}
  BY <1>3 DEF PauseCounterTx, ResumeCounterTx
<1>4. CASE command.kind = "close"
  BY <1>4 DEF CloseCounter, CloseTx
<1>5. CASE command.kind = "force-release"
  BY <1>5
<1>6. CASE command.kind \in {"start-service", "recall", "no-show", "finish-service"}
  BY <1>6 DEF StartService, Recall, NoShow, FinishService, TransitionToInService, RecallTx,
              MarkNoShow, TransitionToFinished
<1>7. CASE command.kind \in {"staff-pause", "staff-resume"}
  BY <1>7 DEF StaffPause, StaffResume
<1>8. CASE command.kind \in {"mark-priority", "unmark-priority"}
  BY <1>8 DEF SetTicketPriority, SetTicketPriorityTx
<1>9. CASE command.kind = "cancel"
  BY <1>9 DEF Cancel, CancelTx
<1>10. CASE command.kind = "restore"
  BY <1>10 DEF Restore, RestoreTx, UpsertQueue
<1>11. CASE command.kind \in {"correct-finish", "correct-cancel"}
  BY <1>11 DEF Correct
<1>. QED
  BY <1>1, <1>2, <1>3, <1>4, <1>5, <1>6, <1>7, <1>8, <1>9, <1>10, <1>11
     DEF CounterCommands, TicketCommands

LEMMA CommandOnTicket ==
  ASSUME NEW t, NEW kinds, NEW command \in OnTicket(t, kinds)
  PROVE  command.on = t /\ command.kind \in kinds
BY DEF OnTicket

LEMMA CommandOnCounter ==
  ASSUME NEW c, NEW kinds, NEW command \in OnCounter(c, kinds)
  PROVE  command.on = c /\ command.kind \in kinds
BY DEF OnCounter

(* A counter with an owner has the day open and is not unavailable.        *)
LEMMA OwnedCounter ==
  ASSUME RowsAreConsistent, NEW c \in Counters, NEW o \in Operators, counters[c].operator = o
  PROVE  /\ er.isDayOpen
         /\ counters[c].state \in CounterState \ {"UNAVAILABLE"}
         /\ counters[c] = [state |-> counters[c].state, operator |-> o]
         /\ \A d \in Counters : counters[d].operator = o => d = c
<1>1. o # None /\ counters[c] \in Counter
  BY NoneAssumption DEF RowsAreConsistent, TypeOK
<1>. QED
  BY <1>1 DEF RowsAreConsistent, ClosedDayLeavesNoOwner, OwnersAreUnique, Counter

(* The tickets of today at a counter of a closed day are none.             *)
LEMMA ListedAtACounter ==
  ASSUME RowsAreConsistent, NEW t \in Listed(AT_COUNTER)
  PROVE  /\ er.isDayOpen
         /\ tickets[t].counter \in Counters /\ tickets[t].operator \in Operators
         /\ counters[tickets[t].counter] =
              [state |-> tickets[t].state, operator |-> tickets[t].operator]
<1>1. t \in Tickets /\ tickets[t].state \in AT_COUNTER /\ tickets[t].day = today
  BY DEF Listed
<1>2. er.isDayOpen
  BY <1>1 DEF RowsAreConsistent, ClosedDayLeavesOnlyEarlierCalls, TypeOK, Days
<1>. QED
  BY <1>1, <1>2 DEF RowsAreConsistent, OpenTicketsAreAssigned, CounterServesItsTicket

LEMMA NobodyAtAnIdleCounter ==
  ASSUME RowsAreConsistent, er.isDayOpen, NEW c \in Counters,
         counters[c].state \notin AT_COUNTER
  PROVE  OpenTicketsAt(c) = {}
<1>1. ASSUME NEW t \in Tickets, tickets[t].counter = c, tickets[t].state \in AT_COUNTER
      PROVE  FALSE
  <2>1. counters[c] = [state |-> tickets[t].state, operator |-> tickets[t].operator]
    BY <1>1 DEF RowsAreConsistent, CounterServesItsTicket
  <2>. QED
    BY <1>1, <2>1
<1>. QED
  BY <1>1 DEF OpenTicketsAt

LEMMA NoOpenTicketElsewhere ==
  ASSUME RowsAreConsistent, NEW c \in Counters, NEW o \in Operators,
         counters[c].operator = o, counters[c].state = "ACTIVE"
  PROVE  MayCall(c, o)
<1>1. ASSUME NEW t \in Tickets, tickets[t].operator = o, tickets[t].state \in AT_COUNTER
      PROVE  FALSE
  <2>. DEFINE d == tickets[t].counter
  <2>1. d \in Counters /\ counters[d] = [state |-> tickets[t].state, operator |-> o]
    BY <1>1, OwnedCounter
       DEF RowsAreConsistent, OpenTicketsAreAssigned, CounterServesItsTicket
  <2>. HIDE DEF d
  <2>2. counters[d].operator = o /\ counters[d].state = tickets[t].state
    BY <2>1
  <2>3. d = c
    BY <2>1, <2>2, OwnedCounter
  <2>. QED
    BY <1>1, <2>2, <2>3 DEF AT_COUNTER
<1>. QED
  BY <1>1 DEF MayCall, HasOpenTicket

-----------------------------------------------------------------------------
(* The operation page *)

LEMMA OpenMeetsGuards ==
  ASSUME RowsAreConsistent, FreeCountersAreShut, NEW o \in Operators,
         AtHerCounter(o), picked[o] \in Counters, NEW command,
         counters[picked[o]].operator = None, er.isDayOpen,
         command \in OnCounter(picked[o], {"open"})
  PROVE  MeetsGuards(o, command)
<1>. DEFINE c == picked[o]
<1>1. o # None
  BY NoneAssumption
<1>2. \A d \in Counters : counters[d].operator # o
  <2>1. CASE \E d \in Counters : counters[d].operator = o
    <3>1. CounterAfterRefresh(o) = CHOOSE d \in Counters : counters[d].operator = o
      BY <2>1 DEF CounterAfterRefresh
    <3>2. counters[c].operator = o
      BY <2>1, <3>1 DEF AtHerCounter
    <3>. QED
      BY <1>1, <3>2
  <2>. QED
    BY <2>1
<1>3. command.on = c /\ command.kind = "open"
  BY CommandOnCounter
<1>4. counters[c].state = "UNAVAILABLE"
  BY DEF FreeCountersAreShut
<1>. QED
  BY <1>2, <1>3, <1>4 DEF MeetsGuards

LEMMA CallNextIsAccepted ==
  ASSUME RowsAreConsistent, NEW o \in Operators, NEW c \in Counters, NEW command,
         CanCallNext(o, c), command \in OnCounter(c, {"call-next"})
  PROVE  Accepted(o, command)
<1>1. command.on = c /\ command.kind = "call-next"
  BY CommandOnCounter
<1>2. MayCall(c, o)
  BY NoOpenTicketElsewhere DEF CanCallNext, IsOwnCounter
<1>3. CASE Waiting(today) = {}
  BY <1>1, <1>3 DEF Accepted, NothingToCall
<1>4. CASE Waiting(today) # {}
  <2>1. \E head \in Tickets : IsHead(head, today)
    BY <1>4, HeadExists DEF RowsAreConsistent, TypeOK
  <2>2. queues[today].exists
    <3>1. PICK t \in Tickets : tickets[t].state = "WAITING" /\ tickets[t].day = today
      BY <1>4 DEF Waiting
    <3>2. tickets[t] # NoRow
      BY <3>1 DEF NoRow
    <3>. QED
      BY <3>1, <3>2 DEF RowsAreConsistent, DatesAreOrdered
  <2>. QED
    BY <1>1, <1>2, <2>1, <2>2 DEF Accepted, MeetsGuards
<1>. QED
  BY <1>3, <1>4

LEMMA OwnCounterMeetsGuards ==
  ASSUME RowsAreConsistent, NEW o \in Operators, NEW c \in Counters, NEW command,
         IsOwnCounter(o, c),
         \/ counters[c].state = "ACTIVE" /\ command \in OnCounter(c, {"pause-counter"})
         \/ counters[c].state = "PAUSED" /\ command \in OnCounter(c, {"resume-counter"})
         \/ counters[c].state \in {"ACTIVE", "PAUSED"} /\ command \in OnCounter(c, {"close"})
  PROVE  MeetsGuards(o, command)
<1>1. counters[c].operator = o
  BY DEF IsOwnCounter
<1>2. er.isDayOpen /\ counters[c] = [state |-> counters[c].state, operator |-> o]
  BY <1>1, OwnedCounter
<1>3. CASE counters[c].state = "ACTIVE" /\ command \in OnCounter(c, {"pause-counter"})
  <2>1. command.on = c /\ command.kind = "pause-counter"
    BY <1>3, CommandOnCounter
  <2>. QED
    BY <1>2, <1>3, <2>1 DEF MeetsGuards
<1>4. CASE counters[c].state = "PAUSED" /\ command \in OnCounter(c, {"resume-counter"})
  <2>1. command.on = c /\ command.kind = "resume-counter"
    BY <1>4, CommandOnCounter
  <2>. QED
    BY <1>2, <1>4, <2>1 DEF MeetsGuards
<1>5. CASE counters[c].state \in {"ACTIVE", "PAUSED"} /\ command \in OnCounter(c, {"close"})
  <2>1. OpenTicketsAt(c) = {}
    BY <1>2, <1>5, NobodyAtAnIdleCounter DEF AT_COUNTER
  <2>2. command.on = c /\ command.kind = "close"
    BY <1>5, CommandOnCounter
  <2>. QED
    BY <1>1, <1>5, <2>1, <2>2 DEF MeetsGuards
<1>. QED
  BY <1>3, <1>4, <1>5

LEMMA CounterCardIsAccepted ==
  ASSUME RowsAreConsistent, FreeCountersAreShut, PickedFits, NEW o \in Operators,
         AtHerCounter(o), NEW command \in CounterCard(o, picked[o])
  PROVE  Accepted(o, command)
<1>. DEFINE c == picked[o]
<1>1. c \in Counters
  BY DEF CounterCard, PickedFits
<1>2. \/ /\ counters[c].operator = None /\ er.isDayOpen
         /\ command \in OnCounter(c, {"open"})
      \/ CanCallNext(o, c) /\ command \in OnCounter(c, {"call-next"})
      \/ /\ IsOwnCounter(o, c)
         /\ \/ counters[c].state = "ACTIVE" /\ command \in OnCounter(c, {"pause-counter"})
            \/ counters[c].state = "PAUSED" /\ command \in OnCounter(c, {"resume-counter"})
            \/ counters[c].state \in {"ACTIVE", "PAUSED"} /\ command \in OnCounter(c, {"close"})
  BY DEF CounterCard, If
<1>. QED
  BY <1>1, <1>2, OpenMeetsGuards, CallNextIsAccepted, OwnCounterMeetsGuards DEF Accepted

LEMMA CurrentTicketIsAccepted ==
  ASSUME RowsAreConsistent, NEW o \in Operators, AtHerCounter(o),
         NEW command \in CurrentTicketCard(picked[o])
  PROVE  MeetsGuards(o, command)
<1>. DEFINE c == picked[o]
<1>1. PICK t \in CurrentTicket(c) :
        command \in OnTicket(t, IF tickets[t].state = "CALLING"
                                  THEN {"start-service", "recall", "staff-pause", "no-show"}
                                  ELSE {"finish-service", "staff-pause"})
  BY DEF CurrentTicketCard
<1>2. /\ t \in Listed(AT_COUNTER) /\ tickets[t].counter = c /\ c # None
      /\ tickets[t].state \in AT_COUNTER
  BY DEF CurrentTicket, Listed
<1>3. /\ er.isDayOpen /\ c \in Counters /\ tickets[t].operator \in Operators
      /\ counters[c] = [state |-> tickets[t].state, operator |-> tickets[t].operator]
  BY <1>2, ListedAtACounter
<1>. HIDE DEF c
<1>4. counters[c].operator = tickets[t].operator /\ counters[c].state = tickets[t].state
  BY <1>3
<1>5. tickets[t].operator = o
  BY <1>2, <1>3, <1>4, NoneAssumption DEF AtHerCounter, c
<1>6. AssignedTo(t, o)
  BY <1>2, <1>5 DEF AssignedTo
<1>7. HasActiveCounter(o, tickets[t].counter)
  BY <1>2, <1>3, <1>4, <1>5 DEF HasActiveCounter, AT_COUNTER
<1>8. /\ command.on = t
      /\ command.kind \in IF tickets[t].state = "CALLING"
                            THEN {"start-service", "recall", "staff-pause", "no-show"}
                            ELSE {"finish-service", "staff-pause"}
  BY <1>1, CommandOnTicket
<1>. QED
  BY <1>2, <1>3, <1>6, <1>7, <1>8 DEF MeetsGuards, AT_COUNTER

LEMMA PriorityToggleMeetsGuards ==
  ASSUME TypeOK, NEW u, NEW command, NEW t \in Tickets, tickets[t].state \in {"WAITING", "PAUSED"},
         command.on = t, command.kind = PriorityToggle(t)
  PROVE  MeetsGuards(u, command)
<1>1. tickets[t].priority \in BOOLEAN
  BY PresentRow DEF Ticket, TicketState, ACTIVE_STATES
<1>. QED
  BY <1>1 DEF PriorityToggle, MeetsGuards

LEMMA QueueListsAreAccepted ==
  ASSUME RowsAreConsistent, PickedFits, NEW o \in Operators,
         NEW command \in QueueLists(o, picked[o])
  PROVE  MeetsGuards(o, command)
<1>. DEFINE c == picked[o]
<1>1. c \in Counters /\ counters[c].operator = o /\ counters[c].state # "PAUSED"
  BY DEF QueueLists, If, CanManageQueue, IsOwnCounter, PickedFits
<1>2. er.isDayOpen /\ counters[c].state \in {"ACTIVE", "CALLING", "IN_SERVICE"}
  BY <1>1, OwnedCounter DEF CounterState
<1>3. HasActiveCounter(o, None)
  BY <1>1, <1>2 DEF HasActiveCounter
<1>4. PICK t \in Tickets :
        \/ /\ tickets[t].state = "WAITING"
           /\ command \in OnTicket(t, {PriorityToggle(t), "staff-pause"})
        \/ /\ tickets[t].state = "PAUSED"
           /\ command \in OnTicket(t, {PriorityToggle(t), "staff-resume"})
  BY DEF QueueLists, If, Listed
<1>5. command.on = t
  BY <1>4, CommandOnTicket
<1>6. CASE command.kind = PriorityToggle(t)
  BY <1>4, <1>5, <1>6, PriorityToggleMeetsGuards DEF RowsAreConsistent
<1>7. CASE tickets[t].state = "WAITING" /\ command.kind = "staff-pause"
  <2>1. tickets[t].counter = None
    BY <1>7 DEF RowsAreConsistent, QueuedTicketsHoldNoCounter
  <2>. QED
    BY <1>2, <1>3, <1>5, <1>7, <2>1 DEF MeetsGuards
<1>8. CASE tickets[t].state = "PAUSED" /\ command.kind = "staff-resume"
  BY <1>2, <1>3, <1>5, <1>8 DEF MeetsGuards
<1>. QED
  BY <1>4, <1>6, <1>7, <1>8, CommandOnTicket

-----------------------------------------------------------------------------
(* The management page *)

LEMMA ActiveTicketMenuIsAccepted ==
  ASSUME RowsAreConsistent, NEW t \in Listed({"WAITING", "CALLING", "IN_SERVICE"}),
         NEW command \in ActiveTicketMenu(t)
  PROVE  Accepted(Staff, command)
<1>1. t \in Tickets /\ tickets[t].state \in {"WAITING", "CALLING", "IN_SERVICE"}
  BY DEF Listed
<1>2. \/ command \in OnTicket(t, {"staff-pause"})
      \/ tickets[t].state = "WAITING" /\ command \in OnTicket(t, {PriorityToggle(t)})
      \/ /\ tickets[t].state = "IN_SERVICE"
         /\ command \in OnTicket(t, {"correct-finish", "correct-cancel"})
      \/ command \in OnTicket(t, {"cancel"})
  BY DEF ActiveTicketMenu, If
<1>3. command.on = t
  BY <1>2, CommandOnTicket
<1>4. CASE command \in OnTicket(t, {"staff-pause"})
  <2>1. command.kind = "staff-pause"
    BY <1>4, CommandOnTicket
  <2>2. HasActiveCounter(Staff, tickets[t].counter)
    BY StaffAssumption DEF HasActiveCounter
  <2>. QED
    BY <1>1, <1>3, <2>1, <2>2 DEF Accepted, PausesOfClosedDay, MeetsGuards
<1>5. CASE tickets[t].state = "WAITING" /\ command \in OnTicket(t, {PriorityToggle(t)})
  <2>1. command.kind = PriorityToggle(t)
    BY <1>5, CommandOnTicket
  <2>. QED
    BY <1>1, <1>3, <1>5, <2>1, PriorityToggleMeetsGuards DEF RowsAreConsistent, Accepted
<1>6. CASE /\ tickets[t].state = "IN_SERVICE"
           /\ command \in OnTicket(t, {"correct-finish", "correct-cancel"})
  <2>1. command.kind \in {"correct-finish", "correct-cancel"}
    BY <1>6, CommandOnTicket
  <2>. QED
    BY <1>3, <1>6, <2>1 DEF Accepted, MeetsGuards
<1>7. CASE command \in OnTicket(t, {"cancel"})
  <2>1. command.kind = "cancel"
    BY <1>7, CommandOnTicket
  <2>. QED
    BY <1>1, <1>3, <2>1 DEF Accepted, MeetsGuards, ACTIVE_STATES
<1>. QED
  BY <1>2, <1>4, <1>5, <1>6, <1>7

LEMMA PausedTicketMenuIsAccepted ==
  ASSUME RowsAreConsistent, NEW t \in Listed({"PAUSED"}),
         NEW command \in OnTicket(t, {"staff-resume", PriorityToggle(t)})
  PROVE  Accepted(Staff, command)
<1>1. t \in Tickets /\ tickets[t].state = "PAUSED"
  BY DEF Listed
<1>2. command.on = t /\ command.kind \in {"staff-resume", PriorityToggle(t)}
  BY CommandOnTicket
<1>3. CASE command.kind = "staff-resume"
  <2>1. HasActiveCounter(Staff, None)
    BY StaffAssumption DEF HasActiveCounter
  <2>. QED
    BY <1>1, <1>2, <1>3, <2>1 DEF Accepted, PausesOfClosedDay, MeetsGuards
<1>4. CASE command.kind = PriorityToggle(t)
  BY <1>1, <1>2, <1>4, PriorityToggleMeetsGuards DEF RowsAreConsistent, Accepted
<1>. QED
  BY <1>2, <1>3, <1>4

LEMMA RestoreIsAccepted ==
  ASSUME RowsAreConsistent, er.isDayOpen, NEW t \in Listed({"NO_SHOW", "CANCELLED"}),
         CanRestore(t), NEW command \in OnTicket(t, {"restore"})
  PROVE  Accepted(Staff, command)
<1>1. command.on = t /\ command.kind = "restore" /\ t \in Tickets
  BY CommandOnTicket DEF Listed
<1>2. Restorable(tickets[t])
  BY DEF CanRestore, Restorable
<1>3. \/ queues[today].nextSequence < MaxSequence \/ queues[today].nextSequence = MaxSequence
  BY BoundAssumption DEF RowsAreConsistent, TypeOK, Queue
<1>4. ~HasActiveTicket(tickets[t].rep, {}) => ~HasActiveTicket(tickets[t].rep, {t})
  BY DEF HasActiveTicket
<1>. QED
  BY <1>1, <1>2, <1>3, <1>4 DEF Accepted, NothingToCall, MeetsGuards

LEMMA ManagerPageIsAccepted ==
  ASSUME RowsAreConsistent, NEW command \in ManagerPage
  PROVE  Accepted(Staff, command)
<1>1. \/ \E t \in Listed({"WAITING", "CALLING", "IN_SERVICE"}) : command \in ActiveTicketMenu(t)
      \/ \E t \in Listed({"PAUSED"}) : command \in OnTicket(t, {"staff-resume", PriorityToggle(t)})
      \/ \E t \in Listed({"NO_SHOW", "CANCELLED"}) :
           er.isDayOpen /\ CanRestore(t) /\ command \in OnTicket(t, {"restore"})
      \/ \E c \in Counters : command \in OnCounter(c, {"force-release"})
      \/ command \in OnDay
  BY DEF ManagerPage
<1>2. ASSUME NEW c \in Counters, command \in OnCounter(c, {"force-release"})
      PROVE  Accepted(Staff, command)
  <2>1. command.kind = "force-release"
    BY <1>2, CommandOnCounter
  <2>. QED
    BY <2>1 DEF Accepted, MeetsGuards
<1>3. ASSUME command \in OnDay
      PROVE  Accepted(Staff, command)
  BY <1>3 DEF OnDay, Accepted
<1>. QED
  BY <1>1, <1>2, <1>3, ActiveTicketMenuIsAccepted, PausedTicketMenuIsAccepted, RestoreIsAccepted


-----------------------------------------------------------------------------
(* An open ticket and the page of its operator *)

(* The commands that go on with a ticket at its counter, by its state. *)
GoesOn(t) == IF tickets[t].state = "CALLING" THEN "start-service" ELSE "finish-service"

(* A refresh shows the ticket with that command, on rows that meet the     *)
(* guards of the handler and name the counter it writes.                   *)
TicketIsShown(t) ==
  LET o == tickets[t].operator
      c == CounterAfterRefresh(o)
  IN /\ tickets[t].counter = c
     /\ \E command \in OperationPage(o, c) :
          command.on = t /\ command.kind = GoesOn(t) /\ MeetsGuards(o, command)

OpenTicketsAreShown == er.isDayOpen => \A t \in Listed(AT_COUNTER) : TicketIsShown(t)

LEMMA RefreshFindsTheTicket ==
  ASSUME RowsAreConsistent, er.isDayOpen, NEW t \in Listed(AT_COUNTER)
  PROVE  TicketIsShown(t)
<1>. DEFINE o == tickets[t].operator
            c == tickets[t].counter
<1>1. t \in Tickets /\ tickets[t].state \in AT_COUNTER
  BY DEF Listed
<1>2. c \in Counters /\ o \in Operators /\ c # None /\ o # None
  BY <1>1, NoneAssumption DEF RowsAreConsistent, OpenTicketsAreAssigned
<1>3. counters[c].operator = o
  <2>1. CounterServesItsTicket
    BY DEF RowsAreConsistent
  <2>2. counters[c] = [state |-> tickets[t].state, operator |-> o]
    BY <1>1, <2>1 DEF CounterServesItsTicket
  <2>. HIDE DEF c, o
  <2>. QED
    BY <2>2
<1>. HIDE DEF o, c
<1>4. \A d \in Counters : counters[d].operator = o => d = c
  BY <1>2, <1>3 DEF RowsAreConsistent, OwnersAreUnique
<1>5. CounterAfterRefresh(o) = c
  BY <1>2, <1>3, <1>4 DEF CounterAfterRefresh
<1>6. AssignedTo(t, o)
  BY <1>2 DEF AssignedTo, c, o
<1>7. t \in CurrentTicket(c)
  BY <1>1, <1>2 DEF CurrentTicket, c
<1>. DEFINE command == [kind |-> GoesOn(t), on |-> t, seen |-> tickets[t].state]
<1>8. command \in OperationPage(o, c)
  <2>. DEFINE kinds == IF tickets[t].state = "CALLING"
                         THEN {"start-service", "recall", "staff-pause", "no-show"}
                         ELSE {"finish-service", "staff-pause"}
  <2>1. GoesOn(t) \in kinds
    BY DEF GoesOn
  <2>. HIDE DEF kinds
  <2>2. command \in OnTicket(t, kinds)
    BY <2>1 DEF OnTicket
  <2>. HIDE DEF command
  <2>3. command \in CurrentTicketCard(c)
    BY <1>7, <2>2 DEF CurrentTicketCard, kinds
  <2>. QED
    BY <2>3 DEF OperationPage
<1>9. command.on = t /\ command.kind = GoesOn(t)
  OBVIOUS
<1>. HIDE DEF command
<1>10. MeetsGuards(o, command)
  BY <1>1, <1>6, <1>9 DEF GoesOn, MeetsGuards, AT_COUNTER
<1>. QED
  BY <1>5, <1>8, <1>9, <1>10 DEF TicketIsShown, o, c

-----------------------------------------------------------------------------
(* The theorems *)

(* What the pages remember and ask for stays within its types.             *)
THEOREM ScreensTypes == ScreensSpec => []ScreensTypeOK
BY ScreensAlways, ScreensInvTypes, PTL

(* No page, dialog left open or late request makes the desk do what        *)
(* TicketQueue does not: each command the server accepts is one of its     *)
(* handlers, for a user who has the role for it and rows that are there.   *)
THEOREM ScreensImplementQueue == ScreensSpec => Spec
<1>1. ScreensInit => Init
  BY DEF ScreensInit
<1>2. QED
  BY <1>1, ScreensAlways, PagesStep, PTL DEF ScreensSpec, Spec

(* So the rows behind the pages are always what the next request needs.    *)
THEOREM ScreensKeepTheRows == ScreensSpec => []RowsAreConsistent
BY ScreensImplementQueue, Consistency, PTL

(* While the day is open, whoever has a ticket called or in service finds  *)
(* it on her page after a refresh, whatever counter the page remembered,   *)
(* with the button that goes on with it, on a row that meets the guards of *)
(* the handler behind it (OperationPage.tsx, refreshOverview).  With       *)
(* ENABLED in their place, TLC checks OpenTicketIsOnHerPage.               *)
THEOREM HerTicketIsShown == ScreensSpec => []OpenTicketsAreShown
<1>1. RowsAreConsistent => OpenTicketsAreShown
  BY RefreshFindsTheTicket DEF OpenTicketsAreShown
<1>2. QED
  BY <1>1, ScreensKeepTheRows, PTL

(* Whatever a page offers on fresh data meets the guards of the handler    *)
(* behind it: the operation page (canCallNext, canManageQueue) and the     *)
(* management page (canRestore, the menus) repeat the rules of the         *)
(* services, and never wider, but for the cases Accepted names.  With      *)
(* ENABLED in place of the guards, TLC checks OfferedMeansAccepted.        *)
THEOREM OffersMeetGuards == ScreensSpec => []OfferedMeetsGuards
<1>1. RowsAreConsistent /\ FreeCountersAreShut /\ PickedFits => OfferedMeetsGuards
  <2>. SUFFICES ASSUME RowsAreConsistent, FreeCountersAreShut, PickedFits,
                       NEW u \in Users, u = Staff \/ AtHerCounter(u), NEW command \in Page(u)
                PROVE  Accepted(u, command)
    BY DEF OfferedMeetsGuards
  <2>1. CASE u = Staff
    BY <2>1, ManagerPageIsAccepted DEF Page
  <2>2. CASE u # Staff
    <3>1. u \in Operators /\ AtHerCounter(u) /\ command \in OperationPage(u, picked[u])
      BY <2>2 DEF Users, Page
    <3>. QED
      BY <3>1, CounterCardIsAccepted, CurrentTicketIsAccepted, QueueListsAreAccepted
         DEF OperationPage, Accepted
  <2>. QED
    BY <2>1, <2>2
<1>2. ScreensSpec => [](RowsAreConsistent /\ FreeCountersAreShut)
  BY ScreensImplementQueue, Consistency, FreeCounters, PTL
<1>. QED
  BY <1>1, <1>2, ScreensAlways, PTL DEF ScreensInv

===============================================================================
