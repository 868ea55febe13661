------------------------------ MODULE BoardViews ------------------------------
(***************************************************************************)
(* What the TV and the dashboards of the staff show of the rows, and what  *)
(* each handler of TicketQueue announces to them once it has committed.    *)
(***************************************************************************)
EXTENDS DeskRefinement

InState(state) == {t \in Tickets : tickets[t].state = state}

\* Fault: the TV lists by place alone, the preferential line included.
FirstOnTheTVByPlace ==
  {t \in InState("WAITING") :
     \A u \in InState("WAITING") : tickets[t].position <= tickets[u].position}

(* The TV lists the waiting tickets of the ER, of any day; equal places of *)
(* two days come in any order.                                             *)
FirstOnTheTV ==
  {t \in InState("WAITING") :
     \A u \in InState("WAITING") : ~Precedes(tickets[u], tickets[t])}

(* PanelService.getState, list by list.                                    *)
PanelParts == {"day", "calling", "inService", "waiting"}

OnPanel(part) ==
  CASE part = "day" -> er.isDayOpen
    [] part = "calling" -> {<<t, tickets[t].counter>> : t \in InState("CALLING")}
    [] part = "inService" -> {<<t, tickets[t].counter>> : t \in InState("IN_SERVICE")}
    [] part = "waiting" ->
         {<<t, tickets[t].priority, tickets[t].position>> : t \in InState("WAITING")}

(* QueueService.getQueueOverview: the queue of today and the counters.     *)
DashboardParts == {"day", "tickets", "counters"}

OnDashboard(part) ==
  CASE part = "day" -> er.isDayOpen
    [] part = "tickets" ->
         {<<t, tickets[t].state, tickets[t].priority, tickets[t].position,
            tickets[t].counter>> : t \in {u \in Tickets : tickets[u].day = today}}
    [] part = "counters" -> counters

-----------------------------------------------------------------------------
(* Events *)

TicketEvents ==
  {"ticket.created", "ticket.restored", "ticket.called", "ticket.service_started",
   "ticket.service_finished", "ticket.no_show", "ticket.cancelled", "ticket.paused",
   "ticket.priority_changed"}
CounterEvents == {"counter.opened", "counter.paused", "counter.resumed", "counter.closed"}
DayEvents == {"day.opened", "day.closed"}

\* Fault: the TV does not listen to what reorders the line.
PanelEventsButPriority == (TicketEvents \ {"ticket.priority_changed"}) \cup DayEvents

PanelEvents == TicketEvents \cup DayEvents

DashboardEvents == TicketEvents \cup CounterEvents \cup DayEvents

OfReleased(open) ==
  IF open = None THEN {}
  ELSE IF tickets[open].state = "IN_SERVICE" THEN {"ticket.service_finished"}
  ELSE {"ticket.no_show"}

TicketAnnounces(t, event) ==
  CASE event = "ticket.created" ->
         \/ \E rep \in Reps, priority \in BOOLEAN : Create(t, rep, priority)
         \/ ResumeTicket(t) \/ ExpirePause(t)
         \/ \E user \in Operators \cup {Staff} : StaffResume(t, user)
    [] event = "ticket.restored" -> Restore(t)
    [] event = "ticket.called" -> \E o \in Operators : Recall(t, o)
    [] event = "ticket.service_started" ->
         AdvanceToInService(t) \/ \E o \in Operators : StartService(t, o)
    [] event = "ticket.service_finished" ->
         \/ CompleteService(t) \/ Correct(t, "FINISHED")
         \/ \E o \in Operators : FinishService(t, o)
    [] event = "ticket.no_show" -> ExpireCall(t) \/ \E o \in Operators : NoShow(t, o)
    [] event = "ticket.cancelled" -> SelfCancel(t) \/ Cancel(t) \/ Correct(t, "CANCELLED")
    [] event = "ticket.paused" ->
         PauseTicket(t) \/ \E user \in Operators \cup {Staff} : StaffPause(t, user)
    [] event = "ticket.priority_changed" -> \E p \in BOOLEAN : SetTicketPriority(t, p)

CounterAnnounces(c, o, event) ==
  CASE event = "ticket.called" -> CallNext(c, o)
    [] event = "counter.opened" -> OpenCounter(c, o)
    [] event = "counter.paused" -> PauseCounterTx(c, o)
    [] event = "counter.resumed" -> ResumeCounterTx(c, o)
    [] event = "counter.closed" -> CloseCounter(c, o)
    [] OTHER -> FALSE

(* The handler that ran announces one of these events; a forced release    *)
(* announces two.                                                          *)
AnnouncedTo(listened) ==
  \/ \E t \in Tickets : \E e \in TicketEvents \cap listened : TicketAnnounces(t, e)
  \/ \E c \in Counters, o \in Operators :
       \E e \in (CounterEvents \cup {"ticket.called"}) \cap listened : CounterAnnounces(c, o, e)
  \/ \E c \in Counters : \E open \in FirstOpenTicket(c) :
       /\ ({"counter.closed"} \cup OfReleased(open)) \cap listened # {}
       /\ ForceReleaseTx(c, open, IF open = None THEN None ELSE tickets[open].state)
  \/ "day.opened" \in listened /\ OpenDay
  \/ "day.closed" \in listened /\ CloseDay

(* Once the day is open, the ticket the TV shows first is the one the next *)
(* call takes: no ticket of another day stands before it.                  *)
TVLeadsWithTheNextCall ==
  er.isDayOpen /\ er.dayOpenedOn = today => \A t \in FirstOnTheTV : IsHead(t, today)

==============================================================================
