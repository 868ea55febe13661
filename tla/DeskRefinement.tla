---------------------------- MODULE DeskRefinement ----------------------------
(***************************************************************************)
(* TicketQueue implements ServiceDesk, and what its timeouts must bring    *)
(* about.                                                                  *)
(***************************************************************************)
EXTENDS TicketQueue

LifeOf(ticket) ==
  IF ticket.state = "CANCELLED" /\ ticket.started THEN "VOID" ELSE ticket.state

ServerOf(ticket) == IF ticket.state \in AT_COUNTER THEN ticket.operator ELSE None

Desk == INSTANCE ServiceDesk WITH
  life <- [t \in Tickets |-> LifeOf(tickets[t])],
  holder <- [t \in Tickets |-> tickets[t].rep],
  server <- [t \in Tickets |-> ServerOf(tickets[t])]

(* Every handler, whatever rows it writes, is one move of the desk or none:*)
(* a representative joins only without an active ticket, an operator calls *)
(* only when she serves nobody, a ticket whose service ended stays ended.  *)
ImplementsDesk == Desk!DeskSpec

IsOverdue(t, state) == tickets[t].state = state /\ tickets[t].overdue

(* A call whose tolerance has run out comes to an end: the counter is not  *)
(* stuck in CALLING when the operator has gone.                            *)
OverdueCallEnds ==
  \A t \in Tickets : IsOverdue(t, "CALLING") ~> ~IsOverdue(t, "CALLING")

(* A pause whose tolerance has run out ends, in the line or by a cancel:   *)
(* nobody waits paused for ever.  (Unless the bound MaxSequence is reached:*)
(* the code has no such limit.)                                            *)
OverduePauseEnds ==
  \A t \in Tickets :
    IsOverdue(t, "PAUSED") ~>
      ~IsOverdue(t, "PAUSED") \/ queues[today].nextSequence = MaxSequence

==============================================================================
