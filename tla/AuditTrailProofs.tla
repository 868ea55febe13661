--------------------------- MODULE AuditTrailProofs ---------------------------
(***************************************************************************)
(* The audit trail balances, and the metrics of a date agree with the      *)
(* panel, for any tickets, representatives, counters, operators and dates: *)
(* what each handler writes to the trail tells what it does to the         *)
(* tickets.  It does so while a billing system acts between them, and what *)
(* that system is refused has not been done.                               *)
(***************************************************************************)
EXTENDS IntegrationClient, TicketQueueProofs

-----------------------------------------------------------------------------
(* What a row tells *)

EventsIn(rows, t) == TICKET_EVENTS \cap {row[2] : row \in {r \in rows : r[1] = t}}

(* The events E of a ticket tell that its row went from "from" to "to".    *)
(* Pausing and coming back to the line have no event here.                 *)
Tells(E, from, to) ==
  \/ /\ E = {}
     /\ \/ to.state = from.state /\ to.started = from.started
        \/ from.state \in ACTIVE_STATES /\ to.state \in {"WAITING", "PAUSED"}
  \/ /\ \E e \in ENTRY_EVENTS : E = {e}
     /\ from.state \in {"ABSENT", "NO_SHOW", "CANCELLED"} /\ to.state = "WAITING"
  \/ E = {"ticket_called"} /\ from.state = "WAITING" /\ to.state = "CALLING"
  \/ E = {"service_started"} /\ from.state = "CALLING" /\ to.state = "IN_SERVICE" /\ to.started
  \/ /\ \E e \in FINISH_EVENTS : E = {e}
     /\ from.state = "IN_SERVICE" /\ to.state = "FINISHED" /\ to.started = from.started
  \/ /\ \E e \in EXIT_EVENTS \ FINISH_EVENTS : E = {e}
     /\ from.state \in ACTIVE_STATES /\ to.state \in {"CANCELLED", "NO_SHOW"}

Told(rows, t) == Tells(EventsIn(rows, t), tickets[t], tickets'[t])

(* What today's rows hold of a ticket in the state it is in: of one that   *)
(* joined the line today its entry, its call and its wait as far as it has *)
(* come, and of one in service its start just when that is of today.       *)
HasClocks(t) ==
  /\ t \in servedToday => tickets[t].started /\ "serviceStartedAt" \in clocks[t]
  /\ tickets[t].state = "IN_SERVICE" /\ "serviceStartedAt" \in clocks[t] => t \in servedToday
  /\ t \in enteredToday => "waitingSince" \in clocks[t]
  /\ t \in enteredToday /\ tickets[t].state \in {"CALLING", "IN_SERVICE", "FINISHED"} =>
       "calledAt" \in clocks[t]
  /\ t \in enteredToday /\ tickets[t].state \in {"IN_SERVICE", "FINISHED"} =>
       "waitCounted" \in clocks[t]

ClocksFollow == \A t \in Tickets : HasClocks(t)
SamplesFollow == \A t \in Tickets : samples[t] = IF t \in AveragedByPanel THEN 1 ELSE 0

TrailInv == TrailBalances /\ ClocksFollow /\ SamplesFollow

-----------------------------------------------------------------------------
(* Rows that tell what happened keep the figures right *)

LEMMA ToldBalances ==
  ASSUME TrailBalances, NEW rows, Writes(rows), NEW t \in Tickets, Told(rows, t)
  PROVE  within'[t] = IF tickets'[t].state \in ACTIVE_STATES THEN 1 ELSE 0
<1>. DEFINE E == EventsIn(rows, t)
<1>1. within[t] = IF tickets[t].state \in ACTIVE_STATES THEN 1 ELSE 0
  BY DEF TrailBalances
<1>2. within'[t] = within[t] + (IF E \cap ENTRY_EVENTS # {} THEN 1 ELSE 0)
                             - (IF E \cap EXIT_EVENTS # {} THEN 1 ELSE 0)
  BY DEF Writes, Log, EventsIn
<1>3. Tells(E, tickets[t], tickets'[t])
  BY DEF Told
<1>. HIDE DEF E
<1>. QED
  BY <1>1, <1>2, <1>3
     DEF Tells, ACTIVE_STATES, ENTRY_EVENTS, EXIT_EVENTS, FINISH_EVENTS, NO_SHOW_EVENTS

(* What a step makes of the dates of one ticket. *)
LEMMA DatesOf ==
  ASSUME Dates, NEW t \in Tickets
  PROVE  /\ t \in servedToday' <=>
              /\ tickets'[t].started
              /\ \/ t \in servedToday
                 \/ tickets'[t].state = "IN_SERVICE" /\ tickets[t].state # "IN_SERVICE"
         /\ t \in enteredToday' <=>
              \/ t \in enteredToday
              \/ tickets'[t].state = "WAITING" /\ tickets[t].state \notin ACTIVE_STATES
BY DEF Dates

LEMMA ToldKeepsClocks ==
  ASSUME ClocksFollow, NEW rows, Writes(rows), NEW t \in Tickets, Told(rows, t)
  PROVE  HasClocks(t)'
<1>. DEFINE E == EventsIn(rows, t)  s == tickets[t].state  r == tickets'[t].state
<1>1. HasClocks(t)
  BY DEF ClocksFollow
<1>2. clocks'[t] = clocks[t] \cup UNION {ClocksAfter(t, e) : e \in E}
  BY DEF Writes, Log, EventsIn
<1>3. Tells(E, tickets[t], tickets'[t])
  BY DEF Told
<1>4. /\ t \in servedToday' <=>
           tickets'[t].started /\ (t \in servedToday \/ (r = "IN_SERVICE" /\ s # "IN_SERVICE"))
      /\ t \in enteredToday' <=> t \in enteredToday \/ (r = "WAITING" /\ s \notin ACTIVE_STATES)
  BY DatesOf DEF Writes
<1>. HIDE DEF E
<1>5. CASE E = {}
  BY <1>1, <1>2, <1>3, <1>4, <1>5 DEF Tells, HasClocks, ACTIVE_STATES
<1>6. ASSUME NEW e, E = {e}
      PROVE  clocks'[t] = clocks[t] \cup ClocksAfter(t, e)
  BY <1>2, <1>6
<1>7. CASE \E e \in ENTRY_EVENTS : E = {e}
  <2>1. PICK e \in ENTRY_EVENTS : E = {e}
    BY <1>7
  <2>2. clocks'[t] = clocks[t] \cup {"waitingSince"}
    BY <1>6, <2>1 DEF ClocksAfter, ENTRY_EVENTS
  <2>3. r = "WAITING"
    BY <1>3, <2>1 DEF Tells, ENTRY_EVENTS, EXIT_EVENTS, FINISH_EVENTS, NO_SHOW_EVENTS
  <2>. QED
    BY <1>1, <1>4, <2>2, <2>3 DEF HasClocks
<1>8. CASE E = {"ticket_called"}
  <2>1. clocks'[t] = clocks[t] \cup {"calledAt"}
    BY <1>6, <1>8 DEF ClocksAfter, ENTRY_EVENTS
  <2>2. s = "WAITING" /\ r = "CALLING"
    BY <1>3, <1>8 DEF Tells, ENTRY_EVENTS, EXIT_EVENTS, FINISH_EVENTS, NO_SHOW_EVENTS
  <2>. QED
    BY <1>1, <1>4, <2>1, <2>2 DEF HasClocks
<1>9. CASE E = {"service_started"}
  <2>1. s = "CALLING" /\ r = "IN_SERVICE" /\ tickets'[t].started
    BY <1>3, <1>9 DEF Tells, ENTRY_EVENTS, EXIT_EVENTS, FINISH_EVENTS, NO_SHOW_EVENTS
  <2>2. clocks'[t] = clocks[t] \cup {"serviceStartedAt"}
                       \cup (IF "waitingSince" \in clocks[t] THEN {"waitCounted"} ELSE {})
    BY <1>6, <1>9 DEF ClocksAfter, ENTRY_EVENTS
  <2>. QED
    BY <1>1, <1>4, <2>1, <2>2 DEF HasClocks
<1>10. CASE \E e \in EXIT_EVENTS : E = {e}
  <2>1. PICK e \in EXIT_EVENTS : E = {e}
    BY <1>10
  <2>2. clocks'[t] = clocks[t]
    BY <1>6, <2>1
       DEF ClocksAfter, ENTRY_EVENTS, EXIT_EVENTS, FINISH_EVENTS, NO_SHOW_EVENTS
  <2>3. \/ s = "IN_SERVICE" /\ r = "FINISHED"
        \/ s \in ACTIVE_STATES /\ r \in {"CANCELLED", "NO_SHOW"}
    BY <1>3, <2>1 DEF Tells, ENTRY_EVENTS, EXIT_EVENTS, FINISH_EVENTS, NO_SHOW_EVENTS
  <2>. QED
    BY <1>1, <1>4, <2>2, <2>3 DEF HasClocks, ACTIVE_STATES
<1>11. FINISH_EVENTS \subseteq EXIT_EVENTS
  BY DEF EXIT_EVENTS
<1>. HIDE DEF FINISH_EVENTS, EXIT_EVENTS, ENTRY_EVENTS, s, r
<1>. QED
  BY <1>3, <1>5, <1>7, <1>8, <1>9, <1>10, <1>11 DEF Tells

LEMMA ToldKeepsSamples ==
  ASSUME ClocksFollow, SamplesFollow, NEW rows, Writes(rows), NEW t \in Tickets, Told(rows, t)
  PROVE  samples'[t] = IF t \in AveragedByPanel' THEN 1 ELSE 0
<1>. DEFINE E == EventsIn(rows, t)
<1>1. samples[t] = IF tickets[t].state = "FINISHED" /\ t \in servedToday THEN 1 ELSE 0
  BY DEF SamplesFollow, AveragedByPanel
<1>2. /\ t \in servedToday => tickets[t].started /\ "serviceStartedAt" \in clocks[t]
      /\ tickets[t].state = "IN_SERVICE" /\ "serviceStartedAt" \in clocks[t] => t \in servedToday
  BY DEF ClocksFollow, HasClocks
<1>3. samples'[t] = IF E \cap FINISH_EVENTS # {} /\ "serviceStartedAt" \in clocks[t]
                      THEN samples[t] + 1 ELSE samples[t]
  BY DEF Writes, Log, EventsIn
<1>4. Tells(E, tickets[t], tickets'[t])
  BY DEF Told
<1>5. t \in AveragedByPanel' <=>
        tickets'[t].state = "FINISHED" /\ tickets'[t].started /\ t \in servedToday
  BY DatesOf DEF Writes, AveragedByPanel
<1>. HIDE DEF E
<1>. QED
  BY <1>1, <1>2, <1>3, <1>4, <1>5
     DEF Tells, ACTIVE_STATES, ENTRY_EVENTS, EXIT_EVENTS, FINISH_EVENTS, NO_SHOW_EVENTS

LEMMA ToldKeepsTrail ==
  ASSUME TrailInv, NEW rows, Writes(rows), \A t \in Tickets : Told(rows, t)
  PROVE  TrailInv'
<1>1. TrailBalances'
  BY ToldBalances DEF TrailInv, TrailBalances
<1>2. ClocksFollow'
  BY ToldKeepsClocks DEF TrailInv, ClocksFollow
<1>3. SamplesFollow'
  BY ToldKeepsSamples DEF TrailInv, SamplesFollow
<1>. QED
  BY <1>1, <1>2, <1>3 DEF TrailInv

(* A date begins with no rows and nothing served: nothing is measured yet. *)
LEMMA NextWindowKeepsTrail ==
  ASSUME TrailInv, Midnight, NextWindow
  PROVE  TrailInv'
<1>1. TrailBalances'
  BY DEF TrailInv, TrailBalances, Midnight, NextWindow
<1>2. ClocksFollow'
  BY DEF ClocksFollow, HasClocks, NextWindow
<1>3. SamplesFollow'
  BY DEF SamplesFollow, AveragedByPanel, NextWindow
<1>. QED
  BY <1>1, <1>2, <1>3 DEF TrailInv

-----------------------------------------------------------------------------
(* Which rows tell what *)

(* The same row about every ticket of T, which alone are written. *)
LEMMA SameRowTold ==
  ASSUME NEW T \in SUBSET Tickets, NEW event \in TICKET_EVENTS,
         \A u \in Tickets \ T : tickets'[u] = tickets[u],
         \A u \in T : Tells({event}, tickets[u], tickets'[u])
  PROVE  \A u \in Tickets : Told({<<t, event>> : t \in T}, u)
<1>. DEFINE rows == {<<t, event>> : t \in T}
<1>1. ASSUME NEW u \in T
      PROVE  Told(rows, u)
  <2>1. EventsIn(rows, u) = {event}
    <3>1. {r \in rows : r[1] = u} = {<<u, event>>}
      OBVIOUS
    <3>2. {row[2] : row \in {<<u, event>>}} = {event}
      OBVIOUS
    <3>. QED
      BY <3>1, <3>2 DEF EventsIn
  <2>. QED
    BY <2>1 DEF Told
<1>2. ASSUME NEW u \in Tickets \ T
      PROVE  Told(rows, u)
  <2>1. EventsIn(rows, u) = {}
    <3>1. {r \in rows : r[1] = u} = {}
      OBVIOUS
    <3>. QED
      BY <3>1 DEF EventsIn
  <2>. QED
    BY <2>1 DEF Told, Tells
<1>. QED
  BY <1>1, <1>2

(* t, which alone is written, goes from a state of A to one of B. *)
Moves(t, A, B) ==
  /\ \A u \in Tickets \ {t} : tickets'[u] = tickets[u]
  /\ tickets[t].state \in A /\ tickets'[t].state \in B

(* t alone is written, and stays in its state with the start of its service. *)
StaysIn(t) ==
  /\ \A u \in Tickets \ {t} : tickets'[u] = tickets[u]
  /\ tickets'[t].state = tickets[t].state /\ tickets'[t].started = tickets[t].started

LEMMA RowKeepsTrail ==
  ASSUME TrailInv, NEW t \in Tickets, NEW event \in TICKET_EVENTS, Writes({<<t, event>>}),
         \A u \in Tickets \ {t} : tickets'[u] = tickets[u],
         Tells({event}, tickets[t], tickets'[t])
  PROVE  TrailInv'
<1>1. {<<u, event>> : u \in {t}} = {<<t, event>>}
  OBVIOUS
<1>2. \A u \in Tickets : Told({<<u0, event>> : u0 \in {t}}, u)
  BY SameRowTold
<1>. QED
  BY <1>1, <1>2, ToldKeepsTrail

LEMMA NoRowKeepsTrail ==
  ASSUME TrailInv, Writes({}), NEW t \in Tickets,
         \/ Moves(t, ACTIVE_STATES, {"WAITING", "PAUSED"})
         \/ StaysIn(t)
  PROVE  TrailInv'
<1>1. \A u \in Tickets : EventsIn({}, u) = {}
  BY DEF EventsIn
<1>2. \A u \in Tickets : Told({}, u)
  BY <1>1 DEF Told, Tells, Moves, StaysIn
<1>. QED
  BY <1>2, ToldKeepsTrail

-----------------------------------------------------------------------------
(* What each handler makes of the ticket it writes *)

LEMMA EntersTheLine ==
  ASSUME TypeOK, NEW t \in Tickets,
         (\E rep \in Reps, priority \in BOOLEAN : Create(t, rep, priority)) \/ Restore(t)
  PROVE  Moves(t, {"ABSENT", "NO_SHOW", "CANCELLED"}, {"WAITING"})
<1>1. CASE \E rep \in Reps, priority \in BOOLEAN : Create(t, rep, priority)
  <2>1. PICK rep \in Reps, priority \in BOOLEAN : Create(t, rep, priority)
    BY <1>1
  <2>. QED
    BY <2>1 DEF Create, InsertTicket, SetTicket, NoRow, Moves, TypeOK
<1>2. CASE Restore(t)
  <2>1. tickets[t] \in Ticket /\ Restorable(tickets[t])
    BY <1>2, PresentRow
       DEF Restore, RestoreTx, Restorable, TypeOK, TicketState
  <2>. QED
    BY <1>2, <2>1 DEF Restore, RestoreTx, Restorable, SetTicket, Moves, TypeOK, Ticket
<1>. QED
  BY <1>1, <1>2

LEMMA StartsService ==
  ASSUME TypeOK, NEW t \in Tickets, NEW pre, NEW restrictTo,
         TransitionToInService(t, pre, restrictTo)
  PROVE  Moves(t, {"CALLING"}, {"IN_SERVICE"}) /\ tickets'[t].started
<1>1. tickets[t] \in Ticket
  BY PresentRow DEF TransitionToInService, TypeOK, TicketState, ACTIVE_STATES
<1>. QED
  BY <1>1 DEF TransitionToInService, SetTicket, Moves, TypeOK, Ticket

LEMMA EndsService ==
  ASSUME TypeOK, NEW t \in Tickets, NEW pre, NEW restrictTo,
         TransitionToFinished(t, pre, restrictTo) \/ CorrectTx(t, pre, "FINISHED")
  PROVE  Moves(t, {"IN_SERVICE"}, {"FINISHED"}) /\ tickets'[t].started = tickets[t].started
<1>1. tickets[t] \in Ticket /\ tickets[t].state = "IN_SERVICE"
  BY PresentRow DEF TransitionToFinished, CorrectTx, TypeOK, TicketState, ACTIVE_STATES
<1>. QED
  BY <1>1 DEF TransitionToFinished, CorrectTx, SetTicket, Moves, TypeOK, Ticket

LEMMA CancelsTicket ==
  ASSUME TypeOK, NEW t \in Tickets,
         SelfCancelTx(t) \/ CancelTx(t) \/ CorrectTx(t, tickets[t], "CANCELLED")
  PROVE  Moves(t, ACTIVE_STATES, {"CANCELLED"})
<1>1. tickets[t] \in Ticket /\ tickets[t].state \in ACTIVE_STATES
  BY PresentRow DEF SelfCancelTx, CancelTx, CorrectTx, TypeOK, TicketState,
     ACTIVE_STATES
<1>. QED
  BY <1>1 DEF SelfCancelTx, CancelTx, CorrectTx, SetTicket, Moves, TypeOK,
     Ticket

LEMMA MissesCall ==
  ASSUME TypeOK, NEW t \in Tickets, NEW o,
         MarkNoShow(t, tickets[t], o) \/ ExpireCallTimeout(t, tickets[t])
  PROVE  Moves(t, ACTIVE_STATES, {"NO_SHOW"})
<1>1. tickets[t] \in Ticket /\ tickets[t].state \in ACTIVE_STATES
  BY PresentRow DEF MarkNoShow, ExpireCallTimeout, TypeOK, TicketState, ACTIVE_STATES
<1>. QED
  BY <1>1 DEF MarkNoShow, ExpireCallTimeout, SetTicket, Moves, TypeOK, Ticket

(* The handlers without rows of these kinds. *)
LEMMA StaysInLine ==
  ASSUME TypeOK, NEW t \in Tickets,
         \/ PauseTicket(t) \/ ResumeTicket(t) \/ ExpirePause(t)
         \/ \E user : StaffPause(t, user) \/ StaffResume(t, user)
         \/ \E p : SetTicketPriority(t, p)
  PROVE  Moves(t, ACTIVE_STATES, {"WAITING", "PAUSED"})
<1>1. tickets[t] \in Ticket /\ tickets[t].state \in ACTIVE_STATES
  BY PresentRow DEF PauseTicket, ResumeTicket, StaffPause, StaffResume, SetTicketPriority,
     ExpirePause, PauseTx, ResumeInPlace, SetTicketPriorityTx, TypeOK, TicketState,
     ACTIVE_STATES
<1>. USE <1>1 DEF SetTicket, Moves, TypeOK, Ticket, ACTIVE_STATES
<1>2. CASE PauseTicket(t)
  BY <1>2 DEF PauseTicket, PauseTx
<1>3. CASE ResumeInPlace(t)
  BY <1>3 DEF ResumeInPlace
<1>4. CASE \E user : StaffPause(t, user)
  BY <1>4 DEF StaffPause, StaffPauseTx
<1>5. CASE \E p : SetTicketPriority(t, p)
  BY <1>5 DEF SetTicketPriority, SetTicketPriorityTx
<1>. HIDE DEF SetTicket
<1>6. CASE ExpirePause(t)
  <2>1. tickets' = [tickets EXCEPT ![t] = [tickets[t] EXCEPT
          !.state = "WAITING", !.day = today, !.position = NextPosition(today),
          !.code = GenerateCode(NextPosition(today)), !.overdue = FALSE]]
    BY <1>6 DEF ExpirePause, ResumeToEndOfQueue, SetTicket
  <2>. HIDE DEF NextPosition, GenerateCode
  <2>. QED
    BY <2>1
<1>. QED
  BY <1>2, <1>3, <1>4, <1>5, <1>6 DEF ResumeTicket, StaffResume

LEMMA RecallKeepsState ==
  ASSUME TypeOK, NEW t \in Tickets, NEW o, Recall(t, o)
  PROVE  StaysIn(t)
<1>1. tickets[t] \in Ticket
  BY PresentRow DEF Recall, RecallTx, TypeOK, TicketState, ACTIVE_STATES
<1>. QED
  BY <1>1 DEF Recall, RecallTx, SetTicket, StaysIn, TypeOK, Ticket

LEMMA ToleranceKeepsState ==
  ASSUME TypeOK, NEW t \in Tickets, ToleranceElapses(t)
  PROVE  StaysIn(t)
<1>1. tickets[t] \in Ticket
  BY PresentRow DEF ToleranceElapses, TypeOK, TicketState, ACTIVE_STATES
<1>. QED
  BY <1>1 DEF ToleranceElapses, SetTicket, StaysIn, TypeOK, Ticket

-----------------------------------------------------------------------------
(* Every step *)

LEMMA TicketRowKeepsTrail ==
  ASSUME TypeOK, TrailInv,
         NEW t \in Tickets, NEW event \in RowKinds, TicketRow(t, event), Writes({<<t, event>>})
  PROVE  TrailInv'
<1>1. CASE event \in {"ticket_created", "ticket_restored"}
  <2>1. Moves(t, {"ABSENT", "NO_SHOW", "CANCELLED"}, {"WAITING"})
    BY <1>1, EntersTheLine DEF TicketRow
  <2>2. event \in TICKET_EVENTS
    BY <1>1 DEF TICKET_EVENTS, ENTRY_EVENTS, EXIT_EVENTS, NO_SHOW_EVENTS, FINISH_EVENTS
  <2>3. Tells({event}, tickets[t], tickets'[t])
    BY <1>1, <2>1 DEF Moves, Tells, ENTRY_EVENTS, EXIT_EVENTS, NO_SHOW_EVENTS, FINISH_EVENTS
  <2>. QED
    BY <2>1, <2>2, <2>3, RowKeepsTrail DEF Moves
<1>2. CASE event = "service_started"
  <2>1. Moves(t, {"CALLING"}, {"IN_SERVICE"}) /\ tickets'[t].started
    BY <1>2, StartsService DEF TicketRow, AdvanceToInService, StartService
  <2>2. event \in TICKET_EVENTS
    BY <1>2 DEF TICKET_EVENTS, ENTRY_EVENTS, EXIT_EVENTS, NO_SHOW_EVENTS, FINISH_EVENTS
  <2>3. Tells({event}, tickets[t], tickets'[t])
    BY <1>2, <2>1 DEF Moves, Tells, ENTRY_EVENTS, EXIT_EVENTS, NO_SHOW_EVENTS, FINISH_EVENTS
  <2>. QED
    BY <2>1, <2>2, <2>3, RowKeepsTrail DEF Moves
<1>3. CASE event = "service_finished"
  <2>1. Moves(t, {"IN_SERVICE"}, {"FINISHED"}) /\ tickets'[t].started = tickets[t].started
    BY <1>3, EndsService DEF TicketRow, CompleteService, FinishService, Correct
  <2>2. event \in TICKET_EVENTS
    BY <1>3 DEF TICKET_EVENTS, ENTRY_EVENTS, EXIT_EVENTS, NO_SHOW_EVENTS, FINISH_EVENTS
  <2>3. Tells({event}, tickets[t], tickets'[t])
    BY <1>3, <2>1 DEF Moves, Tells, ENTRY_EVENTS, EXIT_EVENTS, NO_SHOW_EVENTS, FINISH_EVENTS
  <2>. QED
    BY <2>1, <2>2, <2>3, RowKeepsTrail DEF Moves
<1>4. CASE event = "ticket_cancelled"
  <2>1. Moves(t, ACTIVE_STATES, {"CANCELLED"})
    BY <1>4, CancelsTicket DEF TicketRow, SelfCancel, Cancel, Correct
  <2>2. event \in TICKET_EVENTS
    BY <1>4 DEF TICKET_EVENTS, ENTRY_EVENTS, EXIT_EVENTS, NO_SHOW_EVENTS, FINISH_EVENTS
  <2>3. Tells({event}, tickets[t], tickets'[t])
    BY <1>4, <2>1 DEF Moves, Tells, ENTRY_EVENTS, EXIT_EVENTS, NO_SHOW_EVENTS, FINISH_EVENTS
  <2>. QED
    BY <2>1, <2>2, <2>3, RowKeepsTrail DEF Moves
<1>5. CASE event \in {"ticket_marked_no_show", "ticket_auto_no_show"}
  <2>1. Moves(t, ACTIVE_STATES, {"NO_SHOW"})
    BY <1>5, MissesCall DEF TicketRow, NoShow, ExpireCall
  <2>2. event \in TICKET_EVENTS
    BY <1>5 DEF TICKET_EVENTS, ENTRY_EVENTS, EXIT_EVENTS, NO_SHOW_EVENTS, FINISH_EVENTS
  <2>3. Tells({event}, tickets[t], tickets'[t])
    BY <1>5, <2>1 DEF Moves, Tells, ENTRY_EVENTS, EXIT_EVENTS, NO_SHOW_EVENTS, FINISH_EVENTS
  <2>. QED
    BY <2>1, <2>2, <2>3, RowKeepsTrail DEF Moves
<1>. QED
  BY <1>1, <1>2, <1>3, <1>4, <1>5 DEF RowKinds

LEMMA CallRowKeepsTrail ==
  ASSUME TypeOK, TrailInv, NEW c \in Counters, NEW o \in Operators, CallRow(c, o)
  PROVE  TrailInv'
<1>1. PICK t \in Tickets : IsHead(t, today) /\ CallTicket(t, c, o)
  BY DEF CallRow, CallNext
<1>2. tickets[t] \in Ticket /\ tickets[t].state = "WAITING"
  BY <1>1, PresentRow DEF IsHead, Waiting, TypeOK, TicketState, ACTIVE_STATES
<1>3. Moves(t, {"WAITING"}, {"CALLING"})
  BY <1>1, <1>2 DEF CallTicket, SetTicket, Moves, TypeOK, Ticket
<1>4. {u \in Tickets : tickets'[u].state # tickets[u].state} = {t}
  BY <1>3 DEF Moves
<1>5. Writes({<<u, "ticket_called">> : u \in {t}})
  BY <1>4 DEF CallRow
<1>6. {<<u, "ticket_called">> : u \in {t}} = {<<t, "ticket_called">>}
  OBVIOUS
<1>7. Tells({"ticket_called"}, tickets[t], tickets'[t])
  BY <1>3 DEF Moves, Tells
<1>8. "ticket_called" \in TICKET_EVENTS
  BY DEF TICKET_EVENTS
<1>9. Writes({<<t, "ticket_called">>})
  BY <1>5, <1>6
<1>. QED
  BY <1>3, <1>7, <1>8, <1>9, RowKeepsTrail DEF Moves

LEMMA ReleaseRowKeepsTrail ==
  ASSUME TypeOK, TrailInv, NEW c \in Counters, ReleaseRow(c)
  PROVE  TrailInv'
<1>. DEFINE seen(open) == IF open = None THEN None ELSE tickets[open].state
<1>1. PICK open \in FirstOpenTicket(c) :
        /\ ForceReleaseTx(c, open, seen(open))
        /\ Writes(IF open = None THEN {} ELSE {<<open, ReleaseEvent(seen(open))>>})
  BY DEF ReleaseRow
<1>2. CASE open = None
  <2>1. Writes({}) /\ UNCHANGED tickets
    BY <1>1, <1>2 DEF ForceReleaseTx
  <2>2. \A u \in Tickets : Told({}, u)
    BY <2>1 DEF Told, Tells, EventsIn
  <2>. QED
    BY <2>1, <2>2, ToldKeepsTrail
<1>3. CASE open # None
  <2>1. open \in Tickets /\ tickets[open].state \in {"CALLING", "IN_SERVICE"}
    BY <1>1, <1>3 DEF FirstOpenTicket, OpenTicketsAt, AT_COUNTER
  <2>2. tickets[open] \in Ticket
    BY <2>1, PresentRow DEF TypeOK, TicketState, ACTIVE_STATES
  <2>. DEFINE to == IF tickets[open].state = "IN_SERVICE" THEN "FINISHED" ELSE "NO_SHOW"
  <2>3. tickets' = [tickets EXCEPT ![open] = [tickets[open] EXCEPT !.state = to, !.overdue = FALSE]]
    BY <1>1, <1>3 DEF ForceReleaseTx, SetTicket
  <2>4. Moves(open, {tickets[open].state}, {to}) /\ tickets'[open].started = tickets[open].started
    <3>1. tickets \in [Tickets -> Ticket \cup {NoRow}]
      BY DEF TypeOK
    <3>. HIDE DEF to
    <3>. QED
      BY <2>1, <2>2, <2>3, <3>1 DEF Moves, Ticket
  <2>5. CASE tickets[open].state = "IN_SERVICE"
    <3>1. /\ Moves(open, {"IN_SERVICE"}, {"FINISHED"})
          /\ tickets'[open].started = tickets[open].started
          /\ Writes({<<open, "service_force_finished">>})
      BY <1>1, <1>3, <2>4, <2>5 DEF ReleaseEvent
    <3>2. Tells({"service_force_finished"}, tickets[open], tickets'[open])
      BY <3>1 DEF Moves, Tells, ACTIVE_STATES, EXIT_EVENTS, NO_SHOW_EVENTS, FINISH_EVENTS
    <3>3. "service_force_finished" \in TICKET_EVENTS
      BY DEF TICKET_EVENTS, EXIT_EVENTS, NO_SHOW_EVENTS, FINISH_EVENTS
    <3>. QED
      BY <2>1, <3>1, <3>2, <3>3, RowKeepsTrail DEF Moves
  <2>6. CASE tickets[open].state = "CALLING"
    <3>1. Moves(open, {"CALLING"}, {"NO_SHOW"}) /\ Writes({<<open, "ticket_marked_no_show">>})
      BY <1>1, <1>3, <2>4, <2>6 DEF ReleaseEvent
    <3>2. Tells({"ticket_marked_no_show"}, tickets[open], tickets'[open])
      BY <3>1 DEF Moves, Tells, ACTIVE_STATES, EXIT_EVENTS, NO_SHOW_EVENTS, FINISH_EVENTS
    <3>3. "ticket_marked_no_show" \in TICKET_EVENTS
      BY DEF TICKET_EVENTS, EXIT_EVENTS, NO_SHOW_EVENTS, FINISH_EVENTS
    <3>. QED
      BY <2>1, <3>1, <3>2, <3>3, RowKeepsTrail DEF Moves
  <2>. QED
    BY <2>1, <2>5, <2>6
<1>. QED
  BY <1>2, <1>3

(* The tickets of T are resolved with the opening or closing of the day.   *)
LEMMA ResolvedKeepsTrail ==
  ASSUME TypeOK, TrailInv, NEW T \in SUBSET Tickets,
         NEW event \in TICKET_EVENTS, NEW to \in {"NO_SHOW", "FINISHED"},
         \A t \in T :
           /\ tickets[t].state \in ACTIVE_STATES
           /\ \/ event \in EXIT_EVENTS \ FINISH_EVENTS /\ to = "NO_SHOW"
              \/ event \in FINISH_EVENTS /\ tickets[t].state = "IN_SERVICE" /\ to = "FINISHED",
         tickets' = [t \in Tickets |->
           IF t \in T THEN [tickets[t] EXCEPT !.state = to, !.overdue = FALSE] ELSE tickets[t]],
         Writes({<<t, event>> : t \in T})
  PROVE  TrailInv'
<1>1. \A t \in T : tickets[t] \in Ticket
  BY PresentRow DEF TypeOK, TicketState
<1>2. \A u \in Tickets \ T : tickets'[u] = tickets[u]
  OBVIOUS
<1>3. \A u \in T : tickets'[u].state = to /\ tickets'[u].started = tickets[u].started
  BY <1>1 DEF Ticket
<1>4. \A u \in T : Tells({event}, tickets[u], tickets'[u])
  BY <1>3 DEF Tells
<1>5. \A u \in Tickets : Told({<<t, event>> : t \in T}, u)
  BY <1>2, <1>4, SameRowTold
<1>. QED
  BY <1>5, ToldKeepsTrail

LEMMA DayRowsKeepTrail ==
  ASSUME TypeOK, TrailInv, DayRows
  PROVE  TrailInv'
<1>1. "ticket_force_closed" \in EXIT_EVENTS \ FINISH_EVENTS
  BY DEF EXIT_EVENTS, FINISH_EVENTS
<1>2. "service_force_finished" \in FINISH_EVENTS
  BY DEF FINISH_EVENTS
<1>3. {"ticket_force_closed", "service_force_finished"} \subseteq TICKET_EVENTS
  BY DEF TICKET_EVENTS, EXIT_EVENTS, FINISH_EVENTS
<1>4. CASE OpenDay /\ Writes({<<t, "ticket_force_closed">> : t \in StaleTickets(today)})
  <2>1. PICK T \in SUBSET Tickets : T = StaleTickets(today)
    BY DEF StaleTickets
  <2>2. \A t \in T : tickets[t].state \in ACTIVE_STATES
    BY <2>1 DEF StaleTickets
  <2>. QED
    BY <1>1, <1>3, <1>4, <2>1, <2>2, ResolvedKeepsTrail DEF OpenDay, OpenDayTx
<1>5. CASE /\ CloseDay
           /\ Writes({<<t, "service_force_finished">> : t \in InDay(today, {"IN_SERVICE"})})
  <2>1. PICK T \in SUBSET Tickets : T = InDay(today, {"IN_SERVICE"})
    BY DEF InDay
  <2>2. \A t \in T : tickets[t].state = "IN_SERVICE" /\ tickets[t].state \in ACTIVE_STATES
    BY <2>1 DEF InDay, ACTIVE_STATES
  <2>. DEFINE event == "service_force_finished"
  <2>3. event \in TICKET_EVENTS /\ event \in FINISH_EVENTS
    BY <1>2, <1>3
  <2>4. /\ tickets' = [t \in Tickets |-> IF t \in T
                       THEN [tickets[t] EXCEPT !.state = "FINISHED", !.overdue = FALSE]
                       ELSE tickets[t]]
        /\ Writes({<<t, event>> : t \in T})
    BY <1>5, <2>1 DEF CloseDay, CloseDayTx
  <2>. HIDE DEF event
  <2>. QED
    BY <2>2, <2>3, <2>4, ResolvedKeepsTrail
<1>. QED
  BY <1>4, <1>5 DEF DayRows

LEMMA OtherHandlersKeepTrail ==
  ASSUME TypeOK, TrailInv, OtherHandler, Writes({})
  PROVE  TrailInv'
<1>1. ASSUME UNCHANGED tickets
      PROVE  TrailInv'
  <2>1. \A t \in Tickets : Told({}, t)
    BY <1>1 DEF Told, Tells, EventsIn
  <2>. QED
    BY <2>1, ToldKeepsTrail
<1>2. CASE \E t \in Tickets : ToleranceElapses(t)
  BY <1>2, ToleranceKeepsState, NoRowKeepsTrail
<1>3. CASE \E c \in Counters, o \in Operators :
        \/ OpenCounter(c, o) \/ CloseCounter(c, o)
        \/ PauseCounterTx(c, o) \/ ResumeCounterTx(c, o)
  BY <1>1, <1>3
     DEF OpenCounter, OpenTx, CloseCounter, CloseTx, PauseCounterTx, ResumeCounterTx
<1>4. CASE \E t \in Tickets :
        \/ PauseTicket(t) \/ ResumeTicket(t) \/ ExpirePause(t)
        \/ \E user \in Operators \cup {Staff} : StaffPause(t, user) \/ StaffResume(t, user)
        \/ \E p \in BOOLEAN : SetTicketPriority(t, p)
  BY <1>4, StaysInLine, NoRowKeepsTrail
<1>5. CASE \E t \in Tickets, o \in Operators : Recall(t, o)
  BY <1>5, RecallKeepsState, NoRowKeepsTrail
<1>. QED
  BY <1>2, <1>3, <1>4, <1>5 DEF OtherHandler

LEMMA UnwrittenTrailStays ==
  ASSUME TrailInv, UNCHANGED tvars
  PROVE  TrailInv'
BY DEF tvars, vars, TrailInv, TrailBalances, ClocksFollow, HasClocks, SamplesFollow,
   AveragedByPanel

LEMMA StepKeepsTrail ==
  ASSUME TypeOK, TrailInv, [AuditNext]_tvars
  PROVE  TrailInv'
<1>1. CASE \E t \in Tickets, event \in RowKinds : TicketRow(t, event) /\ Writes({<<t, event>>})
  BY <1>1, TicketRowKeepsTrail
<1>2. CASE \E c \in Counters : ReleaseRow(c) \/ \E o \in Operators : CallRow(c, o)
  BY <1>2, ReleaseRowKeepsTrail, CallRowKeepsTrail
<1>3. CASE DayRows
  BY <1>3, DayRowsKeepTrail
<1>4. CASE OtherHandler /\ Writes({})
  BY <1>4, OtherHandlersKeepTrail
<1>5. CASE Midnight /\ NextWindow
  BY <1>5, NextWindowKeepsTrail
<1>6. CASE UNCHANGED tvars
  BY <1>6, UnwrittenTrailStays
<1>. QED
  BY <1>1, <1>2, <1>3, <1>4, <1>5, <1>6 DEF AuditNext

(* The handlers with their rows are the handlers of TicketQueue.           *)
LEMMA AuditedStep == [AuditNext]_tvars => [Next]_vars
<1>. SUFFICES ASSUME AuditNext PROVE Next
  BY DEF tvars
<1>1. ASSUME NEW t \in Tickets, NEW event \in RowKinds, TicketRow(t, event)
      PROVE  RepresentativeNext \/ StaffNext \/ ServiceNext
  BY <1>1 DEF TicketRow, RowKinds, RepresentativeNext, StaffNext, ServiceNext
<1>2. ASSUME NEW c \in Counters, ReleaseRow(c) \/ \E o \in Operators : CallRow(c, o)
      PROVE  CounterNext
  BY <1>2 DEF ReleaseRow, CallRow, CounterNext, ForceRelease
<1>3. DayRows => DayNext
  BY DEF DayRows, DayNext
<1>4. OtherHandler =>
        RepresentativeNext \/ StaffNext \/ ServiceNext \/ CounterNext \/ Clock
  BY DEF OtherHandler, RepresentativeNext, StaffNext, ServiceNext, CounterNext, Clock
<1>5. Midnight => Clock
  BY DEF Clock
<1>. QED
  BY <1>1, <1>2, <1>3, <1>4, <1>5 DEF AuditNext, Next

LEMMA TrailKept == AuditSpec => []TrailInv
<1>1. AuditInit => TypeOK
  BY InitConsistent DEF AuditInit, RowsAreConsistent
<1>2. AuditInit => TrailInv
  BY DEF AuditInit, Init, NoRow, TrailInv, TrailBalances, ClocksFollow, HasClocks, SamplesFollow,
     AveragedByPanel, ACTIVE_STATES
<1>3. TypeOK /\ [AuditNext]_tvars => TypeOK'
  BY StepKeepsTypes, AuditedStep
<1>4. TypeOK /\ TrailInv /\ [AuditNext]_tvars => TrailInv'
  BY StepKeepsTrail
<1>. QED
  BY <1>1, <1>2, <1>3, <1>4, PTL DEF AuditSpec

(* Whatever the day brings, the entries of the audit trail less its exits  *)
(* are the active tickets: every handler writes the row of what it does.   *)
THEOREM TrailBalanced == AuditSpec => []TrailBalances
<1>1. TrailInv => TrailBalances
  BY DEF TrailInv
<1>. QED
  BY <1>1, TrailKept, PTL

(* On every date, whatever its handlers do and the nights before it left,  *)
(* the metrics measure exactly the services the panel averages: those that *)
(* began and ended on the date, each once, with the wait and the call of a *)
(* ticket that joined the line on it too.                                  *)
THEOREM MetricsAgreed == AuditSpec => []MetricsAgreeWithPanel
<1>1. TrailInv => MetricsAgreeWithPanel
  BY DEF TrailInv, ClocksFollow, HasClocks, SamplesFollow, MetricsAgreeWithPanel, AveragedByPanel
<1>. QED
  BY <1>1, TrailKept, PTL

-----------------------------------------------------------------------------
(* The billing system *)

(* A row once inserted stays with its representative. *)
RowsStay ==
  \A t \in Tickets :
    tickets[t] \in Ticket => tickets'[t] \in Ticket /\ tickets'[t].rep = tickets[t].rep

LEMMA WritingStays ==
  ASSUME TypeOK', NEW t \in Tickets,
         \A u \in Tickets \ {t} : tickets'[u] = tickets[u],
         tickets[t] \in Ticket =>
           tickets'[t].state \in TicketState /\ tickets'[t].rep = tickets[t].rep
  PROVE  RowsStay
<1>1. tickets'[t].state \in TicketState => tickets'[t] \in Ticket
  BY DEF TypeOK, NoRow, TicketState, ACTIVE_STATES
<1>. QED
  BY <1>1 DEF RowsStay

LEMMA KeepingPlaceStays ==
  ASSUME TypeOK', NEW t \in Tickets, KeepsPlace(t)
  PROVE  RowsStay
BY WritingStays DEF KeepsPlace

LEMMA RepresentativeRowsStay ==
  ASSUME TypeOK, TypeOK', RepresentativeNext
  PROVE  RowsStay
<1>1. ASSUME NEW t \in Tickets, \E rep \in Reps, p \in BOOLEAN : Create(t, rep, p)
      PROVE  RowsStay
  <2>1. tickets[t] \notin Ticket
    BY <1>1 DEF Create, InsertTicket, NoRow, Ticket, TicketState, ACTIVE_STATES
  <2>2. \A u \in Tickets \ {t} : tickets'[u] = tickets[u]
    BY <1>1 DEF Create, InsertTicket, SetTicket, TypeOK
  <2>. QED
    BY <2>1, <2>2, WritingStays
<1>. QED
  BY <1>1, SelfCancelKeepsPlace, PauseKeepsPlace, ResumeInPlaceKeepsPlace, KeepingPlaceStays
     DEF RepresentativeNext, SelfCancel, PauseTicket, ResumeTicket

LEMMA StaffRowsStay ==
  ASSUME TypeOK, TypeOK', StaffNext
  PROVE  RowsStay
<1>1. \A t \in Tickets : tickets[t].counter \in Counters \cup {None}
  BY DEF TypeOK, Ticket, NoRow
<1>2. ASSUME NEW t \in Tickets, Restore(t)
      PROVE  RowsStay
  <2>1. tickets[t] \in Ticket
    BY <1>2, PresentRow DEF Restore, RestoreTx, Restorable, TicketState
  <2>2. \A u \in Tickets \ {t} : tickets'[u] = tickets[u]
    BY <1>2 DEF Restore, RestoreTx, SetTicket, TypeOK
  <2>3. tickets'[t].state = "WAITING" /\ tickets'[t].rep = tickets[t].rep
    BY <1>2, <2>1 DEF Restore, RestoreTx, SetTicket, TypeOK, Ticket
  <2>. QED
    BY <2>2, <2>3, WritingStays DEF TicketState, ACTIVE_STATES
<1>3. ASSUME NEW t \in Tickets, \E user \in Operators \cup {Staff} : StaffPause(t, user)
      PROVE  RowsStay
  BY <1>1, <1>3, StaffPauseKeepsPlace, KeepingPlaceStays
     DEF StaffPause, AT_COUNTER
<1>4. ASSUME NEW t \in Tickets,
             \/ Cancel(t)
             \/ \E target \in {"FINISHED", "CANCELLED"} : Correct(t, target)
             \/ \E user \in Operators \cup {Staff} : StaffResume(t, user)
             \/ \E p \in BOOLEAN : SetTicketPriority(t, p)
      PROVE  RowsStay
  <2>1. CASE \E target \in {"FINISHED", "CANCELLED"} : Correct(t, target)
    <3>1. PICK target \in {"FINISHED", "CANCELLED"} : CorrectTx(t, tickets[t], target)
      BY <2>1 DEF Correct
    <3>. QED
      BY <1>1, <3>1, CorrectKeepsPlace, KeepingPlaceStays
  <2>. QED
    BY <1>4, <2>1, CancelKeepsPlace, ResumeInPlaceKeepsPlace, SetPriorityKeepsPlace,
       KeepingPlaceStays DEF Cancel, StaffResume, SetTicketPriority
<1>. QED
  BY <1>2, <1>3, <1>4 DEF StaffNext

LEMMA ServiceRowsStay ==
  ASSUME TypeOK, TypeOK', ServiceNext
  PROVE  RowsStay
<1>1. \A t \in Tickets : tickets[t].counter \in Counters \cup {None}
  BY DEF TypeOK, Ticket, NoRow
<1>2. ASSUME NEW t \in Tickets, ExpirePause(t)
      PROVE  RowsStay
  <2>1. tickets[t] \in Ticket
    BY <1>2, PresentRow DEF ExpirePause, TicketState, ACTIVE_STATES
  <2>2. \A u \in Tickets \ {t} : tickets'[u] = tickets[u]
    BY <1>2 DEF ExpirePause, ResumeToEndOfQueue, SetTicket, TypeOK
  <2>3. tickets' = [tickets EXCEPT ![t] = [tickets[t] EXCEPT
          !.state = "WAITING", !.day = today, !.position = NextPosition(today),
          !.code = GenerateCode(NextPosition(today)), !.overdue = FALSE]]
    BY <1>2 DEF ExpirePause, ResumeToEndOfQueue, SetTicket
  <2>4. tickets'[t].state = "WAITING" /\ tickets'[t].rep = tickets[t].rep
    <3>. HIDE DEF NextPosition, GenerateCode
    <3>. QED
      BY <2>1, <2>3 DEF TypeOK, Ticket
  <2>. QED
    BY <2>2, <2>4, WritingStays DEF TicketState, ACTIVE_STATES
<1>3. ASSUME NEW t \in Tickets, NEW o \in Operators, NoShow(t, o)
      PROVE  RowsStay
  BY <1>1, <1>3, MarkNoShowKeepsPlace, KeepingPlaceStays DEF NoShow, AssignedTo
<1>4. ASSUME NEW t \in Tickets,
             \/ AdvanceToInService(t) \/ CompleteService(t) \/ ExpireCall(t)
             \/ \E o \in Operators : Recall(t, o) \/ StartService(t, o) \/ FinishService(t, o)
      PROVE  RowsStay
  BY <1>1, <1>4, RecallKeepsPlace, ToInServiceKeepsPlace, ToFinishedKeepsPlace,
     ExpireCallKeepsPlace, KeepingPlaceStays
     DEF Recall, StartService, FinishService, AdvanceToInService, CompleteService, ExpireCall
<1>. QED
  BY <1>2, <1>3, <1>4 DEF ServiceNext

LEMMA CounterRowsStay ==
  ASSUME TypeOK, TypeOK', CounterNext
  PROVE  RowsStay
<1>1. ASSUME UNCHANGED tickets
      PROVE  RowsStay
  BY <1>1 DEF RowsStay
<1>2. ASSUME NEW c \in Counters, NEW o \in Operators, CallNext(c, o)
      PROVE  RowsStay
  BY <1>2, CallTicketKeepsPlace, KeepingPlaceStays DEF CallNext, IsHead, Waiting
<1>3. ASSUME NEW c \in Counters, ForceRelease(c)
      PROVE  RowsStay
  <2>1. PICK open \in FirstOpenTicket(c) :
          ForceReleaseTx(c, open, IF open = None THEN None ELSE tickets[open].state)
    BY <1>3 DEF ForceRelease
  <2>2. CASE open = None
    BY <1>1, <2>1, <2>2 DEF ForceReleaseTx
  <2>3. CASE open # None
    <3>1. open \in Tickets /\ tickets[open].state \in {"CALLING", "IN_SERVICE"}
      BY <2>1, <2>3 DEF FirstOpenTicket, OpenTicketsAt, AT_COUNTER
    <3>2. tickets[open] \in Ticket
      BY <3>1, PresentRow DEF TicketState, ACTIVE_STATES
    <3>. DEFINE to == IF tickets[open].state = "IN_SERVICE" THEN "FINISHED" ELSE "NO_SHOW"
    <3>3. tickets' = [tickets EXCEPT ![open] =
            [tickets[open] EXCEPT !.state = to, !.overdue = FALSE]]
      BY <2>1, <2>3 DEF ForceReleaseTx, SetTicket
    <3>4. to \in TicketState
      BY DEF TicketState
    <3>. HIDE DEF to
    <3>5. tickets'[open].state = to /\ tickets'[open].rep = tickets[open].rep
      BY <3>1, <3>2, <3>3 DEF TypeOK, Ticket
    <3>6. \A u \in Tickets \ {open} : tickets'[u] = tickets[u]
      BY <3>3 DEF TypeOK
    <3>. QED
      BY <3>1, <3>4, <3>5, <3>6, WritingStays
  <2>. QED
    BY <2>2, <2>3
<1>. QED
  BY <1>1, <1>2, <1>3
     DEF CounterNext, OpenCounter, OpenTx, CloseCounter, CloseTx, PauseCounterTx, ResumeCounterTx

(* Opening and closing the day write the tickets of T. *)
LEMMA ResolvingStays ==
  ASSUME TypeOK, TypeOK', NEW T \in SUBSET Tickets, NEW to \in TicketState,
         tickets' = [t \in Tickets |->
           IF t \in T THEN [tickets[t] EXCEPT !.state = to, !.overdue = FALSE] ELSE tickets[t]]
  PROVE  RowsStay
<1>. SUFFICES ASSUME NEW t \in Tickets, tickets[t] \in Ticket
              PROVE  tickets'[t] \in Ticket /\ tickets'[t].rep = tickets[t].rep
  BY DEF RowsStay
<1>1. tickets'[t].state \in TicketState /\ tickets'[t].rep = tickets[t].rep
  BY DEF Ticket
<1>2. tickets'[t] \in Ticket \cup {NoRow} /\ NoRow.state \notin TicketState
  BY DEF TypeOK, NoRow, TicketState, ACTIVE_STATES
<1>. QED
  BY <1>1, <1>2

LEMMA StepRowsStay ==
  ASSUME TypeOK, [Next]_vars
  PROVE  RowsStay
<1>1. TypeOK'
  BY StepKeepsTypes
<1>2. CASE DayNext
  <2>1. CASE OpenDay
    <3>1. PICK T \in SUBSET Tickets : T = StaleTickets(today)
      BY DEF StaleTickets
    <3>. QED
      BY <1>1, <2>1, <3>1, ResolvingStays DEF OpenDay, OpenDayTx, TicketState
  <2>2. CASE CloseDay
    <3>1. PICK T \in SUBSET Tickets : T = InDay(today, {"IN_SERVICE"})
      BY DEF InDay
    <3>. QED
      BY <1>1, <2>2, <3>1, ResolvingStays DEF CloseDay, CloseDayTx, TicketState
  <2>. QED
    BY <1>2, <2>1, <2>2 DEF DayNext
<1>3. CASE Clock
  <2>1. CASE Midnight
    BY <2>1 DEF Midnight, RowsStay
  <2>. QED
    BY <1>1, <1>3, <2>1, ToleranceElapsesKeepsPlace, KeepingPlaceStays DEF Clock
<1>4. CASE UNCHANGED vars
  BY <1>4 DEF vars, RowsStay
<1>. QED
  BY <1>1, <1>2, <1>3, <1>4, RepresentativeRowsStay, StaffRowsStay, ServiceRowsStay,
     CounterRowsStay DEF Next

-----------------------------------------------------------------------------
(* Its calls *)

(* A call that has resolved its ticket names one, and the ticket it is     *)
(* meant for is and stays a ticket of the representative it names.         *)
RequestsFit ==
  \A q \in Requests :
    /\ requests[q].step \in {"resolved", "read", "raced"} => requests[q].ticket \in Tickets
    /\ requests[q].meant \in Tickets =>
         /\ tickets[requests[q].meant] \in Ticket
         /\ tickets[requests[q].meant].rep = requests[q].rep

IntegrationInv == TypeOK /\ TrailInv /\ IntegrationTypeOK /\ RequestsFit

Fits(r) ==
  /\ r \in Request
  /\ r.step \in {"resolved", "read", "raced"} => r.ticket \in Tickets
  /\ r.meant \in Tickets => tickets[r.meant] \in Ticket /\ tickets[r.meant].rep = r.rep

LEMMA CallsFit ==
  ASSUME IntegrationTypeOK, RequestsFit, NEW q \in Requests
  PROVE  Fits(requests[q])
BY DEF IntegrationTypeOK, RequestsFit, Fits

(* A call moves on, whatever the rows do. *)
LEMMA BecomingFits ==
  ASSUME IntegrationTypeOK, RequestsFit, NEW q \in Requests, NEW r, Fits(r), Becomes(q, r),
         RowsStay
  PROVE  IntegrationTypeOK' /\ RequestsFit'
<1>1. requests' = [requests EXCEPT ![q] = r] /\ requests \in [Requests -> Request]
  BY DEF Becomes, IntegrationTypeOK
<1>2. IntegrationTypeOK'
  BY <1>1 DEF Fits, IntegrationTypeOK
<1>3. \A p \in Requests : Fits(requests'[p])
  BY <1>1, CallsFit
<1>. QED
  BY <1>2, <1>3 DEF Fits, RequestsFit, RowsStay

(* The rows move, and the calls do not. *)
LEMMA MovingRowsFits ==
  ASSUME IntegrationTypeOK, RequestsFit, RowsStay, UNCHANGED requests
  PROVE  IntegrationTypeOK' /\ RequestsFit'
BY DEF IntegrationTypeOK, RequestsFit, RowsStay

LEMMA AnsweringFits ==
  ASSUME IntegrationTypeOK, RequestsFit, NEW q \in Requests,
         NEW answer \in {"done", "already", "refused"}, Answer(q, answer), RowsStay
  PROVE  IntegrationTypeOK' /\ RequestsFit'
<1>. DEFINE r == [requests[q] EXCEPT
                    !.step = "answered", !.answer = answer, !.ticket = None, !.counter = None]
<1>1. Fits(requests[q])
  BY CallsFit
<1>2. Fits(r)
  BY <1>1 DEF Fits, Request
<1>3. Becomes(q, r)
  BY DEF Answer
<1>. HIDE DEF r
<1>. QED
  BY <1>2, <1>3, BecomingFits

LEMMA WaitingCallFits ==
  ASSUME TypeOK, IntegrationTypeOK, RequestsFit, NEW q \in Requests, UNCHANGED tvars,
         Resolve(q) \/ Read(q) \/ LoseRace(q) \/ ReadAgain(q)
  PROVE  IntegrationTypeOK' /\ RequestsFit'
<1>1. RowsStay
  BY DEF tvars, vars, RowsStay
<1>2. Fits(requests[q])
  BY CallsFit
<1>3. ASSUME NEW t \in Tickets,
             Becomes(q, [requests[q] EXCEPT !.step = "resolved", !.ticket = t])
      PROVE  IntegrationTypeOK' /\ RequestsFit'
  <2>. DEFINE r == [requests[q] EXCEPT !.step = "resolved", !.ticket = t]
  <2>1. Fits(r)
    BY <1>2 DEF Fits, Request
  <2>2. Becomes(q, r)
    BY <1>3
  <2>. HIDE DEF r
  <2>. QED
    BY <1>1, <2>1, <2>2, BecomingFits
<1>4. ASSUME NEW c \in Counters \cup {None}, requests[q].ticket \in Tickets,
             Becomes(q, [requests[q] EXCEPT !.step = "read", !.counter = c])
      PROVE  IntegrationTypeOK' /\ RequestsFit'
  <2>. DEFINE r == [requests[q] EXCEPT !.step = "read", !.counter = c]
  <2>1. Fits(r)
    BY <1>2, <1>4 DEF Fits, Request
  <2>2. Becomes(q, r)
    BY <1>4
  <2>. HIDE DEF r
  <2>. QED
    BY <1>1, <2>1, <2>2, BecomingFits
<1>5. ASSUME requests[q].ticket \in Tickets, Becomes(q, [requests[q] EXCEPT !.step = "raced"])
      PROVE  IntegrationTypeOK' /\ RequestsFit'
  <2>. DEFINE r == [requests[q] EXCEPT !.step = "raced"]
  <2>1. Fits(r)
    BY <1>2, <1>5 DEF Fits, Request
  <2>2. Becomes(q, r)
    BY <1>5
  <2>. HIDE DEF r
  <2>. QED
    BY <1>1, <2>1, <2>2, BecomingFits
<1>6. CASE Resolve(q)
  <2>1. \A action, rep : Candidates(action, rep) \subseteq Tickets
    BY DEF Candidates, AtCounter, FinishedToday
  <2>. QED
    BY <1>1, <1>3, <1>6, <2>1, AnsweringFits DEF Resolve
<1>7. CASE Read(q)
  <2>1. requests[q].ticket \in Tickets
    BY <1>2, <1>7 DEF Read, Fits
  <2>2. tickets[requests[q].ticket].counter \in Counters \cup {None}
    BY <2>1 DEF TypeOK, Ticket, NoRow
  <2>3. \/ Answer(q, "already") \/ Answer(q, "refused")
        \/ Becomes(q, [requests[q] EXCEPT
             !.step = "read", !.counter = tickets[requests[q].ticket].counter])
    BY <1>7 DEF Read
  <2>. QED
    BY <1>1, <1>4, <2>1, <2>2, <2>3, AnsweringFits
<1>8. CASE LoseRace(q)
  <2>1. requests[q].ticket \in Tickets
    BY <1>2, <1>8 DEF LoseRace, Fits
  <2>. QED
    BY <1>5, <1>8, <2>1 DEF LoseRace
<1>9. CASE ReadAgain(q)
  BY <1>1, <1>9, AnsweringFits DEF ReadAgain, AnswerAfterRace
<1>. QED
  BY <1>6, <1>7, <1>8, <1>9

LEMMA BillingSystemFits ==
  ASSUME TypeOK, IntegrationTypeOK, RequestsFit, NEW q \in Requests, UNCHANGED tvars,
         Send(q) \/ Receive(q) \/ SendAgain(q)
  PROVE  IntegrationTypeOK' /\ RequestsFit'
<1>1. RowsStay
  BY DEF tvars, vars, RowsStay
<1>2. Fits(requests[q])
  BY CallsFit
<1>3. Idle \in Request /\ Fits(Idle)
  BY NoneAssumption DEF Idle, Request, ActionNames, Fits
<1>4. CASE Send(q)
  <2>1. PICK action \in ActionNames, rep \in Reps \cup {None} :
          \E meant \in Meant(action, rep) :
            Becomes(q, [Idle EXCEPT
              !.step = "sent", !.action = action, !.rep = rep, !.meant = meant])
    BY <1>4 DEF Send
  <2>. PICK meant \in Meant(action, rep) :
          Becomes(q, [Idle EXCEPT
            !.step = "sent", !.action = action, !.rep = rep, !.meant = meant])
    BY <2>1
  <2>2. meant \in Tickets \cup {None}
    BY DEF Meant, Candidates, AtCounter, FinishedToday
  <2>3. meant \in Tickets => tickets[meant] \in Ticket /\ tickets[meant].rep = rep
    <3>1. meant \in Tickets =>
            /\ tickets[meant].state \in AT_COUNTER \cup {"FINISHED"}
            /\ tickets[meant].rep = rep
      BY NoneAssumption DEF Meant, Candidates, AtCounter, FinishedToday
    <3>. QED
      BY <3>1, PresentRow DEF AT_COUNTER, TicketState, ACTIVE_STATES
  <2>. DEFINE r == [Idle EXCEPT !.step = "sent", !.action = action, !.rep = rep, !.meant = meant]
  <2>4. r \in Request /\ r.step = "sent" /\ r.meant = meant /\ r.rep = rep
    BY <1>3, <2>2 DEF Request
  <2>5. Becomes(q, r)
    BY <2>1
  <2>. HIDE DEF r
  <2>6. Fits(r)
    BY <2>3, <2>4 DEF Fits
  <2>. QED
    BY <1>1, <2>5, <2>6, BecomingFits
<1>5. CASE Receive(q)
  BY <1>1, <1>3, <1>5, BecomingFits DEF Receive
<1>6. CASE SendAgain(q)
  <2>. DEFINE r == [requests[q] EXCEPT !.step = "sent", !.answer = "none"]
  <2>1. Fits(r)
    BY <1>2 DEF Fits, Request
  <2>2. Becomes(q, r)
    BY <1>6 DEF SendAgain
  <2>. HIDE DEF r
  <2>. QED
    BY <1>1, <2>1, <2>2, BecomingFits
<1>. QED
  BY <1>4, <1>5, <1>6

LEMMA CommitKeepsAll ==
  ASSUME IntegrationInv, NEW q \in Requests, Commit(q)
  PROVE  IntegrationInv'
<1>. DEFINE t == requests[q].ticket  pre == [counter |-> requests[q].counter]
<1>1. TypeOK /\ TrailInv /\ IntegrationTypeOK /\ RequestsFit
  BY DEF IntegrationInv
<1>2. t \in Tickets /\ pre.counter \in Counters \cup {None} /\ Answer(q, "done")
  BY <1>1, CallsFit DEF Commit, Fits, Request
<1>3. CASE TransitionToInService(t, pre, None) /\ Writes({<<t, "service_started">>})
  <2>. HIDE DEF t, pre
  <2>1. /\ TypeOK' /\ KeepsPlace(t)
        /\ Moves(t, {"CALLING"}, {"IN_SERVICE"}) /\ tickets'[t].started
    BY <1>1, <1>2, <1>3, ToInServiceType, ToInServiceKeepsPlace, StartsService
  <2>2. "service_started" \in TICKET_EVENTS
    BY DEF TICKET_EVENTS
  <2>3. Tells({"service_started"}, tickets[t], tickets'[t])
    BY <2>1 DEF Moves, Tells
  <2>4. TrailInv'
    BY <1>1, <1>2, <1>3, <2>1, <2>2, <2>3, RowKeepsTrail DEF Moves
  <2>. QED
    BY <1>1, <1>2, <2>1, <2>4, KeepingPlaceStays, AnsweringFits DEF IntegrationInv
<1>4. CASE TransitionToFinished(t, pre, None) /\ Writes({<<t, "service_finished">>})
  <2>. HIDE DEF t, pre
  <2>1. /\ TypeOK' /\ KeepsPlace(t)
        /\ Moves(t, {"IN_SERVICE"}, {"FINISHED"}) /\ tickets'[t].started = tickets[t].started
    BY <1>1, <1>2, <1>4, ToFinishedType, ToFinishedKeepsPlace, EndsService
  <2>2. "service_finished" \in TICKET_EVENTS
    BY DEF TICKET_EVENTS, EXIT_EVENTS, FINISH_EVENTS
  <2>3. Tells({"service_finished"}, tickets[t], tickets'[t])
    BY <2>1 DEF Moves, Tells, FINISH_EVENTS
  <2>4. TrailInv'
    BY <1>1, <1>2, <1>4, <2>1, <2>2, <2>3, RowKeepsTrail DEF Moves
  <2>. QED
    BY <1>1, <1>2, <2>1, <2>4, KeepingPlaceStays, AnsweringFits DEF IntegrationInv
<1>. QED
  BY <1>3, <1>4 DEF Commit

LEMMA IntegrationStep == IntegrationInv /\ [IntegrationNext]_ivars => IntegrationInv'
<1>. SUFFICES ASSUME IntegrationInv, [IntegrationNext]_ivars PROVE IntegrationInv'
  OBVIOUS
<1>1. TypeOK /\ TrailInv /\ IntegrationTypeOK /\ RequestsFit
  BY DEF IntegrationInv
<1>2. ASSUME UNCHANGED tvars
      PROVE  TypeOK' /\ TrailInv'
  BY <1>1, <1>2, UnwrittenTrailStays DEF tvars, vars, TypeOK
<1>3. ASSUME NEW q \in Requests, RequestNext(q)
      PROVE  IntegrationInv'
  <2>1. Commit(q) \/ UNCHANGED tvars
    BY <1>3 DEF RequestNext, Resolve, Read, LoseRace, ReadAgain, Send, Receive, SendAgain
  <2>2. CASE UNCHANGED tvars /\ ~Commit(q)
    BY <1>1, <1>2, <1>3, <2>2, WaitingCallFits, BillingSystemFits
       DEF RequestNext, IntegrationInv
  <2>. QED
    BY <2>1, <2>2, CommitKeepsAll
<1>4. CASE AuditNext /\ UNCHANGED requests
  <2>1. TypeOK' /\ TrailInv' /\ RowsStay
    BY <1>1, <1>4, AuditedStep, StepKeepsTypes, StepKeepsTrail, StepRowsStay
  <2>. QED
    BY <1>1, <1>4, <2>1, MovingRowsFits DEF IntegrationInv
<1>5. CASE UNCHANGED ivars
  <2>1. RowsStay
    BY <1>5 DEF ivars, tvars, vars, RowsStay
  <2>. QED
    BY <1>1, <1>2, <1>5, <2>1, MovingRowsFits DEF ivars, IntegrationInv
<1>. QED
  BY <1>3, <1>4, <1>5 DEF IntegrationNext

LEMMA IntegrationKept == IntegrationSpec => []IntegrationInv
<1>1. IntegrationInit => IntegrationInv
  <2>. SUFFICES ASSUME IntegrationInit PROVE IntegrationInv
    OBVIOUS
  <2>1. TypeOK /\ TrailInv
    BY InitConsistent DEF IntegrationInit, AuditInit, RowsAreConsistent, Init, NoRow, TrailInv,
       TrailBalances, ClocksFollow, HasClocks, SamplesFollow, AveragedByPanel, ACTIVE_STATES
  <2>2. \A q \in Requests : requests[q] = Idle
    BY DEF IntegrationInit
  <2>3. Idle \in Request /\ Idle.step = "idle" /\ Idle.meant \notin Tickets
    BY NoneAssumption DEF Idle, Request, ActionNames
  <2>4. IntegrationTypeOK
    BY <2>2, <2>3 DEF IntegrationInit, IntegrationTypeOK
  <2>. QED
    BY <2>1, <2>2, <2>3, <2>4 DEF IntegrationInv, RequestsFit
<1>. QED
  BY <1>1, IntegrationStep, PTL DEF IntegrationSpec

(* However the calls of the billing system meet the handlers of the desk,  *)
(* the entries of the audit trail less its exits are the active tickets: a *)
(* call that lost its race writes no row.                                  *)
THEOREM BilledTrailBalanced == IntegrationSpec => []TrailBalances
<1>1. IntegrationInv => TrailBalances
  BY DEF IntegrationInv, TrailInv
<1>. QED
  BY <1>1, IntegrationKept, PTL

(* However often a call is sent again, and on whichever side of midnight   *)
(* its steps fall, the metrics measure the services the panel averages.    *)
THEOREM BilledMetricsAgreed == IntegrationSpec => []MetricsAgreeWithPanel
<1>1. IntegrationInv => MetricsAgreeWithPanel
  BY DEF IntegrationInv, TrailInv, ClocksFollow, HasClocks, SamplesFollow, MetricsAgreeWithPanel,
     AveragedByPanel
<1>. QED
  BY <1>1, IntegrationKept, PTL

(* The ticket the call is meant for is found, read and read again as what  *)
(* it is.                                                                  *)
LEMMA RefusalsAreTrue ==
  ASSUME IntegrationInv, NEW q \in Requests, RequestNext(q),
         requests[q].answer = "none", requests'[q].answer = "refused"
  PROVE  ~Done(requests[q])
<1>. SUFFICES ASSUME Done(requests[q]) PROVE FALSE
  OBVIOUS
<1>. DEFINE r == requests[q]
<1>1. Fits(r) /\ requests \in [Requests -> Request]
  BY CallsFit DEF IntegrationInv, IntegrationTypeOK
<1>2. /\ r.meant \in Tickets /\ tickets[r.meant].rep = r.rep /\ r.ticket \in {None, r.meant}
      /\ tickets[r.meant].state = Target(r.action) /\ tickets[r.meant].day = today
      /\ r.action \in ActionNames /\ r.answer = "none" /\ r.ticket \in Tickets \cup {None}
  BY <1>1 DEF Done, Fits, Request
<1>3. \A s : Becomes(q, s) => requests'[q] = s
  BY <1>1 DEF Becomes
<1>4. \A answer : Answer(q, answer) => requests'[q].answer = answer
  BY <1>1, <1>3 DEF Answer, Request
<1>5. \A t, c : /\ [r EXCEPT !.step = "resolved", !.ticket = t].answer = "none"
                /\ [r EXCEPT !.step = "read", !.counter = c].answer = "none"
                /\ [r EXCEPT !.step = "raced"].answer = "none"
  BY <1>1, <1>2 DEF Fits, Request
<1>6. CASE Resolve(q)
  <2>1. r.meant \in Candidates(r.action, r.rep)
    <3>1. AtCounter(r.rep) \subseteq {r.meant}
      BY DEF Done
    <3>2. CASE r.action = "iniciar"
      BY <1>2, <3>2 DEF Candidates, AtCounter, Target, AT_COUNTER
    <3>3. CASE r.action = "encerrar"
      <4>1. r.meant \in FinishedToday(r.rep) /\ r.meant \notin AtCounter(r.rep)
        BY <1>2, <3>3 DEF AtCounter, FinishedToday, Target, AT_COUNTER
      <4>. QED
        BY <3>1, <3>3, <4>1 DEF Candidates
    <3>. QED
      BY <1>2, <3>2, <3>3 DEF ActionNames
  <2>. QED
    BY <1>3, <1>5, <1>6, <2>1 DEF Resolve
<1>7. CASE Read(q)
  <2>1. r.ticket = r.meant
    BY <1>1, <1>2, <1>7, NoneAssumption DEF Read, Fits
  <2>2. Source(r.action) # Target(r.action)
    BY DEF Source, Target
  <2>3. Answer(q, "already")
    BY <1>2, <1>7, <2>1, <2>2 DEF Read
  <2>. QED
    BY <1>4, <2>3
<1>8. CASE Commit(q)
  BY <1>4, <1>8 DEF Commit
<1>9. CASE LoseRace(q)
  BY <1>3, <1>5, <1>9 DEF LoseRace
<1>10. CASE ReadAgain(q)
  <2>1. r.ticket = r.meant
    BY <1>1, <1>2, <1>10, NoneAssumption DEF ReadAgain, Fits
  <2>2. AnswerAfterRace(tickets[r.ticket], r.action) = "already"
    BY <1>2, <2>1 DEF AnswerAfterRace
  <2>. QED
    BY <1>4, <1>10, <2>2 DEF ReadAgain
<1>11. CASE Send(q)
  <2>1. PICK action, rep, meant :
          Becomes(q, [Idle EXCEPT
            !.step = "sent", !.action = action, !.rep = rep, !.meant = meant])
    BY <1>11 DEF Send
  <2>. DEFINE s == [Idle EXCEPT !.step = "sent", !.action = action, !.rep = rep, !.meant = meant]
  <2>2. s.answer = "none" /\ Becomes(q, s)
    BY <2>1 DEF Idle
  <2>. HIDE DEF s
  <2>. QED
    BY <1>3, <2>2
<1>12. CASE Receive(q)
  BY <1>3, <1>12 DEF Receive, Idle
<1>13. CASE SendAgain(q)
  <2>1. [r EXCEPT !.step = "sent", !.answer = "none"].answer = "none"
    BY <1>1 DEF Fits, Request
  <2>. QED
    BY <1>3, <1>13, <2>1 DEF SendAgain
<1>. QED
  BY <1>6, <1>7, <1>8, <1>9, <1>10, <1>11, <1>12, <1>13 DEF RequestNext

(* A call of the billing system is refused only if what it asks for is not *)
(* so: one sent again, or one that lost its race against the desk, is      *)
(* answered as the winner was.                                             *)
THEOREM RefusalsTrue == IntegrationSpec => RefusedMeansNotDone
<1>. DEFINE Refusals ==
       \A q \in Requests :
         requests[q].answer = "none" /\ requests'[q].answer = "refused" => ~Done(requests[q])
<1>1. IntegrationInv /\ [IntegrationNext]_ivars => [Refusals]_ivars
  <2>. SUFFICES ASSUME IntegrationInv, IntegrationNext, NEW q \in Requests,
                       requests[q].answer = "none", requests'[q].answer = "refused"
                PROVE  ~Done(requests[q])
    OBVIOUS
  <2>1. PICK p \in Requests : RequestNext(p)
    BY DEF IntegrationNext
  <2>2. p = q
    <3>1. \A s : Becomes(p, s) /\ p # q => requests'[q] = requests[q]
      BY DEF Becomes, IntegrationInv, IntegrationTypeOK
    <3>2. p # q => requests'[q] = requests[q]
      BY <2>1, <3>1 DEF RequestNext, Resolve, Read, Commit, LoseRace, ReadAgain, Send, Receive,
         SendAgain, Answer
    <3>. QED
      BY <3>2
  <2>. QED
    BY <2>1, <2>2, RefusalsAreTrue
<1>. QED
  BY <1>1, IntegrationKept, PTL DEF IntegrationSpec, RefusedMeansNotDone

===============================================================================
