------------------------------ MODULE AuditTrail ------------------------------
(***************************************************************************)
(* The audit rows each handler writes and what MetricsService makes of     *)
(* them.  It asks for the rows of the present business date and folds them *)
(* in their order: clocks and samples are the accumulators of that fold,   *)
(* moved by every row as it is written, and they start empty on each date. *)
(* The handlers know nothing of them: whether the figures agree with the   *)
(* tickets depends on each handler writing the right rows.                 *)
(***************************************************************************)
EXTENDS TicketQueue

VARIABLES
  within,     \* within[t]: rows of t that count an entry, less those that count an exit
  clocks,     \* clocks[t]: the maps of _calculateDurations that hold t, of today's rows
  samples,    \* samples[t]: the services of t measured, of today's rows
  servedToday,    \* tickets whose column serviceStartedAt is of today
  enteredToday    \* tickets created or restored today

tvars == <<vars, within, clocks, samples, servedToday, enteredToday>>

ENTRY_EVENTS == {"ticket_created", "ticket_restored"}
NO_SHOW_EVENTS == {"ticket_no_show", "ticket_marked_no_show", "ticket_auto_no_show"}
FINISH_EVENTS == {"service_finished", "service_force_finished"}
EXIT_EVENTS == NO_SHOW_EVENTS \cup FINISH_EVENTS \cup {"ticket_cancelled", "ticket_force_closed"}
TICKET_EVENTS == ENTRY_EVENTS \cup EXIT_EVENTS \cup {"ticket_called", "service_started"}

AuditInit ==
  /\ Init
  /\ within = [t \in Tickets |-> 0]
  /\ clocks = [t \in Tickets |-> {}]
  /\ samples = [t \in Tickets |-> 0]
  /\ servedToday = {} /\ enteredToday = {}

-----------------------------------------------------------------------------
(* The fold *)

(* The wait ends with the first service only, and is not measured of a     *)
(* ticket whose entry is not among the rows of the day.                    *)
ClocksAfter(t, event) ==
  clocks[t] \cup
    CASE event \in ENTRY_EVENTS -> {"waitingSince"}
      [] event = "ticket_called" -> {"calledAt"}
      [] event = "service_started" ->
           {"serviceStartedAt"}
             \cup (IF "waitingSince" \in clocks[t] THEN {"waitCounted"} ELSE {})
      [] OTHER -> {}

(* The rows of one handler about tickets, at most one of each.             *)
Log(rows) ==
  LET EventsOf(t) == TICKET_EVENTS \cap {row[2] : row \in {r \in rows : r[1] = t}}
  IN /\ within' = [t \in Tickets |->
          within[t] + (IF EventsOf(t) \cap ENTRY_EVENTS # {} THEN 1 ELSE 0)
                    - (IF EventsOf(t) \cap EXIT_EVENTS # {} THEN 1 ELSE 0)]
     /\ clocks' = [t \in Tickets |->
          clocks[t] \cup UNION {ClocksAfter(t, e) : e \in EventsOf(t)}]
     /\ samples' = [t \in Tickets |->
          IF EventsOf(t) \cap FINISH_EVENTS # {} /\ "serviceStartedAt" \in clocks[t]
            THEN samples[t] + 1 ELSE samples[t]]

(* What a step makes of the dates of a ticket, whatever row it writes.     *)
Dates ==
  /\ servedToday' = {t \in Tickets :
       /\ tickets'[t].started
       /\ \/ t \in servedToday
          \/ tickets'[t].state = "IN_SERVICE" /\ tickets[t].state # "IN_SERVICE"}
  /\ enteredToday' = enteredToday \cup
       {t \in Tickets : tickets'[t].state = "WAITING" /\ tickets[t].state \notin ACTIVE_STATES}

(* The rows of the trail about tickets that a handler writes.              *)
Writes(rows) == Log(rows) /\ Dates

(* The rows of the date that ends are not among those of the next one.     *)
NextWindow ==
  /\ clocks' = [t \in Tickets |-> {}]
  /\ samples' = [t \in Tickets |-> 0]
  /\ servedToday' = {} /\ enteredToday' = {}
  /\ UNCHANGED within

-----------------------------------------------------------------------------
(* The rows of each handler *)

TicketRow(t, event) ==
  CASE event = "ticket_created" -> \E r \in Reps, p \in BOOLEAN : Create(t, r, p)
    [] event = "ticket_restored" -> Restore(t)
    [] event = "service_started" ->
         AdvanceToInService(t) \/ \E o \in Operators : StartService(t, o)
    [] event = "service_finished" ->
         \/ CompleteService(t) \/ Correct(t, "FINISHED")
         \/ \E o \in Operators : FinishService(t, o)
    [] event = "ticket_cancelled" -> SelfCancel(t) \/ Cancel(t) \/ Correct(t, "CANCELLED")
    [] event = "ticket_marked_no_show" -> \E o \in Operators : NoShow(t, o)
    [] event = "ticket_auto_no_show" -> ExpireCall(t)

RowKinds ==
  {"ticket_created", "ticket_restored", "service_started", "service_finished",
   "ticket_cancelled", "ticket_marked_no_show", "ticket_auto_no_show"}

(* Rows of none of these kinds: recalls, pauses, priorities, counters; and *)
(* a tolerance that elapses.                                               *)
OtherHandler ==
  \/ \E t \in Tickets :
       \/ ToleranceElapses(t)
       \/ PauseTicket(t) \/ ResumeTicket(t) \/ ExpirePause(t)
       \/ \E user \in Operators \cup {Staff} : StaffPause(t, user) \/ StaffResume(t, user)
       \/ \E p \in BOOLEAN : SetTicketPriority(t, p)
       \/ \E o \in Operators : Recall(t, o)
  \/ \E c \in Counters, o \in Operators :
       \/ OpenCounter(c, o) \/ CloseCounter(c, o)
       \/ PauseCounterTx(c, o) \/ ResumeCounterTx(c, o)

CallRow(c, o) ==
  /\ CallNext(c, o)
  /\ Writes({<<t, "ticket_called">> : t \in {u \in Tickets : tickets'[u].state # tickets[u].state}})

\* Fault: a forced release always records an absence.
ReleaseEventAlwaysNoShow(seen) == "ticket_marked_no_show"

ReleaseEvent(seen) ==
  IF seen = "IN_SERVICE" THEN "service_force_finished" ELSE "ticket_marked_no_show"

(* A release of a counter with no open ticket writes no row about one.     *)
ReleaseRow(c) ==
  \E open \in FirstOpenTicket(c) :
    LET seen == IF open = None THEN None ELSE tickets[open].state
    IN /\ ForceReleaseTx(c, open, seen)
       /\ Writes(IF open = None THEN {} ELSE {<<open, ReleaseEvent(seen)>>})

DayRows ==
  \/ OpenDay /\ Writes({<<t, "ticket_force_closed">> : t \in StaleTickets(today)})
  \/ CloseDay /\ Writes({<<t, "service_force_finished">> : t \in InDay(today, {"IN_SERVICE"})})

-----------------------------------------------------------------------------

AuditNext ==
  \/ \E t \in Tickets, event \in RowKinds : TicketRow(t, event) /\ Writes({<<t, event>>})
  \/ \E c \in Counters : ReleaseRow(c) \/ \E o \in Operators : CallRow(c, o)
  \/ DayRows
  \/ OtherHandler /\ Writes({})
  \/ Midnight /\ NextWindow

AuditSpec == AuditInit /\ [][AuditNext]_tvars

-----------------------------------------------------------------------------
(* What the figures of a day must be *)

(* Entries recorded (created, restored) less exits recorded (finished,     *)
(* cancelled, absent, force-closed) are the tickets that are active: no    *)
(* handler changes a ticket without its row, or writes it twice.           *)
TrailBalances ==
  \A t \in Tickets : within[t] = IF tickets[t].state \in ACTIVE_STATES THEN 1 ELSE 0

(* The tickets whose service the panel averages.                           *)
AveragedByPanel == {t \in Tickets : tickets[t].state = "FINISHED" /\ t \in servedToday}

(* The metrics of a date, from the audit rows, measure the services the    *)
(* panel averages from the columns of the tickets, each of them once and   *)
(* no others: those that began and ended on that date, whoever ended them, *)
(* however often the ticket was paused, called again or restored.  Of a    *)
(* ticket that also joined the line on that date the wait and the call are *)
(* measured with it.  A service that midnight divides is in neither.       *)
MetricsAgreeWithPanel ==
  \A t \in Tickets :
    /\ samples[t] = IF t \in AveragedByPanel THEN 1 ELSE 0
    /\ t \in AveragedByPanel \cap enteredToday =>
         {"waitingSince", "calledAt", "waitCounted"} \subseteq clocks[t]

(* Every service that is finished is measured with the date it ends on,    *)
(* as the figures of the services (docs/mvp.md:923-924) are of those       *)
(* finished.  It fails when midnight divides the service: the ticket is    *)
(* counted as finished, and in the average of neither date.                *)
FinishedIsMeasured ==
  [][\A t \in Tickets :
       tickets[t].state # "FINISHED" /\ tickets'[t].state = "FINISHED" => samples'[t] = 1]_tvars

==============================================================================
