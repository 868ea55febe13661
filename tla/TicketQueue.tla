----------------------------- MODULE TicketQueue -----------------------------
(***************************************************************************)
(* The ticket queue of one ER when requests do not overlap: each action is *)
(* a whole handler, from the reads and checks before its transaction to    *)
(* the commit.  A handler that refuses the request changes none of these   *)
(* rows, so refusals are not actions.                                      *)
(*                                                                         *)
(* What this module shows about the code holds, or fails, without any race *)
(* between requests; TicketQueueConcurrent adds the races.                 *)
(***************************************************************************)
EXTENDS TicketStore

-----------------------------------------------------------------------------
(* Representatives and check-in *)

Create(t, rep, priority) ==
  /\ er.isDayOpen
  /\ ~HasActiveTicket(rep, {})
  /\ InsertTicket(t, rep, today, priority)

SelfCancel(t) == SelfCancelTx(t)

PauseTicket(t) == PauseTx(t)

ResumeTicket(t) == ResumeInPlace(t)

-----------------------------------------------------------------------------
(* Staff *)

Cancel(t) == CancelTx(t)

Restore(t) ==
  /\ er.isDayOpen
  /\ ~HasActiveTicket(tickets[t].rep, {t})
  /\ RestoreTx(t, today)

Correct(t, target) ==
  /\ tickets[t].state = "IN_SERVICE"
  /\ CorrectTx(t, tickets[t], target)

StaffPause(t, user) ==
  /\ tickets[t].state \in {"WAITING", "CALLING", "IN_SERVICE"}
  /\ er.isDayOpen
  /\ HasActiveCounter(user, tickets[t].counter)
  /\ StaffPauseTx(t, tickets[t])

StaffResume(t, user) ==
  /\ tickets[t].state = "PAUSED"
  /\ er.isDayOpen
  /\ HasActiveCounter(user, None)
  /\ ResumeInPlace(t)

SetTicketPriority(t, isPriority) == SetTicketPriorityTx(t, isPriority)

-----------------------------------------------------------------------------
(* The operator at her counter, and the integration acting for her *)

AssignedTo(t, o) == tickets[t].counter # None /\ tickets[t].operator = o

CallNext(c, o) ==
  /\ MayCall(c, o)
  /\ queues[today].exists
  /\ \E t \in Tickets : IsHead(t, today) /\ CallTicket(t, c, o)

Recall(t, o) == AssignedTo(t, o) /\ RecallTx(t, o)

StartService(t, o) == AssignedTo(t, o) /\ TransitionToInService(t, tickets[t], o)

FinishService(t, o) == AssignedTo(t, o) /\ TransitionToFinished(t, tickets[t], o)

NoShow(t, o) == AssignedTo(t, o) /\ MarkNoShow(t, tickets[t], o)

AdvanceToInService(t) == TransitionToInService(t, tickets[t], None)

CompleteService(t) == TransitionToFinished(t, tickets[t], None)

OpenCounter(c, o) == MayOpen(c, o) /\ OpenTx(c, o)

CloseCounter(c, o) == OpenTicketsAt(c) = {} /\ CloseTx(c, o)

ForceRelease(c) ==
  \E open \in FirstOpenTicket(c) :
    ForceReleaseTx(c, open, IF open = None THEN None ELSE tickets[open].state)

-----------------------------------------------------------------------------
(* Timeouts: the cron, the 15 s interval, or the RE's own poll *)

\* Fault: the sweep joins the counter, and misses a call that has none.
ExpireCallAtACounter(t) ==
  /\ tickets[t].overdue /\ tickets[t].counter # None
  /\ ExpireCallTimeout(t, tickets[t])

ExpireCall(t) ==
  /\ tickets[t].overdue
  /\ ExpireCallTimeout(t, tickets[t])

\* Fault: the sweep stops at the first place whose pause is not over.
ExpirePauseInLineOrder(t) ==
  /\ \A u \in Tickets :
       tickets[u].state = "PAUSED" /\ tickets[u].position < tickets[t].position
       => tickets[u].overdue
  /\ tickets[t].state = "PAUSED" /\ tickets[t].overdue
  /\ ResumeToEndOfQueue(t, today)

ExpirePause(t) ==
  /\ tickets[t].state = "PAUSED" /\ tickets[t].overdue
  /\ ResumeToEndOfQueue(t, today)

-----------------------------------------------------------------------------
(* Opening and closing the day *)

OpenDay ==
  /\ ~DayAlreadyOpen(today)
  /\ OpenDayTx(today, StaleTickets(today))

CloseDay ==
  /\ er.isDayOpen
  /\ PendingTickets(today) = {}
  /\ CloseDayTx(today, InDay(today, {"IN_SERVICE"}))

-----------------------------------------------------------------------------

RepresentativeNext ==
  \E t \in Tickets :
    \/ \E rep \in Reps, priority \in BOOLEAN : Create(t, rep, priority)
    \/ SelfCancel(t)
    \/ PauseTicket(t)
    \/ ResumeTicket(t)

StaffNext ==
  \E t \in Tickets :
    \/ Cancel(t)
    \/ Restore(t)
    \/ \E target \in {"FINISHED", "CANCELLED"} : Correct(t, target)
    \/ \E user \in Operators \cup {Staff} : StaffPause(t, user) \/ StaffResume(t, user)
    \/ \E isPriority \in BOOLEAN : SetTicketPriority(t, isPriority)

ServiceNext ==
  \E t \in Tickets :
    \/ \E o \in Operators : Recall(t, o) \/ StartService(t, o) \/ FinishService(t, o) \/ NoShow(t, o)
    \/ AdvanceToInService(t)
    \/ CompleteService(t)
    \/ ExpireCall(t)
    \/ ExpirePause(t)

CounterNext ==
  \E c \in Counters :
    \/ \E o \in Operators :
         \/ CallNext(c, o)
         \/ OpenCounter(c, o)
         \/ PauseCounterTx(c, o)
         \/ ResumeCounterTx(c, o)
         \/ CloseCounter(c, o)
    \/ ForceRelease(c)

DayNext == OpenDay \/ CloseDay

Next ==
  \/ RepresentativeNext
  \/ StaffNext
  \/ ServiceNext
  \/ CounterNext
  \/ DayNext
  \/ Clock

Spec == Init /\ [][Next]_vars

(* Every request leaves the rows of the store as the next one needs them.  *)
(* Without overlaps this is inductive: TicketQueueProofs proves it.        *)
RowsAreConsistent ==
  /\ TypeOK
  /\ OneActivePerRep
  /\ OneOpenTicketPerOperator
  /\ OpenTicketsAreAssigned
  /\ QueuedTicketsHoldNoCounter
  /\ PlacesAreUnique
  /\ OwnersAreUnique
  /\ DatesAreOrdered
  /\ ClosedDayLeavesNoOwner
  /\ ClosedDayLeavesOnlyEarlierCalls
  /\ OpenedTodayLeavesNoStaleTicket
  /\ CounterServesItsTicket

-----------------------------------------------------------------------------
(* What a step may never do *)

(* A ticket that enters the line from outside it, or that is given a new   *)
(* place, goes behind every ticket of its queue and its priority that is   *)
(* in the line or has its place reserved by a pause.                       *)
EntersBehind(t) ==
  /\ tickets'[t].state = "WAITING"
  /\ \/ tickets[t].state \in {"ABSENT", "NO_SHOW", "CANCELLED"}
     \/ tickets[t].position # tickets'[t].position
  => \A u \in Tickets \ {t} :
       /\ tickets'[u].state \in {"WAITING", "PAUSED"}
       /\ tickets'[u].day = tickets'[t].day
       /\ tickets'[u].priority = tickets'[t].priority
       => tickets'[u].position < tickets'[t].position

NewcomersQueueBehind == [][\A t \in Tickets : EntersBehind(t)]_vars

(* A ticket whose service ended, or was cancelled after it began, never    *)
(* leaves that state: restore cannot bring it back into the metrics.       *)
ServedTicketNeverReturns ==
  [][\A t \in Tickets :
       \/ tickets[t].state = "FINISHED"
       \/ tickets[t].state = "CANCELLED" /\ tickets[t].started
       => tickets'[t].state = tickets[t].state]_vars

-----------------------------------------------------------------------------
(* Statements of the repository that the code does not keep: TLC finds     *)
(* each of them violated.                                                  *)

(* er.service.ts:68-70: opening the day conflicts only when the day of     *)
(* today is already open; a flag left from a day never closed is no        *)
(* conflict.                                                               *)
ConflictMeansOpenedToday == DayAlreadyOpen(today) => er.dayOpenedOn = today

(* docs/mvp.md:580-581: tickets waiting, called or paused keep blocking    *)
(* the closing of the day.                                                 *)
ClosingTheDayLeavesNobodyInLine ==
  [][er.isDayOpen /\ ~er'.isDayOpen =>
       \A t \in Tickets : tickets[t].state \notin {"WAITING", "CALLING", "PAUSED"}]_vars

(* er.service.ts:209-210 and docs/mvp.md:584-586: no counter stays open    *)
(* with the operation of the day closed.  An opening that overlaps the     *)
(* closing breaks it; so does, without any overlap, the end of a ticket    *)
(* that a closing after midnight left at its counter.                      *)
ClosedDayShutsEveryCounter ==
  ~er.isDayOpen => \A c \in Counters : counters[c].state = "UNAVAILABLE"

(* ticket.service.ts:1138-1140 and 1167-1170: a resumed ticket, resumed by *)
(* the RE, by the staff or by the expiry, is linked to the queue of today, *)
(* or it would be stuck in a queue callNext never reads.                   *)
ResumedTicketIsInTodaysQueue ==
  [][\A t \in Tickets :
       tickets[t].state = "PAUSED" /\ tickets'[t].state = "WAITING"
       => tickets'[t].day = today]_vars

==============================================================================
