----------------------------- MODULE StaffScreens -----------------------------
(***************************************************************************)
(* The operation page of each operator and the management page, over the   *)
(* whole requests of TicketQueue.  Here the staff reach the server only    *)
(* through what a page offers.                                             *)
(*                                                                         *)
(* A page is a function of the overview it last loaded, so what it offers  *)
(* is an operator over the rows.  A command is chosen on the rows of one   *)
(* moment and reaches the server at a later one: the overview was old, the *)
(* request was slow, or a dialog with the ticket of the click stayed open. *)
(***************************************************************************)
EXTENDS TicketQueue

VARIABLES
  picked,   \* picked[o]: counterId, kept in sessionStorage
  asked     \* asked[u]: the command u has chosen, not yet at the server

Users == Operators \cup {Staff}
screens == <<picked, asked>>
wvars == <<vars, picked, asked>>

CounterCommands ==
  {"open", "call-next", "pause-counter", "resume-counter", "close", "force-release"}
TicketCommands ==
  {"start-service", "recall", "no-show", "finish-service", "staff-pause",
   "staff-resume", "mark-priority", "unmark-priority", "cancel", "restore",
   "correct-finish", "correct-cancel"}

(* "seen" is the state the page showed of the ticket or the counter.       *)
Command ==
  [kind: CounterCommands \cup TicketCommands \cup {"toggle-day"},
   on: Tickets \cup Counters \cup {None},
   seen: TicketState \cup CounterState \cup {"DAY_OPEN", "DAY_CLOSED"}]

OnTicket(t, kinds) == {[kind |-> k, on |-> t, seen |-> tickets[t].state] : k \in kinds}
OnCounter(c, kinds) == {[kind |-> k, on |-> c, seen |-> counters[c].state] : k \in kinds}
OnDay ==
  {[kind |-> "toggle-day", on |-> None,
    seen |-> IF er.isDayOpen THEN "DAY_OPEN" ELSE "DAY_CLOSED"]}

PriorityToggle(t) == IF tickets[t].priority THEN "unmark-priority" ELSE "mark-priority"

If(condition, commands) == IF condition THEN commands ELSE {}

ScreensTypeOK ==
  /\ TypeOK
  /\ picked \in [Operators -> Counters \cup {None}]
  /\ asked \in [Users -> Command \cup {None}]

ScreensInit ==
  /\ Init
  /\ picked = [o \in Operators |-> None]
  /\ asked = [u \in Users |-> None]

(* getQueueOverview: the tickets of the queue of today.                    *)
Listed(states) == {t \in Tickets : tickets[t].state \in states /\ tickets[t].day = today}

-----------------------------------------------------------------------------
(* OperationPage *)

\* Fault: the page keeps the counter it remembers.
CounterAfterRefreshRemembered(o) == picked[o]

(* refreshOverview: the counter the operator holds, if any, is picked.     *)
CounterAfterRefresh(o) ==
  IF \E c \in Counters : counters[c].operator = o
    THEN CHOOSE c \in Counters : counters[c].operator = o
    ELSE picked[o]

CurrentTicket(c) == {t \in Listed(AT_COUNTER) : c # None /\ tickets[t].counter = c}

IsOwnCounter(o, c) == c # None /\ counters[c].operator = o

CanCallNext(o, c) ==
  /\ IsOwnCounter(o, c) /\ counters[c].state = "ACTIVE"
  /\ CurrentTicket(c) = {} /\ er.isDayOpen

\* Fault: the queue may be managed from a paused counter.
CanManageQueueWhilePaused(o, c) == IsOwnCounter(o, c)

CanManageQueue(o, c) == IsOwnCounter(o, c) /\ counters[c].state # "PAUSED"

CounterCard(o, c) ==
  IF c = None THEN {}
  ELSE LET own == IsOwnCounter(o, c)
           state == counters[c].state
       IN If(counters[c].operator = None /\ er.isDayOpen, OnCounter(c, {"open"}))
          \cup If(CanCallNext(o, c), OnCounter(c, {"call-next"}))
          \cup If(own /\ state = "ACTIVE", OnCounter(c, {"pause-counter"}))
          \cup If(own /\ state = "PAUSED", OnCounter(c, {"resume-counter"}))
          \cup If(own /\ state \in {"ACTIVE", "PAUSED"} /\ CurrentTicket(c) = {},
                  OnCounter(c, {"close"}))

(* Whoever's the ticket at the picked counter is.                          *)
CurrentTicketCard(c) ==
  UNION {OnTicket(t, IF tickets[t].state = "CALLING"
                       THEN {"start-service", "recall", "staff-pause", "no-show"}
                       ELSE {"finish-service", "staff-pause"}) : t \in CurrentTicket(c)}

QueueLists(o, c) ==
  If(CanManageQueue(o, c),
     (UNION {OnTicket(t, {PriorityToggle(t), "staff-pause"}) : t \in Listed({"WAITING"})})
     \cup (UNION {OnTicket(t, {PriorityToggle(t), "staff-resume"}) : t \in Listed({"PAUSED"})}))

OperationPage(o, c) == CounterCard(o, c) \cup CurrentTicketCard(c) \cup QueueLists(o, c)

-----------------------------------------------------------------------------
(* ManagerPage *)

CanRestore(t) ==
  \/ tickets[t].state = "NO_SHOW"
  \/ tickets[t].state = "CANCELLED" /\ ~tickets[t].started

(* A service is resolved by /correct and never by /cancel.                 *)
ActiveTicketMenu(t) ==
  OnTicket(t, {"staff-pause"})
  \cup If(tickets[t].state = "WAITING", OnTicket(t, {PriorityToggle(t)}))
  \cup (IF tickets[t].state = "IN_SERVICE"
          THEN OnTicket(t, {"correct-finish", "correct-cancel"})
          ELSE OnTicket(t, {"cancel"}))

ManagerPage ==
  (UNION {ActiveTicketMenu(t) : t \in Listed({"WAITING", "CALLING", "IN_SERVICE"})})
  \cup (UNION {OnTicket(t, {"staff-resume", PriorityToggle(t)}) : t \in Listed({"PAUSED"})})
  \cup (UNION {OnTicket(t, {"restore"}) :
                 t \in {u \in Listed({"NO_SHOW", "CANCELLED"}) : er.isDayOpen /\ CanRestore(u)}})
  \cup (UNION {OnCounter(c, {"force-release"}) :
                 c \in {d \in Counters : counters[d].state # "UNAVAILABLE"}})
  \cup OnDay

Page(u) == IF u = Staff THEN ManagerPage ELSE OperationPage(u, picked[u])

-----------------------------------------------------------------------------

(* The handler of a command, on the rows it finds.  The dialog of the day  *)
(* follows the refreshes: it may have turned into the other one.           *)
Handle(u, command) ==
  LET t == command.on
      c == command.on
  IN CASE command.kind = "open" -> OpenCounter(c, u)
       [] command.kind = "call-next" -> CallNext(c, u)
       [] command.kind = "pause-counter" -> PauseCounterTx(c, u)
       [] command.kind = "resume-counter" -> ResumeCounterTx(c, u)
       [] command.kind = "close" -> CloseCounter(c, u)
       [] command.kind = "force-release" -> ForceRelease(c)
       [] command.kind = "start-service" -> StartService(t, u)
       [] command.kind = "recall" -> Recall(t, u)
       [] command.kind = "no-show" -> NoShow(t, u)
       [] command.kind = "finish-service" -> FinishService(t, u)
       [] command.kind = "staff-pause" -> StaffPause(t, u)
       [] command.kind = "staff-resume" -> StaffResume(t, u)
       [] command.kind = "mark-priority" -> SetTicketPriority(t, TRUE)
       [] command.kind = "unmark-priority" -> SetTicketPriority(t, FALSE)
       [] command.kind = "cancel" -> Cancel(t)
       [] command.kind = "restore" -> Restore(t)
       [] command.kind = "correct-finish" -> Correct(t, "FINISHED")
       [] command.kind = "correct-cancel" -> Correct(t, "CANCELLED")
       [] command.kind = "toggle-day" -> OpenDay \/ CloseDay

Refresh(o) ==
  /\ picked' = [picked EXCEPT ![o] = CounterAfterRefresh(o)]
  /\ UNCHANGED <<vars, asked>>

(* The list is locked while a ticket is at the counter, and offers what is *)
(* free or hers.                                                           *)
SelectCounter(o, c) ==
  /\ CurrentTicket(picked[o]) = {}
  /\ c # None => counters[c].operator \in {None, o}
  /\ picked' = [picked EXCEPT ![o] = c]
  /\ UNCHANGED <<vars, asked>>

(* A click, or the dialog it opens.                                        *)
Ask(u) ==
  /\ asked[u] = None
  /\ \E command \in Page(u) : asked' = [asked EXCEPT ![u] = command]
  /\ UNCHANGED <<vars, picked>>

(* act and execute: a closed counter is picked no more.                    *)
Send(u) ==
  /\ asked[u] # None
  /\ Handle(u, asked[u])
  /\ asked' = [asked EXCEPT ![u] = None]
  /\ picked' = IF asked[u].kind = "close" THEN [picked EXCEPT ![u] = None] ELSE picked

(* The dialog is left, or the server refuses.                              *)
Drop(u) ==
  /\ asked[u] # None
  /\ asked' = [asked EXCEPT ![u] = None]
  /\ UNCHANGED <<vars, picked>>

(* Phones, check-in, another manager, the integration and the timeouts.    *)
Outside ==
  /\ \/ RepresentativeNext \/ DayNext \/ Clock
     \/ \E t \in Tickets :
          AdvanceToInService(t) \/ CompleteService(t) \/ ExpireCall(t) \/ ExpirePause(t)
  /\ UNCHANGED screens

ScreensNext ==
  \/ Outside
  \/ \E o \in Operators : Refresh(o) \/ \E c \in Counters \cup {None} : SelectCounter(o, c)
  \/ \E u \in Users : Ask(u) \/ Send(u) \/ Drop(u)

ScreensSpec == ScreensInit /\ [][ScreensNext]_wvars

-----------------------------------------------------------------------------
(* What the pages must do *)

(* The counter on the page is hers or free, and she holds no other.        *)
AtHerCounter(o) ==
  /\ picked[o] = CounterAfterRefresh(o)
  /\ picked[o] # None => counters[picked[o]].operator \in {None, o}

(* Nobody in the line, or the bound on places: no fault of the page.       *)
NothingToCall(command) ==
  \/ command.kind = "call-next" /\ Waiting(today) = {}
  \/ command.kind = "restore" /\ queues[today].nextSequence = MaxSequence

(* A closed day has a line again once a pause that ran out after midnight  *)
(* is put in the queue of the new date.  The management page offers its    *)
(* pauses all the same, and the handlers refuse them.                      *)
PausesOfClosedDay(command) ==
  ~er.isDayOpen /\ command.kind \in {"staff-pause", "staff-resume"}

(* Pages and handlers repeat each other's rules: who may pause a ticket,   *)
(* from which counter, what can be restored.  A button offered on fresh    *)
(* data is not refused (but for the day, whose closing people in the line  *)
(* block, a restore of somebody who has another ticket, and the pauses of  *)
(* a closed day).                                                          *)
OfferedMeansAccepted ==
  \A u \in Users :
    u = Staff \/ AtHerCounter(u) =>
      \A command \in Page(u) :
        \/ command.kind = "toggle-day" \/ NothingToCall(command) \/ PausesOfClosedDay(command)
        \/ command.kind = "restore" /\ HasActiveTicket(tickets[command.on].rep, {})
        \/ ENABLED Handle(u, command)

(* An operator with a ticket called or in service finds it on her page     *)
(* after a refresh, whatever counter the page remembered, with the button  *)
(* that goes on with it.                                                   *)
OpenTicketIsOnHerPage ==
  er.isDayOpen =>
    \A t \in Listed(AT_COUNTER) :
      LET o == tickets[t].operator
      IN \E command \in OperationPage(o, CounterAfterRefresh(o)) :
           /\ command.on = t /\ command.kind \in {"start-service", "finish-service"}
           /\ ENABLED Handle(o, command)

(* ManagerPage.tsx:180-183: a ticket in service is not resolved by /cancel,*)
(* which would record a real service as cancelled for good.                *)
CancelNeverEndsAService ==
  [][asked[Staff] # None /\ asked[Staff].kind = "cancel" /\ asked'[Staff] = None =>
       \A t \in Tickets :
         tickets[t].state = "IN_SERVICE" => tickets'[t].state # "CANCELLED"]_wvars

==============================================================================
