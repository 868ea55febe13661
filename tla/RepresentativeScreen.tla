------------------------- MODULE RepresentativeScreen -------------------------
(***************************************************************************)
(* The phone of one representative: the entry page, the ticket page and    *)
(* what the tab keeps in sessionStorage.  The desk on the other side is    *)
(* ServiceDesk, which TicketQueue implements: anything it allows may       *)
(* happen between two steps of the phone.                                  *)
(*                                                                         *)
(* Requests are sent, handled and answered in three steps, so an answer    *)
(* may be older than what the screen shows when it arrives.  Countdowns    *)
(* compare a date of the server with the clock of the phone, which may     *)
(* differ and may not know of a recall: one can reach zero at any time.    *)
(***************************************************************************)
EXTENDS ServiceDesk

CONSTANTS
  Me,         \* the representative of the phone
  LinkEntry,  \* the entry token is of a link, not of a QR code
  Overlap     \* bound: a refetch and a command may be under way at once

ASSUME PhoneAssumption == Me \in Reps /\ Tickets # {}

VARIABLES
  latest,     \* the ticket of Me created last
  session,    \* sessionStorage: token, pending intent, entry channel
  page,       \* the route
  entry,      \* state of QueueEntryPage
  screen,     \* TicketConfirmationPage: ticket, error without one, prevStateRef
  load,       \* the request of the entry effect
  poll,       \* the poll loop
  refetch,    \* refetchMyStatus after the countdown of a pause
  command,    \* pause, resume or self-cancel (actionLoading)
  meant,      \* history: she asked to enter and nothing was posted for it yet
  rung        \* history: the call on the screen has rung

deskAndLatest == <<life, holder, server, latest>>
requests == <<load, poll, refetch, command>>
phone == <<session, page, entry, screen, load, poll, refetch, command, meant, rung>>
svars == <<life, holder, server, latest, session, page, entry, screen,
           load, poll, refetch, command, meant, rung>>

-----------------------------------------------------------------------------
(* Rows and requests *)

TicketState == Active \cup {"FINISHED", "NO_SHOW", "CANCELLED"}
Row == [id: Tickets, state: TicketState]

ASSUME NoneAssumption == None \notin Row

\* Fault: a service that was cancelled reads as one that ended.
RowOfServed(t, stage) ==
  [id |-> t, state |-> IF stage = "VOID" THEN "FINISHED" ELSE stage]

RowOf(t, stage) ==
  [id |-> t, state |-> IF stage = "VOID" THEN "CANCELLED" ELSE stage]

(* The answers that carry no row. *)
Refused == [id |-> None, state |-> "REFUSED"]
Conflict == [id |-> None, state |-> "CONFLICT"]
NothingFound == [id |-> None, state |-> "NOT_FOUND"]
Answers == Row \cup {Refused, Conflict, NothingFound}

Idle == [call |-> "none", answer |-> None]
Scheduled == [call |-> "scheduled", answer |-> None]
Request(call) == [call |-> call, answer |-> None]
Command(call, t) == [call |-> call, on |-> t, answer |-> None]

Calls(names) ==
  [call: names \cup {"none"}, answer: Answers \cup {None}]
Commands ==
  [call: {"pause", "resume", "self-cancel"}, on: Tickets, answer: Answers \cup {None}]

InFlight(request) ==
  request.call \notin {"none", "scheduled"} /\ request.answer = None
Answered(request) == request.answer # None
HasRow(request) == request.answer \in Row

NewEntry ==
  [er |-> "loading", view |-> "login", guest |-> FALSE, confirmed |-> FALSE,
   fallback |-> FALSE, sending |-> "no"]
NewScreen == [ticket |-> None, error |-> FALSE, prev |-> None]

Forms == {"guest", "login", "register"}

ScreenTypeOK ==
  /\ DeskTypeOK
  /\ latest \in Tickets \cup {None}
  /\ session \in [token: BOOLEAN, pending: BOOLEAN, channel: BOOLEAN]
  /\ page \in {"ENTRY", "TICKET"}
  /\ entry \in [er: {"loading", "unknown", "closed", "open"}, view: Forms,
                guest: BOOLEAN, confirmed: BOOLEAN, fallback: BOOLEAN,
                sending: Forms \cup {"no"}]
  /\ screen \in [ticket: Row \cup {None}, error: BOOLEAN,
                 prev: TicketState \cup {None}]
  /\ load \in Calls({"effect", "post", "my-active", "my-status"})
  /\ poll \in Calls({"scheduled", "my-status"})
  /\ refetch \in Calls({"scheduled", "my-status"})
  /\ command \in Commands \cup {Idle}
  /\ meant \in BOOLEAN /\ rung \in BOOLEAN

ScreenInit ==
  /\ DeskInit /\ latest = None
  /\ session = [token |-> FALSE, pending |-> FALSE, channel |-> FALSE]
  /\ page = "ENTRY" /\ entry = NewEntry /\ screen = NewScreen
  /\ load = Idle /\ poll = Idle /\ refetch = Idle /\ command = Idle
  /\ meant = FALSE /\ rung = FALSE

-----------------------------------------------------------------------------
(* Routes.  Leaving a page drops what was in flight: what the server still *)
(* does with it is one more step of the desk.                              *)

Unmount ==
  /\ screen' = NewScreen /\ rung' = FALSE
  /\ poll' = Idle /\ refetch' = Idle /\ command' = Idle

GoToEntry ==
  /\ page' = "ENTRY" /\ entry' = NewEntry /\ load' = Idle
  /\ Unmount

GoToTicket ==
  /\ page' = "TICKET" /\ entry' = NewEntry /\ load' = Request("effect")
  /\ Unmount

Reload ==
  /\ IF page = "ENTRY" THEN GoToEntry ELSE GoToTicket
  /\ UNCHANGED <<deskAndLatest, session, meant>>

\* The entry link again, or the page of the ticket by its address.
Navigate ==
  /\ GoToEntry \/ GoToTicket
  /\ UNCHANGED <<deskAndLatest, session, meant>>

NewTab ==
  /\ GoToEntry
  /\ session' = [token |-> FALSE, pending |-> FALSE, channel |-> FALSE]
  /\ meant' = FALSE
  /\ UNCHANGED deskAndLatest

-----------------------------------------------------------------------------
(* QueueEntryPage *)

InEntry == page = "ENTRY" /\ UNCHANGED <<deskAndLatest, screen, requests, rung>>

SetEntry(e) == entry' = e /\ UNCHANGED <<session, page, meant>>

(* Guest entry, where the ER allows it, is the first view.                 *)
LoadER ==
  /\ InEntry /\ entry.er = "loading"
  /\ \/ \E open, guest \in BOOLEAN :
          SetEntry([entry EXCEPT !.er = IF open THEN "open" ELSE "closed",
                      !.guest = guest, !.view = IF guest THEN "guest" ELSE @])
     \/ SetEntry([entry EXCEPT !.er = "unknown"])

ToggleConfirmation ==
  /\ InEntry /\ entry.er = "open" /\ LinkEntry
  /\ SetEntry([entry EXCEPT !.confirmed = ~@])

(* The tabs, the way back to the guest form, and the way from it to the    *)
(* login once the guest entry was refused.                                 *)
SelectView(view) ==
  /\ InEntry
  /\ CASE view = "guest" -> entry.guest /\ entry.view # "guest"
       [] view = "login" -> entry.view = "register" \/ entry.fallback
       [] view = "register" -> entry.view = "login"
  /\ SetEntry([entry EXCEPT !.view = view])

EditGuestField ==
  /\ InEntry /\ entry.view = "guest" /\ entry.fallback
  /\ SetEntry([entry EXCEPT !.fallback = FALSE])

IsEntryBlocked ==
  \/ entry.sending # "no"
  \/ entry.er # "open"
  \/ LinkEntry /\ ~entry.confirmed

Submit(form) ==
  /\ InEntry /\ entry.view = form /\ ~IsEntryBlocked
  /\ session' = [session EXCEPT !.channel = TRUE]
  /\ entry' = [entry EXCEPT !.sending = form]
  /\ UNCHANGED <<page, meant>>

(* completeEntry: clearSession keeps what belongs to the entry.            *)
CompleteEntry ==
  /\ page = "ENTRY" /\ entry.sending # "no"
  /\ session' = [session EXCEPT !.token = TRUE, !.pending = TRUE]
  /\ meant' = TRUE
  /\ GoToTicket
  /\ UNCHANGED deskAndLatest

(* Only a guest whose CPF is registered (409), or who is not allowed any   *)
(* more (403), is offered the login.                                       *)
EntryRefused ==
  /\ InEntry /\ entry.sending # "no"
  /\ \E fallback \in IF entry.sending = "guest" THEN {entry.fallback, TRUE} ELSE {entry.fallback} :
       SetEntry([entry EXCEPT !.sending = "no", !.fallback = fallback])

-----------------------------------------------------------------------------
(* What the ticket page does with a row: setTicket and the effects that    *)
(* run on it.                                                              *)

\* Fault: the loop stops at every final state, restorable or not.
StopsPollingAt == {"FINISHED", "CANCELLED", "NO_SHOW"}
PollOfTerminal(row) == IF row.state \in StopsPollingAt THEN Idle ELSE Scheduled

(* Only FINISHED is final: the others may be restored.                     *)
PollOf(row) == IF row.state = "FINISHED" THEN Idle ELSE Scheduled

SameTicket(row) ==
  /\ screen.ticket # None
  /\ screen.ticket.id = row.id /\ screen.ticket.state = row.state

\* Fault: the previous state is noted before it is compared.
RingsAfterNoting(row) == row.state = "CALLING" /\ row.state # "CALLING"

(* The alert: on the way into CALLING, never on the first load.            *)
Rings(row) == row.state = "CALLING" /\ screen.prev \notin {None, "CALLING"}

(* The poll effect depends on the state and the id: it restarts, dropping  *)
(* the answer under way, when either changes.                              *)
Show(row, samePoll) ==
  /\ screen' = [ticket |-> row, error |-> FALSE, prev |-> row.state]
  /\ rung' = (row.state = "CALLING" /\ (rung \/ Rings(row)))
  /\ poll' = IF SameTicket(row) THEN samePoll ELSE PollOf(row)

OnTicket == page = "TICKET" /\ UNCHANGED <<entry, page, session, meant>>
NoDeskStep == UNCHANGED deskAndLatest

Quiet(request) == request.call \in {"none", "scheduled"}

-----------------------------------------------------------------------------
(* The entry effect *)

\* Fault: the intent is looked at and stays for the next reload.
AfterConsumingNothing == session

(* consumeQueueEntryPending: one shot.                                     *)
AfterConsuming == [session EXCEPT !.pending = FALSE]

(* A deliberate entry posts, anything else only reads.                     *)
EntryEffect ==
  /\ page = "TICKET" /\ load.call = "effect"
  /\ NoDeskStep
  /\ \/ /\ ~session.token
        /\ GoToEntry /\ UNCHANGED <<session, meant>>
     \/ /\ session.token /\ session.pending /\ ~session.channel
        /\ session' = AfterConsuming
        /\ GoToEntry /\ UNCHANGED meant
     \/ /\ session.token /\ session.pending /\ session.channel
        /\ session' = AfterConsuming
        /\ load' = Request("post") /\ meant' = FALSE
        /\ UNCHANGED <<page, entry, screen, poll, refetch, command, rung>>
     \/ /\ session.token /\ ~session.pending
        /\ load' = Request("my-status")
        /\ UNCHANGED <<session, page, entry, screen, poll, refetch, command, meant, rung>>

Answer(request, answer) == [request EXCEPT !.answer = answer]

ActiveTicket == {t \in Tickets : holder[t] = Me /\ life[t] \in Active}

(* A read resolves the call or the pause of its ticket if that is overdue. *)
ResolveOnRead(t) ==
  \/ NoDeskStep
  \/ life[t] = "CALLING" /\ Miss({t}) /\ UNCHANGED latest
  \/ Return(t) /\ UNCHANGED latest

(* GET /tickets/my-status                                                  *)
MyStatus(answer) ==
  \/ latest = None /\ answer = NothingFound /\ NoDeskStep
  \/ latest # None /\ ResolveOnRead(latest) /\ answer = RowOf(latest, life'[latest])

(* GET /tickets/my-active                                                  *)
MyActive(answer) ==
  \/ ActiveTicket = {} /\ answer = NothingFound /\ NoDeskStep
  \/ \E t \in ActiveTicket :
       /\ ResolveOnRead(t)
       /\ answer = IF life'[t] \in Active THEN RowOf(t, life'[t]) ELSE NothingFound

(* Ids are interchangeable: which one a new ticket gets does not matter.   *)
NextId == CHOOSE t \in Tickets : life[t] = "ABSENT" \/ \A u \in Tickets : life[u] # "ABSENT"

(* POST /tickets.  A closed day, an ER or a token no longer valid refuse.  *)
PostTicket(answer) ==
  \/ Join(NextId, Me) /\ latest' = NextId /\ answer = RowOf(NextId, "WAITING")
  \/ ActiveTicket # {} /\ answer = Conflict /\ NoDeskStep
  \/ answer = Refused /\ NoDeskStep

LoadHandled ==
  /\ OnTicket /\ InFlight(load) /\ load.call # "effect"
  /\ \E answer \in Answers :
       /\ CASE load.call = "post" -> PostTicket(answer)
            [] load.call = "my-active" -> MyActive(answer)
            [] load.call = "my-status" -> MyStatus(answer)
       /\ load' = Answer(load, answer)
  /\ UNCHANGED <<screen, poll, refetch, command, rung>>

(* The answer never came, or is a 5xx or a 401.                            *)
LoadLost ==
  /\ OnTicket /\ InFlight(load) /\ load.call # "effect"
  /\ load' = Answer(load, Refused)
  /\ UNCHANGED <<deskAndLatest, screen, poll, refetch, command, rung>>

\* Fault: a page without a ticket stays where it is.
NotFoundStays == OnTicket /\ load' = Idle /\ UNCHANGED <<screen, poll, refetch, command, rung>>

(* No ticket at all: she should not be on this page.                       *)
NotFound == GoToEntry /\ UNCHANGED <<session, meant>>

LoadArrives ==
  /\ page = "TICKET" /\ Answered(load)
  /\ NoDeskStep
  /\ \/ /\ HasRow(load) /\ OnTicket
        /\ load' = Idle
        /\ Show(load.answer, poll) /\ UNCHANGED <<refetch, command>>
     \/ /\ load.call = "post" /\ load.answer = Conflict /\ OnTicket
        /\ load' = Request("my-active")
        /\ UNCHANGED <<screen, poll, refetch, command, rung>>
     \/ load.call = "my-status" /\ load.answer = NothingFound /\ NotFound
     \/ /\ \/ load.answer = Refused
           \/ load.call = "my-active" /\ load.answer = NothingFound
        /\ OnTicket /\ load' = Idle /\ screen' = [screen EXCEPT !.error = TRUE]
        /\ UNCHANGED <<poll, refetch, command, rung>>

-----------------------------------------------------------------------------
(* The poll loop: one request at a time, the next one scheduled when it    *)
(* ends, after a longer wait if it was rate limited.                       *)

PollTick ==
  /\ OnTicket /\ poll = Scheduled
  /\ poll' = Request("my-status")
  /\ UNCHANGED <<deskAndLatest, screen, load, refetch, command, rung>>

PollHandled ==
  /\ OnTicket /\ InFlight(poll)
  /\ \E answer \in Answers : MyStatus(answer) /\ poll' = Answer(poll, answer)
  /\ UNCHANGED <<screen, load, refetch, command, rung>>

(* Errors are ignored; the screen stays with the last state it knows.      *)
PollFails ==
  /\ OnTicket /\ InFlight(poll)
  /\ poll' = Scheduled
  /\ UNCHANGED <<deskAndLatest, screen, load, refetch, command, rung>>

PollArrives ==
  /\ OnTicket /\ Answered(poll)
  /\ IF HasRow(poll)
       THEN Show(poll.answer, Scheduled)
       ELSE poll' = Scheduled /\ UNCHANGED <<screen, rung>>
  /\ UNCHANGED <<deskAndLatest, load, refetch, command>>

-----------------------------------------------------------------------------
(* Countdowns *)

\* Fault: the screen gives the expired call a state of its own.
HandleCallExpiredOwnState ==
  /\ OnTicket /\ screen.ticket # None /\ screen.ticket.state = "CALLING"
  /\ Show([screen.ticket EXCEPT !.state = "EXPIRED"], poll)
  /\ UNCHANGED <<deskAndLatest, load, refetch, command>>

(* The screen says NO_SHOW before anybody else does, and goes on polling.  *)
HandleCallExpired ==
  /\ OnTicket /\ screen.ticket # None /\ screen.ticket.state = "CALLING"
  /\ Show([screen.ticket EXCEPT !.state = "NO_SHOW"], poll)
  /\ UNCHANGED <<deskAndLatest, load, refetch, command>>

HandlePauseExpired ==
  /\ OnTicket /\ screen.ticket # None /\ screen.ticket.state = "PAUSED"
  /\ refetch = Idle /\ (Overlap \/ Quiet(command))
  /\ refetch' = Request("my-status")
  /\ UNCHANGED <<deskAndLatest, screen, load, poll, command, rung>>

RefetchHandled ==
  /\ OnTicket /\ InFlight(refetch)
  /\ \E answer \in Answers : MyStatus(answer) /\ refetch' = Answer(refetch, answer)
  /\ UNCHANGED <<screen, load, poll, command, rung>>

(* Once more after 3 s, and no more than that.                             *)
RefetchFails ==
  /\ OnTicket /\ InFlight(refetch)
  /\ refetch' \in {Scheduled, Idle}
  /\ UNCHANGED <<deskAndLatest, screen, load, poll, command, rung>>

RefetchAgain ==
  /\ OnTicket /\ refetch = Scheduled /\ (Overlap \/ Quiet(command))
  /\ refetch' = Request("my-status")
  /\ UNCHANGED <<deskAndLatest, screen, load, poll, command, rung>>

(* Unlike a poll, whatever the screen has come to show meanwhile.          *)
RefetchArrives ==
  /\ OnTicket /\ Answered(refetch)
  /\ refetch' = Idle
  /\ IF HasRow(refetch)
       THEN Show(refetch.answer, poll)
       ELSE UNCHANGED <<screen, poll, rung>>
  /\ UNCHANGED <<deskAndLatest, load, command>>

-----------------------------------------------------------------------------
(* The buttons *)

Shows(states) == screen.ticket # None /\ screen.ticket.state \in states

SendCommand(call) ==
  /\ OnTicket /\ command = Idle /\ (Overlap \/ Quiet(refetch))
  /\ command' = Command(call, screen.ticket.id)
  /\ UNCHANGED <<deskAndLatest, screen, load, poll, refetch, rung>>

TogglePause ==
  \/ Shows({"WAITING"}) /\ SendCommand("pause")
  \/ Shows({"PAUSED"}) /\ SendCommand("resume")

HandleLeaveQueue == Shows({"WAITING", "PAUSED"}) /\ SendCommand("self-cancel")

(* A command names the ticket that was on the screen at the click,         *)
(* whatever that ticket has become and whatever the screen shows by now.   *)
Obeys(t, call) ==
  CASE call = "pause" -> life[t] = "WAITING" /\ SetAside(t)
    [] call = "resume" -> Return(t)
    [] call = "self-cancel" -> life[t] \in {"WAITING", "PAUSED"} /\ Cancel(t)

CommandHandled ==
  /\ OnTicket /\ InFlight(command)
  /\ LET t == command.on
     IN \/ /\ Obeys(t, command.call) /\ UNCHANGED latest
           /\ command' = Answer(command, RowOf(t, life'[t]))
        \/ NoDeskStep /\ command' = Answer(command, Refused)
  /\ UNCHANGED <<screen, load, poll, refetch, rung>>

CommandLost ==
  /\ OnTicket /\ InFlight(command)
  /\ command' = Answer(command, Refused)
  /\ UNCHANGED <<deskAndLatest, screen, load, poll, refetch, rung>>

LeaveTicketPage == session' = [session EXCEPT !.token = FALSE] /\ GoToEntry /\ UNCHANGED meant

CommandArrives ==
  /\ page = "TICKET" /\ Answered(command)
  /\ NoDeskStep
  /\ \/ /\ command.answer = Refused /\ OnTicket
        /\ command' = Idle /\ UNCHANGED <<screen, load, poll, refetch, rung>>
     \/ /\ HasRow(command) /\ command.call # "self-cancel" /\ OnTicket
        /\ command' = Idle
        /\ Show(command.answer, poll)
        /\ UNCHANGED <<load, refetch>>
     \/ HasRow(command) /\ command.call = "self-cancel" /\ LeaveTicketPage

(* "Voltar ao inicio" of a final state, and "Voltar" of an error, which    *)
(* keeps the session.                                                      *)
BackToStart ==
  /\ page = "TICKET" /\ NoDeskStep
  /\ \/ Shows({"FINISHED", "CANCELLED", "NO_SHOW"}) /\ LeaveTicketPage
     \/ screen.ticket = None /\ screen.error /\ GoToEntry /\ UNCHANGED <<session, meant>>

-----------------------------------------------------------------------------

(* Everybody else at the desk: check-in, staff, operators and timeouts.    *)
Others ==
  /\ \/ /\ DeskNext /\ UNCHANGED latest
        /\ \A t \in Tickets : life[t] = "ABSENT" <=> life'[t] = "ABSENT"
     \/ Join(NextId, Me) /\ latest' = NextId
  /\ UNCHANGED phone

EntryPageNext ==
  \/ LoadER \/ ToggleConfirmation \/ EditGuestField
  \/ \E form \in Forms : SelectView(form) \/ Submit(form)
  \/ CompleteEntry \/ EntryRefused

TicketPageNext ==
  \/ EntryEffect \/ LoadHandled \/ LoadLost \/ LoadArrives
  \/ PollTick \/ PollHandled \/ PollFails \/ PollArrives
  \/ HandleCallExpired \/ HandlePauseExpired
  \/ RefetchHandled \/ RefetchFails \/ RefetchAgain \/ RefetchArrives
  \/ TogglePause \/ HandleLeaveQueue \/ CommandHandled \/ CommandLost \/ CommandArrives
  \/ BackToStart

ScreenNext ==
  Others \/ EntryPageNext \/ TicketPageNext \/ Reload \/ Navigate \/ NewTab

(* The event loop of the browser runs what is due, every request ends in   *)
(* an answer or an error, and among polls sent for ever some are answered. *)
ScreenSpec ==
  /\ ScreenInit /\ [][ScreenNext]_svars
  /\ WF_svars(EntryEffect) /\ WF_svars(LoadHandled \/ LoadLost) /\ WF_svars(LoadArrives)
  /\ WF_svars(PollTick) /\ SF_svars(PollHandled) /\ WF_svars(PollArrives)

-----------------------------------------------------------------------------
(* What the phone must do *)

(* Every POST /tickets comes of a deliberate entry of its own: a reload, a *)
(* return to the page or a lost answer never puts her in the line again.   *)
ReloadNeverEnqueues ==
  [][load.call # "post" /\ load'.call = "post" => meant]_svars

(* FINISHED, the state after which the screen no longer asks, is only      *)
(* shown of a ticket that is finished; the others may be passing.          *)
FinalScreenIsFinal == Shows({"FINISHED"}) => life[screen.ticket.id] = "FINISHED"

StopsReloading == <>[][load'.call # "effect"]_svars

(* The ticket page never stays blank or loading: a ticket, an error with a *)
(* way back, or the entry page.                                            *)
ScreenSettles ==
  StopsReloading =>
    (page = "TICKET" ~> page # "TICKET" \/ screen.ticket # None \/ screen.error)

LatestRow == IF latest = None THEN None ELSE RowOf(latest, life[latest])
Watching == screen.ticket # None /\ ~Shows({"FINISHED"})
DeskStays == <>[][NoDeskStep]_svars

(* While she watches, whatever state her newest ticket is left in comes to *)
(* the screen: a restored ticket too, and through stale answers, expired   *)
(* countdowns and failing polls.                                           *)
ScreenCatchesUp ==
  DeskStays => (Watching ~> ~Watching \/ screen.ticket = LatestRow)

IsCalledWhileInLine ==
  /\ latest # None /\ life[latest] = "CALLING"
  /\ screen.ticket = RowOf(latest, "WAITING")

(* A call that lasts rings on the phone of a representative who was shown  *)
(* her place in the line.                                                  *)
LastingCallRings ==
  IsCalledWhileInLine ~> rung \/ ~Watching \/ life[latest] # "CALLING"

(* ticket.service.ts:744-749: the screen polls the real status, so that a  *)
(* manager restore brings the live status back.  It asks for the ticket    *)
(* created last, and an older one may be the one restored.                 *)
RestoreComesBack ==
  \A t \in Tickets :
    holder[t] = Me /\ life[t] = "WAITING" /\ Shows({"NO_SHOW", "CANCELLED"})
    ~> \/ screen.ticket = [id |-> t, state |-> "WAITING"]
       \/ life[t] # "WAITING" \/ screen.ticket = None

=============================================================================
