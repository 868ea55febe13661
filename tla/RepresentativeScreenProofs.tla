---------------------- MODULE RepresentativeScreenProofs ----------------------
(***************************************************************************)
(* The safety of the phone, over any desk that keeps to ServiceDesk: for   *)
(* any tickets, representatives and operators, and whatever the desk does  *)
(* between two steps of the phone.                                         *)
(***************************************************************************)
EXTENDS RepresentativeScreen, TLAPS

-----------------------------------------------------------------------------
(* The desk *)

(* The desk keeps its types, and what is finished stays finished. *)
DeskKeeps ==
  /\ DeskTypeOK' /\ latest' \in Tickets \cup {None}
  /\ \A t \in Tickets : life[t] = "FINISHED" => life'[t] = "FINISHED"

LEMMA LeaveKeeps ==
  ASSUME DeskTypeOK, NEW T, NEW to \in Stage, Leave(T, to),
         \A t \in T \cap Tickets : life[t] # "FINISHED"
  PROVE  /\ DeskTypeOK'
         /\ \A t \in Tickets : life[t] = "FINISHED" => life'[t] = "FINISHED"
BY DEF DeskTypeOK, Leave

LEMMA JoinKeeps ==
  ASSUME DeskTypeOK, NEW t \in Tickets, NEW r \in Reps, Join(t, r)
  PROVE  /\ DeskTypeOK'
         /\ \A u \in Tickets : life[u] = "FINISHED" => life'[u] = "FINISHED"
BY DEF DeskTypeOK, Join, Stage, Active

(* Every other move of a ticket *)
LEMMA MoveKeeps ==
  ASSUME DeskTypeOK, NEW t \in Tickets,
         \/ Rejoin(t) \/ Start(t) \/ SetAside(t) \/ Return(t) \/ Cancel(t) \/ Miss({t})
         \/ \E o \in Operators : Call(t, o)
  PROVE  /\ DeskTypeOK'
         /\ \A u \in Tickets : life[u] = "FINISHED" => life'[u] = "FINISHED"
<1>1. CASE Rejoin(t) \/ SetAside(t) \/ Return(t) \/ Cancel(t) \/ Miss({t})
  <2>1. /\ life[t] # "FINISHED"
        /\ \E to \in Stage : Leave({t}, to)
    BY <1>1 DEF Rejoin, SetAside, Return, Cancel, Miss, Stage, Active, Serving
  <2>2. QED
    BY <2>1, LeaveKeeps
<1>2. CASE Start(t)
  BY <1>2 DEF Start, DeskTypeOK, Stage, Active, Serving
<1>3. CASE \E o \in Operators : Call(t, o)
  BY <1>3 DEF Call, DeskTypeOK, Stage, Active, Serving
<1>4. QED
  BY <1>1, <1>2, <1>3

LEMMA DeskNextKeeps ==
  ASSUME DeskTypeOK, DeskNext
  PROVE  /\ DeskTypeOK'
         /\ \A t \in Tickets : life[t] = "FINISHED" => life'[t] = "FINISHED"
<1>1. ASSUME NEW T \in SUBSET Tickets, Finish(T) \/ Miss(T)
      PROVE  /\ DeskTypeOK'
             /\ \A t \in Tickets : life[t] = "FINISHED" => life'[t] = "FINISHED"
  <2>1. /\ \A t \in T \cap Tickets : life[t] # "FINISHED"
        /\ \E to \in Stage : Leave(T, to)
    BY <1>1 DEF Finish, Miss, Stage, Active, Serving
  <2>2. QED
    BY <2>1, LeaveKeeps
<1>2. QED
  BY <1>1, JoinKeeps, MoveKeeps DEF DeskNext

(* What the phone makes of the desk *)

LEMMA NextIdIsATicket == NextId \in Tickets
BY PhoneAssumption DEF NextId

LEMMA NoDeskStepKeeps ==
  ASSUME DeskTypeOK, latest \in Tickets \cup {None}, NoDeskStep
  PROVE  DeskKeeps
BY DEF NoDeskStep, deskAndLatest, DeskKeeps, DeskTypeOK

LEMMA ResolveOnReadKeeps ==
  ASSUME DeskTypeOK, latest \in Tickets \cup {None}, NEW t \in Tickets, ResolveOnRead(t)
  PROVE  DeskKeeps
BY NoDeskStepKeeps, MoveKeeps DEF ResolveOnRead, DeskKeeps

LEMMA PostTicketKeeps ==
  ASSUME DeskTypeOK, latest \in Tickets \cup {None}, NEW answer, PostTicket(answer)
  PROVE  DeskKeeps
BY NoDeskStepKeeps, JoinKeeps, NextIdIsATicket, PhoneAssumption DEF PostTicket, DeskKeeps

LEMMA ReadsKeep ==
  ASSUME DeskTypeOK, latest \in Tickets \cup {None}, NEW answer,
         MyStatus(answer) \/ MyActive(answer)
  PROVE  DeskKeeps
BY NoDeskStepKeeps, ResolveOnReadKeeps DEF MyStatus, MyActive, ActiveTicket

(* An answer speaks of the desk as it is when it is given. *)
IsTrue(row) == row \in Row /\ row.state = "FINISHED" => life[row.id] = "FINISHED"
TrueAfter(row) == row \in Row /\ row.state = "FINISHED" => life'[row.id] = "FINISHED"

LEMMA RowOfIsTrue ==
  ASSUME NEW t \in Tickets, NEW stage
  PROVE  RowOf(t, stage) \in Row /\ RowOf(t, stage).state = "FINISHED"
           => RowOf(t, stage).id = t /\ stage = "FINISHED"
BY DEF RowOf

LEMMA AnswersAreTrue ==
  ASSUME DeskTypeOK, NEW answer, MyStatus(answer) \/ MyActive(answer) \/ PostTicket(answer),
         latest \in Tickets \cup {None}
  PROVE  TrueAfter(answer)
<1>1. NothingFound \notin Row /\ Refused \notin Row /\ Conflict \notin Row
  BY DEF NothingFound, Refused, Conflict, Row, TicketState, Active, Serving
<1>2. ASSUME NEW t \in Tickets, answer = RowOf(t, life'[t])
      PROVE  TrueAfter(answer)
  BY <1>2, RowOfIsTrue DEF TrueAfter
<1>3. ASSUME NEW t \in Tickets, answer = RowOf(t, "WAITING")
      PROVE  TrueAfter(answer)
  BY <1>3 DEF TrueAfter, RowOf
<1>4. QED
  BY <1>1, <1>2, <1>3, NextIdIsATicket
     DEF MyStatus, MyActive, PostTicket, ActiveTicket, TrueAfter

-----------------------------------------------------------------------------
(* What the phone holds, in three parts, each with what keeps it. *)

LoadCalls == Calls({"effect", "post", "my-active", "my-status"})
PollCalls == Calls({"scheduled", "my-status"})
CommandCalls == Commands \cup {Idle}

Sessions == [token: BOOLEAN, pending: BOOLEAN, channel: BOOLEAN]
Entries == [er: {"loading", "unknown", "closed", "open"}, view: Forms,
            guest: BOOLEAN, confirmed: BOOLEAN, fallback: BOOLEAN,
            sending: Forms \cup {"no"}]
Screens == [ticket: Row \cup {None}, error: BOOLEAN, prev: TicketState \cup {None}]

(* A request whose answer, if it has one, is true *)
Fresh(request, kind) == request \in kind /\ IsTrue(request.answer)
FreshAfter(request, kind) == request \in kind /\ TrueAfter(request.answer)

DeskPart == DeskTypeOK /\ latest \in Tickets \cup {None}

(* The intent to enter is only ever that of a deliberate entry. *)
EntryPart ==
  /\ session \in Sessions /\ page \in {"ENTRY", "TICKET"} /\ entry \in Entries
  /\ meant \in BOOLEAN /\ (session.pending => meant)

ScreenPart ==
  /\ screen \in Screens /\ IsTrue(screen.ticket) /\ rung \in BOOLEAN

RequestPart ==
  /\ Fresh(load, LoadCalls) /\ Fresh(poll, PollCalls)
  /\ Fresh(refetch, PollCalls) /\ Fresh(command, CommandCalls)

ScreenInv == DeskPart /\ EntryPart /\ ScreenPart /\ RequestPart

LEMMA ScreenInvTypes == ScreenInv => ScreenTypeOK
BY DEF ScreenInv, ScreenTypeOK, DeskPart, EntryPart, ScreenPart, RequestPart, Fresh,
       LoadCalls, PollCalls, CommandCalls, Sessions, Entries, Screens

LEMMA StaysTrue ==
  ASSUME DeskKeeps, NEW row, IsTrue(row)
  PROVE  TrueAfter(row)
BY DEF DeskKeeps, IsTrue, TrueAfter, Row

LEMMA StaysFresh ==
  ASSUME DeskKeeps, NEW request, NEW kind, Fresh(request, kind)
  PROVE  FreshAfter(request, kind)
BY StaysTrue DEF Fresh, FreshAfter

LEMMA NothingIsTrue == TrueAfter(None) /\ IsTrue(None)
BY NoneAssumption DEF TrueAfter, IsTrue

LEMMA IdleIsFresh ==
  /\ FreshAfter(Idle, LoadCalls) /\ FreshAfter(Idle, PollCalls)
  /\ FreshAfter(Idle, CommandCalls)
BY NothingIsTrue DEF FreshAfter, Idle, Calls, LoadCalls, PollCalls, CommandCalls

LEMMA RequestIsFresh ==
  /\ \A call \in {"effect", "post", "my-active", "my-status"} :
       FreshAfter(Request(call), LoadCalls)
  /\ FreshAfter(Request("my-status"), PollCalls)
BY NothingIsTrue DEF FreshAfter, Request, Calls, LoadCalls, PollCalls

LEMMA ScheduledIsFresh == FreshAfter(Scheduled, PollCalls)
BY NothingIsTrue DEF FreshAfter, Scheduled, Calls, PollCalls

LEMMA AnswerIsFresh ==
  ASSUME NEW kind \in {LoadCalls, PollCalls}, NEW request \in kind,
         NEW answer \in Answers, TrueAfter(answer)
  PROVE  FreshAfter(Answer(request, answer), kind)
<1>1. CASE kind = LoadCalls
  BY <1>1 DEF FreshAfter, Answer, Calls, LoadCalls
<1>2. CASE kind = PollCalls
  BY <1>2 DEF FreshAfter, Answer, Calls, PollCalls
<1>3. QED
  BY <1>1, <1>2

LEMMA CommandAnswerIsFresh ==
  ASSUME InFlight(command), command \in CommandCalls, NEW answer \in Answers, TrueAfter(answer)
  PROVE  FreshAfter(Answer(command, answer), CommandCalls)
BY DEF FreshAfter, Answer, CommandCalls, Commands, InFlight, Idle

LEMMA NoRowIsTrue ==
  /\ TrueAfter(Refused) /\ TrueAfter(Conflict) /\ TrueAfter(NothingFound)
  /\ Refused \in Answers /\ Conflict \in Answers /\ NothingFound \in Answers
BY DEF TrueAfter, Refused, Conflict, NothingFound, Answers

(* The parts that a step leaves alone *)

LEMMA DeskPartKept ==
  ASSUME DeskKeeps
  PROVE  DeskPart'
BY DEF DeskKeeps, DeskPart

LEMMA DeskStandsStill ==
  ASSUME DeskPart, UNCHANGED deskAndLatest
  PROVE  DeskKeeps
BY NoDeskStepKeeps DEF DeskPart, NoDeskStep

LEMMA EntryPartKept ==
  ASSUME EntryPart, UNCHANGED <<session, page, entry, meant>>
  PROVE  EntryPart'
BY DEF EntryPart

LEMMA ScreenPartKept ==
  ASSUME DeskKeeps, ScreenPart, UNCHANGED <<screen, rung>>
  PROVE  ScreenPart'
BY StaysTrue DEF ScreenPart, IsTrue, TrueAfter

RequestsAfter ==
  /\ FreshAfter(load', LoadCalls) /\ FreshAfter(poll', PollCalls)
  /\ FreshAfter(refetch', PollCalls) /\ FreshAfter(command', CommandCalls)

LEMMA RequestsStay ==
  ASSUME DeskKeeps, RequestPart
  PROVE  /\ FreshAfter(load, LoadCalls) /\ FreshAfter(poll, PollCalls)
         /\ FreshAfter(refetch, PollCalls) /\ FreshAfter(command, CommandCalls)
BY StaysFresh DEF RequestPart

LEMMA RequestPartAfter == RequestsAfter => RequestPart'
BY DEF RequestsAfter, RequestPart, FreshAfter, Fresh, IsTrue, TrueAfter

-----------------------------------------------------------------------------
(* Routes *)

LEMMA UnmountKeeps ==
  ASSUME Unmount
  PROVE  /\ ScreenPart'
         /\ FreshAfter(poll', PollCalls) /\ FreshAfter(refetch', PollCalls)
         /\ FreshAfter(command', CommandCalls)
<1>1. NewScreen \in Screens /\ NewScreen.ticket = None
  BY DEF NewScreen, Screens
<1>2. screen' \in Screens /\ screen'.ticket = None /\ rung' \in BOOLEAN
  BY <1>1 DEF Unmount
<1>3. IsTrue(screen.ticket)'
  BY <1>2, NoneAssumption DEF IsTrue
<1>4. ScreenPart'
  BY <1>2, <1>3 DEF ScreenPart
<1>5. QED
  BY <1>4, IdleIsFresh DEF Unmount

LEMMA LeavePage ==
  ASSUME DeskKeeps, GoToEntry \/ GoToTicket,
         session' \in Sessions, meant' \in BOOLEAN, session'.pending => meant'
  PROVE  ScreenInv'
<1>1. NewEntry \in Entries
  BY DEF NewEntry, Entries, Forms
<1>2. EntryPart'
  BY <1>1 DEF GoToEntry, GoToTicket, EntryPart
<1>3. FreshAfter(load', LoadCalls)
  BY IdleIsFresh, RequestIsFresh DEF GoToEntry, GoToTicket
<1>4. ScreenPart' /\ RequestPart'
  BY <1>3, UnmountKeeps, RequestPartAfter DEF GoToEntry, GoToTicket, RequestsAfter
<1>5. QED
  BY <1>2, <1>4, DeskPartKept DEF ScreenInv

(* Every way off a page but the entry leaves the session and the intent,   *)
(* or forgets the token.                                                   *)
LEMMA LeavePageKeepingTheSession ==
  ASSUME ScreenInv, UNCHANGED <<deskAndLatest, meant>>, GoToEntry \/ GoToTicket,
         session' = session \/ session' = [session EXCEPT !.token = FALSE]
  PROVE  ScreenInv'
<1>1. DeskKeeps
  BY DeskStandsStill DEF ScreenInv
<1>2. session' \in Sessions /\ (session'.pending <=> session.pending)
  BY DEF ScreenInv, EntryPart, Sessions
<1>3. meant' \in BOOLEAN /\ (session'.pending => meant')
  BY <1>2 DEF ScreenInv, EntryPart
<1>4. QED
  BY <1>1, <1>2, <1>3, LeavePage

LEMMA RoutesKeep ==
  ASSUME ScreenInv, Reload \/ Navigate \/ NewTab
  PROVE  ScreenInv'
<1>1. CASE Reload \/ Navigate
  BY <1>1, LeavePageKeepingTheSession DEF Reload, Navigate
<1>2. CASE NewTab
  <2>1. DeskKeeps
    BY <1>2, DeskStandsStill DEF ScreenInv, NewTab
  <2>2. session' \in Sessions /\ meant' \in BOOLEAN /\ (session'.pending => meant')
    BY <1>2 DEF NewTab, Sessions
  <2>3. QED
    BY <1>2, <2>1, <2>2, LeavePage DEF NewTab
<1>3. QED
  BY <1>1, <1>2

-----------------------------------------------------------------------------
(* The entry page *)

LEMMA InEntryKeeps ==
  ASSUME ScreenInv, InEntry, page' = page, meant' = meant,
         entry' \in Entries, session' \in Sessions, session'.pending = session.pending
  PROVE  ScreenInv'
<1>1. DeskKeeps
  BY DeskStandsStill DEF ScreenInv, InEntry
<1>2. ScreenPart'
  BY <1>1, ScreenPartKept DEF ScreenInv, InEntry, requests
<1>3. RequestPart'
  BY <1>1, RequestsStay, RequestPartAfter DEF ScreenInv, InEntry, requests, RequestsAfter
<1>4. EntryPart'
  BY DEF ScreenInv, EntryPart
<1>5. QED
  BY <1>1, <1>2, <1>3, <1>4, DeskPartKept DEF ScreenInv

LEMMA SetEntryKeeps ==
  ASSUME ScreenInv, InEntry, NEW e \in Entries, SetEntry(e)
  PROVE  ScreenInv'
BY InEntryKeeps DEF SetEntry, ScreenInv, EntryPart

LEMMA LoadERKeeps ==
  ASSUME ScreenInv, LoadER
  PROVE  ScreenInv'
<1>. entry \in Entries /\ InEntry
  BY DEF ScreenInv, EntryPart, LoadER
<1>1. ASSUME NEW open \in BOOLEAN, NEW guest \in BOOLEAN,
             SetEntry([entry EXCEPT !.er = IF open THEN "open" ELSE "closed",
                         !.guest = guest, !.view = IF guest THEN "guest" ELSE @])
      PROVE  ScreenInv'
  <2>. DEFINE er == IF open THEN "open" ELSE "closed"
              view == IF guest THEN "guest" ELSE entry.view
  <2>1. er \in {"closed", "open"} /\ view \in Forms
    BY DEF Entries, Forms
  <2>2. SetEntry([entry EXCEPT !.er = er, !.guest = guest, !.view = view])
    BY <1>1
  <2>. HIDE DEF er, view
  <2>3. [entry EXCEPT !.er = er, !.guest = guest, !.view = view] \in Entries
    BY <2>1 DEF Entries
  <2>4. QED
    BY <2>2, <2>3, SetEntryKeeps
<1>2. ASSUME SetEntry([entry EXCEPT !.er = "unknown"])
      PROVE  ScreenInv'
  <2>1. [entry EXCEPT !.er = "unknown"] \in Entries
    BY DEF Entries
  <2>2. QED
    BY <1>2, <2>1, SetEntryKeeps
<1>3. QED
  BY <1>1, <1>2 DEF LoadER

LEMMA ToggleConfirmationKeeps ==
  ASSUME ScreenInv, ToggleConfirmation
  PROVE  ScreenInv'
<1>1. entry \in Entries
  BY DEF ScreenInv, EntryPart
<1>. DEFINE toggled == ~entry.confirmed
<1>2. toggled \in BOOLEAN
  OBVIOUS
<1>. HIDE DEF toggled
<1>3. [entry EXCEPT !.confirmed = toggled] \in Entries
  BY <1>1, <1>2 DEF Entries
<1>4. QED
  BY <1>3, SetEntryKeeps DEF ToggleConfirmation, toggled

LEMMA SelectViewKeeps ==
  ASSUME ScreenInv, NEW view \in Forms, SelectView(view)
  PROVE  ScreenInv'
<1>1. [entry EXCEPT !.view = view] \in Entries
  BY DEF ScreenInv, EntryPart, Entries
<1>2. QED
  BY <1>1, SetEntryKeeps DEF SelectView

LEMMA EditGuestFieldKeeps ==
  ASSUME ScreenInv, EditGuestField
  PROVE  ScreenInv'
<1>1. [entry EXCEPT !.fallback = FALSE] \in Entries
  BY DEF ScreenInv, EntryPart, Entries
<1>2. QED
  BY <1>1, SetEntryKeeps DEF EditGuestField

LEMMA SubmitKeeps ==
  ASSUME ScreenInv, NEW form \in Forms, Submit(form)
  PROVE  ScreenInv'
<1>1. entry' \in Entries
  BY DEF ScreenInv, EntryPart, Entries, Submit
<1>2. session' \in Sessions /\ session'.pending = session.pending
  BY DEF ScreenInv, EntryPart, Sessions, Submit
<1>3. QED
  BY <1>1, <1>2, InEntryKeeps DEF Submit

LEMMA CompleteEntryKeeps ==
  ASSUME ScreenInv, CompleteEntry
  PROVE  ScreenInv'
<1>1. DeskKeeps
  BY DeskStandsStill DEF ScreenInv, CompleteEntry
<1>2. session' \in Sessions /\ meant' \in BOOLEAN /\ (session'.pending => meant')
  BY DEF ScreenInv, EntryPart, Sessions, CompleteEntry
<1>3. QED
  BY <1>1, <1>2, LeavePage DEF CompleteEntry

LEMMA EntryRefusedKeeps ==
  ASSUME ScreenInv, EntryRefused
  PROVE  ScreenInv'
<1>1. entry \in Entries /\ entry.fallback \in BOOLEAN
  BY DEF ScreenInv, EntryPart, Entries
<1>2. PICK fallback \in BOOLEAN : SetEntry([entry EXCEPT !.sending = "no", !.fallback = fallback])
  BY <1>1 DEF EntryRefused
<1>3. [entry EXCEPT !.sending = "no", !.fallback = fallback] \in Entries
  BY <1>1 DEF Entries
<1>4. QED
  BY <1>2, <1>3, SetEntryKeeps DEF EntryRefused

LEMMA EntryPageKeeps ==
  ASSUME ScreenInv, EntryPageNext
  PROVE  ScreenInv'
BY LoadERKeeps, ToggleConfirmationKeeps, EditGuestFieldKeeps, SelectViewKeeps, SubmitKeeps,
   CompleteEntryKeeps, EntryRefusedKeeps DEF EntryPageNext

-----------------------------------------------------------------------------
(* The ticket page *)

LEMMA ShowKeeps ==
  ASSUME ScreenPart, NEW row \in Row, TrueAfter(row),
         NEW samePoll, FreshAfter(samePoll, PollCalls), Show(row, samePoll)
  PROVE  ScreenPart' /\ FreshAfter(poll', PollCalls)
<1>1. screen' \in Screens /\ screen'.ticket = row /\ rung' \in BOOLEAN
  <2>1. row.state \in TicketState
    BY DEF Row
  <2>2. screen' = [ticket |-> row, error |-> FALSE, prev |-> row.state]
    BY DEF Show
  <2>3. rung' \in BOOLEAN
    BY DEF Show
  <2>4. QED
    BY <2>1, <2>2, <2>3 DEF Screens
<1>2. IsTrue(screen.ticket)'
  BY <1>1 DEF IsTrue, TrueAfter
<1>3. FreshAfter(poll', PollCalls)
  BY IdleIsFresh, ScheduledIsFresh DEF Show, PollOf
<1>4. QED
  BY <1>1, <1>2, <1>3 DEF ScreenPart

(* A step that shows nothing new *)
LEMMA OnTicketKeeps ==
  ASSUME ScreenInv, DeskKeeps, OnTicket, UNCHANGED <<screen, rung>>, RequestsAfter
  PROVE  ScreenInv'
BY DeskPartKept, EntryPartKept, ScreenPartKept, RequestPartAfter DEF ScreenInv, OnTicket

(* A step that shows a row *)
LEMMA ShowOnTicketKeeps ==
  ASSUME ScreenInv, DeskKeeps, OnTicket, NEW row \in Row, TrueAfter(row),
         NEW samePoll, FreshAfter(samePoll, PollCalls), Show(row, samePoll),
         FreshAfter(load', LoadCalls), FreshAfter(refetch', PollCalls),
         FreshAfter(command', CommandCalls)
  PROVE  ScreenInv'
<1>1. ScreenPart' /\ FreshAfter(poll', PollCalls)
  BY ShowKeeps DEF ScreenInv
<1>2. RequestPart'
  BY <1>1, RequestPartAfter DEF RequestsAfter
<1>3. QED
  BY <1>1, <1>2, DeskPartKept, EntryPartKept DEF ScreenInv, OnTicket

LEMMA RowIsATrueRow ==
  ASSUME DeskKeeps, NEW request, NEW kind, Fresh(request, kind), HasRow(request)
  PROVE  request.answer \in Row /\ TrueAfter(request.answer)
BY StaysTrue DEF Fresh, HasRow

(* The entry effect *)

LEMMA EntryEffectKeeps ==
  ASSUME ScreenInv, EntryEffect
  PROVE  ScreenInv'
<1>1. DeskKeeps
  BY DeskStandsStill DEF ScreenInv, EntryEffect, NoDeskStep
<1>2. /\ session \in Sessions /\ meant \in BOOLEAN /\ (session.pending => meant)
      /\ AfterConsuming \in Sessions /\ ~AfterConsuming.pending
  BY DEF ScreenInv, EntryPart, Sessions, AfterConsuming
<1>3. CASE GoToEntry
  <2>1. session' \in {session, AfterConsuming} /\ meant' \in {meant, FALSE}
        /\ (session' = AfterConsuming \/ meant' = meant)
    BY <1>3 DEF EntryEffect
  <2>2. CASE session' = AfterConsuming
    <3>1. session' \in Sessions /\ ~session'.pending /\ meant' \in BOOLEAN
      BY <1>2, <2>1, <2>2
    <3>2. QED
      BY <1>1, <1>3, <3>1, LeavePage
  <2>3. CASE session' = session /\ meant' = meant
    <3>1. session' \in Sessions /\ meant' \in BOOLEAN /\ (session'.pending => meant')
      BY <1>2, <2>3
    <3>2. QED
      BY <1>1, <1>3, <3>1, LeavePage
  <2>4. QED
    BY <2>1, <2>2, <2>3
<1>4. CASE /\ session' = AfterConsuming /\ load' = Request("post") /\ meant' = FALSE
           /\ UNCHANGED <<page, entry, screen, poll, refetch, command, rung>>
  <2>1. FreshAfter(load', LoadCalls)
    BY <1>4, RequestIsFresh
  <2>2. RequestPart'
    BY <1>1, <1>4, <2>1, RequestsStay, RequestPartAfter DEF ScreenInv, RequestsAfter
  <2>3. EntryPart'
    BY <1>2, <1>4 DEF ScreenInv, EntryPart
  <2>4. ScreenPart'
    BY <1>1, <1>4, ScreenPartKept DEF ScreenInv
  <2>5. QED
    BY <1>1, <2>2, <2>3, <2>4, DeskPartKept DEF ScreenInv
<1>5. CASE /\ load' = Request("my-status")
           /\ UNCHANGED <<session, page, entry, screen, poll, refetch, command, meant, rung>>
  <2>1. FreshAfter(load', LoadCalls)
    BY <1>5, RequestIsFresh
  <2>2. RequestPart'
    BY <1>1, <1>5, <2>1, RequestsStay, RequestPartAfter DEF ScreenInv, RequestsAfter
  <2>3. EntryPart' /\ ScreenPart'
    BY <1>1, <1>5, EntryPartKept, ScreenPartKept DEF ScreenInv
  <2>4. QED
    BY <1>1, <2>2, <2>3, DeskPartKept DEF ScreenInv
<1>6. QED
  BY <1>3, <1>4, <1>5 DEF EntryEffect

LEMMA LoadHandledKeeps ==
  ASSUME ScreenInv, LoadHandled
  PROVE  ScreenInv'
<1>1. PICK answer \in Answers :
        /\ PostTicket(answer) \/ MyActive(answer) \/ MyStatus(answer)
        /\ load' = Answer(load, answer)
  <2>1. load.call \in {"post", "my-active", "my-status"}
    BY DEF LoadHandled, InFlight, ScreenInv, RequestPart, Fresh, Calls, LoadCalls
  <2>2. QED
    BY <2>1 DEF LoadHandled
<1>2. DeskKeeps /\ TrueAfter(answer)
  BY <1>1, PostTicketKeeps, ReadsKeep, AnswersAreTrue DEF ScreenInv, DeskPart
<1>3. FreshAfter(load', LoadCalls)
  BY <1>1, <1>2, AnswerIsFresh DEF ScreenInv, RequestPart, Fresh
<1>4. RequestsAfter
  BY <1>2, <1>3, RequestsStay DEF LoadHandled, RequestsAfter, ScreenInv
<1>5. QED
  BY <1>2, <1>4, OnTicketKeeps DEF LoadHandled

LEMMA LoadLostKeeps ==
  ASSUME ScreenInv, LoadLost
  PROVE  ScreenInv'
<1>1. DeskKeeps
  BY DeskStandsStill DEF ScreenInv, LoadLost
<1>2. FreshAfter(load', LoadCalls)
  BY AnswerIsFresh, NoRowIsTrue DEF LoadLost, ScreenInv, RequestPart, Fresh
<1>3. RequestsAfter
  BY <1>1, <1>2, RequestsStay DEF LoadLost, RequestsAfter, ScreenInv
<1>4. QED
  BY <1>1, <1>3, OnTicketKeeps DEF LoadLost

LEMMA LoadArrivesKeeps ==
  ASSUME ScreenInv, LoadArrives
  PROVE  ScreenInv'
<1>1. DeskKeeps
  BY DeskStandsStill DEF ScreenInv, LoadArrives, NoDeskStep
<1>2. /\ FreshAfter(load, LoadCalls) /\ FreshAfter(poll, PollCalls)
      /\ FreshAfter(refetch, PollCalls) /\ FreshAfter(command, CommandCalls)
  BY <1>1, RequestsStay DEF ScreenInv
<1>3. CASE /\ HasRow(load) /\ OnTicket /\ load' = Idle
           /\ Show(load.answer, poll) /\ UNCHANGED <<refetch, command>>
  <2>1. load.answer \in Row /\ TrueAfter(load.answer)
    BY <1>1, <1>3, RowIsATrueRow DEF ScreenInv, RequestPart
  <2>2. QED
    BY <1>1, <1>2, <1>3, <2>1, IdleIsFresh, ShowOnTicketKeeps
<1>4. CASE /\ OnTicket /\ load' = Request("my-active")
           /\ UNCHANGED <<screen, poll, refetch, command, rung>>
  <2>1. FreshAfter(load', LoadCalls)
    BY <1>4, RequestIsFresh
  <2>2. QED
    BY <1>1, <1>2, <1>4, <2>1, OnTicketKeeps DEF RequestsAfter
<1>5. CASE NotFound
  BY <1>5, LeavePageKeepingTheSession DEF NotFound, LoadArrives, NoDeskStep
<1>6. CASE /\ OnTicket /\ load' = Idle /\ screen' = [screen EXCEPT !.error = TRUE]
           /\ UNCHANGED <<poll, refetch, command, rung>>
  <2>1. screen' \in Screens /\ screen'.ticket = screen.ticket
    BY <1>6 DEF ScreenInv, ScreenPart, Screens
  <2>2. ScreenPart'
    BY <1>1, <1>6, <2>1, StaysTrue DEF ScreenInv, ScreenPart, IsTrue, TrueAfter
  <2>3. RequestPart'
    BY <1>2, <1>6, IdleIsFresh, RequestPartAfter DEF RequestsAfter
  <2>4. QED
    BY <1>1, <1>6, <2>2, <2>3, DeskPartKept, EntryPartKept DEF ScreenInv, OnTicket
<1>7. QED
  BY <1>3, <1>4, <1>5, <1>6 DEF LoadArrives

(* The poll loop *)

LEMMA PollTickKeeps ==
  ASSUME ScreenInv, PollTick
  PROVE  ScreenInv'
<1>1. DeskKeeps
  BY DeskStandsStill DEF ScreenInv, PollTick
<1>2. FreshAfter(poll', PollCalls)
  BY RequestIsFresh DEF PollTick
<1>3. RequestsAfter
  BY <1>1, <1>2, RequestsStay DEF PollTick, RequestsAfter, ScreenInv
<1>4. QED
  BY <1>1, <1>3, OnTicketKeeps DEF PollTick

LEMMA PollHandledKeeps ==
  ASSUME ScreenInv, PollHandled
  PROVE  ScreenInv'
<1>1. PICK answer \in Answers : MyStatus(answer) /\ poll' = Answer(poll, answer)
  BY DEF PollHandled
<1>2. DeskKeeps /\ TrueAfter(answer)
  BY <1>1, ReadsKeep, AnswersAreTrue DEF ScreenInv, DeskPart
<1>3. FreshAfter(poll', PollCalls)
  BY <1>1, <1>2, AnswerIsFresh DEF ScreenInv, RequestPart, Fresh
<1>4. RequestsAfter
  BY <1>2, <1>3, RequestsStay DEF PollHandled, RequestsAfter, ScreenInv
<1>5. QED
  BY <1>2, <1>4, OnTicketKeeps DEF PollHandled

LEMMA PollFailsKeeps ==
  ASSUME ScreenInv, PollFails
  PROVE  ScreenInv'
<1>1. DeskKeeps
  BY DeskStandsStill DEF ScreenInv, PollFails
<1>2. RequestsAfter
  BY <1>1, RequestsStay, ScheduledIsFresh DEF PollFails, RequestsAfter, ScreenInv
<1>3. QED
  BY <1>1, <1>2, OnTicketKeeps DEF PollFails

LEMMA PollArrivesKeeps ==
  ASSUME ScreenInv, PollArrives
  PROVE  ScreenInv'
<1>1. DeskKeeps
  BY DeskStandsStill DEF ScreenInv, PollArrives
<1>2. /\ FreshAfter(load', LoadCalls) /\ FreshAfter(refetch', PollCalls)
      /\ FreshAfter(command', CommandCalls)
  BY <1>1, RequestsStay DEF ScreenInv, PollArrives
<1>3. CASE HasRow(poll)
  <2>1. poll.answer \in Row /\ TrueAfter(poll.answer)
    BY <1>1, <1>3, RowIsATrueRow DEF ScreenInv, RequestPart
  <2>2. QED
    BY <1>1, <1>2, <1>3, <2>1, ScheduledIsFresh, ShowOnTicketKeeps DEF PollArrives
<1>4. CASE ~HasRow(poll)
  <2>1. RequestsAfter
    BY <1>2, <1>4, ScheduledIsFresh DEF PollArrives, RequestsAfter
  <2>2. QED
    BY <1>1, <1>4, <2>1, OnTicketKeeps DEF PollArrives
<1>5. QED
  BY <1>3, <1>4

(* Countdowns *)

LEMMA HandleCallExpiredKeeps ==
  ASSUME ScreenInv, HandleCallExpired
  PROVE  ScreenInv'
<1>. DEFINE row == [screen.ticket EXCEPT !.state = "NO_SHOW"]
<1>1. DeskKeeps
  BY DeskStandsStill DEF ScreenInv, HandleCallExpired
<1>2. screen.ticket \in Row
  BY DEF ScreenInv, ScreenPart, Screens, HandleCallExpired
<1>3. row \in Row /\ row.state = "NO_SHOW"
  BY <1>2 DEF Row, TicketState
<1>4. OnTicket /\ Show(row, poll) /\ UNCHANGED <<load, refetch, command>>
  BY DEF HandleCallExpired
<1>5. /\ FreshAfter(load', LoadCalls) /\ FreshAfter(poll, PollCalls)
      /\ FreshAfter(refetch', PollCalls) /\ FreshAfter(command', CommandCalls)
  BY <1>1, <1>4, RequestsStay DEF ScreenInv
<1>. HIDE DEF row
<1>6. TrueAfter(row)
  BY <1>3 DEF TrueAfter
<1>7. QED
  BY <1>1, <1>3, <1>4, <1>5, <1>6, ShowOnTicketKeeps

LEMMA HandlePauseExpiredKeeps ==
  ASSUME ScreenInv, HandlePauseExpired \/ RefetchAgain
  PROVE  ScreenInv'
<1>1. /\ OnTicket /\ refetch' = Request("my-status")
      /\ UNCHANGED <<deskAndLatest, screen, load, poll, command, rung>>
  BY DEF HandlePauseExpired, RefetchAgain
<1>2. DeskKeeps
  BY <1>1, DeskStandsStill DEF ScreenInv
<1>3. FreshAfter(refetch', PollCalls)
  BY <1>1, RequestIsFresh
<1>4. RequestsAfter
  BY <1>1, <1>2, <1>3, RequestsStay DEF RequestsAfter, ScreenInv
<1>5. QED
  BY <1>1, <1>2, <1>4, OnTicketKeeps

LEMMA RefetchHandledKeeps ==
  ASSUME ScreenInv, RefetchHandled
  PROVE  ScreenInv'
<1>1. PICK answer \in Answers : MyStatus(answer) /\ refetch' = Answer(refetch, answer)
  BY DEF RefetchHandled
<1>2. DeskKeeps /\ TrueAfter(answer)
  BY <1>1, ReadsKeep, AnswersAreTrue DEF ScreenInv, DeskPart
<1>3. FreshAfter(refetch', PollCalls)
  BY <1>1, <1>2, AnswerIsFresh DEF ScreenInv, RequestPart, Fresh
<1>4. RequestsAfter
  BY <1>2, <1>3, RequestsStay DEF RefetchHandled, RequestsAfter, ScreenInv
<1>5. QED
  BY <1>2, <1>4, OnTicketKeeps DEF RefetchHandled

LEMMA RefetchFailsKeeps ==
  ASSUME ScreenInv, RefetchFails
  PROVE  ScreenInv'
<1>1. DeskKeeps
  BY DeskStandsStill DEF ScreenInv, RefetchFails
<1>2. RequestsAfter
  BY <1>1, RequestsStay, IdleIsFresh, ScheduledIsFresh DEF RefetchFails, RequestsAfter, ScreenInv
<1>3. QED
  BY <1>1, <1>2, OnTicketKeeps DEF RefetchFails

LEMMA RefetchArrivesKeeps ==
  ASSUME ScreenInv, RefetchArrives
  PROVE  ScreenInv'
<1>1. DeskKeeps
  BY DeskStandsStill DEF ScreenInv, RefetchArrives
<1>2. /\ FreshAfter(load', LoadCalls) /\ FreshAfter(poll, PollCalls)
      /\ FreshAfter(refetch', PollCalls) /\ FreshAfter(command', CommandCalls)
  BY <1>1, RequestsStay, IdleIsFresh DEF ScreenInv, RefetchArrives
<1>3. CASE HasRow(refetch)
  <2>1. refetch.answer \in Row /\ TrueAfter(refetch.answer)
    BY <1>1, <1>3, RowIsATrueRow DEF ScreenInv, RequestPart
  <2>2. QED
    BY <1>1, <1>2, <1>3, <2>1, ShowOnTicketKeeps DEF RefetchArrives
<1>4. CASE ~HasRow(refetch)
  <2>1. RequestsAfter
    BY <1>2, <1>4 DEF RefetchArrives, RequestsAfter
  <2>2. QED
    BY <1>1, <1>4, <2>1, OnTicketKeeps DEF RefetchArrives
<1>5. QED
  BY <1>3, <1>4

(* The buttons *)

LEMMA SendCommandKeeps ==
  ASSUME ScreenInv, TogglePause \/ HandleLeaveQueue
  PROVE  ScreenInv'
<1>1. PICK call \in {"pause", "resume", "self-cancel"} : SendCommand(call) /\ screen.ticket # None
  BY DEF TogglePause, HandleLeaveQueue, Shows
<1>2. DeskKeeps
  BY <1>1, DeskStandsStill DEF ScreenInv, SendCommand
<1>3. FreshAfter(command', CommandCalls)
  <2>1. screen.ticket.id \in Tickets
    BY <1>1 DEF ScreenInv, ScreenPart, Screens, Row
  <2>2. QED
    BY <1>1, <2>1, NothingIsTrue DEF SendCommand, Command, FreshAfter, CommandCalls, Commands
<1>4. RequestsAfter
  BY <1>1, <1>2, <1>3, RequestsStay DEF SendCommand, RequestsAfter, ScreenInv
<1>5. QED
  BY <1>1, <1>2, <1>4, OnTicketKeeps DEF SendCommand

(* What a command leaves its ticket in is a state the phone can show, and  *)
(* not FINISHED.                                                           *)
LEMMA ObeyedTicket ==
  ASSUME DeskTypeOK, NEW t \in Tickets, NEW call \in {"pause", "resume", "self-cancel"},
         Obeys(t, call)
  PROVE  /\ SetAside(t) \/ Return(t) \/ Cancel(t)
         /\ life'[t] \in {"PAUSED", "WAITING", "CANCELLED"}
<1>1. CASE call = "pause"
  BY <1>1 DEF Obeys, SetAside, Leave
<1>2. CASE call = "resume"
  BY <1>2 DEF Obeys, Return, Leave
<1>3. CASE call = "self-cancel"
  BY <1>3 DEF Obeys, Cancel, Leave
<1>4. QED
  BY <1>1, <1>2, <1>3

LEMMA CommandHandledKeeps ==
  ASSUME ScreenInv, CommandHandled
  PROVE  ScreenInv'
<1>. DEFINE t == command.on
<1>1. command.call \in {"pause", "resume", "self-cancel"} /\ t \in Tickets
  BY DEF ScreenInv, RequestPart, Fresh, CommandCalls, Commands, CommandHandled, InFlight, Idle
<1>2. ASSUME NEW answer \in Answers, TrueAfter(answer), DeskKeeps,
             command' = Answer(command, answer)
      PROVE  ScreenInv'
  <2>1. FreshAfter(command', CommandCalls)
    BY <1>2, CommandAnswerIsFresh DEF CommandHandled, ScreenInv, RequestPart, Fresh
  <2>2. RequestsAfter
    BY <1>2, <2>1, RequestsStay DEF CommandHandled, RequestsAfter, ScreenInv
  <2>3. QED
    BY <1>2, <2>1, <2>2, OnTicketKeeps DEF CommandHandled
<1>3. CASE /\ Obeys(t, command.call) /\ UNCHANGED latest
           /\ command' = Answer(command, RowOf(t, life'[t]))
  <2>. HIDE DEF t
  <2>1. /\ SetAside(t) \/ Return(t) \/ Cancel(t)
        /\ life'[t] \in {"PAUSED", "WAITING", "CANCELLED"}
    BY <1>1, <1>3, ObeyedTicket DEF ScreenInv, DeskPart
  <2>2. DeskKeeps
    BY <1>1, <1>3, <2>1, MoveKeeps DEF ScreenInv, DeskPart, DeskKeeps
  <2>3. RowOf(t, life'[t]) \in Row
    BY <1>1, <2>1 DEF RowOf, Row, TicketState, Active
  <2>4. RowOf(t, life'[t]) \in Answers /\ TrueAfter(RowOf(t, life'[t]))
    BY <1>1, <2>1, <2>3, RowOfIsTrue DEF Answers, TrueAfter
  <2>5. QED
    BY <1>2, <1>3, <2>2, <2>4
<1>4. CASE NoDeskStep /\ command' = Answer(command, Refused)
  <2>1. DeskKeeps
    BY <1>4, DeskStandsStill DEF ScreenInv, NoDeskStep
  <2>2. QED
    BY <1>2, <1>4, <2>1, NoRowIsTrue
<1>5. QED
  BY <1>3, <1>4 DEF CommandHandled

LEMMA CommandLostKeeps ==
  ASSUME ScreenInv, CommandLost
  PROVE  ScreenInv'
<1>1. DeskKeeps
  BY DeskStandsStill DEF ScreenInv, CommandLost
<1>2. FreshAfter(command', CommandCalls)
  BY CommandAnswerIsFresh, NoRowIsTrue DEF CommandLost, ScreenInv, RequestPart, Fresh
<1>3. RequestsAfter
  BY <1>1, <1>2, RequestsStay DEF CommandLost, RequestsAfter, ScreenInv
<1>4. QED
  BY <1>1, <1>2, <1>3, OnTicketKeeps DEF CommandLost

LEMMA LeaveTicketPageKeeps ==
  ASSUME ScreenInv, LeaveTicketPage, NoDeskStep
  PROVE  ScreenInv'
BY LeavePageKeepingTheSession DEF LeaveTicketPage, NoDeskStep

LEMMA CommandArrivesKeeps ==
  ASSUME ScreenInv, CommandArrives
  PROVE  ScreenInv'
<1>1. DeskKeeps
  BY DeskStandsStill DEF ScreenInv, CommandArrives, NoDeskStep
<1>2. /\ FreshAfter(load, LoadCalls) /\ FreshAfter(poll, PollCalls)
      /\ FreshAfter(refetch, PollCalls)
  BY <1>1, RequestsStay DEF ScreenInv
<1>3. CASE /\ command.answer = Refused /\ OnTicket
           /\ command' = Idle /\ UNCHANGED <<screen, load, poll, refetch, rung>>
  <2>1. RequestsAfter
    BY <1>2, <1>3, IdleIsFresh DEF RequestsAfter
  <2>2. QED
    BY <1>1, <1>3, <2>1, OnTicketKeeps
<1>4. CASE /\ HasRow(command) /\ command.call # "self-cancel" /\ OnTicket
           /\ command' = Idle /\ Show(command.answer, poll) /\ UNCHANGED <<load, refetch>>
  <2>1. command.answer \in Row /\ TrueAfter(command.answer)
    BY <1>1, <1>4, RowIsATrueRow DEF ScreenInv, RequestPart
  <2>2. FreshAfter(command', CommandCalls)
    BY <1>4, IdleIsFresh
  <2>3. QED
    BY <1>1, <1>2, <1>4, <2>1, <2>2, ShowOnTicketKeeps
<1>5. CASE LeaveTicketPage
  BY <1>5, LeaveTicketPageKeeps DEF CommandArrives
<1>6. QED
  BY <1>3, <1>4, <1>5 DEF CommandArrives

LEMMA BackToStartKeeps ==
  ASSUME ScreenInv, BackToStart
  PROVE  ScreenInv'
BY LeaveTicketPageKeeps, LeavePageKeepingTheSession DEF BackToStart, NoDeskStep

LEMMA TicketPageKeeps ==
  ASSUME ScreenInv, TicketPageNext
  PROVE  ScreenInv'
BY EntryEffectKeeps, LoadHandledKeeps, LoadLostKeeps, LoadArrivesKeeps, PollTickKeeps,
   PollHandledKeeps, PollFailsKeeps, PollArrivesKeeps, HandleCallExpiredKeeps,
   HandlePauseExpiredKeeps, RefetchHandledKeeps, RefetchFailsKeeps, RefetchArrivesKeeps,
   SendCommandKeeps, CommandHandledKeeps, CommandLostKeeps, CommandArrivesKeeps,
   BackToStartKeeps DEF TicketPageNext

-----------------------------------------------------------------------------
(* Everybody else, and every step *)

LEMMA PhoneKept ==
  ASSUME ScreenInv, DeskKeeps, UNCHANGED phone
  PROVE  ScreenInv'
<1>1. EntryPart' /\ ScreenPart'
  BY EntryPartKept, ScreenPartKept DEF ScreenInv, phone
<1>2. RequestPart'
  BY RequestsStay, RequestPartAfter DEF ScreenInv, phone, RequestsAfter
<1>3. QED
  BY <1>1, <1>2, DeskPartKept DEF ScreenInv

LEMMA OthersKeep ==
  ASSUME ScreenInv, Others
  PROVE  ScreenInv'
<1>1. DeskKeeps
  <2>1. CASE DeskNext /\ UNCHANGED latest
    BY <2>1, DeskNextKeeps DEF ScreenInv, DeskPart, DeskKeeps
  <2>2. CASE Join(NextId, Me) /\ latest' = NextId
    BY <2>2, JoinKeeps, NextIdIsATicket, PhoneAssumption DEF ScreenInv, DeskPart, DeskKeeps
  <2>3. QED
    BY <2>1, <2>2 DEF Others
<1>2. QED
  BY <1>1, PhoneKept DEF Others

LEMMA ScreenInvHoldsAtFirst == ScreenInit => ScreenInv
<1>. SUFFICES ASSUME ScreenInit PROVE ScreenInv
  OBVIOUS
<1>1. DeskPart
  BY DEF ScreenInit, DeskInit, DeskPart, DeskTypeOK, Stage
<1>2. EntryPart
  BY DEF ScreenInit, EntryPart, Sessions, Entries, NewEntry, Forms
<1>3. ScreenPart
  BY NothingIsTrue DEF ScreenInit, ScreenPart, Screens, NewScreen, Idle
<1>4. RequestPart
  BY NothingIsTrue
     DEF ScreenInit, RequestPart, Fresh, Idle, Calls, LoadCalls, PollCalls, CommandCalls
<1>5. QED
  BY <1>1, <1>2, <1>3, <1>4 DEF ScreenInv

LEMMA ScreenInvIsKept == ScreenInv /\ [ScreenNext]_svars => ScreenInv'
<1>. SUFFICES ASSUME ScreenInv, [ScreenNext]_svars PROVE ScreenInv'
  OBVIOUS
<1>1. CASE UNCHANGED svars
  BY <1>1, PhoneKept, DeskStandsStill DEF svars, phone, deskAndLatest, ScreenInv
<1>2. CASE ScreenNext
  BY <1>2, OthersKeep, EntryPageKeeps, TicketPageKeeps, RoutesKeep DEF ScreenNext
<1>3. QED
  BY <1>1, <1>2

LEMMA ScreenAlways == ScreenSpec => []ScreenInv
BY ScreenInvHoldsAtFirst, ScreenInvIsKept, PTL DEF ScreenSpec

-----------------------------------------------------------------------------
(* The theorems *)

(* The phone holds what its pages and its requests are said to hold.       *)
THEOREM ScreenTypes == ScreenSpec => []ScreenTypeOK
BY ScreenAlways, ScreenInvTypes, PTL

LEMMA FinalScreenIsInScreenInv == ScreenInv => FinalScreenIsFinal
BY NoneAssumption
   DEF ScreenInv, ScreenPart, Screens, FinalScreenIsFinal, Shows, IsTrue

(* FINISHED, at which TicketConfirmationPage stops polling for good, is    *)
(* only ever shown of a ticket that is finished: whatever answer, of       *)
(* whatever age, the row came with.                                        *)
THEOREM FinalScreensAreFinal == ScreenSpec => []FinalScreenIsFinal
BY ScreenAlways, FinalScreenIsInScreenInv, PTL

LEMMA OnlyTheEntryEffectPosts ==
  ASSUME ScreenInv, ScreenNext, load.call # "post", load'.call = "post"
  PROVE  meant
<1>1. GoToEntry \/ GoToTicket => load'.call # "post"
  BY DEF GoToEntry, GoToTicket, Idle, Request
<1>2. NewTab \/ Reload \/ Navigate => load'.call # "post"
  BY <1>1 DEF NewTab, Reload, Navigate
<1>3. load' = load \/ load' = Idle \/ load' = Request("my-active") => load'.call # "post"
  BY DEF Idle, Request
<1>4. Others => load' = load
  BY DEF Others, phone
<1>5. EntryPageNext => load' = load \/ GoToTicket
  BY DEF EntryPageNext, LoadER, ToggleConfirmation, EditGuestField, SelectView, Submit,
         CompleteEntry, EntryRefused, InEntry, requests
<1>6. \A answer : load' = Answer(load, answer) => load'.call # "post"
  BY DEF Answer, ScreenInv, RequestPart, Fresh, Calls
<1>7. LoadHandled \/ LoadLost => \E answer : load' = Answer(load, answer)
  BY DEF LoadHandled, LoadLost
<1>8. LoadArrives => load' = Idle \/ load' = Request("my-active") \/ GoToEntry
  BY DEF LoadArrives, NotFound
<1>9. PollTick \/ PollHandled \/ PollFails \/ PollArrives \/ HandleCallExpired
      \/ HandlePauseExpired \/ RefetchHandled \/ RefetchFails \/ RefetchAgain
      \/ RefetchArrives \/ TogglePause \/ HandleLeaveQueue \/ CommandHandled \/ CommandLost
      => load' = load
  BY DEF PollTick, PollHandled, PollFails, PollArrives, HandleCallExpired,
         HandlePauseExpired, RefetchHandled, RefetchFails, RefetchAgain, RefetchArrives,
         TogglePause, HandleLeaveQueue, SendCommand, CommandHandled, CommandLost
<1>10. CommandArrives \/ BackToStart => load' = load \/ GoToEntry
  BY DEF CommandArrives, BackToStart, LeaveTicketPage, OnTicket
<1>11. EntryEffect => session.pending \/ load'.call # "post"
  BY <1>1 DEF EntryEffect, Request
<1>12. session.pending => meant
  BY DEF ScreenInv, EntryPart
<1>13. QED
  BY <1>1, <1>2, <1>3, <1>4, <1>5, <1>6, <1>7, <1>8, <1>9, <1>10, <1>11, <1>12
     DEF ScreenNext, TicketPageNext

(* Every POST /tickets comes of an entry she made and that was not posted  *)
(* for yet: consumeQueueEntryPending takes the intent, so no reload, no    *)
(* way back to the page and no lost answer posts it again.                 *)
THEOREM OnlyEntriesEnqueue == ScreenSpec => ReloadNeverEnqueues
<1>1. ScreenInv /\ [ScreenNext]_svars
        => [load.call # "post" /\ load'.call = "post" => meant]_svars
  BY OnlyTheEntryEffectPosts
<1>2. QED
  BY <1>1, ScreenAlways, PTL DEF ScreenSpec, ReloadNeverEnqueues

=============================================================================
