------------------------------- MODULE Boards -------------------------------
(***************************************************************************)
(* One screen that follows the desk: the TV, or a dashboard of the staff.  *)
(* It reloads on events of a socket and every 15 s.  An event is lost when *)
(* the socket is down or not in the room; reloads overlap, fail and are    *)
(* answered out of order; and an answer is read list by list, so that it   *)
(* may mix two moments of the desk.                                        *)
(*                                                                         *)
(* Of what is on the screen, and of what is read for it, only whether it   *)
(* is still as the desk is matters here.                                   *)
(***************************************************************************)
EXTENDS BoardViews, Functions

CONSTANTS
  Clients,    \* the kinds of screen: "panel", "dashboard"
  MaxReloads  \* bound: reloads in flight at once

VARIABLES
  client,     \* what the screen is
  valid,      \* its token, or its session, is still accepted
  link,       \* the socket
  due,        \* an event is on its way, or its reload put off by the debounce
  reloads,    \* how many requests in flight there are of each kind
  stale,      \* the screen is not as the desk is
  denied      \* the screen says access denied, or asks for a login

bvars == <<tickets, counters, queues, er, today, client, valid, link, due,
           reloads, stale, denied>>

Parts == IF client = "panel" THEN PanelParts ELSE DashboardParts
On(part) == IF client = "panel" THEN OnPanel(part) ELSE OnDashboard(part)
Refresh == IF client = "panel" THEN PanelEvents ELSE DashboardEvents

(* A request that is being read, was answered, or was refused; "old" when  *)
(* the desk has changed since what was read.                               *)
Reload == {"reading", "reading old", "answered", "answered old", "refused"}
InFlight == FoldFunction(+, 0, reloads)

Becomes(from, to) == [reloads EXCEPT ![from] = @ - 1, ![to] = @ + 1]
Ends(kind) == [reloads EXCEPT ![kind] = @ - 1]

BoardTypeOK ==
  /\ TypeOK
  /\ client \in Clients /\ valid \in BOOLEAN /\ denied \in BOOLEAN
  /\ link \in {"down", "up", "joined", "out"} /\ due \in BOOLEAN
  /\ reloads \in [Reload -> 0 .. MaxReloads] /\ InFlight <= MaxReloads
  /\ stale \in BOOLEAN

BoardInit ==
  /\ Init
  /\ client \in Clients /\ stale = TRUE /\ denied = FALSE
  /\ valid = TRUE /\ link = "down" /\ due = FALSE
  /\ reloads = [kind \in Reload |-> 0]

-----------------------------------------------------------------------------
(* The desk moves on *)

Changes == \E part \in Parts : On(part)' # On(part)

(* A list not read yet may still be read as it is now.                     *)
FallsBehind ==
  IF ~Changes THEN UNCHANGED <<stale, reloads>>
  ELSE /\ stale' = TRUE
       /\ \E unread \in 0 .. reloads["reading"] :
            reloads' = [reloads EXCEPT
              !["reading"] = unread, !["reading old"] = @ + reloads["reading"] - unread,
              !["answered"] = 0, !["answered old"] = @ + reloads["answered"]]

(* emitToER, after the commit, reaches who is in the room.  A backend that *)
(* stops in between takes the connection with it.                          *)
HandlerRuns ==
  /\ UNCHANGED <<client, valid, link, denied>>
  /\ RepresentativeNext \/ StaffNext \/ ServiceNext \/ CounterNext \/ DayNext
  /\ due' = (due \/ (link = "joined" /\ AnnouncedTo(Refresh)))
  /\ FallsBehind

TimePasses ==
  /\ UNCHANGED <<client, valid, link, due, denied>>
  /\ Clock /\ FallsBehind

(* The token is rotated or revoked; a logout elsewhere ends the session.   *)
Revoke ==
  /\ valid /\ valid' = FALSE
  /\ UNCHANGED <<vars, client, link, due, reloads, stale, denied>>

-----------------------------------------------------------------------------
(* The socket *)

SetLink(state) ==
  link' = state /\ UNCHANGED <<vars, client, valid, reloads, stale, denied>>

Connect == link = "down" /\ SetLink("up") /\ UNCHANGED due

(* handleJoinER: in the room, or cut off for good.  A join whose check of  *)
(* the token throws is not sent again: the link just stays up.             *)
HandleJoinER ==
  /\ link = "up"
  /\ SetLink(IF valid THEN "joined" ELSE "out") /\ UNCHANGED due

(* What was on its way is lost; a reload put off is not.  The connection   *)
(* that follows joins again and reloads nothing by itself.                 *)
Disconnect ==
  /\ link \in {"up", "joined"} /\ SetLink("down")
  /\ due' \in {due, FALSE}

-----------------------------------------------------------------------------
(* Reloads *)

(* A request that nothing has been read for yet might as well not be sent. *)
(* A dashboard whose session ended shows the login and asks no more.       *)
Send ==
  /\ client = "panel" \/ ~denied
  /\ InFlight < MaxReloads
  /\ reloads' = [reloads EXCEPT ![IF valid THEN "reading" ELSE "refused"] = @ + 1]
  /\ UNCHANGED <<vars, client, valid, link, stale, denied>>

(* A dashboard reloads at once.  The TV waits 250 ms, and 250 ms more for  *)
(* every event that comes meanwhile.                                       *)
EventReload == due /\ due' = FALSE /\ Send

\* Fault: the page trusts its events while it is connected.
IntervalWhileDown == link = "down" /\ Send /\ UNCHANGED due

(* The first load, and the interval of 15 s.                               *)
Interval == Send /\ UNCHANGED due

ReadRest ==
  /\ \/ reloads["reading"] > 0 /\ reloads' = Becomes("reading", "answered")
     \/ reloads["reading old"] > 0 /\ reloads' = Becomes("reading old", "answered old")
  /\ UNCHANGED <<vars, client, valid, link, due, stale, denied>>

(* A network error or a 5xx: the screen stays as it is.                    *)
Fail ==
  /\ \E kind \in {"reading", "reading old"} : reloads[kind] > 0 /\ reloads' = Ends(kind)
  /\ UNCHANGED <<vars, client, valid, link, due, stale, denied>>

Takes(kind) ==
  /\ reloads[kind] > 0 /\ reloads' = Ends(kind)
  /\ UNCHANGED <<vars, client, valid, link, due>>

(* The screen takes any answer that comes, the last one last.              *)
Arrive(kind) ==
  /\ Takes(kind)
  /\ stale' = (kind = "answered old")
  /\ denied' = (denied /\ client # "panel")

\* Fault: a refused screen keeps what it shows.
RefusalArrivesUnseen == Takes("refused") /\ UNCHANGED <<stale, denied>>

(* A refused TV goes on asking, a dashboard does not.                      *)
RefusalArrives == Takes("refused") /\ denied' = TRUE /\ UNCHANGED stale

-----------------------------------------------------------------------------

ScreenNext ==
  \/ Connect \/ HandleJoinER \/ Disconnect
  \/ EventReload \/ Interval
  \/ ReadRest \/ Fail \/ Arrive("answered") \/ Arrive("answered old") \/ RefusalArrives

BoardNext == HandlerRuns \/ TimePasses \/ Revoke \/ ScreenNext

(* The interval ticks for as long as the page is open, requests end, and   *)
(* of those sent for ever some are answered.  Nothing is assumed of the    *)
(* socket.                                                                 *)
BoardSpec ==
  /\ BoardInit /\ [][BoardNext]_bvars
  /\ WF_bvars(Interval)
  /\ SF_bvars(ReadRest) /\ WF_bvars(RefusalArrives)
  /\ WF_bvars(Arrive("answered")) /\ WF_bvars(Arrive("answered old"))

-----------------------------------------------------------------------------

(* Whatever a handler changes of what the screen shows, it announces with  *)
(* an event the screen listens to; midnight, which moves the lists of the  *)
(* dashboards to another date, is left to the interval.                    *)
ChangesAreAnnounced == [][Changes /\ today' = today => AnnouncedTo(Refresh)]_bvars

DeskStays == <>[][UNCHANGED vars]_bvars

(* However many events are lost, reloads fail or answers come late and out *)
(* of order, the screen ends up showing the desk as it is, or no desk.     *)
BoardCatchesUp == DeskStays => <>[](~stale \/ denied)

(* A screen whose token or session has ended does not go on showing the    *)
(* desk, even if answers to what it asked before still arrive.             *)
RevokedScreenGoesDark == <>~valid => <>[]denied

==============================================================================
