------------------------------ MODULE DeskProofs ------------------------------
(***************************************************************************)
(* TicketQueue implements ServiceDesk, and goes on doing so while counters *)
(* are created and deleted under it and while requests overlap: every      *)
(* transaction maps to one move of the desk or to none, for any tickets,   *)
(* representatives, counters, operators and requests in flight.  The       *)
(* boards are told of whatever they show.                                  *)
(***************************************************************************)
EXTENDS CounterAdmin, Boards, OverlapProofs

-----------------------------------------------------------------------------
(* The date of the start of a service tells apart a ticket cancelled       *)
(* before it from one cancelled after it.  The desk needs nothing else of  *)
(* the rows but their types: every handler checks what its move requires.  *)

StartsAreDated ==
  \A t \in Tickets :
    /\ tickets[t].state \in {"ABSENT", "WAITING", "CALLING", "PAUSED"} => ~tickets[t].started
    /\ tickets[t].state = "IN_SERVICE" => tickets[t].started

DeskInv == TypeOK /\ StartsAreDated

DeskMove == Desk!DeskNext \/ UNCHANGED Desk!dvars

(* Only t is written, and it stays with its representative.                *)
Writes(t) ==
  /\ \A u \in Tickets \ {t} : tickets'[u] = tickets[u]
  /\ tickets'[t].rep = tickets[t].rep

-----------------------------------------------------------------------------
(* Moves of the desk from what is written to the ticket *)

(* A ticket leaves its operator for another stage. *)
LEMMA WriteLeaves ==
  ASSUME NEW t \in Tickets, NEW to, Writes(t),
         LifeOf(tickets'[t]) = to, ServerOf(tickets'[t]) = None
  PROVE  Desk!Leave({t}, to)
<1>1. [u \in Tickets |-> LifeOf(tickets'[u])]
        = [u \in Tickets |-> IF u \in {t} THEN to ELSE LifeOf(tickets[u])]
  BY DEF Writes
<1>2. [u \in Tickets |-> ServerOf(tickets'[u])]
        = [u \in Tickets |-> IF u \in {t} THEN None ELSE ServerOf(tickets[u])]
  BY DEF Writes
<1>3. [u \in Tickets |-> tickets'[u].rep] = [u \in Tickets |-> tickets[u].rep]
  BY DEF Writes
<1>. QED
  BY <1>1, <1>2, <1>3 DEF Desk!Leave

(* Every ticket of T does so. *)
LEMMA WritesLeave ==
  ASSUME NEW T \in SUBSET Tickets, NEW to,
         \A u \in Tickets \ T : tickets'[u] = tickets[u],
         \A u \in T : /\ LifeOf(tickets'[u]) = to /\ ServerOf(tickets'[u]) = None
                      /\ tickets'[u].rep = tickets[u].rep
  PROVE  Desk!Leave(T, to)
<1>1. [u \in Tickets |-> LifeOf(tickets'[u])]
        = [u \in Tickets |-> IF u \in T THEN to ELSE LifeOf(tickets[u])]
  OBVIOUS
<1>2. [u \in Tickets |-> ServerOf(tickets'[u])]
        = [u \in Tickets |-> IF u \in T THEN None ELSE ServerOf(tickets[u])]
  OBVIOUS
<1>3. [u \in Tickets |-> tickets'[u].rep] = [u \in Tickets |-> tickets[u].rep]
  OBVIOUS
<1>. QED
  BY <1>1, <1>2, <1>3 DEF Desk!Leave

(* Nothing the desk knows of has changed. *)
LEMMA WriteUnseen ==
  ASSUME NEW t \in Tickets, Writes(t),
         LifeOf(tickets'[t]) = LifeOf(tickets[t]), ServerOf(tickets'[t]) = ServerOf(tickets[t])
  PROVE  DeskMove
<1>1. /\ [u \in Tickets |-> LifeOf(tickets'[u])] = [u \in Tickets |-> LifeOf(tickets[u])]
      /\ [u \in Tickets |-> ServerOf(tickets'[u])] = [u \in Tickets |-> ServerOf(tickets[u])]
      /\ [u \in Tickets |-> tickets'[u].rep] = [u \in Tickets |-> tickets[u].rep]
  BY DEF Writes
<1>. QED
  BY <1>1 DEF DeskMove, Desk!dvars

LEMMA NoTicketWritten ==
  ASSUME UNCHANGED tickets
  PROVE  DeskMove
BY DEF DeskMove, Desk!dvars

-----------------------------------------------------------------------------
(* The dates of the services *)

LEMMA DatedAfterWrite ==
  ASSUME StartsAreDated, NEW t \in Tickets, \A u \in Tickets \ {t} : tickets'[u] = tickets[u],
         tickets'[t].state \in {"ABSENT", "WAITING", "CALLING", "PAUSED"} => ~tickets'[t].started,
         tickets'[t].state = "IN_SERVICE" => tickets'[t].started
  PROVE  StartsAreDated'
BY DEF StartsAreDated

LEMMA DatedAfterResolving ==
  ASSUME StartsAreDated, NEW T,
         \A u \in Tickets \ T : tickets'[u] = tickets[u],
         \A u \in Tickets \cap T : tickets'[u].state \in {"NO_SHOW", "FINISHED"}
  PROVE  StartsAreDated'
BY DEF StartsAreDated

-----------------------------------------------------------------------------
(* One lemma per transaction, for any row read before it and any date *)

LEMMA InsertMoves ==
  ASSUME DeskInv, NEW t \in Tickets, NEW rep \in Reps, NEW priority \in BOOLEAN, NEW day,
         ~HasActiveTicket(rep, {}), InsertTicket(t, rep, day, priority)
  PROVE  DeskMove /\ StartsAreDated'
<1>1. /\ tickets[t] = NoRow
      /\ \A u \in Tickets \ {t} : tickets'[u] = tickets[u]
      /\ tickets'[t].state = "WAITING" /\ tickets'[t].rep = rep /\ ~tickets'[t].started
  BY DEF DeskInv, TypeOK, InsertTicket, SetTicket
<1>2. Desk!HasNoActive(rep)
  BY DEF HasActiveTicket, Desk!HasNoActive, Desk!Active, Desk!Serving, LifeOf, ACTIVE_STATES
<1>4. LifeOf(tickets[t]) = "ABSENT" /\ ServerOf(tickets[t]) = None
  BY <1>1 DEF LifeOf, ServerOf, AT_COUNTER, NoRow
<1>3. /\ [u \in Tickets |-> LifeOf(tickets'[u])]
           = [[u \in Tickets |-> LifeOf(tickets[u])] EXCEPT ![t] = "WAITING"]
      /\ [u \in Tickets |-> tickets'[u].rep]
           = [[u \in Tickets |-> tickets[u].rep] EXCEPT ![t] = rep]
      /\ [u \in Tickets |-> ServerOf(tickets'[u])] = [u \in Tickets |-> ServerOf(tickets[u])]
  <2>1. /\ LifeOf(tickets'[t]) = "WAITING" /\ ServerOf(tickets'[t]) = None
        /\ \A u \in Tickets \ {t} : /\ LifeOf(tickets'[u]) = LifeOf(tickets[u])
                                    /\ ServerOf(tickets'[u]) = ServerOf(tickets[u])
                                    /\ tickets'[u].rep = tickets[u].rep
    BY <1>1 DEF LifeOf, ServerOf, AT_COUNTER
  <2>. QED
    BY <1>1, <1>4, <2>1
<1>5. Desk!Join(t, rep)
  BY <1>2, <1>3, <1>4 DEF Desk!Join
<1>6. StartsAreDated'
  BY <1>1, DatedAfterWrite DEF DeskInv
<1>. QED
  BY <1>5, <1>6 DEF DeskMove, Desk!DeskNext

LEMMA CancelMoves ==
  ASSUME DeskInv, NEW t \in Tickets, SelfCancelTx(t) \/ CancelTx(t)
  PROVE  DeskMove /\ StartsAreDated'
<1>1. tickets[t] \in Ticket /\ tickets[t].state \in ACTIVE_STATES
  BY PresentRow DEF SelfCancelTx, CancelTx, DeskInv, TicketState,
     ACTIVE_STATES
<1>2. tickets' = [tickets EXCEPT ![t] =
                    [tickets[t] EXCEPT !.state = "CANCELLED", !.overdue = FALSE]]
  BY DEF SelfCancelTx, CancelTx, SetTicket
<1>3. /\ Writes(t) /\ tickets'[t].state = "CANCELLED"
      /\ tickets'[t].started = tickets[t].started
  BY <1>1, <1>2 DEF Writes, DeskInv, TypeOK, Ticket
<1>4. StartsAreDated'
  BY <1>3, DatedAfterWrite DEF DeskInv, Writes
<1>5. ServerOf(tickets'[t]) = None
  BY <1>3 DEF ServerOf, AT_COUNTER
<1>6. CASE tickets[t].state = "IN_SERVICE"
  <2>1. LifeOf(tickets[t]) = "IN_SERVICE" /\ LifeOf(tickets'[t]) = "VOID"
    BY <1>3, <1>6 DEF LifeOf, DeskInv, StartsAreDated
  <2>2. Desk!Cancel(t)
    BY <1>3, <1>5, <2>1, WriteLeaves DEF Desk!Cancel
  <2>. QED
    BY <1>4, <2>2 DEF DeskMove, Desk!DeskNext
<1>7. CASE tickets[t].state \in {"WAITING", "CALLING", "PAUSED"}
  <2>1. /\ LifeOf(tickets[t]) \in {"WAITING", "CALLING", "PAUSED"}
        /\ LifeOf(tickets'[t]) = "CANCELLED"
    BY <1>3, <1>7 DEF LifeOf, DeskInv, StartsAreDated
  <2>2. Desk!Cancel(t)
    BY <1>3, <1>5, <2>1, WriteLeaves DEF Desk!Cancel
  <2>. QED
    BY <1>4, <2>2 DEF DeskMove, Desk!DeskNext
<1>. QED
  BY <1>1, <1>6, <1>7 DEF ACTIVE_STATES

LEMMA RestoreMoves ==
  ASSUME DeskInv, NEW t \in Tickets, NEW day,
         ~HasActiveTicket(tickets[t].rep, {t}), RestoreTx(t, day)
  PROVE  DeskMove /\ StartsAreDated'
<1>1. tickets[t] \in Ticket /\ Restorable(tickets[t])
  BY PresentRow DEF RestoreTx, Restorable, DeskInv, TicketState
<1>2. /\ Writes(t) /\ tickets'[t].state = "WAITING" /\ ~tickets'[t].started
  BY <1>1 DEF RestoreTx, SetTicket, Writes, DeskInv, TypeOK, Ticket
<1>3. StartsAreDated'
  BY <1>2, DatedAfterWrite DEF DeskInv, Writes
<1>4. LifeOf(tickets[t]) \in {"NO_SHOW", "CANCELLED"}
  BY <1>1 DEF LifeOf, Restorable
<1>5. LifeOf(tickets'[t]) = "WAITING" /\ ServerOf(tickets'[t]) = None
  BY <1>2 DEF LifeOf, ServerOf, AT_COUNTER
<1>6. \A u \in Tickets : tickets[u].rep = tickets[t].rep => LifeOf(tickets[u]) \notin Desk!Active
  BY <1>4 DEF HasActiveTicket, Desk!Active, Desk!Serving, LifeOf, ACTIVE_STATES
<1>7. Desk!Rejoin(t)
  BY <1>2, <1>4, <1>5, <1>6, WriteLeaves DEF Desk!Rejoin, Desk!HasNoActive
<1>. QED
  BY <1>3, <1>7 DEF DeskMove, Desk!DeskNext

(* Renewals of a call and changes of priority. *)
LEMMA RenewalMoves ==
  ASSUME DeskInv, NEW t \in Tickets, tickets[t] \in Ticket, Writes(t),
         tickets'[t].state = tickets[t].state, tickets'[t].started = tickets[t].started,
         tickets'[t].operator = tickets[t].operator
  PROVE  DeskMove /\ StartsAreDated'
<1>1. StartsAreDated'
  BY DatedAfterWrite DEF DeskInv, StartsAreDated, Writes
<1>2. LifeOf(tickets'[t]) = LifeOf(tickets[t]) /\ ServerOf(tickets'[t]) = ServerOf(tickets[t])
  BY DEF LifeOf, ServerOf
<1>. QED
  BY <1>1, <1>2, WriteUnseen

LEMMA RecallMoves ==
  ASSUME DeskInv, NEW t \in Tickets, NEW o, RecallTx(t, o)
  PROVE  DeskMove /\ StartsAreDated'
<1>1. tickets[t] \in Ticket
  BY PresentRow DEF RecallTx, DeskInv, TicketState, ACTIVE_STATES
<1>2. /\ Writes(t) /\ tickets'[t].state = tickets[t].state
      /\ tickets'[t].started = tickets[t].started /\ tickets'[t].operator = tickets[t].operator
  BY <1>1 DEF RecallTx, SetTicket, Writes, DeskInv, TypeOK, Ticket
<1>. QED
  BY <1>1, <1>2, RenewalMoves

LEMMA ToleranceMoves ==
  ASSUME DeskInv, NEW t \in Tickets, ToleranceElapses(t)
  PROVE  DeskMove /\ StartsAreDated'
<1>1. tickets[t] \in Ticket
  BY PresentRow DEF ToleranceElapses, DeskInv, TicketState, ACTIVE_STATES
<1>2. /\ Writes(t) /\ tickets'[t].state = tickets[t].state
      /\ tickets'[t].started = tickets[t].started /\ tickets'[t].operator = tickets[t].operator
  BY <1>1 DEF ToleranceElapses, SetTicket, Writes, DeskInv, TypeOK, Ticket
<1>. QED
  BY <1>1, <1>2, RenewalMoves

LEMMA PriorityMoves ==
  ASSUME DeskInv, NEW t \in Tickets, NEW isPriority, SetTicketPriorityTx(t, isPriority)
  PROVE  DeskMove /\ StartsAreDated'
<1>1. tickets[t] \in Ticket
  BY PresentRow DEF SetTicketPriorityTx, DeskInv, TicketState, ACTIVE_STATES
<1>2. /\ Writes(t) /\ tickets'[t].state = tickets[t].state
      /\ tickets'[t].started = tickets[t].started /\ tickets'[t].operator = tickets[t].operator
  BY <1>1 DEF SetTicketPriorityTx, SetTicket, Writes, DeskInv, TypeOK, Ticket
<1>. QED
  BY <1>1, <1>2, RenewalMoves

(* A pause, by the representative or by the staff. *)
LEMMA PauseMoves ==
  ASSUME DeskInv, NEW t \in Tickets, NEW pre,
         \/ PauseTx(t)
         \/ StaffPauseTx(t, pre) /\ pre.state \in {"WAITING", "CALLING", "IN_SERVICE"}
  PROVE  DeskMove /\ StartsAreDated'
<1>1. tickets[t] \in Ticket /\ tickets[t].state \in {"WAITING", "CALLING", "IN_SERVICE"}
  BY PresentRow DEF PauseTx, StaffPauseTx, DeskInv, TicketState, ACTIVE_STATES
<1>2. Writes(t) /\ tickets'[t].state = "PAUSED" /\ ~tickets'[t].started
  <2>1. CASE PauseTx(t)
    BY <1>1, <2>1 DEF PauseTx, SetTicket, Writes, DeskInv, TypeOK, Ticket,
       StartsAreDated
  <2>2. CASE StaffPauseTx(t, pre)
    BY <1>1, <2>2 DEF StaffPauseTx, SetTicket, Writes, DeskInv, TypeOK, Ticket
  <2>. QED
    BY <2>1, <2>2
<1>3. StartsAreDated'
  BY <1>2, DatedAfterWrite DEF DeskInv, Writes
<1>4. /\ LifeOf(tickets[t]) \in Desk!Active \ {"PAUSED"}
      /\ LifeOf(tickets'[t]) = "PAUSED" /\ ServerOf(tickets'[t]) = None
  BY <1>1, <1>2 DEF LifeOf, ServerOf, AT_COUNTER, Desk!Active, Desk!Serving
<1>5. Desk!SetAside(t)
  BY <1>2, <1>4, WriteLeaves DEF Desk!SetAside
<1>. QED
  BY <1>3, <1>5 DEF DeskMove, Desk!DeskNext

(* The end of a pause, in place or at the end of the line of today. *)
LEMMA ResumeMoves ==
  ASSUME DeskInv, NEW t \in Tickets, tickets[t].state = "PAUSED", Writes(t),
         tickets'[t].state = "WAITING", tickets'[t].started = tickets[t].started
  PROVE  DeskMove /\ StartsAreDated'
<1>1. StartsAreDated'
  BY DatedAfterWrite DEF DeskInv, StartsAreDated, Writes
<1>2. /\ LifeOf(tickets[t]) = "PAUSED" /\ LifeOf(tickets'[t]) = "WAITING"
      /\ ServerOf(tickets'[t]) = None
  BY DEF LifeOf, ServerOf, AT_COUNTER
<1>3. Desk!Return(t)
  BY <1>2, WriteLeaves DEF Desk!Return
<1>. QED
  BY <1>1, <1>3 DEF DeskMove, Desk!DeskNext

LEMMA ResumeInPlaceMoves ==
  ASSUME DeskInv, NEW t \in Tickets, ResumeInPlace(t)
  PROVE  DeskMove /\ StartsAreDated'
<1>1. tickets[t] \in Ticket /\ tickets[t].state = "PAUSED"
  BY PresentRow DEF ResumeInPlace, DeskInv, TicketState, ACTIVE_STATES
<1>2. Writes(t) /\ tickets'[t].state = "WAITING" /\ tickets'[t].started = tickets[t].started
  BY <1>1 DEF ResumeInPlace, SetTicket, Writes, DeskInv, TypeOK, Ticket
<1>. QED
  BY <1>1, <1>2, ResumeMoves

(* A pause that has ended meanwhile leaves only a place taken. *)
LEMMA ResumeToEndMoves ==
  ASSUME DeskInv, NEW t \in Tickets, NEW day, ResumeToEndOfQueue(t, day)
  PROVE  DeskMove /\ StartsAreDated'
<1>1. CASE tickets[t].state # "PAUSED"
  BY <1>1, NoTicketWritten DEF ResumeToEndOfQueue, DeskInv, StartsAreDated
<1>2. CASE tickets[t].state = "PAUSED"
  <2>1. tickets[t] \in Ticket
    BY <1>2, PresentRow DEF DeskInv, TicketState, ACTIVE_STATES
  <2>2. Writes(t) /\ tickets'[t].state = "WAITING" /\ tickets'[t].started = tickets[t].started
    <3>1. tickets' = [tickets EXCEPT ![t] = [tickets[t] EXCEPT
            !.state = "WAITING", !.day = day, !.position = NextPosition(day),
            !.code = GenerateCode(NextPosition(day)), !.overdue = FALSE]]
      BY <1>2 DEF ResumeToEndOfQueue, SetTicket
    <3>2. tickets \in [Tickets -> Ticket \cup {NoRow}]
      BY DEF DeskInv, TypeOK
    <3>. HIDE DEF NextPosition, GenerateCode
    <3>. QED
      BY <2>1, <3>1, <3>2 DEF Writes, Ticket
  <2>. QED
    BY <1>2, <2>1, <2>2, ResumeMoves
<1>. QED
  BY <1>1, <1>2

LEMMA StartMoves ==
  ASSUME DeskInv, NEW t \in Tickets, NEW pre, NEW restrictTo,
         TransitionToInService(t, pre, restrictTo)
  PROVE  DeskMove /\ StartsAreDated'
<1>1. tickets[t] \in Ticket /\ tickets[t].state = "CALLING"
  BY PresentRow DEF TransitionToInService, DeskInv, TicketState, ACTIVE_STATES
<1>2. /\ Writes(t) /\ tickets'[t].state = "IN_SERVICE" /\ tickets'[t].started
      /\ tickets'[t].operator = tickets[t].operator
  BY <1>1 DEF TransitionToInService, SetTicket, Writes, DeskInv, TypeOK, Ticket
<1>3. StartsAreDated'
  BY <1>2, DatedAfterWrite DEF DeskInv, Writes
<1>4. /\ [u \in Tickets |-> LifeOf(tickets'[u])]
           = [[u \in Tickets |-> LifeOf(tickets[u])] EXCEPT ![t] = "IN_SERVICE"]
      /\ [u \in Tickets |-> ServerOf(tickets'[u])] = [u \in Tickets |-> ServerOf(tickets[u])]
      /\ [u \in Tickets |-> tickets'[u].rep] = [u \in Tickets |-> tickets[u].rep]
  BY <1>1, <1>2 DEF LifeOf, ServerOf, AT_COUNTER, Writes
<1>5. Desk!Start(t)
  BY <1>1, <1>4 DEF Desk!Start, LifeOf
<1>. QED
  BY <1>3, <1>5 DEF DeskMove, Desk!DeskNext

(* The end of a call or of a service, for one ticket. *)
LEMMA EndMoves ==
  ASSUME DeskInv, NEW t \in Tickets, Writes(t),
         \/ tickets[t].state = "IN_SERVICE" /\ tickets'[t].state = "FINISHED"
         \/ tickets[t].state \in ACTIVE_STATES /\ tickets'[t].state = "NO_SHOW"
  PROVE  DeskMove /\ StartsAreDated'
<1>1. StartsAreDated'
  BY DatedAfterWrite DEF DeskInv, StartsAreDated, Writes
<1>2. LifeOf(tickets[t]) = tickets[t].state /\ LifeOf(tickets'[t]) = tickets'[t].state
      /\ ServerOf(tickets'[t]) = None
  BY DEF LifeOf, ServerOf, AT_COUNTER, ACTIVE_STATES
<1>3. Desk!Leave({t}, tickets'[t].state)
  BY <1>2, WriteLeaves
<1>4. Desk!Finish({t}) \/ Desk!Miss({t})
  BY <1>2, <1>3 DEF Desk!Finish, Desk!Miss, Desk!Active, Desk!Serving, ACTIVE_STATES
<1>. QED
  BY <1>1, <1>4 DEF DeskMove, Desk!DeskNext

LEMMA CounterEndMoves ==
  ASSUME DeskInv, NEW t \in Tickets, NEW pre, NEW o,
         \/ TransitionToFinished(t, pre, o)
         \/ MarkNoShow(t, pre, o)
         \/ ExpireCallTimeout(t, pre)
         \/ CorrectTx(t, pre, "FINISHED")
  PROVE  DeskMove /\ StartsAreDated'
<1>1. tickets[t] \in Ticket /\ tickets[t].state \in AT_COUNTER
  BY PresentRow DEF TransitionToFinished, MarkNoShow, ExpireCallTimeout, CorrectTx, DeskInv,
     TicketState, ACTIVE_STATES, AT_COUNTER
<1>2. /\ Writes(t)
      /\ \/ tickets[t].state = "IN_SERVICE" /\ tickets'[t].state = "FINISHED"
         \/ tickets[t].state \in ACTIVE_STATES /\ tickets'[t].state = "NO_SHOW"
  BY <1>1 DEF TransitionToFinished, MarkNoShow, ExpireCallTimeout, CorrectTx, SetTicket, Writes,
     DeskInv, TypeOK, Ticket, AT_COUNTER, ACTIVE_STATES
<1>. QED
  BY <1>2, EndMoves

(* A service corrected to cancelled is void. *)
LEMMA CorrectCancelMoves ==
  ASSUME DeskInv, NEW t \in Tickets, NEW pre, CorrectTx(t, pre, "CANCELLED")
  PROVE  DeskMove /\ StartsAreDated'
<1>1. tickets[t] \in Ticket /\ tickets[t].state = "IN_SERVICE" /\ tickets[t].started
  BY PresentRow DEF CorrectTx, DeskInv, TicketState, ACTIVE_STATES,
     StartsAreDated
<1>2. Writes(t) /\ tickets'[t].state = "CANCELLED" /\ tickets'[t].started
  BY <1>1 DEF CorrectTx, SetTicket, Writes, DeskInv, TypeOK, Ticket
<1>3. StartsAreDated'
  BY <1>2, DatedAfterWrite DEF DeskInv, Writes
<1>4. /\ LifeOf(tickets[t]) = "IN_SERVICE" /\ LifeOf(tickets'[t]) = "VOID"
      /\ ServerOf(tickets'[t]) = None
  BY <1>1, <1>2 DEF LifeOf, ServerOf, AT_COUNTER
<1>5. Desk!Cancel(t)
  BY <1>2, <1>4, WriteLeaves DEF Desk!Cancel
<1>. QED
  BY <1>3, <1>5 DEF DeskMove, Desk!DeskNext

LEMMA CallMoves ==
  ASSUME DeskInv, NEW t \in Tickets, NEW c \in Counters, NEW o \in Operators,
         tickets[t].state = "WAITING", ~HasOpenTicket(o), CallTicket(t, c, o)
  PROVE  DeskMove /\ StartsAreDated'
<1>2. tickets[t] \in Ticket
  BY PresentRow DEF DeskInv, TicketState, ACTIVE_STATES
<1>3. /\ Writes(t) /\ tickets'[t].state = "CALLING" /\ tickets'[t].operator = o
      /\ tickets'[t].started = tickets[t].started
  BY <1>2 DEF CallTicket, SetTicket, Writes, DeskInv, TypeOK, Ticket
<1>4. StartsAreDated'
  BY <1>3, DatedAfterWrite DEF DeskInv, Writes, StartsAreDated
<1>5. Desk!IsIdle(o)
  BY DEF HasOpenTicket, Desk!IsIdle, Desk!Serving, LifeOf, ServerOf, AT_COUNTER
<1>6. /\ [u \in Tickets |-> LifeOf(tickets'[u])]
           = [[u \in Tickets |-> LifeOf(tickets[u])] EXCEPT ![t] = "CALLING"]
      /\ [u \in Tickets |-> ServerOf(tickets'[u])]
           = [[u \in Tickets |-> ServerOf(tickets[u])] EXCEPT ![t] = o]
      /\ [u \in Tickets |-> tickets'[u].rep] = [u \in Tickets |-> tickets[u].rep]
  BY <1>3 DEF LifeOf, ServerOf, AT_COUNTER, Writes
<1>7. Desk!Call(t, o)
  BY <1>5, <1>6 DEF Desk!Call, LifeOf
<1>. QED
  BY <1>4, <1>7 DEF DeskMove, Desk!DeskNext

(* A forced release ends the ticket as its reading says; that is a move of *)
(* the desk if the ticket is still active, and in service if it was.       *)
LEMMA ReleaseWrites ==
  ASSUME DeskInv, NEW c, NEW open \in Tickets, tickets[open] \in Ticket, NEW readState,
         ForceReleaseTx(c, open, readState)
  PROVE  /\ Writes(open)
         /\ tickets'[open].state = IF readState = "IN_SERVICE" THEN "FINISHED" ELSE "NO_SHOW"
<1>. DEFINE to == IF readState = "IN_SERVICE" THEN "FINISHED" ELSE "NO_SHOW"
<1>1. open # None
  BY NoneAssumption
<1>2. tickets' = [tickets EXCEPT ![open] = [tickets[open] EXCEPT !.state = to, !.overdue = FALSE]]
  BY <1>1 DEF ForceReleaseTx, SetTicket
<1>3. tickets \in [Tickets -> Ticket \cup {NoRow}]
  BY DEF DeskInv, TypeOK
<1>4. Writes(open) /\ tickets'[open].state = to
  <2>. HIDE DEF to
  <2>. QED
    BY <1>2, <1>3 DEF Writes, Ticket
<1>. QED
  BY <1>4

LEMMA ReleaseDates ==
  ASSUME DeskInv, NEW c, NEW open \in Tickets \cup {None}, NEW readState,
         open # None => tickets[open] \in Ticket, ForceReleaseTx(c, open, readState)
  PROVE  StartsAreDated'
<1>1. CASE open = None
  BY <1>1 DEF ForceReleaseTx, DeskInv, StartsAreDated
<1>2. CASE open # None
  BY <1>2, ReleaseWrites, DatedAfterWrite DEF DeskInv, Writes
<1>. QED
  BY <1>1, <1>2

LEMMA ReleaseMoves ==
  ASSUME DeskInv, NEW c, NEW open \in Tickets \cup {None}, NEW readState,
         open # None => /\ tickets[open] \in Ticket
                        /\ readState = "IN_SERVICE" => tickets[open].state = "IN_SERVICE"
                        /\ tickets[open].state \in ACTIVE_STATES,
         ForceReleaseTx(c, open, readState)
  PROVE  DeskMove
<1>1. CASE open = None
  BY <1>1, NoTicketWritten DEF ForceReleaseTx
<1>2. CASE open # None
  <2>1. /\ Writes(open)
        /\ \/ tickets[open].state = "IN_SERVICE" /\ tickets'[open].state = "FINISHED"
           \/ tickets[open].state \in ACTIVE_STATES /\ tickets'[open].state = "NO_SHOW"
    BY <1>2, ReleaseWrites
  <2>. QED
    BY <1>2, <2>1, EndMoves
<1>. QED
  BY <1>1, <1>2

LEMMA ForceReleaseMoves ==
  ASSUME DeskInv, NEW c \in Counters, ForceRelease(c)
  PROVE  DeskMove /\ StartsAreDated'
<1>1. PICK open \in FirstOpenTicket(c) :
        ForceReleaseTx(c, open, IF open = None THEN None ELSE tickets[open].state)
  BY DEF ForceRelease
<1>2. open \in Tickets \cup {None} /\ open # None => tickets[open].state \in AT_COUNTER
  BY DEF FirstOpenTicket, OpenTicketsAt
<1>3. open # None => tickets[open] \in Ticket /\ tickets[open].state \in ACTIVE_STATES
  BY <1>2, PresentRow DEF FirstOpenTicket, OpenTicketsAt, DeskInv, TicketState, ACTIVE_STATES,
     AT_COUNTER
<1>. QED
  BY <1>1, <1>2, <1>3, ReleaseMoves, ReleaseDates DEF FirstOpenTicket, OpenTicketsAt

LEMMA OpenDayMoves ==
  ASSUME DeskInv, NEW day, OpenDayTx(day, StaleTickets(day))
  PROVE  DeskMove /\ StartsAreDated'
<1>0. PICK T \in SUBSET Tickets : T = StaleTickets(day)
  BY DEF StaleTickets
<1>1. T \in SUBSET Tickets /\ \A t \in T : tickets[t].state \in ACTIVE_STATES
  BY <1>0 DEF StaleTickets
<1>2. \A t \in T : tickets[t] \in Ticket
  BY <1>1, PresentRow DEF DeskInv, TicketState
<1>3. /\ \A t \in Tickets \ T : tickets'[t] = tickets[t]
      /\ \A t \in T : tickets'[t] = [tickets[t] EXCEPT !.state = "NO_SHOW", !.overdue = FALSE]
  BY <1>0, <1>1 DEF OpenDayTx
<1>4. \A t \in T : tickets'[t].state = "NO_SHOW" /\ tickets'[t].rep = tickets[t].rep
  BY <1>2, <1>3 DEF Ticket
<1>5. StartsAreDated'
  BY <1>3, <1>4, DatedAfterResolving DEF DeskInv
<1>6. Desk!Leave(T, "NO_SHOW")
  <2>1. \A u \in T : /\ LifeOf(tickets'[u]) = "NO_SHOW" /\ ServerOf(tickets'[u]) = None
                     /\ tickets'[u].rep = tickets[u].rep
    BY <1>4 DEF LifeOf, ServerOf, AT_COUNTER
  <2>2. \A u \in Tickets \ T : tickets'[u] = tickets[u]
    BY <1>3
  <2>. QED
    BY <2>1, <2>2, WritesLeave
<1>7. Desk!Miss(T)
  BY <1>1, <1>6 DEF Desk!Miss, Desk!Active, Desk!Serving, LifeOf, ACTIVE_STATES
<1>. QED
  BY <1>1, <1>5, <1>7 DEF DeskMove, Desk!DeskNext

LEMMA CloseDayMoves ==
  ASSUME DeskInv, NEW day, CloseDayTx(day, InDay(day, {"IN_SERVICE"}))
  PROVE  DeskMove /\ StartsAreDated'
<1>0. PICK T \in SUBSET Tickets : T = InDay(day, {"IN_SERVICE"})
  BY DEF InDay
<1>1. T \in SUBSET Tickets /\ \A t \in T : tickets[t].state = "IN_SERVICE"
  BY <1>0 DEF InDay
<1>2. \A t \in T : tickets[t] \in Ticket
  BY <1>1, PresentRow DEF DeskInv, TicketState, ACTIVE_STATES
<1>3. /\ \A t \in Tickets \ T : tickets'[t] = tickets[t]
      /\ \A t \in T : tickets'[t] = [tickets[t] EXCEPT !.state = "FINISHED", !.overdue = FALSE]
  BY <1>0, <1>1 DEF CloseDayTx
<1>4. \A t \in T : tickets'[t].state = "FINISHED" /\ tickets'[t].rep = tickets[t].rep
  BY <1>2, <1>3 DEF Ticket
<1>5. StartsAreDated'
  BY <1>3, <1>4, DatedAfterResolving DEF DeskInv
<1>6. Desk!Leave(T, "FINISHED")
  <2>1. \A u \in T : /\ LifeOf(tickets'[u]) = "FINISHED" /\ ServerOf(tickets'[u]) = None
                     /\ tickets'[u].rep = tickets[u].rep
    BY <1>4 DEF LifeOf, ServerOf, AT_COUNTER
  <2>2. \A u \in Tickets \ T : tickets'[u] = tickets[u]
    BY <1>3
  <2>. QED
    BY <2>1, <2>2, WritesLeave
<1>7. Desk!Finish(T)
  BY <1>1, <1>6 DEF Desk!Finish, LifeOf
<1>. QED
  BY <1>1, <1>5, <1>7 DEF DeskMove, Desk!DeskNext

-----------------------------------------------------------------------------
(* Every step *)

LEMMA StepMoves ==
  ASSUME DeskInv, [Next]_vars
  PROVE  DeskMove /\ StartsAreDated'
<1>1. CASE RepresentativeNext
  BY <1>1, InsertMoves, CancelMoves, PauseMoves, ResumeInPlaceMoves
     DEF RepresentativeNext, Create, SelfCancel, PauseTicket, ResumeTicket
<1>2. CASE StaffNext
  <2>1. ASSUME NEW t \in Tickets, NEW target \in {"FINISHED", "CANCELLED"}, Correct(t, target)
        PROVE  DeskMove /\ StartsAreDated'
    BY <2>1, CounterEndMoves, CorrectCancelMoves DEF Correct
  <2>. QED
    BY <1>2, <2>1, CancelMoves, RestoreMoves, PauseMoves, ResumeInPlaceMoves, PriorityMoves
       DEF StaffNext, Cancel, Restore, StaffPause, StaffResume, SetTicketPriority
<1>3. CASE ServiceNext
  BY <1>3, RecallMoves, StartMoves, CounterEndMoves, ResumeToEndMoves
     DEF ServiceNext, Recall, StartService, FinishService, NoShow, AdvanceToInService,
         CompleteService, ExpireCall, ExpirePause
<1>4. CASE CounterNext
  <2>1. ASSUME UNCHANGED tickets
        PROVE  DeskMove /\ StartsAreDated'
    BY <2>1, NoTicketWritten DEF DeskInv, StartsAreDated
  <2>2. ASSUME NEW c \in Counters, NEW o \in Operators, CallNext(c, o)
        PROVE  DeskMove /\ StartsAreDated'
    BY <2>2, CallMoves DEF CallNext, MayCall, IsHead, Waiting
  <2>. QED
    BY <1>4, <2>1, <2>2, ForceReleaseMoves
       DEF CounterNext, OpenCounter, OpenTx, PauseCounterTx, ResumeCounterTx, CloseCounter, CloseTx
<1>5. CASE DayNext
  BY <1>5, OpenDayMoves, CloseDayMoves DEF DayNext, OpenDay, CloseDay
<1>6. CASE Clock
  <2>1. CASE Midnight
    BY <2>1, NoTicketWritten DEF Midnight, DeskInv, StartsAreDated
  <2>. QED
    BY <1>6, <2>1, ToleranceMoves DEF Clock
<1>7. CASE UNCHANGED vars
  BY <1>7, NoTicketWritten DEF vars, DeskInv, StartsAreDated
<1>. QED
  BY <1>1, <1>2, <1>3, <1>4, <1>5, <1>6, <1>7 DEF Next

LEMMA InitMoves == Init => StartsAreDated /\ Desk!DeskInit
<1>. SUFFICES ASSUME Init PROVE StartsAreDated /\ Desk!DeskInit
  OBVIOUS
<1>. USE DEF Init, NoRow
<1>1. StartsAreDated
  BY DEF StartsAreDated
<1>2. /\ [t \in Tickets |-> LifeOf(tickets[t])] = [t \in Tickets |-> "ABSENT"]
      /\ [t \in Tickets |-> tickets[t].rep] = [t \in Tickets |-> None]
      /\ [t \in Tickets |-> ServerOf(tickets[t])] = [t \in Tickets |-> None]
  BY DEF LifeOf, ServerOf, AT_COUNTER
<1>. QED
  BY <1>1, <1>2 DEF Desk!DeskInit

(* TicketQueue implements ServiceDesk: whichever handler runs, with all it *)
(* writes, a representative joins only without an active ticket, an        *)
(* operator calls only while she serves nobody, and a served ticket stays  *)
(* served.                                                                 *)
THEOREM QueueImplementsDesk == Spec => ImplementsDesk
<1>1. Init => DeskInv /\ Desk!DeskInit
  BY InitConsistent, InitMoves DEF DeskInv, RowsAreConsistent
<1>2. DeskInv /\ [Next]_vars => DeskInv'
  BY StepMoves, StepKeepsTypes DEF DeskInv
<1>3. DeskInv /\ [Next]_vars => [Desk!DeskNext]_(Desk!dvars)
  BY StepMoves DEF DeskMove
<1>. QED
  BY <1>1, <1>2, <1>3, PTL DEF Spec, ImplementsDesk, Desk!DeskSpec

(* The counters of the administration *)

LEMMA AdminStepKeepsTypes == TypeOK /\ [AdminNext]_avars => TypeOK'
<1>. SUFFICES ASSUME TypeOK, [AdminNext]_avars PROVE TypeOK'
  OBVIOUS
<1>1. ASSUME NEW c \in Counters, DeleteRow(c)
      PROVE  TypeOK'
  <2>1. tickets' \in [Tickets -> Ticket \cup {NoRow}]
    <3>1. ASSUME NEW t \in Tickets, tickets[t].counter = c
          PROVE  [tickets[t] EXCEPT !.counter = None] \in Ticket
      <4>1. tickets[t] \in Ticket
        BY <3>1, NoneAssumption DEF TypeOK, NoRow
      <4>2. QED
        BY <4>1 DEF Ticket
    <3>2. QED
      BY <1>1, <3>1 DEF DeleteRow, TypeOK
  <2>2. counters' \in [Counters -> Counter]
    BY <1>1 DEF DeleteRow, TypeOK, NewCounter, Counter, CounterState
  <2>3. QED
    BY <1>1, <2>1, <2>2 DEF DeleteRow, TypeOK
<1>2. CASE DeskStep
  BY <1>2, StepKeepsTypes DEF DeskStep, Next
<1>3. CASE UNCHANGED vars
  BY <1>3, StepKeepsTypes
<1>4. QED
  BY <1>1, <1>2, <1>3 DEF AdminNext, avars, CreateCounter, CheckDeletion

(* A counter deleted under its ticket takes nothing from the desk: the     *)
(* ticket stays with its operator.                                         *)
LEMMA DeletionIsNoMove ==
  ASSUME DeskInv, NEW c \in Counters, DeleteRow(c)
  PROVE  DeskMove /\ StartsAreDated'
<1>1. ASSUME NEW t \in Tickets
      PROVE  /\ tickets'[t].state = tickets[t].state /\ tickets'[t].rep = tickets[t].rep
             /\ tickets'[t].started = tickets[t].started
             /\ tickets'[t].operator = tickets[t].operator
  <2>1. tickets[t] \in Ticket \/ tickets[t] = NoRow
    BY DEF DeskInv, TypeOK
  <2>2. QED
    BY <2>1 DEF DeleteRow, Ticket, NoRow
<1>2. StartsAreDated'
  BY <1>1 DEF DeskInv, StartsAreDated
<1>3. /\ [t \in Tickets |-> LifeOf(tickets'[t])] = [t \in Tickets |-> LifeOf(tickets[t])]
      /\ [t \in Tickets |-> ServerOf(tickets'[t])] = [t \in Tickets |-> ServerOf(tickets[t])]
      /\ [t \in Tickets |-> tickets'[t].rep] = [t \in Tickets |-> tickets[t].rep]
  BY <1>1 DEF LifeOf, ServerOf
<1>4. QED
  BY <1>2, <1>3 DEF DeskMove, Desk!dvars

LEMMA AdminStepMoves ==
  ASSUME DeskInv, [AdminNext]_avars
  PROVE  DeskMove /\ StartsAreDated'
<1>1. CASE DeskStep
  BY <1>1, StepMoves DEF DeskStep, Next
<1>2. CASE UNCHANGED vars
  BY <1>2, StepMoves
<1>3. QED
  BY <1>1, <1>2, DeletionIsNoMove DEF AdminNext, avars, CreateCounter, CheckDeletion

(* The same with counters that come and go, checked and deleted outside a  *)
(* transaction: a ticket may lose its counter, never its operator, and no  *)
(* operator is given a second ticket for it.                               *)
THEOREM AdminImplementsDesk == AdminSpec => ImplementsDesk
<1>1. AdminInit => DeskInv /\ Desk!DeskInit
  BY InitConsistent, InitMoves DEF AdminInit, DeskInv, RowsAreConsistent
<1>2. DeskInv /\ [AdminNext]_avars => DeskInv'
  BY AdminStepMoves, AdminStepKeepsTypes DEF DeskInv
<1>3. DeskInv /\ [AdminNext]_avars => [Desk!DeskNext]_(Desk!dvars)
  BY AdminStepMoves DEF DeskMove
<1>. QED
  BY <1>1, <1>2, <1>3, PTL DEF AdminSpec, ImplementsDesk, Desk!DeskSpec

-----------------------------------------------------------------------------
(* Requests that overlap *)

(* A forced release commits after its ticket has left the state it read:   *)
(* it ends again a ticket that was over, or ends as finished one that is   *)
(* no longer in service.                                                   *)
ReleasesTooLate(p) ==
  LET open == requests[p].ticket IN
  /\ Commits(p, "forceRelease") /\ open # None
  /\ \/ tickets[open].state \notin ACTIVE_STATES
     \/ requests[p].pre.state = "IN_SERVICE" /\ tickets[open].state # "IN_SERVICE"

LateRelease == \E p \in Procs : ReleasesTooLate(p)

LEMMA CommitTicketMoves ==
  ASSUME DeskInv, LineInv, NEW p \in Procs, CommitTicketRequest(p)
  PROVE  DeskMove /\ StartsAreDated'
<1>. DEFINE r == requests[p]
<1>1. /\ r.kind \in TicketKinds => r.ticket \in Tickets
      /\ r.kind = "staffPause" => r.pre.state \in {"WAITING", "CALLING", "IN_SERVICE"}
  BY KnownInFlight DEF Formed, AT_COUNTER
<1>2. CASE CommitStartService(p)
  BY <1>1, <1>2, StartMoves DEF CommitStartService, TicketKinds
<1>3. CASE CommitFinishService(p) \/ CommitNoShow(p) \/ CommitExpireCall(p)
  BY <1>1, <1>3, CounterEndMoves
     DEF CommitFinishService, CommitNoShow, CommitExpireCall, TicketKinds
<1>4. CASE CommitCorrect(p)
  BY <1>1, <1>4, CounterEndMoves, CorrectCancelMoves DEF CommitCorrect, TicketKinds
<1>5. CASE CommitStaffPause(p)
  BY <1>1, <1>5, PauseMoves DEF CommitStaffPause, TicketKinds
<1>6. CASE CommitStaffResume(p) \/ CommitExpirePause(p)
  BY <1>1, <1>6, ResumeInPlaceMoves, ResumeToEndMoves
     DEF CommitStaffResume, CommitExpirePause, TicketKinds
<1>. QED
  BY <1>2, <1>3, <1>4, <1>5, <1>6 DEF CommitTicketRequest

(* What the lock on the counter keeps true is what the call of the desk    *)
(* requires: the operator serves nobody.                                   *)
LEMMA CommitCallMoves ==
  ASSUME DeskInv, OperatorInv, NEW p \in Procs, CommitCallNext(p)
  PROVE  DeskMove /\ StartsAreDated'
<1>. DEFINE c == requests[p].counter  o == requests[p].operator
<1>1. p \in CallsInFlight
  BY DEF CommitCallNext, CallsInFlight
<1>2. c \in Counters /\ o \in Operators /\ ~HasOpenTicket(o)
  BY <1>1, CallInFlight DEF Holds
<1>3. PICK t \in Tickets : tickets[t].state = "WAITING" /\ CallTicket(t, c, o)
  BY DEF CommitCallNext, IsHead, Waiting
<1>. HIDE DEF c, o
<1>. QED
  BY <1>2, <1>3, CallMoves

LEMMA CommitReleaseMoves ==
  ASSUME DeskInv, ServiceInv, NEW p \in Procs, CommitForceRelease(p)
  PROVE  (DeskMove \/ ReleasesTooLate(p)) /\ StartsAreDated'
<1>. DEFINE r == requests[p]
<1>1. ForceReleaseTx(r.counter, r.ticket, r.pre.state) /\ r.kind = "forceRelease"
  BY DEF CommitForceRelease
<1>2. r.ticket \in Tickets \cup {None}
  BY KnownInFlight DEF ServiceInv, Request
<1>3. r.ticket # None => tickets[r.ticket] \in Ticket
  BY <1>1 DEF ServiceInv, LineInv, ReadRowsRemain, DeskInv, TypeOK
<1>4. StartsAreDated'
  BY <1>1, <1>2, <1>3, ReleaseDates
<1>5. CASE UNCHANGED vars
  BY <1>4, <1>5, NoTicketWritten DEF vars
<1>6. CASE vars' # vars
  <2>1. Commits(p, "forceRelease")
    BY <1>1, <1>6 DEF Commits, CommitForceRelease, End, ServiceInv, LineInv, RequestsAreFormed
  <2>. SUFFICES ASSUME ~ReleasesTooLate(p) PROVE DeskMove
    BY <1>4
  <2>2. r.ticket # None =>
          /\ tickets[r.ticket].state \in ACTIVE_STATES
          /\ r.pre.state = "IN_SERVICE" => tickets[r.ticket].state = "IN_SERVICE"
    BY <2>1 DEF ReleasesTooLate
  <2>. HIDE DEF r
  <2>. QED
    BY <1>1, <1>2, <1>3, <2>2, ReleaseMoves
<1>. QED
  BY <1>5, <1>6

LEMMA CommitMoves ==
  ASSUME DeskInv, OperatorInv, ServiceInv, NEW p \in Procs,
         CommitTicketRequest(p) \/ CommitCounterRequest(p) \/ CommitERRequest(p)
  PROVE  (DeskMove \/ ReleasesTooLate(p)) /\ StartsAreDated'
<1>1. CASE CommitTicketRequest(p)
  BY <1>1, CommitTicketMoves DEF ServiceInv
<1>2. CASE CommitOpenCounter(p) \/ CommitCloseCounter(p)
  <2>1. UNCHANGED tickets
    BY <1>2 DEF CommitOpenCounter, OpenTx, CommitCloseCounter, CloseTx
  <2>. QED
    BY <2>1, NoTicketWritten DEF DeskInv, StartsAreDated
<1>3. CASE CommitCreate(p) \/ CommitRestore(p)
  BY <1>3, InsertMoves, RestoreMoves DEF CommitCreate, CommitRestore
<1>4. CASE CommitOpenDay(p) \/ CommitCloseDay(p)
  BY <1>4, OpenDayMoves, CloseDayMoves DEF CommitOpenDay, CommitCloseDay
<1>. QED
  BY <1>1, <1>2, <1>3, <1>4, CommitCallMoves, CommitReleaseMoves
     DEF CommitCounterRequest, CommitERRequest

LEMMA CStepMoves ==
  ASSUME DeskInv, OperatorInv, ServiceInv, [CNext]_cvars
  PROVE  (DeskMove \/ LateRelease) /\ DeskInv'
<1>1. TypeOK'
  BY CStep DEF ServiceInv, LineInv, LineOK
<1>2. ASSUME [Next]_vars
      PROVE  DeskMove /\ StartsAreDated'
  BY <1>2, StepMoves
<1>3. CASE WholeRequest
  BY <1>1, <1>2, <1>3 DEF WholeRequest, DeskInv
<1>4. ASSUME NEW p \in Procs, BeginRequest(p)
      PROVE  UNCHANGED vars
  BY <1>4, BeginKeepsReadings
<1>5. ASSUME NEW p \in Procs, Abort(p)
      PROVE  UNCHANGED vars
  BY <1>5 DEF Abort
<1>6. ASSUME NEW p \in Procs,
             CommitTicketRequest(p) \/ CommitCounterRequest(p) \/ CommitERRequest(p)
      PROVE  (DeskMove \/ LateRelease) /\ DeskInv'
  BY <1>1, <1>6, CommitMoves DEF DeskInv, LateRelease
<1>7. CASE UNCHANGED cvars
  BY <1>1, <1>2, <1>7 DEF cvars, vars, DeskInv
<1>. QED
  BY <1>1, <1>2, <1>3, <1>4, <1>5, <1>6, <1>7 DEF CNext, DeskInv

LEMMA CDeskAlways == CSpec => []DeskInv
<1>1. CInit => DeskInv
  BY InitConsistent, InitMoves DEF CInit, DeskInv, RowsAreConsistent
<1>2. DeskInv /\ OperatorInv /\ ServiceInv /\ [CNext]_cvars => DeskInv'
  BY CStepMoves
<1>. QED
  BY <1>1, <1>2, OperatorAlways, ServiceAlways, PTL DEF CSpec

(* However requests overlap, whatever they have read before they commit,   *)
(* every commit is one move of the desk or none, but for that of a forced  *)
(* release whose ticket another request has ended, or taken out of service,*)
(* since the release read it (counter.service.ts:205-229).                 *)
THEOREM COverlapMovesTheDesk ==
  CSpec => Desk!DeskInit /\ [][Desk!DeskNext \/ LateRelease]_(Desk!dvars)
<1>1. CInit => Desk!DeskInit
  BY InitMoves DEF CInit
<1>2. DeskInv /\ OperatorInv /\ ServiceInv /\ [CNext]_cvars =>
        [Desk!DeskNext \/ LateRelease]_(Desk!dvars)
  BY CStepMoves DEF DeskMove
<1>. QED
  BY <1>1, <1>2, CDeskAlways, OperatorAlways, ServiceAlways, PTL DEF CSpec

-----------------------------------------------------------------------------
(* Without forced releases in flight *)

NoReleaseOverlaps == "forceRelease" \notin Overlapping

OverlappingKinds == \A p \in Procs : requests[p].kind \in Overlapping \cup {"idle"}

LEMMA KindsKept ==
  ASSUME OverlappingKinds, LineInv, [CNext]_cvars
  PROVE  OverlappingKinds'
<1>1. ASSUME \A p \in Procs : \/ requests'[p].kind \in {requests[p].kind, "idle"}
                              \/ requests'[p].kind \in Overlapping
      PROVE  OverlappingKinds'
  BY <1>1 DEF OverlappingKinds
<1>2. ASSUME NEW p \in Procs, BeginRequest(p)
      PROVE  OverlappingKinds'
  <2>1. PICK request : Begin(p, request)
    BY <1>2
       DEF BeginRequest, BeginTicketRequest, BeginOpenCounter, BeginCloseCounter,
           BeginCallNext, BeginForceRelease, BeginERRequest
  <2>2. \A q \in Procs : requests'[q] \in {requests[q], request}
    BY <2>1 DEF Begin, LineInv, RequestsAreFormed
  <2>. QED
    BY <1>1, <2>1, <2>2 DEF Begin
<1>3. ASSUME NEW p \in Procs, End(p)
      PROVE  OverlappingKinds'
  BY <1>1, <1>3 DEF End, Idle, LineInv, RequestsAreFormed
<1>4. ASSUME NEW p \in Procs,
             \/ CommitTicketRequest(p) \/ CommitCounterRequest(p) \/ CommitERRequest(p)
             \/ Abort(p)
      PROVE  End(p)
  BY <1>4, CommitTicketStep, CommitCounterStep, CommitERStep DEF Abort
<1>5. CASE WholeRequest \/ UNCHANGED cvars
  BY <1>1, <1>5 DEF WholeRequest, cvars
<1>. QED
  BY <1>2, <1>3, <1>4, <1>5 DEF CNext

LEMMA KindsAlways == CSpec => []OverlappingKinds
<1>1. CInit => OverlappingKinds
  BY DEF CInit, OverlappingKinds, Idle
<1>2. OverlappingKinds /\ LineInv /\ [CNext]_cvars => OverlappingKinds'
  BY KindsKept
<1>. QED
  BY <1>1, <1>2, LineAlways, PTL DEF CSpec

(* With every other kind of request in flight at once the queue implements *)
(* the desk: the locks of callNext, create and restore and the guards of   *)
(* the updates are enough, whatever the handlers read before.              *)
THEOREM COverlapImplementsDesk == NoReleaseOverlaps /\ CSpec => ImplementsDesk
<1>1. NoReleaseOverlaps /\ OverlappingKinds => ~LateRelease
  BY DEF NoReleaseOverlaps, OverlappingKinds, LateRelease, ReleasesTooLate, Commits
<1>2. NoReleaseOverlaps /\ OverlappingKinds /\ [Desk!DeskNext \/ LateRelease]_(Desk!dvars)
        => [Desk!DeskNext]_(Desk!dvars)
  BY <1>1
<1>3. NoReleaseOverlaps => NoReleaseOverlaps'
  BY DEF NoReleaseOverlaps
<1>. QED
  BY <1>2, <1>3, COverlapMovesTheDesk, KindsAlways, PTL DEF ImplementsDesk, Desk!DeskSpec
-----------------------------------------------------------------------------
(* What every behaviour that implements the desk promises *)

Life(t) == LifeOf(tickets[t])
Server(t) == ServerOf(tickets[t])

Unmoved(t) == Life(t)' = Life(t) /\ Server(t)' = Server(t) /\ tickets'[t].rep = tickets[t].rep

(* Nobody enters the line and nobody is called.                            *)
NobodyEnters ==
  \A t \in Tickets :
    /\ tickets'[t].rep = tickets[t].rep
    /\ Life(t)' \in Desk!Active => Life(t) \in Desk!Active
    /\ Life(t)' \in Desk!Serving => Life(t) \in Desk!Serving /\ Server(t)' = Server(t)

(* One ticket does, of a representative without an active one.             *)
Enters(t) ==
  /\ \A u \in Tickets \ {t} :
       Unmoved(u) /\ (Life(u) \in Desk!Active => tickets[u].rep # tickets'[t].rep)
  /\ Life(t)' \notin Desk!Serving

(* One ticket is, by an operator who serves nobody.                        *)
Called(t) ==
  /\ \A u \in Tickets \ {t} : Unmoved(u)
  /\ \A u \in Tickets : Life(u) \in Desk!Serving => Server(u) # Server(t)'
  /\ Life(t) \in Desk!Active /\ tickets'[t].rep = tickets[t].rep

LEMMA LeaveEffect ==
  ASSUME NEW T, NEW to, Desk!Leave(T, to), NEW t \in Tickets
  PROVE  /\ tickets'[t].rep = tickets[t].rep
         /\ Life(t)' = IF t \in T THEN to ELSE Life(t)
         /\ Server(t)' = IF t \in T THEN None ELSE Server(t)
<1>1. /\ [u \in Tickets |-> tickets'[u].rep][t] = [u \in Tickets |-> tickets[u].rep][t]
      /\ [u \in Tickets |-> LifeOf(tickets'[u])][t]
           = IF t \in T THEN to ELSE [u \in Tickets |-> LifeOf(tickets[u])][t]
      /\ [u \in Tickets |-> ServerOf(tickets'[u])][t]
           = IF t \in T THEN None ELSE [u \in Tickets |-> ServerOf(tickets[u])][t]
  BY DEF Desk!Leave
<1>. QED
  BY <1>1 DEF Life, Server

LEMMA MoveEffect ==
  ASSUME [Desk!DeskNext]_(Desk!dvars)
  PROVE  NobodyEnters \/ \E t \in Tickets : Enters(t) \/ Called(t)
<1>. USE DEF Desk!Active, Desk!Serving
<1>1. CASE UNCHANGED Desk!dvars
  <2>1. \A t \in Tickets :
          /\ [u \in Tickets |-> tickets'[u].rep][t] = [u \in Tickets |-> tickets[u].rep][t]
          /\ [u \in Tickets |-> LifeOf(tickets'[u])][t]
               = [u \in Tickets |-> LifeOf(tickets[u])][t]
          /\ [u \in Tickets |-> ServerOf(tickets'[u])][t]
               = [u \in Tickets |-> ServerOf(tickets[u])][t]
    BY <1>1 DEF Desk!dvars
  <2>. QED
    BY <2>1 DEF NobodyEnters, Life, Server
<1>2. ASSUME NEW T, NEW to, Desk!Leave(T, to), to \notin Desk!Active
      PROVE  NobodyEnters
  BY <1>2, LeaveEffect DEF NobodyEnters
<1>3. ASSUME NEW t \in Tickets, Life(t) \in Desk!Active,
             NEW to \in {"WAITING", "PAUSED"}, Desk!Leave({t}, to)
      PROVE  NobodyEnters
  BY <1>3, LeaveEffect DEF NobodyEnters
<1>4. ASSUME NEW t \in Tickets, NEW r \in Reps, Desk!Join(t, r)
      PROVE  Enters(t)
  <2>1. \A u \in Tickets :
          /\ [v \in Tickets |-> tickets'[v].rep][u]
               = IF u = t THEN r ELSE [v \in Tickets |-> tickets[v].rep][u]
          /\ [v \in Tickets |-> LifeOf(tickets'[v])][u]
               = IF u = t THEN "WAITING" ELSE [v \in Tickets |-> LifeOf(tickets[v])][u]
          /\ [v \in Tickets |-> ServerOf(tickets'[v])][u]
               = [v \in Tickets |-> ServerOf(tickets[v])][u]
    BY <1>4 DEF Desk!Join
  <2>2. \A u \in Tickets : tickets[u].rep = r => Life(u) \notin Desk!Active
    BY <1>4 DEF Desk!Join, Desk!HasNoActive, Life
  <2>. QED
    BY <2>1, <2>2 DEF Enters, Unmoved, Life, Server
<1>5. ASSUME NEW t \in Tickets, Desk!Rejoin(t)
      PROVE  Enters(t)
  <2>1. \A u \in Tickets : tickets[u].rep = tickets[t].rep => Life(u) \notin Desk!Active
    BY <1>5 DEF Desk!Rejoin, Desk!HasNoActive, Life
  <2>2. Desk!Leave({t}, "WAITING")
    BY <1>5 DEF Desk!Rejoin
  <2>. QED
    BY <2>1, <2>2, LeaveEffect DEF Enters, Unmoved
<1>6. ASSUME NEW t \in Tickets, NEW o \in Operators, Desk!Call(t, o)
      PROVE  Called(t)
  <2>1. \A u \in Tickets :
          /\ [v \in Tickets |-> tickets'[v].rep][u] = [v \in Tickets |-> tickets[v].rep][u]
          /\ [v \in Tickets |-> LifeOf(tickets'[v])][u]
               = IF u = t THEN "CALLING" ELSE [v \in Tickets |-> LifeOf(tickets[v])][u]
          /\ [v \in Tickets |-> ServerOf(tickets'[v])][u]
               = IF u = t THEN o ELSE [v \in Tickets |-> ServerOf(tickets[v])][u]
    BY <1>6 DEF Desk!Call
  <2>2. /\ Life(t) = "WAITING"
        /\ \A u \in Tickets : Life(u) \in Desk!Serving => Server(u) # o
    BY <1>6 DEF Desk!Call, Desk!IsIdle, Life, Server
  <2>. QED
    BY <2>1, <2>2 DEF Called, Unmoved, Life, Server
<1>7. ASSUME NEW t \in Tickets, Desk!Start(t)
      PROVE  NobodyEnters
  <2>1. \A u \in Tickets :
          /\ [v \in Tickets |-> tickets'[v].rep][u] = [v \in Tickets |-> tickets[v].rep][u]
          /\ [v \in Tickets |-> LifeOf(tickets'[v])][u]
               = IF u = t THEN "IN_SERVICE" ELSE [v \in Tickets |-> LifeOf(tickets[v])][u]
          /\ [v \in Tickets |-> ServerOf(tickets'[v])][u]
               = [v \in Tickets |-> ServerOf(tickets[v])][u]
          /\ [v \in Tickets |-> LifeOf(tickets[v])][t] = "CALLING"
    BY <1>7 DEF Desk!Start
  <2>. QED
    BY <2>1 DEF NobodyEnters, Life, Server
<1>8. ASSUME NEW t \in Tickets, Desk!SetAside(t) \/ Desk!Return(t)
      PROVE  NobodyEnters
  BY <1>3, <1>8 DEF Desk!SetAside, Desk!Return, Life
<1>9. ASSUME NEW t \in Tickets, Desk!Cancel(t)
      PROVE  NobodyEnters
  BY <1>2, <1>9 DEF Desk!Cancel
<1>10. ASSUME NEW T \in SUBSET Tickets, Desk!Finish(T) \/ Desk!Miss(T)
       PROVE  NobodyEnters
  BY <1>2, <1>10 DEF Desk!Finish, Desk!Miss
<1>. QED
  BY <1>1, <1>4, <1>5, <1>6, <1>7, <1>8, <1>9, <1>10 DEF Desk!DeskNext

(* The two promises, in the terms of the desk. *)
OneOfEach ==
  \A t, u \in Tickets : t # u =>
    /\ Life(t) \in Desk!Active /\ Life(u) \in Desk!Active => tickets[t].rep # tickets[u].rep
    /\ Life(t) \in Desk!Serving /\ Life(u) \in Desk!Serving => Server(t) # Server(u)

LEMMA OneOfEachInRows == OneOfEach <=> OneActivePerRep /\ OneOpenTicketPerOperator
<1>1. \A t \in Tickets :
        /\ Life(t) \in Desk!Active <=>
             tickets[t].state \in {"WAITING", "CALLING", "IN_SERVICE", "PAUSED"}
        /\ Life(t) \in Desk!Serving <=> tickets[t].state \in AT_COUNTER
        /\ tickets[t].state \in AT_COUNTER => Server(t) = tickets[t].operator
  BY DEF Life, Server, LifeOf, ServerOf, AT_COUNTER, Desk!Active, Desk!Serving
<1>. QED
  BY <1>1 DEF OneOfEach, OneActivePerRep, OneOpenTicketPerOperator

LEMMA MoveKeepsOneOfEach ==
  ASSUME OneOfEach, [Desk!DeskNext]_(Desk!dvars)
  PROVE  OneOfEach'
<1>. USE DEF OneOfEach
<1>1. CASE NobodyEnters
  BY <1>1 DEF NobodyEnters
<1>2. ASSUME NEW t \in Tickets, Enters(t)
      PROVE  OneOfEach'
  BY <1>2 DEF Enters, Unmoved
<1>3. ASSUME NEW t \in Tickets, Called(t)
      PROVE  OneOfEach'
  BY <1>3 DEF Called, Unmoved
<1>. QED
  BY <1>1, <1>2, <1>3, MoveEffect

(* Nothing leads out of a stage a service ended in.                        *)
LEMMA MoveKeepsServed ==
  ASSUME TypeOK', [Desk!DeskNext]_(Desk!dvars), NEW s \in Tickets,
         \/ tickets[s].state = "FINISHED"
         \/ tickets[s].state = "CANCELLED" /\ tickets[s].started
  PROVE  tickets'[s].state = tickets[s].state
<1>. DEFINE Stays == LifeOf(tickets'[s]) = LifeOf(tickets[s])
<1>1. LifeOf(tickets[s]) \in {"FINISHED", "VOID"}
  BY DEF LifeOf
<1>2. ASSUME NEW T, NEW to, Desk!Leave(T, to), s \notin T
      PROVE  Stays
  BY <1>2, LeaveEffect DEF Life
<1>3. [u \in Tickets |-> LifeOf(tickets'[u])][s] = [u \in Tickets |-> LifeOf(tickets[u])][s] =>
        LifeOf(tickets'[s]) = LifeOf(tickets[s])
  OBVIOUS
<1>4. [u \in Tickets |-> LifeOf(tickets[u])][s] \in {"FINISHED", "VOID"}
  BY <1>1
<1>5. ASSUME NEW u \in Tickets, NEW r \in Reps, Desk!Join(u, r)
      PROVE  Stays
  BY <1>3, <1>4, <1>5 DEF Desk!Join
<1>6. ASSUME NEW u \in Tickets,
             Desk!Start(u) \/ \E o \in Operators : Desk!Call(u, o)
      PROVE  Stays
  BY <1>3, <1>4, <1>6 DEF Desk!Call, Desk!Start
<1>7. ASSUME NEW u \in Tickets,
             Desk!Rejoin(u) \/ Desk!SetAside(u) \/ Desk!Return(u) \/ Desk!Cancel(u)
      PROVE  Stays
  BY <1>2, <1>4, <1>7
     DEF Desk!Rejoin, Desk!SetAside, Desk!Return, Desk!Cancel, Desk!Active, Desk!Serving
<1>8. ASSUME NEW T \in SUBSET Tickets, Desk!Finish(T) \/ Desk!Miss(T)
      PROVE  Stays
  BY <1>2, <1>4, <1>8 DEF Desk!Finish, Desk!Miss, Desk!Active, Desk!Serving
<1>9. ASSUME UNCHANGED Desk!dvars
      PROVE  Stays
  <2>1. [u \in Tickets |-> LifeOf(tickets'[u])][s] = [u \in Tickets |-> LifeOf(tickets[u])][s]
    BY <1>9 DEF Desk!dvars
  <2>. QED
    BY <1>3, <2>1
<1>10. Stays
  <2>. HIDE DEF Stays
  <2>1. CASE Desk!DeskNext
    BY <1>5, <1>6, <1>7, <1>8, <2>1 DEF Desk!DeskNext
  <2>. QED
    BY <1>9, <2>1
<1>11. tickets'[s].state # "VOID"
  <2>1. tickets'[s] \in Ticket \cup {NoRow}
    BY DEF TypeOK
  <2>. QED
    BY <2>1 DEF Ticket, NoRow, TicketState, ACTIVE_STATES
<1>. QED
  BY <1>1, <1>10, <1>11 DEF LifeOf

(* Whatever implements the desk gives a representative at most one active  *)
(* ticket and an operator at most one open one, and brings no ticket back  *)
(* whose service has ended: the two checks (of create and restore, of      *)
(* callNext) and the guard of restore are all these three rest on.         *)
THEOREM DeskPromises ==
  []TypeOK /\ ImplementsDesk =>
    /\ []OneActivePerRep /\ []OneOpenTicketPerOperator
    /\ ServedTicketNeverReturns
<1>1. Desk!DeskInit => OneOfEach
  <2>. SUFFICES ASSUME Desk!DeskInit PROVE OneOfEach
    OBVIOUS
  <2>1. \A t \in Tickets : [u \in Tickets |-> LifeOf(tickets[u])][t] = "ABSENT"
    BY DEF Desk!DeskInit
  <2>. QED
    BY <2>1 DEF OneOfEach, Life, Desk!Active, Desk!Serving
<1>2. OneOfEach /\ [Desk!DeskNext]_(Desk!dvars) => OneOfEach'
  BY MoveKeepsOneOfEach
<1>3. OneOfEach => OneActivePerRep /\ OneOpenTicketPerOperator
  BY OneOfEachInRows
<1>4. TypeOK' /\ [Desk!DeskNext]_(Desk!dvars) =>
        [\A t \in Tickets :
           \/ tickets[t].state = "FINISHED"
           \/ tickets[t].state = "CANCELLED" /\ tickets[t].started
           => tickets'[t].state = tickets[t].state]_vars
  BY MoveKeepsServed
<1>. QED
  BY <1>1, <1>2, <1>3, <1>4, PTL DEF ImplementsDesk, Desk!DeskSpec, ServedTicketNeverReturns

(* Counters that are deleted under their tickets break none of the three.  *)
THEOREM AdminKeepsPromises ==
  AdminSpec =>
    /\ []OneActivePerRep /\ []OneOpenTicketPerOperator
    /\ ServedTicketNeverReturns
<1>1. AdminInit => TypeOK
  BY InitConsistent DEF AdminInit, RowsAreConsistent
<1>. QED
  BY <1>1, AdminStepKeepsTypes, AdminImplementsDesk, DeskPromises, PTL DEF AdminSpec

(* Without forced releases in flight no overlap of requests brings back a  *)
(* ticket whose service ended, or was cancelled after it began.            *)
THEOREM CServedStays == NoReleaseOverlaps /\ CSpec => ServedTicketNeverReturns
<1>1. LineInv => TypeOK
  BY DEF LineInv, LineOK
<1>. QED
  BY <1>1, LineAlways, COverlapImplementsDesk, DeskPromises, PTL

-----------------------------------------------------------------------------

(* While the day is closed no counter belongs to an operator.              *)
THEOREM ClosedDayUnowned == Spec => []ClosedDayLeavesNoOwner
<1>1. RowsAreConsistent => ClosedDayLeavesNoOwner
  BY DEF RowsAreConsistent
<1>. QED
  BY <1>1, Consistency, PTL

(* When requests do not overlap, no operator has two tickets called or in  *)
(* service.                                                                *)
THEOREM OneOpenTicket == Spec => []OneOpenTicketPerOperator
<1>1. RowsAreConsistent => OneOpenTicketPerOperator
  BY DEF RowsAreConsistent
<1>. QED
  BY <1>1, Consistency, PTL

-----------------------------------------------------------------------------
(* The TV *)

LEMMA TVLeadsIfConsistent == RowsAreConsistent => TVLeadsWithTheNextCall
<1>. SUFFICES ASSUME RowsAreConsistent, er.isDayOpen, er.dayOpenedOn = today,
                     NEW t \in FirstOnTheTV
              PROVE  IsHead(t, today)
  BY DEF TVLeadsWithTheNextCall
<1>1. t \in Waiting(today)
  BY DEF FirstOnTheTV, InState, Waiting, RowsAreConsistent, OpenedTodayLeavesNoStaleTicket,
         ACTIVE_STATES
<1>2. ASSUME NEW u \in Waiting(today) \ {t}
      PROVE  Precedes(tickets[t], tickets[u])
  <2>1. tickets[t] \in Ticket /\ tickets[u] \in Ticket
    BY <1>1, PresentRow DEF Waiting, RowsAreConsistent, TicketState, ACTIVE_STATES
  <2>2. tickets[t].position \in Nat /\ tickets[u].position \in Nat
    BY <2>1, BoundAssumption DEF Ticket, Positions
  <2>3. tickets[t].priority \in BOOLEAN /\ tickets[u].priority \in BOOLEAN
    BY <2>1 DEF Ticket
  <2>4. tickets[u].position # tickets[t].position
    <3>1. tickets[t] # NoRow
      BY <1>1 DEF Waiting, NoRow
    <3>2. QED
      BY <1>1, <3>1 DEF Waiting, RowsAreConsistent, PlacesAreUnique
  <2>5. ~Precedes(tickets[u], tickets[t])
    BY DEF FirstOnTheTV, InState, Waiting
  <2>6. QED
    BY <2>2, <2>3, <2>4, <2>5 DEF Precedes
<1>3. QED
  BY <1>1, <1>2 DEF IsHead

(* Once the day is open, the ticket the TV shows first, over the tickets   *)
(* of any day, is the one callNext takes from the queue of today.          *)
THEOREM TVLeads == Spec => []TVLeadsWithTheNextCall
BY TVLeadsIfConsistent, Consistency, PTL

-----------------------------------------------------------------------------
(* The boards *)

LEMMA BoardStepIsAStep ==
  ASSUME [BoardNext]_bvars
  PROVE  [Next]_vars /\ client' = client
BY DEF BoardNext, bvars, HandlerRuns, TimePasses, Revoke, ScreenNext, Connect, HandleJoinER,
       Disconnect, SetLink, EventReload, Interval, Send, ReadRest, Fail, Arrive, Takes,
       RefusalArrives, Next, vars

(* The boards only look: the desk behind them is that of TicketQueue.      *)
THEOREM BoardsOnlyLook == BoardSpec => Spec
<1>1. BoardInit => Init
  BY DEF BoardInit
<1>2. [BoardNext]_bvars => [Next]_vars
  BY BoardStepIsAStep
<1>3. QED
  BY <1>1, <1>2, PTL DEF BoardSpec, Spec

(* What the boards read of the tickets *)
Reads(ticket) == <<ticket.state, ticket.priority, ticket.position, ticket.counter, ticket.day>>

LEMMA SameReadsSameBoards ==
  ASSUME \A t \in Tickets : Reads(tickets'[t]) = Reads(tickets[t]),
         UNCHANGED <<er, today>>
  PROVE  /\ \A part \in PanelParts : OnPanel(part)' = OnPanel(part)
         /\ UNCHANGED counters =>
              \A part \in DashboardParts : OnDashboard(part)' = OnDashboard(part)
<1>1. \A t \in Tickets :
        /\ tickets'[t].state = tickets[t].state /\ tickets'[t].priority = tickets[t].priority
        /\ tickets'[t].position = tickets[t].position
        /\ tickets'[t].counter = tickets[t].counter /\ tickets'[t].day = tickets[t].day
  BY DEF Reads
<1>2. \A state : InState(state)' = InState(state)
  BY <1>1 DEF InState
<1>3. OnPanel("day")' = OnPanel("day")
  BY DEF OnPanel
<1>4. OnPanel("calling")' = OnPanel("calling")
  BY <1>1, <1>2 DEF OnPanel, InState
<1>5. OnPanel("inService")' = OnPanel("inService")
  BY <1>1, <1>2 DEF OnPanel, InState
<1>6. OnPanel("waiting")' = OnPanel("waiting")
  BY <1>1, <1>2 DEF OnPanel, InState
<1>7. OnDashboard("day")' = OnDashboard("day")
  BY DEF OnDashboard
<1>8. OnDashboard("tickets")' = OnDashboard("tickets")
  BY <1>1 DEF OnDashboard
<1>9. UNCHANGED counters => OnDashboard("counters")' = OnDashboard("counters")
  BY DEF OnDashboard
<1>10. QED
  BY <1>3, <1>4, <1>5, <1>6, <1>7, <1>8, <1>9 DEF PanelParts, DashboardParts

LEMMA ToleranceIsNotShown ==
  ASSUME TypeOK, NEW t \in Tickets, ToleranceElapses(t)
  PROVE  \A u \in Tickets : Reads(tickets'[u]) = Reads(tickets[u])
<1>1. tickets[t] \in Ticket
  BY PresentRow DEF ToleranceElapses, TicketState, ACTIVE_STATES
<1>2. QED
  BY <1>1 DEF ToleranceElapses, SetTicket, TypeOK, Ticket, Reads

(* Every handler but those of the counters announces a ticket or the day.  *)
LEMMA TicketEventIsAnnounced ==
  ASSUME NEW listened, TicketEvents \subseteq listened,
         NEW t \in Tickets, NEW event \in TicketEvents, TicketAnnounces(t, event)
  PROVE  AnnouncedTo(listened)
<1>1. event \in TicketEvents \cap listened
  OBVIOUS
<1>2. QED
  BY <1>1 DEF AnnouncedTo

LEMMA RepresentativeIsAnnounced ==
  ASSUME NEW listened, TicketEvents \subseteq listened, RepresentativeNext
  PROVE  AnnouncedTo(listened)
<1>1. PICK t \in Tickets :
        \/ \E rep \in Reps, priority \in BOOLEAN : Create(t, rep, priority)
        \/ SelfCancel(t) \/ PauseTicket(t) \/ ResumeTicket(t)
  BY DEF RepresentativeNext
<1>2. \/ TicketAnnounces(t, "ticket.created") \/ TicketAnnounces(t, "ticket.cancelled")
      \/ TicketAnnounces(t, "ticket.paused")
  BY <1>1 DEF TicketAnnounces
<1>3. QED
  BY <1>2, TicketEventIsAnnounced DEF TicketEvents

LEMMA StaffIsAnnounced ==
  ASSUME NEW listened, TicketEvents \subseteq listened, StaffNext
  PROVE  AnnouncedTo(listened)
<1>1. PICK t \in Tickets :
        \/ Cancel(t) \/ Restore(t) \/ Correct(t, "FINISHED") \/ Correct(t, "CANCELLED")
        \/ \E user \in Operators \cup {Staff} : StaffPause(t, user) \/ StaffResume(t, user)
        \/ \E isPriority \in BOOLEAN : SetTicketPriority(t, isPriority)
  BY DEF StaffNext
<1>2. \/ TicketAnnounces(t, "ticket.cancelled") \/ TicketAnnounces(t, "ticket.restored")
      \/ TicketAnnounces(t, "ticket.service_finished") \/ TicketAnnounces(t, "ticket.paused")
      \/ TicketAnnounces(t, "ticket.created") \/ TicketAnnounces(t, "ticket.priority_changed")
  BY <1>1 DEF TicketAnnounces
<1>3. QED
  BY <1>2, TicketEventIsAnnounced DEF TicketEvents

LEMMA ServiceIsAnnounced ==
  ASSUME NEW listened, TicketEvents \subseteq listened, ServiceNext
  PROVE  AnnouncedTo(listened)
<1>1. PICK t \in Tickets :
        \/ \E o \in Operators :
             Recall(t, o) \/ StartService(t, o) \/ FinishService(t, o) \/ NoShow(t, o)
        \/ AdvanceToInService(t) \/ CompleteService(t) \/ ExpireCall(t) \/ ExpirePause(t)
  BY DEF ServiceNext
<1>2. \/ TicketAnnounces(t, "ticket.called") \/ TicketAnnounces(t, "ticket.service_started")
      \/ TicketAnnounces(t, "ticket.service_finished") \/ TicketAnnounces(t, "ticket.no_show")
      \/ TicketAnnounces(t, "ticket.created")
  BY <1>1 DEF TicketAnnounces
<1>3. QED
  BY <1>2, TicketEventIsAnnounced DEF TicketEvents

(* A handler of the counters announces the counter, or else a ticket if it *)
(* writes one: a TV, which listens to no counter, misses nothing it shows. *)
LEMMA CounterIsAnnounced ==
  ASSUME NEW listened, TicketEvents \subseteq listened, CounterNext
  PROVE  \/ AnnouncedTo(listened)
         \/ ~(CounterEvents \subseteq listened) /\ UNCHANGED <<tickets, er, today>>
<1>1. ASSUME NEW c \in Counters, NEW o \in Operators,
             NEW event \in (CounterEvents \cup {"ticket.called"}) \cap listened,
             CounterAnnounces(c, o, event)
      PROVE  AnnouncedTo(listened)
  BY <1>1 DEF AnnouncedTo
<1>2. ASSUME NEW c \in Counters, NEW o \in Operators, CallNext(c, o)
      PROVE  AnnouncedTo(listened)
  <2>1. CounterAnnounces(c, o, "ticket.called")
    BY <1>2 DEF CounterAnnounces
  <2>2. QED
    BY <1>1, <2>1 DEF TicketEvents
<1>3. ASSUME NEW c \in Counters, NEW o \in Operators,
             \/ OpenCounter(c, o) \/ PauseCounterTx(c, o) \/ ResumeCounterTx(c, o)
             \/ CloseCounter(c, o)
      PROVE  \/ AnnouncedTo(listened)
             \/ ~(CounterEvents \subseteq listened) /\ UNCHANGED <<tickets, er, today>>
  <2>1. UNCHANGED <<tickets, er, today>>
    BY <1>3 DEF OpenCounter, OpenTx, PauseCounterTx, ResumeCounterTx, CloseCounter, CloseTx
  <2>2. PICK event \in CounterEvents : CounterAnnounces(c, o, event)
    BY <1>3 DEF CounterAnnounces, CounterEvents
  <2>3. QED
    BY <1>1, <2>1, <2>2
<1>4. ASSUME NEW c \in Counters, ForceRelease(c)
      PROVE  \/ AnnouncedTo(listened)
             \/ ~(CounterEvents \subseteq listened) /\ UNCHANGED <<tickets, er, today>>
  <2>1. PICK open \in FirstOpenTicket(c) :
          ForceReleaseTx(c, open, IF open = None THEN None ELSE tickets[open].state)
    BY <1>4 DEF ForceRelease
  <2>2. ({"counter.closed"} \cup OfReleased(open)) \cap listened # {} => AnnouncedTo(listened)
    BY <2>1 DEF AnnouncedTo
  <2>3. CASE open = None
    <3>1. UNCHANGED <<tickets, er, today>>
      BY <2>1, <2>3 DEF ForceReleaseTx
    <3>2. QED
      BY <2>2, <3>1 DEF CounterEvents
  <2>4. CASE open # None
    <3>1. OfReleased(open) \cap listened # {}
      BY <2>4 DEF OfReleased, TicketEvents
    <3>2. QED
      BY <2>2, <3>1
  <2>5. QED
    BY <2>3, <2>4
<1>5. QED
  BY <1>2, <1>3, <1>4 DEF CounterNext

LEMMA DayIsAnnounced ==
  ASSUME NEW listened, DayEvents \subseteq listened, DayNext
  PROVE  AnnouncedTo(listened)
BY DEF DayNext, DayEvents, AnnouncedTo

LEMMA ChangeIsAnnounced ==
  ASSUME TypeOK, [BoardNext]_bvars, Changes, today' = today
  PROVE  AnnouncedTo(Refresh)
<1>1. /\ TicketEvents \subseteq Refresh /\ DayEvents \subseteq Refresh
      /\ CounterEvents \subseteq Refresh \/ client = "panel"
  BY DEF Refresh, PanelEvents, DashboardEvents
<1>2. client' = client
  BY BoardStepIsAStep
<1>3. ASSUME \A t \in Tickets : Reads(tickets'[t]) = Reads(tickets[t]), UNCHANGED er,
             UNCHANGED counters \/ client = "panel"
      PROVE  FALSE
  <2>1. /\ \A part \in PanelParts : OnPanel(part)' = OnPanel(part)
        /\ UNCHANGED counters => \A part \in DashboardParts : OnDashboard(part)' = OnDashboard(part)
    BY <1>3, SameReadsSameBoards
  <2>2. QED
    BY <1>2, <1>3, <2>1 DEF Changes, Parts, On
<1>4. ASSUME UNCHANGED <<tickets, er>>, UNCHANGED counters \/ client = "panel"
      PROVE  FALSE
  BY <1>3, <1>4 DEF Reads
<1>5. ~UNCHANGED vars
  BY <1>4 DEF vars
<1>6. CASE RepresentativeNext \/ StaffNext \/ ServiceNext \/ DayNext
  BY <1>1, <1>6, RepresentativeIsAnnounced, StaffIsAnnounced, ServiceIsAnnounced, DayIsAnnounced
<1>7. CASE CounterNext
  BY <1>1, <1>4, <1>7, CounterIsAnnounced
<1>8. CASE Clock
  <2>1. ~Midnight
    BY <1>4 DEF Midnight
  <2>2. PICK t \in Tickets : ToleranceElapses(t)
    BY <1>8, <2>1 DEF Clock
  <2>3. UNCHANGED <<er, counters>>
    BY <2>2 DEF ToleranceElapses
  <2>4. QED
    BY <1>3, <2>2, <2>3, ToleranceIsNotShown
<1>9. QED
  BY <1>5, <1>6, <1>7, <1>8, BoardStepIsAStep DEF Next

(* Whatever a handler changes of what the TV or a dashboard shows, it      *)
(* announces with an event that screen listens to: emitToER misses no      *)
(* handler, and the TV, which hears of no counter, shows none.             *)
THEOREM EveryChangeIsAnnounced == BoardSpec => ChangesAreAnnounced
<1>1. TypeOK /\ [BoardNext]_bvars => [Changes /\ today' = today => AnnouncedTo(Refresh)]_bvars
  BY ChangeIsAnnounced
<1>2. QED
  BY <1>1, BoardsOnlyLook, TypeCorrect, PTL DEF BoardSpec, ChangesAreAnnounced

=============================================================================
