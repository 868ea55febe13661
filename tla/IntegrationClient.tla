--------------------------- MODULE IntegrationClient ---------------------------
(***************************************************************************)
(* The billing system that starts and finishes services over the           *)
(* integration API, beside the people of the desk.  It names the           *)
(* representative, not the ticket; it sends a call again when no answer    *)
(* reached it, and an earlier call of its may still be running then.       *)
(*                                                                         *)
(* A call reads, decides and writes in separate steps, and every handler   *)
(* of the desk, with its audit rows, may commit between two of them.       *)
(***************************************************************************)
EXTENDS AuditTrail

CONSTANT Requests     \* calls of the billing system in flight at a time

VARIABLE requests

ivars == <<tvars, requests>>

ActionNames == {"iniciar", "encerrar"}

(* The state a call asks for, and the state it may be entered from.        *)
Target(action) == IF action = "iniciar" THEN "IN_SERVICE" ELSE "FINISHED"
Source(action) == IF action = "iniciar" THEN "CALLING" ELSE "IN_SERVICE"

(* rep = None stands for a call with both identifiers or none, with one    *)
(* nobody has, or with a guest's.  meant is no state of the code: it is    *)
(* the ticket the billing system speaks of when it sends the call.         *)
Request ==
  [step: {"idle", "sent", "resolved", "read", "raced", "answered"},
   action: ActionNames, rep: Reps \cup {None}, ticket: Tickets \cup {None},
   counter: Counters \cup {None}, meant: Tickets \cup {None},
   answer: {"none", "done", "already", "refused"}]

Idle == [step |-> "idle", action |-> "iniciar", rep |-> None, ticket |-> None,
         counter |-> None, meant |-> None, answer |-> "none"]

IntegrationInit == AuditInit /\ requests = [q \in Requests |-> Idle]

-----------------------------------------------------------------------------
(* IntegrationService *)

(* AT_COUNTER_STATES; the index on active tickets allows one at most.      *)
AtCounter(rep) == {t \in Tickets : tickets[t].rep = rep /\ tickets[t].state \in AT_COUNTER}

(* Of several the last one finished is taken.  All give the same answer,   *)
(* so any of them is taken here.                                           *)
FinishedToday(rep) ==
  {t \in Tickets : tickets[t].rep = rep /\ tickets[t].day = today /\ tickets[t].state = "FINISHED"}

Candidates(action, rep) ==
  IF AtCounter(rep) = {} /\ action = "encerrar" THEN FinishedToday(rep) ELSE AtCounter(rep)

Becomes(q, request) == requests' = [requests EXCEPT ![q] = request]

(* What the call found on its way is of no use once it is answered.        *)
Answer(q, answer) ==
  Becomes(q, [requests[q] EXCEPT
    !.step = "answered", !.answer = answer, !.ticket = None, !.counter = None])

(* _resolveRepresentativeId and the two queries of _resolveTicketId are one *)
(* step: what they find is only acted on after it has been read again.     *)
Resolve(q) ==
  /\ requests[q].step = "sent"
  /\ LET found == Candidates(requests[q].action, requests[q].rep)
     IN \/ \E t \in found : Becomes(q, [requests[q] EXCEPT !.step = "resolved", !.ticket = t])
        \/ found = {} /\ Answer(q, "refused")
  /\ UNCHANGED tvars

(* The read and the guards of advanceToInService and completeService.      *)
Read(q) ==
  /\ requests[q].step = "resolved"
  /\ LET ticket == tickets[requests[q].ticket]
         action == requests[q].action
     IN \/ ticket.state = Target(action) /\ Answer(q, "already")
        \/ /\ ticket.state = Source(action)
           /\ Becomes(q, [requests[q] EXCEPT !.step = "read", !.counter = ticket.counter])
        \/ /\ ticket.state \notin {Source(action), Target(action)}
           /\ Answer(q, "refused")
  /\ UNCHANGED tvars

(* _transitionToInService or _transitionToFinished, for no operator in     *)
(* particular, with its audit row.                                         *)
Commit(q) ==
  LET t == requests[q].ticket
      pre == [counter |-> requests[q].counter]
  IN /\ requests[q].step = "read"
     /\ \/ /\ requests[q].action = "iniciar"
           /\ TransitionToInService(t, pre, None)
           /\ Writes({<<t, "service_started">>})
        \/ /\ requests[q].action = "encerrar"
           /\ TransitionToFinished(t, pre, None)
           /\ Writes({<<t, "service_finished">>})
     /\ Answer(q, "done")

LoseRace(q) ==
  /\ requests[q].step = "read"
  /\ tickets[requests[q].ticket].state # Source(requests[q].action)
  /\ Becomes(q, [requests[q] EXCEPT !.step = "raced"])
  /\ UNCHANGED tvars

\* Fault: the error of the lost race is the answer.
AnswerAfterRaceAnError(ticket, action) == "refused"

AnswerAfterRace(ticket, action) ==
  IF ticket.state = Target(action) THEN "already" ELSE "refused"

(* _idempotentOnRace *)
ReadAgain(q) ==
  /\ requests[q].step = "raced"
  /\ Answer(q, AnswerAfterRace(tickets[requests[q].ticket], requests[q].action))
  /\ UNCHANGED tvars

-----------------------------------------------------------------------------
(* The billing system *)

(* She stands at a counter, or was served today and is billed again.       *)
Meant(action, rep) ==
  IF rep = None \/ Candidates(action, rep) = {} THEN {None} ELSE Candidates(action, rep)

Send(q) ==
  /\ requests[q].step = "idle"
  /\ \E action \in ActionNames, rep \in Reps \cup {None} :
       \E meant \in Meant(action, rep) :
         Becomes(q, [Idle EXCEPT
           !.step = "sent", !.action = action, !.rep = rep, !.meant = meant])
  /\ UNCHANGED tvars

Receive(q) ==
  /\ requests[q].step = "answered"
  /\ Becomes(q, Idle)
  /\ UNCHANGED tvars

(* The answer is lost, and the call sent again.                            *)
SendAgain(q) ==
  /\ requests[q].step = "answered"
  /\ Becomes(q, [requests[q] EXCEPT !.step = "sent", !.answer = "none"])
  /\ UNCHANGED tvars

-----------------------------------------------------------------------------

RequestNext(q) ==
  Send(q) \/ Resolve(q) \/ Read(q) \/ Commit(q) \/ LoseRace(q) \/ ReadAgain(q)
    \/ Receive(q) \/ SendAgain(q)

IntegrationNext ==
  \/ \E q \in Requests : RequestNext(q)
  \/ AuditNext /\ UNCHANGED requests

IntegrationSpec == IntegrationInit /\ [][IntegrationNext]_ivars

-----------------------------------------------------------------------------

IntegrationTypeOK == requests \in [Requests -> Request]

(* The ticket the call is about is in the state it asks for, is of today   *)
(* and its RE has not been called again.                                   *)
Done(r) ==
  /\ r.meant # None /\ r.ticket \in {None, r.meant}
  /\ tickets[r.meant].state = Target(r.action)
  /\ tickets[r.meant].day = today
  /\ AtCounter(r.rep) \subseteq {r.meant}

(* A call is refused only if what it asks for is not so: a repeated call,  *)
(* and one that lost the race with the operator or with its own repetition, *)
(* is answered as the winner was (docs/arquitetura-backend.md:398).        *)
RefusedMeansNotDone ==
  [][\A q \in Requests :
       requests[q].answer = "none" /\ requests'[q].answer = "refused"
       => ~Done(requests[q])]_ivars

==============================================================================
