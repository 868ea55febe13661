----------------------------- MODULE ServiceDesk -----------------------------
(***************************************************************************)
(* What the ticket queue of an ER promises, without its tables: where each *)
(* ticket is in its life, whom it belongs to and which operator serves it. *)
(* There are no positions, counters, days or clocks here, so a step that   *)
(* depends on one of them is simply allowed.                               *)
(*                                                                         *)
(* DeskRefinement shows that TicketQueue implements this specification.    *)
(***************************************************************************)
CONSTANTS
  Tickets,
  Reps,
  Operators,
  None

VARIABLES
  life,       \* life[t]: the stage of the ticket
  holder,     \* holder[t]: the representative the ticket belongs to
  server      \* server[t]: the operator the ticket is in the hands of

dvars == <<life, holder, server>>

Serving == {"CALLING", "IN_SERVICE"}
Active == {"WAITING", "PAUSED"} \cup Serving

(* VOID is a ticket cancelled after its service began: unlike CANCELLED,   *)
(* it cannot be restored.                                                  *)
Stage == Active \cup {"ABSENT", "FINISHED", "NO_SHOW", "CANCELLED", "VOID"}

DeskTypeOK ==
  /\ life \in [Tickets -> Stage]
  /\ holder \in [Tickets -> Reps \cup {None}]
  /\ server \in [Tickets -> Operators \cup {None}]

DeskInit ==
  /\ life = [t \in Tickets |-> "ABSENT"]
  /\ holder = [t \in Tickets |-> None]
  /\ server = [t \in Tickets |-> None]

-----------------------------------------------------------------------------

HasNoActive(r) == \A t \in Tickets : holder[t] = r => life[t] \notin Active

IsIdle(o) == \A t \in Tickets : life[t] \in Serving => server[t] # o

(* The tickets of T move to the stage "to" and leave the operator.         *)
Leave(T, to) ==
  /\ life' = [t \in Tickets |-> IF t \in T THEN to ELSE life[t]]
  /\ server' = [t \in Tickets |-> IF t \in T THEN None ELSE server[t]]
  /\ UNCHANGED holder

Join(t, r) ==
  /\ life[t] = "ABSENT" /\ HasNoActive(r)
  /\ life' = [life EXCEPT ![t] = "WAITING"]
  /\ holder' = [holder EXCEPT ![t] = r]
  /\ UNCHANGED server

Rejoin(t) ==
  /\ life[t] \in {"NO_SHOW", "CANCELLED"} /\ HasNoActive(holder[t])
  /\ Leave({t}, "WAITING")

Call(t, o) ==
  /\ life[t] = "WAITING" /\ IsIdle(o)
  /\ life' = [life EXCEPT ![t] = "CALLING"]
  /\ server' = [server EXCEPT ![t] = o]
  /\ UNCHANGED holder

Start(t) ==
  /\ life[t] = "CALLING"
  /\ life' = [life EXCEPT ![t] = "IN_SERVICE"]
  /\ UNCHANGED <<holder, server>>

SetAside(t) == life[t] \in Active \ {"PAUSED"} /\ Leave({t}, "PAUSED")

Return(t) == life[t] = "PAUSED" /\ Leave({t}, "WAITING")

Cancel(t) ==
  \/ life[t] \in {"WAITING", "CALLING", "PAUSED"} /\ Leave({t}, "CANCELLED")
  \/ life[t] = "IN_SERVICE" /\ Leave({t}, "VOID")

(* The end of a service, and of several at once when the day is closed.    *)
Finish(T) == (\A t \in T : life[t] = "IN_SERVICE") /\ Leave(T, "FINISHED")

(* A call not answered, and what is left of earlier days when one opens.   *)
Miss(T) == (\A t \in T : life[t] \in Active) /\ Leave(T, "NO_SHOW")

DeskNext ==
  \/ \E t \in Tickets :
       \/ \E r \in Reps : Join(t, r)
       \/ \E o \in Operators : Call(t, o)
       \/ Rejoin(t) \/ Start(t) \/ SetAside(t) \/ Return(t) \/ Cancel(t)
  \/ \E T \in SUBSET Tickets : Finish(T) \/ Miss(T)

DeskSpec == DeskInit /\ [][DeskNext]_dvars

==============================================================================
