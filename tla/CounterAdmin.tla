----------------------------- MODULE CounterAdmin -----------------------------
(***************************************************************************)
(* The counters of an ER as the administration creates and deletes them    *)
(* while the desk works.  deleteCounter reads the counter, checks it and   *)
(* then deletes it by id, outside any transaction: every request of        *)
(* TicketQueue may run in between.                                         *)
(***************************************************************************)
EXTENDS DeskRefinement

VARIABLES
  existing,   \* counters with a row
  deleting    \* counters some deleteCounter has checked and not yet deleted

avars == <<vars, existing, deleting>>

AdminInit == Init /\ existing = Counters /\ deleting = {}

NewCounter == [state |-> "UNAVAILABLE", operator |-> None]

(* (erId, number) is unique: an existing number is refused.                *)
CreateCounter(c) ==
  /\ c \notin existing
  /\ existing' = existing \cup {c}
  /\ UNCHANGED <<vars, deleting>>

CheckDeletion(c) ==
  /\ c \in existing \ deleting
  /\ \A t \in Tickets : tickets[t].counter # c
  /\ counters[c] = NewCounter
  /\ deleting' = deleting \cup {c}
  /\ UNCHANGED <<vars, existing>>

(* counter.delete({ id }).  The foreign key tickets_counterId_fkey of the  *)
(* first migration is ON DELETE SET NULL, so the row goes whatever tickets *)
(* name it by now.  A row already gone is refused.                         *)
DeleteRow(c) ==
  /\ c \in deleting
  /\ deleting' = deleting \ {c}
  /\ existing' = existing \ {c}
  /\ counters' = [counters EXCEPT ![c] = NewCounter]
  /\ tickets' = [t \in Tickets |->
       IF tickets[t].counter = c THEN [tickets[t] EXCEPT !.counter = None] ELSE tickets[t]]
  /\ UNCHANGED <<queues, er, today>>

DeskStep ==
  /\ \/ RepresentativeNext \/ StaffNext \/ ServiceNext \/ DayNext \/ Clock
     \/ CounterNext /\ \A c \in Counters \ existing : counters'[c] = counters[c]
  /\ UNCHANGED <<existing, deleting>>

AdminNext ==
  \/ DeskStep
  \/ \E c \in Counters : CreateCounter(c) \/ CheckDeletion(c) \/ DeleteRow(c)

(* The sweep of the calls runs every minute and that of the pauses every   *)
(* 15 s for as long as the backend runs, whatever the users do.            *)
Sweeps ==
  \A t \in Tickets :
    /\ WF_avars(ExpireCall(t) /\ UNCHANGED <<existing, deleting>>)
    /\ WF_avars(ExpirePause(t) /\ UNCHANGED <<existing, deleting>>)

AdminSpec == AdminInit /\ [][AdminNext]_avars /\ Sweeps

(* admin.service.ts:176: a ticket assigned between the check and the       *)
(* deletion makes the deletion fail.                                       *)
DeletionSparesServingCounters ==
  [][\A c \in existing \ existing' : \A t \in Tickets : tickets[t].counter # c]_avars

==============================================================================
