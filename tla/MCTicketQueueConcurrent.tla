----------------------- MODULE MCTicketQueueConcurrent -----------------------
EXTENDS TicketQueueConcurrent, TLC

Symmetry ==
  Permutations(Tickets) \cup Permutations(Reps) \cup Permutations(Counters)
    \cup Permutations(Operators) \cup Permutations(Procs)

(* Bound: nobody has priority, which only orders the line (line_order).    *)
NoPriorities == \A t \in Tickets : ~tickets[t].priority

==============================================================================
