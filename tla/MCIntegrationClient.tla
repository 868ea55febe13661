-------------------------- MODULE MCIntegrationClient --------------------------
EXTENDS IntegrationClient, TLC

Symmetry == Permutations(Tickets)

(* Bound: once the second date has begun, two places given out in all.     *)
FewPlacesAfterMidnight == today > 1 => queues[1].nextSequence + queues[2].nextSequence <= 2

(* Bound: nobody has priority, which only orders the line (line_order).    *)
NoPriorities == \A t \in Tickets : ~tickets[t].priority

==============================================================================
