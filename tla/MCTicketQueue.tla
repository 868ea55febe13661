---------------------------- MODULE MCTicketQueue ----------------------------
EXTENDS BoardViews, TLC

Symmetry ==
  Permutations(Tickets) \cup Permutations(Reps)
    \cup Permutations(Counters) \cup Permutations(Operators)

==============================================================================
