---------------------------- MODULE MCStaffScreens ----------------------------
EXTENDS StaffScreens, TLC

Symmetry == Permutations(Tickets) \cup Permutations(Reps)
              \cup Permutations(Counters) \cup Permutations(Operators)

==============================================================================
