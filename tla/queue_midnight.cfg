SPECIFICATION Spec
CONSTANTS
  Tickets = {t1, t2}
  Reps = {r1, r2}
  Counters = {c1, c2}
  Operators = {o1, o2}
  Staff = staff
  None = None
  MaxDay = 2
  MaxSequence = 2
SYMMETRY Symmetry
INVARIANTS
  RowsAreConsistent
  ClosedDayLeavesNoOwner
  OpenedTodayLeavesNoStaleTicket
  CounterServesItsTicket
  TVLeadsWithTheNextCall
PROPERTY ServedTicketNeverReturns
