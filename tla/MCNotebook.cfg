SPECIFICATION Spec
CONSTANTS
  o1 = o1
  p1 = p1
  d1 = d1
  d2 = d2
  Offers = {o1}
  Callers = {p1}
  Requested = {"SEEN", "SAVED"}
  Ticks = {d1, d2}
  MaxTime = 2
  MaxChanges = 2
SYMMETRY TickSymmetry
INVARIANTS TypeOK HistoryAccounts RemindedOnce
CHECK_DEADLOCK FALSE
