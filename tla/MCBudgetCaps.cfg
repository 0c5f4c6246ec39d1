CONSTANTS
  Callers = {c1, c2}
  Sweepers = {s1}
  Admins = {}
  Runs = {r1, r2}
  Ids = {i1, i2, i3}
  Amounts = {1, 2}
  TicketCaps = {}
  InitialCap = 2
  DailyCap = 4
  MonthlyCap = 3
  UnitsPerCent = 1
  OrphansOnly = TRUE
  MaxDay = 0
  MaxResets = 0
  MaxFaults = 1
  None = None
SPECIFICATION Spec
INVARIANTS NoOverspend CounterInvariant
SYMMETRY Symmetry
CHECK_DEADLOCK FALSE
