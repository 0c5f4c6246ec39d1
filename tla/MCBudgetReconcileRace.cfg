CONSTANTS
  Callers = {c1, c2}
  Sweepers = {}
  Admins = {a1}
  Runs = {r1, r2}
  Ids = {i1, i2}
  Amounts = {2}
  TicketCaps = {2}
  InitialCap = 2
  DailyCap = 3
  MonthlyCap = 3
  UnitsPerCent = 1
  OrphansOnly = TRUE
  MaxDay = 0
  MaxResets = 0
  MaxFaults = 0
  None = None
SPECIFICATION Spec
INVARIANT NoOverspend
CHECK_DEADLOCK FALSE
