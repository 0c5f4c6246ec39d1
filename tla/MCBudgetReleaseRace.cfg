CONSTANTS
  Callers = {c1, c2}
  Sweepers = {s1}
  Admins = {}
  Runs = {r1}
  Ids = {i1, i2}
  Amounts = {1, 2}
  TicketCaps = {}
  InitialCap = 2
  DailyCap = 2
  MonthlyCap = 2
  UnitsPerCent = 1
  OrphansOnly = FALSE
  MaxDay = 0
  MaxResets = 0
  MaxFaults = 0
  None = None
SPECIFICATION Spec
INVARIANT NoOverspend
CHECK_DEADLOCK FALSE
