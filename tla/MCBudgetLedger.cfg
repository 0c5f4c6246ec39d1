CONSTANTS
  Callers = {c1, c2}
  Sweepers = {}
  Admins = {a1}
  Runs = {r1}
  Ids = {i1}
  Amounts = {1, 2}
  TicketCaps = {1}
  InitialCap = 2
  DailyCap = 2
  MonthlyCap = 3
  UnitsPerCent = 1
  OrphansOnly = FALSE
  MaxDay = 1
  MaxResets = 1
  MaxFaults = 0
  None = None
SPECIFICATION Spec
INVARIANTS TypeOK LedgerConsistent
PROPERTY ChargeIsFinal
SYMMETRY Symmetry
CHECK_DEADLOCK FALSE
