CONSTANTS
  s1 = s1
  w1 = w1
  w2 = w2
  c1 = c1
  ff1 = ff1
  ff2 = ff2
  reset1 = reset1
  None = None
  Signals = {s1}
  Workers = {w1, w2}
  Clients = {c1}
  Requests = {ff1}
  Selection <- MCSelection
  DaysOf <- MCDaysOf
  Resets = {}
  Windows <- FirstDays
  Remeasured <- SecondDays
  Statuses = {}
  Switches = {TRUE, FALSE}
  Placements = {2}
  Horizon = 6
  MaxFaults = 1
SPECIFICATION Spec
CHECK_DEADLOCK FALSE
INVARIANTS
  TypeOK
  RunsBacked
  CursorHeld
PROPERTIES
  ImplementsDailyLedger
