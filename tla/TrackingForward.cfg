CONSTANTS
  s1 = s1
  w1 = w1
  w2 = w2
  c1 = c1
  ff1 = ff1
  ff2 = ff2
  reset1 = reset1
  None = None
  Signals = {s1}
  Workers = {w1}
  Clients = {c1}
  Requests = {ff1, ff2}
  Selection <- MCSelection
  DaysOf <- MCDaysOf
  Resets = {reset1}
  Windows <- EarlyWindows
  Remeasured <- NoWindows
  Statuses = {"active", "paused"}
  Switches = {}
  Placements = {}
  Horizon = 6
  MaxFaults = 1
SPECIFICATION FairSpec
CHECK_DEADLOCK FALSE
INVARIANTS
  ForwardSound
PROPERTIES
  RequestsReplay
  CatchesUp
