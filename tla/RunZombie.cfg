CONSTANTS
  r1 = r1
  Runs = {r1}
  Emissions = {"asked"}
  MaxEvents = 4
  MaxAnswers = 0
  MaxFaults = 0
  MaxStops = 1
  DiskMayFail = FALSE
SPECIFICATION Spec
CHECK_DEADLOCK FALSE
INVARIANTS
  NoZombie
