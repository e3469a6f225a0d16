CONSTANTS
  r1 = r1
  c1 = c1
  Runs = {r1}
  Clients = {c1}
  Follows <- MCFollows
  Emissions = {"asked"}
  MaxEvents = 4
  MaxAnswers = 2
  MaxFaults = 0
  MaxStops = 1
  DiskMayFail = TRUE
SPECIFICATION StreamSpec
CHECK_DEADLOCK FALSE
INVARIANTS
  ClientsFollow
PROPERTIES
  StreamsEnd
