CONSTANTS
  r1 = r1
  Runs = {r1}
  Emissions = {"goal", "plan", "fact", "report", "asked"}
  MaxEvents = 7
  MaxAnswers = 2
  MaxFaults = 2
  MaxStops = 2
  DiskMayFail = FALSE
SPECIFICATION FairSpec
CHECK_DEADLOCK FALSE
INVARIANTS
  LegalHistory
  StatusFollowsJournal
  StreamIsHistory
PROPERTIES
  ImplementsRunPhases
  RunsSettle
