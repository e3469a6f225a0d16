CONSTANTS
  c1 = c1
  c2 = c2
  scan = scan
  dig = dig
  narrow = narrow
  wide = wide
  Ids = {c1, c2}
  Tasks = {scan, dig}
  Defs = {narrow, wide}
  Concurrency = 1
  Deadlines = TRUE
  MaxRounds = 1
  MaxFound = 1
SPECIFICATION FairTeamSpec
CHECK_DEADLOCK FALSE
INVARIANTS
  ProposalsBacked
  ReportedAsVerified
PROPERTIES
  RunEnds
