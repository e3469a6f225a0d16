CONSTANTS
  r1 = r1
  k1 = k1
  k2 = k2
  p1 = p1
  p2 = p2
  open1 = open1
  open2 = open2
  batch = batch
  close1 = close1
  close2 = close2
  t1 = t1
  t2 = t2
  t3 = t3
  bad = bad
  None = None
  Runs <- MCRuns
  Keys <- MCKeys
  Procs <- MCProcs
  Calls = {open1, batch, close2}
  Readers = {t1, t3}
  Home <- MCHome
  Request <- MCRequest
  View <- MCView
  MaxCancels = 1
  MaxCrashes = 0
SPECIFICATION FairSpec
CHECK_DEADLOCK FALSE
INVARIANTS
  DeliversCommitted
  TailEndsAtTerminal
PROPERTIES
  NobodyWaits
