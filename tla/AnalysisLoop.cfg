CONSTANTS
  web = web
  app = app
  Enabled = {web, app}
  Capability <- MCCapability
  Declared <- MCDeclared
  Canonical = {"topic", "outcome"}
  Sensitive = {"email"}
  MinSteps = 3
  MaxSteps = 4
  Goals <- MCGoals
  FirstPlans <- MCFirstPlans
  Revisions <- MCRevisions
  NoteDrafts <- MCNoteDrafts
  ReportDrafts <- MCReportDrafts
  Values = {0, 1}
  EventCounts = {0, 2, 3}
  MaxInput = 2
  MaxAhead = 2
SPECIFICATION FairSpec
CHECK_DEADLOCK FALSE
INVARIANTS
  PlanHonoured
  ReportGrounded
  ByContract
  FixtureAccepted
PROPERTIES
  AnalysisEnds
