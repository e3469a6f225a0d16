CONSTANTS
  fall = fall
  e1 = e1
  p1 = p1
  Missing = Missing
  Recs = {fall}
  KindOf <- MCKindOf
  OperatorOf <- MCOperatorOf
  MetricOf <- MCMetricOf
  Thresholds <- Half
  Windows <- Days
  Values <- ZeroOne
  Versions = {1}
  Editors = {e1}
  Pollers = {p1}
  Limit = 1
  MaxMeasured = 4
  MaxEdits = 2
  MaxResets = 1
SPECIFICATION Spec
CHECK_DEADLOCK FALSE
INVARIANTS
  EventsAreEntries
  FeedInOrder
  OnlyNews
  StateForRules
