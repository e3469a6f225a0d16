CONSTANTS
  Null = Null
  Content <- MCContent
  Customer <- MCCustomer
  Script <- MCScript
  PageSize = 1
  RowsPerPage = 1
  MaxFaults = 2
SPECIFICATION Spec
CHECK_DEADLOCK FALSE
INVARIANTS
  SnapshotRead
  ReportGrounded
PROPERTIES
  CallsReturn
