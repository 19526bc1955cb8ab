SPECIFICATION Spec
CONSTANTS
  r1 = r1
  r2 = r2
  Free = Free
  Other = Other
  Requests <- TwoRequests
  FreshInstall = FALSE
  HasRow = TRUE
  LiteralIsZero = TRUE
  MaxAborts = 2
  MaxOthers = 2
INVARIANTS TypeOK VersionIsBacked SchemaIsVersion
PROPERTIES PagesKeepWorking ReachesLast
