SPECIFICATION Spec
CONSTANTS
  r1 = r1
  r2 = r2
  n1 = n1
  n2 = n2
  n3 = n3
  Free = Free
  Other = Other
  Requests <- TwoRequests
  Nodes <- TwoNodes
  Trading <- TwoNodes
  MaxMoves = 1
  MaxAborts = 1
  MaxOthers = 1
INVARIANTS TypeOK CopiesBounded
PROPERTIES WalletsCommitWhole
