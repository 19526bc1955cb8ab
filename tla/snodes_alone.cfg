SPECIFICATION Spec
CONSTANTS
  r1 = r1
  r2 = r2
  n1 = n1
  n2 = n2
  n3 = n3
  Free = Free
  Other = Other
  Requests <- OneRequest
  Nodes <- ThreeNodes
  Trading <- TwoNodes
  MaxMoves = 1
  MaxAborts = 2
  MaxOthers = 2
INVARIANTS RefreshIsTheAnswer CountsAgree
PROPERTIES TablesComeBack
