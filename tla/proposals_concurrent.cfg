SPECIFICATION Spec
CONSTANTS
  r1 = r1
  r2 = r2
  p1 = p1
  p2 = p2
  p3 = p3
  p4 = p4
  p5 = p5
  a = a
  b = b
  Free = Free
  Other = Other
  Requests <- TwoRequests
  Proposals <- WithoutTwin
  SuperblockOf <- Superblock
  AmountOf <- Amount
  AddressOf <- Address
  Passed <- PassedVote
  Paid <- PaidOut
  Cycle = 2
  Budget = 3
  Seeded = TRUE
  MaxHeight = 4
  MaxAborts = 1
  MaxOthers = 1
INVARIANTS TypeOK SuperblocksAreComplete CoveredSuperblocksUntouched NotPaidIsTruthAlone
