SPECIFICATION Spec
CONSTANTS
  r1 = r1
  r2 = r2
  o1 = o1
  o2 = o2
  Free = Free
  Other = Other
  Requests <- TwoRequests
  Orders <- TwoOrders
  Seeded = TRUE
  MaxHeight = 2
  MaxReorgs = 1
  MaxAborts = 1
  MaxOthers = 1
INVARIANTS TypeOK WatermarkCovers CacheKnowsItsHeight
PROPERTIES IsALedger RowsComeWithTheirHeight OnlyTheOvertakenRetreat EveryTradeSettles
