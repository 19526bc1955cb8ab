SPECIFICATION CalmSpec
CONSTANTS
  r1 = r1
  r2 = r2
  o1 = o1
  o2 = o2
  Free = Free
  Other = Other
  Requests <- OneRequest
  Orders <- TwoOrders
  Seeded = TRUE
  MaxHeight = 3
  MaxReorgs = 0
  MaxAborts = 2
  MaxOthers = 0
INVARIANTS WatermarkIsTruth
PROPERTIES EveryTradeIsCached
