SPECIFICATION Spec
CONSTANTS
  btc = btc
  sca = sca
  AnyCoin = AnyCoin
  Coins <- TwoCoins
  DisplayBlocks = 2
  DisplayForks = 3
  Cycle = 3
  Closing = 2
  FirstStake = 1
  Hour = 2
  Day = 2
  MaxEvents = 6
  c1 = c1
  c2 = c2
  short = short
  long1 = long1
  long2 = long2
  Bits <- ReadBits
  Names <- FiveNames
  Cut <- CutNames
  Shown = 2
  Other = Other
  MaxPeers = 5
INVARIANTS TypeOK RecentWithinAllTime BlocksShownAreOneChain ServicesAreTheBits ChartsCountPeersOnce
PROPERTIES OpenWindowIsOpen SearchFindsTheRest ForksAreCounted
