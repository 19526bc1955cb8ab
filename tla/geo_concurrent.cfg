SPECIFICATION Spec
CONSTANTS
  r1 = r1
  r2 = r2
  a = a
  b = b
  c = c
  Requests <- TwoRequests
  Addrs <- ThreeAddrs
  BatchSize = 1
  MaxLookups = 2
  Earlier <- TwoPeers
  MaxPeers = 3
  MaxMoves = 4
  MaxClock = 1
  MaxFaults = 1
SYMMETRY Interchangeable
INVARIANTS TypeOK EntriesAreTruthful ShownIsTheirs OnlyBehindTheOldestOutlive
PROPERTIES QuietReloadAsksNothing QuietRequestLocatesAll
