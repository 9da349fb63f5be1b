CONSTANTS
  k1 = k1
  k2 = k2
  k3 = k3
  k4 = k4
  Key = {k1, k2, k3, k4}
  Size <- MCSize
  NbVar <- MCNbVar
  Hash <- MCHash
  SizeHash = 2
  StrategyRedCache = 0
  MaxCount = 2
  ByteBits = 2
  Multiplier = 149
  Seed = 131
  PageSize = 4
  MaxPages = 3
  NoBucket = NoBucket
  Blank = Blank
SPECIFICATION CacheSpec
INVARIANTS
  Tiling
  Intact
  SearchExact
  EntriesExact
PROPERTY ImplementsMemory
