SPECIFICATION Spec
CONSTANTS
  NArch = 1
  WordMod = 64
  ByteMod = 2
  Hierarchies <- TwoHierarchies
  Traffic <- TrafficOf
  MemoryLatency = 50
CHECK_DEADLOCK FALSE
INVARIANTS
  CacheTypeOK
  NothingLost
  KeepsRecentLines
  TrafficAddsUp
