\* Two writers: a zone closed with a write in flight becomes a GC victim.
CONSTANTS
  v1 = v1  v2 = v2  w1 = w1  w2 = w2  r1 = r1
  Blocks <- MCBlocks
  Values <- MCOneValue
  Writers <- MCWriters2
  Readers <- MCNoReaders
  NZ = 3
  N = 2
  MaxWrites = 6
  WmLowPct = 17
  WmHighPct = 34
  ZoneWmPct = 50
  Invalid = Invalid
  NoZone = NoZone
  NoTask = NoTask
  Empty = Empty
  MaxFaults = 0
  FaultKinds <- MCNoFaults
  NatSitRules <- MCNoRules
  DevOps <- MCNoDevOps
  StartWp <- MCFreshDevice
SPECIFICATION Spec
INVARIANT NoPanic
