\* One writer and one reader on three zones of two blocks: reads racing GC
\* and zone resets, and the block-device refinement with two payloads.
CONSTANTS
  v1 = v1  v2 = v2  w1 = w1  w2 = w2  r1 = r1
  Blocks <- MCBlocks
  Values <- MCValues
  Writers <- MCWriters1
  Readers <- MCReaders
  NZ = 3
  N = 2
  MaxWrites = 4
  WmLowPct = 17
  WmHighPct = 34
  ZoneWmPct = 50
  Invalid = Invalid
  NoZone = NoZone
  NoTask = NoTask
  Empty = Empty
  MaxFaults = 0
  FaultKinds <- MCNoFaults
  NatSitRules <- MCNoRules
  DevOps <- MCNoDevOps
  StartWp <- MCFreshDevice
SPECIFICATION Spec
INVARIANTS TypeOK WeightAccounting AllocatableAccounting MapsAgree ReadSeesItsBlock NoBug NoPanic
PROPERTIES ImplementsBlockStore
