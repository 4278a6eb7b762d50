\* Liveness with the code's default watermarks (2%, 4%, 1%): on this small
\* device they round to zero, and only the -EAGAIN triggers wake GC.  The
\* device is opened, closed and removed; once lbz_remove_device has freed
\* it nothing runs, so that final state is not a deadlock.
CONSTANTS
  v1 = v1  v2 = v2  w1 = w1  w2 = w2  r1 = r1
  Blocks <- MCBlocks
  Values <- MCOneValue
  Writers <- MCWriters1
  Readers <- MCNoReaders
  NZ = 2
  N = 2
  MaxWrites = 6
  WmLowPct = 2
  WmHighPct = 4
  ZoneWmPct = 1
  Invalid = Invalid
  NoZone = NoZone
  NoTask = NoTask
  Empty = Empty
  MaxFaults = 0
  FaultKinds <- MCNoFaults
  NatSitRules <- MCNoRules
  DevOps <- MCAllDevOps
  StartWp <- MCFreshDevice
SPECIFICATION FairSpec
PROPERTIES WriteCompletes VictimReclaimed RemoveCompletes
CHECK_DEADLOCK FALSE
