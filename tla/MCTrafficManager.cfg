SPECIFICATION FairSpec
CONSTANTS
  Agvs = {a1, a2, a3}
  SegmentIds = {x, y}
  NoAgv = NoAgv
  MaxTime = 1
  MaxWaits = 4
INVARIANTS
  RecordsAreCoherent
  MutualExclusion
  
PROPERTIES
  NoOvertaking
  NoStarvation
  ImplementsLock
