SPECIFICATION FairSpec
CONSTANTS
  Agvs = {a1, a2}
  NoAgv = NoAgv
  PathLength = 6
  Entry = 2
  Exit = 3
  Steps = {1, 3}
  Targets = {0, 4, 6}
  Approach = 2
INVARIANTS
  MovementIsSound
PROPERTIES
  StopsExactlyAtStation
  ReachesStation
