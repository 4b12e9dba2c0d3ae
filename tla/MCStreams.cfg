SPECIFICATION FairSpec
CONSTANTS
  Connections = {c1, c2}
  MaxEvents = 4
  Agvs = {a1, a2}
  StaleAfter = 2
  MaxStarts = 2
INVARIANTS
  TypeOK
  SubscribersMissNothing
PROPERTIES
  OverlayGoesIdle
CHECK_DEADLOCK FALSE
