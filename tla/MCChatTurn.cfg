SPECIFICATION Spec
CONSTANTS
  MaxTurns = 3
  MaxActive = 2
  MaxSearches = 1
  Texts <- MCTexts
  Fleets = {2}
  Rates <- MCRates
  Requests <- MCRequests
INVARIANTS
  TypeOK
  ConfirmedOnce
  SearchFindsOptimum
  OneRunAtATime
PROPERTIES
  TurnsAndSearchesEnd
CHECK_DEADLOCK FALSE
