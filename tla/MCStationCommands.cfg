SPECIFICATION FairStationSpec
CONSTANTS
  Agvs = {a1, a2}
  FirstAgv = a1
  LateAgv = a2
  NoAgv = NoAgv
  Stations = {s1, s2}
  Pickups = {s1}
  NoStation = NoStation
  Cmds = {c1, c2}
  NoCmd = NoCmd
  Requests <- MCRequests
INVARIANTS
  StationTypeOK
  CommandsOnCourse
PROPERTIES
  OutcomesAgree
  CommandsAreSettled
