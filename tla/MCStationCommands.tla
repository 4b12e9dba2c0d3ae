-------------------------- MODULE MCStationCommands ---------------------------
(* TLC instance: two AGVs, a pickup and another station, two commands.  Runs  *)
(* start and end any number of times.  A command asks for either station with *)
(* any AGV or with the late starter, or drives nothing.                       *)
EXTENDS StationCommands

CONSTANTS LateAgv

MCRequests ==
  [station : Stations, agv : {NoAgv, LateAgv}, drive : {TRUE}]
    \cup {[station |-> NoStation, agv |-> NoAgv, drive |-> FALSE]}
=============================================================================
