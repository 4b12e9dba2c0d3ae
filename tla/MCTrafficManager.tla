--------------------------- MODULE MCTrafficManager ---------------------------
(* TLC instance: three AGVs contend for two segments, with one wait more than *)
(* there are AGVs, so that an AGV that has left a segment can queue for it    *)
(* again behind both others.                                                  *)
EXTENDS TrafficManager
=============================================================================
