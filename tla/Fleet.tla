-------------------------------- MODULE Fleet ---------------------------------
(* The AGV actors of a level, of which there are finitely many, and the null  *)
(* pointer to one.                                                            *)
EXTENDS FiniteSets

CONSTANTS Agvs, NoAgv

ASSUME AgvsAssumption == NoAgv \notin Agvs /\ IsFiniteSet(Agvs)
=============================================================================
