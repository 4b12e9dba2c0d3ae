---------------------------- MODULE MCAgvMovement -----------------------------
(* TLC instance: two AGVs on loops of six units with the intersection on two *)
(* of them; the longest step jumps over it, the longest target is the seam.  *)
EXTENDS AgvMovement
=============================================================================
