---------------------------- MODULE MCRunControl -----------------------------
(* TLC instance: a run, a second run or any request about the first, and any  *)
(* request about either; so a run may meet two others, or a late request for  *)
(* an old run a new one.                                                      *)
EXTENDS RunControl

CONSTANTS o1, o2, o3

MCOps == {o1, o2, o3}
MCOffers == [o \in MCOps |-> CASE o = o1 -> {"run"} [] o = o2 -> Kinds [] OTHER -> Kinds \ {"run"}]
=============================================================================
