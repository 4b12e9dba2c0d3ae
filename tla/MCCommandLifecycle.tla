------------------------- MODULE MCCommandLifecycle -------------------------
(***************************************************************************)
(* A turn, a retry of it with the same key, and a third turn of another    *)
(* kind with a key of its own.                                             *)
(***************************************************************************)
EXTENDS CommandLifecycle

CONSTANTS t1, t2, t3, k1, k2

Retried(kind, other) ==
    [t \in Turns |-> IF t = t3 THEN [key |-> k2, kind |-> other] ELSE [key |-> k1, kind |-> kind]]

MCRequests ==
    {Retried("start", other) : other \in {"stop", "pause", "speed"}} \cup {Retried("task", "start")}
=============================================================================
