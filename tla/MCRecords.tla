----------------------------- MODULE MCRecords -----------------------------
(* Measurements, stations, questions, hits and replies for Records. *)
EXTENDS Records

MCKpiReports == { [rate |-> 100, heat |-> [z \in {"zone1"} |-> 40]],
                  [rate |-> 300, heat |-> <<>>] }

Station(id, type, zone, state) == [id |-> id, type |-> type, zone |-> zone, state |-> state]

MCRegistries == { { Station(1, "loading", "a", "idle"), Station(3, "inspection", "b", s) }
                    : s \in {"idle", "ready", "blocked"} }

MCQuestions == { {"which station", "inspection"},     \* answered by station 3
                 {"zone", "station", "1", "load"},    \* by station 1
                 {"zone", "station", "c"} }           \* by none

Hit(doc, score, fused) == [doc |-> doc, score |-> score, fused |-> fused]

\* Three hits, the last one below the minimum; three of which the words put
\* the first one last, the others on a par.
MCHitLists == { <<Hit("x", 80, 90), Hit("y", 79, 94), Hit("z", 10, 21)>>,
                <<Hit("x", 80, 90), Hit("y", 79, 94), Hit("z", 75, 94)>> }

MCRankReplies == {[kind |-> k, ids |-> <<>>] : k \in {"unusable", "noObject"}}
                 \cup {[kind |-> "ids", ids |-> ids] : ids \in UNION {[1 .. n -> 0 .. 3] : n \in 0 .. 2}}
=============================================================================
