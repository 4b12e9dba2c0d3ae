----------------------------- MODULE MCChatTurn -----------------------------
(* Texts and bottleneck rates for ChatTurn. *)
EXTENDS ChatTurn

Text(words, calls) == [words |-> words, calls |-> calls]

MCTexts == { Text({"optimize"}, {}),
             Text({"explicit"}, {"start"}),
             Text({"explicit", "abort"}, {"stop"}),
             Text({"action"}, {"task"}),
             Text({"cancel"}, {"cancel"}),
             Text({"confirm"}, {}),
             Text({"refused"}, {}),
             Text({"compare", "process"}, {}),
             Text({"simStatus"}, {}),
             Text({"graph"}, {}) }

\* At most 30%: met by one AGV; at least 30%: by two; at least 50%: by none.
MCRequests == { [atMost |-> TRUE, percent |-> NoKpi], [atMost |-> FALSE, percent |-> NoKpi],
                [atMost |-> FALSE, percent |-> 500] }

MCRates == { <<100, 400>> }
=============================================================================
