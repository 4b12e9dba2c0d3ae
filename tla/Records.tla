------------------------------ MODULE Records ------------------------------
(***************************************************************************)
(* The rows of the chatbot backend (sessions, messages, commands,          *)
(* scenarios, runs), the HTTP requests that read and write them, and the   *)
(* questions answered from them.                                           *)
(*                                                                         *)
(* A request is a sequence of repository calls with awaits in between, so  *)
(* what it has read may be gone when it writes.  Against PostgreSQL every  *)
(* call is a transaction of its own and a request holds copies; in memory  *)
(* a request holds the stored object, and does not let go of the event     *)
(* loop until it waits for something else.  Row contents that nothing here *)
(* depends on are left out.  No key relates a session to a scenario (a     *)
(* turn that starts a run inserts its rows as CreateRun does), so a        *)
(* behaviour looks at one of the two.                                      *)
(***************************************************************************)
EXTENDS KnowledgeBase

CONSTANTS MaxRequests,  \* requests looked at
          Slots,        \* requests in progress at one time
          MaxSessions, MaxScenarios, MaxRuns,   \* ids ever given
          KpiReports,   \* what a run or the telemetry may measure
          Registries,   \* what the control server may list as stations
          Questions,    \* the words of the questions asked
          HitLists,     \* what a vector search may find
          RankReplies,  \* what the ranking model may reply
          MemoSize, TopK, MinScore

ASSUME RecordsAssumption ==
    /\ MaxRequests \in Nat /\ MemoSize \in Nat \ {0} /\ TopK \in Nat
    /\ MaxSessions \in Nat /\ MaxScenarios \in Nat /\ MaxRuns \in Nat

\* A search finds a chunk once; a reply that names no candidate says 0.
ASSUME AnswersAssumption ==
    /\ \A hits \in HitLists : /\ hits \in Seq(ToSet(hits)) /\ IsInjective(hits)
                             /\ \A h \in ToSet(hits) : h.score \in Int /\ h.fused \in Int
    /\ \A reply \in RankReplies : reply.ids \in Seq(Int)

VARIABLES backend,      \* "memory" or "postgres"
          area,         \* the rows looked at: "chat" (sessions) or "cell" (scenarios)
          left,         \* requests still to come
          request,      \* the one in each slot
          sessions, scenarios, runs,    \* the ids of the rows there are
          made,         \* the last id given to each kind of row
          messages,     \* how many messages a session has
          commands,     \* how many commands were saved for it
          row,          \* the content of each run: [scenario, status, ended, kpis]
          registry,     \* the stations of the control server
          memo,         \* the graphs the ontology builder keeps
          answer        \* what this step answers, and what a new graph would

tables == <<sessions, scenarios, runs, made, messages, commands, row>>
setting == <<backend, area>>
vars == <<setting, left, request, tables, registry, memo, answer>>

Silent == [given |-> NoAnswer, fresh |-> NoAnswer]
NoRow == [scenario |-> 0, status |-> "none", ended |-> FALSE, kpis |-> NoKpis]
Nobody == [op |-> "none", pc |-> "none", id |-> 0, held |-> NoRow, arg |-> 0]
Open(op, pc, id) == [Nobody EXCEPT !.op = op, !.pc = pc, !.id = id]

Init == /\ backend \in {"memory", "postgres"}
        /\ area \in {"chat", "cell"}
        /\ left = MaxRequests
        /\ request = [i \in Slots |-> Nobody]
        /\ sessions = {} /\ scenarios = {} /\ runs = {}
        /\ made = [session |-> 0, scenario |-> 0, run |-> 0]
        /\ messages = [s \in 1 .. MaxSessions |-> 0] /\ commands = messages
        /\ row = [r \in 1 .. MaxRuns |-> NoRow]
        /\ registry \in Registries
        /\ memo = <<>>
        /\ answer = Silent

\* The handlers that have only called the repository since they last waited.
Unsuspended == {"cascade", "drop", "baseline", "write", "remove", "copy", "insert"}

\* An in-memory repository call returns without giving up the event loop.
MayRun(i) == backend = "memory" => \A j \in Slots \ {i} : request[j].pc \notin Unsuspended

Arrives(i, about, q) == /\ area = about /\ left > 0 /\ request[i] = Nobody /\ MayRun(i)
                        /\ left' = left - 1
                        /\ request' = [request EXCEPT ![i] = q]

At(i, op, pc) == request[i].op = op /\ request[i].pc = pc /\ MayRun(i)
Goto(i, pc) == request' = [request EXCEPT ![i].pc = pc] /\ UNCHANGED left
\* The response is sent, or the handler raises: nothing is kept of either.
Respond(i) == request' = [request EXCEPT ![i] = Nobody] /\ UNCHANGED left

(***************************************************************************)
(* Statements.  A foreign key is checked by PostgreSQL only.               *)
(***************************************************************************)
\* Mutant: a table without REFERENCES.
NoReferences(id, parents) == TRUE

KeyHolds(id, parents) == backend = "postgres" => id \in parents

InsertSession == /\ made.session < MaxSessions
                 /\ made' = [made EXCEPT !.session = @ + 1]
                 /\ sessions' = sessions \cup {made.session + 1}

InsertScenario == /\ made.scenario < MaxScenarios
                  /\ made' = [made EXCEPT !.scenario = @ + 1]
                  /\ scenarios' = scenarios \cup {made.scenario + 1}

DeleteScenario(id) ==
    LET orphans == {r \in runs : row[r].scenario = id}
    IN /\ scenarios' = scenarios \ {id}
       /\ runs' = runs \ orphans
       /\ row' = IF backend = "postgres"
                 THEN [r \in 1 .. MaxRuns |-> IF r \in orphans THEN NoRow ELSE row[r]] ELSE row

\* PostgreSQL writes the columns of the copy, and nothing when the row is
\* gone; in memory the object changes and is stored under its id again.
WriteRun(id, new) ==
    IF backend = "memory" \/ id \in runs
    THEN row' = [row EXCEPT ![id] = new] /\ runs' = runs \cup {id}
    ELSE UNCHANGED <<row, runs>>

(***************************************************************************)
(* Sessions.                                                               *)
(***************************************************************************)
CreateSession(i) ==
    /\ Arrives(i, "chat", Nobody)
    /\ InsertSession
    /\ UNCHANGED <<setting, scenarios, runs, messages, commands, row, registry, memo>> /\ answer' = Silent

\* A chat message, in a session of its own when it names none.
PostMessage(i) ==
    /\ \/ /\ InsertSession
          /\ Arrives(i, "chat", Open("post", "asked", made.session + 1))
       \/ \E s \in 1 .. made.session :
              /\ Arrives(i, "chat", IF s \in sessions THEN Open("post", "asked", s) ELSE Nobody)
              /\ UNCHANGED <<sessions, made>>
    /\ UNCHANGED <<setting, scenarios, runs, messages, commands, row, registry, memo>> /\ answer' = Silent

\* The turn adds the user's message, and at its end the assistant's.
AddMessage(i) ==
    \E step \in {<<"asked", "planned">>, <<"planned", "none">>, <<"issued", "none">>} :
        /\ At(i, "post", step[1])
        /\ IF KeyHolds(request[i].id, sessions)
           THEN messages' = [messages EXCEPT ![request[i].id] = @ + 1] ELSE UNCHANGED messages
        /\ IF KeyHolds(request[i].id, sessions) /\ step[2] # "none"
           THEN Goto(i, step[2]) ELSE Respond(i)
        /\ UNCHANGED <<setting, sessions, scenarios, runs, made, commands, row, registry, memo>> /\ answer' = Silent

SaveCommand(i) ==
    /\ At(i, "post", "planned")
    /\ IF KeyHolds(request[i].id, sessions)
       THEN commands' = [commands EXCEPT ![request[i].id] = @ + 1] /\ Goto(i, "issued")
       ELSE UNCHANGED commands /\ Respond(i)
    /\ UNCHANGED <<setting, sessions, scenarios, runs, made, messages, row, registry, memo>> /\ answer' = Silent

\* The delete transaction: the commands it finds, then the session, whose
\* messages follow it.
RequireSession(i) ==
    /\ \E s \in 1 .. made.session :
           Arrives(i, "chat", IF s \in sessions THEN Open("close", "cascade", s) ELSE Nobody)
    /\ UNCHANGED <<setting, tables, registry, memo>> /\ answer' = Silent

DeleteCommands(i) ==
    /\ At(i, "close", "cascade")
    /\ request' = [request EXCEPT ![i].pc = "drop", ![i].arg = commands[request[i].id]]
    /\ UNCHANGED <<setting, left, tables, registry, memo>> /\ answer' = Silent

\* A command saved in between still refers to the session: the statement
\* fails and the whole transaction is rolled back.
DeleteSession(i) ==
    LET s == request[i].id
    IN /\ At(i, "close", "drop")
       /\ IF backend = "postgres" /\ commands[s] > request[i].arg
          THEN UNCHANGED <<sessions, messages, commands>>
          ELSE /\ sessions' = sessions \ {s}
               /\ messages' = [messages EXCEPT ![s] = 0]
               /\ commands' = [commands EXCEPT ![s] = 0]
       /\ Respond(i)
       /\ UNCHANGED <<setting, scenarios, runs, made, row, registry, memo>> /\ answer' = Silent

(***************************************************************************)
(* Scenarios: each handler reads the row before it writes.                 *)
(***************************************************************************)
ListSimulations(i) ==
    /\ Arrives(i, "cell", IF scenarios = {} THEN Open("list", "baseline", 0) ELSE Nobody)
    /\ UNCHANGED <<setting, tables, registry, memo>> /\ answer' = Silent

CreateBaseline(i) ==
    /\ At(i, "list", "baseline") /\ InsertScenario /\ Respond(i)
    /\ UNCHANGED <<setting, sessions, runs, messages, commands, row, registry, memo>> /\ answer' = Silent

CreateSimulation(i) ==
    /\ Arrives(i, "cell", Nobody)
    /\ InsertScenario
    /\ UNCHANGED <<setting, sessions, runs, messages, commands, row, registry, memo>> /\ answer' = Silent

GetSimulation(i) ==
    /\ \E s \in 1 .. made.scenario, pc \in {"write", "remove", "copy", "insert"} :
           Arrives(i, "cell", IF s \in scenarios THEN Open("scenario", pc, s) ELSE Nobody)
    /\ UNCHANGED <<setting, tables, registry, memo>> /\ answer' = Silent

\* Mutant: an update that inserts the row it does not find.
UpsertedScenario(id) == scenarios \cup {id}

\* UPDATE ... WHERE finds nothing once the row is gone; in memory it is
\* stored again.
UpdatedScenario(id) == IF backend = "memory" THEN scenarios \cup {id} ELSE scenarios

UpdateSimulation(i) ==
    /\ At(i, "scenario", "write") /\ Respond(i)
    /\ scenarios' = UpdatedScenario(request[i].id)
    /\ UNCHANGED <<setting, sessions, runs, made, messages, commands, row, registry, memo>> /\ answer' = Silent

DeleteSimulation(i) ==
    /\ At(i, "scenario", "remove") /\ Respond(i)
    /\ DeleteScenario(request[i].id)
    /\ UNCHANGED <<setting, sessions, made, messages, commands, registry, memo>> /\ answer' = Silent

DuplicateSimulation(i) ==
    /\ At(i, "scenario", "copy") /\ InsertScenario /\ Respond(i)
    /\ UNCHANGED <<setting, sessions, runs, messages, commands, row, registry, memo>> /\ answer' = Silent

(***************************************************************************)
(* Runs.                                                                   *)
(***************************************************************************)
Starting(scenario) == [NoRow EXCEPT !.scenario = scenario, !.status = "starting"]

CreateRun(i) ==
    LET r == made.run + 1
        s == request[i].id
    IN /\ At(i, "scenario", "insert") /\ r <= MaxRuns
       /\ IF KeyHolds(s, scenarios)
          THEN /\ made' = [made EXCEPT !.run = r]
               /\ runs' = runs \cup {r}
               /\ row' = [row EXCEPT ![r] = Starting(s)]
               /\ request' = [request EXCEPT ![i] =
                      [Open("start", "control", r) EXCEPT !.held = Starting(s)]]
               /\ UNCHANGED left
          ELSE Respond(i) /\ UNCHANGED <<made, runs, row>>
       /\ UNCHANGED <<setting, sessions, scenarios, messages, commands, registry, memo>> /\ answer' = Silent

GetRun(i) ==
    /\ \E r \in 1 .. made.run, op \in {"pause", "resume", "stop", "speed", "event"} :
           Arrives(i, "cell", IF r \in runs
                      THEN [Open(op, IF op = "event" THEN "copy" ELSE "control", r) EXCEPT !.held = row[r]]
                      ELSE Nobody)
    /\ UNCHANGED <<setting, tables, registry, memo>> /\ answer' = Silent

Ended(r, status, kpis) == [r EXCEPT !.status = status, !.ended = TRUE, !.kpis = kpis]

\* What the handler makes of the run it holds, once the simulator replied.
Changes(op, r) ==
    CASE op = "start"  -> {[r EXCEPT !.status = "running"], [r EXCEPT !.status = "failed", !.ended = TRUE]}
      [] op = "pause"  -> {[r EXCEPT !.status = "paused"]}
      [] op = "resume" -> {[r EXCEPT !.status = "running"]}
      [] op = "stop"   -> {Ended(r, "stopped", k) : k \in KpiReports}
      [] OTHER         -> {r}

UpdateRun(i) ==
    \E op \in {"start", "pause", "resume", "stop", "speed"} :
        /\ At(i, op, "control")
        /\ LET q == request[i]
               now == IF backend = "memory" THEN row[q.id] ELSE q.held
           IN \E change \in Changes(op, now) : WriteRun(q.id, change)
        /\ Respond(i)
        /\ UNCHANGED <<setting, sessions, scenarios, made, messages, commands, registry, memo>> /\ answer' = Silent

\* A completion UE5 reports: update_run_status reads the row again.
ReadAgain(i) ==
    /\ At(i, "event", "copy")
    /\ LET r == request[i].id
       IN IF r \in runs THEN request' = [request EXCEPT ![i].pc = "write", ![i].held = row[r]] /\ UNCHANGED left
                        ELSE Respond(i)
    /\ UNCHANGED <<setting, tables, registry, memo>> /\ answer' = Silent

UpdateRunStatus(i) ==
    /\ At(i, "event", "write")
    /\ \E status \in {"completed", "failed"}, kpis \in KpiReports \cup {request[i].held.kpis} :
           WriteRun(request[i].id, Ended(request[i].held, status, kpis))
    /\ Respond(i)
    /\ UNCHANGED <<setting, sessions, scenarios, made, messages, commands, registry, memo>> /\ answer' = Silent

(***************************************************************************)
(* Questions: the graph for a relational one, the vector search when it is *)
(* not one, when the control server or the repository fails, and when no   *)
(* station answers it.                                                     *)
(***************************************************************************)
Ask(i) ==
    /\ \E words \in Questions :
           \/ /\ IsRelationalQuery(words)
              /\ Arrives(i, "cell", [Open("ask", "listed", 0) EXCEPT !.arg = [words |-> words, stations |-> registry]])
           \/ Arrives(i, "cell", Open("ask", "search", 0))
    /\ UNCHANGED <<setting, tables, registry, memo>> /\ answer' = Silent

RunNodes == {[id |-> r, status |-> row[r].status, ended |-> row[r].ended, kpis |-> row[r].kpis] : r \in runs}

RetrieveGraph(i) ==
    /\ At(i, "ask", "listed")
    /\ LET q == request[i].arg
           entry == Lookup(memo, q.stations, RunNodes)
           given == GraphAnswer(q.words, entry.graph, RunNodes)
       IN /\ memo' = Touch(memo, entry, MemoSize)
          /\ IF given = NoAnswer
             THEN request' = [request EXCEPT ![i] = Open("ask", "search", 0)] /\ UNCHANGED left /\ answer' = Silent
             ELSE /\ answer' = [given |-> given,
                                fresh |-> GraphAnswer(q.words, Graph(q.stations, RunNodes), RunNodes)]
                  /\ Respond(i)
    /\ UNCHANGED <<setting, tables, registry>>

\* Embedding, both search endpoints and the reranker may fail: an error of the
\* reranker alone falls back to the lexical order, any other finds nothing.  A
\* ranking that raises is caught by neither: the turn fails with an error.
VectorAnswer(mode, hits, reply) ==
    LET among == AboveMinimum(hits, MinScore)
    IN IF Raises(mode, among, reply)
       THEN [kind |-> "error", among |-> among, reply |-> reply]
       ELSE [kind |-> "vector", among |-> among,
             chunks |-> Longest(Rerank(mode, among, reply, TopK), TopK)]

SearchVectors(i) ==
    /\ At(i, "ask", "search")
    /\ \E mode \in {"off", "lexical", "llm"}, hits \in HitLists \cup {<<>>}, reply \in RankReplies :
           answer' = [given |-> VectorAnswer(mode, hits, reply), fresh |-> NoAnswer]
    /\ Respond(i)
    /\ UNCHANGED <<setting, tables, registry, memo>>

\* External: a station becomes ready, is blocked, changes its state.
StationsChange == /\ area = "cell" /\ registry' \in Registries \ {registry}
                  /\ UNCHANGED <<setting, left, request, tables, memo>> /\ answer' = Silent

Next == \/ \E i \in Slots :
              \/ CreateSession(i) \/ PostMessage(i) \/ AddMessage(i) \/ SaveCommand(i)
              \/ RequireSession(i) \/ DeleteCommands(i) \/ DeleteSession(i)
              \/ ListSimulations(i) \/ CreateBaseline(i) \/ CreateSimulation(i) \/ GetSimulation(i)
              \/ UpdateSimulation(i) \/ DeleteSimulation(i) \/ DuplicateSimulation(i) \/ CreateRun(i)
              \/ GetRun(i) \/ UpdateRun(i) \/ ReadAgain(i) \/ UpdateRunStatus(i)
              \/ Ask(i) \/ RetrieveGraph(i) \/ SearchVectors(i)
        \/ StationsChange

Spec == Init /\ [][Next]_vars

(***************************************************************************)
(* Properties.                                                             *)
(***************************************************************************)
\* Rows have ids that were given, PostgreSQL keeps no content of a run that is
\* gone, and the memo never outgrows its size nor holds a key twice.
TypeOK ==
    /\ sessions \subseteq 1 .. made.session
    /\ scenarios \subseteq 1 .. made.scenario
    /\ runs \subseteq 1 .. made.run
    /\ messages \in [1 .. MaxSessions -> Nat] /\ commands \in [1 .. MaxSessions -> Nat]
    /\ \A r \in runs : row[r].scenario \in 1 .. made.scenario
    /\ backend = "postgres" => \A r \in 1 .. MaxRuns \ runs : row[r] = NoRow
    /\ Len(memo) <= MemoSize
    /\ \A m, n \in 1 .. Len(memo) : memo[m].key = memo[n].key => m = n

\* In PostgreSQL a message, a command or a run never outlives the session or
\* scenario it belongs to, however a delete interleaves with a turn or a start
\* that has already found its parent (repositories.py 352-364, schema 216-323).
NoOrphans ==
    backend = "postgres" =>
        /\ \A s \in 1 .. MaxSessions \ sessions : messages[s] = 0 /\ commands[s] = 0
        /\ \A r \in runs : row[r].scenario \in scenarios

\* In PostgreSQL what was deleted stays deleted: a write based on an earlier
\* read never brings a session, a scenario or a run back.
NothingComesBack ==
    [][backend = "postgres" =>
          /\ sessions' \ sessions \subseteq {made.session + 1}
          /\ scenarios' \ scenarios \subseteq {made.scenario + 1}
          /\ runs' \ runs \subseteq {made.run + 1}]_vars

\* A question answered from a memoized graph gets what a graph built from the
\* stations and runs just read would give: the fingerprint misses no change of
\* theirs that the graph shows (ontology.py 96-127).
AnswersAreCurrent ==
    answer.given.kind = "graph" => answer.given = answer.fresh

\* The chunks a turn is given are each one of those found, none twice and as
\* many as there are up to the limit, whichever ids the ranking model names.
\* A turn gets an error in their place only for found chunks and a reply that
\* is JSON but no object (knowledge_gateway.py 216-223, 266-282).
RankedOnce ==
    /\ answer.given.kind = "vector" =>
           LET given == answer.given.chunks
               among == ToSet(answer.given.among)
           IN /\ ToSet(given) \subseteq among
              /\ Cardinality(ToSet(given)) = Len(given)
              /\ Len(given) = IF Cardinality(among) < TopK THEN Cardinality(among) ELSE TopK
    /\ answer.given.kind = "error" =>
           answer.given.among # <<>> /\ answer.given.reply.kind = "noObject"
=============================================================================
