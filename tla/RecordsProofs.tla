---------------------------- MODULE RecordsProofs ----------------------------
(***************************************************************************)
(* Proofs about the rows and the answers of the chatbot backend, for any   *)
(* number of requests, rows, stations and hits.                            *)
(*                                                                         *)
(* Of the PostgreSQL repository: nothing outlives its parent, and nothing  *)
(* deleted comes back (the in-memory one promises neither).  Of either:    *)
(* the types of the rows and of the memo, an answer from the memo is what  *)
(* a new graph would give, and a ranking keeps the chunks found unless it  *)
(* raises.                                                                 *)
(*                                                                         *)
(* What the rankings do to lists of any length is proved by induction on   *)
(* the size of a set, through the well-foundedness of < on Nat.            *)
(***************************************************************************)
EXTENDS Records, FiniteSetTheorems, SequenceTheorems, WellFoundedInduction, TLAPS


Postgres == backend = "postgres"

\* Records that have the fields of a request, or of a run.
IsRequest(q) == DOMAIN q = {"op", "pc", "id", "held", "arg"}
IsRow(r) == "scenario" \in DOMAIN r

\* The requests about a run hold a copy of its row.
RunOps == {"start", "pause", "resume", "stop", "speed", "event"}

ChatRows ==
  /\ messages \in [1 .. MaxSessions -> Nat] /\ commands \in [1 .. MaxSessions -> Nat]
  /\ \A s \in 1 .. MaxSessions \ sessions : messages[s] = 0 /\ commands[s] = 0

RunRows ==
  /\ made.run \in 0 .. MaxRuns /\ made.scenario \in Nat /\ made.session \in Nat
  /\ made = [session |-> made.session, scenario |-> made.scenario, run |-> made.run]
  /\ runs \subseteq 1 .. made.run
  /\ row = [r \in 1 .. MaxRuns |-> row[r]]
  /\ \A r \in 1 .. MaxRuns : IsRow(row[r])
  /\ \A r \in runs : row[r].scenario \in scenarios

\* What a request holds of a run that still exists belongs to its scenario.
Holds(q) ==
  /\ IsRequest(q) /\ IsRow(q.held)
  /\ q.op \in RunOps =>
        /\ q.id \in 1 .. made.run
        /\ q.id \in runs => row[q.id].scenario = q.held.scenario

Requests == /\ request = [i \in Slots |-> request[i]]
            /\ \A i \in Slots : Holds(request[i])

Rows == ChatRows /\ RunRows /\ Requests
IInv == Postgres => Rows

-----------------------------------------------------------------------------
(* Requests.                                                               *)

LEMMA Nothing ==
  IsRow(NoRow) /\ IsRequest(Nobody) /\ Nobody.op = "none" /\ Nobody.held = NoRow
BY DEF IsRow, NoRow, IsRequest, Nobody

LEMMA OpenFields ==
  ASSUME NEW op, NEW pc, NEW id
  PROVE  LET q == Open(op, pc, id)
         IN IsRequest(q) /\ q.op = op /\ q.id = id /\ q.held = NoRow
BY Nothing DEF Open, IsRequest

\* Rows counted for one session.
LEMMA Counted ==
  ASSUME NEW f \in [1 .. MaxSessions -> Nat], NEW s
  PROVE  /\ [f EXCEPT ![s] = @ + 1] \in [1 .. MaxSessions -> Nat]
         /\ [f EXCEPT ![s] = 0] \in [1 .. MaxSessions -> Nat]
         /\ \A x \in 1 .. MaxSessions : /\ x # s => [f EXCEPT ![s] = @ + 1][x] = f[x]
                                        /\ [f EXCEPT ![s] = 0][x] = IF x = s THEN 0 ELSE f[x]
<1>1. CASE s \in 1 .. MaxSessions
  BY <1>1
<1>2. CASE s \notin 1 .. MaxSessions
  BY <1>2
<1> QED BY <1>1, <1>2

\* A table of counts stays one when a count is raised or reset.
LEMMA StillCounts ==
  ASSUME NEW f \in [1 .. MaxSessions -> Nat], NEW s, NEW g,
         g = f \/ g = [f EXCEPT ![s] = @ + 1] \/ g = [f EXCEPT ![s] = 0]
  PROVE  g \in [1 .. MaxSessions -> Nat]
<1>1. CASE g = [f EXCEPT ![s] = @ + 1]
  BY <1>1, Counted
<1>2. CASE g = [f EXCEPT ![s] = 0]
  BY <1>2, Counted
<1> QED BY <1>1, <1>2

LEMMA NobodyHolds == Holds(Nobody)
BY Nothing DEF Holds, RunOps

\* A step that changes one request, and keeps the rows of the runs.
LEMMA OneRequest ==
  ASSUME Rows, NEW i \in Slots, NEW q, Holds(q),
         request' = [request EXCEPT ![i] = q], made'.run = made.run, UNCHANGED <<runs, row>>
  PROVE  Requests'
BY DEF Rows, Requests, Holds

LEMMA OpenHolds ==
  ASSUME NEW op, NEW pc, NEW id, op \notin RunOps
  PROVE  Holds(Open(op, pc, id))
BY OpenFields, Nothing DEF Holds

LEMMA MovedHolds ==
  ASSUME NEW q, Holds(q), NEW pc
  PROVE  Holds([q EXCEPT !.pc = pc])
BY DEF Holds, IsRequest

LEMMA ArrivesOneRequest ==
  ASSUME NEW i \in Slots, NEW about, NEW q, Arrives(i, about, q)
  PROVE  request' = [request EXCEPT ![i] = q]
BY DEF Arrives

LEMMA RespondOneRequest ==
  ASSUME NEW i \in Slots, Respond(i)
  PROVE  request' = [request EXCEPT ![i] = Nobody]
BY DEF Respond

LEMMA GotoOneRequest ==
  ASSUME Rows, NEW i \in Slots, NEW pc, Goto(i, pc)
  PROVE  request' = [request EXCEPT ![i] = [request[i] EXCEPT !.pc = pc]]
BY DEF Goto, Rows, Requests

-----------------------------------------------------------------------------
(* Sessions.                                                               *)

LEMMA InsertSessionRows ==
  ASSUME Rows, InsertSession, UNCHANGED <<messages, commands, scenarios, runs, row>>
  PROVE  ChatRows' /\ RunRows' /\ made'.run = made.run
<1>1. made' = [session |-> made.session + 1, scenario |-> made.scenario, run |-> made.run]
  BY DEF InsertSession, Rows, RunRows
<1>2. ChatRows'
  BY DEF InsertSession, Rows, ChatRows
<1>3. RunRows'
  BY <1>1 DEF Rows, RunRows, IsRow
<1> QED BY <1>1, <1>2, <1>3

LEMMA StepSession ==
  ASSUME Postgres, Rows, NEW i \in Slots,
         \/ CreateSession(i) \/ PostMessage(i) \/ AddMessage(i) \/ SaveCommand(i)
         \/ RequireSession(i) \/ DeleteCommands(i) \/ DeleteSession(i)
  PROVE  Rows'
<1>1. CASE CreateSession(i)
  <2>1. request' = [request EXCEPT ![i] = Nobody]
    BY <1>1 DEF CreateSession, Arrives
  <2>2. ChatRows' /\ RunRows' /\ made'.run = made.run /\ UNCHANGED <<runs, row>>
    BY <1>1, InsertSessionRows DEF CreateSession
  <2> QED BY <2>1, <2>2, OneRequest, NobodyHolds DEF Rows
<1>2. CASE PostMessage(i)
  <2>1. PICK q \in {Nobody} \cup {Open("post", "asked", s) : s \in Nat} :
          request' = [request EXCEPT ![i] = q]
    <3>1. CASE request' = [request EXCEPT ![i] = Open("post", "asked", made.session + 1)]
      <4>1. made.session + 1 \in Nat
        BY DEF Rows, RunRows
      <4> QED BY <3>1, <4>1
    <3>2. CASE \E s \in 1 .. made.session : request' = [request EXCEPT ![i] =
                 IF s \in sessions THEN Open("post", "asked", s) ELSE Nobody]
      <4>1. \A s \in 1 .. made.session : s \in Nat
        BY DEF Rows, RunRows
      <4> QED BY <3>2, <4>1
    <3> QED BY <1>2, <3>1, <3>2 DEF PostMessage, Arrives
  <2>2. Holds(q)
    BY <2>1, NobodyHolds, OpenHolds DEF RunOps
  <2>3. ChatRows' /\ RunRows' /\ made'.run = made.run /\ UNCHANGED <<runs, row>>
    <3>1. CASE InsertSession
      BY <1>2, <3>1, InsertSessionRows DEF PostMessage
    <3>2. CASE UNCHANGED <<sessions, made>>
      BY <1>2, <3>2 DEF PostMessage, Rows, ChatRows, RunRows, IsRow
    <3> QED BY <1>2, <3>1, <3>2 DEF PostMessage
  <2> QED BY <2>1, <2>2, <2>3, OneRequest DEF Rows
<1>3. CASE AddMessage(i) \/ SaveCommand(i)
  <2>1. PICK q : Holds(q) /\ request' = [request EXCEPT ![i] = q]
    <3>1. CASE Respond(i)
      BY <3>1, NobodyHolds, RespondOneRequest
    <3>2. ASSUME NEW pc, Goto(i, pc) PROVE \E q : Holds(q) /\ request' = [request EXCEPT ![i] = q]
      BY <3>2, GotoOneRequest, MovedHolds DEF Rows, Requests
    <3> QED BY <1>3, <3>1, <3>2 DEF AddMessage, SaveCommand
  <2>2. UNCHANGED <<sessions, scenarios, runs, made, row>>
    BY <1>3 DEF AddMessage, SaveCommand
  <2>3. ChatRows'
    <3> DEFINE s == request[i].id
    <3>1. /\ messages' = messages \/ (s \in sessions /\ messages' = [messages EXCEPT ![s] = @ + 1])
          /\ commands' = commands \/ (s \in sessions /\ commands' = [commands EXCEPT ![s] = @ + 1])
      BY <1>3 DEF AddMessage, SaveCommand, KeyHolds, Postgres
    <3> HIDE DEF s
    <3>2. messages' \in [1 .. MaxSessions -> Nat] /\ commands' \in [1 .. MaxSessions -> Nat]
      <4>1. messages \in [1 .. MaxSessions -> Nat] /\ commands \in [1 .. MaxSessions -> Nat]
        BY DEF Rows, ChatRows
      <4>2. messages' \in [1 .. MaxSessions -> Nat]
        BY <3>1, <4>1, StillCounts
      <4>3. commands' \in [1 .. MaxSessions -> Nat]
        BY <3>1, <4>1, StillCounts
      <4> QED BY <4>2, <4>3
    <3>3. \A x \in 1 .. MaxSessions \ sessions : messages'[x] = messages[x] /\ commands'[x] = commands[x]
      BY <3>1, Counted DEF Rows, ChatRows
    <3> QED BY <2>2, <3>2, <3>3 DEF Rows, ChatRows
  <2>4. RunRows'
    BY <2>2 DEF Rows, RunRows, IsRow
  <2> QED BY <2>1, <2>2, <2>3, <2>4, OneRequest DEF Rows
<1>4. CASE RequireSession(i) \/ DeleteCommands(i)
  <2>1. UNCHANGED tables
    BY <1>4 DEF RequireSession, DeleteCommands
  <2>2. ChatRows' /\ RunRows'
    BY <2>1 DEF tables, Rows, ChatRows, RunRows, IsRow
  <2>3. PICK q : Holds(q) /\ request' = [request EXCEPT ![i] = q]
    <3>1. CASE RequireSession(i)
      BY <3>1, NobodyHolds, OpenHolds DEF RequireSession, Arrives, RunOps
    <3>2. CASE DeleteCommands(i)
      <4> DEFINE o == request[i]
                 q == [o EXCEPT !.pc = "drop", !.arg = commands[o.id]]
      <4>1. Holds(o)
        BY DEF Rows, Requests
      <4>2. request' = [request EXCEPT ![i] = q]
        BY <3>2 DEF DeleteCommands, Rows, Requests
      <4>3. Holds(q)
        <5> HIDE DEF o
        <5> QED BY <4>1 DEF Holds, IsRequest
      <4> QED BY <4>2, <4>3
    <3> QED BY <1>4, <3>1, <3>2
  <2> QED BY <2>1, <2>2, <2>3, OneRequest DEF Rows, tables
<1>5. CASE DeleteSession(i)
  <2>1. request' = [request EXCEPT ![i] = Nobody] /\ UNCHANGED <<scenarios, runs, made, row>>
    BY <1>5, RespondOneRequest DEF DeleteSession
  <2>2. ChatRows'
    <3> DEFINE s == request[i].id
    <3>1. \/ UNCHANGED <<sessions, messages, commands>>
          \/ /\ sessions' = sessions \ {s}
             /\ messages' = [messages EXCEPT ![s] = 0]
             /\ commands' = [commands EXCEPT ![s] = 0]
      BY <1>5 DEF DeleteSession
    <3> HIDE DEF s
    <3>2. messages' \in [1 .. MaxSessions -> Nat] /\ commands' \in [1 .. MaxSessions -> Nat]
      <4>1. messages \in [1 .. MaxSessions -> Nat] /\ commands \in [1 .. MaxSessions -> Nat]
        BY DEF Rows, ChatRows
      <4>2. messages' \in [1 .. MaxSessions -> Nat]
        BY <3>1, <4>1, StillCounts
      <4>3. commands' \in [1 .. MaxSessions -> Nat]
        BY <3>1, <4>1, StillCounts
      <4> QED BY <4>2, <4>3
    <3>3. \A x \in 1 .. MaxSessions \ sessions' : messages'[x] = 0 /\ commands'[x] = 0
      <4>1. CASE UNCHANGED <<sessions, messages, commands>>
        BY <4>1 DEF Rows, ChatRows
      <4>2. CASE sessions' = sessions \ {s} /\ messages' = [messages EXCEPT ![s] = 0]
                 /\ commands' = [commands EXCEPT ![s] = 0]
        <5>1. /\ messages \in [1 .. MaxSessions -> Nat] /\ commands \in [1 .. MaxSessions -> Nat]
              /\ \A x \in 1 .. MaxSessions \ sessions : messages[x] = 0 /\ commands[x] = 0
          BY DEF Rows, ChatRows
        <5>2. \A x \in 1 .. MaxSessions \ sessions' : messages'[x] = 0
          BY <4>2, <5>1
        <5>3. \A x \in 1 .. MaxSessions \ sessions' : commands'[x] = 0
          BY <4>2, <5>1
        <5> QED BY <5>2, <5>3
      <4> QED BY <3>1, <4>1, <4>2
    <3> QED BY <3>2, <3>3 DEF ChatRows
  <2>3. RunRows'
    BY <2>1 DEF Rows, RunRows, IsRow
  <2> QED BY <2>1, <2>2, <2>3, OneRequest, NobodyHolds DEF Rows
<1> QED BY <1>1, <1>2, <1>3, <1>4, <1>5

-----------------------------------------------------------------------------
(* Scenarios.                                                              *)

LEMMA InsertScenarioRows ==
  ASSUME Rows, InsertScenario, UNCHANGED <<sessions, runs, messages, commands, row>>
  PROVE  ChatRows' /\ RunRows' /\ made'.run = made.run
<1>1. made' = [session |-> made.session, scenario |-> made.scenario + 1, run |-> made.run]
  BY DEF InsertScenario, Rows, RunRows
<1>2. RunRows'
  BY <1>1 DEF InsertScenario, Rows, RunRows, IsRow
<1>3. ChatRows'
  BY DEF Rows, ChatRows
<1> QED BY <1>1, <1>2, <1>3

LEMMA StepScenario ==
  ASSUME Postgres, Rows, NEW i \in Slots,
         \/ ListSimulations(i) \/ CreateBaseline(i) \/ CreateSimulation(i) \/ GetSimulation(i)
         \/ UpdateSimulation(i) \/ DeleteSimulation(i) \/ DuplicateSimulation(i)
  PROVE  Rows'
<1>1. CASE CreateBaseline(i) \/ CreateSimulation(i) \/ DuplicateSimulation(i)
  <2>1. request' = [request EXCEPT ![i] = Nobody]
    BY <1>1, RespondOneRequest DEF CreateBaseline, CreateSimulation, DuplicateSimulation, Arrives
  <2>2. ChatRows' /\ RunRows' /\ made'.run = made.run /\ UNCHANGED <<runs, row>>
    BY <1>1, InsertScenarioRows DEF CreateBaseline, CreateSimulation, DuplicateSimulation
  <2> QED BY <2>1, <2>2, OneRequest, NobodyHolds DEF Rows
<1>2. CASE ListSimulations(i) \/ GetSimulation(i)
  <2>1. PICK q : Holds(q) /\ request' = [request EXCEPT ![i] = q]
    BY <1>2, NobodyHolds, OpenHolds DEF ListSimulations, GetSimulation, Arrives, RunOps
  <2>2. UNCHANGED tables
    BY <1>2 DEF ListSimulations, GetSimulation
  <2>3. ChatRows' /\ RunRows'
    BY <2>2 DEF tables, Rows, ChatRows, RunRows, IsRow
  <2> QED BY <2>1, <2>2, <2>3, OneRequest DEF Rows, tables
<1>3. CASE UpdateSimulation(i)
  <2>1. request' = [request EXCEPT ![i] = Nobody]
        /\ UNCHANGED <<sessions, scenarios, runs, made, messages, commands, row>>
    BY <1>3, RespondOneRequest DEF UpdateSimulation, UpdatedScenario, Postgres
  <2>2. ChatRows' /\ RunRows'
    BY <2>1 DEF Rows, ChatRows, RunRows, IsRow
  <2> QED BY <2>1, <2>2, OneRequest, NobodyHolds DEF Rows
<1>4. CASE DeleteSimulation(i)
  <2> DEFINE s == request[i].id
             orphans == {r \in runs : row[r].scenario = s}
  <2>1. /\ request' = [request EXCEPT ![i] = Nobody]
        /\ UNCHANGED <<sessions, made, messages, commands>>
        /\ scenarios' = scenarios \ {s} /\ runs' = runs \ orphans
        /\ row' = [r \in 1 .. MaxRuns |-> IF r \in orphans THEN NoRow ELSE row[r]]
    BY <1>4, RespondOneRequest DEF DeleteSimulation, DeleteScenario, Postgres
  <2>2. ChatRows'
    BY <2>1 DEF Rows, ChatRows
  <2>3. runs \subseteq 1 .. MaxRuns /\ IsRow(NoRow)
    BY RecordsAssumption, Nothing DEF Rows, RunRows
  <2> HIDE DEF s
  <2>4. \A r \in runs' : r \in runs /\ row'[r] = row[r] /\ row[r].scenario # s
    BY <2>1, <2>3
  <2>5. \A r \in 1 .. MaxRuns : row'[r] = NoRow \/ row'[r] = row[r]
    BY <2>1
  <2> HIDE DEF orphans
  <2>6. RunRows'
    <3>1. row' = [r \in 1 .. MaxRuns |-> row'[r]]
      BY <2>1
    <3>2. \A r \in 1 .. MaxRuns : IsRow(row'[r])
      BY <2>3, <2>5 DEF Rows, RunRows
    <3>3. UNCHANGED made /\ RunRows
      BY <2>1 DEF Rows
    <3>4. runs' \subseteq 1 .. made'.run
      BY <2>4, <3>3 DEF RunRows
    <3>5. \A r \in runs' : row'[r].scenario \in scenarios'
      <4>1. \A r \in runs : row[r].scenario \in scenarios
        BY <3>3 DEF RunRows
      <4>2. scenarios' = scenarios \ {s}
        BY <2>1
      <4>3. ASSUME NEW r \in runs' PROVE row'[r].scenario \in scenarios'
        <5>1. row'[r] = row[r] /\ row[r].scenario \in scenarios /\ row[r].scenario # s
          BY <2>4, <4>1, <4>3
        <5> QED BY <4>2, <5>1
      <4> QED BY <4>3
    <3> QED BY <3>1, <3>2, <3>3, <3>4, <3>5 DEF RunRows, IsRow
  <2>7. Requests'
    <3>1. \A j \in Slots : Holds(request[j])' \/ request'[j] = Nobody
      BY <2>1, <2>4 DEF Rows, Requests, Holds
    <3>2. Holds(Nobody)'
      BY Nothing DEF Holds, RunOps
    <3>3. request' = [j \in Slots |-> request'[j]]
      BY <2>1 DEF Rows, Requests
    <3> QED BY <3>1, <3>2, <3>3 DEF Requests, Holds
  <2> QED BY <2>2, <2>6, <2>7 DEF Rows
<1> QED BY <1>1, <1>2, <1>3, <1>4

-----------------------------------------------------------------------------
(* Runs.                                                                   *)

\* Only a row there is is written, and with the scenario it has.
LEMMA WriteRunRows ==
  ASSUME Postgres, Rows, NEW i \in Slots, request[i].op \in RunOps, NEW new, IsRow(new),
         new.scenario = request[i].held.scenario, WriteRun(request[i].id, new),
         request' = [request EXCEPT ![i] = Nobody],
         UNCHANGED <<sessions, scenarios, made, messages, commands>>
  PROVE  Rows'
<1> DEFINE id == request[i].id
<1>1. id \in 1 .. made.run /\ (id \in runs => row[id].scenario = new.scenario)
  BY DEF Rows, Requests, Holds
<1>2. runs' = runs /\ (row' = row \/ (id \in runs /\ row' = [row EXCEPT ![id] = new]))
  BY DEF WriteRun, Postgres
<1> HIDE DEF id
<1>3. runs \subseteq 1 .. MaxRuns /\ row = [r \in 1 .. MaxRuns |-> row[r]]
  BY RecordsAssumption DEF Rows, RunRows
<1>4. /\ row' = [r \in 1 .. MaxRuns |-> row'[r]]
      /\ \A r \in 1 .. MaxRuns : row'[r] = row[r] \/ row'[r] = new
      /\ \A r \in runs : row'[r].scenario = row[r].scenario
  BY <1>1, <1>2, <1>3
<1>5. ChatRows'
  BY DEF Rows, ChatRows
<1>6. RunRows'
  <2>1. \A r \in 1 .. MaxRuns : IsRow(row'[r])
    BY <1>4 DEF Rows, RunRows
  <2> QED BY <1>2, <1>4, <2>1 DEF Rows, RunRows, IsRow
<1>7. Requests'
  <2>1. \A j \in Slots : Holds(request[j])'  \/ request'[j] = Nobody
    BY <1>2, <1>4 DEF Rows, Requests, Holds
  <2>2. Holds(Nobody)'
    BY Nothing DEF Holds, RunOps
  <2>3. request' = [j \in Slots |-> request'[j]]
    BY DEF Rows, Requests
  <2> QED BY <2>1, <2>2, <2>3 DEF Requests, Holds
<1> QED BY <1>5, <1>6, <1>7 DEF Rows

\* Every change keeps the scenario.
LEMMA EndedKeepsScenario ==
  ASSUME NEW r, IsRow(r), NEW status, NEW kpis
  PROVE  IsRow(Ended(r, status, kpis)) /\ Ended(r, status, kpis).scenario = r.scenario
BY DEF Ended, IsRow

LEMMA ChangesKeepScenario ==
  ASSUME NEW op, NEW r, IsRow(r), NEW new \in Changes(op, r)
  PROVE  IsRow(new) /\ new.scenario = r.scenario
<1>1. \/ new = r
      \/ \E status : new = [r EXCEPT !.status = status]
      \/ new = [r EXCEPT !.status = "failed", !.ended = TRUE]
      \/ \E k \in KpiReports : new = Ended(r, "stopped", k)
  BY DEF Changes
<1>2. CASE \E status : new = [r EXCEPT !.status = status]
  BY <1>2 DEF IsRow
<1>3. CASE new = [r EXCEPT !.status = "failed", !.ended = TRUE]
  BY <1>3 DEF IsRow
<1> QED BY <1>1, <1>2, <1>3, EndedKeepsScenario

\* A request that has read the row it holds.
LEMMA ReadHolds ==
  ASSUME Rows, NEW op, NEW pc, NEW r \in runs
  PROVE  Holds([Open(op, pc, r) EXCEPT !.held = row[r]])
<1>1. IsRow(row[r]) /\ r \in 1 .. made.run
  BY RecordsAssumption DEF Rows, RunRows
<1>2. \A q : IsRequest(q) /\ q.id = r => Holds([q EXCEPT !.held = row[r]])
  BY <1>1 DEF Holds, IsRequest
<1> QED BY <1>2, OpenFields

LEMMA StepCreateRun ==
  ASSUME Postgres, Rows, NEW i \in Slots, CreateRun(i) PROVE Rows'
<1> DEFINE r == made.run + 1
           s == request[i].id
           new == [Open("start", "control", r) EXCEPT !.held = Starting(s)]
<1>1. UNCHANGED <<sessions, scenarios, messages, commands>> /\ ChatRows'
  BY DEF CreateRun, Rows, ChatRows
<1>2. CASE s \notin scenarios
  <2>1. request' = [request EXCEPT ![i] = Nobody] /\ UNCHANGED <<made, runs, row>>
    BY <1>2, RespondOneRequest DEF CreateRun, KeyHolds, Postgres
  <2>2. RunRows'
    BY <1>1, <2>1 DEF Rows, RunRows, IsRow
  <2> QED BY <1>1, <2>1, <2>2, OneRequest, NobodyHolds DEF Rows
<1>3. CASE s \in scenarios
  <2>1. IsRow(Starting(s)) /\ Starting(s).scenario = s
    BY DEF Starting, NoRow, IsRow
  <2>2. IsRequest(new) /\ new.op = "start" /\ new.id = r /\ new.held = Starting(s)
    <3>1. \A q, held : IsRequest(q) => LET n == [q EXCEPT !.held = held]
                                    IN IsRequest(n) /\ n.op = q.op /\ n.id = q.id /\ n.held = held
      BY DEF IsRequest
    <3> QED BY <3>1, OpenFields
  <2>3. /\ r <= MaxRuns /\ made' = [made EXCEPT !.run = r] /\ runs' = runs \cup {r}
        /\ row' = [row EXCEPT ![r] = Starting(s)]
        /\ request' = [request EXCEPT ![i] = new]
    BY <1>3 DEF CreateRun, KeyHolds, Postgres
  <2>4. /\ made.run \in 0 .. MaxRuns /\ r \in 1 .. MaxRuns /\ runs \subseteq 1 .. made.run /\ r \notin runs
        /\ row = [x \in 1 .. MaxRuns |-> row[x]]
        /\ made' = [session |-> made.session, scenario |-> made.scenario, run |-> r]
    BY <2>3, RecordsAssumption DEF Rows, RunRows
  <2>5. /\ row' = [x \in 1 .. MaxRuns |-> row'[x]] /\ row'[r] = Starting(s)
        /\ \A x \in 1 .. MaxRuns : x # r => row'[x] = row[x]
    BY <2>3, <2>4
  <2> HIDE DEF r, s, new
  <2>6. RunRows'
    <3>1. \A x \in 1 .. MaxRuns : IsRow(row'[x])
      BY <2>5, <2>1 DEF Rows, RunRows
    <3>2. \A x \in runs' : row'[x].scenario \in scenarios
      BY <1>3, <2>3, <2>4, <2>5, <2>1 DEF Rows, RunRows
    <3>3. made'.run \in 0 .. MaxRuns /\ runs' \subseteq 1 .. made'.run
      BY <2>3, <2>4 DEF r
    <3> QED BY <1>1, <2>4, <2>5, <3>1, <3>2, <3>3 DEF Rows, RunRows, IsRow
  <2>7. \A x \in 1 .. made.run : x # r
    BY <2>4 DEF r
  <2>8. Requests'
    <3> DEFINE After(q) == /\ IsRequest(q) /\ IsRow(q.held)
                           /\ q.op \in RunOps =>
                                 /\ q.id \in 1 .. made'.run
                                 /\ q.id \in runs' => row'[q.id].scenario = q.held.scenario
    <3>1. ASSUME NEW j \in Slots, j # i PROVE After(request'[j])
      <4>1. request'[j] = request[j] /\ Holds(request[j])
        BY <2>3, <3>1 DEF Rows, Requests
      <4>2. 1 .. made.run \subseteq 1 .. made'.run
        BY <2>4, <2>7 DEF r
      <4>3. \A x \in 1 .. made.run : row'[x] = row[x] /\ (x \in runs' <=> x \in runs)
        BY <2>3, <2>4, <2>5, <2>7
      <4> QED BY <4>1, <4>2, <4>3 DEF Holds
    <3>2. After(new)
      BY <2>1, <2>2, <2>4, <2>5
    <3>3. request' = [j \in Slots |-> request'[j]] /\ request'[i] = new
      BY <2>3 DEF Rows, Requests
    <3>4. \A j \in Slots : After(request'[j])
      <4> HIDE DEF After
      <4> QED BY <3>1, <3>2, <3>3
    <3> QED BY <3>3, <3>4 DEF Requests, Holds
  <2> QED BY <1>1, <2>6, <2>8 DEF Rows
<1> QED BY <1>2, <1>3

LEMMA StepRun ==
  ASSUME Postgres, Rows, NEW i \in Slots,
         GetRun(i) \/ UpdateRun(i) \/ ReadAgain(i) \/ UpdateRunStatus(i)
  PROVE  Rows'
<1>1. CASE GetRun(i)
  <2>1. UNCHANGED tables
    BY <1>1 DEF GetRun
  <2>2. PICK q : Holds(q) /\ request' = [request EXCEPT ![i] = q]
    BY <1>1, NobodyHolds, ReadHolds DEF GetRun, Arrives
  <2>3. ChatRows' /\ RunRows'
    BY <2>1 DEF tables, Rows, ChatRows, RunRows, IsRow
  <2> QED BY <2>1, <2>2, <2>3, OneRequest DEF Rows, tables
<1>2. CASE UpdateRun(i)
  <2>1. PICK op \in {"start", "pause", "resume", "stop", "speed"} :
          /\ request[i].op = op
          /\ \E new \in Changes(op, request[i].held) : WriteRun(request[i].id, new)
          /\ Respond(i) /\ UNCHANGED <<sessions, scenarios, made, messages, commands>>
    BY <1>2 DEF UpdateRun, At, Postgres
  <2>2. PICK new \in Changes(op, request[i].held) : WriteRun(request[i].id, new)
    BY <2>1
  <2>3. IsRow(new) /\ new.scenario = request[i].held.scenario
    BY <2>2, ChangesKeepScenario DEF Rows, Requests, Holds
  <2>4. request[i].op \in RunOps /\ request' = [request EXCEPT ![i] = Nobody]
    BY <2>1, RespondOneRequest DEF RunOps
  <2> QED BY <2>1, <2>2, <2>3, <2>4, WriteRunRows
<1>3. CASE ReadAgain(i)
  <2>1. UNCHANGED tables /\ request[i].op = "event"
    BY <1>3 DEF ReadAgain, At
  <2>2. PICK q : Holds(q) /\ request' = [request EXCEPT ![i] = q]
    <3>1. CASE request[i].id \notin runs
      BY <1>3, <3>1, NobodyHolds, RespondOneRequest DEF ReadAgain
    <3>2. CASE request[i].id \in runs
      <4> DEFINE o == request[i]
                 q == [o EXCEPT !.pc = "write", !.held = row[o.id]]
      <4>1. Holds(o) /\ IsRow(row[o.id]) /\ o.id \in runs
        BY <3>2, RecordsAssumption DEF Rows, RunRows, Requests
      <4>2. request' = [request EXCEPT ![i] = q]
        BY <1>3, <3>2 DEF ReadAgain, Rows, Requests
      <4>3. q.op = o.op /\ q.id = o.id /\ q.held = row[o.id] /\ IsRequest(q)
        <5> HIDE DEF o
        <5> QED BY <4>1 DEF Holds, IsRequest
      <4>4. Holds(q)
        BY <4>1, <4>3 DEF Holds
      <4> QED BY <4>2, <4>4
    <3> QED BY <3>1, <3>2
  <2>3. ChatRows' /\ RunRows'
    BY <2>1 DEF tables, Rows, ChatRows, RunRows, IsRow
  <2> QED BY <2>1, <2>2, <2>3, OneRequest DEF Rows, tables
<1>4. CASE UpdateRunStatus(i)
  <2>1. PICK status, kpis : WriteRun(request[i].id, Ended(request[i].held, status, kpis))
    BY <1>4 DEF UpdateRunStatus
  <2> DEFINE new == Ended(request[i].held, status, kpis)
  <2>2. IsRow(new) /\ new.scenario = request[i].held.scenario
    BY EndedKeepsScenario DEF Rows, Requests, Holds
  <2>3. /\ request[i].op \in RunOps /\ request' = [request EXCEPT ![i] = Nobody]
        /\ UNCHANGED <<sessions, scenarios, made, messages, commands>>
    BY <1>4, RespondOneRequest DEF UpdateRunStatus, At, RunOps
  <2> HIDE DEF new
  <2>4. WriteRun(request[i].id, new)
    BY <2>1 DEF new
  <2> QED BY <2>2, <2>3, <2>4, WriteRunRows
<1> QED BY <1>1, <1>2, <1>3, <1>4

\* Questions read the rows and write none.
LEMMA StepQuestion ==
  ASSUME Postgres, Rows,
         \/ \E i \in Slots : Ask(i) \/ RetrieveGraph(i) \/ SearchVectors(i)
         \/ StationsChange
  PROVE  Rows'
<1>1. UNCHANGED tables
  BY DEF Ask, RetrieveGraph, SearchVectors, StationsChange
<1>2. ChatRows' /\ RunRows'
  BY <1>1 DEF tables, Rows, ChatRows, RunRows, IsRow
<1>3. ASSUME NEW i \in Slots, Ask(i) \/ RetrieveGraph(i) \/ SearchVectors(i)
      PROVE  request' = request \/ \E q : Holds(q) /\ request' = [request EXCEPT ![i] = q]
  <2>1. CASE Ask(i)
    <3>1. \A arg : Holds([Open("ask", "listed", 0) EXCEPT !.arg = arg])
      <4>1. \A q, arg : IsRequest(q) /\ q.op = "ask" /\ q.held = NoRow => Holds([q EXCEPT !.arg = arg])
        BY Nothing DEF Holds, IsRequest, RunOps
      <4> QED BY <4>1, OpenFields
    <3> QED BY <2>1, <3>1, OpenHolds DEF Ask, Arrives, RunOps
  <2>2. CASE RetrieveGraph(i)
    BY <2>2, NobodyHolds, OpenHolds DEF RetrieveGraph, Respond, RunOps
  <2>3. CASE SearchVectors(i)
    BY <2>3, NobodyHolds DEF SearchVectors, Respond
  <2> QED BY <1>3, <2>1, <2>2, <2>3
<1>4. CASE StationsChange
  BY <1>1, <1>2, <1>4 DEF StationsChange, tables, Rows, Requests, Holds
<1>5. ASSUME NEW i \in Slots, Ask(i) \/ RetrieveGraph(i) \/ SearchVectors(i) PROVE Rows'
  <2>1. CASE request' = request
    BY <1>1, <1>2, <2>1 DEF tables, Rows, Requests, Holds
  <2>2. CASE request' # request
    BY <1>1, <1>2, <1>3, <1>5, <2>2, OneRequest DEF tables, Rows
  <2> QED BY <2>1, <2>2
<1> QED BY <1>4, <1>5

-----------------------------------------------------------------------------
(* Sets put in order.                                                      *)

Before == OpToRel(<, Nat)

LEMMA BeforeIs == \A m, n \in Nat : m < n => <<m, n>> \in Before
BY DEF Before, OpToRel

LEMMA BeforeWellFounded == IsWellFoundedOn(Before, Nat)
BY NatLessThanWellFounded, Zenon DEF Before

LEMMA IntervalEnds == ASSUME NEW m \in Nat, NEW n \in Nat, 1 .. m = 1 .. n PROVE m = n
<1>1. n > 0 => n \in 1 .. m
  OBVIOUS
<1>2. m > 0 => m \in 1 .. n
  OBVIOUS
<1> QED BY <1>1, <1>2

LEMMA OverItsElements ==
  ASSUME NEW X, NEW q \in Seq(X)
  PROVE  q \in Seq(ToSet(q)) /\ ToSet(q) \subseteq X
<1>1. Len(q) \in Nat /\ q \in [1 .. Len(q) -> X] /\ DOMAIN q = 1 .. Len(q)
  BY LenProperties
<1>2. ToSet(q) \subseteq X /\ q \in [1 .. Len(q) -> ToSet(q)]
  BY <1>1 DEF ToSet
<1> QED BY <1>1, <1>2

LEMMA LeastOf ==
  ASSUME NEW S, S \subseteq Nat, S # {}
  PROVE  \E x \in S : \A y \in S : x <= y
<1>1. PICK x \in S : \A y \in S : ~(<<y, x>> \in Before)
  BY BeforeWellFounded, WFMin
<1>2. \A y \in S : ~(y < x)
  BY <1>1, BeforeIs
<1> QED BY <1>1, <1>2

LEMMA SetInduction ==
  ASSUME NEW S, 0 \in S, \A n \in Nat : n \in S => n + 1 \in S
  PROVE  Nat \subseteq S
<1> DEFINE T == Nat \ S
<1>1. SUFFICES ASSUME T # {} PROVE FALSE
  OBVIOUS
<1>2. PICK x \in T : \A y \in T : x <= y
  BY <1>1, LeastOf, T \subseteq Nat
<1>3. x \in Nat /\ x # 0 /\ x - 1 \in Nat /\ ~(x <= x - 1) /\ x - 1 + 1 = x
  BY <1>2
<1>4. x - 1 \in S
  BY <1>2, <1>3
<1> QED BY <1>3, <1>4

\* An order that puts any two members of a set one before the other.
Orders(R, S) ==
  /\ \A x, y, z \in S : <<x, y>> \in R /\ <<y, z>> \in R => <<x, z>> \in R
  /\ \A x \in S : <<x, x>> \notin R
  /\ \A x, y \in S : x # y => <<x, y>> \in R \/ <<y, x>> \in R

LEMMA OrdersPart ==
  ASSUME NEW R, NEW S, Orders(R, S), NEW T \in SUBSET S
  PROVE  Orders(R, T)
BY DEF Orders

LEMMA FirstExists ==
  ASSUME NEW R
  PROVE  \A n \in Nat : \A S : IsFiniteSet(S) /\ Cardinality(S) = n + 1 /\ Orders(R, S)
            => \E m \in S : \A x \in S \ {m} : <<m, x>> \in R
<1> DEFINE P(n) == \A S : IsFiniteSet(S) /\ Cardinality(S) = n + 1 /\ Orders(R, S)
                        => \E m \in S : \A x \in S \ {m} : <<m, x>> \in R
           N == {n \in Nat : P(n)}
<1>1. 0 \in N
  <2>1. ASSUME NEW S, IsFiniteSet(S), Cardinality(S) = 0 + 1
        PROVE  \E m \in S : \A x \in S \ {m} : <<m, x>> \in R
    <3>1. PICK m : S = {m}
      BY <2>1, FS_Singleton
    <3> QED BY <3>1
  <2>2. P(0)
    BY <2>1
  <2> HIDE DEF P
  <2> QED BY <2>2
<1>2. ASSUME NEW n \in Nat, n \in N PROVE n + 1 \in N
  <2>1. P(n)
    BY <1>2
  <2>2. ASSUME NEW S, IsFiniteSet(S), Cardinality(S) = n + 1 + 1, Orders(R, S)
        PROVE  \E m \in S : \A x \in S \ {m} : <<m, x>> \in R
    <3>1. S # {}
      BY <2>2, FS_EmptySet
    <3>2. PICK s : s \in S
      BY <3>1
    <3>3. IsFiniteSet(S \ {s}) /\ Cardinality(S \ {s}) = n + 1
      BY <2>2, <3>2, FS_RemoveElement
    <3>4. Orders(R, S \ {s})
      BY <2>2, OrdersPart
    <3>5. PICK m \in S \ {s} : \A x \in (S \ {s}) \ {m} : <<m, x>> \in R
      BY <2>1, <3>3, <3>4
    <3>6. <<s, m>> \in R \/ <<m, s>> \in R
      BY <2>2, <3>2, <3>5 DEF Orders
    <3>7. CASE <<s, m>> \in R
      <4>1. \A x \in S \ {s} : <<s, x>> \in R
        BY <2>2, <3>2, <3>5, <3>7 DEF Orders
      <4> QED BY <3>2, <4>1
    <3>8. CASE <<m, s>> \in R
      <4>1. \A x \in S \ {m} : <<m, x>> \in R
        BY <3>2, <3>5, <3>8
      <4> QED BY <3>5, <4>1
    <3> QED BY <3>6, <3>7, <3>8
  <2>3. P(n + 1)
    BY <2>2
  <2> HIDE DEF P
  <2> QED BY <2>3
<1> HIDE DEF P
<1>3. Nat \subseteq N
  BY <1>1, <1>2, SetInduction
<1>4. \A n \in Nat : P(n)
  BY <1>3
<1> QED BY <1>4 DEF P

IsArranged(q, S, R) ==
  /\ q \in [1 .. Cardinality(S) -> S] /\ ToSet(q) = S
  /\ \A m, n \in DOMAIN q : m < n => <<q[m], q[n]>> \in R

LEMMA ArrangementExists ==
  ASSUME NEW R
  PROVE  \A n \in Nat : \A S : IsFiniteSet(S) /\ Cardinality(S) = n /\ Orders(R, S)
            => \E q : IsArranged(q, S, R)
<1> DEFINE P(n) == \A S : IsFiniteSet(S) /\ Cardinality(S) = n /\ Orders(R, S) => \E q : IsArranged(q, S, R)
           N == {n \in Nat : P(n)}
<1>1. 0 \in N
  <2>1. ASSUME NEW S, IsFiniteSet(S), Cardinality(S) = 0
        PROVE  \E q : IsArranged(q, S, R)
    <3> DEFINE q == [k \in 1 .. Cardinality(S) |-> k]
    <3>1. S = {} /\ 1 .. Cardinality(S) = {}
      BY <2>1, FS_EmptySet
    <3>2. IsArranged(q, S, R)
      BY <3>1 DEF IsArranged, ToSet
    <3> QED BY <3>2
  <2>2. P(0)
    BY <2>1
  <2> HIDE DEF P
  <2> QED BY <2>2
<1>2. ASSUME NEW n \in Nat, n \in N PROVE n + 1 \in N
  <2>1. P(n)
    BY <1>2
  <2>2. ASSUME NEW S, IsFiniteSet(S), Cardinality(S) = n + 1, Orders(R, S)
        PROVE  \E q : IsArranged(q, S, R)
    <3>1. PICK m \in S : \A x \in S \ {m} : <<m, x>> \in R
      BY <2>2, FirstExists
    <3> DEFINE T == S \ {m}
    <3>2. IsFiniteSet(T) /\ Cardinality(T) = n
      BY <2>2, FS_RemoveElement
    <3>3. Orders(R, T)
      BY <2>2, OrdersPart
    <3>4. PICK p : IsArranged(p, T, R)
      BY <2>1, <3>2, <3>3
    <3> DEFINE q == [k \in 1 .. n + 1 |-> IF k = 1 THEN m ELSE p[k - 1]]
    <3>5. /\ p \in [1 .. n -> T] /\ {p[k] : k \in 1 .. n} = T
          /\ \A i, j \in 1 .. n : i < j => <<p[i], p[j]>> \in R
      BY <3>2, <3>4 DEF IsArranged, ToSet
    <3>6. /\ q[1] = m
          /\ \A k \in 1 .. n + 1 : k # 1 => k - 1 \in 1 .. n /\ q[k] = p[k - 1]
          /\ \A k \in 1 .. n : k + 1 \in 1 .. n + 1 /\ q[k + 1] = p[k]
      OBVIOUS
    <3>7. q \in [1 .. n + 1 -> S] /\ DOMAIN q = 1 .. n + 1
      BY <3>5
    <3> HIDE DEF q
    <3>8. ToSet(q) = S
      <4>1. \A x \in T : \E k \in 1 .. n + 1 : q[k] = x
        BY <3>5, <3>6
      <4>2. 1 \in 1 .. n + 1
        OBVIOUS
      <4>3. \A x \in S : \E k \in 1 .. n + 1 : q[k] = x
        BY <3>6, <4>1, <4>2
      <4>4. \A k \in 1 .. n + 1 : q[k] \in S
        BY <3>7
      <4> QED BY <3>7, <4>3, <4>4 DEF ToSet
    <3>9. ASSUME NEW i \in 1 .. n + 1, NEW j \in 1 .. n + 1, i < j
          PROVE  <<q[i], q[j]>> \in R
      <4>1. j # 1 /\ q[j] = p[j - 1] /\ j - 1 \in 1 .. n
        BY <3>6, <3>9
      <4>2. CASE i = 1
        <5>1. p[j - 1] \in T
          BY <3>5, <4>1
        <5> QED BY <3>1, <3>6, <4>1, <4>2, <5>1
      <4>3. CASE i # 1
        <5>1. q[i] = p[i - 1] /\ i - 1 \in 1 .. n /\ i - 1 < j - 1
          BY <3>6, <3>9, <4>3
        <5> QED BY <3>5, <4>1, <5>1
      <4> QED BY <4>2, <4>3
    <3>10. IsArranged(q, S, R)
      BY <2>2, <3>7, <3>8, <3>9 DEF IsArranged
    <3> QED BY <3>10
  <2>3. P(n + 1)
    BY <2>2
  <2> HIDE DEF P
  <2> QED BY <2>3
<1> HIDE DEF P
<1>3. Nat \subseteq N
  BY <1>1, <1>2, SetInduction
<1>4. \A n \in Nat : P(n)
  BY <1>3
<1> QED BY <1>4 DEF P

\* A finite set arranged by such an order: every member once, in order.
LEMMA ArrangedIs ==
  ASSUME NEW R, NEW S, IsFiniteSet(S), Orders(R, S)
  PROVE  LET q == Arranged(S, R)
             n == Cardinality(S)
         IN /\ n \in Nat /\ q \in [1 .. n -> S] /\ ToSet(q) = S /\ IsInjective(q)
            /\ \A i, j \in 1 .. n : i < j => <<q[i], q[j]>> \in R
<1> DEFINE q == Arranged(S, R)
           n == Cardinality(S)
<1>1. n \in Nat
  BY FS_CardinalityType
<1>2. \E p : IsArranged(p, S, R)
  BY <1>1, ArrangementExists
<1>3. q = CHOOSE p \in [1 .. n -> S] :
            ToSet(p) = S /\ \A i, j \in DOMAIN p : i < j => <<p[i], p[j]>> \in R
  BY DEF Arranged
<1>4. IsArranged(q, S, R)
  BY <1>2, <1>3 DEF IsArranged
<1> HIDE DEF q, n
<1>5. /\ q \in [1 .. n -> S] /\ ToSet(q) = S
      /\ \A i, j \in 1 .. n : i < j => <<q[i], q[j]>> \in R
  BY <1>4 DEF IsArranged, n
<1>6. IsInjective(q)
  <2>1. SUFFICES ASSUME NEW i \in 1 .. n, NEW j \in 1 .. n, q[i] = q[j], i # j PROVE FALSE
    BY <1>5 DEF IsInjective
  <2>2. i < j \/ j < i
    BY <1>1, <2>1
  <2>3. <<q[i], q[i]>> \in R /\ q[i] \in S
    BY <1>5, <2>1, <2>2
  <2> QED BY <2>3 DEF Orders
<1> QED BY <1>1, <1>5, <1>6 DEF q, n

LEMMA AscendingIs ==
  ASSUME NEW S, IsFiniteSet(S), S \subseteq Nat
  PROVE  LET q == Ascending(S)
             n == Cardinality(S)
         IN /\ n \in Nat /\ q \in [1 .. n -> S] /\ ToSet(q) = S /\ IsInjective(q)
<1> DEFINE R == {p \in S \X S : p[1] < p[2]}
<1>1. \A x, y \in S : <<x, y>> \in R <=> x < y
  OBVIOUS
<1>2. \A x \in S : x \in Nat
  OBVIOUS
<1>3. Ascending(S) = Arranged(S, R)
  BY DEF Ascending
<1> HIDE DEF R
<1>4. Orders(R, S)
  BY <1>1, <1>2 DEF Orders
<1>5. LET q == Arranged(S, R) n == Cardinality(S)
      IN n \in Nat /\ q \in [1 .. n -> S] /\ ToSet(q) = S /\ IsInjective(q)
  BY <1>4, ArrangedIs
<1> QED BY <1>3, <1>5

\* What is kept of a sequence of different things are different things.
LEMMA KeptIs ==
  ASSUME NEW X, NEW s \in Seq(X), NEW K, K \subseteq 1 .. Len(s)
  PROVE  LET q == Kept(s, K)
         IN /\ q \in Seq(X) /\ Len(q) = Cardinality(K) /\ Cardinality(K) \in Nat
            /\ DOMAIN q = 1 .. Cardinality(K)
            /\ ToSet(q) = {s[k] : k \in K}
            /\ (\A j, k \in K : s[j] = s[k] => j = k) => IsInjective(q)
<1> DEFINE q == Kept(s, K)
           f == Ascending(K)
           n == Cardinality(K)
<1>1. IsFiniteSet(K) /\ K \subseteq Nat /\ \A k \in K : s[k] \in X
  <2>1. Len(s) \in Nat
    BY LenProperties
  <2>2. IsFiniteSet(1 .. Len(s))
    BY <2>1, FS_Interval
  <2>3. \A k \in 1 .. Len(s) : k \in Nat /\ s[k] \in X
    BY <2>1, ElementOfSeq
  <2> QED BY <2>2, <2>3, FS_Subset
<1>2. n \in Nat /\ f \in [1 .. n -> K] /\ ToSet(f) = K /\ IsInjective(f)
  BY <1>1, AscendingIs
<1>3. q = [k \in 1 .. n |-> s[f[k]]]
  BY <1>2 DEF Kept
<1> HIDE DEF q, f, n
<1>4. q \in [1 .. n -> X]
  BY <1>1, <1>2, <1>3
<1>5. q \in Seq(X) /\ Len(q) = n /\ DOMAIN q = 1 .. n
  <2>1. q \in Seq(X)
    BY <1>2, <1>4
  <2>2. DOMAIN q = 1 .. n
    BY <1>4
  <2> QED BY <1>2, <2>1, <2>2, LenProperties, IntervalEnds
<1>6. ToSet(q) = {s[k] : k \in K}
  BY <1>2, <1>3 DEF ToSet
<1>7. ASSUME \A j, k \in K : s[j] = s[k] => j = k PROVE IsInjective(q)
  <2>1. SUFFICES ASSUME NEW i \in 1 .. n, NEW j \in 1 .. n, q[i] = q[j] PROVE i = j
    BY <1>5 DEF IsInjective
  <2>2. f[i] = f[j]
    BY <1>2, <1>3, <1>7, <2>1
  <2> QED BY <1>2, <2>2 DEF IsInjective
<1> QED BY <1>2, <1>5, <1>6, <1>7 DEF q, n

-----------------------------------------------------------------------------
(* What the vector search gives.                                           *)

LEMMA DifferentThings ==
  ASSUME NEW X, NEW q \in Seq(X), IsInjective(q)
  PROVE  IsFiniteSet(ToSet(q)) /\ Cardinality(ToSet(q)) = Len(q)
<1>1. Len(q) \in Nat /\ q \in [1 .. Len(q) -> X] /\ DOMAIN q = 1 .. Len(q)
  BY LenProperties
<1>2. q \in Bijection(1 .. Len(q), ToSet(q))
  BY <1>1 DEF IsInjective, ToSet, Bijection, Injection, Surjection
<1>3. IsFiniteSet(1 .. Len(q)) /\ Cardinality(1 .. Len(q)) = Len(q)
  BY <1>1, FS_Interval
<1> QED BY <1>2, <1>3, FS_Bijection DEF ExistsBijection

\* Different hits of the search, and as many as there are or as are asked for.
IsRanking(r, hits, k) ==
  /\ r \in Seq(ToSet(hits)) /\ IsInjective(r)
  /\ Len(r) <= Len(hits) /\ (Len(r) = Len(hits) \/ Len(r) >= k)

Distinct(hits) == hits \in Seq(ToSet(hits)) /\ IsInjective(hits)

LEMMA LongestIs ==
  ASSUME NEW X, NEW q \in Seq(X), IsInjective(q), NEW n \in Nat
  PROVE  LET l == Longest(q, n)
         IN /\ l \in Seq(X) /\ IsInjective(l)
            /\ Len(l) = IF Len(q) < n THEN Len(q) ELSE n
<1> DEFINE m == IF Len(q) < n THEN Len(q) ELSE n
           l == Longest(q, n)
<1>1. /\ m \in Nat /\ Len(q) \in Nat /\ m <= Len(q) /\ l = SubSeq(q, 1, m)
      /\ DOMAIN q = 1 .. Len(q)
  BY LenProperties DEF Longest
<1> HIDE DEF m, l
<1>2. \A i \in 1 .. m : i \in 1 .. Len(q) /\ q[i] \in X
  BY <1>1, ElementOfSeq
<1>3. l \in Seq(X) /\ Len(l) = IF 1 <= m THEN m - 1 + 1 ELSE 0
  BY <1>1, <1>2, SubSeqProperties
<1>4. \A i \in 1 .. m - 1 + 1 : l[i] = q[1 + i - 1]
  BY <1>1, <1>2, SubSeqProperties
<1>5. Len(l) = m /\ \A i \in 1 .. m : l[i] = q[i]
  BY <1>1, <1>3, <1>4
<1>6. DOMAIN l = 1 .. m
  BY <1>3, <1>5, LenProperties
<1>7. IsInjective(l)
  BY <1>1, <1>2, <1>5, <1>6 DEF IsInjective
<1> QED BY <1>3, <1>5, <1>7 DEF m, l

\* A sequence of positions, each at most once, picks different hits.
LEMMA PickedByPosition ==
  ASSUME NEW hits, Distinct(hits), NEW n \in Nat, NEW p \in [1 .. n -> 1 .. Len(hits)], IsInjective(p)
  PROVE  LET r == [k \in DOMAIN p |-> hits[p[k]]]
         IN r \in Seq(ToSet(hits)) /\ IsInjective(r) /\ Len(r) = n
<1> DEFINE r == [k \in DOMAIN p |-> hits[p[k]]]
<1>1. DOMAIN hits = 1 .. Len(hits)
  BY LenProperties DEF Distinct
<1>2. r \in [1 .. n -> ToSet(hits)] /\ DOMAIN r = 1 .. n
  BY <1>1 DEF ToSet
<1>3. r \in Seq(ToSet(hits))
  BY <1>2
<1>4. Len(r) = n
  BY <1>2, <1>3, LenProperties, IntervalEnds
<1>5. IsInjective(r)
  BY <1>1 DEF Distinct, IsInjective
<1> QED BY <1>3, <1>4, <1>5

Scored(hits) == \A h \in ToSet(hits) : h.score \in Int /\ h.fused \in Int

\* Positions by what stands there, the largest first, equals as they stand.
ByValue(v, n) == {p \in (1 .. n) \X (1 .. n) : v[p[1]] > v[p[2]] \/ (v[p[1]] = v[p[2]] /\ p[1] < p[2])}

LEMMA ByValueOrders ==
  ASSUME NEW n \in Nat, NEW v \in [1 .. n -> Int]
  PROVE  Orders(ByValue(v, n), 1 .. n)
<1> DEFINE R == ByValue(v, n)
<1>1. \A i, j \in 1 .. n : <<i, j>> \in R <=> v[i] > v[j] \/ (v[i] = v[j] /\ i < j)
  BY DEF ByValue
<1> HIDE DEF R
<1>2. \A i \in 1 .. n : v[i] \in Int /\ i \in Int
  OBVIOUS
<1>3. ASSUME NEW i \in 1 .. n, NEW j \in 1 .. n, NEW l \in 1 .. n, <<i, j>> \in R, <<j, l>> \in R
      PROVE  <<i, l>> \in R
  <2>1. v[i] \in Int /\ v[j] \in Int /\ v[l] \in Int /\ i \in Int /\ j \in Int /\ l \in Int
    BY <1>2
  <2>2. (v[i] > v[j] \/ (v[i] = v[j] /\ i < j)) /\ (v[j] > v[l] \/ (v[j] = v[l] /\ j < l))
    BY <1>1, <1>3
  <2>3. v[i] > v[l] \/ (v[i] = v[l] /\ i < l)
    BY <2>1, <2>2
  <2> QED BY <1>1, <2>3
<1>4. \A i \in 1 .. n : <<i, i>> \notin R
  BY <1>1, <1>2
<1>5. ASSUME NEW i \in 1 .. n, NEW j \in 1 .. n, i # j PROVE <<i, j>> \in R \/ <<j, i>> \in R
  <2>1. v[i] \in Int /\ v[j] \in Int /\ i \in Int /\ j \in Int
    BY <1>2
  <2>2. (v[i] > v[j] \/ (v[i] = v[j] /\ i < j)) \/ (v[j] > v[i] \/ (v[j] = v[i] /\ j < i))
    BY <1>5, <2>1
  <2> QED BY <1>1, <2>2
<1> QED BY <1>3, <1>4, <1>5 DEF Orders, R

LEMMA LexicalIs ==
  ASSUME NEW hits, Distinct(hits), Scored(hits), hits # <<>>, NEW k
  PROVE  IsRanking(LexicalRerank(hits), hits, k)
<1> DEFINE n == Len(hits)
           places == DOMAIN hits
           v == [h \in places |-> hits[h].fused]
           before == {p \in places \X places :
                        \/ hits[p[1]].fused > hits[p[2]].fused
                        \/ hits[p[1]].fused = hits[p[2]].fused /\ p[1] < p[2]}
           order == Arranged(places, before)
<1>1. n \in Nat /\ n # 0 /\ places = 1 .. n /\ \A i \in 1 .. n : hits[i] \in ToSet(hits)
  <2>1. n \in Nat /\ n # 0 /\ places = 1 .. n
    BY LenProperties, EmptySeq DEF Distinct
  <2> QED BY <2>1 DEF ToSet
<1>2. \A i \in 1 .. n : hits[i].fused \in Int
  BY <1>1 DEF Scored
<1>3. LexicalRerank(hits) = [j \in DOMAIN order |-> hits[order[j]]]
  BY DEF LexicalRerank
<1>4. v \in [1 .. n -> Int] /\ \A i \in 1 .. n : v[i] = hits[i].fused
  BY <1>1, <1>2
<1> HIDE DEF v
<1>5. before = ByValue(v, n)
  BY <1>1, <1>4 DEF ByValue
<1> HIDE DEF before, n, places, order
<1>6. Orders(before, places)
  BY <1>1, <1>4, <1>5, ByValueOrders
<1>7. IsFiniteSet(places) /\ Cardinality(places) = n
  <2>1. IsFiniteSet(1 .. n) /\ Cardinality(1 .. n) = IF 1 > n THEN 0 ELSE n - 1 + 1
    BY <1>1, FS_Interval
  <2> QED BY <1>1, <2>1
<1>8. order \in [1 .. n -> places] /\ IsInjective(order)
  BY <1>6, <1>7, ArrangedIs DEF order
<1>9. order \in [1 .. n -> 1 .. Len(hits)]
  BY <1>1, <1>8 DEF n
<1> DEFINE r == [j \in DOMAIN order |-> hits[order[j]]]
<1>10. r \in Seq(ToSet(hits)) /\ IsInjective(r) /\ Len(r) = n
  BY <1>1, <1>8, <1>9, PickedByPosition
<1> HIDE DEF r
<1>11. LexicalRerank(hits) = r
  BY <1>3 DEF r
<1> QED BY <1>1, <1>10, <1>11 DEF IsRanking, n

\* Different things after different others are all different.
LEMMA JoinedDifferent ==
  ASSUME NEW X, NEW s \in Seq(X), NEW t \in Seq(X), IsInjective(s), IsInjective(t),
         ToSet(s) \cap ToSet(t) = {}
  PROVE  s \o t \in Seq(X) /\ ToSet(s \o t) = ToSet(s) \cup ToSet(t) /\ IsInjective(s \o t)
<1> DEFINE q == s \o t
<1>1. PICK m \in Nat, n \in Nat : m = Len(s) /\ n = Len(t)
  BY LenProperties
<1>2. /\ q \in Seq(X) /\ Len(q) = m + n
      /\ \A i \in 1 .. m + n : q[i] = IF i <= m THEN s[i] ELSE t[i - m]
  BY <1>1, ConcatProperties
<1>3. DOMAIN q = 1 .. m + n /\ DOMAIN s = 1 .. m /\ DOMAIN t = 1 .. n
  BY <1>1, <1>2, LenProperties
<1> HIDE DEF q
<1>4. /\ ToSet(s) = {s[i] : i \in 1 .. m} /\ ToSet(t) = {t[i] : i \in 1 .. n}
      /\ ToSet(q) = {q[i] : i \in 1 .. m + n}
  BY <1>3 DEF ToSet
<1>5. /\ \A i \in 1 .. m : i \in 1 .. m + n /\ q[i] = s[i]
      /\ \A i \in 1 .. n : m + i \in 1 .. m + n /\ q[m + i] = t[i]
  BY <1>2
<1>6. ASSUME NEW i \in 1 .. m + n
      PROVE  (i \in 1 .. m /\ q[i] = s[i]) \/ (i - m \in 1 .. n /\ q[i] = t[i - m])
  <2>1. q[i] = IF i <= m THEN s[i] ELSE t[i - m]
    BY <1>2
  <2>2. i <= m => i \in 1 .. m
    BY <1>1
  <2>3. ~(i <= m) => i - m \in 1 .. n
    BY <1>1
  <2> QED BY <2>1, <2>2, <2>3
<1>7. ToSet(q) = ToSet(s) \cup ToSet(t)
  <2>1. ToSet(q) \subseteq ToSet(s) \cup ToSet(t)
    BY <1>4, <1>6
  <2>2. ToSet(s) \subseteq ToSet(q)
    BY <1>4, <1>5
  <2>3. ToSet(t) \subseteq ToSet(q)
    BY <1>4, <1>5
  <2> QED BY <2>1, <2>2, <2>3
<1>8. ASSUME NEW i \in 1 .. m + n, NEW j \in 1 .. m + n, q[i] = q[j] PROVE i = j
  <2>1. CASE i \in 1 .. m /\ q[i] = s[i] /\ j \in 1 .. m /\ q[j] = s[j]
    BY <1>3, <1>8, <2>1 DEF IsInjective
  <2>2. CASE i - m \in 1 .. n /\ q[i] = t[i - m] /\ j - m \in 1 .. n /\ q[j] = t[j - m]
    <3>1. i - m = j - m
      BY <1>3, <1>8, <2>2 DEF IsInjective
    <3> QED BY <3>1
  <2>3. CASE i \in 1 .. m /\ q[i] = s[i] /\ j - m \in 1 .. n /\ q[j] = t[j - m]
    BY <1>4, <1>8, <2>3
  <2>4. CASE i - m \in 1 .. n /\ q[i] = t[i - m] /\ j \in 1 .. m /\ q[j] = s[j]
    BY <1>4, <1>8, <2>4
  <2> QED BY <1>6, <2>1, <2>2, <2>3, <2>4
<1> QED BY <1>2, <1>3, <1>7, <1>8 DEF q, IsInjective

LEMMA LlmIs ==
  ASSUME NEW hits, Distinct(hits), NEW ids \in Seq(Int), NEW topK \in Nat
  PROVE  IsRanking(LlmRerank(hits, ids, topK), hits, topK)
<1> DEFINE n == Len(hits)
           D == DOMAIN hits
           F == FirstNamed(hits, ids)
           named == Kept(ids, F)
           U == D \ ToSet(ids)
           rest == Ascending(U)
           order == named \o rest
<1>1. n \in Nat /\ D = 1 .. n /\ IsFiniteSet(D) /\ Cardinality(D) = n
  <2>1. n \in Nat /\ D = 1 .. n
    BY LenProperties DEF Distinct
  <2> HIDE DEF n, D
  <2>2. IsFiniteSet(1 .. n) /\ Cardinality(1 .. n) = IF 1 > n THEN 0 ELSE n - 1 + 1
    BY <2>1, FS_Interval
  <2> QED BY <2>1, <2>2
<1>2. Len(ids) \in Nat /\ DOMAIN ids = 1 .. Len(ids) /\ \A r \in 1 .. Len(ids) : ids[r] \in Int
  BY LenProperties, ElementOfSeq
<1>3. F = {r \in 1 .. Len(ids) : ids[r] \in D /\ \A s \in 1 .. r - 1 : ids[s] # ids[r]}
  BY <1>2 DEF FirstNamed
<1>4. LlmRerank(hits, ids, topK) = Longest([k \in DOMAIN order |-> hits[order[k]]], topK)
  BY DEF LlmRerank
<1> HIDE DEF F
<1>5. \A j, k \in F : ids[j] = ids[k] => j = k
  <2> SUFFICES ASSUME NEW j \in F, NEW k \in F, ids[j] = ids[k], j # k PROVE FALSE
    OBVIOUS
  <2>1. j \in 1 .. k - 1 \/ k \in 1 .. j - 1
    BY <1>2, <1>3
  <2> QED BY <1>3, <2>1
<1>6. {ids[r] : r \in F} = D \cap ToSet(ids)
  <2>1. ASSUME NEW h \in D, h \in ToSet(ids) PROVE \E r \in F : ids[r] = h
    <3> DEFINE P == {r \in 1 .. Len(ids) : ids[r] = h}
    <3>1. P \subseteq Nat /\ P # {}
      BY <1>2, <2>1 DEF ToSet
    <3>2. PICK r \in P : \A s \in P : r <= s
      BY <3>1, LeastOf
    <3>3. \A s \in 1 .. r - 1 : ids[s] # ids[r]
      <4> SUFFICES ASSUME NEW s \in 1 .. r - 1, ids[s] = ids[r] PROVE FALSE
        OBVIOUS
      <4>1. s \in 1 .. Len(ids) /\ ~(r <= s)
        BY <1>2, <3>2
      <4> QED BY <3>2, <4>1
    <3> QED BY <1>3, <2>1, <3>2, <3>3
  <2>2. ASSUME NEW r \in F PROVE ids[r] \in D /\ ids[r] \in ToSet(ids)
    BY <1>2, <1>3 DEF ToSet
  <2> QED BY <2>1, <2>2
<1>7. /\ named \in Seq(Int) /\ ToSet(named) = D \cap ToSet(ids) /\ IsInjective(named)
      /\ DOMAIN named = 1 .. Len(named) /\ Len(named) \in Nat
  <2>1. F \subseteq 1 .. Len(ids)
    BY <1>3
  <2>2. /\ named \in Seq(Int) /\ ToSet(named) = {ids[r] : r \in F}
        /\ (\A j, k \in F : ids[j] = ids[k] => j = k) => IsInjective(named)
    BY <2>1, KeptIs
  <2>3. IsInjective(named)
    BY <1>5, <2>2
  <2> HIDE DEF D, named
  <2> QED BY <1>6, <2>2, <2>3, LenProperties
<1>8. rest \in Seq(Int) /\ ToSet(rest) = U /\ IsInjective(rest)
      /\ DOMAIN rest = 1 .. Len(rest) /\ Len(rest) \in Nat
  <2>1. IsFiniteSet(U) /\ U \subseteq Nat
    BY <1>1, FS_Subset
  <2>2. /\ Cardinality(U) \in Nat /\ rest \in [1 .. Cardinality(U) -> U]
        /\ ToSet(rest) = U /\ IsInjective(rest)
    BY <2>1, AscendingIs
  <2> DEFINE m == Cardinality(U)
  <2> HIDE DEF rest, U, m
  <2>3. m \in Nat /\ rest \in [1 .. m -> U]
    BY <2>2 DEF m
  <2>4. rest \in [1 .. m -> Int]
    <3>1. \A u \in U : u \in Int
      BY <2>1
    <3> HIDE DEF U
    <3> QED BY <2>3, <3>1
  <2>5. rest \in Seq(Int)
    BY <2>3, <2>4
  <2> QED BY <2>2, <2>5, LenProperties
<1> HIDE DEF D, U, named, rest, n
<1>9. ToSet(named) \cap ToSet(rest) = {} /\ ToSet(named) \cup ToSet(rest) = D
  BY <1>7, <1>8 DEF U
<1>10. order \in Seq(Int) /\ ToSet(order) = D /\ IsInjective(order)
  <2>1. /\ named \o rest \in Seq(Int) /\ ToSet(named \o rest) = ToSet(named) \cup ToSet(rest)
        /\ IsInjective(named \o rest)
    BY <1>7, <1>8, <1>9, JoinedDifferent, Zenon
  <2> QED BY <1>9, <2>1
<1>11. Len(order) \in Nat /\ DOMAIN order = 1 .. Len(order)
  BY <1>10, LenProperties
<1> HIDE DEF order
<1>12. Len(order) = n
  BY <1>1, <1>10, DifferentThings
<1>13. order \in [1 .. n -> 1 .. Len(hits)]
  <2>1. \A i \in 1 .. n : order[i] \in 1 .. n
    BY <1>1, <1>10, <1>11, <1>12 DEF ToSet
  <2>2. order \in [1 .. n -> Int]
    BY <1>10, <1>12, LenProperties
  <2> QED BY <2>1, <2>2 DEF n
<1> DEFINE r == [k \in DOMAIN order |-> hits[order[k]]]
<1>14. r \in Seq(ToSet(hits)) /\ IsInjective(r) /\ Len(r) = n
  BY <1>1, <1>10, <1>13, PickedByPosition
<1> HIDE DEF r
<1>15. LET l == Longest(r, topK)
       IN l \in Seq(ToSet(hits)) /\ IsInjective(l) /\ Len(l) = IF Len(r) < topK THEN Len(r) ELSE topK
  BY <1>14, LongestIs
<1> QED BY <1>1, <1>4, <1>14, <1>15 DEF IsRanking, r, n

-----------------------------------------------------------------------------
(* Answers.                                                                *)

\* The chunks above the minimum are different ones, and have their scores.
LEMMA AboveMinimumIs ==
  ASSUME NEW hits \in HitLists \cup {<<>>}
  PROVE  LET a == AboveMinimum(hits, MinScore) IN Distinct(a) /\ Scored(a)
<1> DEFINE K == {h \in DOMAIN hits : hits[h].score >= MinScore}
           a == AboveMinimum(hits, MinScore)
<1>1. /\ hits \in Seq(ToSet(hits)) /\ IsInjective(hits)
      /\ \A h \in ToSet(hits) : h.score \in Int /\ h.fused \in Int
  <2>1. CASE hits = <<>>
    <3>1. ToSet(<<>>) = {} /\ IsInjective(<<>>)
      BY EmptySeq DEF ToSet, IsInjective
    <3> QED BY <2>1, <3>1, EmptySeq
  <2> QED BY <2>1, AnswersAssumption
<1>2. DOMAIN hits = 1 .. Len(hits) /\ a = Kept(hits, K)
  BY <1>1, LenProperties DEF AboveMinimum
<1>3. K \subseteq 1 .. Len(hits)
  BY <1>2
<1> HIDE DEF K, a
<1>4. /\ a \in Seq(ToSet(hits)) /\ ToSet(a) = {hits[k] : k \in K}
      /\ (\A j, k \in K : hits[j] = hits[k] => j = k) => IsInjective(a)
  BY <1>1, <1>2, <1>3, KeptIs
<1>5. IsInjective(a)
  BY <1>1, <1>2, <1>3, <1>4 DEF IsInjective
<1>6. Scored(a)
  <2>1. \A k \in K : hits[k] \in ToSet(hits)
    BY <1>2, <1>3 DEF ToSet
  <2> QED BY <1>1, <1>4, <2>1 DEF Scored
<1>7. a \in Seq(ToSet(a))
  BY <1>4, OverItsElements
<1> QED BY <1>5, <1>6, <1>7 DEF Distinct, a

\* However the chunks are ranked without an error, each of them is given once,
\* up to the limit.
LEMMA VectorAnswerIs ==
  ASSUME NEW mode \in {"off", "lexical", "llm"}, NEW hits \in HitLists \cup {<<>>}, NEW reply \in RankReplies,
         ~Raises(mode, AboveMinimum(hits, MinScore), reply)
  PROVE  LET v == VectorAnswer(mode, hits, reply)
             given == v.chunks
             among == ToSet(v.among)
         IN /\ ToSet(given) \subseteq among
            /\ Cardinality(ToSet(given)) = Len(given)
            /\ Len(given) = IF Cardinality(among) < TopK THEN Cardinality(among) ELSE TopK
<1> DEFINE a == AboveMinimum(hits, MinScore)
           r == Rerank(mode, a, reply, TopK)
           l == Longest(r, TopK)
<1>1. Distinct(a) /\ Scored(a)
  BY AboveMinimumIs
<1>2. reply.ids \in Seq(Int) /\ TopK \in Nat
  BY AnswersAssumption, RecordsAssumption
<1> HIDE DEF a
<1>3. IsRanking(r, a, TopK)
  <2>1. CASE a = <<>> \/ mode = "off"
    <3>1. r = a
      BY <2>1 DEF Rerank
    <3>2. Len(a) \in Nat
      BY <1>1, LenProperties DEF Distinct
    <3> HIDE DEF r
    <3> QED BY <1>1, <3>1, <3>2 DEF IsRanking, Distinct
  <2>2. CASE ~(a = <<>> \/ mode = "off") /\ mode = "llm" /\ reply.kind = "ids"
    <3>1. r = LlmRerank(a, reply.ids, TopK)
      BY <2>2 DEF Rerank
    <3> HIDE DEF r
    <3> QED BY <1>1, <1>2, <3>1, LlmIs
  <2>3. CASE ~(a = <<>> \/ mode = "off") /\ ~(mode = "llm" /\ reply.kind = "ids")
    <3>1. r = LexicalRerank(a)
      BY <2>3 DEF Rerank
    <3> HIDE DEF r
    <3> QED BY <1>1, <2>3, <3>1, LexicalIs
  <2> QED BY <2>1, <2>2, <2>3
<1> HIDE DEF r
<1>4. /\ l \in Seq(ToSet(a)) /\ IsInjective(l)
      /\ Len(l) = IF Len(r) < TopK THEN Len(r) ELSE TopK
  BY <1>2, <1>3, LongestIs DEF IsRanking
<1> HIDE DEF l
<1>5. Cardinality(ToSet(l)) = Len(l) /\ Cardinality(ToSet(a)) = Len(a)
  BY <1>1, <1>4, DifferentThings DEF Distinct
<1>6. Len(l) = IF Len(a) < TopK THEN Len(a) ELSE TopK
  <2>1. Len(a) \in Nat /\ Len(r) \in Nat
    BY <1>1, <1>3, LenProperties DEF Distinct, IsRanking
  <2>2. Len(r) <= Len(a) /\ (Len(r) = Len(a) \/ Len(r) >= TopK)
    BY <1>3 DEF IsRanking
  <2> QED BY <1>2, <1>4, <2>1, <2>2
<1>7. ToSet(l) \subseteq ToSet(a)
  BY <1>4, OverItsElements
<1>8. VectorAnswer(mode, hits, reply).chunks = l /\ VectorAnswer(mode, hits, reply).among = a
  BY DEF VectorAnswer, l, r, a
<1> QED BY <1>5, <1>6, <1>7, <1>8

\* The memo's entries are the graphs of their keys, each key once.
MemoInv ==
  /\ memo \in Seq(ToSet(memo)) /\ Len(memo) <= MemoSize
  /\ \A m, n \in 1 .. Len(memo) : memo[m].key = memo[n].key => m = n
  /\ \A e \in ToSet(memo) : e.graph = Graph(e.key[1], e.key[2])

\* The runs' part of the fingerprint is all the graph is built from.
LEMMA FingerprintIs == ASSUME NEW stations PROVE Fingerprint(stations, RunNodes) = <<stations, RunNodes>>
<1> DEFINE F(r) == [id |-> r.id, status |-> r.status, ended |-> r.ended, kpis |-> r.kpis]
<1>1. \A r \in RunNodes : F(r) = r
  BY DEF RunNodes
<1>2. {F(r) : r \in RunNodes} = RunNodes
  <2> HIDE DEF F
  <2> QED BY <1>1
<1> QED BY <1>2 DEF Fingerprint

LEMMA LookupIs ==
  ASSUME MemoInv, NEW stations
  PROVE  LET entry == Lookup(memo, stations, RunNodes)
         IN /\ entry.key = <<stations, RunNodes>>
            /\ entry.graph = Graph(stations, RunNodes)
<1> DEFINE entry == Lookup(memo, stations, RunNodes)
           key == Fingerprint(stations, RunNodes)
           hits == {e \in ToSet(memo) : e.key = key}
<1>1. entry = IF hits = {} THEN [key |-> key, graph |-> Graph(stations, RunNodes)]
              ELSE CHOOSE e \in hits : TRUE
  BY DEF Lookup
<1> HIDE DEF entry
<1>2. key = <<stations, RunNodes>>
  BY FingerprintIs
<1>3. CASE hits = {}
  <2>1. entry = [key |-> key, graph |-> Graph(stations, RunNodes)]
    BY <1>1, <1>3
  <2> QED BY <1>2, <2>1 DEF entry
<1>4. CASE hits # {}
  <2>1. entry \in hits
    BY <1>1, <1>4
  <2>2. \A e \in hits : e.key = key /\ e.graph = Graph(e.key[1], e.key[2])
    BY DEF MemoInv
  <2> HIDE DEF hits, key
  <2>3. entry.key = key /\ entry.graph = Graph(entry.key[1], entry.key[2])
    BY <2>1, <2>2
  <2> QED BY <1>2, <2>3 DEF entry
<1> QED BY <1>3, <1>4

LEMMA TouchKeepsMemo ==
  ASSUME MemoInv, NEW entry, entry.graph = Graph(entry.key[1], entry.key[2]),
         memo' = Touch(memo, entry, MemoSize)
  PROVE  MemoInv'
<1> DEFINE X == ToSet(memo) \cup {entry}
           K == {m \in DOMAIN memo : memo[m].key # entry.key}
           others == Kept(memo, K)
           kept == Append(others, entry)
           first == 1 + (IF Len(kept) > MemoSize THEN Len(kept) - MemoSize ELSE 0)
<1>1. memo \in Seq(ToSet(memo)) /\ DOMAIN memo = 1 .. Len(memo) /\ Len(memo) \in Nat
  BY LenProperties DEF MemoInv
<1>2. memo' = SubSeq(kept, first, Len(kept))
  BY DEF Touch, Others
<1>3. K \subseteq 1 .. Len(memo)
  BY <1>1
<1> HIDE DEF others
<1>4. /\ others \in Seq(ToSet(memo)) /\ ToSet(others) = {memo[k] : k \in K}
      /\ (\A j, k \in K : memo[j] = memo[k] => j = k) => IsInjective(others)
  BY <1>1, <1>3, KeptIs DEF others
<1>5. IsInjective(others)
  <2>1. \A j, k \in K : memo[j] = memo[k] => j = k
    BY <1>3 DEF MemoInv
  <2> QED BY <1>4, <2>1
<1>6. PICK n \in Nat : n = Len(others)
  BY <1>4, LenProperties
<1>7. \A i \in 1 .. n : \E k \in K : others[i] = memo[k]
  <2>1. DOMAIN others = 1 .. n
    BY <1>4, <1>6, LenProperties
  <2> QED BY <1>4, <2>1 DEF ToSet
<1>8. \A i, j \in 1 .. n : others[i].key = others[j].key => i = j
  <2> SUFFICES ASSUME NEW i \in 1 .. n, NEW j \in 1 .. n, others[i].key = others[j].key PROVE i = j
    OBVIOUS
  <2>1. PICK k \in K, l \in K : others[i] = memo[k] /\ others[j] = memo[l]
    BY <1>7
  <2>2. k = l
    BY <1>3, <2>1 DEF MemoInv
  <2>3. DOMAIN others = 1 .. n
    BY <1>4, <1>6, LenProperties
  <2> QED BY <1>5, <2>1, <2>2, <2>3 DEF IsInjective
<1>9. \A i \in 1 .. n : others[i].key # entry.key /\ others[i] \in ToSet(memo)
  <2>1. \A k \in K : memo[k].key # entry.key /\ memo[k] \in ToSet(memo)
    BY <1>1 DEF ToSet
  <2> QED BY <1>7, <2>1
<1>10. others \in Seq(X) /\ entry \in X
  BY <1>4, SeqMonotonic
<1> HIDE DEF kept, X
<1>11. /\ kept \in Seq(X) /\ Len(kept) = n + 1 /\ kept[n + 1] = entry
       /\ \A i \in 1 .. n : kept[i] = others[i]
  BY <1>6, <1>10, AppendProperties DEF kept
<1>12. \A i, j \in 1 .. n + 1 : kept[i].key = kept[j].key => i = j
  <2> SUFFICES ASSUME NEW i \in 1 .. n + 1, NEW j \in 1 .. n + 1, kept[i].key = kept[j].key PROVE i = j
    OBVIOUS
  <2>1. (i \in 1 .. n \/ i = n + 1) /\ (j \in 1 .. n \/ j = n + 1)
    BY <1>6
  <2> QED BY <1>8, <1>9, <1>11, <2>1
<1>13. MemoSize \in Nat \ {0}
  BY RecordsAssumption
<1>14. PICK f \in Nat : f = first /\ f >= 1 /\ n + 1 - f + 1 <= MemoSize /\ f <= n + 1
  <2>1. first \in Nat /\ first >= 1 /\ n + 1 - first + 1 <= MemoSize /\ first <= n + 1
    BY <1>6, <1>11, <1>13
  <2> HIDE DEF first
  <2> QED BY <2>1
<1> HIDE DEF first
<1>15. PICK d \in Nat : d = n + 1 - f + 1
  <2>1. n + 1 - f + 1 \in Nat
    BY <1>6, <1>14
  <2> QED BY <2>1
<1>16. \A i \in f .. n + 1 : kept[i] \in X
  <2>1. \A i \in f .. n + 1 : i \in 1 .. Len(kept)
    BY <1>6, <1>11, <1>14
  <2> QED BY <1>11, <2>1, ElementOfSeq
<1>17. /\ memo' \in Seq(X) /\ Len(memo') = d
       /\ \A i \in 1 .. d : memo'[i] = kept[f + i - 1]
  <2>1. f \in Int /\ n + 1 \in Int /\ memo' = SubSeq(kept, f, n + 1)
    BY <1>2, <1>6, <1>11, <1>14
  <2>2. /\ SubSeq(kept, f, n + 1) \in Seq(X)
        /\ Len(SubSeq(kept, f, n + 1)) = IF f <= n + 1 THEN n + 1 - f + 1 ELSE 0
        /\ \A i \in 1 .. n + 1 - f + 1 : SubSeq(kept, f, n + 1)[i] = kept[f + i - 1]
    BY <1>16, <2>1, SubSeqProperties
  <2> QED BY <1>14, <1>15, <2>1, <2>2
<1>18. \A i \in 1 .. d : f + i - 1 \in 1 .. n + 1
  BY <1>6, <1>14, <1>15
<1>19. memo' \in Seq(ToSet(memo')) /\ Len(memo') <= MemoSize
  BY <1>14, <1>15, <1>17, OverItsElements
<1>20. ASSUME NEW i \in 1 .. d, NEW j \in 1 .. d, memo'[i].key = memo'[j].key PROVE i = j
  <2>1. kept[f + i - 1].key = kept[f + j - 1].key
    BY <1>17, <1>20
  <2>2. f + i - 1 = f + j - 1
    BY <1>12, <1>18, <2>1
  <2> QED BY <1>14, <2>2
<1>21. ASSUME NEW e \in ToSet(memo') PROVE e.graph = Graph(e.key[1], e.key[2])
  <2>1. ToSet(memo') \subseteq X
    BY <1>17, OverItsElements
  <2>2. e = entry \/ e \in ToSet(memo)
    BY <1>21, <2>1 DEF X
  <2> QED BY <2>2 DEF MemoInv
<1> QED BY <1>17, <1>19, <1>20, <1>21 DEF MemoInv

-----------------------------------------------------------------------------
(* Types, over either repository.                                          *)

\* The rows, and what they say of each other.  In memory the content of a run
\* that is gone is still what a later write starts from.
RowTypes ==
  /\ made = [session |-> made.session, scenario |-> made.scenario, run |-> made.run]
  /\ made.session \in Nat /\ made.scenario \in Nat /\ made.run \in 0 .. MaxRuns
  /\ sessions \subseteq 1 .. made.session
  /\ scenarios \subseteq 1 .. made.scenario
  /\ runs \subseteq 1 .. made.run
  /\ messages \in [1 .. MaxSessions -> Nat] /\ commands \in [1 .. MaxSessions -> Nat]
  /\ row = [r \in 1 .. MaxRuns |-> row[r]]
  /\ \A r \in 1 .. MaxRuns : IsRow(row[r])
  /\ \A r \in 1 .. made.run :
        backend = "memory" \/ r \in runs => row[r].scenario \in 1 .. made.scenario
  /\ backend = "postgres" => \A r \in 1 .. MaxRuns \ runs : row[r] = NoRow
  /\ backend \in {"memory", "postgres"}

\* A request names rows that were there once.
Named(q, given) ==
  /\ IsRequest(q) /\ IsRow(q.held)
  /\ q.op = "scenario" => q.id \in 1 .. given.scenario
  /\ q.op \in RunOps => q.id \in 1 .. given.run /\ q.held.scenario \in 1 .. given.scenario

RequestTypes ==
  /\ request = [i \in Slots |-> request[i]]
  /\ \A i \in Slots : Named(request[i], made)

TypeInv == RowTypes /\ RequestTypes

LEMMA OpenNames ==
  ASSUME NEW op, NEW pc, NEW id, op # "scenario" \/ id \in 1 .. made.scenario, op \notin RunOps
  PROVE  Named(Open(op, pc, id), made)
BY OpenFields, Nothing DEF Named

LEMMA NobodyNames == Named(Nobody, made)
BY Nothing DEF Named, RunOps

\* Ids are only ever added.
LEMMA OneRequestNamed ==
  ASSUME RequestTypes, NEW i \in Slots, NEW q, Named(q, made'),
         1 .. made.scenario \subseteq 1 .. made'.scenario, 1 .. made.run \subseteq 1 .. made'.run,
         request' = [request EXCEPT ![i] = q]
  PROVE  RequestTypes'
<1>1. /\ request' = [j \in Slots |-> request'[j]] /\ request'[i] = q
      /\ \A j \in Slots : j # i => request'[j] = request[j]
  BY DEF RequestTypes
<1>2. ASSUME NEW p, Named(p, made) PROVE Named(p, made')
  BY <1>2 DEF Named
<1>3. \A j \in Slots : Named(request[j], made)
  BY DEF RequestTypes
<1>4. \A j \in Slots : Named(request'[j], made')
  BY <1>1, <1>2, <1>3
<1> QED BY <1>1, <1>4 DEF RequestTypes

\* A step that gives one request no row, or the same, and writes nothing.
LEMMA OneRequestOnly ==
  ASSUME TypeInv, NEW i \in Slots, NEW q, Named(q, made),
         request' = [request EXCEPT ![i] = q], UNCHANGED <<backend, tables>>
  PROVE  TypeInv'
<1>1. UNCHANGED <<sessions, scenarios, runs, made, messages, commands, row>>
  BY DEF tables
<1>2. RowTypes'
  BY <1>1 DEF TypeInv, RowTypes, IsRow
<1>3. Named(q, made')
  BY <1>1 DEF Named
<1>4. RequestTypes'
  BY <1>1, <1>3, OneRequestNamed DEF TypeInv
<1> QED BY <1>2, <1>4 DEF TypeInv

LEMMA RespondNobody ==
  ASSUME NEW i \in Slots, Respond(i) \/ (\E about : Arrives(i, about, Nobody))
  PROVE  request' = [request EXCEPT ![i] = Nobody]
BY DEF Respond, Arrives

LEMMA GotoNamed ==
  ASSUME TypeInv, NEW i \in Slots, NEW pc, Goto(i, pc)
  PROVE  \E q : Named(q, made) /\ request' = [request EXCEPT ![i] = q]
<1> DEFINE o == request[i]
           q == [o EXCEPT !.pc = pc]
<1>1. Named(o, made) /\ request' = [request EXCEPT ![i] = q]
  BY DEF TypeInv, RequestTypes, Goto
<1>2. Named(q, made)
  <2> HIDE DEF o
  <2> QED BY <1>1 DEF Named, IsRequest
<1> QED BY <1>1, <1>2

LEMMA NobodyLeft ==
  ASSUME RequestTypes, NEW i \in Slots, request' = [request EXCEPT ![i] = Nobody],
         1 .. made.scenario \subseteq 1 .. made'.scenario, 1 .. made.run \subseteq 1 .. made'.run
  PROVE  RequestTypes'
<1>1. Named(Nobody, made')
  BY Nothing DEF Named, RunOps
<1> QED BY <1>1, OneRequestNamed

LEMMA TypesOfSessions ==
  ASSUME TypeInv, NEW i \in Slots, backend' = backend,
         \/ CreateSession(i) \/ PostMessage(i) \/ AddMessage(i) \/ SaveCommand(i)
         \/ RequireSession(i) \/ DeleteCommands(i) \/ DeleteSession(i)
  PROVE  TypeInv'
<1>1. UNCHANGED <<scenarios, runs, row>> /\ made'.scenario = made.scenario /\ made'.run = made.run
  <2>1. \/ UNCHANGED <<made, scenarios, runs, row>>
        \/ InsertSession /\ UNCHANGED <<scenarios, runs, row>>
    BY DEF CreateSession, PostMessage, AddMessage, SaveCommand, RequireSession, DeleteCommands,
       DeleteSession, tables
  <2>2. CASE InsertSession
    BY <2>1, <2>2 DEF InsertSession, TypeInv, RowTypes
  <2> QED BY <2>1, <2>2
<1>2. /\ made' = [session |-> made'.session, scenario |-> made'.scenario, run |-> made'.run]
      /\ made'.session \in Nat /\ sessions' \subseteq 1 .. made'.session
  <2>1. (UNCHANGED made /\ sessions' \subseteq sessions) \/ InsertSession
    BY DEF CreateSession, PostMessage, AddMessage, SaveCommand, RequireSession, DeleteCommands,
       DeleteSession, tables
  <2>2. CASE InsertSession
    <3>1. made' = [session |-> made.session + 1, scenario |-> made.scenario, run |-> made.run]
      BY <2>2 DEF InsertSession, TypeInv, RowTypes
    <3>2. sessions' = sessions \cup {made.session + 1} /\ made.session \in Nat
          /\ sessions \subseteq 1 .. made.session
      BY <2>2 DEF InsertSession, TypeInv, RowTypes
    <3>3. PICK n \in Nat : n = made.session
      BY <3>2
    <3>4. made'.session = n + 1 /\ n + 1 \in Nat /\ 1 .. n \subseteq 1 .. n + 1 /\ n + 1 \in 1 .. n + 1
      BY <3>1, <3>3
    <3> QED BY <3>1, <3>2, <3>3, <3>4
  <2> QED BY <2>1, <2>2 DEF TypeInv, RowTypes
<1>3. messages' \in [1 .. MaxSessions -> Nat] /\ commands' \in [1 .. MaxSessions -> Nat]
  <2>1. messages \in [1 .. MaxSessions -> Nat] /\ commands \in [1 .. MaxSessions -> Nat]
    BY DEF TypeInv, RowTypes
  <2> DEFINE s == request[i].id
  <2>2. /\ \/ messages' = messages
           \/ messages' = [messages EXCEPT ![s] = @ + 1]
           \/ messages' = [messages EXCEPT ![s] = 0]
        /\ \/ commands' = commands
           \/ commands' = [commands EXCEPT ![s] = @ + 1]
           \/ commands' = [commands EXCEPT ![s] = 0]
    BY DEF CreateSession, PostMessage, AddMessage, SaveCommand, RequireSession, DeleteCommands,
       DeleteSession, tables
  <2> HIDE DEF s
  <2>3. messages' \in [1 .. MaxSessions -> Nat]
    BY <2>1, <2>2, StillCounts
  <2>4. commands' \in [1 .. MaxSessions -> Nat]
    BY <2>1, <2>2, StillCounts
  <2> QED BY <2>3, <2>4
<1>4. RowTypes'
  BY <1>1, <1>2, <1>3 DEF TypeInv, RowTypes, IsRow
<1>5. PICK q : Named(q, made) /\ request' = [request EXCEPT ![i] = q]
  <2>1. CASE CreateSession(i) \/ DeleteSession(i)
    BY <2>1, RespondNobody, NobodyNames DEF CreateSession, DeleteSession
  <2>2. CASE PostMessage(i)
    <3>1. \A s : Named(Open("post", "asked", s), made)
      BY OpenNames DEF RunOps
    <3>2. request' = [request EXCEPT ![i] = Open("post", "asked", made.session + 1)]
          \/ (\E s : request' = [request EXCEPT ![i] =
                       IF s \in sessions THEN Open("post", "asked", s) ELSE Nobody])
      BY <2>2 DEF PostMessage, Arrives
    <3> QED BY <3>1, <3>2, NobodyNames
  <2>3. CASE AddMessage(i) \/ SaveCommand(i)
    <3>1. Respond(i) \/ \E pc : Goto(i, pc)
      BY <2>3 DEF AddMessage, SaveCommand
    <3> QED BY <3>1, GotoNamed, RespondNobody, NobodyNames
  <2>4. CASE RequireSession(i)
    <3>1. \A s : Named(Open("close", "cascade", s), made)
      BY OpenNames DEF RunOps
    <3>2. \E s : request' = [request EXCEPT ![i] =
                   IF s \in sessions THEN Open("close", "cascade", s) ELSE Nobody]
      BY <2>4 DEF RequireSession, Arrives
    <3> QED BY <3>1, <3>2, NobodyNames
  <2>5. CASE DeleteCommands(i)
    <3> DEFINE o == request[i]
               q == [o EXCEPT !.pc = "drop", !.arg = commands[o.id]]
    <3>1. Named(o, made) /\ request' = [request EXCEPT ![i] = q]
      BY <2>5 DEF DeleteCommands, TypeInv, RequestTypes
    <3>2. Named(q, made)
      <4> HIDE DEF o
      <4> QED BY <3>1 DEF Named, IsRequest
    <3> QED BY <3>1, <3>2
  <2> QED BY <2>1, <2>2, <2>3, <2>4, <2>5
<1>6. Named(q, made')
  BY <1>1, <1>5 DEF Named
<1>7. RequestTypes'
  BY <1>1, <1>5, <1>6, OneRequestNamed DEF TypeInv
<1> QED BY <1>4, <1>7 DEF TypeInv

LEMMA TypesOfScenarios ==
  ASSUME TypeInv, NEW i \in Slots, backend' = backend,
         \/ ListSimulations(i) \/ CreateBaseline(i) \/ CreateSimulation(i) \/ GetSimulation(i)
         \/ UpdateSimulation(i) \/ DeleteSimulation(i) \/ DuplicateSimulation(i)
  PROVE  TypeInv'
<1>1. CASE CreateBaseline(i) \/ CreateSimulation(i) \/ DuplicateSimulation(i)
  <2>1. /\ request' = [request EXCEPT ![i] = Nobody] /\ InsertScenario
        /\ UNCHANGED <<sessions, runs, messages, commands, row>>
    BY <1>1, RespondNobody DEF CreateBaseline, CreateSimulation, DuplicateSimulation
  <2>2. /\ made' = [session |-> made.session, scenario |-> made.scenario + 1, run |-> made.run]
        /\ scenarios' = scenarios \cup {made.scenario + 1}
        /\ made.scenario \in Nat /\ scenarios \subseteq 1 .. made.scenario
    BY <2>1 DEF InsertScenario, TypeInv, RowTypes
  <2>3. /\ 1 .. made.scenario \subseteq 1 .. made'.scenario /\ made'.run = made.run
        /\ made'.session = made.session /\ made'.scenario \in Nat
        /\ made' = [session |-> made'.session, scenario |-> made'.scenario, run |-> made'.run]
        /\ scenarios' \subseteq 1 .. made'.scenario
    <3>1. PICK n \in Nat : n = made.scenario
      BY <2>2
    <3>2. made'.scenario = n + 1 /\ n + 1 \in Nat /\ 1 .. n \subseteq 1 .. n + 1 /\ n + 1 \in 1 .. n + 1
      BY <2>2, <3>1
    <3> QED BY <2>2, <3>1, <3>2
  <2>4. RowTypes'
    BY <2>1, <2>3 DEF TypeInv, RowTypes, IsRow
  <2>5. RequestTypes'
    BY <2>1, <2>3, NobodyLeft DEF TypeInv
  <2> QED BY <2>4, <2>5 DEF TypeInv
<1>2. CASE ListSimulations(i) \/ GetSimulation(i)
  <2>1. PICK q : Named(q, made) /\ request' = [request EXCEPT ![i] = q]
    <3>1. CASE ListSimulations(i)
      BY <3>1, NobodyNames, OpenNames DEF ListSimulations, Arrives, RunOps
    <3>2. CASE GetSimulation(i)
      <4>1. PICK s \in 1 .. made.scenario, pc \in {"write", "remove", "copy", "insert"} :
              request' = [request EXCEPT ![i] =
                            IF s \in scenarios THEN Open("scenario", pc, s) ELSE Nobody]
        BY <3>2 DEF GetSimulation, Arrives
      <4>2. Named(Open("scenario", pc, s), made)
        BY OpenNames DEF RunOps
      <4> QED BY <4>1, <4>2, NobodyNames
    <3> QED BY <1>2, <3>1, <3>2
  <2>2. UNCHANGED tables
    BY <1>2 DEF ListSimulations, GetSimulation
  <2> QED BY <2>1, <2>2, OneRequestOnly
<1>3. CASE UpdateSimulation(i)
  <2>1. /\ request' = [request EXCEPT ![i] = Nobody] /\ request[i].op = "scenario"
        /\ scenarios' \subseteq scenarios \cup {request[i].id}
        /\ UNCHANGED <<sessions, runs, made, messages, commands, row>>
    BY <1>3, RespondNobody DEF UpdateSimulation, UpdatedScenario, At
  <2>2. request[i].id \in 1 .. made.scenario
    BY <2>1 DEF TypeInv, RequestTypes, Named
  <2>3. RowTypes'
    BY <2>1, <2>2 DEF TypeInv, RowTypes, IsRow
  <2>4. RequestTypes'
    BY <2>1, NobodyLeft DEF TypeInv
  <2> QED BY <2>3, <2>4 DEF TypeInv
<1>4. CASE DeleteSimulation(i)
  <2> DEFINE s == request[i].id
             orphans == {r \in runs : row[r].scenario = s}
  <2>1. /\ request' = [request EXCEPT ![i] = Nobody]
        /\ UNCHANGED <<sessions, made, messages, commands>>
        /\ scenarios' = scenarios \ {s} /\ runs' = runs \ orphans
        /\ row' = IF backend = "postgres"
                  THEN [r \in 1 .. MaxRuns |-> IF r \in orphans THEN NoRow ELSE row[r]] ELSE row
    BY <1>4, RespondNobody DEF DeleteSimulation, DeleteScenario
  <2> HIDE DEF s
  <2>2. /\ made.run \in 0 .. MaxRuns /\ runs \subseteq 1 .. made.run /\ row = [r \in 1 .. MaxRuns |-> row[r]]
        /\ \A r \in 1 .. MaxRuns : IsRow(row[r])
        /\ backend \in {"memory", "postgres"}
    BY DEF TypeInv, RowTypes
  <2>3. orphans \subseteq runs
    OBVIOUS
  <2> HIDE DEF orphans
  <2>4. /\ row' = [r \in 1 .. MaxRuns |-> row'[r]]
        /\ \A r \in 1 .. MaxRuns : row'[r] = IF backend = "postgres" /\ r \in orphans THEN NoRow ELSE row[r]
    BY <2>1, <2>2
  <2>5. \A r \in 1 .. MaxRuns : IsRow(row'[r])
    BY <2>2, <2>4, Nothing
  <2>6. \A r \in 1 .. made.run : r \in 1 .. MaxRuns
    BY <2>2, RecordsAssumption
  <2>7. \A r \in 1 .. made.run : backend = "memory" \/ r \in runs' => row'[r].scenario \in 1 .. made.scenario
    BY <2>1, <2>4, <2>6 DEF TypeInv, RowTypes
  <2>8. backend = "postgres" => \A r \in 1 .. MaxRuns \ runs' : row'[r] = NoRow
    BY <2>1, <2>4 DEF TypeInv, RowTypes
  <2>9. RowTypes'
    BY <2>1, <2>3, <2>4, <2>5, <2>7, <2>8 DEF TypeInv, RowTypes, IsRow
  <2>10. RequestTypes'
    BY <2>1, NobodyLeft DEF TypeInv
  <2> QED BY <2>9, <2>10 DEF TypeInv
<1> QED BY <1>1, <1>2, <1>3, <1>4

\* Whatever is written keeps a scenario there once was.
LEMMA WriteRunTypes ==
  ASSUME TypeInv, backend' = backend, NEW i \in Slots, request[i].op \in RunOps, NEW new, IsRow(new),
         new.scenario \in 1 .. made.scenario, WriteRun(request[i].id, new),
         request' = [request EXCEPT ![i] = Nobody],
         UNCHANGED <<sessions, scenarios, made, messages, commands>>
  PROVE  TypeInv'
<1> DEFINE id == request[i].id
<1>1. id \in 1 .. made.run
  BY DEF TypeInv, RequestTypes, Named
<1>2. /\ made.run \in 0 .. MaxRuns /\ runs \subseteq 1 .. made.run /\ row = [r \in 1 .. MaxRuns |-> row[r]]
      /\ \A r \in 1 .. MaxRuns : IsRow(row[r])
      /\ \A r \in 1 .. made.run :
            backend = "memory" \/ r \in runs => row[r].scenario \in 1 .. made.scenario
      /\ backend = "postgres" => \A r \in 1 .. MaxRuns \ runs : row[r] = NoRow
  BY DEF TypeInv, RowTypes
<1>3. \/ runs' = runs /\ row' = row
      \/ runs' = runs \cup {id} /\ row' = [row EXCEPT ![id] = new]
  BY DEF WriteRun
<1> HIDE DEF id
<1>4. runs' \subseteq 1 .. made.run /\ runs \subseteq runs'
  BY <1>1, <1>2, <1>3
<1>5. /\ row' = [r \in 1 .. MaxRuns |-> row'[r]]
      /\ \A r \in 1 .. MaxRuns : \/ row'[r] = row[r] /\ (r \in runs' => r \in runs)
                                 \/ row'[r] = new /\ r \in runs'
  BY <1>1, <1>2, <1>3
<1>6. \A r \in 1 .. made.run : r \in 1 .. MaxRuns
  BY <1>2, RecordsAssumption
<1>7. \A r \in 1 .. MaxRuns : IsRow(row'[r])
  BY <1>2, <1>5
<1>8. \A r \in 1 .. made.run : backend = "memory" \/ r \in runs' => row'[r].scenario \in 1 .. made.scenario
  BY <1>2, <1>5, <1>6
<1>9. backend = "postgres" => \A r \in 1 .. MaxRuns \ runs' : row'[r] = NoRow
  BY <1>2, <1>4, <1>5
<1>10. RowTypes'
  BY <1>4, <1>5, <1>7, <1>8, <1>9 DEF TypeInv, RowTypes, IsRow
<1>11. RequestTypes'
  BY NobodyLeft DEF TypeInv
<1> QED BY <1>10, <1>11 DEF TypeInv

LEMMA TypesOfCreateRun ==
  ASSUME TypeInv, backend' = backend, NEW i \in Slots, CreateRun(i)
  PROVE  TypeInv'
<1> DEFINE r == made.run + 1
           s == request[i].id
           new == [Open("start", "control", r) EXCEPT !.held = Starting(s)]
<1>1. UNCHANGED <<sessions, scenarios, messages, commands>> /\ s \in 1 .. made.scenario
  BY DEF CreateRun, At, TypeInv, RequestTypes, Named
<1>2. CASE ~KeyHolds(s, scenarios)
  <2>1. request' = [request EXCEPT ![i] = Nobody] /\ UNCHANGED <<made, runs, row>>
    BY <1>2, RespondNobody DEF CreateRun
  <2>2. UNCHANGED <<backend, tables>>
    BY <1>1, <2>1 DEF tables
  <2> QED BY <2>1, <2>2, NobodyNames, OneRequestOnly
<1>3. CASE KeyHolds(s, scenarios)
  <2>1. IsRow(Starting(s)) /\ Starting(s).scenario = s
    BY DEF Starting, NoRow, IsRow
  <2>2. IsRequest(new) /\ new.op = "start" /\ new.id = r /\ new.held = Starting(s)
    <3>1. \A q, held : IsRequest(q) => LET n == [q EXCEPT !.held = held]
                                    IN IsRequest(n) /\ n.op = q.op /\ n.id = q.id /\ n.held = held
      BY DEF IsRequest
    <3> QED BY <3>1, OpenFields
  <2>3. /\ r <= MaxRuns /\ made' = [made EXCEPT !.run = r] /\ runs' = runs \cup {r}
        /\ row' = [row EXCEPT ![r] = Starting(s)]
        /\ request' = [request EXCEPT ![i] = new]
    BY <1>3 DEF CreateRun
  <2>4. /\ made.run \in 0 .. MaxRuns /\ r \in 1 .. MaxRuns /\ runs \subseteq 1 .. made.run
        /\ row = [x \in 1 .. MaxRuns |-> row[x]]
        /\ made' = [session |-> made.session, scenario |-> made.scenario, run |-> r]
        /\ 1 .. r = 1 .. made.run \cup {r}
        /\ \A x \in 1 .. made.run : x # r /\ x \in 1 .. MaxRuns
    <3>1. /\ made.run \in 0 .. MaxRuns /\ runs \subseteq 1 .. made.run
          /\ row = [x \in 1 .. MaxRuns |-> row[x]]
          /\ made = [session |-> made.session, scenario |-> made.scenario, run |-> made.run]
      BY DEF TypeInv, RowTypes
    <3>2. PICK n \in Nat : n = made.run /\ r = n + 1
      BY <3>1, RecordsAssumption
    <3>3. MaxRuns \in Nat /\ n + 1 <= MaxRuns
      BY <2>3, <3>2, RecordsAssumption
    <3>4. n + 1 \in 1 .. MaxRuns /\ 1 .. n + 1 = 1 .. n \cup {n + 1} /\ (\A x \in 1 .. n : x # n + 1 /\ x \in 1 .. MaxRuns)
      BY <3>3
    <3>5. made' = [session |-> made.session, scenario |-> made.scenario, run |-> r]
      BY <2>3, <3>1
    <3> HIDE DEF r, s, new
    <3> QED BY <3>1, <3>2, <3>4, <3>5
  <2>5. /\ row' = [x \in 1 .. MaxRuns |-> row'[x]] /\ row'[r] = Starting(s)
        /\ \A x \in 1 .. MaxRuns : x # r => row'[x] = row[x]
    BY <2>3, <2>4
  <2>6. \A x \in 1 .. made.run : x # r /\ x \in 1 .. MaxRuns
    BY <2>4, Zenon
  <2> HIDE DEF r, s, new
  <2>7. made'.run = r /\ made'.scenario = made.scenario /\ made'.session = made.session
    BY <2>4
  <2>8. /\ \A x \in 1 .. MaxRuns : IsRow(row[x])
        /\ \A x \in 1 .. made.run :
              backend = "memory" \/ x \in runs => row[x].scenario \in 1 .. made.scenario
        /\ backend = "postgres" => \A x \in 1 .. MaxRuns \ runs : row[x] = NoRow
    BY DEF TypeInv, RowTypes
  <2>9. \A x \in 1 .. MaxRuns : IsRow(row'[x])
    BY <2>1, <2>5, <2>8
  <2>10. \A x \in 1 .. made'.run :
            backend = "memory" \/ x \in runs' => row'[x].scenario \in 1 .. made'.scenario
    BY <1>1, <2>1, <2>3, <2>4, <2>5, <2>6, <2>7, <2>8
  <2>11. backend = "postgres" => \A x \in 1 .. MaxRuns \ runs' : row'[x] = NoRow
    BY <2>3, <2>5, <2>8
  <2>12. runs' \subseteq 1 .. made'.run /\ made'.run \in 0 .. MaxRuns
    BY <2>3, <2>4, <2>7
  <2>13. RowTypes'
    BY <1>1, <2>4, <2>5, <2>7, <2>9, <2>10, <2>11, <2>12 DEF TypeInv, RowTypes, IsRow
  <2>14. Named(new, made')
    BY <1>1, <2>1, <2>2, <2>4, <2>7 DEF Named
  <2>15. RequestTypes'
    BY <2>3, <2>4, <2>7, <2>14, OneRequestNamed DEF TypeInv
  <2> QED BY <2>13, <2>15 DEF TypeInv
<1> QED BY <1>2, <1>3

\* A request that has read the row it holds.
LEMMA ReadNames ==
  ASSUME TypeInv, NEW r \in runs
  PROVE  /\ IsRow(row[r]) /\ row[r].scenario \in 1 .. made.scenario /\ r \in 1 .. made.run
         /\ \A q : IsRequest(q) /\ q.op # "scenario" /\ q.id = r
                     => Named([q EXCEPT !.held = row[r]], made)
<1>1. IsRow(row[r]) /\ r \in 1 .. made.run /\ row[r].scenario \in 1 .. made.scenario
  <2>1. made.run \in 0 .. MaxRuns /\ r \in 1 .. made.run
    BY DEF TypeInv, RowTypes
  <2>2. r \in 1 .. MaxRuns
    BY <2>1, RecordsAssumption
  <2> QED BY <2>1, <2>2 DEF TypeInv, RowTypes
<1> DEFINE h == row[r]
<1> HIDE DEF h
<1>2. \A q : IsRequest(q) => LET n == [q EXCEPT !.held = h]
                             IN IsRequest(n) /\ n.op = q.op /\ n.id = q.id /\ n.held = h
  BY DEF IsRequest
<1>3. \A q : IsRequest(q) /\ q.op # "scenario" /\ q.id = r => Named([q EXCEPT !.held = h], made)
  BY <1>1, <1>2 DEF Named, h
<1> QED BY <1>1, <1>3 DEF h

LEMMA TypesOfRuns ==
  ASSUME TypeInv, backend' = backend, NEW i \in Slots,
         GetRun(i) \/ UpdateRun(i) \/ ReadAgain(i) \/ UpdateRunStatus(i)
  PROVE  TypeInv'
<1> DEFINE o == request[i]
<1>1. Named(o, made) /\ request = [j \in Slots |-> request[j]]
  BY DEF TypeInv, RequestTypes
<1>2. CASE GetRun(i)
  <2>1. UNCHANGED tables
    BY <1>2 DEF GetRun
  <2>2. PICK r \in 1 .. made.run, op \in {"pause", "resume", "stop", "speed", "event"} :
          Arrives(i, "cell", IF r \in runs
                    THEN [Open(op, IF op = "event" THEN "copy" ELSE "control", r) EXCEPT !.held = row[r]]
                    ELSE Nobody)
    BY <1>2 DEF GetRun
  <2> DEFINE pc == IF op = "event" THEN "copy" ELSE "control"
             new == [Open(op, pc, r) EXCEPT !.held = row[r]]
  <2>3. request' = [request EXCEPT ![i] = IF r \in runs THEN new ELSE Nobody]
    BY <2>2 DEF Arrives
  <2> HIDE DEF pc
  <2>4. CASE r \in runs
    <3>1. IsRequest(Open(op, pc, r)) /\ Open(op, pc, r).op # "scenario" /\ Open(op, pc, r).id = r
      BY <2>2, OpenFields
    <3>2. Named(new, made)
      BY <2>4, <3>1, ReadNames
    <3> QED BY <2>1, <2>4, <2>3, <3>2, OneRequestOnly
  <2>5. CASE r \notin runs
    BY <2>1, <2>5, <2>3, NobodyNames, OneRequestOnly
  <2> QED BY <2>4, <2>5
<1>3. CASE UpdateRun(i)
  <2> DEFINE now == IF backend = "memory" THEN row[o.id] ELSE o.held
  <2>1. PICK op \in {"start", "pause", "resume", "stop", "speed"} :
          /\ o.op = op /\ Respond(i)
          /\ \E new \in Changes(op, now) : WriteRun(o.id, new)
          /\ UNCHANGED <<sessions, scenarios, made, messages, commands>>
    BY <1>3 DEF UpdateRun, At
  <2>2. o.op \in RunOps /\ request' = [request EXCEPT ![i] = Nobody]
    BY <2>1, RespondNobody DEF RunOps
  <2>3. /\ o.id \in 1 .. made.run /\ IsRow(o.held) /\ o.held.scenario \in 1 .. made.scenario
        /\ made.run \in 0 .. MaxRuns
    BY <1>1, <2>2 DEF Named, TypeInv, RowTypes
  <2>4. o.id \in 1 .. MaxRuns
    BY <2>3, RecordsAssumption
  <2>5. IsRow(now) /\ now.scenario \in 1 .. made.scenario
    BY <2>3, <2>4 DEF TypeInv, RowTypes
  <2> HIDE DEF now
  <2>6. PICK new \in Changes(op, now) : WriteRun(o.id, new)
    BY <2>1
  <2>7. IsRow(new) /\ new.scenario = now.scenario
    BY <2>5, <2>6, ChangesKeepScenario
  <2> QED BY <2>1, <2>2, <2>5, <2>6, <2>7, WriteRunTypes
<1>4. CASE ReadAgain(i)
  <2>1. UNCHANGED tables /\ o.op = "event"
    BY <1>4 DEF ReadAgain, At
  <2>2. CASE o.id \notin runs
    BY <1>4, <2>1, <2>2, NobodyNames, RespondNobody, OneRequestOnly DEF ReadAgain
  <2>3. CASE o.id \in runs
    <3> DEFINE p == [o EXCEPT !.pc = "write"]
               q == [p EXCEPT !.held = row[o.id]]
    <3>1. request' = [request EXCEPT ![i] = q]
      BY <1>1, <1>4, <2>3 DEF ReadAgain
    <3>2. IsRequest(p) /\ p.op = "event" /\ p.id = o.id
      <4>1. IsRequest(o) /\ o.op = "event"
        BY <1>1, <2>1 DEF Named
      <4> HIDE DEF o
      <4> QED BY <4>1 DEF IsRequest
    <3> HIDE DEF o, p
    <3>3. Named(q, made)
      BY <2>3, <3>2, ReadNames
    <3> HIDE DEF q
    <3> QED BY <2>1, <3>1, <3>3, OneRequestOnly
  <2> QED BY <2>2, <2>3
<1>5. CASE UpdateRunStatus(i)
  <2>1. PICK status, kpis : WriteRun(o.id, Ended(o.held, status, kpis))
    BY <1>5 DEF UpdateRunStatus
  <2> DEFINE new == Ended(o.held, status, kpis)
  <2>2. /\ o.op \in RunOps /\ request' = [request EXCEPT ![i] = Nobody]
        /\ UNCHANGED <<sessions, scenarios, made, messages, commands>>
    BY <1>5, RespondNobody DEF UpdateRunStatus, At, RunOps
  <2>3. IsRow(new) /\ new.scenario = o.held.scenario /\ o.held.scenario \in 1 .. made.scenario
    BY <1>1, <2>2, EndedKeepsScenario DEF Named
  <2> HIDE DEF new
  <2>4. WriteRun(o.id, new)
    BY <2>1 DEF new
  <2> QED BY <2>2, <2>3, <2>4, WriteRunTypes
<1> QED BY <1>2, <1>3, <1>4, <1>5

LEMMA TypesOfQuestions ==
  ASSUME TypeInv, backend' = backend, NEW i \in Slots, Ask(i) \/ RetrieveGraph(i) \/ SearchVectors(i)
  PROVE  TypeInv'
<1>1. UNCHANGED tables
  BY DEF Ask, RetrieveGraph, SearchVectors
<1>2. PICK q : Named(q, made) /\ request' = [request EXCEPT ![i] = q]
  <2>1. Named(Open("ask", "search", 0), made)
    BY OpenNames DEF RunOps
  <2>2. CASE Ask(i)
    <3>1. \A arg : Named([Open("ask", "listed", 0) EXCEPT !.arg = arg], made)
      <4>1. \A q, arg : IsRequest(q) /\ q.op = "ask" /\ q.held = NoRow => Named([q EXCEPT !.arg = arg], made)
        BY Nothing DEF Named, IsRequest, RunOps
      <4> QED BY <4>1, OpenFields
    <3> QED BY <2>1, <2>2, <3>1 DEF Ask, Arrives
  <2>3. CASE RetrieveGraph(i)
    BY <2>1, <2>3, NobodyNames DEF RetrieveGraph, Respond
  <2>4. CASE SearchVectors(i)
    BY <2>4, NobodyNames DEF SearchVectors, Respond
  <2> QED BY <2>2, <2>3, <2>4
<1> QED BY <1>1, <1>2, OneRequestOnly

-----------------------------------------------------------------------------
(* What is answered.                                                       *)

\* Only the answer to a relational question touches the memo.
LEMMA OnlyQuestionsTouchMemo ==
  ASSUME [Next]_vars
  PROVE  memo' = memo \/ \E i \in Slots : RetrieveGraph(i)
BY DEF Next, vars, CreateSession, PostMessage, AddMessage, SaveCommand, RequireSession,
   DeleteCommands, DeleteSession, ListSimulations, CreateBaseline, CreateSimulation, GetSimulation,
   UpdateSimulation, DeleteSimulation, DuplicateSimulation, CreateRun, GetRun, UpdateRun, ReadAgain,
   UpdateRunStatus, Ask, RetrieveGraph, SearchVectors, StationsChange

LEMMA OnlyQuestionsAreAnswered ==
  ASSUME [Next]_vars
  PROVE  answer' = answer \/ answer' = Silent \/ \E i \in Slots : RetrieveGraph(i) \/ SearchVectors(i)
BY DEF Next, vars, CreateSession, PostMessage, AddMessage, SaveCommand, RequireSession,
   DeleteCommands, DeleteSession, ListSimulations, CreateBaseline, CreateSimulation, GetSimulation,
   UpdateSimulation, DeleteSimulation, DuplicateSimulation, CreateRun, GetRun, UpdateRun, ReadAgain,
   UpdateRunStatus, Ask, RetrieveGraph, SearchVectors, StationsChange

\* What RankedOnce says of one answer.
RankedAnswer(given) ==
  /\ given.kind = "vector" =>
         LET chunks == given.chunks
             among == ToSet(given.among)
         IN /\ ToSet(chunks) \subseteq among
            /\ Cardinality(ToSet(chunks)) = Len(chunks)
            /\ Len(chunks) = IF Cardinality(among) < TopK THEN Cardinality(among) ELSE TopK
  /\ given.kind = "error" => given.among # <<>> /\ given.reply.kind = "noObject"

AnswerInv ==
  /\ answer.given.kind = "graph" => answer.given = answer.fresh
  /\ RankedAnswer(answer.given)

LEMMA SilentAnswers == answer = Silent => AnswerInv
BY DEF Silent, NoAnswer, AnswerInv, RankedAnswer

LEMMA QuestionsAnswered ==
  ASSUME MemoInv, NEW i \in Slots, RetrieveGraph(i) \/ SearchVectors(i)
  PROVE  AnswerInv'
<1>1. CASE RetrieveGraph(i)
  <2> DEFINE q == request[i].arg
             entry == Lookup(memo, q.stations, RunNodes)
             given == GraphAnswer(q.words, entry.graph, RunNodes)
             fresh == GraphAnswer(q.words, Graph(q.stations, RunNodes), RunNodes)
  <2>1. answer' = Silent \/ answer' = [given |-> given, fresh |-> fresh]
    BY <1>1 DEF RetrieveGraph
  <2>2. given = fresh
    BY LookupIs
  <2>3. given.kind \notin {"vector", "error"}
    BY DEF GraphAnswer, NoAnswer
  <2> HIDE DEF given, fresh
  <2>4. CASE answer' = [given |-> given, fresh |-> fresh]
    BY <2>2, <2>3, <2>4 DEF AnswerInv, RankedAnswer
  <2>5. CASE answer' = Silent
    BY <2>5 DEF Silent, NoAnswer, AnswerInv, RankedAnswer
  <2> QED BY <2>1, <2>4, <2>5
<1>2. CASE SearchVectors(i)
  <2>1. PICK mode \in {"off", "lexical", "llm"}, hits \in HitLists \cup {<<>>}, reply \in RankReplies :
          answer' = [given |-> VectorAnswer(mode, hits, reply), fresh |-> NoAnswer]
    BY <1>2 DEF SearchVectors
  <2> DEFINE v == VectorAnswer(mode, hits, reply)
  <2>2. v.kind \in {"vector", "error"}
    BY DEF VectorAnswer
  <2>3. RankedAnswer(v)
    <3>1. CASE Raises(mode, AboveMinimum(hits, MinScore), reply)
      BY <3>1 DEF RankedAnswer, VectorAnswer, Raises
    <3>2. CASE ~Raises(mode, AboveMinimum(hits, MinScore), reply)
      <4>1. v.kind = "vector"
        BY <3>2 DEF VectorAnswer
      <4> QED BY <3>2, <4>1, VectorAnswerIs DEF RankedAnswer
    <3> QED BY <3>1, <3>2
  <2> HIDE DEF v
  <2>4. answer'.given = v
    BY <2>1 DEF v
  <2> QED BY <2>2, <2>3, <2>4 DEF AnswerInv, RankedAnswer
<1> QED BY <1>1, <1>2
-----------------------------------------------------------------------------
(* Theorems.                                                               *)

LEMMA BackendStays == ASSUME [Next]_vars PROVE backend' = backend
BY DEF Next, vars, setting, CreateSession, PostMessage, AddMessage, SaveCommand, RequireSession,
   DeleteCommands, DeleteSession, ListSimulations, CreateBaseline, CreateSimulation, GetSimulation,
   UpdateSimulation, DeleteSimulation, DuplicateSimulation, CreateRun, GetRun, UpdateRun, ReadAgain,
   UpdateRunStatus, Ask, RetrieveGraph, SearchVectors, StationsChange

\* A request holds only copies whose scenario is that of the row, and every
\* row has its parent.
THEOREM RowsInvariance == Spec => []IInv
<1>1. ASSUME Init PROVE IInv
  <2>1. ChatRows
    BY <1>1 DEF Init, ChatRows
  <2>2. RunRows
    BY <1>1, RecordsAssumption, Nothing DEF Init, RunRows
  <2>3. Requests
    BY <1>1, NobodyHolds DEF Init, Requests
  <2> QED BY <2>1, <2>2, <2>3 DEF IInv, Rows
<1>2. ASSUME IInv, [Next]_vars PROVE IInv'
  <2> SUFFICES ASSUME Postgres PROVE Rows'
    BY <1>2, BackendStays DEF IInv, Postgres
  <2>1. Rows
    BY <1>2 DEF IInv
  <2>2. CASE UNCHANGED vars
    BY <2>1, <2>2 DEF vars, setting, tables, Rows, ChatRows, RunRows, Requests, Holds
  <2>3. CASE Next
    BY <2>1, <2>3, StepSession, StepScenario, StepCreateRun, StepRun, StepQuestion DEF Next
  <2> QED BY <1>2, <2>2, <2>3
<1> QED BY <1>1, <1>2, PTL DEF Spec

\* In PostgreSQL a row never outlives the session or the scenario it belongs
\* to, however deletes interleave with turns and starts (repositories.py 351-363).
THEOREM RowsAreNotOrphaned == Spec => []NoOrphans
<1>1. IInv => NoOrphans
  BY DEF IInv, Postgres, Rows, ChatRows, RunRows, NoOrphans
<1> QED BY <1>1, RowsInvariance, PTL

\* In PostgreSQL a write based on an earlier read brings no row back
\* (repositories.py 634-787).
THEOREM RowsStayDeleted == Spec => NothingComesBack
<1> DEFINE Back == Postgres =>
          /\ sessions' \ sessions \subseteq {made.session + 1}
          /\ scenarios' \ scenarios \subseteq {made.scenario + 1}
          /\ runs' \ runs \subseteq {made.run + 1}
<1>1. ASSUME Next, Postgres PROVE Back
  <2>1. ASSUME NEW i \in Slots,
               \/ CreateSession(i) \/ PostMessage(i) \/ AddMessage(i) \/ SaveCommand(i)
               \/ RequireSession(i) \/ DeleteCommands(i) \/ DeleteSession(i)
        PROVE  Back
    <3>1. /\ sessions' \subseteq sessions \cup {made.session + 1}
          /\ UNCHANGED <<scenarios, runs>>
      BY <2>1 DEF CreateSession, PostMessage, AddMessage, SaveCommand, RequireSession, DeleteCommands,
         DeleteSession, InsertSession, tables
    <3> QED BY <3>1
  <2>2. ASSUME NEW i \in Slots,
               \/ ListSimulations(i) \/ CreateBaseline(i) \/ CreateSimulation(i) \/ GetSimulation(i)
               \/ UpdateSimulation(i) \/ DeleteSimulation(i) \/ DuplicateSimulation(i)
        PROVE  Back
    <3>1. /\ scenarios' \subseteq scenarios \cup {made.scenario + 1}
          /\ sessions' = sessions /\ runs' \subseteq runs
      BY <1>1, <2>2 DEF ListSimulations, CreateBaseline, CreateSimulation, GetSimulation,
         UpdateSimulation, UpdatedScenario, DeleteSimulation, DuplicateSimulation, InsertScenario,
         DeleteScenario, tables, Postgres
    <3> QED BY <3>1
  <2>3. ASSUME NEW i \in Slots,
               CreateRun(i) \/ GetRun(i) \/ UpdateRun(i) \/ ReadAgain(i) \/ UpdateRunStatus(i)
        PROVE  Back
    <3>1. /\ runs' \subseteq runs \cup {made.run + 1}
          /\ sessions' = sessions /\ scenarios' = scenarios
      BY <1>1, <2>3 DEF CreateRun, GetRun, UpdateRun, ReadAgain, UpdateRunStatus, WriteRun, tables,
         Postgres
    <3> QED BY <3>1
  <2>4. CASE (\E i \in Slots : Ask(i) \/ RetrieveGraph(i) \/ SearchVectors(i)) \/ StationsChange
    <3>1. UNCHANGED tables
      BY <2>4 DEF Ask, RetrieveGraph, SearchVectors, StationsChange
    <3> QED BY <3>1 DEF tables
  <2> QED BY <1>1, <2>1, <2>2, <2>3, <2>4 DEF Next
<1>2. [Next]_vars => [Back]_vars
  BY <1>1
<1> QED BY <1>2, PTL DEF Spec, NothingComesBack, Postgres

\* The rows refer to each other and every entry of the memo is the graph its
\* key describes: what both kinds of answers rest on.
THEOREM AnswersInvariance == Spec => [](TypeInv /\ MemoInv /\ AnswerInv)
<1> DEFINE Inv == TypeInv /\ MemoInv /\ AnswerInv
<1>1. ASSUME Init PROVE Inv
  <2>1. RowTypes
    BY <1>1, RecordsAssumption, Nothing DEF Init, RowTypes
  <2>2. RequestTypes
    BY <1>1, NobodyNames DEF Init, RequestTypes
  <2>3. MemoInv
    <3>1. memo = <<>> /\ ToSet(<<>>) = {} /\ Len(<<>>) = 0 /\ <<>> \in Seq({})
      BY <1>1, EmptySeq DEF Init, ToSet
    <3> QED BY <3>1, RecordsAssumption DEF MemoInv
  <2>4. AnswerInv
    BY <1>1, SilentAnswers DEF Init
  <2> QED BY <2>1, <2>2, <2>3, <2>4 DEF TypeInv
<1>2. ASSUME Inv, [Next]_vars PROVE Inv'
  <2>1. backend' = backend
    BY <1>2, BackendStays
  <2>2. TypeInv'
    <3>1. CASE UNCHANGED vars
      BY <1>2, <3>1 DEF vars, setting, tables, TypeInv, RowTypes, RequestTypes, Named, IsRow
    <3>2. CASE StationsChange
      BY <1>2, <2>1, <3>2 DEF StationsChange, tables, TypeInv, RowTypes, RequestTypes, Named, IsRow
    <3>3. CASE Next /\ ~StationsChange
      BY <1>2, <2>1, <3>3, TypesOfSessions, TypesOfScenarios, TypesOfCreateRun, TypesOfRuns,
         TypesOfQuestions DEF Next
    <3> QED BY <1>2, <3>1, <3>2, <3>3
  <2>3. MemoInv'
    <3>1. CASE memo' = memo
      BY <1>2, <3>1 DEF MemoInv
    <3>2. ASSUME NEW i \in Slots, RetrieveGraph(i) PROVE MemoInv'
      <4> DEFINE stations == request[i].arg.stations
                 entry == Lookup(memo, stations, RunNodes)
      <4>1. memo' = Touch(memo, entry, MemoSize)
        BY <3>2 DEF RetrieveGraph
      <4>2. entry.graph = Graph(entry.key[1], entry.key[2])
        BY <1>2, LookupIs
      <4> HIDE DEF entry
      <4> QED BY <1>2, <4>1, <4>2, TouchKeepsMemo
    <3> QED BY <1>2, <3>1, <3>2, OnlyQuestionsTouchMemo
  <2>4. AnswerInv'
    <3>1. CASE answer' = answer
      BY <1>2, <3>1 DEF AnswerInv, RankedAnswer
    <3>2. CASE answer' = Silent
      BY <3>2 DEF Silent, NoAnswer, AnswerInv, RankedAnswer
    <3> QED BY <1>2, <3>1, <3>2, QuestionsAnswered, OnlyQuestionsAreAnswered
  <2> QED BY <2>2, <2>3, <2>4
<1> QED BY <1>1, <1>2, PTL DEF Spec

\* Over either repository a row names ids that were given, PostgreSQL keeps
\* nothing of a run that is gone, and the memo keeps its bound and its keys
\* apart (repositories.py 205-330, ontology.py 96-127).
THEOREM RowTypesHold == Spec => []TypeOK
<1>1. TypeInv /\ MemoInv => TypeOK
  <2> SUFFICES ASSUME TypeInv, MemoInv PROVE TypeOK
    OBVIOUS
  <2>1. \A r \in runs : row[r].scenario \in 1 .. made.scenario
    BY DEF TypeInv, RowTypes
  <2> QED BY <2>1 DEF TypeInv, RowTypes, MemoInv, TypeOK
<1> QED BY <1>1, AnswersInvariance, PTL

\* A question answered from the memo gets what a graph built afresh from the
\* stations and runs just read would give, whatever was asked, evicted or
\* changed before it (ontology.py 96-127).
THEOREM MemoAnswersAreCurrent == Spec => []AnswersAreCurrent
<1>1. AnswerInv => AnswersAreCurrent
  BY DEF AnswerInv, AnswersAreCurrent
<1> QED BY <1>1, AnswersInvariance, PTL

\* For hits of any length, any limit and any ids the ranking model names, a
\* turn is given chunks that were found, each once, and as many as there are up
\* to the limit; it is given an error in their place only when some were found
\* and the model's reply is JSON but no object (knowledge_gateway.py 216-223,
\* 266-282).
THEOREM ChunksAreRankedOnce == Spec => []RankedOnce
<1>1. AnswerInv => RankedOnce
  BY DEF AnswerInv, RankedAnswer, RankedOnce
<1> QED BY <1>1, AnswersInvariance, PTL
=============================================================================
