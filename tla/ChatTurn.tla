------------------------------ MODULE ChatTurn ------------------------------
(***************************************************************************)
(* The chat turns of one session, the live search for the largest fleet,   *)
(* and the simulator they command.  Turns are concurrent: nothing orders   *)
(* the requests of a session.  A turn is routed, its tool call planned,    *)
(* checked and perhaps held for confirmation, and its command issued; a    *)
(* search is a background task that issues one start after the other and   *)
(* reads the completions off the session's event bus.                      *)
(*                                                                         *)
(* A text is the set of the word classes the routing tests it for.  What   *)
(* the operator reads is left out, and so are the run records, which       *)
(* CommandLifecycle has.                                                   *)
(***************************************************************************)
EXTENDS RunEvaluation

CONSTANTS MaxTurns,     \* chat messages looked at
          MaxActive,    \* those handled at the same time
          MaxSearches,  \* optimisation requests among them
          Texts,        \* their texts: [words, calls], calls what a model may propose
          Fleets,       \* the fleet sizes UE5 may report
          Rates,        \* bottleneck rates by AGV count, of the live cell
          Requests      \* the goals asked for: [atMost, percent], percent NoKpi if not named

Words == {"refused", "optimize", "compare", "explicit", "simStatus", "graph",
          "process", "action", "cancel", "abort", "confirm"}

\* "task" stands for every command that is acknowledged and starts or ends no
\* run: station tasks, inspections, pause, resume and speed.
Tools == {"start", "stop", "task", "cancel"}

ASSUME ChatAssumption ==
    /\ MaxTurns \in Nat /\ MaxActive \in Nat /\ MaxSearches \in Nat
    /\ Texts \subseteq [words : SUBSET Words, calls : SUBSET Tools]
    /\ Fleets \subseteq Nat \ {0}
    /\ Requests \subseteq [atMost : BOOLEAN, percent : Int]

ReadRoutes == {"process_status", "simulation_status", "station_action_query",
               "compare_runs", "knowledge_query", "general_chat"}

VARIABLES demo,         \* auto_complete_commands: no simulator, commands end at once
          rate,         \* what a full run with so many AGVs measures
          turn,         \* the turns so far: [pc, text, call, ask, cmd]
          pending,      \* _pending_confirmations of the session: [call, ask]
          commands,     \* the session's commands: [tool, status, ask, by, count]
          search,       \* the searches so far
          cell,         \* the start command of the run under way in UE5, or NoCmd
          wire          \* completion events UE5 has sent: [cmd, rate, cut]

world == <<cell, wire>>
vars == <<demo, rate, turn, pending, commands, search, world>>

NoCmd == 0
NoCall == [tool |-> "none", target |-> NoCmd]
Call(tool) == [tool |-> tool, target |-> NoCmd]
NothingPending == [call |-> NoCall, ask |-> 0]
Finished == [pc |-> "done", text |-> {}, call |-> NoCall, ask |-> 0, cmd |-> NoCmd]

Init == /\ demo \in BOOLEAN
        /\ rate \in IF demo
                    THEN {[n \in 1 .. Max(Fleets) |-> SimulatedKpis(n).bottleneck_rate]}
                    ELSE Rates
        /\ turn = <<>>
        /\ pending = NothingPending
        /\ commands = <<>>
        /\ search = <<>>
        /\ cell = NoCmd
        /\ wire = {}

---------------------------------------------------------------------------
(* Routing.                                                                *)

Explicit(t) == "explicit" \in t

\* What the model may answer, with the guard for lifecycle phrases, and what
\* the key words say when it does not answer.
ModelRoutes(t) == IF Explicit(t) THEN {"robot_command"}
                  ELSE {"process_status", "station_action_query", "robot_command",
                        "knowledge_query", "general_chat"}
KeywordRoute(t) == IF "process" \in t /\ ~Explicit(t) THEN "process_status"
                   ELSE IF "action" \in t THEN "station_action_query" ELSE "robot_command"

Routes(t) == IF "optimize" \in t THEN {"optimize_agvs"}
             ELSE IF "compare" \in t /\ ~Explicit(t) THEN {"compare_runs"}
             ELSE IF "simStatus" \in t /\ ~Explicit(t) THEN {"simulation_status"}
             ELSE IF "graph" \in t THEN {"knowledge_query"}
             ELSE ModelRoutes(t) \cup {KeywordRoute(t)}

\* What turns share is first read when a command is finalized: up to there a
\* turn is one step.
NewTurn(r) == /\ Len(turn) < MaxTurns
              /\ Cardinality({i \in DOMAIN turn : turn[i].pc # "done"}) < MaxActive
              /\ turn' = Append(turn, r)
Goto(i, pc) == turn' = [turn EXCEPT ![i].pc = pc]
End(i) == turn' = [turn EXCEPT ![i] = Finished]

\* handle_user_message: a text that looks like an injection is refused.
Refuse(t) == /\ "refused" \in t.words
             /\ NewTurn(Finished)
             /\ UNCHANGED <<demo, rate, pending, commands, search, world>>

\* The read routes report and change nothing.
AnswerRead(t) == /\ "refused" \notin t.words
                 /\ Routes(t.words) \cap ReadRoutes # {}
                 /\ NewTurn(Finished)
                 /\ UNCHANGED <<demo, rate, pending, commands, search, world>>

---------------------------------------------------------------------------
(* Tool calls and confirmations.                                           *)

\* The language model proposes a call or none; a failure or an invalid call
\* ends the turn.
PlanToolCall(t) ==
    /\ "refused" \notin t.words
    /\ "robot_command" \in Routes(t.words)
    /\ \/ \E call \in {NoCall} \cup {Call(tool) : tool \in t.calls} :
             NewTurn([Finished EXCEPT !.pc = "finalize", !.call = call,
                                      !.text = t.words \cap {"cancel", "abort", "confirm"}])
       \/ NewTurn(Finished)
    /\ UNCHANGED <<demo, rate, pending, commands, search, world>>

Confirms(t) == "confirm" \in t

\* Mutant: the confirmed call stays in the map.
KeepPending(i) == pending

\* A confirmation takes the pending call when the model proposes none.
Consumes(i) == turn[i].call = NoCall /\ Confirms(turn[i].text) /\ pending # NothingPending
ConsumePending(i) == NothingPending

Cancelable == {c \in DOMAIN commands : /\ commands[c].tool # "cancel"
                                       /\ commands[c].status \in {"pending", "accepted"}}

\* The call a turn goes on with, from one of three sources.
Chosen(i) ==
    IF turn[i].call # NoCall THEN turn[i].call
    ELSE IF Consumes(i) THEN pending.call
    ELSE IF "cancel" \in turn[i].text /\ Cancelable # {}
         THEN [tool |-> "cancel", target |-> Max(Cancelable)]
    ELSE NoCall

\* Cancelling, and stopping in the words of an emergency, must be confirmed.
Dangerous(call, t) == call.tool = "cancel" \/ (call.tool = "stop" /\ "abort" \in t)
AsksFirst(call, t) == Dangerous(call, t) /\ ~Confirms(t)

FinalizeRobotCommand(i) ==
    LET call == Chosen(i)
        left == IF Consumes(i) THEN ConsumePending(i) ELSE pending
    IN  /\ turn[i].pc = "finalize"
        /\ IF AsksFirst(call, turn[i].text)
           THEN /\ pending' = [call |-> call, ask |-> i]
                /\ End(i)
           ELSE /\ pending' = left
                /\ \/ /\ call # NoCall
                      /\ turn' = [turn EXCEPT ![i].pc = "save", ![i].call = call,
                                     ![i].ask = IF Consumes(i) THEN pending.ask ELSE 0]
                   \/ call.tool \in {"none", "task"} /\ End(i)   \* or a station not ready
        /\ UNCHANGED <<demo, rate, commands, search, world>>

---------------------------------------------------------------------------
(* Commands and the simulator.                                             *)

Row(tool, ask, by, count) ==
    [tool |-> tool, status |-> "pending", ask |-> ask, by |-> by, count |-> count]

\* issue_robot_command: the row first, then the request.
SaveCommand(i) == /\ turn[i].pc = "save"
                  /\ commands' = Append(commands, Row(turn[i].call.tool, turn[i].ask, 0, 0))
                  /\ turn' = [turn EXCEPT ![i].pc = "send", ![i].cmd = Len(commands) + 1]
                  /\ UNCHANGED <<demo, rate, pending, search, world>>

Event(c, r, cut) == [cmd |-> c, rate |-> r, cut |-> cut]

\* What UE5 does with a command.  A start while a run is under way is dropped, a
\* stop ends the run with the KPIs so far.
HandleSimStart(c) == /\ commands[c].tool = "start"
                     /\ cell' = IF cell = NoCmd THEN c ELSE cell
                     /\ UNCHANGED wire

HandleSimStop(c) == /\ commands[c].tool = "stop"
                    /\ \/ cell = NoCmd /\ UNCHANGED world
                       \/ /\ cell # NoCmd
                          /\ cell' = NoCmd
                          /\ \E r \in {0, 1000} : wire' = wire \cup {Event(cell, r, TRUE)}

\* The others are completed, pause and resume only while a run is under way.
HandleOther(c) == /\ commands[c].tool \in {"task", "cancel"}
                  /\ \/ wire' = wire \cup {Event(c, 0, FALSE)}
                     \/ commands[c].tool = "task" /\ cell = NoCmd /\ UNCHANGED wire
                  /\ UNCHANGED cell

Handled(c) == HandleSimStart(c) \/ HandleSimStop(c) \/ HandleOther(c)

\* The request and its answer, either of which may be lost; the demo client
\* accepts everything and commands nothing.
Request(c, ok) ==
    /\ commands' = [commands EXCEPT ![c].status = IF ok THEN "accepted" ELSE "failed"]
    /\ IF demo THEN ok /\ UNCHANGED world
       ELSE Handled(c) \/ (~ok /\ UNCHANGED world)

Send(i, ok) == /\ turn[i].pc = "send"
               /\ Request(turn[i].cmd, ok)
               /\ IF demo THEN Goto(i, "complete") ELSE End(i)
               /\ UNCHANGED <<demo, rate, pending, search>>

\* _complete_demo_command, in the same turn.
CompleteDemoCommand(i) == /\ turn[i].pc = "complete"
                          /\ commands' = [commands EXCEPT ![turn[i].cmd].status = "completed"]
                          /\ End(i)
                          /\ UNCHANGED <<demo, rate, pending, search, world>>

\* The run under way ends by itself; the rate matters to a search only.
RunEnds == /\ cell # NoCmd
           /\ LET n == commands[cell].count
              IN  wire' = wire \cup {Event(cell, IF n = 0 THEN 0 ELSE rate[n], FALSE)}
           /\ cell' = NoCmd
           /\ UNCHANGED <<demo, rate, turn, pending, commands, search>>

\* The searches that hold a queue on the bus.
Subscribed(k) == search[k].pc \in {"save", "send", "await"}

\* handle_completion_event: the row, then the event to every subscriber.  Events
\* arrive in any order, and one that stays on the wire for ever is lost.
HandleCompletionEvent(e) ==
    /\ commands' = [commands EXCEPT ![e.cmd].status = "completed"]
    /\ search' = [k \in DOMAIN search |->
                    IF Subscribed(k) THEN [search[k] EXCEPT !.queue = Append(@, e)]
                                     ELSE search[k]]
    /\ wire' = wire \ {e}
    /\ UNCHANGED <<demo, rate, turn, pending, cell>>

---------------------------------------------------------------------------
(* The search for the largest fleet that meets the goal.                   *)

Search(pc, goal) == [ pc |-> pc, goal |-> goal, count |-> goal.most, cmd |-> NoCmd,
                      queue |-> <<>>, tried |-> <<>>, found |-> NoCount, cut |-> FALSE ]

\* search_optimal_agv_count over the process model.
ModelSearch(goal) == [ Search("done", goal) EXCEPT !.tried = SearchSteps(goal, rate),
                                                   !.found = SearchOptimum(goal, rate) ]

\* _run_agv_optimization: the fleet size is read from UE5, or is the configured
\* one; the live search subscribes before its first run.
Optimize(t) == /\ "refused" \notin t.words
               /\ "optimize_agvs" \in Routes(t.words)
               /\ Len(search) < MaxSearches
               /\ NewTurn(Finished)
               /\ \E asked \in Requests, fleet \in Fleets :
                     LET goal == Goal(asked.atMost, asked.percent, fleet)
                     IN  search' = Append(search, IF demo THEN ModelSearch(goal)
                                                  ELSE Search("save", goal))
               /\ UNCHANGED <<demo, rate, pending, commands, world>>

Step(k, s) == search' = [search EXCEPT ![k] = s]

\* Mutant: the queue stays subscribed.
LeaveSubscribed(s, pc) == [s EXCEPT !.pc = pc]

\* Whatever ends a search, its queue is unsubscribed.
Leave(s, pc) == [s EXCEPT !.pc = pc, !.queue = <<>>]

SaveStart(k) == /\ search[k].pc = "save"
                /\ commands' = Append(commands, Row("start", 0, k, search[k].count))
                /\ Step(k, [search[k] EXCEPT !.pc = "send", !.cmd = Len(commands) + 1])
                /\ UNCHANGED <<demo, rate, turn, pending, world>>

SendStart(k, ok) == /\ search[k].pc = "send"
                    /\ Request(search[k].cmd, ok)
                    /\ Step(k, IF ok THEN [search[k] EXCEPT !.pc = "await"]
                               ELSE Leave(search[k], "failed"))
                    /\ UNCHANGED <<demo, rate, turn, pending>>

\* Mutant: any completed command is taken for the run awaited.
AnyCompletion(k, e) == TRUE

IsAwaited(k, e) == e.cmd = search[k].cmd

\* Mutant: the search goes on below the first count that satisfies.
StepDownAlways(s) == IF s.count > 1 THEN [s EXCEPT !.pc = "save", !.count = @ - 1]
                     ELSE Leave(s, "done")

\* Stop at the first count that satisfies, or below one AGV.
NextCandidate(s) == IF s.found = NoCount /\ s.count > 1
                    THEN [s EXCEPT !.pc = "save", !.count = @ - 1]
                    ELSE Leave(s, "done")

\* The search's record of the run that ended with event e.
Observed(s, e) == [s EXCEPT !.tried = Append(@, s.count),
                            !.cut = @ \/ e.cut,
                            !.found = IF GoalSatisfied(e.rate, s.goal) THEN s.count ELSE @]

\* _await_run_completion: other events are drained.
Await(k) == LET s == search[k]
                e == Head(s.queue)
                rest == [s EXCEPT !.queue = Tail(@)]
            IN  /\ s.pc = "await"
                /\ s.queue # <<>>
                /\ Step(k, IF IsAwaited(k, e) THEN NextCandidate(Observed(rest, e)) ELSE rest)
                /\ UNCHANGED <<demo, rate, turn, pending, commands, world>>

\* Mutant: the wait has no end.
NeverOverdue(k) == FALSE

\* After 300 seconds without the completion, the search gives up.
Overdue(k) == search[k].pc = "await" /\ search[k].queue = <<>>

GiveUp(k) == /\ Overdue(k)
             /\ Step(k, Leave(search[k], "failed"))
             /\ UNCHANGED <<demo, rate, turn, pending, commands, world>>

---------------------------------------------------------------------------

TurnStep(i) == \/ FinalizeRobotCommand(i)
               \/ SaveCommand(i)
               \/ \E ok \in BOOLEAN : Send(i, ok)
               \/ CompleteDemoCommand(i)

SearchStep(k) == \/ SaveStart(k)
                 \/ \E ok \in BOOLEAN : SendStart(k, ok)
                 \/ Await(k)
                 \/ GiveUp(k)

Next == \/ \E t \in Texts : Refuse(t) \/ AnswerRead(t) \/ PlanToolCall(t) \/ Optimize(t)
        \/ \E i \in DOMAIN turn : TurnStep(i)
        \/ \E k \in DOMAIN search : SearchStep(k)
        \/ RunEnds
        \/ \E e \in wire : HandleCompletionEvent(e)

\* Every await of a turn or a search ends: model, database and simulator
\* requests have time limits, and so has the wait for a run.
Fairness == /\ \A i \in 1 .. MaxTurns : WF_vars(i \in DOMAIN turn /\ TurnStep(i))
            /\ \A k \in 1 .. MaxSearches : WF_vars(k \in DOMAIN search /\ SearchStep(k))

Spec == Init /\ [][Next]_vars /\ Fairness

---------------------------------------------------------------------------
(* Properties.                                                             *)

\* The rows, turns and searches have their types, and name commands that exist.
TypeOK ==
    /\ demo \in BOOLEAN
    /\ \A i \in DOMAIN turn :
          /\ turn[i].pc \in {"finalize", "save", "send", "complete", "done"}
          /\ turn[i].call.tool \in Tools \cup {"none"}
          /\ turn[i].cmd \in 0 .. Len(commands)
    /\ pending.call.tool \in {"none", "stop", "cancel"}
    /\ \A c \in DOMAIN commands :
          /\ commands[c].tool \in Tools
          /\ commands[c].status \in {"pending", "accepted", "failed", "completed"}
    /\ \A k \in DOMAIN search :
          /\ search[k].pc \in {"save", "send", "await", "done", "failed"}
          /\ search[k].count \in 1 .. search[k].goal.most
          /\ search[k].cmd \in 0 .. Len(commands)
          /\ ~Subscribed(k) => search[k].queue = <<>>
    /\ cell \in 0 .. Len(commands)
    /\ \A e \in wire : e.cmd \in DOMAIN commands

\* What was held for confirmation is issued at most once, however many turns
\* confirm at the same time (chat_orchestrator.py:1421-1428).
ConfirmedOnce == \A c, d \in DOMAIN commands :
    commands[c].ask # 0 /\ commands[c].ask = commands[d].ask => c = d

\* A search that no stop of the operator has cut short tries the counts the
\* deterministic search would try and ends with its optimum, whatever other
\* turns and searches command meanwhile (chat_orchestrator.py:874-877).
SearchFindsOptimum == \A k \in DOMAIN search :
    LET s == search[k]
    IN  s.pc = "done" /\ ~s.cut => /\ s.tried = SearchSteps(s.goal, rate)
                                   /\ s.found = SearchOptimum(s.goal, rate)

\* UE5 runs one simulation at a time, which a search respects: it never asks
\* for a run while an earlier one of its own is under way
\* (docs/spec/spec_virtual_process.md:126).
OneRunAtATime == \A k \in DOMAIN search :
    cell # NoCmd /\ commands[cell].by = k => cell = search[k].cmd

\* Every turn is answered and every search ends, whatever is lost.
TurnsAndSearchesEnd ==
    /\ \A i \in 1 .. MaxTurns :
          (i \in DOMAIN turn) ~> (i \in DOMAIN turn /\ turn[i].pc = "done")
    /\ \A k \in 1 .. MaxSearches :
          (k \in DOMAIN search)
             ~> (k \in DOMAIN search /\ search[k].pc \in {"done", "failed"})
=============================================================================
