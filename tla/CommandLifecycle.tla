-------------------------- MODULE CommandLifecycle --------------------------
(***************************************************************************)
(* A chat turn that commands the simulator, from the idempotency key the   *)
(* client sent to the report on the completed command:                     *)
(*   robot_orchestrator.py  issue_robot_command                            *)
(*   ue5_client.py          send_robot_command, _wait_until_stopped        *)
(*   multi_response_graph.py, chat_orchestrator.py                         *)
(*                          the turn's answer and the mirrored run         *)
(*   ue5_ingest.py          _ingest_event, handle_completion_event         *)
(* over the PostgreSQL repository, which hands out copies of its rows.     *)
(* Turns and events interleave at every await.  UE5 is kept to what the    *)
(* backend sees of it: requests queued for the game thread, and events     *)
(* posted back one by one, in no order, any of which may be lost.          *)
(* A command is named by the turn that created it.                         *)
(***************************************************************************)
EXTENDS Integers, Sequences, FiniteSets

CONSTANTS
    Turns,     \* chat turns that reach issue_robot_command
    Keys,      \* idempotency keys
    Requests,  \* what the turns may ask for: functions from Turns
    NoCmd      \* no command

Kinds == {"start", "stop", "pause", "resume", "speed", "task"}
Statuses == {"pending", "accepted", "completed", "failed"}
RunStatuses == {"running", "paused", "stopped", "completed"}

ASSUME RequestsAssumption == Requests \subseteq [Turns -> [key : Keys, kind : Kinds]]
ASSUME NoCmdAssumption == NoCmd \notin Turns

VARIABLES
    request,   \* what each turn asks for; never changes
    turn,      \* where each turn is, the command it holds, and its copies
    commands,  \* robot_commands: the status in each row, or "none"
    runs,      \* simulation_runs, oldest first
    inbox,     \* UE5: requests queued for the game thread
    received,  \* history: the commands UE5 received
    sim,       \* UE5: the command of the active run, and whether it is paused
    tasks,     \* UE5: station commands under way
    finished,  \* history: the commands whose UE5 run has ended
    events,    \* completion events, from UE5 to the end of their handler
    reports,   \* how often each command has been reported on in the chat
    unreported \* history: the commands whose report failed

backend == <<turn, commands, runs>>
ue5 == <<inbox, received, sim, tasks, finished>>
vars == <<request, backend, ue5, events, reports, unreported>>

Key(c) == request[c].key
Kind(c) == request[c].kind

Run == [cmd : Turns, status : RunStatuses, kpis : BOOLEAN]
\* robot.command.completed: UE5 sends no robot.command.failed, not even for a
\* station command it rejects.
Event == [cmd : Turns, stage : {"sent", "found", "command", "report"}, run : Nat]
PcValues == {"idle", "save", "send", "sent", "verify", "update", "reply", "mirror", "done"}

\* A turn: its command and the status of its copy, the run it read (its place
\* in the store, its status and whether it has KPIs).
TurnRecord == [pc : PcValues, cmd : Turns \cup {NoCmd}, status : Statuses,
               at : Nat, held : RunStatuses, kpis : BOOLEAN]

TypeOK ==
    /\ request \in Requests
    /\ turn \in [Turns -> TurnRecord]
    /\ commands \in [Turns -> Statuses \cup {"none"}]
    /\ runs \in Seq(Run)
    /\ inbox \in Seq(Turns)
    /\ received \subseteq Turns
    /\ sim \in [run : Turns \cup {NoCmd}, paused : BOOLEAN]
    /\ tasks \subseteq Turns
    /\ finished \subseteq Turns
    /\ events \subseteq Event
    /\ reports \in [Turns -> Nat]
    /\ unreported \subseteq Turns

Init ==
    /\ request \in Requests
    /\ turn = [t \in Turns |-> [pc |-> "idle", cmd |-> NoCmd, status |-> "pending",
                                at |-> 0, held |-> "running", kpis |-> FALSE]]
    /\ commands = [t \in Turns |-> "none"]
    /\ runs = << >>
    /\ inbox = << >>
    /\ received = {}
    /\ sim = [run |-> NoCmd, paused |-> FALSE]
    /\ tasks = {}
    /\ finished = {}
    /\ events = {}
    /\ reports = [t \in Turns |-> 0]
    /\ unreported = {}

-----------------------------------------------------------------------------
(* The chat turn *)

\* The rows with the key of turn t: robot_commands.idempotency_key is UNIQUE.
SameKey(t) == {c \in Turns : commands[c] # "none" /\ Key(c) = Key(t)}

\* Mutant: the copy of an existing row is written back.
ReusedAndSaved(t, c) == [turn[t] EXCEPT !.pc = "update", !.cmd = c, !.status = commands[c]]

\* The record of turn t once it holds the copy of an existing row.
Reused(t, c) == [turn[t] EXCEPT !.pc = "reply", !.cmd = c, !.status = commands[c]]

\* An existing command is returned as it is, and nothing is sent.
ReuseCommand(t) ==
    /\ \E c \in SameKey(t) : turn' = [turn EXCEPT ![t] = Reused(t, c)]
    /\ UNCHANGED commands

\* The turn begins.
LookUp(t) ==
    /\ turn[t].pc = "idle"
    /\ \/ ReuseCommand(t)
       \/ /\ SameKey(t) = {}
          /\ turn' = [turn EXCEPT ![t].pc = "save"]
          /\ UNCHANGED commands
    /\ UNCHANGED <<request, runs, ue5, events, reports, unreported>>

\* Mutant: no UNIQUE constraint behind the insertion.
InsertedAlways(t) == turn[t].pc = "save"

\* INSERT ... ON CONFLICT (idempotency_key) DO NOTHING: another turn may have
\* saved its row since the look-up.
Inserted(t) == SameKey(t) = {}

SaveCommand(t) ==
    /\ turn[t].pc = "save"
    /\ \/ /\ ~Inserted(t)
          /\ ReuseCommand(t)
       \/ /\ Inserted(t)
          /\ commands' = [commands EXCEPT ![t] = "pending"]
          /\ turn' = [turn EXCEPT ![t].pc = "send", ![t].cmd = t]
    /\ UNCHANGED <<request, runs, ue5, events, reports, unreported>>

\* The POST reaches UE5, or the connection fails.
Post(t) ==
    /\ turn[t].pc = "send"
    /\ inbox' = Append(inbox, t)
    /\ received' = received \cup {t}
    /\ turn' = [turn EXCEPT ![t].pc = "sent"]
    /\ UNCHANGED <<request, commands, runs, sim, tasks, finished, events, reports, unreported>>

\* A turn whose request has an answer, to be written to its row.
Settled(t, status) == [turn EXCEPT ![t].pc = "update", ![t].status = status]

\* Mutant: errors are swallowed.
SwallowedError == "accepted"

HttpErrorStatus == "failed"

\* No connection, or no answer in time: UE5 may have the request all the same.
HttpError(t) ==
    /\ turn[t].pc \in {"send", "sent", "verify"}
    /\ turn' = Settled(t, HttpErrorStatus)
    /\ UNCHANGED <<request, commands, runs, ue5, events, reports, unreported>>

\* The HTTP thread of UE5 answers as soon as the request is queued.
Answered(t) ==
    /\ turn[t].pc = "sent"
    /\ turn' = IF Kind(t) = "stop" THEN [turn EXCEPT ![t].pc = "verify"]
               ELSE Settled(t, "accepted")
    /\ UNCHANGED <<request, commands, runs, ue5, events, reports, unreported>>

\* The last attempt of _wait_until_stopped decides.
WaitUntilStopped(t) ==
    /\ turn[t].pc = "verify"
    /\ turn' = Settled(t, IF sim.run = NoCmd THEN "accepted" ELSE "failed")
    /\ UNCHANGED <<request, commands, runs, ue5, events, reports, unreported>>

UpdateCommand(t) ==
    /\ turn[t].pc = "update"
    /\ commands' = [commands EXCEPT ![turn[t].cmd] = turn[t].status]
    /\ turn' = [turn EXCEPT ![t].pc = "reply"]
    /\ UNCHANGED <<request, runs, ue5, events, reports, unreported>>

Active(i) == runs[i].status \in {"running", "paused"}

\* _latest_active_run: the newest run that has not ended, whoever started it.
LatestActive == {i \in DOMAIN runs : Active(i) /\ \A j \in DOMAIN runs : Active(j) => j <= i}

\* A failed command is reported as failed; a started run is recorded; the
\* other lifecycle commands take a copy of the latest active run.
Reply(t) ==
    /\ turn[t].pc = "reply"
    /\ LET cmd == turn[t].cmd
           mirrors == turn[t].status # "failed" /\ Kind(cmd) # "task" IN
       \/ /\ ~mirrors \/ (Kind(cmd) # "start" /\ LatestActive = {})
          /\ turn' = [turn EXCEPT ![t].pc = "done"]
          /\ UNCHANGED runs
       \/ /\ mirrors /\ Kind(cmd) = "start"
          /\ runs' = Append(runs, [cmd |-> cmd, status |-> "running", kpis |-> FALSE])
          /\ turn' = [turn EXCEPT ![t].pc = "done"]
       \/ /\ mirrors /\ Kind(cmd) # "start"
          /\ \E i \in LatestActive :
                turn' = [turn EXCEPT ![t].pc = "mirror", ![t].at = i,
                                     ![t].held = runs[i].status, ![t].kpis = runs[i].kpis]
          /\ UNCHANGED runs
    /\ UNCHANGED <<request, commands, ue5, events, reports, unreported>>

\* Mutant: the run is given the status of the command.
MirroredCommandStatus(t) ==
    IF Kind(turn[t].cmd) = "stop" THEN "stopped" ELSE turn[t].status

MirroredStatus(t) ==
    CASE Kind(turn[t].cmd) = "stop" -> "stopped"
      [] Kind(turn[t].cmd) = "pause" -> "paused"
      [] Kind(turn[t].cmd) = "resume" -> "running"
      [] OTHER -> turn[t].held

\* update_run writes every column of the copy, the ones it did not touch too.
Mirror(t) ==
    /\ turn[t].pc = "mirror"
    /\ runs' = [runs EXCEPT ![turn[t].at].status = MirroredStatus(t),
                            ![turn[t].at].kpis = turn[t].kpis]
    /\ turn' = [turn EXCEPT ![t].pc = "done"]
    /\ UNCHANGED <<request, commands, ue5, events, reports, unreported>>

-----------------------------------------------------------------------------
(* UE5, as the backend sees it *)

Emitted(c) == events \cup {[cmd |-> c, stage |-> "sent", run |-> 0]}

NoActiveRun == [run |-> NoCmd, paused |-> FALSE]

\* CompleteRuntimeRun and ResetActiveRun: the completion event carries the
\* command that started the run; station commands under way are forgotten.
EndRun ==
    /\ sim.run # NoCmd
    /\ events' = Emitted(sim.run)
    /\ finished' = finished \cup {sim.run}
    /\ sim' = NoActiveRun
    /\ tasks' = {}

\* What the game thread does with request c.
Handle(c) ==
    \/ /\ Kind(c) = "start"
       /\ sim' = IF sim.run = NoCmd THEN [run |-> c, paused |-> FALSE] ELSE sim
       /\ UNCHANGED <<tasks, finished, events>>
    \/ Kind(c) = "stop" /\ EndRun
    \/ /\ Kind(c) \in {"stop", "pause", "resume"}
       /\ sim.run = NoCmd
       /\ UNCHANGED <<sim, tasks, finished, events>>
    \/ /\ Kind(c) \in {"pause", "resume"}
       /\ sim.run # NoCmd
       /\ sim' = [sim EXCEPT !.paused = (Kind(c) = "pause")]
       /\ events' = Emitted(c)
       /\ UNCHANGED <<tasks, finished>>
    \/ /\ Kind(c) = "speed"
       /\ events' = Emitted(c)
       /\ UNCHANGED <<sim, tasks, finished>>
    \/ /\ Kind(c) = "task"          \* rejected, or the AGV is sent, perhaps redirected
       /\ \/ events' = Emitted(c) /\ UNCHANGED tasks
          \/ /\ sim.run # NoCmd
             /\ \E old \in tasks \cup {c} : tasks' = (tasks \ {old}) \cup {c}
             /\ UNCHANGED events
       /\ UNCHANGED <<sim, finished>>

GameThread ==
    /\ inbox # << >>
    /\ Handle(Head(inbox))
    /\ inbox' = Tail(inbox)
    /\ UNCHANGED <<request, backend, received, reports, unreported>>

ReachStation(c) ==
    /\ c \in tasks
    /\ ~sim.paused
    /\ tasks' = tasks \ {c}
    /\ events' = Emitted(c)
    /\ UNCHANGED <<request, backend, inbox, received, sim, finished, reports, unreported>>

\* The duration is over, or a collision halts the run.
RunEnds ==
    /\ ~sim.paused
    /\ EndRun
    /\ UNCHANGED <<request, backend, inbox, received, reports, unreported>>

-----------------------------------------------------------------------------
(* Completion events at the backend *)

LoseEvent(e) ==
    /\ e.stage = "sent"
    /\ events' = events \ {e}
    /\ UNCHANGED <<request, backend, ue5, reports, unreported>>

\* The runs an event may be about; the newest one is taken.
Matching(e) == {i \in DOMAIN runs : runs[i].cmd = e.cmd}

Advanced(e, stage, i) == (events \ {e}) \cup {[e EXCEPT !.stage = stage, !.run = i]}

FindRun(e) ==
    /\ e.stage = "sent"
    /\ \/ /\ Matching(e) = {}
          /\ events' = Advanced(e, "command", 0)
       \/ \E i \in Matching(e) :
             /\ \A j \in Matching(e) : j <= i
             /\ events' = Advanced(e, "found", i)
    /\ UNCHANGED <<request, backend, ue5, reports, unreported>>

UpdateRunStatus(e) ==
    /\ e.stage = "found"
    /\ runs' = [runs EXCEPT ![e.run].status = "completed", ![e.run].kpis = TRUE]
    /\ events' = Advanced(e, "command", 0)
    /\ UNCHANGED <<request, turn, commands, ue5, reports, unreported>>

\* Pause, resume and speed are acknowledged in the chat without a report.
Reportable(c) == Kind(c) \notin {"pause", "resume", "speed"}

HandleCompletionEvent(e) ==
    /\ e.stage = "command"
    /\ commands' = [commands EXCEPT ![e.cmd] = "completed"]
    /\ events' = IF Reportable(e.cmd) THEN Advanced(e, "report", 0) ELSE events \ {e}
    /\ UNCHANGED <<request, turn, runs, ue5, reports, unreported>>

GenerateReport(e) ==
    /\ e.stage = "report"
    /\ reports' = [reports EXCEPT ![e.cmd] = @ + 1]
    /\ events' = events \ {e}
    /\ UNCHANGED <<request, backend, ue5, unreported>>

\* The retrieval for the report raises what neither the gateway nor the ingest
\* catches (a ranking model that answers with JSON, but no object): the row is
\* completed, "generating" is announced, and no report follows.
ReportFails(e) ==
    /\ e.stage = "report"
    /\ unreported' = unreported \cup {e.cmd}
    /\ events' = events \ {e}
    /\ UNCHANGED <<request, backend, ue5, reports>>

-----------------------------------------------------------------------------
TurnStep(t) ==
    \/ SaveCommand(t) \/ Post(t) \/ HttpError(t) \/ Answered(t)
    \/ WaitUntilStopped(t) \/ UpdateCommand(t) \/ Reply(t) \/ Mirror(t)

EventStep(e) ==
    \/ FindRun(e) \/ UpdateRunStatus(e) \/ HandleCompletionEvent(e)
    \/ GenerateReport(e) \/ ReportFails(e)

Next ==
    \/ \E t \in Turns : LookUp(t) \/ TurnStep(t) \/ ReachStation(t)
    \/ GameThread
    \/ RunEnds
    \/ \E e \in events : LoseEvent(e) \/ EventStep(e)

Spec == Init /\ [][Next]_vars

\* Coroutines that have what they wait for get to run, every HTTP request has
\* an answer or a timeout, and UE5 drains its queue.  No client has to write, no
\* run to end, no AGV to arrive, and any event may be lost.
Fairness ==
    /\ \A t \in Turns : WF_vars(TurnStep(t))
    /\ \A c \in Turns : WF_vars(\E e \in events : e.cmd = c /\ EventStep(e))
    /\ WF_vars(GameThread)

FairSpec == Spec /\ Fairness

-----------------------------------------------------------------------------
(* Properties *)

\* One key is one command to the simulator, however often the client sends it
\* and however its turns interleave (issue_robot_command, save_command).
SentOncePerKey == \A c, d \in received : Key(c) = Key(d) => c = d

\* All turns with one key are given the same command.
KeyDecidesCommand ==
    \A t, u \in Turns :
        /\ turn[t].cmd # NoCmd /\ turn[u].cmd # NoCmd
        /\ Key(t) = Key(u)
        => turn[t].cmd = turn[u].cmd

\* An idempotency key stands for one command, for the clients and for UE5.
OneCommandPerKey == SentOncePerKey /\ KeyDecidesCommand

\* No row says that the simulator took a command it never received: errors and
\* retries never become successes (send_robot_command).
AcceptedWasReceived ==
    \A c \in Turns : commands[c] \in {"accepted", "completed"} => c \in received

\* A run has final KPIs, or counts as completed, only when UE5 has ended the
\* run of the command that started it (_ingest_event, update_run).
CompletedRunsFinished ==
    \A i \in DOMAIN runs :
        runs[i].kpis \/ runs[i].status = "completed" => runs[i].cmd \in finished

\* A command is reported on at most once, and never after a report on it failed
\* (handle_completion_event has no check for duplicates: UE5 must not complete a
\* command twice).
ReportedOnce ==
    \A c \in Turns : reports[c] <= 1 /\ (c \in unreported => reports[c] = 0)

\* Once the turn that issued it has had its answer, a completed command stays
\* completed: retries and later events leave it alone (update_command).
OutcomeIsFinal ==
    \A c \in Turns :
        turn[c].pc = "done" /\ commands[c] = "completed" => commands'[c] = "completed"

\* An event whose handler has begun ends in a report, unless it only
\* acknowledges or the retrieval for the report fails (handle_completion_event).
CompletionReported ==
    \A c \in Turns :
        Kind(c) \in {"start", "task"} /\ (\E e \in events : e.cmd = c /\ e.stage # "sent")
            ~> reports[c] > 0 \/ c \in unreported

\* What the rows, the runs and the chat say of a command's outcome is true,
\* said once, and final.
OutcomesAreTrue == [][CompletedRunsFinished' /\ ReportedOnce' /\ OutcomeIsFinal]_vars

\* What became of a command is recorded truly, once and for good, and in the end.
OutcomesAreRecorded == OutcomesAreTrue /\ CompletionReported

\* Expected by the API description, and not kept by the turn of a retry: one
\* key leaves one run in the simulation store (_sync_simulation_lifecycle).
OneRunPerCommand ==
    \A i, j \in DOMAIN runs : runs[i].cmd = runs[j].cmd => i = j
=============================================================================
