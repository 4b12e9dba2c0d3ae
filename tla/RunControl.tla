----------------------------- MODULE RunControl ------------------------------
(***************************************************************************)
(* Simulation runs driven from the operator panel:                         *)
(*   http.py               run, pause, resume, stop and speed endpoints    *)
(*   AGVSimController.cpp  /sim/start, /sim/stop, ..., the timers that end *)
(*                         a run, and the events it posts                  *)
(*   ue5_ingest.py         the event that updates the run's record         *)
(* An endpoint reads the run's row, calls the simulator, and writes its    *)
(* copy of the row back; events do the same meanwhile.  A run is named by  *)
(* the request that created it.                                            *)
(*                                                                         *)
(* Abstractions: a row is what the result page depends on; the duration of *)
(* a run is the choice of when its timer fires; of the world's time only   *)
(* matters whether it goes or stands still (the engine lets no dilation    *)
(* reach zero, but stays close enough).                                    *)
(***************************************************************************)
EXTENDS Sequences

CONSTANTS Ops,     \* requests of the panel
          NoOp,    \* no request
          Offers   \* what each request may ask for

Kinds == {"run", "pause", "resume", "stop", "speed"}

ASSUME NoOpAssumption == NoOp \notin Ops
ASSUME OffersAssumption == Offers \in [Ops -> SUBSET Kinds]

VARIABLES op,       \* the endpoint that serves each request, with its copy of the row
          rows,     \* simulation_runs
          inbox,    \* requests queued for the game thread
          sim,      \* the active run: bSimRunning, ActiveParams.RunId, bSimPaused,
                    \* bRuntimeActorsInitialized
          timer,    \* SimulationCompleteTimerHandle is set
          demo,     \* DemoAutoCompleteTimerHandle is set
          frozen,   \* the world's time stands still (a time dilation of zero)
          events,   \* completion events, from UE5 to the end of their handler
          finished  \* history: the runs that have ended

backend == <<op, rows>>
clock == <<timer, demo, frozen>>
vars == <<backend, inbox, sim, clock, events, finished>>

Ended == {"stopped", "completed", "failed"}
Row == [status : {"none", "starting", "running", "paused"} \cup Ended,
        dated : BOOLEAN,                       \* ended_at is set
        kpis : {"none", "live", "final"}]
Event == [op : Ops, run : Ops, final : BOOLEAN, stage : {"sent", "read"}, copy : Row]

NoRow == [status |-> "none", dated |-> FALSE, kpis |-> "none"]
NoRun == [run |-> NoOp, paused |-> FALSE, runtime |-> FALSE]

Running == sim.run # NoOp

Init ==
  /\ op = [o \in Ops |-> [pc |-> "idle", kind |-> "run", run |-> o, copy |-> NoRow]]
  /\ rows = [o \in Ops |-> NoRow]
  /\ inbox = <<>>
  /\ sim = NoRun
  /\ timer = FALSE /\ demo = FALSE /\ frozen = FALSE
  /\ events = {}
  /\ finished = {}

-----------------------------------------------------------------------------
(* The endpoints.                                                          *)

\* run_simulation creates the row, the others read it.
CreateRun(o) ==
  LET row == [NoRow EXCEPT !.status = "starting"]
  IN  /\ op[o].pc = "idle" /\ "run" \in Offers[o]
      /\ rows' = [rows EXCEPT ![o] = row]
      /\ op' = [op EXCEPT ![o] = [pc |-> "call", kind |-> "run", run |-> o, copy |-> row]]
      /\ UNCHANGED <<inbox, sim, clock, events, finished>>

GetRun(o, kind, r) ==
  /\ op[o].pc = "idle"
  /\ rows[r].status # "none"
  /\ op' = [op EXCEPT ![o] = [pc |-> "call", kind |-> kind, run |-> r, copy |-> rows[r]]]
  /\ UNCHANGED <<rows, inbox, sim, clock, events, finished>>

\* The simulator queues the request and answers, or cannot be reached.
ProxyControl(o) ==
  /\ op[o].pc = "call"
  /\ \/ /\ inbox' = Append(inbox, o)
        /\ op' = [op EXCEPT ![o].pc = "queued"]
     \/ /\ op' = [op EXCEPT ![o].pc = "refused"]
        /\ UNCHANGED inbox
  /\ UNCHANGED <<rows, sim, clock, events, finished>>

\* Mutant: a stopped run keeps its ended_at.
WrittenUndated(kind, row, accepted) ==
  CASE kind = "run" /\ accepted  -> [row EXCEPT !.status = "running"]
    [] kind = "run" /\ ~accepted -> [row EXCEPT !.status = "failed", !.dated = TRUE]
    [] kind = "pause"  -> [row EXCEPT !.status = "paused"]
    [] kind = "resume" -> [row EXCEPT !.status = "running"]
    [] kind = "stop"   -> [row EXCEPT !.status = "stopped", !.kpis = "live"]
    [] OTHER -> row

\* The row an endpoint writes; only run_simulation looks at the answer.
Written(kind, row, accepted) ==
  CASE kind = "run" /\ accepted  -> [row EXCEPT !.status = "running"]
    [] kind = "run" /\ ~accepted -> [row EXCEPT !.status = "failed", !.dated = TRUE]
    [] kind = "pause"  -> [row EXCEPT !.status = "paused"]
    [] kind = "resume" -> [row EXCEPT !.status = "running"]
    [] kind = "stop"   -> [status |-> "stopped", dated |-> TRUE, kpis |-> "live"]
    [] OTHER -> row

\* update_run writes the whole row; an answer that comes too late is a refusal.
UpdateRun(o) ==
  /\ op[o].pc \in {"queued", "refused"}
  /\ \E accepted \in {FALSE, op[o].pc = "queued"} :
       rows' = [rows EXCEPT ![op[o].run] = Written(op[o].kind, op[o].copy, accepted)]
  /\ op' = [op EXCEPT ![o].pc = "done", ![o].copy = NoRow]
  /\ UNCHANGED <<inbox, sim, clock, events, finished>>

-----------------------------------------------------------------------------
(* The simulator.                                                          *)

\* The event names the request, and its payload's run, or the request again.
Emitted(o, r, final) ==
  events \cup {[op |-> o, run |-> r, final |-> final, stage |-> "sent", copy |-> NoRow]}

\* SendSimComplete: the event is sent, the world's time goes on at normal speed,
\* and all timers are cleared.
EndRun ==
  /\ events' = Emitted(sim.run, sim.run, TRUE)
  /\ finished' = finished \cup {sim.run}
  /\ sim' = NoRun
  /\ timer' = FALSE /\ demo' = FALSE /\ frozen' = FALSE

\* A start while a run is active is dropped.  If the actors cannot be spawned,
\* the demo's own timer ends the run.
HandleSimStart(r) ==
  /\ IF Running THEN UNCHANGED <<sim, clock>>
     ELSE \E runtime \in BOOLEAN :
            /\ sim' = [run |-> r, paused |-> FALSE, runtime |-> runtime]
            /\ timer' = runtime /\ demo' = ~runtime
            /\ frozen' = FALSE
  /\ UNCHANGED <<events, finished>>

\* Mutant: the run id of the request is not looked at.
StopsAnything(r) == Running

Stops(r) == Running /\ r = sim.run

HandleSimStop(r) ==
  IF Stops(r) THEN EndRun ELSE UNCHANGED <<sim, clock, events, finished>>

\* Pausing and resuming ask for no run id: the active run is meant.
HandleSimPause(o) ==
  IF Running
  THEN /\ sim' = [sim EXCEPT !.paused = TRUE]
       /\ timer' = FALSE /\ frozen' = TRUE
       /\ events' = Emitted(o, op[o].run, FALSE)
       /\ UNCHANGED <<demo, finished>>
  ELSE UNCHANGED <<sim, clock, events, finished>>

\* Mutant: the timer that the pause has cleared is not set again.
LeftAlone == timer

\* RescheduleSimulationCompleteTimer.
Rescheduled == Running

HandleSimResume(o) ==
  IF Running
  THEN /\ sim' = [sim EXCEPT !.paused = FALSE]
       /\ timer' = Rescheduled /\ frozen' = FALSE
       /\ events' = Emitted(o, op[o].run, FALSE)
       /\ UNCHANGED <<demo, finished>>
  ELSE UNCHANGED <<sim, clock, events, finished>>

\* Mutant: a paused run gets its timer and its speed at once.
AppliesAlways == TRUE

\* While a run is paused, a new speed is only noted.
AppliesSpeed == ~sim.paused

HandleSimSpeed(o) ==
  /\ IF AppliesSpeed THEN timer' = Running /\ frozen' = FALSE
                     ELSE UNCHANGED <<timer, frozen>>
  /\ events' = Emitted(o, op[o].run, FALSE)
  /\ UNCHANGED <<sim, demo, finished>>

GameThread ==
  LET o == Head(inbox)
  IN  /\ inbox # <<>>
      /\ inbox' = Tail(inbox)
      /\ \/ op[o].kind = "run" /\ HandleSimStart(o)
         \/ op[o].kind = "stop" /\ HandleSimStop(op[o].run)
         \/ op[o].kind = "pause" /\ HandleSimPause(o)
         \/ op[o].kind = "resume" /\ HandleSimResume(o)
         \/ op[o].kind = "speed" /\ HandleSimSpeed(o)
      /\ UNCHANGED backend

\* Timers count the world's time.
TimerExpires ==
  /\ Running /\ ~frozen
  /\ timer \/ demo
  /\ EndRun
  /\ UNCHANGED <<backend, inbox>>

ChecksCollisions == Running /\ ~sim.paused /\ sim.runtime

\* CheckAgvProximityCollisions has stopped the last AGV.
CollisionHalt ==
  /\ ChecksCollisions
  /\ EndRun
  /\ UNCHANGED <<backend, inbox>>

-----------------------------------------------------------------------------
(* Completion events at the backend: update_run_status reads and writes.   *)

LoseEvent(e) ==
  /\ e.stage = "sent"
  /\ events' = events \ {e}
  /\ UNCHANGED <<backend, inbox, sim, clock, finished>>

ReadRun(e) ==
  /\ e.stage = "sent"
  /\ events' = (events \ {e}) \cup {[e EXCEPT !.stage = "read", !.copy = rows[e.run]]}
  /\ UNCHANGED <<backend, inbox, sim, clock, finished>>

\* Mutant: the event's own name is taken for the status.
CompletedByName(e) ==
  [status |-> "robot.command.completed", dated |-> TRUE,
   kpis |-> IF e.final THEN "final" ELSE e.copy.kpis]

\* The event's KPIs, or the ones the row had.
Completed(e) ==
  [status |-> "completed", dated |-> TRUE, kpis |-> IF e.final THEN "final" ELSE e.copy.kpis]

UpdateRunStatus(e) ==
  /\ e.stage = "read"
  /\ rows' = [rows EXCEPT ![e.run] = Completed(e)]
  /\ events' = events \ {e}
  /\ UNCHANGED <<op, inbox, sim, clock, finished>>

-----------------------------------------------------------------------------
Next ==
  \/ \E o \in Ops : \/ CreateRun(o)
                    \/ \E kind \in Offers[o] \ {"run"}, r \in Ops : GetRun(o, kind, r)
                    \/ ProxyControl(o)
                    \/ UpdateRun(o)
  \/ GameThread
  \/ TimerExpires
  \/ CollisionHalt
  \/ \E e \in events : LoseEvent(e) \/ ReadRun(e) \/ UpdateRunStatus(e)

Spec == Init /\ [][Next]_vars

\* World time goes on, so a timer that stays set expires; the game thread drains
\* its queue.  Nobody has to send requests or to answer them.
FairSpec == Spec /\ WF_vars(GameThread) /\ WF_vars(TimerExpires)

-----------------------------------------------------------------------------
TypeOK ==
  /\ op \in [Ops -> [pc : {"idle", "call", "queued", "refused", "done"}, kind : Kinds,
                     run : Ops, copy : Row]]
  /\ rows \in [Ops -> Row]
  /\ inbox \in Seq(Ops)
  /\ sim \in [run : Ops \cup {NoOp}, paused : BOOLEAN, runtime : BOOLEAN]
  /\ timer \in BOOLEAN /\ demo \in BOOLEAN /\ frozen \in BOOLEAN
  /\ events \subseteq Event
  /\ finished \subseteq Ops

\* Timers and time follow the run through every order of requests: nothing is
\* left set for the next run, an active run always has something that will end
\* it, and the world stands still exactly while a run is paused.
TimersFollowRun ==
  /\ timer \/ demo => Running
  /\ Running => timer \/ demo \/ sim.paused
  /\ timer => ~sim.paused
  /\ frozen <=> Running /\ sim.paused

\* A request ends a run only by stopping that very run, however late it comes,
\* and a paused run ends by nothing else.
EndsAsAsked ==
  [][Running /\ sim'.run # sim.run =>
       /\ inbox' # inbox => op[Head(inbox)].kind = "stop" /\ op[Head(inbox)].run = sim.run
       /\ sim.paused => inbox' # inbox]_vars

\* Final KPIs are recorded for runs that have ended in the simulator, and a row
\* that says that its run has ended has a date of the end, although all the rows
\* written were read before something else happened.
RowsAreSound ==
  \A r \in Ops : /\ rows[r].kpis = "final" => r \in finished
                 /\ rows[r].status \in Ended => rows[r].dated

\* Whoever changes the speed and however often, a run that is not paused ends.
RunsEnd == \A r \in Ops : sim.run = r ~> sim.run # r \/ sim.paused

\* "Proxy UE5 /sim/pause and mark run paused": a run counts as completed only
\* when it has ended in the simulator.
CompletedHasEnded ==
  \A r \in Ops : rows[r].status = "completed" => r \in finished
=============================================================================
