--------------------------- MODULE StationCommands ----------------------------
(***************************************************************************)
(* Station commands in AAGVSimController: /agv/command picks an AGV with   *)
(* ADispatcherActor, reserves the station, retargets the AGV, announces    *)
(* robot.moving, and closes the command with robot.command.completed when  *)
(* the AGV docks.  Around it run autonomous deliveries, collisions, and    *)
(* runs that start with staggered AGVs and end at any time.                *)
(*                                                                         *)
(* Abstractions: driving is the guard-free choice of when an AGV arrives   *)
(* (AgvMovement has the details); a score is reduced to the preferences it *)
(* implies; every station is ready; every AGV takes part in every run; a   *)
(* pause only delays these steps.                                          *)
(***************************************************************************)
EXTENDS Integers, Sequences, Fleet

CONSTANTS FirstAgv,                   \* of SpawnedAgvs, the one started at once
          Stations, Pickups, NoStation, \* the registry; its pickup stations
          Cmds, NoCmd,                \* command ids
          Requests                    \* what /agv/command may ask for

ASSUME StationCommandsAssumption ==
  /\ FirstAgv \in Agvs
  /\ Pickups \subseteq Stations /\ NoStation \notin Stations
  /\ NoCmd \notin Cmds
  /\ Requests \subseteq [station : Stations \cup {NoStation}, agv : Agvs \cup {NoAgv},
                        drive : BOOLEAN]

VARIABLES running,    \* bSimRunning, and bRuntimeActorsInitialized
          agv,        \* the AGV actors
          toStart,    \* AGVs whose staggered start timer is set
          reservedBy, \* ReservedByAgvId of each station
          pending,    \* PendingStationCommands, by AGV
          orders,     \* the state of the transport order of each command
          request,    \* the request of each command
          inbox,      \* commands on their way to the game thread
          received,   \* the commands received so far
          moving, completed \* robot.moving and robot.command.completed events sent

commandVars == <<request, received, inbox>>
eventVars == <<moving, completed>>
stationVars == <<running, agv, toStart, reservedBy, pending, orders, commandVars, eventVars>>

NoRequest == [station |-> NoStation, agv |-> NoAgv, drive |-> FALSE]

Parked == [st |-> "idle", runActive |-> FALSE, target |-> NoStation, hasTask |-> FALSE,
           carrying |-> FALSE, order |-> NoCmd]

-----------------------------------------------------------------------------
(* Reading the state.                                                      *)

HasActiveAssignment(a) == agv[a].st # "idle" \/ agv[a].hasTask \/ agv[a].target # NoStation

IsAvailableForDispatch(a) ==
  agv[a].runActive /\ agv[a].st = "idle" /\ ~HasActiveAssignment(a)

Reservable(s, a) == reservedBy[s] \in {NoAgv, a}

Eligible(a, s, requested) ==
  /\ requested \in {NoAgv, a}
  /\ s \in Stations
  /\ agv[a].st # "collided"
  /\ Reservable(s, a)

\* SelectAgvForStation: availability and assignment outweigh distance and
\* battery, so a busy AGV is never preferred to an available one; one that is
\* parked and not started yet may be, since it counts as unassigned.
Selectable(s, requested) ==
  LET eligible == {a \in Agvs : Eligible(a, s, requested)}
  IN  IF \E a \in eligible : IsAvailableForDispatch(a)
      THEN {a \in eligible : ~HasActiveAssignment(a)}
      ELSE eligible

\* ResolveStation and ResolveCommandAgv, for a drive command.
Candidates(c) ==
  IF running /\ request[c].drive THEN Selectable(request[c].station, request[c].agv) ELSE {}

-----------------------------------------------------------------------------
(* What single calls do.                                                   *)

ReleaseReservation(s, a) ==
  [reservedBy EXCEPT ![s] = IF @ = a THEN NoAgv ELSE @]

\* Mutant: the order survives the arrival.
DockedWithOrder(r) == [r EXCEPT !.st = "idle", !.carrying = FALSE, !.hasTask = FALSE,
                                !.target = NoStation]

\* HandleCheckpointTransitions.
Docked(r) == [r EXCEPT !.st = "idle", !.carrying = FALSE, !.hasTask = FALSE,
                       !.target = NoStation, !.order = NoCmd]

\* Mutants: all commands for the station are closed, or the AGV's one is closed
\* only if the redirect interrupted a delivery.
ClosedByStation(a) == {c \in Cmds : moving[c] > 0 /\ request[c].station = agv[a].target}
ClosedIfTasked(a) == IF agv[a].hasTask THEN {pending[a]} \ {NoCmd} ELSE {}

\* The command that OnAgvReachedStation closes, if there is one.
Closed(a) == {pending[a]} \ {NoCmd}

\* Mutant: the commands of the run that ends are kept.
StillPending == pending

NonePending == [a \in Agvs |-> NoCmd]

\* Mutant: commands that drive nothing are forgotten.
AnsweredDrives(c) == IF request[c].drive THEN {c} ELSE {}

\* The commands that the fallback closes at once.
AnsweredNow(c) == {c}

Incremented(f, C) == [c \in Cmds |-> IF c \in C THEN f[c] + 1 ELSE f[c]]

Marked(state, C) == [c \in Cmds |-> IF c \in C THEN state ELSE orders[c]]

\* StartRun of one AGV.
Started(r) == [r EXCEPT !.runActive = TRUE, !.st = "idle"]

\* DispatchIdleAgvs: each available AGV for which some pickup station is eligible.
Dispatched(r) == [r EXCEPT !.st = "toPickup", !.hasTask = TRUE, !.order = NoCmd, !.carrying = FALSE]

HasPickup(a) == \E s \in Pickups : Reservable(s, a)

\* CompleteRuntimeRun, ResetActiveRun: AGVs stop but keep what they were doing,
\* station reservations stay, and nobody is told about pending commands.
EndRun(agvs) ==
  /\ running' = FALSE
  /\ agv' = [a \in Agvs |-> [agvs[a] EXCEPT !.runActive = FALSE]]
  /\ toStart' = {}
  /\ pending' = NonePending

\* ForceCollisionStop of the AGVs in H.
CollidedAgvs(H) == [a \in Agvs |-> IF a \in H THEN [agv[a] EXCEPT !.st = "collided"] ELSE agv[a]]
FailedOrders(H) == {agv[a].order : a \in {b \in H : agv[b].st # "collided"}} \ {NoCmd}

-----------------------------------------------------------------------------
StationInit ==
  /\ running = FALSE
  /\ agv = [a \in Agvs |-> Parked]
  /\ toStart = {}
  /\ reservedBy = [s \in Stations |-> NoAgv]
  /\ pending = [a \in Agvs |-> NoCmd]
  /\ orders = [c \in Cmds |-> "none"]
  /\ request = [c \in Cmds |-> NoRequest]
  /\ received = {} /\ inbox = <<>>
  /\ moving = [c \in Cmds |-> 0] /\ completed = [c \in Cmds |-> 0]

\* HandleAgvCommandRequest on the HTTP thread: queue a task for the game thread.
HandleAgvCommandRequest(c, r) ==
  /\ c \notin received
  /\ received' = received \cup {c}
  /\ request' = [request EXCEPT ![c] = r]
  /\ inbox' = Append(inbox, c)
  /\ UNCHANGED <<running, agv, toStart, reservedBy, pending, orders, eventVars>>

\* The task, when no AGV or no station is found: the command is closed at once.
Fallback ==
  LET c == Head(inbox)
  IN  /\ inbox # <<>>
      /\ inbox' = Tail(inbox)
      /\ Candidates(c) = {}
      /\ completed' = Incremented(completed, AnsweredNow(c))
      /\ UNCHANGED <<running, agv, toStart, reservedBy, pending, orders, request, received,
                     moving>>

\* The task, when the selected AGV takes the command: a command the AGV already
\* had is overwritten, and the reservation of its old station stays.
Direct(a) ==
  LET c == Head(inbox)
      s == request[c].station
  IN  /\ inbox # <<>>
      /\ inbox' = Tail(inbox)
      /\ a \in Candidates(c)
      /\ agv[a].runActive
      /\ reservedBy' = [reservedBy EXCEPT ![s] = a]
      /\ agv' = [agv EXCEPT ![a] = [@ EXCEPT !.st = "toStation", !.target = s, !.order = c,
                                             !.carrying = TRUE]]
      /\ orders' = Marked("inProgress", {c})
      /\ pending' = [pending EXCEPT ![a] = c]
      /\ moving' = Incremented(moving, {c})
      /\ UNCHANGED <<running, toStart, request, received, completed>>

\* The task, when the selected AGV has not been started yet: DirectToStation
\* refuses, the station is released and the command closed.
Reject(a) ==
  LET c == Head(inbox)
  IN  /\ inbox # <<>>
      /\ inbox' = Tail(inbox)
      /\ a \in Candidates(c)
      /\ ~agv[a].runActive
      /\ reservedBy' = [reservedBy EXCEPT ![request[c].station] = NoAgv]
      /\ orders' = Marked("failed", {c})
      /\ completed' = Incremented(completed, {c})
      /\ UNCHANGED <<running, agv, toStart, pending, request, received, moving>>

ExecuteCommand == Fallback \/ \E a \in Agvs : Direct(a) \/ Reject(a)

\* HandleCheckpointTransitions and OnAgvReachedStation.
ReachStation(a) ==
  /\ agv[a].runActive /\ agv[a].st = "toStation"
  /\ agv' = [agv EXCEPT ![a] = Docked(@)]
  /\ orders' = Marked("completed", {agv[a].order} \ {NoCmd})
  /\ pending' = [pending EXCEPT ![a] = NoCmd]
  /\ reservedBy' = IF pending[a] = NoCmd THEN reservedBy
                   ELSE ReleaseReservation(agv[a].target, a)
  /\ completed' = Incremented(completed, Closed(a))
  /\ UNCHANGED <<running, toStart, commandVars, moving>>

UnchangedButAgv == UNCHANGED <<running, toStart, reservedBy, pending, orders, commandVars,
                               eventVars>>

\* The autonomous delivery: dispatch, arrival at a pickup, loading, arrival at a
\* dropoff, unloading.
DispatchIdleAgvs ==
  /\ running
  /\ agv' = [a \in Agvs |-> IF IsAvailableForDispatch(a) /\ HasPickup(a)
                            THEN Dispatched(agv[a]) ELSE agv[a]]
  /\ UnchangedButAgv

HandleStationArrival(a) ==
  /\ agv[a].runActive
  /\ \/ agv[a].st = "toPickup" /\ ~agv[a].carrying
        /\ agv' = [agv EXCEPT ![a].st = "loading"]
     \/ agv[a].st = "toDropoff" /\ agv[a].carrying
        /\ agv' = [agv EXCEPT ![a].st = "unloading"]
  /\ UnchangedButAgv

FinishLoading(a) ==
  /\ agv[a].runActive /\ agv[a].st = "loading"
  /\ agv' = [agv EXCEPT ![a] = [@ EXCEPT !.st = "toDropoff", !.carrying = TRUE]]
  /\ UnchangedButAgv

FinishUnloading(a) ==
  /\ agv[a].runActive /\ agv[a].st = "unloading"
  /\ agv' = [agv EXCEPT ![a] = [@ EXCEPT !.st = "idle", !.carrying = FALSE,
                                         !.hasTask = FALSE, !.order = NoCmd]]
  /\ orders' = Marked("completed", {agv[a].order} \ {NoCmd})
  /\ UNCHANGED <<running, toStart, reservedBy, pending, commandVars, eventVars>>

\* OnOverlapBegin: a driving AGV touches another one, whatever that one does.
Overlap(a, b) ==
  /\ a # b /\ agv[a].runActive
  /\ agv' = CollidedAgvs({a, b})
  /\ orders' = Marked("failed", FailedOrders({a, b}))
  /\ UNCHANGED <<running, toStart, reservedBy, pending, commandVars, eventVars>>

\* The controller's Tick: AGVs that have come too close are stopped, and the run
\* ends when every AGV is stopped.
CheckAgvProximityCollisions(H) ==
  /\ running
  /\ \A a \in H : agv[a].st # "collided"
  /\ Cardinality(H) # 1
  /\ orders' = Marked("failed", FailedOrders(H))
  /\ IF \A a \in Agvs : CollidedAgvs(H)[a].st = "collided"
     THEN EndRun(CollidedAgvs(H))
     ELSE /\ agv' = CollidedAgvs(H)
          /\ UNCHANGED <<running, toStart, pending>>
  /\ UNCHANGED <<reservedBy, commandVars, eventVars>>

\* Every AGV is configured, which leaves its State as it
\* was; the first one starts and may be dispatched, timers start the others.
StartRuntimeSimulation ==
  /\ ~running
  /\ running' = TRUE
  /\ LET configured == [a \in Agvs |-> [Parked EXCEPT !.st = agv[a].st]]
         first      == Started(configured[FirstAgv])
     IN  agv' = [configured EXCEPT ![FirstAgv] =
                   IF HasPickup(FirstAgv) THEN Dispatched(first) ELSE first]
  /\ toStart' = Agvs \ {FirstAgv}
  /\ pending' = NonePending
  /\ UNCHANGED <<reservedBy, orders, commandVars, eventVars>>

StaggeredStart(a) ==
  /\ a \in toStart /\ running
  /\ toStart' = toStart \ {a}
  /\ agv' = [agv EXCEPT ![a] = Started(@)]
  /\ UNCHANGED <<running, reservedBy, pending, orders, commandVars, eventVars>>

\* A stop request, or the end of the run's duration.
CompleteRuntimeRun ==
  /\ running
  /\ EndRun(agv)
  /\ UNCHANGED <<reservedBy, orders, commandVars, eventVars>>

StationNext ==
  \/ \E c \in Cmds, r \in Requests : HandleAgvCommandRequest(c, r)
  \/ ExecuteCommand
  \/ DispatchIdleAgvs
  \/ \E a \in Agvs : \/ ReachStation(a)
                     \/ HandleStationArrival(a)
                     \/ FinishLoading(a)
                     \/ FinishUnloading(a)
                     \/ StaggeredStart(a)
                     \/ \E b \in Agvs : Overlap(a, b)
  \/ \E H \in SUBSET Agvs : CheckAgvProximityCollisions(H)
  \/ StartRuntimeSimulation
  \/ CompleteRuntimeRun

StationSpec == StationInit /\ [][StationNext]_stationVars

\* The game thread runs its tasks and its timers, and a driving AGV gets to its
\* station while its run goes on (AgvMovement), which is not left paused for good:
\* pauses only delay steps and are left out.  Nobody has to send commands, and
\* collisions, starts and ends of runs may or may not happen.
FairStationSpec ==
  /\ StationSpec
  /\ WF_stationVars(ExecuteCommand)
  /\ WF_stationVars(DispatchIdleAgvs)
  /\ \A a \in Agvs : /\ WF_stationVars(ReachStation(a))
                     /\ WF_stationVars(HandleStationArrival(a) \/ FinishLoading(a) \/ FinishUnloading(a))
                     /\ WF_stationVars(StaggeredStart(a))
-----------------------------------------------------------------------------
AgvStates == {"idle", "toPickup", "loading", "toDropoff", "unloading", "toStation", "collided"}

\* Besides the types: no command is announced or closed twice.
StationTypeOK ==
  /\ running \in BOOLEAN
  /\ agv \in [Agvs -> [st : AgvStates, runActive : BOOLEAN, target : Stations \cup {NoStation},
                       hasTask : BOOLEAN, carrying : BOOLEAN, order : Cmds \cup {NoCmd}]]
  /\ toStart \subseteq Agvs
  /\ reservedBy \in [Stations -> Agvs \cup {NoAgv}]
  /\ pending \in [Agvs -> Cmds \cup {NoCmd}]
  /\ orders \in [Cmds -> {"none", "inProgress", "completed", "failed"}]
  /\ request \in [Cmds -> Requests \cup {NoRequest}]
  /\ received \subseteq Cmds
  /\ inbox \in Seq(Cmds)
  /\ moving \in [Cmds -> 0 .. 1] /\ completed \in [Cmds -> 0 .. 1]

\* A command kept as pending is one its AGV is still carrying out: the AGV drives
\* to the very station, which is reserved for it, with the command's order in
\* progress - or a collision has stopped it on the way and failed the order.
PendingOnCourse ==
  \A a \in Agvs : pending[a] # NoCmd =>
    LET c == pending[a]
    IN  /\ running /\ agv[a].order = c /\ agv[a].target = request[c].station
        /\ reservedBy[request[c].station] = a
        /\ \/ agv[a].st = "toStation" /\ agv[a].runActive /\ orders[c] = "inProgress"
           \/ agv[a].st = "collided" /\ orders[c] = "failed"

\* What the backend is told agrees with the transport orders: an announced
\* command is closed exactly when its order is completed, and one that was never
\* announced has no order, or a failed one.
EventsMatchOrders ==
  \A c \in Cmds : /\ moving[c] > 0 => (completed[c] > 0 <=> orders[c] = "completed")
                  /\ moving[c] = 0 => orders[c] \in {"none", "failed"}

\* Two AGVs never drive to the same station by command, whatever happened to
\* the reservation through redirects, rejections and runs that ended early.
NoSharedBerth ==
  \A a, b \in Agvs :
    /\ agv[a].runActive /\ agv[b].runActive
    /\ agv[a].st = "toStation" /\ agv[b].st = "toStation"
    /\ agv[a].target = agv[b].target
    => a = b

\* An AGV that has nothing to do can be dispatched: no leftover flag or target of
\* a finished, redirected or cut-off task keeps an idle AGV out of work for good.
IdleIsAvailable ==
  \A a \in Agvs : agv[a].runActive /\ agv[a].st = "idle" => IsAvailableForDispatch(a)

\* Commands, AGVs and stations agree: commanded AGVs are on course for a station
\* of their own, and the others are there to be sent.
CommandsOnCourse == PendingOnCourse /\ NoSharedBerth /\ IdleIsAvailable

\* The fate of a transport order is final: a collision after the arrival does not
\* turn a completed order into a failed one, nor an arrival the other way round.
FateIsFinal ==
  \A c \in Cmds : orders[c] \in {"completed", "failed"} => orders'[c] = orders[c]

\* Events and orders tell one story, and it does not change afterwards.
OutcomesAgree == [][EventsMatchOrders' /\ FateIsFinal]_stationVars

\* Every command received is answered, by robot.moving or by its completion.
EveryCommandAnswered ==
  \A c \in Cmds : c \in received ~> moving[c] + completed[c] > 0

\* A commanded AGV closes its command, unless it collides, is sent elsewhere or
\* the run ends; a paused run is taken to be resumed.
CommandsClose ==
  \A a \in Agvs, c \in Cmds :
    agv[a].st = "toStation" /\ agv[a].order = c ~>
      completed[c] > 0 \/ agv[a].st = "collided" \/ ~running \/ agv[a].order \in Cmds \ {c}

\* No command is left open: each one is answered, and a commanded AGV closes it.
CommandsAreSettled == EveryCommandAnswered /\ CommandsClose
=============================================================================
