# V-CORE in TLA+

V-CORE is a virtual production cell. A UE5 simulator (`src/Source/VCORE`, C++) drives
automated guided vehicles (AGVs) along looped paths between stations; a FastAPI backend
(`src/web/services/chatbot-backend`) turns chat turns into commands for the simulator, keeps
sessions, scenarios and runs in PostgreSQL or in memory, answers questions about them with
language models and a knowledge graph, and shows the operator what happens. This directory
models the parts of both in which order, concurrency or failure decide what is correct, and
the pure algorithms whose results those parts compare.

Every definition that stands for code names its lines in `PROJECT.json` (`map`); below,
`chat_orchestrator.py:933` and the like are lines under
`src/web/services/chatbot-backend/app/`, `AGVSimController.cpp:2137` under
`src/Source/VCORE/Private/`.

## 1. Inventory

### The simulator (UE5)

Two threads matter. HTTP handlers parse a request on the HTTP thread, queue a task for the
game thread and answer `accepted` before the task has run. Ticks, timers, overlap callbacks
and queued tasks run on the game thread, one at a time, so each is one atomic step; what
varies is their order.

| component | state | operations | hard part |
|---|---|---|---|
| `ATrafficManagerActor`, `AIntersectionManager` | per segment: active AGV, FIFO queue, start of each wait; KPI wait counters | request, release, reset, observers | callers retry once per frame in any order; queue and wait map are updated separately |
| `UAGVMovementComponent` with `AAGVActor` | position, approach, flags for waiting and holding, resume state | tick, redirect, collision stop, new run | flags mirror the manager's record; docking is detected from two positions on a loop |
| `AAGVSimController`: station commands | pending command of each AGV | receive, execute, dock, dispatch, start and end a run | a command is received in one state and executed in another; redirects; runs cut short |
| `ADispatcherActor`, `AStationActor`, `UTransportOrder` | reservation of each station, order states | score, reserve, release, complete, fail | reservations outlive redirects and runs |
| `UAGVTaskComponent`, `UAGVTaskRunnerComponent` | task state, loading timers | assign, load, unload | a timer that ends after a redirect |
| `AAGVSimController`: runs | active run, paused, speed, completion timer, WebSocket | start, stop, pause, resume, speed, complete | one run at a time, although HTTP accepts any start; old sockets call back |
| KPI accumulator, scenario verification | counters, checks | record, evaluate | boundary comparisons |
| telemetry, event bus, cinematics, heatmap, UI | copies | observe | none: they do not act on the simulation |

### The backend

An asyncio program: a step runs from one `await` to the next. What was read before an
`await` may be out of date after it. PostgreSQL hands out copies of rows, the in-memory
repository the stored objects themselves.

| component | state | operations | hard part |
|---|---|---|---|
| `robot_orchestrator.py` | command rows | look up by key, insert, send, update | two turns with one key; a request that times out and arrives all the same |
| `ue5_client.py` | none | POST; poll until a stop has taken effect | lost requests and answers |
| `multi_response_graph.py`, `chat_orchestrator.py` | the pending confirmation of a session, mirrored runs | route, plan, hold, confirm, issue, report | turns of one session interleave; answers and completion events race |
| optimisation loop (`chat_orchestrator.py`, `optimization.py`) | a search task and its queue | try a fleet, wait for its completion | events of other commands; events lost; time-outs |
| `event_bus.py`, `websocket.py` | history and queues of a session | publish, subscribe, replay, deliver | a gap between replay and subscription; a browser that is gone |
| `live_telemetry.py`, the SSE stream | last frames with their age | ingest, read, relay | staleness: UE5 sends no last frame |
| `ue5_ingest.py` | run rows | find the run, write status and KPIs, report | events are lost, reordered, and name commands or runs |
| `http.py`, `session_service.py`, `repositories.py` | sessions, messages, commands, scenarios, runs | create, read, update, delete, start, pause, resume, stop, speed | writes of what was read before a delete or another write; deletes of several statements |
| `llm_gateway.py`, `tools/`, `agents/`, `container.py` | readiness | preload, plan, classify, propose a tool call, answer, report | models that decline, write nonsense or numbers out of range, or are not there |
| `ontology.py`, `knowledge_gateway.py` | the memo of graphs | build, look up, answer, search, rerank | an answer from an outdated graph; a reranker that names what it likes |
| `evaluation.py`, `process_model.py` | none | grade, compare, simulate | several tables of thresholds and directions that must agree |

The components meet in five places: an AGV and the traffic manager (function calls within a
frame); the controller, the dispatcher, stations and AGVs (calls and timers); backend to
simulator (HTTP requests, answered before they take effect); simulator to backend (events
posted one by one with no answer awaited, and telemetry frames); and backend to browser (a
WebSocket for each window of a session, one SSE stream for the telemetry).

### What makes each part correct

- *Traffic manager*: one AGV per segment; first come first served; nobody waits for ever; the
  observers and KPI counters tell the truth.
- *Movement*: the AGV's flags agree with the manager; a stopped AGV holds nothing; a commanded
  AGV stops exactly where it should and does get there while its run goes on.
- *Station commands*: every command is answered and, unless overtaken by something, closed;
  what the backend is told agrees with the orders; two AGVs are never sent to one berth.
- *Run control*: what will end a run is set exactly while the run is there to be ended; a
  request that comes late ends nothing else; a row that says how a run ended says the truth.
- *Command lifecycle*: a key is sent once whatever is retried; a success was really delivered;
  outcomes are final; a completion that arrives is reported, once, unless the retrieval for its
  report raises.
- *Chat turns and searches*: what was held for confirmation is issued once; a search compares
  what its own runs measured, finds what the deterministic search finds, and ends.
- *Language models*: nothing a model writes reaches the simulator unchecked; a model that
  declines is believed; the backend becomes ready once its servers are there.
- *Rows*: nothing outlives its parent, nothing deleted comes back.
- *Knowledge*: an answer is about the cell as it is now; a ranking uses each passage found once.
- *Streams*: a subscriber misses nothing from its subscription on (what is published between
  the copy of the history and the subscription is lost, section 4); the page does not stay live
  when the cell is still.

The list of hazards with their lines, and the properties that cover each, is in
`PROJECT.json`.

## 2. Modules

| module | models | code it stands for |
|---|---|---|
| `Fleet` | the AGVs of a level, for the manager, the movement and the commands | – |
| `SegmentRecord` | the reservation record of one segment and what the two calls do to it | `TrafficManagerActor.cpp`, `IntersectionManager.cpp` |
| `SegmentLock` | abstract: each segment is a lock with a holder and a set of waiters | – |
| `TrafficManager` | the manager over all segments, its counters, observers and clock | `TrafficManagerActor.cpp` |
| `AgvMovement` | movement of several AGVs composed with the record of the intersection | `AGVMovementComponent.cpp`, `AGVActor.cpp` |
| `StationCommands` | controller, dispatcher, stations and AGVs around a station command | `AGVSimController.cpp`, `DispatcherActor.cpp`, `AGVActor.cpp`, `StationActor.cpp`, `TransportOrder.cpp`, `AGVTaskRunnerComponent.cpp` |
| `CommandLifecycle` | chat turn, command row, simulator run, mirrored run, completion event, report | `robot_orchestrator.py`, `ue5_client.py`, `multi_response_graph.py`, `chat_orchestrator.py`, `ue5_ingest.py`, `repositories.py`, `AGVSimController.cpp` |
| `RunControl` | the panel's endpoints, the simulator's run with its timers, the events and the run's row | `http.py`, `ue5_client.py`, `ue5_ingest.py`, `repositories.py`, `AGVSimController.cpp` |
| `RunEvaluation` | pure: heat maps, tones, grades, the comparison of runs, the process model, the reference search | `evaluation.py`, `process_model.py`, `optimization.py` |
| `LlmGateway` | providers, preload, and a turn's calls to the models with retries and fallbacks | `llm_gateway.py`, `tools/router.py`, `tools/contracts.py`, `container.py`, `main.py`, `agents/` |
| `ChatTurn` | the turns of one session, their confirmation, the live search, and the run they command | `chat_orchestrator.py`, `multi_response_graph.py`, `optimization.py` |
| `KnowledgeBase` | pure: the ontology graph, its memo, relational answers, reranking | `ontology.py`, `knowledge_gateway.py` |
| `Records` | the rows of both repositories under interleaved requests, and the questions answered from them | `repositories.py`, `http.py`, `session_service.py`, `knowledge_gateway.py` |
| `Streams` | the session's event stream and the telemetry stream | `event_bus.py`, `websocket.py`, `live_telemetry.py`, `http.py` |
| `AgvProofs` | theorems about `AgvMovement` and `StationCommands` | – |
| other `*Proofs` | theorems about `TrafficManager`, `CommandLifecycle`, `RunControl`, `ChatTurn`, `LlmGateway`, `Records`, `Streams` | – |
| `MC*` | constants of the TLC instances | – |

How they compose. `AgvMovement` and `TrafficManager` both use the operators of
`SegmentRecord`: the first with one segment and the AGVs' behaviour, the second with any
number of segments and callers that may ask for anything. `ChatTurn` and `LlmGateway` extend
`RunEvaluation`: the search of the first is compared with the reference search, the report of
the second is computed from the runs. `Records` extends `KnowledgeBase`, whose graphs it
builds from its rows. `CommandLifecycle`, `RunControl`, `ChatTurn` and `Records` look at a
command and its run from four sides: keys, retries and rows; timers, pauses and the world's
time; confirmations and searches; reads, writes and deletes. Each leaves to chance what
another one has.

### State and code

*TrafficManager.* `segments[s]` is an `FTrafficSegment` (`ActiveAgv`, `Queue`,
`WaitStartedAt`); `totalWait` and `waitSamples` are the KPI counters. `RequestReservation`
and `ReleaseReservation` are one call each, counters included; `ResetForRun` is the reset at
the start of a run. `inside`, `opened`, `ticket` and `waitedTicks` are history variables.
Time is counted in ticks, so the equality of the charged and the spent time is exact.

*AgvMovement.* One step is one frame of one AGV (`TickMovement`, approach included), which
requests the segment of its next position, waits or moves, docks, and releases. `granted`
and `waiting` are `bInsideIntersection` and `bWaitingForIntersection`; `seg` is the
manager's record. `active` is `bRunActive` of each AGV, which `Tick` tests, and `paused` is
`bSimPaused`, which stops the world's time. Redirects, collisions, deliveries, pauses,
staggered starts and ends of runs and new runs may occur between any two frames.

*StationCommands.* `inbox` holds the tasks queued for the game thread. `Fallback`, `Direct`
and `Reject` are the three ways in which the task of `HandleAgvCommandRequest` ends.
`pending` is `PendingStationCommands`, `reservedBy` the reservation of each station,
`orders` the transport order of each command. `moving` and `completed` count the events
sent to the backend.

*CommandLifecycle.* `turn[t]` is the local state of a chat turn between two awaits, with the
copies of the rows it holds; `commands` and `runs` are the tables; `inbox`, `sim` and
`tasks` are the part of the simulator that answers; `events` are completion events on their
way, up to the last step of their handler. A command is named by the turn that created it.
`received`, `finished`, `reports` and `unreported` are history; the last one holds the commands
whose report failed (`ReportFails`: the retrieval for it raises after the command's row has been
completed, and nothing tries again).

*RunControl.* `op[o]` is the endpoint that serves request `o`, with the copy of the row it
read before it called the simulator; `rows` is the table, reduced to status, `ended_at` and
where the KPIs came from. `sim` is `bSimRunning`, `ActiveParams.RunId`, `bSimPaused` and
`bRuntimeActorsInitialized`; `timer` and `demo` are the two timer handles; `frozen` is a
global time dilation of zero (the engine clamps it to a tiny positive number, under which no
timer of a run expires in practice). `EndRun` is `SendSimComplete` with everything
`ResetActiveRun` clears. An event is read by the ingest and written in two steps.

*RunEvaluation.* KPIs are integers: rates, throughput and waits in tenths, risk and uptime in
hundredths, `NoKpi` where Python has `None`. `Percent` is `round` with its ties to even.
`Metrics` and `HigherIsBetter` are the code's two tables, kept apart as in the code.

*LlmGateway.* `provider` selects the gateway `container.py` builds; `up` and `loaded` are the
model servers, `status` whether chat requests are accepted. A turn goes through `phase`: plan, intent,
tool, free answer, comparison. `attempts` are the replies to one tool request, `call` the
tool call the turn goes on with, `outcome` and `answer` what became of it. Argument values
are classes (a number in or out of range, the same as text, other text, a JSON boolean): the
router, the normalisation and the rules treat all members of a class alike.

*ChatTurn.* `turn` is the sequence of messages so far; a turn's opening (recording the
message, plan, routing, tool plan) is one step, since nothing it reads is shared with
anybody before `finalize_command`, and what follows is a step per await: save, send, end.
`pending` is `_pending_confirmations[session]`. `search[k]` is the background task with its
candidates, its subscription and its queue; `cell` is the run under way in UE5 and `wire` the
completion events, delivered in any order or never. `demo` is the mode without simulator in
which commands end at once.

*Records.* A request sits in a slot between its reads and its writes. `backend` is chosen at
the start: with `"postgres"` a request holds copies, a delete of a session is two statements
of one transaction that a foreign key may roll back, and keys are checked; with `"memory"`
there are no keys, an update stores its object again, and a request that has not awaited
anything but the repository is not interrupted (`MayRun`). `area` selects sessions or
scenarios: no key relates the two, so behaviours that interleave them show nothing that the
two kinds apart do not. Row contents are kept for runs only. A hit of a vector search carries
its score and the one the lexical ranking gives it; how the two come about is left out. A
ranking model replies with ids, with nothing usable, which falls back to the lexical order, or
with JSON that is no object, which fails the turn (an answer of kind `"error"`).

*Streams.* `client[c]` is the handler of a WebSocket: the history still to send, the queue the
bus appends to, and what it has sent. `seen` and `since` delimit the gap between the copied
history and the subscription. `hub` is the telemetry hub with the age of its last frame,
`reader` the position of the SSE coroutine, `overlay` what the page shows.

## 3. Runs

| run | checks | expected |
|---|---|---|
| `traffic` | `RecordsAreCoherent`, `MutualExclusion`, `ReadSideIsTrue`, `NoOvertaking`, `NoStarvation`, `ImplementsLock` | pass |
| `movement` | `MovementIsSound`, `StopsExactlyAtStation`, `ReachesStation` | pass |
| `movement_exclusive` | `AtMostOneInside` | violated |
| `stations` | `StationTypeOK`, `CommandsOnCourse`, `OutcomesAgree`, `CommandsAreSettled` | pass |
| `commands` | `TypeOK`, `OneCommandPerKey`, `AcceptedWasReceived`, `OutcomesAreRecorded` | pass |
| `commands_retry` | `OneRunPerCommand` | violated |
| `run_control` | `TypeOK`, `TimersFollowRun`, `RowsAreSound`, `EndsAsAsked`, `RunsEnd` | pass |
| `run_control_pause` | `CompletedHasEnded` | violated |
| `llm` | `TypeOK`, `CallsAreSafe`, `DeclinesAreFinal`, `ComparisonsAgree`, `EventuallyReady` | pass |
| `chat` | `TypeOK`, `ConfirmedOnce`, `SearchFindsOptimum`, `OneRunAtATime`, `TurnsAndSearchesEnd` | pass |
| `records` | `TypeOK`, `NoOrphans`, `NothingComesBack`, `AnswersAreCurrent`, `RankedOnce` | pass |
| `streams` | `TypeOK`, `SubscribersMissNothing`, `OverlayGoesIdle` | pass |

Some names stand for several statements about one matter, each defined under its own name:
`RecordsAreCoherent` is `TypeOK` and `QueueCoherent`; `ReadSideIsTrue` is `WaitAccounting`
and `ObserversAgree`; `MovementIsSound` is `TypeOK`, `FlagsMatchManager` and
`NoOrphanedReservation`; `CommandsOnCourse` is `PendingOnCourse`, `NoSharedBerth` and
`IdleIsAvailable`; `OutcomesAgree` is `EventsMatchOrders` and `FateIsFinal`;
`CommandsAreSettled` is `EveryCommandAnswered` and `CommandsClose`; `OneCommandPerKey` is
`SentOncePerKey` and `KeyDecidesCommand`; `OutcomesAreRecorded` is `OutcomesAreTrue` (that is,
`CompletedRunsFinished`, `ReportedOnce` and `OutcomeIsFinal` on every step) and `CompletionReported`.

### Bounds

- `traffic`: three AGVs, two segments. Three AGVs are what it takes to have a holder and an
  order among waiters; two segments show that one does not disturb the other. `MaxWaits = 4`
  is one more than the number of AGVs, so one of them can leave and queue again behind the
  others. `MaxTime = 1` gives waits of length 0 and 1.
- `movement`: two AGVs on a loop of six units with the intersection on units 2 and 3; steps
  of one and three units, so that a frame can stay in the intersection, cross its border or
  jump over it; stations before the intersection, behind it, and on the seam of the loop
  (0 and 6 are the same place, written as the code may compute it). The violating run needs
  steps of one unit only.
- `stations`: two AGVs, one of which starts late; a pickup station and another one; two
  commands, which may name an AGV, leave the choice to the dispatcher, or drive nothing. Two
  commands are enough for a redirect, a rejection and a command from an earlier run.
- `commands`: a turn, its retry with the same key, and a third turn with another key, of the
  kinds that interfere: a start with a stop, pause or speed change, and a station task with
  a start. Each request may be lost, answered with an error, or time out after it arrived;
  each event may be lost or overtaken. Resuming is modelled and proved about, but takes the
  branches of a pause and is left out of the instance. A redirect of one task by another needs
  two task commands and is not reached here; the proofs cover it.
- `run_control`: a start, a request that is a second start or anything about a run, and one
  that is anything but a start. A run may so meet two other requests, or two runs a late
  request for one of them. A pause, a speed change and a resume of one run is beyond the
  instance and left to the proofs, which hold for any number of requests.
- `llm`: six values of `LLM_PROVIDER`, one for each kind of gateway and the alias that is not
  preloaded; one repair retry (the default), six texts and seven model calls, in which every
  argument takes every class that some branch tells from another; five runs with every tone,
  ties, missing values, all verdicts and heat maps with and without mask.
- `chat`: three messages of one session, two at a time, so that a confirmation can meet another
  confirmation, a replacement or a cancellation; one search with up to two AGVs, a cell whose
  rates are 10% and 40%, and goals that one AGV meets, that two meet, and that none meets.
- `records`: four requests, two at a time; one session, two scenarios (a copy beside its
  original), one run. Any race here is one between two requests; a third and fourth let a
  parent be created first and be looked at afterwards. The memo holds two graphs of three
  possible registries, so that an entry is dropped and one is found again. Hit lists of three
  with one below the minimum, reranked to two, with every reply of up to two indices, an unusable
  one and one that is no object.
- `streams`: two windows, four events, so that one window connects while another has events in
  its queue; a staleness of two ticks instead of five seconds, two AGVs and two runs, so that
  frames of the first run may be relayed during the second.

`CHECK_DEADLOCK FALSE` is set for `commands`, `run_control` and their two violating runs,
`chat`, `records` and `streams`: once all requests, turns or events of the instance have been
served, nothing is left to do.

### Fairness

- `TrafficManager`: a queued AGV asks again (it does, on every frame) and an active AGV
  eventually leaves. Nobody is obliged to queue.
- `AgvMovement`: the engine ticks every AGV that has started in a run that is not paused
  (`AGVActor.cpp:94`), for as long as that lasts. Whether there is a run, when it is paused,
  resumed or ended, and redirects and collisions are free, so `ReachesStation` has a clause for
  each: an AGV gets there unless it is redirected or stopped, its run ends, or its run is
  paused. After a resumption it asks the same again, so what it leaves open is a run that
  is paused for good or for ever paused and resumed.
- `StationCommands`: the game thread runs its tasks and timers, and a driving AGV arrives
  unless its run ends. Pauses are not modelled there, so this takes a paused run to be resumed:
  of a run that stays paused `CommandsClose` says nothing. Commands, collisions, starts
  and ends of runs are not assumed.
- `CommandLifecycle`: the backend's coroutines, the game thread and the driving AGV make
  progress. Events may be lost, and nobody has to begin a turn or end a run;
  `CompletionReported` speaks only of events that have reached their handler, and excepts those
  whose report failed (`unreported`).
- `RunControl`: the game thread drains its queue and the world's time goes on, so a timer
  that stays set expires. Endpoints, events and collisions owe nothing. A run that is paused
  may stay so for ever, and `RunsEnd` says no more.
- `LlmGateway`: the preload loop tries again, and a turn's request to a model ends, with a
  reply or its time-out. The servers owe nothing; `EventuallyReady` is about those that come
  up and stay up.
- `ChatTurn`: every await of a turn or a search ends, since database, model and simulator
  requests and the wait for a run have time limits. The simulator and its events owe nothing.
- `Streams`: handlers, the SSE coroutine and the clock go on. UE5, browsers and publishers owe
  nothing.
- `Records` needs none: it makes no statement about what must happen.

### What the passing runs show

The traffic manager grants exclusive, first-come-first-served reservations, its observers
agree with what the next request will be told, and its KPI counters account for every wait.
An AGV's flags never disagree with the manager's record, so a redirect, which clears the
flags without a call to the manager, leaves nothing behind. This holds because the AGV gives
its reservation back within the very frame it was granted in (`NothingStaysReserved`, proved);
for the same reason nobody is ever refused as the code stands (first finding), and the branch
that waits is covered by `traffic` rather than by `movement`.

A station command is always answered, its events agree with its order, and no two AGVs are
sent to one berth, in spite of reservations that survive redirects and runs.

A key is sent to the simulator at most once however turns interleave, all turns with the key
hold one command, no row claims a success that was not delivered, and a run record is
complete only when the simulator's run has ended. A completion that reaches its handler is
reported once, or not at all if the retrieval for the report raises.

Whatever the order of starts, stops, pauses, resumes and changes of speed, the completion
timer belongs to the active run and is never missing while that run is not paused; a stop
that comes late ends no other run. Rows written from old copies may lose a status, but they
never claim final KPIs of a run that goes on, nor an end without its date.

A dangerous command is issued once however many confirmations race. A search that no stop cuts
short ends with the fleet the deterministic search finds, although its queue carries the
events of other commands, and it never asks for a run while one of its own goes on. Every turn
and every search ends, whatever is lost.

Whatever a model writes, the call a turn goes on with has its arguments, of the right types,
and in range with the gateways that check ranges; the rules that take over after nonsense do
not smuggle back a refused value; and a model that declines is neither asked again nor
replaced. The comparison of two runs agrees with the grades given to each.

In PostgreSQL no row outlives its parent and none comes back, although handlers delete and
write what they have read earlier. The fingerprint of the memoised graph misses nothing an
answer depends on, and the reranking keeps each passage once, whichever ids the model names; a
reply that is no object is the only one for which the turn fails instead.

A subscriber gets the history it found and everything since its subscription, once and in
order, and the overlay goes idle by itself when the simulator falls silent.

## 4. Findings

1. *The intersection is not exclusive* (`movement_exclusive`). The release test at the end of
   the frame asks `ShouldRequestTrafficSegment`, which is false as soon as the AGV holds the
   segment. The reservation is therefore released in the frame that granted it, and a second
   AGV may drive in. The documentation says that reservations are exclusive.
2. *A repeated key mirrors a run twice* (`commands_retry`). A turn that is handed an existing
   start command goes on as if it had issued it and creates a second simulation and a second
   running record, which no event will end.
3. *Pausing completes the run's record* (`run_control_pause`). The handlers of pause, resume and
   speed report `robot.command.completed` under the command's identifier, which for the
   panel is the run's own; the ingest takes it for the end of the run.

`PROJECT.json` quotes the line each one contradicts.

Other behaviour met while modelling, which the models keep and no run singles out:

- A second command for an AGV replaces the pending one (`AGVSimController.cpp:2137`); the
  first was announced and is never closed, against `docs/spec/spec_virtual_process.md:533`.
- An AGV that waits for its staggered start still carries the state of the last run, so a run
  may halt as "all collided" before it has started (`AGVSimController.cpp:1424`, against
  `docs/spec/spec_virtual_process.md:88`).
- A stop by the operator ends the candidate a search is waiting for; the search takes the
  partial KPIs as the candidate's (`chat_orchestrator.py:874`). `SearchFindsOptimum` therefore
  speaks of searches that were not cut.
- A search that gives up on a candidate leaves its run going in UE5 (`chat_orchestrator.py:933`),
  and a search that raises dies without a word to the operator.
- A second dangerous command replaces the first one's confirmation (`chat_orchestrator.py:1407`).
- The throughput of the process model is not monotone in the fleet (`process_model.py:112`).
- `llamacpp` and `llama.cpp` are accepted as providers but not preloaded (`container.py:31`):
  the backend says it is ready when the server may not be.
- A JSON boolean passes the router as a station number, since Python's `bool` is an `int`.
- Prose is taken for a decline on the routing gateway.
- A reranker that answers with a JSON array raises an `AttributeError` (`knowledge_gateway.py:269`)
  that neither 221 nor 136 catches: a turn fails with a 500 (`Raises`), and a completion stays
  without its report (`ReportFails`). The docstring at `chat_orchestrator.py:333` has retrieval
  failures swallowed, so that they never fail a turn. `RankedOnce` and `OutcomesAreRecorded` name
  these outcomes and say that there are no others.
- Two concurrent `list_simulations` create two baselines (`http.py:311`); a start whose scenario
  is deleted meanwhile is answered `RUNNING` although it has no row.
- The in-memory repository has no foreign keys: `NoOrphans` and `NothingComesBack` hold for
  PostgreSQL only, and are stated so.
- Events published between the copy of the history and the subscription are lost
  (`websocket.py:20`, against `src/web/docs_pai/api/Chatbot_API명세서_v2.md:154`). `seen` and
  `since` of `Streams` name that gap; `SubscribersMissNothing` says that there is no other.
- The telemetry hub keeps one clock for all its frames (`live_telemetry.py:6`): the first AGV
  frame of a new run makes the process and HUD frames of the last one live again.
- The handler of a closed window stays subscribed until the next event; the history of a
  session is never dropped.

## 5. Proofs

Eight modules of theorems, checked by TLAPS for every value of the constants that satisfies
the named assumptions of the modules. Every safety property of the passing runs is proved; the
assumptions say that constants have their types (numbers are numbers, names are no members of
what they stand outside of) and that AGVs and segments are finitely many.

`TrafficManagerProofs` (`AgvsAssumption`, `BoundsAssumption`, `FinitenessAssumption`):

- `Invariance`: `TypeOK /\ MutualExclusion /\ QueueCoherent` is inductive. Mutual exclusion
  needs the coherence of the queue, since the step that admits an AGV removes one occurrence
  from the queue and must know that there is no other; the removal itself is analysed by the
  lemmas `RemoveSingleShifts` and `RemoveSingleProperties` on the position where it cuts.
- `TypeCorrect`, `GrantsAreExclusive`, `QueuesAreCoherent`, `RecordsStayCoherent` follow.
- `ManagerImplementsLock`: the manager implements `SegmentLock`, with the holder being the
  active AGV and the waiters the set of queued ones. Each call is one step of the lock or a
  stutter (`RequestImplementsLock`, `ReleaseImplementsLock`).
- `NobodyIsOvertaken`: the strengthening is `QueuesInOrder`, that tickets grow along every queue
  and none exceeds the number of waits opened. Joining draws the next ticket
  (`OrderAfterJoining`), leaving from any position keeps the others in order
  (`OrderAfterRemoval`), and the one admitted is the head (`HeadDrewFirst`).
- `WhatIsReadIsTrue`: the two KPI counters and the three observers. The totals are sums over
  AGVs, folded by `FiniteSetsExt`; a first group of lemmas shows that such a fold is the one
  function that adds the members up (`SumsExist`), and so that one term changed changes the sum by the
  difference (`SumChanged`). Then each step moves a wait from "in progress" to
  "charged" without losing a tick, and every segment an observer counts as blocked is one
  whose next request would wait.

`AgvProofs` (`PathAssumption`, `StationCommandsAssumption`, `AgvsAssumption`). Of the movement,
for any number of AGVs, any loop, steps and stations:

- `NothingStaysReserved`: types, and that between frames the record of the intersection is
  empty and no flag is set. This is inductive because the frame that sets
  `bInsideIntersection` also clears it: what makes `MovementIsSound` hold is what makes the
  intersection not exclusive.
- `MovementStaysSound`, and the action property `StationsAreNotMissed`, whose arithmetic is
  that of a move over the seam. Runs may start, be paused and end between any two frames.

Of station commands, for any number of AGVs, stations, stations' types and commands:

- `StationCommandsFit`: the inductive invariant. `PendingOnCourse`, the heart of it, says that
  the AGV of a pending command drives to the station reserved for it. It survives a redirect, a
  rejection and the end of a run only together with who takes part in the run (`RunInv`), what
  an AGV forgets with its state (`AgvsSane`), that a command is untouched until its task has
  run, and its task runs once (`InboxInv`), that an order is in the hands of one AGV and open
  (`OrdersHeld`), and that whoever drives, drives for a command (`DrivesForCommand`).
- `CommandsAreAnsweredOnce` and `CommandsStayOnCourse` follow; that no two AGVs share a berth is
  a consequence of `PendingOnCourse` and `DrivesForCommand`, since a reservation names one AGV.
- `OutcomesStayAgreed`: events agree with orders in every state, and the action property that
  a decided fate stays as it is.

`CommandLifecycleProofs` (`RequestsAssumption`, `NoCmdAssumption`):

- `LifecycleInvariance`: the inductive invariant is the conjunction of four parts. `TypeOK`;
  `KeyInv`, which says that rows are unique by key, that a turn holds a row that exists, that
  only its creator sends a command, and that whatever the simulator received has a row;
  `HoldsCommand`, that a turn that answers has a command; and `DeliveryInv`, that everything
  a success can still come from (an event, an active run, a task, a turn's copy of a row,
  an inbox entry) belongs to a received command. `SentOncePerKey` and `AcceptedWasReceived`
  are not inductive without them.
- `LifecycleTypeCorrect`, `KeysAreSentOnce`, `KeysDecideCommands`, `KeysStandForCommands`,
  `SuccessesWereDelivered` follow from it.
- `OutcomeInvariance`: two further invariants, inductive together with the first one.
  `PlaceInv` says that from its delivery on a command is in one place at most (the queue of the
  game thread, the active run, the work of the stations, an event, the reports), and there
  once: each step takes one command out of one place and puts it into one other. It is what
  keeps the backend, which never looks for duplicates, from reporting twice. `TruthInv` says
  that the event of a start command means that its run has ended, that the handler of an event
  writes the event's own run, and that the copy of a run which a turn will write back was of an
  active run and says nothing false of its KPIs.
- `OutcomesStayTrue`: `OutcomesAreTrue`, the part of `OutcomesAreRecorded` that needs no
  fairness: `ReportedOnce` also says that a report that failed is not made up for.
  `OutcomeIsFinal` adds that a turn writes its own row only, and before it is through.

`RunControlProofs` (`NoOpAssumption`, `OffersAssumption`):

- `RunControlInvariance`: the inductive invariant is `TypeOK`, `TimersFollowRun`, `RowsAreSound`
  and `CopiesSound`. The last is what makes `RowsAreSound` inductive: the copies that endpoints
  and events hold are sound too, since a run that is over stays over. `TimersFollowRun` is
  inductive given the types.
- `RunControlTypeCorrect`, `TimersAgree` and `StaleWritesAreSound` follow from it, and so does
  the action property `RunsEndAsAsked`, whose case of the timer needs that time stands still
  while the run is paused.

`LlmGatewayProofs` (`GatewayAssumption`, for any texts, model calls, runs and retries):

- `GatewayInvariance`: the safety properties with `Underway`, which says that a turn still in
  progress has a retry left and no decline among its replies. The lemmas on `Valid`,
  `Normalized` and `RuleBasedCall` show that each path to a call ends in the checks.
- `GatewayTypeCorrect`, `GatewayCallsAreSafe`, `GatewayDeclinesAreFinal`,
  `GatewayComparisonsAgree` follow; the last one for all integer KPIs, from the agreement of
  the two tables.

`ChatTurnProofs` (`ChatAssumption`; any number of turns and searches, any texts, fleets, goals
and measured rates):

- `InductiveInvariant`: `Shapes` types everything. `TurnInv` gives each question asked before a
  dangerous command a single owner: the session, a turn about to issue, or a command
  (`AsksAreUnique`), and `ConfirmedOnce` is the part of it that is about commands. `SearchInv`
  says whose run is under way and which events are on the wire (`StartsAreOwned`,
  `EventsSound`, `RunsApart`), and what a search that was not cut short has seen of the fleets
  it has passed (`Progress`).
- `ChatTypes`, `ConfirmationIsTakenOnce`, `RunsOfASearchAreApart`, and `LiveSearchIsRight`: the
  search over live runs, however their events come in, ends with what the deterministic
  search over the same rates finds. `OptimumIsLargest` is the lemma about the latter, a
  recursive function over fleet sizes, that it rests on.

`RecordsProofs` (`RecordsAssumption`, `AnswersAssumption`; any number of requests, slots, rows,
stations and hits). Over PostgreSQL:

- `RowsInvariance`: every message, command and run has its parent, and the copy of a run that a
  request holds belongs to the scenario of the row with its id, if that row still exists. The
  second part is what an update needs: it writes the copy's scenario too.
- `RowsAreNotOrphaned` and the action property `RowsStayDeleted` follow.

Over either repository:

- `AnswersInvariance`: `TypeInv`, in which requests name rows that were given once, since the
  in-memory update stores such a row again; `MemoInv`, that every entry of the memo is the graph
  its key describes and no key is there twice; `AnswerInv`, what is said of each answer.
  `RowTypesHold` and `MemoAnswersAreCurrent` follow; the second rests on `FingerprintIs`, that
  the fingerprint loses nothing the graph is built from.
- `ChunksAreRankedOnce`: both rankings return each chunk once, whatever the scores and whichever
  ids the model names, and a turn is given an error in their place only when chunks were found
  and the reply was no object. The lemmas go from the existence of an arrangement of a finite set by an
  order (`ArrangementExists`, by induction on its size) over what stands at some positions
  (`KeptIs`) to the lists that are joined and cut (`JoinedDifferent`, `LongestIs`).

`StreamsProofs` (`StreamsAssumption`, any number of windows and events):

- `StreamsInvariance`: types, `SubscribersMissNothing`, and that a handler the bus does not know
  has an empty queue. `StreamsTypeCorrect` and `StreamsAreComplete` follow.

Only model-checked: everything temporal under fairness (`NoStarvation`, `ReachesStation`,
`CommandsAreSettled`, `CompletionReported`, `RunsEnd`, `EventuallyReady`,
`TurnsAndSearchesEnd`, `OverlayGoesIdle`), which needs `ENABLED`.

Three ways of writing the model come from the proofs. Induction is on sets of numbers, through
`WFMin` and the well-foundedness of `<`, because the library's induction theorems take an
operator and the provers cannot instantiate those. Recursive functions and folds are reasoned
about through the equation their `CHOOSE` satisfies, once a function that satisfies it is shown
to exist. And `KnowledgeBase` states sorting and selection by what they return (`Arranged`,
`Kept`), since `SortSeq` and `SelectSeq` have no definition the prover could expand.

## 6. Plan

The order is by how much of the system's correctness hangs on a part.

1. *Traffic manager* (done): `SegmentRecord`, `SegmentLock`, `TrafficManager`, with the
   refinement checked and proved.
2. *Movement* (done): `AgvMovement`, composed with the segment record, checked and proved.
3. *Station commands* (done): `StationCommands`, with its safety properties proved.
4. *Command lifecycle* (done): `CommandLifecycle`, with its theorems.
5. *Run control* (done): `RunControl`, with its safety properties proved.
6. *Turns and searches* (done): `ChatTurn` over `RunEvaluation`, with its safety properties proved.
7. *Language models* (done): `LlmGateway`, with its safety properties proved.
8. *Rows and knowledge* (done): `Records` over `KnowledgeBase`, with its safety properties proved.
9. *Streams* (done): `Streams`, with its safety properties proved.
10. *Left to model*: the controller's WebSocket with the callbacks of replaced sockets; the KPI
    accumulator and the acceptance checks as pure operators; the telemetry collector.

## 7. Not modelled

- Geometry, splines, collision volumes, speed and battery as numbers: they decide when an
  AGV arrives or collides, which the models leave open.
- Presentation and telemetry on the simulator's side: copies that nothing reads back.
- StateTree tasks: no StateTree is bound at run time, the actors drive their components.
- The KPI accumulator, scenario verification and the station registry: sequential counters,
  comparisons and seeding, without waits or callers that interleave.
- Prompts, the wording of answers, the regular expressions that read texts, embeddings and
  the vector store: their results are inputs of the models.
- The telemetry collector, the demo services, seeding, benchmarks, and the web client.
- A restart of the backend: pending confirmations, searches and event histories live in
  memory and are gone; the code recovers none of them.
- In `StationCommands`: pausing (it only delays steps), runs with fewer AGVs than were
  spawned, and the archive of completed orders.
- In `RunControl`: the speed as a number, progress events, the duration of a run, and the
  console command that starts a test run without the backend.
- In `CommandLifecycle`: the ingest also accepts `robot.command.failed`, which the simulator
  never sends; it is left out.
- In `Records`: users, connections and the creation of the schema; the content of rows other
  than runs.
