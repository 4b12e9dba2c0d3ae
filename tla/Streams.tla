------------------------------ MODULE Streams ------------------------------
(***************************************************************************)
(* What the web client watches: the events of a session over a WebSocket,  *)
(* replayed and then live, and the telemetry of the simulator over SSE.    *)
(*                                                                         *)
(* Both are coroutines of one event loop and may only be interleaved where *)
(* they wait: on a send, on a queue, on the clock.  Events are numbered in *)
(* the order they are published.  The two share no state, so a behaviour   *)
(* looks at one of them.                                                   *)
(***************************************************************************)
EXTENDS Integers, Sequences

CONSTANTS Connections,  \* WebSocket connections of one session
          MaxEvents,    \* events published
          Agvs,         \* the AGVs UE5 reports
          StaleAfter,   \* _STALE_AFTER_SECONDS
          MaxStarts     \* runs UE5 starts

ASSUME StreamsAssumption == MaxEvents \in Nat /\ StaleAfter \in Nat /\ MaxStarts \in Nat

VARIABLES watched,      \* "events" or "telemetry"
          published,    \* events so far: 1 .. published is the bus's history
          client,       \* each connection, seen from its handler
          subscribed,   \* the connections whose queues the bus knows
          starts,       \* runs started
          emitting,     \* whether UE5 has a run under way, and so sends frames
          hub,          \* the last frames: [agvs, process, age]
          reader,       \* what the SSE coroutine does next
          overlay       \* what the page shows: [agvs, process, hud]

bus == <<published, client, subscribed>>
telemetry == <<starts, emitting, hub, reader, overlay>>
vars == <<watched, bus, telemetry>>

From(a, b) == [i \in 1 .. (IF b < a THEN 0 ELSE b - a + 1) |-> a + i - 1]

Away == [pc |-> "away", there |-> FALSE, todo |-> <<>>, queue |-> <<>>, got |-> <<>>, seen |-> 0, since |-> 0]

Never == StaleAfter + 1
NoFrames == [agvs |-> {}, process |-> FALSE, age |-> Never]
Idle == [agvs |-> {}, process |-> "idle", hud |-> FALSE]

Init == /\ watched \in {"events", "telemetry"}
        /\ published = 0
        /\ client = [c \in Connections |-> Away]
        /\ subscribed = {}
        /\ starts = 0 /\ emitting = FALSE
        /\ hub = NoFrames
        /\ reader = "check"
        /\ overlay = Idle

(***************************************************************************)
(* Session events.                                                         *)
(***************************************************************************)
\* The queues have no bound, so publishing to all of them is one step.
Publish ==
    /\ watched = "events" /\ published < MaxEvents
    /\ published' = published + 1
    /\ client' = [c \in Connections |->
                    IF c \in subscribed THEN [client[c] EXCEPT !.queue = Append(@, published + 1)]
                    ELSE client[c]]
    /\ UNCHANGED <<watched, subscribed, telemetry>>

\* history() copies the events there are; nothing is subscribed yet.
Connect(c) ==
    /\ watched = "events" /\ client[c].pc = "away"
    /\ client' = [client EXCEPT ![c] = [Away EXCEPT !.pc = "replaying", !.there = TRUE,
                                         !.todo = From(1, published), !.seen = published]]
    /\ UNCHANGED <<watched, published, subscribed, telemetry>>

\* The browser goes; its handler notices on its next send.
Leave(c) ==
    /\ client[c].there
    /\ client' = [client EXCEPT ![c].there = FALSE]
    /\ UNCHANGED <<watched, published, subscribed, telemetry>>

\* One event is sent: of the replay, or from the queue.
Replayed(r) == [r EXCEPT !.got = Append(@, Head(r.todo)), !.todo = Tail(@)]
Delivered(r) == [r EXCEPT !.got = Append(@, Head(r.queue)), !.queue = Tail(@)]

\* A failed send of the replay ends the handler, which is not subscribed.
Replay(c) ==
    /\ client[c].pc = "replaying" /\ client[c].todo # <<>>
    /\ client' = [client EXCEPT ![c] = IF @.there THEN Replayed(@) ELSE Away]
    /\ UNCHANGED <<watched, published, subscribed, telemetry>>

Subscribe(c) ==
    /\ client[c].pc = "replaying" /\ client[c].todo = <<>>
    /\ client' = [client EXCEPT ![c].pc = "live", ![c].since = published]
    /\ subscribed' = subscribed \cup {c}
    /\ UNCHANGED <<watched, published, telemetry>>

\* Mutant: the session's whole entry goes.
ForgetSession(c) == {}

\* Mutant: the queue of a handler that ends stays in the set.
KeepQueue(c) == subscribed

Unsubscribe(c) == subscribed \ {c}

Deliver(c) ==
    /\ client[c].pc = "live" /\ client[c].queue # <<>>
    /\ client' = [client EXCEPT ![c] = IF @.there THEN Delivered(@) ELSE Away]
    /\ subscribed' = IF client[c].there THEN subscribed ELSE Unsubscribe(c)
    /\ UNCHANGED <<watched, published, telemetry>>

(***************************************************************************)
(* Telemetry.  The hub keeps the last frame of each AGV and of the         *)
(* process, and one time for all of them.                                  *)
(***************************************************************************)
IsStale == hub.age > StaleAfter
HasLiveData == ~IsStale /\ hub.process
LiveAgvs == IF IsStale THEN {} ELSE hub.agvs
LiveProcess == ~IsStale /\ hub.process

\* External: UE5 sends frames while it has a run, and none to say that it ended.
StartRun == /\ watched = "telemetry" /\ ~emitting /\ starts < MaxStarts
            /\ starts' = starts + 1 /\ emitting' = TRUE
            /\ UNCHANGED <<watched, bus, hub, reader, overlay>>

EndRun == /\ emitting /\ emitting' = FALSE
          /\ UNCHANGED <<watched, bus, starts, hub, reader, overlay>>

Ingest == /\ emitting
          /\ \/ \E a \in Agvs : hub' = [hub EXCEPT !.agvs = @ \cup {a}, !.age = 0]
             \/ hub' = [hub EXCEPT !.process = TRUE, !.age = 0]
          /\ UNCHANGED <<watched, bus, starts, emitting, reader, overlay>>

Tick == /\ hub.age < Never
        /\ hub' = [hub EXCEPT !.age = @ + 1]
        /\ UNCHANGED <<watched, bus, starts, emitting, reader, overlay>>

\* The coroutine checks once and yields three events, each read when it is
\* its turn; then it sleeps for a second.
Relay(from, to, shown) ==
    /\ reader = from /\ reader' = to
    /\ overlay' = shown
    /\ UNCHANGED <<watched, bus, starts, emitting, hub>>

\* A process the hub no longer has is sent as null.
Shown == IF LiveProcess THEN "live" ELSE "null"

RelayAgvs == /\ HasLiveData /\ watched = "telemetry"
             /\ Relay("check", "process", [overlay EXCEPT !.agvs = LiveAgvs])
RelayProcess == Relay("process", "hud", [overlay EXCEPT !.process = Shown])
RelayHud == Relay("hud", "check", [overlay EXCEPT !.hud = LiveProcess])

\* Mutant: the list is emptied, and the rest stays as it was.
ResetListOnly(shown) == [shown EXCEPT !.agvs = {}]

Reset(shown) == Idle

RelayIdle == /\ ~HasLiveData /\ watched = "telemetry"
             /\ Relay("check", "check", Reset(overlay))

Next == \/ Publish
        \/ \E c \in Connections : Connect(c) \/ Leave(c) \/ Replay(c) \/ Subscribe(c) \/ Deliver(c)
        \/ StartRun \/ EndRun \/ Ingest \/ Tick
        \/ RelayAgvs \/ RelayProcess \/ RelayHud \/ RelayIdle

Spec == Init /\ [][Next]_vars

\* The handlers and the coroutine run while they can, and time passes.  UE5, the
\* browsers and the publishers owe nothing.
FairSpec == /\ Spec
            /\ \A c \in Connections : WF_vars(Replay(c)) /\ WF_vars(Subscribe(c)) /\ WF_vars(Deliver(c))
            /\ WF_vars(Tick)
            /\ WF_vars(RelayAgvs) /\ WF_vars(RelayProcess) /\ WF_vars(RelayHud) /\ WF_vars(RelayIdle)

(***************************************************************************)
(* Properties.                                                             *)
(***************************************************************************)
\* The bus knows exactly the queues of the handlers that have subscribed, and
\* the page is only shown AGVs that have sent a frame.
TypeOK ==
    /\ subscribed = {c \in Connections : client[c].pc = "live"}
    /\ \A c \in Connections : client[c].seen <= published /\ client[c].since <= published
    /\ overlay.agvs \subseteq hub.agvs /\ hub.agvs \subseteq Agvs
    /\ hub.age \in 0 .. Never /\ overlay.process \in {"idle", "live", "null"}

\* What a connection has been sent, and what waits for it, is the history it
\* found and then every event since it subscribed, each once and in order,
\* whoever else comes and goes meanwhile (websocket.py 20-29, event_bus.py).
\* The events between the two, seen + 1 .. since, are the gap of the replay.
SubscribersMissNothing ==
    \A c \in Connections :
        /\ client[c].pc = "replaying" => client[c].got \o client[c].todo = From(1, client[c].seen)
        /\ client[c].pc = "live" =>
              client[c].got \o client[c].queue = From(1, client[c].seen) \o From(client[c].since + 1, published)

\* When the run ends and no other begins, the page goes back to idle although
\* UE5 says nothing (http.py 242-250, live_telemetry.py 6-8).
OverlayGoesIdle == watched = "telemetry" => ([]<>emitting \/ <>[](overlay = Idle))
=============================================================================
