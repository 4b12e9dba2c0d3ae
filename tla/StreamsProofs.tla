---------------------------- MODULE StreamsProofs ----------------------------
(***************************************************************************)
(* The session event stream, proved for any number of connections and any  *)
(* number of events: what a subscriber has been sent, with what waits in   *)
(* its queue, is the history it found and every event since it subscribed. *)
(***************************************************************************)
EXTENDS Streams, SequenceTheorems, TLAPS

Client == [pc : {"away", "replaying", "live"}, there : BOOLEAN, todo : Seq(Nat), queue : Seq(Nat),
           got : Seq(Nat), seen : Nat, since : Nat]

\* TypeOK, with the types of the handlers and of the hub spelled out.
Typed ==
    /\ published \in Nat
    /\ client \in [Connections -> Client]
    /\ subscribed = {c \in Connections : client[c].pc = "live"}
    /\ \A c \in Connections : client[c].seen <= published /\ client[c].since <= published
    /\ hub \in [agvs : SUBSET Agvs, process : BOOLEAN, age : 0 .. Never]
    /\ overlay \in [agvs : SUBSET Agvs, process : {"idle", "live", "null"}, hud : BOOLEAN]
    /\ overlay.agvs \subseteq hub.agvs

\* Nothing is queued for a handler before the bus knows it.
QueuesAreLive == \A c \in Connections : client[c].pc # "live" => client[c].queue = <<>>

IInv == Typed /\ QueuesAreLive /\ SubscribersMissNothing

-----------------------------------------------------------------------------
(* Sequences of event numbers.                                             *)

LEMMA FromIsSeq ==
  ASSUME NEW a \in Nat \ {0}, NEW b \in Nat
  PROVE  /\ From(a, b) \in Seq(Nat)
         /\ Len(From(a, b)) = IF b < a THEN 0 ELSE b - a + 1
         /\ \A i \in 1 .. Len(From(a, b)) : From(a, b)[i] = a + i - 1
BY DEF From

LEMMA FromOneIsSeq ==
  ASSUME NEW b \in Nat
  PROVE  From(1, b) \in Seq(Nat)
BY FromIsSeq, 1 \in Nat \ {0}

LEMMA FromNextIsSeq ==
  ASSUME NEW a \in Nat, NEW b \in Nat
  PROVE  From(a + 1, b) \in Seq(Nat)
BY FromIsSeq, a + 1 \in Nat \ {0}

LEMMA FromEmpty ==
  ASSUME NEW b \in Nat
  PROVE  From(b + 1, b) = <<>>
BY DEF From

LEMMA FromGrows ==
  ASSUME NEW a \in Nat, NEW b \in Nat, a <= b
  PROVE  Append(From(a + 1, b), b + 1) = From(a + 1, b + 1)
BY a + 1 \in Nat \ {0}, b + 1 \in Nat DEF From

LEMMA AppendConcat ==
  ASSUME NEW s \in Seq(Nat), NEW t \in Seq(Nat), NEW x \in Nat
  PROVE  s \o Append(t, x) = Append(s \o t, x)
OBVIOUS

LEMMA HeadMoves ==
  ASSUME NEW s \in Seq(Nat), NEW t \in Seq(Nat), t # <<>>
  PROVE  /\ Append(s, Head(t)) \o Tail(t) = s \o t
         /\ Append(s, Head(t)) \in Seq(Nat) /\ Tail(t) \in Seq(Nat)
<1> DEFINE left == Append(s, Head(t)) \o Tail(t)
           right == s \o t
<1>1. /\ Append(s, Head(t)) \in Seq(Nat) /\ Tail(t) \in Seq(Nat)
      /\ Len(Append(s, Head(t))) = Len(s) + 1
      /\ Len(Tail(t)) = Len(t) - 1 /\ Len(t) \in Nat \ {0} /\ Len(s) \in Nat
  OBVIOUS
<1>2. /\ left \in Seq(Nat) /\ right \in Seq(Nat)
      /\ Len(left) = Len(s) + Len(t) /\ Len(right) = Len(s) + Len(t)
  BY <1>1
<1>3. ASSUME NEW i \in 1 .. Len(left) PROVE left[i] = right[i]
  <2>1. CASE i <= Len(s)
    BY <1>1, <1>2, <2>1
  <2>2. CASE i = Len(s) + 1
    BY <1>1, <1>2, <2>2
  <2>3. CASE i > Len(s) + 1
    <3>1. left[i] = Tail(t)[i - (Len(s) + 1)] /\ right[i] = t[i - Len(s)]
      BY <1>1, <1>2, <2>3
    <3>2. Tail(t)[i - (Len(s) + 1)] = t[i - Len(s)]
      BY <1>1, <1>2, <2>3
    <3> QED BY <3>1, <3>2
  <2> QED BY <2>1, <2>2, <2>3, <1>1, <1>2
<1>4. left = right
  <2> HIDE DEF left, right
  <2> QED BY <1>2, <1>3, SeqEqual
<1> QED BY <1>1, <1>4

-----------------------------------------------------------------------------
(* The invariant.                                                          *)

LEMMA InitIInv == ASSUME Init PROVE IInv
<1>1. Away \in Client
  BY DEF Away, Client
<1>2. Typed
  BY <1>1, StreamsAssumption DEF Init, Typed, Away, NoFrames, Never, Idle
<1>3. QueuesAreLive /\ SubscribersMissNothing
  BY DEF Init, Away, QueuesAreLive, SubscribersMissNothing
<1> QED BY <1>2, <1>3 DEF IInv

\* One connection of the invariant, for the steps that change only one.
Complete(r, live, p) ==
    /\ r \in Client /\ r.seen <= p /\ r.since <= p
    /\ r.pc = "live" <=> live
    /\ r.pc # "live" => r.queue = <<>>
    /\ r.pc = "replaying" => r.got \o r.todo = From(1, r.seen)
    /\ r.pc = "live" => r.got \o r.queue = From(1, r.seen) \o From(r.since + 1, p)

LEMMA ConnectionsAreComplete ==
  ASSUME Typed
  PROVE  QueuesAreLive /\ SubscribersMissNothing
           <=> \A c \in Connections : Complete(client[c], c \in subscribed, published)
BY DEF Typed, QueuesAreLive, SubscribersMissNothing, Complete

LEMMA OneConnection ==
  ASSUME IInv, UNCHANGED <<published, telemetry>>, NEW c \in Connections, NEW r,
         client' = [client EXCEPT ![c] = r],
         subscribed' = IF r.pc = "live" THEN subscribed \cup {c} ELSE subscribed \ {c},
         Complete(r, r.pc = "live", published)
  PROVE  IInv'
<1>1. Typed'
  BY DEF IInv, Typed, Complete, telemetry
<1>2. \A d \in Connections : Complete(client'[d], d \in subscribed', published)
  <2> SUFFICES ASSUME NEW d \in Connections
               PROVE  Complete(client'[d], d \in subscribed', published)
    OBVIOUS
  <2>1. CASE d = c
    BY <2>1 DEF IInv, Typed, Complete
  <2>2. CASE d # c
    <3>1. Complete(client[d], d \in subscribed, published)
      BY ConnectionsAreComplete DEF IInv
    <3>2. client'[d] = client[d] /\ (d \in subscribed' <=> d \in subscribed)
      BY <2>2 DEF IInv, Typed
    <3> QED BY <3>1, <3>2 DEF Complete
  <2> QED BY <2>1, <2>2
<1>3. QueuesAreLive' /\ SubscribersMissNothing'
  BY <1>1, <1>2 DEF Typed, QueuesAreLive, SubscribersMissNothing, Complete
<1> QED BY <1>1, <1>3 DEF IInv

LEMMA PublishReachesQueue ==
  ASSUME NEW r \in Client, NEW p \in Nat, Complete(r, TRUE, p)
  PROVE  Complete([r EXCEPT !.queue = Append(@, p + 1)], TRUE, p + 1)
<1> DEFINE new == [r EXCEPT !.queue = Append(@, p + 1)]
<1>1. /\ r.got \in Seq(Nat) /\ r.queue \in Seq(Nat) /\ r.seen \in Nat /\ r.since \in Nat
      /\ r.pc = "live" /\ r.seen <= p /\ r.since <= p
      /\ r.got \o r.queue = From(1, r.seen) \o From(r.since + 1, p)
  BY DEF Complete, Client
<1>2. /\ new \in Client /\ new.pc = "live" /\ new.queue = Append(r.queue, p + 1)
      /\ new.got = r.got /\ new.seen = r.seen /\ new.since = r.since
  <2>1. Append(r.queue, p + 1) \in Seq(Nat)
    BY <1>1
  <2> QED BY <1>1, <2>1 DEF Client
<1>3. r.got \o Append(r.queue, p + 1) = From(1, r.seen) \o From(r.since + 1, p + 1)
  <2> DEFINE found == From(1, r.seen)
             later == From(r.since + 1, p)
  <2>1. found \in Seq(Nat) /\ later \in Seq(Nat) /\ p + 1 \in Nat
    <3>1. found \in Seq(Nat)
      BY <1>1, FromOneIsSeq
    <3>2. later \in Seq(Nat)
      BY <1>1, FromNextIsSeq
    <3> QED BY <3>1, <3>2
  <2>2. Append(later, p + 1) = From(r.since + 1, p + 1)
    BY <1>1, FromGrows
  <2> HIDE DEF found, later
  <2>3. r.got \o Append(r.queue, p + 1) = Append(r.got \o r.queue, p + 1)
    BY <1>1, <2>1, AppendConcat
  <2>4. found \o Append(later, p + 1) = Append(found \o later, p + 1)
    BY <2>1, AppendConcat
  <2> QED BY <1>1, <2>2, <2>3, <2>4 DEF found, later
<1> HIDE DEF new
<1>4. new.seen <= p + 1 /\ new.since <= p + 1
  BY <1>1, <1>2
<1>5. new.got \o new.queue = From(1, new.seen) \o From(new.since + 1, p + 1)
  BY <1>2, <1>3
<1>6. Complete(new, TRUE, p + 1)
  BY <1>2, <1>4, <1>5 DEF Complete
<1> QED BY <1>6 DEF new

LEMMA StepPublish == ASSUME IInv, Publish PROVE IInv'
<1>1. /\ published' = published + 1 /\ published \in Nat
      /\ subscribed' = subscribed /\ UNCHANGED telemetry
      /\ client \in [Connections -> Client]
  BY DEF Publish, IInv, Typed
<1>2. ASSUME NEW c \in Connections PROVE Complete(client'[c], c \in subscribed, published + 1)
  <2>1. Complete(client[c], c \in subscribed, published)
    BY ConnectionsAreComplete DEF IInv
  <2>2. CASE c \in subscribed
    <3>1. client'[c] = [client[c] EXCEPT !.queue = Append(@, published + 1)]
      BY <2>2 DEF Publish
    <3>2. Complete(client[c], TRUE, published)
      BY <2>1, <2>2 DEF Complete
    <3>3. Complete([client[c] EXCEPT !.queue = Append(@, published + 1)], TRUE, published + 1)
      <4> DEFINE r == client[c]
      <4>1. r \in Client /\ published \in Nat
        BY <1>1
      <4> HIDE DEF r
      <4>2. Complete(r, TRUE, published) => Complete([r EXCEPT !.queue = Append(@, published + 1)],
                                                    TRUE, published + 1)
        BY <4>1, PublishReachesQueue
      <4> QED BY <3>2, <4>2 DEF r
    <3> QED BY <2>2, <3>1, <3>3 DEF Complete
  <2>3. CASE c \notin subscribed
    <3>1. client'[c] = client[c]
      BY <2>3 DEF Publish
    <3> QED BY <1>1, <2>1, <2>3, <3>1 DEF Complete, Client
  <2> QED BY <2>2, <2>3
<1>3. Typed'
  <2>1. client' \in [Connections -> Client]
    <3>1. client' = [c \in Connections |-> client'[c]]
      BY DEF Publish
    <3>2. \A c \in Connections : client'[c] \in Client
      BY <1>2 DEF Complete
    <3> QED BY <3>1, <3>2
  <2>2. subscribed' = {c \in Connections : client'[c].pc = "live"}
    BY <1>1, <1>2 DEF Complete, IInv, Typed
  <2>3. \A c \in Connections : client'[c].seen <= published' /\ client'[c].since <= published'
    BY <1>1, <1>2 DEF Complete
  <2> QED BY <1>1, <2>1, <2>2, <2>3 DEF IInv, Typed, telemetry
<1>4. QueuesAreLive' /\ SubscribersMissNothing'
  BY <1>1, <1>2, <1>3 DEF Typed, QueuesAreLive, SubscribersMissNothing, Complete
<1> QED BY <1>3, <1>4 DEF IInv

LEMMA StepConnection ==
  ASSUME IInv, NEW c \in Connections,
         Connect(c) \/ Leave(c) \/ Replay(c) \/ Subscribe(c) \/ Deliver(c)
  PROVE  IInv'
<1> DEFINE r == client[c]
<1>1. /\ r \in Client /\ published \in Nat /\ client \in [Connections -> Client]
      /\ Complete(r, c \in subscribed, published)
      /\ c \in subscribed <=> r.pc = "live"
  BY ConnectionsAreComplete DEF IInv, Typed
<1>2. Complete(Away, FALSE, published)
  BY <1>1 DEF Complete, Away, Client
<1>3. CASE Connect(c)
  <2> DEFINE new == [Away EXCEPT !.pc = "replaying", !.there = TRUE,
                                 !.todo = From(1, published), !.seen = published]
  <2>1. /\ new.pc = "replaying" /\ new.got = <<>> /\ new.queue = <<>>
        /\ new.todo = From(1, published) /\ new.seen = published /\ new.since = 0
        /\ new \in Client
    <3>1. From(1, published) \in Seq(Nat)
      BY <1>1, FromOneIsSeq
    <3>2. /\ Away \in Client
          /\ Away.got = <<>> /\ Away.queue = <<>> /\ Away.since = 0
      BY DEF Away, Client
    <3> QED BY <1>1, <3>1, <3>2 DEF Client
  <2>2. client' = [client EXCEPT ![c] = new] /\ UNCHANGED <<published, subscribed, telemetry>>
    BY <1>3 DEF Connect
  <2>3. c \notin subscribed
    BY <1>1, <1>3 DEF Connect
  <2> HIDE DEF new
  <2>4. Complete(new, FALSE, published)
    BY <1>1, <2>1, FromOneIsSeq DEF Complete
  <2>5. subscribed' = subscribed \ {c}
    BY <2>2, <2>3
  <2> QED BY <2>1, <2>2, <2>4, <2>5, OneConnection
<1>4. CASE Leave(c)
  <2> DEFINE new == [r EXCEPT !.there = FALSE]
  <2>1. /\ new \in Client /\ new.pc = r.pc /\ new.got = r.got /\ new.queue = r.queue
        /\ new.todo = r.todo /\ new.seen = r.seen /\ new.since = r.since
    BY <1>1 DEF Client
  <2>2. client' = [client EXCEPT ![c] = new] /\ UNCHANGED <<published, subscribed, telemetry>>
    BY <1>4 DEF Leave
  <2> HIDE DEF new
  <2>3. Complete(new, new.pc = "live", published)
    BY <1>1, <2>1 DEF Complete
  <2>4. subscribed' = IF new.pc = "live" THEN subscribed \cup {c} ELSE subscribed \ {c}
    BY <1>1, <2>1, <2>2
  <2> QED BY <2>2, <2>3, <2>4, OneConnection
<1>5. CASE Replay(c)
  <2> DEFINE new == IF r.there THEN Replayed(r) ELSE Away
  <2>1. client' = [client EXCEPT ![c] = new] /\ UNCHANGED <<published, subscribed, telemetry>>
    BY <1>5 DEF Replay
  <2>2. r.pc = "replaying" /\ r.todo # <<>> /\ c \notin subscribed
    BY <1>1, <1>5 DEF Replay
  <2>3. Complete(new, FALSE, published) /\ new.pc # "live"
    <3>1. CASE ~r.there
      BY <3>1, <1>2 DEF Away
    <3>2. CASE r.there
      <4>1. r.got \in Seq(Nat) /\ r.todo \in Seq(Nat)
        BY <1>1 DEF Client
      <4>2. /\ new \in Client /\ new.pc = "replaying" /\ new.queue = r.queue
            /\ new.seen = r.seen /\ new.since = r.since
            /\ new.got = Append(r.got, Head(r.todo)) /\ new.todo = Tail(r.todo)
        BY <1>1, <2>2, <3>2, <4>1, HeadMoves DEF Client, Replayed
      <4>3. Append(r.got, Head(r.todo)) \o Tail(r.todo) = r.got \o r.todo
        BY <2>2, <4>1, HeadMoves
      <4> HIDE DEF new
      <4> QED BY <1>1, <2>2, <4>2, <4>3 DEF Complete
    <3> QED BY <3>1, <3>2
  <2> HIDE DEF new
  <2>4. subscribed' = subscribed \ {c}
    BY <2>1, <2>2
  <2> QED BY <2>1, <2>3, <2>4, OneConnection
<1>6. CASE Subscribe(c)
  <2> DEFINE new == [r EXCEPT !.pc = "live", !.since = published]
  <2>1. /\ client' = [client EXCEPT ![c] = new]
        /\ UNCHANGED <<published, telemetry>> /\ subscribed' = subscribed \cup {c}
    BY <1>6 DEF Subscribe
  <2>2. r.pc = "replaying" /\ r.todo = <<>> /\ r.queue = <<>>
    BY <1>1, <1>6 DEF Subscribe, Complete
  <2>3. /\ new \in Client /\ new.pc = "live" /\ new.queue = <<>> /\ new.got = r.got
        /\ new.seen = r.seen /\ new.since = published
    BY <1>1, <2>2 DEF Client
  <2>4. r.got \o <<>> = From(1, r.seen)
    BY <1>1, <2>2 DEF Complete
  <2>5. From(1, r.seen) \o From(published + 1, published) = From(1, r.seen)
    <3>1. From(1, r.seen) \in Seq(Nat)
      BY <1>1, FromOneIsSeq DEF Client
    <3>2. From(published + 1, published) = <<>>
      BY <1>1, FromEmpty
    <3> QED BY <3>1, <3>2
  <2> HIDE DEF new
  <2>6. Complete(new, TRUE, published)
    BY <1>1, <2>3, <2>4, <2>5 DEF Complete
  <2> QED BY <2>1, <2>3, <2>6, OneConnection
<1>7. CASE Deliver(c)
  <2> DEFINE new == IF r.there THEN Delivered(r) ELSE Away
  <2>1. /\ client' = [client EXCEPT ![c] = new] /\ UNCHANGED <<published, telemetry>>
        /\ subscribed' = IF r.there THEN subscribed ELSE subscribed \ {c}
    BY <1>7 DEF Deliver, Unsubscribe
  <2>2. r.pc = "live" /\ r.queue # <<>> /\ c \in subscribed
    BY <1>1, <1>7 DEF Deliver
  <2>3. CASE ~r.there
    <3>1. new = Away /\ new.pc # "live" /\ subscribed' = subscribed \ {c}
      BY <2>1, <2>3 DEF Away
    <3> HIDE DEF new
    <3> QED BY <1>2, <2>1, <3>1, OneConnection
  <2>4. CASE r.there
    <3>1. r.got \in Seq(Nat) /\ r.queue \in Seq(Nat)
      BY <1>1 DEF Client
    <3>2. /\ new \in Client /\ new.pc = "live" /\ new.todo = r.todo
          /\ new.seen = r.seen /\ new.since = r.since
          /\ new.got = Append(r.got, Head(r.queue)) /\ new.queue = Tail(r.queue)
      BY <1>1, <2>2, <2>4, <3>1, HeadMoves DEF Client, Delivered
    <3>3. Append(r.got, Head(r.queue)) \o Tail(r.queue) = r.got \o r.queue
      BY <2>2, <3>1, HeadMoves
    <3>4. subscribed' = subscribed \cup {c}
      BY <2>1, <2>2, <2>4
    <3> HIDE DEF new
    <3>5. Complete(new, TRUE, published)
      BY <1>1, <2>2, <3>2, <3>3 DEF Complete
    <3> QED BY <2>1, <3>2, <3>4, <3>5, OneConnection
  <2> QED BY <2>3, <2>4
<1> QED BY <1>3, <1>4, <1>5, <1>6, <1>7

\* The telemetry leaves the sessions alone.
LEMMA StepTelemetry ==
  ASSUME IInv, \/ StartRun \/ EndRun \/ Ingest \/ Tick
               \/ RelayAgvs \/ RelayProcess \/ RelayHud \/ RelayIdle
  PROVE  IInv'
<1>1. UNCHANGED bus
  BY DEF StartRun, EndRun, Ingest, Tick, RelayAgvs, RelayProcess, RelayHud, RelayIdle, Relay
<1>2. /\ hub' \in [agvs : SUBSET Agvs, process : BOOLEAN, age : 0 .. Never]
      /\ overlay' \in [agvs : SUBSET Agvs, process : {"idle", "live", "null"}, hud : BOOLEAN]
      /\ overlay'.agvs \subseteq hub'.agvs
  <2>1. CASE StartRun \/ EndRun
    BY <2>1 DEF StartRun, EndRun, IInv, Typed
  <2>2. CASE Ingest
    <3>1. 0 \in 0 .. Never
      BY StreamsAssumption DEF Never
    <3>2. hub \in [agvs : SUBSET Agvs, process : BOOLEAN, age : 0 .. Never] /\ overlay' = overlay
      BY <2>2 DEF Ingest, IInv, Typed
    <3>3. ASSUME NEW a \in Agvs, hub' = [hub EXCEPT !.agvs = @ \cup {a}, !.age = 0]
          PROVE  /\ hub' \in [agvs : SUBSET Agvs, process : BOOLEAN, age : 0 .. Never]
                 /\ hub.agvs \subseteq hub'.agvs
      BY <3>1, <3>2, <3>3
    <3>4. CASE hub' = [hub EXCEPT !.process = TRUE, !.age = 0]
      BY <3>1, <3>2, <3>4 DEF IInv, Typed
    <3> QED BY <2>2, <3>2, <3>3, <3>4 DEF Ingest, IInv, Typed
  <2>3. CASE Tick
    BY <2>3, StreamsAssumption DEF Tick, IInv, Typed, Never
  <2>4. CASE RelayAgvs \/ RelayProcess \/ RelayHud \/ RelayIdle
    <3>1. /\ hub' = hub /\ hub.process \in BOOLEAN
          /\ overlay \in [agvs : SUBSET Agvs, process : {"idle", "live", "null"}, hud : BOOLEAN]
      BY <2>4 DEF RelayAgvs, RelayProcess, RelayHud, RelayIdle, Relay, IInv, Typed
    <3>2. LiveAgvs \subseteq hub.agvs /\ LiveProcess \in BOOLEAN /\ Shown \in {"live", "null"}
      BY <3>1 DEF LiveAgvs, LiveProcess, Shown
    <3>3. CASE RelayAgvs
      BY <3>1, <3>2, <3>3 DEF RelayAgvs, Relay, IInv, Typed
    <3>4. CASE RelayProcess
      BY <3>1, <3>2, <3>4 DEF RelayProcess, Relay, IInv, Typed
    <3>5. CASE RelayHud
      BY <3>1, <3>2, <3>5 DEF RelayHud, Relay, IInv, Typed
    <3>6. CASE RelayIdle
      BY <3>1, <3>6 DEF RelayIdle, Relay, Reset, Idle, IInv, Typed
    <3> QED BY <2>4, <3>3, <3>4, <3>5, <3>6
  <2> QED BY <2>1, <2>2, <2>3, <2>4
<1> QED BY <1>1, <1>2 DEF bus, IInv, Typed, QueuesAreLive, SubscribersMissNothing

-----------------------------------------------------------------------------
(* Theorems.                                                               *)

\* Types and the completeness of every stream hold together, inductively.
THEOREM StreamsInvariance == Spec => []IInv
<1>1. ASSUME IInv, [Next]_vars PROVE IInv'
  <2>1. CASE Publish
    BY <1>1, <2>1, StepPublish
  <2>2. ASSUME NEW c \in Connections,
               Connect(c) \/ Leave(c) \/ Replay(c) \/ Subscribe(c) \/ Deliver(c)
        PROVE  IInv'
    BY <1>1, <2>2, StepConnection
  <2>3. CASE \/ StartRun \/ EndRun \/ Ingest \/ Tick
             \/ RelayAgvs \/ RelayProcess \/ RelayHud \/ RelayIdle
    BY <1>1, <2>3, StepTelemetry
  <2>4. CASE UNCHANGED vars
    BY <1>1, <2>4 DEF vars, bus, telemetry, IInv, Typed, QueuesAreLive, SubscribersMissNothing
  <2> QED BY <1>1, <2>1, <2>2, <2>3, <2>4 DEF Next
<1> QED BY <1>1, InitIInv, PTL DEF Spec

\* The bus knows exactly the queues of the live handlers, and the page is shown
\* only AGVs that have sent a frame (websocket.py, event_bus.py, http.py).
THEOREM StreamsTypeCorrect == Spec => []TypeOK
<1>1. IInv => TypeOK
  BY DEF IInv, Typed, TypeOK
<1> QED BY <1>1, StreamsInvariance, PTL

\* However many browsers come and go, a subscriber is sent the history it found
\* and every event since it subscribed, once and in order (websocket.py 20-29).
THEOREM StreamsAreComplete == Spec => []SubscribersMissNothing
<1>1. IInv => SubscribersMissNothing
  BY DEF IInv
<1> QED BY <1>1, StreamsInvariance, PTL
=============================================================================
