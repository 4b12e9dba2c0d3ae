--------------------------------- MODULE AgvProofs ---------------------------------
(***************************************************************************)
(* What the AGVs do, proved for every number of AGVs.                      *)
(*                                                                         *)
(* On the path (AgvMovement): for every loop, intersection, step and       *)
(* station, no AGV holds the intersection or stands in line for it between *)
(* frames: what keeps flags and manager in step is that a reservation      *)
(* never outlives the frame that made it.                                  *)
(*                                                                         *)
(* Under station commands (StationCommands): for every set of commands and *)
(* stations, an announced command stays on course until the arrival, the   *)
(* collision or the end of the run that decides it, and its order and its  *)
(* event then agree for good.  The two models share the AGVs and nothing   *)
(* else.                                                                   *)
(***************************************************************************)
EXTENDS AgvMovement, StationCommands, TLAPS, SequenceTheorems

Typed ==
  /\ active \in [Agvs -> BOOLEAN] /\ paused \in BOOLEAN
  /\ st \in [Agvs -> States]
  /\ pos \in [Agvs -> 0 .. PathLength - 1]
  /\ toPath \in [Agvs -> 0 .. Approach]
  /\ target \in [Agvs -> Targets]
  /\ resume \in [Agvs -> Driving]

NothingReserved ==
  /\ seg = EmptySegment
  /\ waiting = [a \in Agvs |-> FALSE]
  /\ granted = [a \in Agvs |-> FALSE]

IInv == Typed /\ NothingReserved

-----------------------------------------------------------------------------
(* The intersection and the loop.                                          *)

LEMMA OnlyOneQueued == ASSUME NEW a PROVE RemoveSingle(<<a>>, a) = <<>>
<1> DEFINE q == <<a>>
           found == {i \in DOMAIN q : q[i] = a}
<1>1. found = {1} /\ Len(q) = 1
  OBVIOUS
<1>2. RemoveSingle(q, a) = RemoveAt(q, CHOOSE i \in found : \A j \in found : i <= j)
  BY <1>1 DEF RemoveSingle
<1>3. (CHOOSE i \in found : \A j \in found : i <= j) = 1
  BY <1>1
<1>4. RemoveAt(q, 1) = <<>>
  BY <1>1 DEF RemoveAt
<1> QED BY <1>2, <1>3, <1>4

LEMMA NobodyQueued == ASSUME NEW a PROVE RemoveSingle(<<>>, a) = <<>>
BY DEF RemoveSingle

LEMMA EmptyHasNobody ==
  ASSUME NEW a \in Agvs
  PROVE  EmptySegment.active # a /\ ~IsQueued(EmptySegment, a)
BY AgvsAssumption DEF EmptySegment, IsQueued, Contains

LEMMA FieldsDequeued ==
  ASSUME NEW x, NEW q, NEW w, NEW a
  PROVE  Dequeued([active |-> x, queue |-> q, waitStartedAt |-> w], a)
           = [active |-> x, queue |-> RemoveSingle(q, a), waitStartedAt |-> [w EXCEPT ![a] = NotWaiting]]
<1> DEFINE r == [active |-> x, queue |-> q, waitStartedAt |-> w]
<1>1. r.active = x /\ r.queue = q /\ r.waitStartedAt = w
  OBVIOUS
<1>2. Dequeued(r, a) = [r EXCEPT !.queue = RemoveSingle(r.queue, a),
                                 !.waitStartedAt = [r.waitStartedAt EXCEPT ![a] = NotWaiting]]
  BY DEF Dequeued
<1> QED BY <1>1, <1>2

\* A request of the free intersection is granted.
LEMMA FreeIsGranted ==
  ASSUME NEW a \in Agvs, NEW t \in Nat
  PROVE  AfterRequest(EmptySegment, a, t)
           = [active |-> a, queue |-> <<>>, waitStartedAt |-> [b \in Agvs |-> NotWaiting]]
<1>1. Enqueued(EmptySegment, a, t)
        = [active |-> NoAgv, queue |-> <<a>>,
           waitStartedAt |-> [b \in Agvs |-> IF b = a THEN t ELSE NotWaiting]]
  <2>1. Enqueued(EmptySegment, a, t)
          = [EmptySegment EXCEPT !.queue = Append(@, a), !.waitStartedAt[a] = t]
    BY EmptyHasNobody DEF Enqueued
  <2> DEFINE none == [b \in Agvs |-> NotWaiting]
  <2>2. [none EXCEPT ![a] = t] = [b \in Agvs |-> IF b = a THEN t ELSE NotWaiting]
    OBVIOUS
  <2>3. Append(<<>>, a) = <<a>>
    OBVIOUS
  <2>4. EmptySegment = [active |-> NoAgv, queue |-> <<>>, waitStartedAt |-> none]
    BY DEF EmptySegment
  <2> HIDE DEF none
  <2>5. Enqueued(EmptySegment, a, t)
          = [active |-> NoAgv, queue |-> Append(<<>>, a), waitStartedAt |-> [none EXCEPT ![a] = t]]
    BY <2>1, <2>4
  <2> QED BY <2>2, <2>3, <2>5
<1> DEFINE queued == [active |-> NoAgv, queue |-> <<a>>,
                      waitStartedAt |-> [b \in Agvs |-> IF b = a THEN t ELSE NotWaiting]]
<1>2. CanEnter(queued, a)
  BY DEF CanEnter
<1>3. Dequeued(queued, a) = [active |-> NoAgv, queue |-> <<>>,
                             waitStartedAt |-> [b \in Agvs |-> NotWaiting]]
  <2> DEFINE times == [b \in Agvs |-> IF b = a THEN t ELSE NotWaiting]
  <2>1. [times EXCEPT ![a] = NotWaiting] = [b \in Agvs |-> NotWaiting]
    OBVIOUS
  <2>2. queued = [active |-> NoAgv, queue |-> <<a>>, waitStartedAt |-> times]
    OBVIOUS
  <2> HIDE DEF times, queued
  <2>3. Dequeued(queued, a)
          = [active |-> NoAgv, queue |-> RemoveSingle(<<a>>, a),
             waitStartedAt |-> [times EXCEPT ![a] = NotWaiting]]
    BY <2>2, FieldsDequeued
  <2> QED BY <2>1, <2>3, OnlyOneQueued DEF queued
<1> QED BY <1>1, <1>2, <1>3, EmptyHasNobody DEF AfterRequest

\* Its release leaves it as it was.
LEMMA ReleasedIsFree ==
  ASSUME NEW a \in Agvs, NEW t \in Nat
  PROVE  AfterRelease(AfterRequest(EmptySegment, a, t), a) = EmptySegment
<1> DEFINE held == [active |-> a, queue |-> <<>>, waitStartedAt |-> [b \in Agvs |-> NotWaiting]]
<1>1. Dequeued(held, a) = held
  <2> DEFINE none == [b \in Agvs |-> NotWaiting]
  <2>1. [none EXCEPT ![a] = NotWaiting] = none
    OBVIOUS
  <2>2. held = [active |-> a, queue |-> <<>>, waitStartedAt |-> none]
    OBVIOUS
  <2> HIDE DEF none, held
  <2>3. Dequeued(held, a) = [active |-> a, queue |-> RemoveSingle(<<>>, a),
                             waitStartedAt |-> [none EXCEPT ![a] = NotWaiting]]
    BY <2>2, FieldsDequeued
  <2> QED BY <2>1, <2>2, <2>3, NobodyQueued
<1>2. [held EXCEPT !.active = NoAgv] = EmptySegment
  BY DEF EmptySegment
<1> QED BY <1>1, <1>2, FreeIsGranted DEF AfterRelease

LEMMA WrappedIsOnLoop == ASSUME NEW d \in Nat PROVE Wrapped(d) \in 0 .. PathLength - 1
BY PathAssumption DEF Wrapped

-----------------------------------------------------------------------------
(* Steps.                                                                  *)

\* A frame on the path: the AGV always moves, and reserves nothing beyond it.
LEMMA FrameOnPath ==
  ASSUME IInv, NEW a \in Agvs, NEW d \in Steps, TickMovement(a, d)
  PROVE  LET to == Wrapped(pos[a] + d)
             arrives == st[a] = "toStation" /\ Crossed(pos[a], to, target[a])
         IN  /\ to \in 0 .. PathLength - 1
             /\ pos' = [pos EXCEPT ![a] = to]
             /\ \E state \in States : /\ st[a] # "waiting" => state = st[a]
                                      /\ st' = [st EXCEPT ![a] = IF arrives THEN "idle" ELSE state]
             /\ UNCHANGED <<active, paused, toPath, target, resume>>
             /\ NothingReserved'
<1> DEFINE to == Wrapped(pos[a] + d)
           asks == ShouldRequest(granted[a], pos[a] + d)
           asked == IF asks THEN AfterRequest(seg, a, Frame) ELSE seg
           state == IF asks /\ st[a] = "waiting" THEN resume[a] ELSE st[a]
<1>1. /\ seg = EmptySegment /\ granted[a] = FALSE /\ Frame \in Nat
      /\ pos[a] + d \in Nat /\ asks \in BOOLEAN
  BY PathAssumption DEF IInv, NothingReserved, Typed, Frame, ShouldRequest, Within
<1>2. to \in 0 .. PathLength - 1
  BY <1>1, WrappedIsOnLoop
<1>3. asks => asked.active = a
  BY <1>1, FreeIsGranted
<1>4. MoveAlongPath(a, d, asks, asked) /\ UNCHANGED <<active, paused, toPath, target>>
  BY <1>3 DEF TickMovement, runVars
<1>5. (granted[a] \/ asks) = asks
  BY <1>1
<1>6. Leaves(asks, to) = asks
  BY <1>1 DEF Leaves, ShouldRequest
<1>7. seg' = EmptySegment
  <2>1. seg' = IF asks THEN AfterRelease(asked, a) ELSE asked
    BY <1>4, <1>5, <1>6 DEF MoveAlongPath
  <2>2. CASE asks
    BY <1>1, <2>1, <2>2, ReleasedIsFree
  <2>3. CASE ~asks
    BY <1>1, <2>1, <2>3
  <2> QED BY <2>2, <2>3
<1>8. granted' = granted /\ waiting' = waiting
  <2>1. granted' = [granted EXCEPT ![a] = FALSE]
    BY <1>4, <1>5, <1>6 DEF MoveAlongPath
  <2>2. waiting' = [waiting EXCEPT ![a] = FALSE]
    BY <1>4 DEF MoveAlongPath, IInv, NothingReserved
  <2> QED BY <2>1, <2>2 DEF IInv, NothingReserved
<1>9. NothingReserved'
  BY <1>7, <1>8 DEF IInv, NothingReserved
<1>10. state \in States /\ (st[a] # "waiting" => state = st[a])
  BY DEF IInv, Typed, States, Driving
<1>11. /\ pos' = [pos EXCEPT ![a] = to] /\ resume' = resume
       /\ st' = [st EXCEPT ![a] = IF state = "toStation" /\ Crossed(pos[a], to, target[a])
                                  THEN "idle" ELSE state]
  BY <1>4 DEF MoveAlongPath
<1>12. \E s \in States : /\ st[a] # "waiting" => s = st[a]
                         /\ st' = [st EXCEPT ![a] =
                              IF st[a] = "toStation" /\ Crossed(pos[a], to, target[a])
                              THEN "idle" ELSE s]
  <2>1. CASE st[a] # "waiting"
    BY <1>10, <1>11, <2>1
  <2>2. CASE st[a] = "waiting"
    <3> DEFINE s == IF state = "toStation" /\ Crossed(pos[a], to, target[a]) THEN "idle" ELSE state
    <3>1. s \in States
      BY <1>10 DEF States
    <3>2. st' = [st EXCEPT ![a] = s]
      BY <1>11
    <3> QED BY <2>2, <3>1, <3>2
  <2> QED BY <2>1, <2>2
<1> QED BY <1>2, <1>4, <1>9, <1>11, <1>12

LEMMA InitIInv == ASSUME Init PROVE IInv
<1>1. active \in [Agvs -> BOOLEAN] /\ paused \in BOOLEAN
  BY DEF Init
<1>2. /\ st \in [Agvs -> States] /\ pos \in [Agvs -> 0 .. PathLength - 1]
      /\ toPath \in [Agvs -> 0 .. Approach] /\ target \in [Agvs -> Targets]
      /\ resume \in [Agvs -> Driving]
  BY PathAssumption DEF Init, States, Driving
<1> QED BY <1>1, <1>2 DEF Init, IInv, Typed, NothingReserved

LEMMA StepIInv == ASSUME IInv, [Next]_vars PROVE IInv'
<1>1. ASSUME NEW a \in Agvs, NEW d \in Steps, TickApproach(a, d) PROVE IInv'
  <2>1. toPath[a] \in 0 .. Approach /\ Remaining(toPath[a], d) \in 0 .. Approach
    BY PathAssumption DEF IInv, Typed, Remaining
  <2> QED BY <1>1, <2>1 DEF TickApproach, runVars, IInv, Typed, NothingReserved
<1>2. ASSUME NEW a \in Agvs, NEW d \in Steps, TickMovement(a, d) PROVE IInv'
  <2>1. Typed'
    BY <1>2, FrameOnPath DEF IInv, Typed, States
  <2> QED BY <1>2, <2>1, FrameOnPath DEF IInv
<1>3. ASSUME NEW a \in Agvs, AssignDeliveryTask(a) \/ FinishDelivery(a) \/ ForceCollisionStop(a)
      PROVE  IInv'
  BY <1>3 DEF AssignDeliveryTask, FinishDelivery, ForceCollisionStop, runVars, IInv, Typed, States, NothingReserved
<1>4. ASSUME NEW a \in Agvs, NEW t \in Targets, DirectToStation(a, t) PROVE IInv'
  BY <1>4 DEF DirectToStation, runVars, IInv, Typed, States, Driving, NothingReserved
<1>5. CASE StartRun
  <2>1. PICK first \in SUBSET Agvs : /\ active' = [a \in Agvs |-> a \in first]
                                    /\ st' = [a \in Agvs |-> IF a \in first THEN "idle" ELSE st[a]]
    BY <1>5 DEF StartRun
  <2>2. active' \in [Agvs -> BOOLEAN] /\ st' \in [Agvs -> States]
    BY <2>1 DEF IInv, Typed, States
  <2>3. /\ pos' \in [Agvs -> 0 .. PathLength - 1] /\ toPath' \in [Agvs -> 0 .. Approach]
        /\ target' \in [Agvs -> Targets] /\ resume' \in [Agvs -> Driving]
    BY <1>5, PathAssumption DEF StartRun, IInv, Typed, Driving
  <2>4. paused' \in BOOLEAN
    BY <1>5 DEF StartRun
  <2> QED BY <1>5, <2>2, <2>3, <2>4 DEF StartRun, IInv, Typed, NothingReserved
<1>6. ASSUME NEW a \in Agvs, LaunchAgv(a) PROVE IInv'
  <2>1. active' \in [Agvs -> BOOLEAN] /\ paused' \in BOOLEAN
    BY <1>6 DEF LaunchAgv, IInv, Typed
  <2>2. /\ st' \in [Agvs -> States] /\ pos' \in [Agvs -> 0 .. PathLength - 1]
        /\ toPath' \in [Agvs -> 0 .. Approach] /\ target' \in [Agvs -> Targets]
        /\ resume' \in [Agvs -> Driving]
    BY <1>6, PathAssumption DEF LaunchAgv, IInv, Typed, States, Driving
  <2>3. seg' = seg /\ waiting' = waiting /\ granted' = granted
    BY <1>6 DEF LaunchAgv, IInv, NothingReserved
  <2> QED BY <2>1, <2>2, <2>3 DEF IInv, Typed, NothingReserved
<1>7. CASE StopRun
  BY <1>7 DEF StopRun, agvVars, IInv, Typed, NothingReserved
<1>8. CASE PauseOrResume
  BY <1>8 DEF PauseOrResume, agvVars, IInv, Typed, NothingReserved
<1>9. CASE UNCHANGED vars
  BY <1>9 DEF vars, runVars, agvVars, IInv, Typed, NothingReserved
<1> QED BY <1>1, <1>2, <1>3, <1>4, <1>5, <1>6, <1>7, <1>8, <1>9 DEF Next, Tick

-----------------------------------------------------------------------------
(* Theorems.                                                               *)

\* No reservation and no place in the queue outlives a frame, whatever
\* redirects, collisions and new runs come between (AGVMovementComponent.cpp 156-168).
THEOREM NothingStaysReserved == Spec => []IInv
BY InitIInv, StepIInv, PTL DEF Spec

\* The component's flags and the manager's record agree, and an AGV that does
\* not drive holds nothing (AGVMovementComponent.cpp, TrafficManagerActor.cpp).
THEOREM MovementStaysSound == Spec => []MovementIsSound
<1>1. ASSUME IInv PROVE MovementIsSound
  <2>1. TypeOK
    BY <1>1 DEF IInv, Typed, NothingReserved, TypeOK, EmptySegment
  <2>2. FlagsMatchManager /\ NoOrphanedReservation
    BY <1>1, EmptyHasNobody DEF IInv, NothingReserved, FlagsMatchManager, NoOrphanedReservation
  <2> QED BY <2>1, <2>2 DEF MovementIsSound
<1> QED BY <1>1, NothingStaysReserved, PTL

\* A commanded AGV stops in the frame that takes it to or past its station and
\* in no other, for every loop, step and station (AGVMovementComponent.cpp 318-326).
THEOREM StationsAreNotMissed == Spec => StopsExactlyAtStation
<1> DEFINE Stops(a) ==
      st[a] = "toStation" /\ pos'[a] # pos[a] /\ st'[a] \in {"idle", "toStation"}
      /\ toPath[a] = 0 /\ toPath'[a] = 0 =>
         /\ target[a] % PathLength \in Swept(a) => st'[a] = "idle"
         /\ st'[a] = "idle" => target[a] % PathLength \in Swept(a) \cup {pos[a]}
<1>1. ASSUME IInv, Next, NEW a \in Agvs PROVE Stops(a)
  <2> SUFFICES ASSUME st[a] = "toStation", pos'[a] # pos[a], toPath[a] = 0, toPath'[a] = 0
               PROVE  /\ target[a] % PathLength \in Swept(a) => st'[a] = "idle"
                      /\ st'[a] = "idle" => target[a] % PathLength \in Swept(a) \cup {pos[a]}
    OBVIOUS
  <2>1. PICK d \in Steps : TickMovement(a, d)
    <3>1. ~StartRun /\ ~StopRun /\ ~PauseOrResume
      BY PathAssumption DEF StartRun, StopRun, PauseOrResume, agvVars
    <3>2. ~ \E b \in Agvs : LaunchAgv(b)
      BY <1>1, PathAssumption DEF LaunchAgv, IInv, Typed
    <3>3. ASSUME NEW b \in Agvs, b # a, NEW d \in Steps, TickMovement(b, d) PROVE pos'[a] = pos[a]
      BY <1>1, <3>3, FrameOnPath DEF IInv, Typed
    <3>4. PICK b \in Agvs : Tick(b)
      BY <1>1, <3>1, <3>2 DEF Next, AssignDeliveryTask, FinishDelivery, ForceCollisionStop, DirectToStation
    <3>5. PICK d \in Steps : TickMovement(b, d)
      BY <3>4 DEF Tick, TickApproach
    <3> QED BY <3>3, <3>5
  <2> DEFINE from == pos[a]
             to == Wrapped(pos[a] + d)
             t == target[a]
  <2>2. /\ to \in 0 .. PathLength - 1 /\ pos'[a] = to
        /\ st'[a] = IF Crossed(from, to, t) THEN "idle" ELSE "toStation"
    BY <1>1, <2>1, FrameOnPath DEF IInv, Typed
  <2>3. from \in 0 .. PathLength - 1 /\ t \in 0 .. PathLength /\ PathLength \in Nat \ {0} /\ from # to
    BY <1>1, <2>2, PathAssumption DEF IInv, Typed
  <2>4. t % PathLength = IF t = PathLength THEN 0 ELSE t
    BY <2>3
  <2>5. Crossed(from, to, t) <=> \/ from < to /\ from < t /\ t <= to
                                 \/ to < from /\ (t >= from \/ t <= to)
    BY <2>2, <2>3 DEF Crossed
  <2>6. Swept(a) = {x \in 0 .. PathLength - 1 :
                      IF from < to THEN from < x /\ x <= to ELSE from < x \/ x <= to}
    BY <2>2 DEF Swept
  <2> HIDE DEF from, to, t
  <2>7. t % PathLength \in Swept(a) => Crossed(from, to, t)
    BY <2>2, <2>3, <2>4, <2>5, <2>6
  <2>8. Crossed(from, to, t) => t % PathLength \in Swept(a) \cup {from}
    BY <2>2, <2>3, <2>4, <2>5, <2>6
  <2> QED BY <2>2, <2>7, <2>8 DEF from, t
<1>2. IInv /\ [Next]_vars => [\A a \in Agvs : Stops(a)]_vars
  BY <1>1
<1> QED BY <1>2, NothingStaysReserved, PTL DEF Spec, StopsExactlyAtStation

-----------------------------------------------------------------------------
(***************************************************************************)
(* Station commands.  The inductive invariant says what lies behind the    *)
(* agreement of orders and events: who takes part in a run, which command  *)
(* is still untouched, and in whose hands an order is.                     *)
(***************************************************************************)

\* AGVs take part in the run, or their timer is still set.
RunInv ==
  /\ running => \A a \in Agvs : agv[a].runActive <=> a \notin toStart
  /\ ~running => toStart = {} /\ \A a \in Agvs : ~agv[a].runActive

Delivering == {"toPickup", "loading", "toDropoff", "unloading"}

\* What an AGV remembers fits what it does: without a command it has no target and
\* no order, and an idle or unstarted one has no task either.
Sane(r) ==
  /\ r.st = "idle" => ~r.hasTask
  /\ r.st \in Delivering \cup {"idle"} => r.target = NoStation /\ r.order = NoCmd
AgvsSane ==
  /\ \A a \in Agvs : Sane(agv[a])
  /\ \A a \in toStart : agv[a].order = NoCmd /\ agv[a].target = NoStation /\ ~agv[a].hasTask

\* A command is untouched until its task has run, and its task runs once.
Fresh(c) == c \notin received \/ \E i \in 1 .. Len(inbox) : inbox[i] = c
InboxInv ==
  /\ \A i \in 1 .. Len(inbox) : inbox[i] \in received
  /\ \A i, j \in 1 .. Len(inbox) : inbox[i] = inbox[j] => i = j
  /\ \A c \in Cmds : Fresh(c) => moving[c] = 0 /\ completed[c] = 0 /\ orders[c] = "none"

\* An order in an AGV's hands is announced, is nobody else's, and is in progress
\* until a collision has failed it.
OrdersHeld ==
  /\ \A a \in Agvs : agv[a].order # NoCmd =>
       /\ moving[agv[a].order] = 1
       /\ \/ agv[a].st = "toStation" /\ orders[agv[a].order] = "inProgress"
          \/ agv[a].st = "collided" /\ orders[agv[a].order] = "failed"
  /\ \A a, b \in Agvs : agv[a].order # NoCmd /\ agv[a].order = agv[b].order => a = b

\* An AGV that drives to a station drives there for a pending command.
DrivesForCommand ==
  \A a \in Agvs : agv[a].runActive /\ agv[a].st = "toStation" => pending[a] # NoCmd

StationInv ==
  /\ StationTypeOK /\ RunInv /\ AgvsSane /\ InboxInv
  /\ OrdersHeld /\ DrivesForCommand /\ PendingOnCourse /\ EventsMatchOrders

AgvRecord == [st : AgvStates, runActive : BOOLEAN, target : Stations \cup {NoStation},
              hasTask : BOOLEAN, carrying : BOOLEAN, order : Cmds \cup {NoCmd}]

\* The next command leaves the inbox, and no other.
LEMMA TakenFromInbox ==
  ASSUME StationInv, inbox # <<>>, inbox' = Tail(inbox), received' = received
  PROVE  /\ Head(inbox) \in Cmds /\ Head(inbox) \in received
         /\ moving[Head(inbox)] = 0 /\ completed[Head(inbox)] = 0 /\ orders[Head(inbox)] = "none"
         /\ inbox' \in Seq(Cmds)
         /\ \A c \in Cmds : Fresh(c)' <=> Fresh(c) /\ c # Head(inbox)
         /\ \A i \in 1 .. Len(inbox') : inbox'[i] \in received'
         /\ \A i, j \in 1 .. Len(inbox') : inbox'[i] = inbox'[j] => i = j
<1> DEFINE n == Len(inbox)
<1>1. inbox \in Seq(Cmds) /\ n \in Nat
  BY LenProperties DEF StationInv, StationTypeOK
<1>2. n # 0
  BY <1>1, EmptySeq
<1>3. /\ Head(inbox) = inbox[1] /\ inbox[1] \in Cmds
      /\ Tail(inbox) \in Seq(Cmds) /\ Len(Tail(inbox)) = n - 1
      /\ \A i \in 1 .. n - 1 : Tail(inbox)[i] = inbox[i + 1]
  BY <1>1, <1>2, HeadTailProperties, ElementOfSeq
<1>4. /\ \A i \in 1 .. n : inbox[i] \in received
      /\ \A i, j \in 1 .. n : inbox[i] = inbox[j] => i = j
      /\ \A c \in Cmds : Fresh(c) => moving[c] = 0 /\ completed[c] = 0 /\ orders[c] = "none"
  BY DEF StationInv, InboxInv
<1>5. 1 \in 1 .. n
  BY <1>1, <1>2
<1>6. Fresh(inbox[1])
  BY <1>5 DEF Fresh
<1>7. /\ \A i \in 1 .. n - 1 : inbox'[i] = inbox[i + 1] /\ i + 1 \in 1 .. n /\ i + 1 # 1
      /\ Len(inbox') = n - 1
  BY <1>1, <1>3
<1>8. ASSUME NEW c \in Cmds PROVE Fresh(c)' <=> Fresh(c) /\ c # inbox[1]
  <2>1. (\E i \in 1 .. n - 1 : inbox'[i] = c) <=> (\E i \in 1 .. n : inbox[i] = c) /\ c # inbox[1]
    <3>1. ASSUME NEW i \in 1 .. n - 1, inbox'[i] = c
          PROVE  (\E k \in 1 .. n : inbox[k] = c) /\ c # inbox[1]
      BY <3>1, <1>4, <1>5, <1>7
    <3>2. ASSUME NEW i \in 1 .. n, inbox[i] = c, c # inbox[1]
          PROVE  \E k \in 1 .. n - 1 : inbox'[k] = c
      <4>1. i - 1 \in 1 .. n - 1 /\ i - 1 + 1 = i
        BY <1>1, <3>2
      <4> QED BY <1>7, <3>2, <4>1
    <3> QED BY <3>1, <3>2
  <2>2. inbox[1] \in received
    BY <1>4, <1>5
  <2> HIDE DEF n
  <2> QED BY <1>7, <2>1, <2>2 DEF Fresh, n
<1>9. \A i \in 1 .. n - 1 : inbox'[i] \in received'
  BY <1>4, <1>7
<1>10. \A i, j \in 1 .. n - 1 : inbox'[i] = inbox'[j] => i = j
  <2> SUFFICES ASSUME NEW i \in 1 .. n - 1, NEW j \in 1 .. n - 1, inbox'[i] = inbox'[j]
               PROVE  i = j
    OBVIOUS
  <2>1. i + 1 = j + 1
    BY <1>4, <1>7
  <2> QED BY <2>1
<1> QED BY <1>3, <1>4, <1>5, <1>6, <1>7, <1>8, <1>9, <1>10

\* A command received joins the inbox, and no other stops being fresh.
LEMMA AddedToInbox ==
  ASSUME StationInv, NEW c \in Cmds, c \notin received, inbox' = Append(inbox, c),
         received' = received \cup {c}
  PROVE  /\ inbox' \in Seq(Cmds)
         /\ \A d \in Cmds : Fresh(d)' <=> Fresh(d)
         /\ \A i \in 1 .. Len(inbox') : inbox'[i] \in received'
         /\ \A i, j \in 1 .. Len(inbox') : inbox'[i] = inbox'[j] => i = j
<1> DEFINE n == Len(inbox)
<1>1. inbox \in Seq(Cmds) /\ n \in Nat
  BY LenProperties DEF StationInv, StationTypeOK
<1>2. /\ inbox' \in Seq(Cmds) /\ Len(inbox') = n + 1
      /\ \A i \in 1 .. n : inbox'[i] = inbox[i]
      /\ inbox'[n + 1] = c
  BY <1>1, AppendProperties
<1>3. /\ \A i \in 1 .. n : inbox[i] \in received
      /\ \A i, j \in 1 .. n : inbox[i] = inbox[j] => i = j
  BY DEF StationInv, InboxInv
<1>4. \A i \in 1 .. n + 1 : i \in 1 .. n \/ i = n + 1
  BY <1>1
<1>5. n + 1 \in 1 .. n + 1 /\ \A i \in 1 .. n : i \in 1 .. n + 1
  BY <1>1
<1> HIDE DEF n
<1>6. \A d \in Cmds : (\E i \in 1 .. n + 1 : inbox'[i] = d) <=> (\E i \in 1 .. n : inbox[i] = d) \/ d = c
  BY <1>2, <1>4, <1>5
<1>7. \A d \in Cmds : Fresh(d)' <=> Fresh(d)
  BY <1>2, <1>6 DEF Fresh, n
<1>8. \A i \in 1 .. n + 1 : inbox'[i] \in received'
  BY <1>2, <1>3, <1>4
<1>9. \A i, j \in 1 .. n + 1 : inbox'[i] = inbox'[j] => i = j
  BY <1>2, <1>3, <1>4
<1> QED BY <1>2, <1>7, <1>8, <1>9

-----------------------------------------------------------------------------
(* The commands that arrive, and those that are answered at once.          *)

LEMMA StationInitInv == StationInit => StationInv
<1> SUFFICES ASSUME StationInit PROVE StationInv
  OBVIOUS
<1>1. /\ Parked \in AgvRecord /\ Parked.st = "idle" /\ ~Parked.runActive /\ ~Parked.hasTask
      /\ Parked.target = NoStation /\ Parked.order = NoCmd
  BY DEF Parked, AgvRecord, AgvStates
<1>2. inbox \in Seq(Cmds) /\ Len(inbox) = 0
  BY EmptySeq DEF StationInit
<1>3. \A a \in Agvs : agv[a] = Parked /\ pending[a] = NoCmd
  BY DEF StationInit
<1>4. StationTypeOK
  <2>1. agv \in [Agvs -> AgvRecord]
    BY <1>1 DEF StationInit
  <2>2. /\ reservedBy \in [Stations -> Agvs \cup {NoAgv}]
        /\ pending \in [Agvs -> Cmds \cup {NoCmd}]
        /\ orders \in [Cmds -> {"none", "inProgress", "completed", "failed"}]
        /\ request \in [Cmds -> Requests \cup {NoRequest}]
        /\ moving \in [Cmds -> 0 .. 1] /\ completed \in [Cmds -> 0 .. 1]
    BY DEF StationInit
  <2>3. running \in BOOLEAN /\ toStart \subseteq Agvs /\ received \subseteq Cmds
    BY DEF StationInit
  <2> QED BY <1>2, <2>1, <2>2, <2>3 DEF StationTypeOK, AgvRecord
<1>5. RunInv /\ AgvsSane
  BY <1>1, <1>3 DEF StationInit, RunInv, AgvsSane, Sane
<1>6. InboxInv
  BY <1>2 DEF StationInit, InboxInv
<1>7. OrdersHeld /\ DrivesForCommand /\ PendingOnCourse
  BY <1>1, <1>3 DEF OrdersHeld, DrivesForCommand, PendingOnCourse
<1>8. EventsMatchOrders
  BY DEF StationInit, EventsMatchOrders
<1> QED BY <1>4, <1>5, <1>6, <1>7, <1>8 DEF StationInv

LEMMA ReceiveInv ==
  ASSUME StationInv, NEW c \in Cmds, NEW r \in Requests, HandleAgvCommandRequest(c, r)
  PROVE  StationInv' /\ FateIsFinal
<1> USE DEF StationInv
<1>1. /\ c \notin received /\ received' = received \cup {c}
      /\ request' = [request EXCEPT ![c] = r] /\ inbox' = Append(inbox, c)
      /\ running' = running /\ agv' = agv /\ toStart' = toStart /\ reservedBy' = reservedBy
      /\ pending' = pending /\ orders' = orders /\ moving' = moving /\ completed' = completed
  BY DEF HandleAgvCommandRequest, eventVars
<1>2. /\ inbox' \in Seq(Cmds)
      /\ \A d \in Cmds : Fresh(d)' <=> Fresh(d)
      /\ \A i \in 1 .. Len(inbox') : inbox'[i] \in received'
      /\ \A i, j \in 1 .. Len(inbox') : inbox'[i] = inbox'[j] => i = j
  BY <1>1, AddedToInbox
<1>3. StationTypeOK'
  BY <1>1, <1>2 DEF StationTypeOK
<1>4. RunInv' /\ AgvsSane' /\ OrdersHeld' /\ DrivesForCommand' /\ EventsMatchOrders'
  BY <1>1 DEF RunInv, AgvsSane, OrdersHeld, DrivesForCommand, EventsMatchOrders
<1>5. InboxInv'
  BY <1>1, <1>2 DEF InboxInv
<1>6. PendingOnCourse'
  <2> SUFFICES ASSUME NEW a \in Agvs, pending[a] # NoCmd PROVE request'[pending[a]] = request[pending[a]]
    BY <1>1 DEF PendingOnCourse
  <2>1. agv[a].order = pending[a] /\ pending[a] \in Cmds
    BY DEF PendingOnCourse, StationTypeOK
  <2>2. moving[pending[a]] = 1
    BY <2>1 DEF OrdersHeld
  <2>3. moving[c] = 0
    BY <1>1 DEF InboxInv, Fresh
  <2> QED BY <1>1, <2>1, <2>2, <2>3 DEF StationTypeOK
<1>7. FateIsFinal
  BY <1>1 DEF FateIsFinal
<1> QED BY <1>3, <1>4, <1>5, <1>6, <1>7

\* What becomes of a command whose task has run is seen only in its own entries.
LEMMA FallbackInv ==
  ASSUME StationInv, Fallback
  PROVE  StationInv' /\ FateIsFinal
<1> USE DEF StationInv
<1> DEFINE c == Head(inbox)
<1>1. /\ inbox # <<>> /\ inbox' = Tail(inbox) /\ received' = received /\ request' = request
      /\ completed' = [d \in Cmds |-> IF d = c THEN completed[d] + 1 ELSE completed[d]]
      /\ running' = running /\ agv' = agv /\ toStart' = toStart /\ reservedBy' = reservedBy
      /\ pending' = pending /\ orders' = orders /\ moving' = moving
  BY DEF Fallback, Incremented, AnsweredNow
<1>2. /\ c \in Cmds /\ moving[c] = 0 /\ completed[c] = 0
      /\ inbox' \in Seq(Cmds)
      /\ \A d \in Cmds : Fresh(d)' <=> Fresh(d) /\ d # c
      /\ \A i \in 1 .. Len(inbox') : inbox'[i] \in received'
      /\ \A i, j \in 1 .. Len(inbox') : inbox'[i] = inbox'[j] => i = j
  BY <1>1, TakenFromInbox
<1> HIDE DEF c
<1>3. StationTypeOK'
  <2>1. completed' \in [Cmds -> 0 .. 1]
    BY <1>1, <1>2 DEF StationTypeOK
  <2> QED BY <1>1, <1>2, <2>1 DEF StationTypeOK
<1>4. RunInv' /\ AgvsSane' /\ OrdersHeld' /\ DrivesForCommand' /\ PendingOnCourse'
  BY <1>1 DEF RunInv, AgvsSane, OrdersHeld, DrivesForCommand, PendingOnCourse
<1>5. InboxInv'
  BY <1>1, <1>2 DEF InboxInv
<1>6. EventsMatchOrders'
  BY <1>1, <1>2 DEF EventsMatchOrders
<1>7. FateIsFinal
  BY <1>1 DEF FateIsFinal
<1> QED BY <1>3, <1>4, <1>5, <1>6, <1>7

\* Whoever is selected may reserve the station, and has not collided.
LEMMA SelectedAgv ==
  ASSUME NEW c, NEW a \in Candidates(c)
  PROVE  /\ a \in Agvs /\ running /\ request[c].station \in Stations
         /\ agv[a].st # "collided"
         /\ reservedBy[request[c].station] \in {NoAgv, a}
BY DEF Candidates, Selectable, Eligible, Reservable

LEMMA RejectInv ==
  ASSUME StationInv, NEW a \in Agvs, Reject(a)
  PROVE  StationInv' /\ FateIsFinal
<1> USE DEF StationInv
<1> DEFINE c == Head(inbox)
           s == request[c].station
<1>1. /\ inbox # <<>> /\ inbox' = Tail(inbox) /\ received' = received /\ request' = request
      /\ a \in Candidates(c) /\ ~agv[a].runActive
      /\ reservedBy' = [reservedBy EXCEPT ![s] = NoAgv]
      /\ orders' = [d \in Cmds |-> IF d = c THEN "failed" ELSE orders[d]]
      /\ completed' = [d \in Cmds |-> IF d = c THEN completed[d] + 1 ELSE completed[d]]
      /\ running' = running /\ agv' = agv /\ toStart' = toStart
      /\ pending' = pending /\ moving' = moving
  BY DEF Reject, Incremented, Marked
<1>2. /\ c \in Cmds /\ moving[c] = 0 /\ completed[c] = 0 /\ orders[c] = "none"
      /\ inbox' \in Seq(Cmds)
      /\ \A d \in Cmds : Fresh(d)' <=> Fresh(d) /\ d # c
      /\ \A i \in 1 .. Len(inbox') : inbox'[i] \in received'
      /\ \A i, j \in 1 .. Len(inbox') : inbox'[i] = inbox'[j] => i = j
  BY <1>1, TakenFromInbox
<1>3. running /\ s \in Stations /\ reservedBy[s] \in {NoAgv, a}
  BY <1>1, SelectedAgv
<1> HIDE DEF c, s
<1>4. pending[a] = NoCmd
  <2>1. a \in toStart
    BY <1>1, <1>3 DEF RunInv
  <2>2. agv[a].order = NoCmd
    BY <2>1 DEF AgvsSane
  <2> QED BY <2>2 DEF PendingOnCourse
<1>5. StationTypeOK'
  <2>1. completed' \in [Cmds -> 0 .. 1]
    BY <1>1, <1>2 DEF StationTypeOK
  <2>2. reservedBy' \in [Stations -> Agvs \cup {NoAgv}]
    BY <1>1 DEF StationTypeOK
  <2>3. orders' \in [Cmds -> {"none", "inProgress", "completed", "failed"}]
    BY <1>1 DEF StationTypeOK
  <2> QED BY <1>1, <1>2, <2>1, <2>2, <2>3 DEF StationTypeOK
<1>6. RunInv' /\ AgvsSane' /\ DrivesForCommand'
  BY <1>1 DEF RunInv, AgvsSane, DrivesForCommand
<1>7. InboxInv'
  BY <1>1, <1>2 DEF InboxInv
<1>8. \A b \in Agvs : agv[b].order # NoCmd =>
        agv[b].order \in Cmds /\ agv[b].order # c /\ orders'[agv[b].order] = orders[agv[b].order]
  BY <1>1, <1>2 DEF OrdersHeld, StationTypeOK
<1>9. OrdersHeld'
  BY <1>1, <1>8 DEF OrdersHeld
<1>10. PendingOnCourse'
  <2> SUFFICES ASSUME NEW b \in Agvs, pending[b] # NoCmd
               PROVE  /\ reservedBy'[request[pending[b]].station] = b
                      /\ orders'[pending[b]] = orders[pending[b]]
    BY <1>1 DEF PendingOnCourse
  <2>1. agv[b].order = pending[b] /\ reservedBy[request[pending[b]].station] = b
    BY DEF PendingOnCourse
  <2>2. request[pending[b]].station # s
    BY <1>3, <1>4, <2>1, AgvsAssumption
  <2>3. reservedBy'[request[pending[b]].station] = b
    BY <1>1, <2>1, <2>2 DEF StationTypeOK
  <2> QED BY <1>8, <2>1, <2>3
<1>11. EventsMatchOrders'
  BY <1>1, <1>2 DEF EventsMatchOrders
<1>12. FateIsFinal
  BY <1>1, <1>2 DEF FateIsFinal
<1> QED BY <1>5, <1>6, <1>7, <1>9, <1>10, <1>11, <1>12

-----------------------------------------------------------------------------
(* A command that is carried out.                                          *)

LEMMA DirectInv ==
  ASSUME StationInv, NEW a \in Agvs, Direct(a)
  PROVE  StationInv' /\ FateIsFinal
<1> USE DEF StationInv
<1> DEFINE c == Head(inbox)
           s == request[c].station
           n == agv'[a]
<1>1. /\ inbox # <<>> /\ inbox' = Tail(inbox) /\ received' = received /\ request' = request
      /\ a \in Candidates(c) /\ agv[a].runActive
      /\ reservedBy' = [reservedBy EXCEPT ![s] = a]
      /\ orders' = [d \in Cmds |-> IF d = c THEN "inProgress" ELSE orders[d]]
      /\ moving' = [d \in Cmds |-> IF d = c THEN moving[d] + 1 ELSE moving[d]]
      /\ pending' = [pending EXCEPT ![a] = c]
      /\ running' = running /\ toStart' = toStart /\ completed' = completed
  BY DEF Direct, Incremented, Marked
<1>2. /\ c \in Cmds /\ moving[c] = 0 /\ completed[c] = 0 /\ orders[c] = "none"
      /\ inbox' \in Seq(Cmds)
      /\ \A d \in Cmds : Fresh(d)' <=> Fresh(d) /\ d # c
      /\ \A i \in 1 .. Len(inbox') : inbox'[i] \in received'
      /\ \A i, j \in 1 .. Len(inbox') : inbox'[i] = inbox'[j] => i = j
  BY <1>1, TakenFromInbox
<1>3. running /\ s \in Stations /\ reservedBy[s] \in {NoAgv, a}
  BY <1>1, SelectedAgv
<1>4. agv' = [agv EXCEPT ![a] = [@ EXCEPT !.st = "toStation", !.target = s, !.order = c,
                                          !.carrying = TRUE]]
  BY DEF Direct
<1> HIDE DEF c, s
<1>5. agv[a] \in AgvRecord /\ agv \in [Agvs -> AgvRecord]
  BY DEF StationTypeOK, AgvRecord
<1>6. /\ n = [agv[a] EXCEPT !.st = "toStation", !.target = s, !.order = c, !.carrying = TRUE]
      /\ \A b \in Agvs : b # a => agv'[b] = agv[b]
  BY <1>4, <1>5
<1>7. /\ n.st = "toStation" /\ n.target = s /\ n.order = c /\ n.runActive = agv[a].runActive
      /\ n \in AgvRecord
  BY <1>2, <1>3, <1>5, <1>6 DEF AgvRecord, AgvStates
<1>8. c # NoCmd
  BY <1>2, StationCommandsAssumption
<1> HIDE DEF n
<1>9. /\ agv'[a] = n /\ pending'[a] = c
      /\ \A b \in Agvs : b # a => pending'[b] = pending[b]
  BY <1>1 DEF StationTypeOK, n
<1>10. agv' \in [Agvs -> AgvRecord]
  BY <1>4, <1>5, <1>7, <1>9
<1>11. StationTypeOK'
  <2>1. moving' \in [Cmds -> 0 .. 1]
    BY <1>1, <1>2 DEF StationTypeOK
  <2>2. reservedBy' \in [Stations -> Agvs \cup {NoAgv}] /\ pending' \in [Agvs -> Cmds \cup {NoCmd}]
    BY <1>1, <1>2 DEF StationTypeOK
  <2>3. orders' \in [Cmds -> {"none", "inProgress", "completed", "failed"}]
    BY <1>1 DEF StationTypeOK
  <2> QED BY <1>1, <1>2, <1>10, <2>1, <2>2, <2>3 DEF StationTypeOK, AgvRecord
<1>12. RunInv'
  BY <1>1, <1>6, <1>7, <1>9 DEF RunInv
<1>13. AgvsSane'
  <2>1. a \notin toStart
    BY <1>1, <1>3 DEF RunInv
  <2>2. Sane(n)
    BY <1>7 DEF Sane, Delivering
  <2>3. \A b \in Agvs : Sane(agv'[b])
    BY <1>6, <1>9, <2>2 DEF AgvsSane
  <2>4. \A b \in toStart : agv'[b] = agv[b]
    BY <1>6, <2>1 DEF StationTypeOK
  <2> QED BY <1>1, <2>3, <2>4 DEF AgvsSane
<1>14. InboxInv'
  BY <1>1, <1>2 DEF InboxInv
<1>15. /\ moving'[c] = 1 /\ orders'[c] = "inProgress"
       /\ \A d \in Cmds : d # c => moving'[d] = moving[d] /\ orders'[d] = orders[d]
  BY <1>1, <1>2
<1>16. \A b \in Agvs : agv[b].order # NoCmd => agv[b].order \in Cmds /\ agv[b].order # c
  BY <1>2 DEF OrdersHeld, StationTypeOK
<1>17. OrdersHeld'
  <2>1. ASSUME NEW b \in Agvs, agv'[b].order # NoCmd
        PROVE  /\ moving'[agv'[b].order] = 1
               /\ \/ agv'[b].st = "toStation" /\ orders'[agv'[b].order] = "inProgress"
                  \/ agv'[b].st = "collided" /\ orders'[agv'[b].order] = "failed"
    <3>1. CASE b = a
      BY <3>1, <1>7, <1>9, <1>15
    <3>2. CASE b # a
      BY <3>2, <2>1, <1>6, <1>15, <1>16 DEF OrdersHeld
    <3> QED BY <3>1, <3>2
  <2>2. ASSUME NEW b \in Agvs, NEW d \in Agvs, agv'[b].order # NoCmd, agv'[b].order = agv'[d].order
        PROVE  b = d
    <3>1. CASE b = a /\ d # a
      BY <3>1, <2>2, <1>6, <1>7, <1>9, <1>16
    <3>2. CASE b # a /\ d = a
      BY <3>2, <2>2, <1>6, <1>7, <1>9, <1>16
    <3>3. CASE b # a /\ d # a
      BY <3>3, <2>2, <1>6 DEF OrdersHeld
    <3> QED BY <3>1, <3>2, <3>3
  <2> QED BY <2>1, <2>2 DEF OrdersHeld
<1>18. DrivesForCommand'
  BY <1>6, <1>8, <1>9 DEF DrivesForCommand
<1>19. PendingOnCourse'
  <2> SUFFICES ASSUME NEW b \in Agvs, pending'[b] # NoCmd
               PROVE  LET d == pending'[b] IN
                      /\ running' /\ agv'[b].order = d /\ agv'[b].target = request'[d].station
                      /\ reservedBy'[request'[d].station] = b
                      /\ \/ agv'[b].st = "toStation" /\ agv'[b].runActive /\ orders'[d] = "inProgress"
                         \/ agv'[b].st = "collided" /\ orders'[d] = "failed"
    BY DEF PendingOnCourse
  <2>1. CASE b = a
    <3>1. reservedBy'[s] = a
      BY <1>1, <1>3 DEF StationTypeOK
    <3>2. pending'[b] = c /\ agv'[b] = n /\ request'[c].station = s /\ running'
      BY <2>1, <1>1, <1>3, <1>9 DEF s
    <3> QED BY <2>1, <3>1, <3>2, <1>1, <1>7, <1>15
  <2>2. CASE b # a
    <3> DEFINE d == pending[b]
    <3>1. /\ pending'[b] = d /\ d # NoCmd /\ agv'[b] = agv[b]
      BY <2>2, <1>6, <1>9
    <3>2. /\ agv[b].order = d /\ agv[b].target = request[d].station
          /\ reservedBy[request[d].station] = b
          /\ \/ agv[b].st = "toStation" /\ agv[b].runActive /\ orders[d] = "inProgress"
             \/ agv[b].st = "collided" /\ orders[d] = "failed"
      BY <3>1 DEF PendingOnCourse
    <3>3. request[d].station # s
      BY <1>3, <2>2, <3>2, AgvsAssumption
    <3>4. reservedBy'[request[d].station] = b
      BY <1>1, <3>2, <3>3 DEF StationTypeOK
    <3>5. orders'[d] = orders[d]
      BY <1>15, <1>16, <3>1, <3>2
    <3> HIDE DEF d
    <3> QED BY <1>1, <1>3, <3>1, <3>2, <3>4, <3>5
  <2> QED BY <2>1, <2>2
<1>20. EventsMatchOrders'
  BY <1>1, <1>2, <1>15 DEF EventsMatchOrders
<1>21. FateIsFinal
  BY <1>2, <1>15 DEF FateIsFinal
<1> QED BY <1>11, <1>12, <1>13, <1>14, <1>17, <1>18, <1>19, <1>20, <1>21

LEMMA ReachStationInv ==
  ASSUME StationInv, NEW a \in Agvs, ReachStation(a)
  PROVE  StationInv' /\ FateIsFinal
<1> USE DEF StationInv
<1> DEFINE c == pending[a]
           n == agv'[a]
<1>1. /\ agv[a].runActive /\ agv[a].st = "toStation"
      /\ agv' = [agv EXCEPT ![a] = Docked(@)]
      /\ orders' = Marked("completed", {agv[a].order} \ {NoCmd})
      /\ pending' = [pending EXCEPT ![a] = NoCmd]
      /\ reservedBy' = IF c = NoCmd THEN reservedBy ELSE ReleaseReservation(agv[a].target, a)
      /\ completed' = Incremented(completed, {c} \ {NoCmd})
      /\ running' = running /\ toStart' = toStart /\ moving' = moving
      /\ request' = request /\ received' = received /\ inbox' = inbox
  BY DEF ReachStation, commandVars, Closed
<1>2. c # NoCmd /\ c \in Cmds
  BY <1>1 DEF DrivesForCommand, StationTypeOK
<1>3. /\ running /\ agv[a].order = c /\ agv[a].target = request[c].station
      /\ reservedBy[request[c].station] = a /\ orders[c] = "inProgress"
  BY <1>1, <1>2 DEF PendingOnCourse
<1>4. moving[c] = 1 /\ completed[c] = 0
  <2>1. moving[c] = 1
    BY <1>2, <1>3 DEF OrdersHeld
  <2>2. completed[c] \in 0 .. 1 /\ ~(completed[c] > 0)
    BY <1>2, <1>3, <2>1 DEF EventsMatchOrders, StationTypeOK
  <2> QED BY <2>1, <2>2
<1> HIDE DEF c
<1>5. /\ orders' = [d \in Cmds |-> IF d = c THEN "completed" ELSE orders[d]]
      /\ completed' = [d \in Cmds |-> IF d = c THEN completed[d] + 1 ELSE completed[d]]
      /\ reservedBy' = ReleaseReservation(agv[a].target, a)
  BY <1>1, <1>2, <1>3 DEF Marked, Incremented
<1>6. agv[a] \in AgvRecord /\ agv \in [Agvs -> AgvRecord]
  BY DEF StationTypeOK, AgvRecord
<1>7. /\ n = Docked(agv[a])
      /\ \A b \in Agvs : b # a => agv'[b] = agv[b]
  BY <1>1, <1>6
<1>8. /\ n.st = "idle" /\ n.target = NoStation /\ n.order = NoCmd /\ ~n.hasTask
      /\ n.runActive /\ n \in AgvRecord
  BY <1>1, <1>6, <1>7 DEF AgvRecord, AgvStates, Docked
<1> HIDE DEF n
<1>9. /\ agv'[a] = n /\ pending'[a] = NoCmd
      /\ \A b \in Agvs : b # a => pending'[b] = pending[b]
  BY <1>1 DEF StationTypeOK, n
<1>10. agv' \in [Agvs -> AgvRecord]
  BY <1>1, <1>6, <1>8, <1>9
<1>11. reservedBy' \in [Stations -> Agvs \cup {NoAgv}]
  BY <1>5 DEF ReleaseReservation, StationTypeOK
<1>12. StationTypeOK'
  <2>1. completed' \in [Cmds -> 0 .. 1]
    BY <1>4, <1>5 DEF StationTypeOK
  <2>2. pending' \in [Agvs -> Cmds \cup {NoCmd}]
    BY <1>1 DEF StationTypeOK
  <2>3. orders' \in [Cmds -> {"none", "inProgress", "completed", "failed"}]
    BY <1>5 DEF StationTypeOK
  <2> QED BY <1>1, <1>10, <1>11, <2>1, <2>2, <2>3 DEF StationTypeOK, AgvRecord
<1>13. RunInv'
  BY <1>1, <1>7, <1>8, <1>9 DEF RunInv
<1>14. AgvsSane'
  <2>1. a \notin toStart
    BY <1>1, <1>3 DEF RunInv
  <2>2. Sane(n)
    BY <1>8 DEF Sane
  <2>3. \A b \in Agvs : Sane(agv'[b])
    BY <1>7, <1>9, <2>2 DEF AgvsSane
  <2>4. \A b \in toStart : agv'[b] = agv[b]
    BY <1>7, <2>1 DEF StationTypeOK
  <2> QED BY <1>1, <2>3, <2>4 DEF AgvsSane
<1>15. InboxInv'
  <2>1. \A d \in Cmds : Fresh(d)' <=> Fresh(d)
    BY <1>1 DEF Fresh
  <2>2. \A d \in Cmds : Fresh(d) => d # c
    BY <1>4 DEF InboxInv
  <2> QED BY <1>1, <1>5, <2>1, <2>2 DEF InboxInv
<1>16. ASSUME NEW b \in Agvs, b # a
       PROVE  /\ agv'[b] = agv[b] /\ pending'[b] = pending[b]
              /\ agv[b].order # NoCmd => agv[b].order \in Cmds /\ agv[b].order # c
  <2>1. agv[b].order # NoCmd => agv[b].order # c
    BY <1>2, <1>3, <1>16 DEF OrdersHeld
  <2>2. agv[b].order # NoCmd => agv[b].order \in Cmds
    BY DEF StationTypeOK
  <2> QED BY <1>7, <1>9, <1>16, <2>1, <2>2
<1>17. OrdersHeld'
  <2>1. ASSUME NEW b \in Agvs, agv'[b].order # NoCmd
        PROVE  /\ b # a /\ agv'[b] = agv[b]
               /\ moving'[agv'[b].order] = 1
               /\ \/ agv'[b].st = "toStation" /\ orders'[agv'[b].order] = "inProgress"
                  \/ agv'[b].st = "collided" /\ orders'[agv'[b].order] = "failed"
    <3>1. b # a
      BY <1>8, <1>9, <2>1
    <3>2. /\ agv'[b] = agv[b] /\ agv[b].order \in Cmds /\ agv[b].order # c
          /\ agv[b].order # NoCmd
      BY <1>16, <2>1, <3>1
    <3>3. orders'[agv[b].order] = orders[agv[b].order] /\ moving' = moving
      BY <1>1, <1>5, <3>2
    <3> QED BY <3>1, <3>2, <3>3 DEF OrdersHeld
  <2>2. ASSUME NEW b \in Agvs, NEW d \in Agvs, agv'[b].order # NoCmd, agv'[b].order = agv'[d].order
        PROVE  b = d
    <3>1. agv'[b] = agv[b] /\ agv'[d] = agv[d]
      BY <2>1, <2>2
    <3> QED BY <2>2, <3>1 DEF OrdersHeld
  <2> QED BY <2>1, <2>2 DEF OrdersHeld
<1>18. DrivesForCommand'
  BY <1>8, <1>9, <1>16 DEF DrivesForCommand
<1>19. PendingOnCourse'
  <2> SUFFICES ASSUME NEW b \in Agvs, pending'[b] # NoCmd
               PROVE  LET d == pending'[b] IN
                      /\ running' /\ agv'[b].order = d /\ agv'[b].target = request'[d].station
                      /\ reservedBy'[request'[d].station] = b
                      /\ \/ agv'[b].st = "toStation" /\ agv'[b].runActive /\ orders'[d] = "inProgress"
                         \/ agv'[b].st = "collided" /\ orders'[d] = "failed"
    BY DEF PendingOnCourse
  <2> DEFINE d == pending[b]
  <2>1. b # a
    BY <1>9
  <2>2. /\ pending'[b] = d /\ d # NoCmd /\ agv'[b] = agv[b]
    BY <2>1, <1>16
  <2>3. /\ agv[b].order = d /\ agv[b].target = request[d].station
        /\ reservedBy[request[d].station] = b
        /\ \/ agv[b].st = "toStation" /\ agv[b].runActive /\ orders[d] = "inProgress"
           \/ agv[b].st = "collided" /\ orders[d] = "failed"
    BY <2>2 DEF PendingOnCourse
  <2>4. reservedBy'[request[d].station] = b
    BY <1>5, <2>1, <2>3 DEF ReleaseReservation, StationTypeOK
  <2>5. orders'[d] = orders[d]
    BY <1>5, <1>16, <2>1, <2>2, <2>3
  <2> HIDE DEF d
  <2> QED BY <1>1, <1>3, <2>2, <2>3, <2>4, <2>5
<1>20. EventsMatchOrders'
  BY <1>1, <1>4, <1>5 DEF EventsMatchOrders
<1>21. FateIsFinal
  BY <1>3, <1>5 DEF FateIsFinal
<1> QED BY <1>12, <1>13, <1>14, <1>15, <1>17, <1>18, <1>19, <1>20, <1>21

-----------------------------------------------------------------------------
(* Deliveries: only AGVs without a command change, and their orders not.   *)

\* The delivery states and idleness carry no command.
Delivers(r, n) ==
  /\ r.runActive /\ n \in AgvRecord /\ n.runActive
  /\ r.st \in Delivering \cup {"idle"}
  /\ n.st \in Delivering \/ (n.st = "idle" /\ ~n.hasTask)
  /\ n.target = NoStation /\ n.order = NoCmd

LEMMA DeliveryInv ==
  ASSUME StationInv, orders' = orders,
         UNCHANGED <<running, toStart, reservedBy, pending, commandVars, eventVars>>,
         agv' = [a \in Agvs |-> agv'[a]],
         \A a \in Agvs : agv'[a] = agv[a] \/ Delivers(agv[a], agv'[a])
  PROVE  StationInv' /\ FateIsFinal
<1> USE DEF StationInv
<1>1. /\ running' = running /\ toStart' = toStart /\ reservedBy' = reservedBy
      /\ pending' = pending /\ orders' = orders /\ request' = request /\ received' = received
      /\ inbox' = inbox /\ moving' = moving /\ completed' = completed
  BY DEF commandVars, eventVars
<1>2. agv \in [Agvs -> AgvRecord]
  BY DEF StationTypeOK, AgvRecord
<1>3. agv' \in [Agvs -> AgvRecord]
  <2>1. \A a \in Agvs : agv'[a] \in AgvRecord
    BY <1>2 DEF Delivers
  <2> QED BY <2>1
<1>4. StationTypeOK'
  BY <1>1, <1>3 DEF StationTypeOK, AgvRecord
<1>5. ASSUME NEW a \in Agvs, Delivers(agv[a], agv'[a])
      PROVE  pending[a] = NoCmd /\ agv[a].order = NoCmd
  <2>1. agv[a].order = NoCmd
    BY <1>5 DEF Delivers, AgvsSane, Sane
  <2> QED BY <2>1 DEF PendingOnCourse
<1>6. RunInv'
  <2>1. \A a \in Agvs : agv'[a].runActive <=> agv[a].runActive
    BY DEF Delivers
  <2> QED BY <1>1, <2>1 DEF RunInv
<1>7. AgvsSane'
  <2>1. ASSUME NEW a \in Agvs PROVE Sane(agv'[a])
    <3>1. CASE agv'[a] = agv[a]
      BY <3>1 DEF AgvsSane
    <3>2. CASE Delivers(agv[a], agv'[a])
      BY <3>2 DEF Delivers, Sane, Delivering
    <3> QED BY <3>1, <3>2
  <2>2. ASSUME NEW a \in toStart PROVE agv'[a] = agv[a]
    <3>1. a \in Agvs /\ ~agv[a].runActive
      BY DEF RunInv, StationTypeOK
    <3> QED BY <3>1 DEF Delivers
  <2> QED BY <1>1, <2>1, <2>2 DEF AgvsSane
<1>8. InboxInv'
  <2>1. \A d \in Cmds : Fresh(d)' <=> Fresh(d)
    BY <1>1 DEF Fresh
  <2> QED BY <1>1, <2>1 DEF InboxInv
<1>9. \A a \in Agvs : agv'[a].order # NoCmd => agv'[a] = agv[a]
  BY DEF Delivers
<1>10. OrdersHeld'
  <2>1. \A a, b \in Agvs : agv'[a].order # NoCmd /\ agv'[a].order = agv'[b].order => a = b
    BY <1>9 DEF OrdersHeld
  <2> QED BY <1>1, <1>9, <2>1 DEF OrdersHeld
<1>11. \A a \in Agvs : agv'[a].st = "toStation" => agv'[a] = agv[a]
  BY DEF Delivers, Delivering
<1>12. DrivesForCommand'
  BY <1>1, <1>11 DEF DrivesForCommand
<1>13. PendingOnCourse'
  <2>1. \A a \in Agvs : pending[a] # NoCmd => agv'[a] = agv[a]
    BY <1>5
  <2> QED BY <1>1, <2>1 DEF PendingOnCourse
<1>14. EventsMatchOrders' /\ FateIsFinal
  BY <1>1 DEF EventsMatchOrders, FateIsFinal
<1> QED BY <1>4, <1>6, <1>7, <1>8, <1>10, <1>12, <1>13, <1>14

LEMMA DispatchInv ==
  ASSUME StationInv, DispatchIdleAgvs
  PROVE  StationInv' /\ FateIsFinal
<1>1. \A a \in Agvs : agv[a] \in AgvRecord
  BY DEF StationInv, StationTypeOK, AgvRecord
<1>2. agv' = [a \in Agvs |-> IF IsAvailableForDispatch(a) /\ HasPickup(a)
                             THEN Dispatched(agv[a]) ELSE agv[a]]
  BY DEF DispatchIdleAgvs
<1>3. ASSUME NEW a \in Agvs PROVE agv'[a] = agv[a] \/ Delivers(agv[a], agv'[a])
  <2>1. CASE IsAvailableForDispatch(a) /\ HasPickup(a)
    <3>1. agv'[a] = Dispatched(agv[a])
      BY <1>2, <2>1
    <3>2. agv[a].runActive /\ agv[a].st = "idle" /\ agv[a].target = NoStation
      BY <2>1 DEF IsAvailableForDispatch, HasActiveAssignment
    <3>3. /\ Dispatched(agv[a]) \in AgvRecord /\ Dispatched(agv[a]).st = "toPickup"
          /\ Dispatched(agv[a]).runActive /\ Dispatched(agv[a]).target = NoStation
          /\ Dispatched(agv[a]).order = NoCmd
      BY <1>1, <3>2 DEF Dispatched, AgvRecord, AgvStates
    <3> QED BY <3>1, <3>2, <3>3 DEF Delivers, Delivering
  <2>2. CASE ~(IsAvailableForDispatch(a) /\ HasPickup(a))
    BY <1>2, <2>2
  <2> QED BY <2>1, <2>2
<1>4. /\ agv' = [a \in Agvs |-> agv'[a]] /\ orders' = orders
      /\ UNCHANGED <<running, toStart, reservedBy, pending, commandVars, eventVars>>
  BY <1>2 DEF DispatchIdleAgvs, UnchangedButAgv
<1> QED BY <1>3, <1>4, DeliveryInv

\* One AGV goes on with its delivery.
LEMMA DeliveryStepInv ==
  ASSUME StationInv, NEW a \in Agvs,
         HandleStationArrival(a) \/ FinishLoading(a) \/ FinishUnloading(a)
  PROVE  StationInv' /\ FateIsFinal
<1>1. /\ agv \in [Agvs -> AgvRecord]
      /\ agv[a].st \in Delivering \cup {"idle"} =>
           agv[a].target = NoStation /\ agv[a].order = NoCmd
  BY DEF StationInv, StationTypeOK, AgvRecord, AgvsSane, Sane
<1>2. orders' = orders
  <2>1. CASE FinishUnloading(a)
    <3>1. agv[a].order = NoCmd
      BY <1>1, <2>1 DEF FinishUnloading, Delivering
    <3>2. orders' = [d \in Cmds |-> orders[d]]
      BY <2>1, <3>1 DEF FinishUnloading, Marked
    <3> QED BY <3>2 DEF StationInv, StationTypeOK
  <2>2. CASE HandleStationArrival(a) \/ FinishLoading(a)
    BY <2>2 DEF HandleStationArrival, FinishLoading, UnchangedButAgv
  <2> QED BY <2>1, <2>2
<1>3. UNCHANGED <<running, toStart, reservedBy, pending, commandVars, eventVars>>
  BY DEF HandleStationArrival, FinishLoading, FinishUnloading, UnchangedButAgv
<1>4. PICK n : agv' = [agv EXCEPT ![a] = n] /\ Delivers(agv[a], n)
  <2>1. CASE HandleStationArrival(a)
    <3>1. PICK state \in {"loading", "unloading"} :
            /\ agv' = [agv EXCEPT ![a] = [agv[a] EXCEPT !.st = state]]
            /\ agv[a].runActive /\ agv[a].st \in {"toPickup", "toDropoff"}
      BY <2>1 DEF HandleStationArrival
    <3> DEFINE n == [agv[a] EXCEPT !.st = state]
    <3>2. /\ n \in AgvRecord /\ n.st = state /\ n.runActive = agv[a].runActive
          /\ n.target = agv[a].target /\ n.order = agv[a].order
      BY <1>1 DEF AgvRecord, AgvStates
    <3>3. Delivers(agv[a], n)
      BY <1>1, <3>1, <3>2 DEF Delivers, Delivering
    <3> QED BY <3>1, <3>3
  <2>2. CASE FinishLoading(a)
    <3> DEFINE n == [agv[a] EXCEPT !.st = "toDropoff", !.carrying = TRUE]
    <3>1. agv' = [agv EXCEPT ![a] = n] /\ agv[a].runActive /\ agv[a].st = "loading"
      BY <2>2 DEF FinishLoading
    <3>2. /\ n \in AgvRecord /\ n.st = "toDropoff" /\ n.runActive = agv[a].runActive
          /\ n.target = agv[a].target /\ n.order = agv[a].order
      BY <1>1 DEF AgvRecord, AgvStates
    <3>3. Delivers(agv[a], n)
      BY <1>1, <3>1, <3>2 DEF Delivers, Delivering
    <3> QED BY <3>1, <3>3
  <2>3. CASE FinishUnloading(a)
    <3> DEFINE n == [agv[a] EXCEPT !.st = "idle", !.carrying = FALSE, !.hasTask = FALSE,
                                   !.order = NoCmd]
    <3>1. agv' = [agv EXCEPT ![a] = n] /\ agv[a].runActive /\ agv[a].st = "unloading"
      BY <2>3 DEF FinishUnloading
    <3>2. /\ n \in AgvRecord /\ n.st = "idle" /\ n.runActive = agv[a].runActive
          /\ n.target = agv[a].target /\ n.order = NoCmd /\ ~n.hasTask
      BY <1>1 DEF AgvRecord, AgvStates
    <3>3. Delivers(agv[a], n)
      BY <1>1, <3>1, <3>2 DEF Delivers, Delivering
    <3> QED BY <3>1, <3>3
  <2> QED BY <2>1, <2>2, <2>3
<1>5. /\ agv' = [b \in Agvs |-> agv'[b]]
      /\ \A b \in Agvs : agv'[b] = agv[b] \/ Delivers(agv[b], agv'[b])
  BY <1>1, <1>4
<1> QED BY <1>2, <1>3, <1>5, DeliveryInv

-----------------------------------------------------------------------------
(* Collisions, and the runs.                                               *)

\* The orders a collision fails were in progress.
LEMMA FailedWereInProgress ==
  ASSUME StationInv, NEW H \in SUBSET Agvs, NEW c \in FailedOrders(H)
  PROVE  /\ c \in Cmds /\ c # NoCmd /\ moving[c] = 1 /\ orders[c] = "inProgress"
         /\ \E b \in H : agv[b].order = c
<1>1. PICK b \in H : agv[b].st # "collided" /\ c = agv[b].order /\ c # NoCmd
  BY DEF FailedOrders
<1>2. b \in Agvs /\ agv[b].order \in Cmds \cup {NoCmd}
  BY DEF StationInv, StationTypeOK
<1> QED BY <1>1, <1>2 DEF StationInv, OrdersHeld

\* AGVs are stopped by a collision, by the end of the run, or by both.
LEMMA StopInv ==
  ASSUME StationInv, NEW H \in SUBSET Agvs,
         orders' = Marked("failed", FailedOrders(H)),
         UNCHANGED <<reservedBy, commandVars, eventVars>>,
         \/ agv' = CollidedAgvs(H) /\ UNCHANGED <<running, toStart, pending>>
         \/ EndRun(CollidedAgvs(H))
  PROVE  StationInv' /\ FateIsFinal
<1> USE DEF StationInv
<1>1. /\ reservedBy' = reservedBy /\ request' = request /\ received' = received
      /\ inbox' = inbox /\ moving' = moving /\ completed' = completed
      /\ orders' = [c \in Cmds |-> IF c \in FailedOrders(H) THEN "failed" ELSE orders[c]]
  BY DEF commandVars, eventVars, Marked
<1>2. agv \in [Agvs -> AgvRecord]
  BY DEF StationTypeOK, AgvRecord
<1>3. ASSUME NEW a \in Agvs
      PROVE  LET r == CollidedAgvs(H)[a] IN
             /\ r \in AgvRecord /\ r.st = IF a \in H THEN "collided" ELSE agv[a].st
             /\ r.order = agv[a].order /\ r.target = agv[a].target
             /\ r.hasTask = agv[a].hasTask /\ r.runActive = agv[a].runActive
  <2>1. agv[a] \in AgvRecord
    BY <1>2
  <2> QED BY <2>1 DEF CollidedAgvs, AgvRecord, AgvStates
<1>4. ASSUME NEW a \in Agvs
      PROVE  /\ agv'[a] \in AgvRecord /\ agv'[a].st = IF a \in H THEN "collided" ELSE agv[a].st
             /\ agv'[a].order = agv[a].order /\ agv'[a].target = agv[a].target
             /\ agv'[a].hasTask = agv[a].hasTask
             /\ agv'[a].runActive = IF EndRun(CollidedAgvs(H)) THEN FALSE ELSE agv[a].runActive
  <2>1. CASE EndRun(CollidedAgvs(H))
    <3> DEFINE r == CollidedAgvs(H)[a]
    <3>1. agv'[a] = [r EXCEPT !.runActive = FALSE]
      BY <2>1 DEF EndRun
    <3>2. r \in AgvRecord
      BY <1>3
    <3> HIDE DEF r
    <3>3. /\ agv'[a] \in AgvRecord /\ agv'[a].st = r.st /\ agv'[a].order = r.order
          /\ agv'[a].target = r.target /\ agv'[a].hasTask = r.hasTask /\ ~agv'[a].runActive
      BY <3>1, <3>2 DEF AgvRecord
    <3>4. agv'[a].runActive = FALSE
      BY <3>1, <3>2 DEF AgvRecord
    <3> QED BY <2>1, <1>3, <3>3, <3>4 DEF r
  <2>2. CASE ~EndRun(CollidedAgvs(H))
    BY <2>2, <1>3
  <2> QED BY <2>1, <2>2
<1>5. agv' \in [Agvs -> AgvRecord]
  <2>1. agv' = [a \in Agvs |-> agv'[a]]
    BY DEF EndRun, CollidedAgvs
  <2> QED BY <1>4, <2>1
<1>6. StationTypeOK'
  <2>1. orders' \in [Cmds -> {"none", "inProgress", "completed", "failed"}]
    BY <1>1 DEF StationTypeOK
  <2>2. running' \in BOOLEAN /\ toStart' \subseteq Agvs /\ pending' \in [Agvs -> Cmds \cup {NoCmd}]
    BY DEF StationTypeOK, EndRun, NonePending
  <2> QED BY <1>1, <1>5, <2>1, <2>2 DEF StationTypeOK, AgvRecord
<1>7. RunInv'
  <2>1. CASE EndRun(CollidedAgvs(H))
    BY <2>1, <1>4 DEF EndRun, RunInv
  <2>2. CASE ~EndRun(CollidedAgvs(H))
    <3>1. running' = running /\ toStart' = toStart
      BY <2>2
    <3>2. \A a \in Agvs : agv'[a].runActive = agv[a].runActive
      BY <1>4, <2>2
    <3> QED BY <3>1, <3>2 DEF RunInv
  <2> QED BY <2>1, <2>2
<1>8. AgvsSane'
  <2>1. ASSUME NEW a \in Agvs PROVE Sane(agv'[a])
    <3>1. Sane(agv[a])
      BY DEF AgvsSane
    <3> QED BY <1>4, <3>1 DEF Sane, Delivering
  <2>2. toStart' \subseteq toStart /\ toStart \subseteq Agvs
    BY DEF EndRun, StationTypeOK
  <2>3. \A a \in toStart : agv[a].order = NoCmd /\ agv[a].target = NoStation /\ ~agv[a].hasTask
    BY DEF AgvsSane
  <2>4. \A a \in toStart' : agv'[a].order = NoCmd /\ agv'[a].target = NoStation /\ ~agv'[a].hasTask
    BY <1>4, <2>2, <2>3
  <2> QED BY <2>1, <2>4 DEF AgvsSane
<1>9. \A c \in Cmds : moving[c] = 0 => c \notin FailedOrders(H)
  BY FailedWereInProgress
<1>10. InboxInv'
  <2>1. \A d \in Cmds : Fresh(d)' <=> Fresh(d)
    BY <1>1 DEF Fresh
  <2> QED BY <1>1, <1>9, <2>1 DEF InboxInv
<1>11. ASSUME NEW a \in Agvs, agv[a].order # NoCmd
       PROVE  LET c == agv[a].order IN
              /\ moving'[c] = 1
              /\ \/ agv'[a].st = "toStation" /\ orders'[c] = "inProgress"
                 \/ agv'[a].st = "collided" /\ orders'[c] = "failed"
  <2> DEFINE c == agv[a].order
  <2>1. /\ c \in Cmds /\ c # NoCmd /\ moving[c] = 1
        /\ \/ agv[a].st = "toStation" /\ orders[c] = "inProgress"
           \/ agv[a].st = "collided" /\ orders[c] = "failed"
    BY <1>11 DEF OrdersHeld, StationTypeOK
  <2>2. agv'[a].st = IF a \in H THEN "collided" ELSE agv[a].st
    BY <1>4
  <2>3. CASE agv[a].st = "collided"
    <3>1. c \notin FailedOrders(H)
      BY <2>1, <2>3, FailedWereInProgress
    <3> QED BY <1>1, <2>1, <2>2, <2>3, <3>1
  <2>4. CASE agv[a].st # "collided" /\ a \in H
    <3>1. c \in FailedOrders(H)
      BY <2>1, <2>4 DEF FailedOrders
    <3> HIDE DEF c
    <3> QED BY <1>1, <2>1, <2>2, <2>4, <3>1 DEF c
  <2>5. CASE agv[a].st # "collided" /\ a \notin H
    <3>1. c \notin FailedOrders(H)
      <4>1. \A b \in H : agv[b].order # c
        BY <2>1, <2>5 DEF OrdersHeld
      <4> QED BY <4>1, FailedWereInProgress
    <3> HIDE DEF c
    <3> QED BY <1>1, <2>1, <2>2, <2>5, <3>1 DEF c
  <2> QED BY <2>3, <2>4, <2>5
<1>12. OrdersHeld'
  <2>1. ASSUME NEW a \in Agvs, NEW b \in Agvs, agv'[a].order # NoCmd, agv'[a].order = agv'[b].order
        PROVE  a = b
    <3>1. agv'[a].order = agv[a].order /\ agv'[b].order = agv[b].order
      BY <1>4
    <3> QED BY <2>1, <3>1 DEF OrdersHeld
  <2>2. ASSUME NEW a \in Agvs, agv'[a].order # NoCmd
        PROVE  /\ moving'[agv'[a].order] = 1
               /\ \/ agv'[a].st = "toStation" /\ orders'[agv'[a].order] = "inProgress"
                  \/ agv'[a].st = "collided" /\ orders'[agv'[a].order] = "failed"
    <3>1. agv'[a].order = agv[a].order
      BY <1>4
    <3> QED BY <1>11, <2>2, <3>1
  <2> QED BY <2>1, <2>2 DEF OrdersHeld
<1>13. DrivesForCommand'
  <2> SUFFICES ASSUME NEW a \in Agvs, agv'[a].runActive, agv'[a].st = "toStation"
               PROVE  pending'[a] # NoCmd
    BY DEF DrivesForCommand
  <2>1. ~EndRun(CollidedAgvs(H))
    BY <1>4
  <2>2. agv[a].runActive /\ agv[a].st = "toStation"
    BY <1>4, <2>1
  <2> QED BY <2>1, <2>2 DEF DrivesForCommand
<1>14. PendingOnCourse'
  <2>1. CASE EndRun(CollidedAgvs(H))
    BY <2>1 DEF EndRun, NonePending, PendingOnCourse
  <2>2. CASE ~EndRun(CollidedAgvs(H))
    <3> SUFFICES ASSUME NEW a \in Agvs, pending[a] # NoCmd
                 PROVE  LET c == pending[a] IN
                        /\ running /\ agv'[a].order = c /\ agv'[a].target = request[c].station
                        /\ reservedBy[request[c].station] = a
                        /\ \/ agv'[a].st = "toStation" /\ agv'[a].runActive /\ orders'[c] = "inProgress"
                           \/ agv'[a].st = "collided" /\ orders'[c] = "failed"
      BY <1>1, <2>2 DEF PendingOnCourse
    <3> DEFINE c == pending[a]
    <3>1. /\ running /\ agv[a].order = c /\ agv[a].target = request[c].station
          /\ reservedBy[request[c].station] = a
          /\ (agv[a].st = "toStation" /\ agv[a].runActive) \/ agv[a].st = "collided"
      BY DEF PendingOnCourse
    <3>2. \/ agv'[a].st = "toStation" /\ orders'[c] = "inProgress"
          \/ agv'[a].st = "collided" /\ orders'[c] = "failed"
      BY <1>11, <3>1
    <3>3. agv'[a].st = "toStation" => agv'[a].runActive
      BY <1>4, <2>2, <3>1
    <3>4. agv'[a].order = c /\ agv'[a].target = request[c].station
      BY <1>4, <3>1
    <3> HIDE DEF c
    <3>5. /\ running /\ agv'[a].order = c /\ agv'[a].target = request[c].station
          /\ reservedBy[request[c].station] = a
          /\ \/ agv'[a].st = "toStation" /\ agv'[a].runActive /\ orders'[c] = "inProgress"
             \/ agv'[a].st = "collided" /\ orders'[c] = "failed"
      BY <3>1, <3>2, <3>3, <3>4
    <3> QED BY <3>5 DEF c
  <2> QED BY <2>1, <2>2
<1>15. EventsMatchOrders'
  BY <1>1, FailedWereInProgress DEF EventsMatchOrders
<1>16. FateIsFinal
  BY <1>1, FailedWereInProgress DEF FateIsFinal
<1> QED BY <1>6, <1>7, <1>8, <1>10, <1>12, <1>13, <1>14, <1>15, <1>16

LEMMA CompleteInv ==
  ASSUME StationInv, CompleteRuntimeRun
  PROVE  StationInv' /\ FateIsFinal
<1>1. CollidedAgvs({}) = agv /\ FailedOrders({}) = {}
  BY DEF CollidedAgvs, FailedOrders, StationInv, StationTypeOK
<1>2. Marked("failed", {}) = orders
  BY DEF Marked, StationInv, StationTypeOK
<1>3. EndRun(CollidedAgvs({})) /\ orders' = Marked("failed", FailedOrders({}))
  BY <1>1, <1>2 DEF CompleteRuntimeRun
<1>4. UNCHANGED <<reservedBy, commandVars, eventVars>>
  BY DEF CompleteRuntimeRun
<1> QED BY <1>3, <1>4, StopInv

LEMMA CollisionInv ==
  ASSUME StationInv,
         \/ \E a, b \in Agvs : Overlap(a, b)
         \/ \E H \in SUBSET Agvs : CheckAgvProximityCollisions(H)
  PROVE  StationInv' /\ FateIsFinal
<1>1. ASSUME NEW a \in Agvs, NEW b \in Agvs, Overlap(a, b) PROVE StationInv' /\ FateIsFinal
  <2>1. /\ {a, b} \in SUBSET Agvs /\ agv' = CollidedAgvs({a, b})
        /\ orders' = Marked("failed", FailedOrders({a, b}))
        /\ UNCHANGED <<reservedBy, commandVars, eventVars>>
        /\ UNCHANGED <<running, toStart, pending>>
    BY <1>1 DEF Overlap
  <2> QED BY <2>1, StopInv
<1>2. ASSUME NEW H \in SUBSET Agvs, CheckAgvProximityCollisions(H) PROVE StationInv' /\ FateIsFinal
  <2>1. /\ orders' = Marked("failed", FailedOrders(H))
        /\ UNCHANGED <<reservedBy, commandVars, eventVars>>
        /\ \/ agv' = CollidedAgvs(H) /\ UNCHANGED <<running, toStart, pending>>
           \/ EndRun(CollidedAgvs(H))
    BY <1>2 DEF CheckAgvProximityCollisions
  <2> QED BY <2>1, StopInv
<1> QED BY <1>1, <1>2

LEMMA StartInv ==
  ASSUME StationInv, StartRuntimeSimulation
  PROVE  StationInv' /\ FateIsFinal
<1> USE DEF StationInv
<1> DEFINE configured == [a \in Agvs |-> [Parked EXCEPT !.st = agv[a].st]]
           first == Started(configured[FirstAgv])
           n == IF HasPickup(FirstAgv) THEN Dispatched(first) ELSE first
<1>1. /\ ~running /\ running' = TRUE /\ toStart' = Agvs \ {FirstAgv} /\ pending' = NonePending
      /\ reservedBy' = reservedBy /\ orders' = orders /\ request' = request
      /\ received' = received /\ inbox' = inbox /\ moving' = moving /\ completed' = completed
      /\ agv' = [configured EXCEPT ![FirstAgv] = n]
  BY DEF StartRuntimeSimulation, commandVars, eventVars
<1>2. FirstAgv \in Agvs
  BY StationCommandsAssumption
<1>3. ASSUME NEW a \in Agvs
      PROVE  LET r == configured[a] IN
             /\ r \in AgvRecord /\ r.st = agv[a].st /\ ~r.runActive /\ ~r.hasTask
             /\ r.target = NoStation /\ r.order = NoCmd
  <2>1. agv[a].st \in AgvStates
    BY DEF StationTypeOK
  <2> QED BY <2>1 DEF Parked, AgvRecord
<1> HIDE DEF configured
<1>4. /\ first \in AgvRecord /\ first.st = "idle" /\ first.runActive /\ ~first.hasTask
      /\ first.target = NoStation /\ first.order = NoCmd
  BY <1>2, <1>3 DEF Started, AgvRecord, AgvStates
<1> HIDE DEF first
<1>5. /\ n \in AgvRecord /\ n.runActive /\ n.target = NoStation /\ n.order = NoCmd
      /\ n.st = "toPickup" \/ (n.st = "idle" /\ ~n.hasTask)
  <2>1. /\ Dispatched(first) \in AgvRecord /\ Dispatched(first).st = "toPickup"
        /\ Dispatched(first).runActive /\ Dispatched(first).target = NoStation
        /\ Dispatched(first).order = NoCmd
    BY <1>4 DEF Dispatched, AgvRecord, AgvStates
  <2> QED BY <1>4, <2>1
<1> HIDE DEF n
<1>6. ASSUME NEW a \in Agvs
      PROVE  agv'[a] = IF a = FirstAgv THEN n ELSE configured[a]
  BY <1>1 DEF configured
<1>7. agv' \in [Agvs -> AgvRecord]
  <2>1. agv' = [a \in Agvs |-> agv'[a]]
    BY <1>1 DEF configured
  <2>2. \A a \in Agvs : agv'[a] \in AgvRecord
    BY <1>3, <1>5, <1>6
  <2> QED BY <2>1, <2>2
<1>8. StationTypeOK'
  <2>1. pending' \in [Agvs -> Cmds \cup {NoCmd}] /\ toStart' \subseteq Agvs
    BY <1>1 DEF NonePending
  <2> QED BY <1>1, <1>7, <2>1 DEF StationTypeOK, AgvRecord
<1>9. RunInv'
  <2>1. \A a \in Agvs : agv'[a].runActive <=> a = FirstAgv
    BY <1>3, <1>5, <1>6
  <2> QED BY <1>1, <2>1 DEF RunInv
<1>10. \A a \in Agvs : agv'[a].order = NoCmd /\ agv'[a].target = NoStation
  BY <1>3, <1>5, <1>6
<1>11. AgvsSane'
  <2>1. \A a \in Agvs : agv'[a].st = "idle" => ~agv'[a].hasTask
    BY <1>3, <1>5, <1>6
  <2>2. \A a \in toStart' : ~agv'[a].hasTask /\ a \in Agvs
    BY <1>1, <1>3, <1>6
  <2> QED BY <1>10, <2>1, <2>2 DEF AgvsSane, Sane
<1>12. InboxInv'
  <2>1. \A d \in Cmds : Fresh(d)' <=> Fresh(d)
    BY <1>1 DEF Fresh
  <2> QED BY <1>1, <2>1 DEF InboxInv
<1>13. OrdersHeld'
  BY <1>10 DEF OrdersHeld
<1>14. DrivesForCommand'
  <2>1. \A a \in Agvs : ~(agv'[a].runActive /\ agv'[a].st = "toStation")
    BY <1>3, <1>5, <1>6
  <2> QED BY <2>1 DEF DrivesForCommand
<1>15. PendingOnCourse'
  BY <1>1 DEF PendingOnCourse, NonePending
<1>16. EventsMatchOrders' /\ FateIsFinal
  BY <1>1 DEF EventsMatchOrders, FateIsFinal
<1> QED BY <1>8, <1>9, <1>11, <1>12, <1>13, <1>14, <1>15, <1>16

LEMMA StaggeredStartInv ==
  ASSUME StationInv, NEW a \in Agvs, StaggeredStart(a)
  PROVE  StationInv' /\ FateIsFinal
<1> USE DEF StationInv
<1> DEFINE n == Started(agv[a])
<1>1. /\ a \in toStart /\ running /\ toStart' = toStart \ {a}
      /\ agv' = [agv EXCEPT ![a] = n]
      /\ running' = running /\ reservedBy' = reservedBy /\ pending' = pending /\ orders' = orders
      /\ request' = request /\ received' = received /\ inbox' = inbox
      /\ moving' = moving /\ completed' = completed
  BY DEF StaggeredStart, commandVars, eventVars
<1>2. agv \in [Agvs -> AgvRecord] /\ agv[a] \in AgvRecord
  BY DEF StationTypeOK, AgvRecord
<1>3. agv[a].order = NoCmd /\ agv[a].target = NoStation /\ ~agv[a].hasTask
  BY <1>1 DEF AgvsSane
<1>4. /\ n \in AgvRecord /\ n.st = "idle" /\ n.runActive /\ ~n.hasTask
      /\ n.target = NoStation /\ n.order = NoCmd
  BY <1>2, <1>3 DEF Started, AgvRecord, AgvStates
<1> HIDE DEF n
<1>5. agv'[a] = n /\ \A b \in Agvs : b # a => agv'[b] = agv[b]
  BY <1>1, <1>2
<1>6. agv' \in [Agvs -> AgvRecord]
  BY <1>1, <1>2, <1>4
<1>7. pending[a] = NoCmd
  BY <1>3 DEF PendingOnCourse
<1>8. StationTypeOK'
  <2>1. toStart' \subseteq Agvs
    BY <1>1 DEF StationTypeOK
  <2> QED BY <1>1, <1>6, <2>1 DEF StationTypeOK, AgvRecord
<1>9. RunInv'
  BY <1>1, <1>4, <1>5 DEF RunInv
<1>10. AgvsSane'
  <2>1. Sane(n)
    BY <1>4 DEF Sane
  <2>2. \A b \in Agvs : Sane(agv'[b])
    BY <1>5, <2>1 DEF AgvsSane
  <2>3. \A b \in toStart' : agv'[b] = agv[b] /\ b \in toStart
    BY <1>1, <1>5 DEF StationTypeOK
  <2> QED BY <2>2, <2>3 DEF AgvsSane
<1>11. InboxInv'
  <2>1. \A d \in Cmds : Fresh(d)' <=> Fresh(d)
    BY <1>1 DEF Fresh
  <2> QED BY <1>1, <2>1 DEF InboxInv
<1>12. \A b \in Agvs : agv'[b].order # NoCmd => agv'[b] = agv[b]
  BY <1>4, <1>5
<1>13. OrdersHeld'
  <2>1. \A b, c \in Agvs : agv'[b].order # NoCmd /\ agv'[b].order = agv'[c].order => b = c
    BY <1>12 DEF OrdersHeld
  <2> QED BY <1>1, <1>12, <2>1 DEF OrdersHeld
<1>14. DrivesForCommand'
  BY <1>1, <1>4, <1>5 DEF DrivesForCommand
<1>15. PendingOnCourse'
  BY <1>1, <1>5, <1>7 DEF PendingOnCourse
<1>16. EventsMatchOrders' /\ FateIsFinal
  BY <1>1 DEF EventsMatchOrders, FateIsFinal
<1> QED BY <1>8, <1>9, <1>10, <1>11, <1>13, <1>14, <1>15, <1>16

-----------------------------------------------------------------------------
(* The theorems about station commands.                                    *)

LEMMA StationNextInv ==
  StationInv /\ [StationNext]_stationVars => StationInv' /\ (FateIsFinal \/ UNCHANGED stationVars)
<1> SUFFICES ASSUME StationInv, [StationNext]_stationVars
             PROVE  StationInv' /\ (FateIsFinal \/ UNCHANGED stationVars)
  OBVIOUS
<1>1. CASE \E c \in Cmds, r \in Requests : HandleAgvCommandRequest(c, r)
  BY <1>1, ReceiveInv
<1>2. CASE ExecuteCommand
  BY <1>2, FallbackInv, DirectInv, RejectInv DEF ExecuteCommand
<1>3. CASE DispatchIdleAgvs
  BY <1>3, DispatchInv
<1>4. CASE \E a \in Agvs : ReachStation(a)
  BY <1>4, ReachStationInv
<1>5. CASE \E a \in Agvs : HandleStationArrival(a) \/ FinishLoading(a) \/ FinishUnloading(a)
  BY <1>5, DeliveryStepInv
<1>6. CASE \E a \in Agvs : StaggeredStart(a)
  BY <1>6, StaggeredStartInv
<1>7. CASE \/ \E a, b \in Agvs : Overlap(a, b)
           \/ \E H \in SUBSET Agvs : CheckAgvProximityCollisions(H)
  BY <1>7, CollisionInv
<1>8. CASE StartRuntimeSimulation
  BY <1>8, StartInv
<1>9. CASE CompleteRuntimeRun
  BY <1>9, CompleteInv
<1>10. CASE UNCHANGED stationVars
  <2>1. /\ running' = running /\ agv' = agv /\ toStart' = toStart /\ reservedBy' = reservedBy
        /\ pending' = pending /\ orders' = orders /\ request' = request /\ received' = received
        /\ inbox' = inbox /\ moving' = moving /\ completed' = completed
    BY <1>10 DEF stationVars, commandVars, eventVars
  <2>2. StationTypeOK' /\ RunInv' /\ AgvsSane'
    BY <2>1 DEF StationInv, StationTypeOK, RunInv, AgvsSane
  <2>3. InboxInv' /\ OrdersHeld' /\ DrivesForCommand'
    BY <2>1 DEF StationInv, InboxInv, Fresh, OrdersHeld, DrivesForCommand
  <2>4. PendingOnCourse' /\ EventsMatchOrders'
    BY <2>1 DEF StationInv, PendingOnCourse, EventsMatchOrders
  <2> QED BY <1>10, <2>2, <2>3, <2>4 DEF StationInv
<1> QED BY <1>1, <1>2, <1>3, <1>4, <1>5, <1>6, <1>7, <1>8, <1>9, <1>10 DEF StationNext

\* The commands, the AGVs that carry them out and the stations they drive to fit
\* together, through redirects, rejections, collisions and runs cut short.
THEOREM StationCommandsFit == StationSpec => []StationInv
<1> QED BY StationInitInv, StationNextInv, PTL DEF StationSpec

\* The variables keep their types; in particular no command is announced twice or
\* closed twice (robot.moving, robot.command.completed).
THEOREM CommandsAreAnsweredOnce == StationSpec => []StationTypeOK
<1>1. StationInv => StationTypeOK
  BY DEF StationInv
<1> QED BY <1>1, StationCommandsFit, PTL

LEMMA InvariantKeepsCourse == StationInv => CommandsOnCourse
<1> SUFFICES ASSUME StationInv PROVE CommandsOnCourse
  OBVIOUS
<1>1. PendingOnCourse
  BY DEF StationInv
<1>2. NoSharedBerth
  <2> SUFFICES ASSUME NEW a \in Agvs, NEW b \in Agvs, agv[a].runActive, agv[b].runActive,
                      agv[a].st = "toStation", agv[b].st = "toStation",
                      agv[a].target = agv[b].target
               PROVE  a = b
    BY DEF NoSharedBerth
  <2>1. pending[a] # NoCmd /\ pending[b] # NoCmd
    BY DEF StationInv, DrivesForCommand
  <2>2. reservedBy[agv[a].target] = a /\ reservedBy[agv[b].target] = b
    BY <1>1, <2>1 DEF PendingOnCourse
  <2> QED BY <2>2
<1>3. IdleIsAvailable
  BY DEF StationInv, AgvsSane, Sane, IdleIsAvailable, IsAvailableForDispatch, HasActiveAssignment
<1> QED BY <1>1, <1>2, <1>3 DEF CommandsOnCourse

\* A pending command's AGV is on its way to the station reserved for it, no two
\* AGVs are sent to one station, and an idle AGV can be dispatched.
THEOREM CommandsStayOnCourse == StationSpec => []CommandsOnCourse
<1> QED BY InvariantKeepsCourse, StationCommandsFit, PTL

\* What the backend is told of a command agrees with its transport order, whose
\* fate, once decided, is final.
THEOREM OutcomesStayAgreed == StationSpec => OutcomesAgree
<1>1. StationInv => EventsMatchOrders
  BY DEF StationInv
<1>2. StationInv /\ [StationNext]_stationVars => StationInv' /\ [FateIsFinal]_stationVars
  BY StationNextInv
<1> QED BY <1>1, <1>2, StationCommandsFit, PTL DEF StationSpec, OutcomesAgree
=============================================================================
