---------------------------- MODULE TrafficManager ----------------------------
(***************************************************************************)
(* ATrafficManagerActor: exclusive reservation of route segments.  Every   *)
(* AGV that wants to enter a segment calls RequestReservation once per     *)
(* frame until it is told TRUE, and ReleaseReservation when it has left.   *)
(* A segment keeps at most one active AGV and a FIFO queue of the others;  *)
(* the manager also accumulates the waiting times the KPIs are built from. *)
(*                                                                         *)
(* Abstractions: segment ids are resolved (FindOrAddSegment replaces an    *)
(* empty id by the default one; a segment never asked for behaves as an    *)
(* empty one); time is counted in ticks; AGV actors outlive the manager,   *)
(* so the weak pointers never expire.                                      *)
(***************************************************************************)
EXTENDS SegmentRecord

CONSTANTS SegmentIds,  \* resolved route segment ids
          MaxTime,     \* bound on the simulation clock
          MaxWaits     \* bound on the number of waits opened between resets

ASSUME BoundsAssumption == MaxTime \in Nat /\ MaxWaits \in Nat

\* The manager's map has finitely many entries.
ASSUME FinitenessAssumption == IsFiniteSet(SegmentIds)

VARIABLES segments,    \* Segments: the reservation record of each segment
          totalWait,   \* TotalWaitSeconds
          waitSamples, \* WaitSamples
          now,         \* the simulation timestamp passed by the callers
          \* history, for the properties only:
          inside,      \* inside[s]: the AGVs told TRUE that have not released s
          opened,      \* the number of waits opened since the last reset
          ticket,      \* ticket[s][a]: the rank of a's last wait for s
          waitedTicks  \* waitedTicks[s][a]: ticks a has been queued for s since then

managerVars == <<segments, totalWait, waitSamples>>
historyVars == <<inside, opened, ticket, waitedTicks>>
vars == <<managerVars, now, historyVars>>

-----------------------------------------------------------------------------
(* What the other components read.                                         *)

\* Mutant: the AGV's own reservation counts against it.
CanReserveFreeSegment(a, s) == segments[s].active = NoAgv

CanReserveSegmentFor(a, s) == segments[s].active \in {NoAgv, a}

GetWaitDuration(a, s) == WaitOf(segments[s], a, now)

GetQueuedAgvIds(s) == segments[s].queue

\* The segments are walked in map order and the first one that holds or
\* queues the AGV is reported, so any of them may be.
GetReservationSnapshotForAgv(a) ==
  LET mine == {s \in SegmentIds : segments[s].active = a \/ IsQueued(segments[s], a)}
      Snapshot(s) ==
        IF segments[s].active = a
        THEN [segment |-> s, state |-> "reserved", by |-> a, wait |-> 0]
        ELSE [segment |-> s, state |-> "waiting", by |-> segments[s].active,
              wait |-> WaitOf(segments[s], a, now)]
  IN  {Snapshot(s) : s \in mine}

GetBlockedSegmentCount ==
  Cardinality({s \in SegmentIds : segments[s].active # NoAgv \/ segments[s].queue # <<>>})

-----------------------------------------------------------------------------
Init ==
  /\ segments = [s \in SegmentIds |-> EmptySegment]
  /\ totalWait = 0 /\ waitSamples = 0 /\ now = 0
  /\ inside = [s \in SegmentIds |-> {}]
  /\ opened = 0
  /\ ticket = [s \in SegmentIds |-> [a \in Agvs |-> 0]]
  /\ waitedTicks = [s \in SegmentIds |-> [a \in Agvs |-> 0]]

\* An AGV asks for the segment ahead of it (TickMovement, once per frame).
RequestReservation(a, s) ==
  LET seg    == segments[s]
      opens  == seg.active # a /\ ~IsQueued(seg, a)
      queued == Enqueued(seg, a, now)
      enters == seg.active # a /\ CanEnter(queued, a)
  IN  /\ opens => opened < MaxWaits
      /\ segments' = [segments EXCEPT ![s] = AfterRequest(seg, a, now)]
      /\ IF enters
         THEN /\ totalWait' = totalWait + WaitOf(queued, a, now)
              /\ waitSamples' = waitSamples + 1
         ELSE UNCHANGED <<totalWait, waitSamples>>
      /\ inside' = IF Grants(seg, a, now) THEN [inside EXCEPT ![s] = @ \cup {a}] ELSE inside
      /\ opened' = IF opens THEN opened + 1 ELSE opened
      /\ ticket' = IF opens THEN [ticket EXCEPT ![s][a] = opened + 1] ELSE ticket
      /\ UNCHANGED <<now, waitedTicks>>

\* An AGV gives a segment back, or gives up waiting for it.
ReleaseReservation(a, s) ==
  LET seg == segments[s]
  IN  /\ segments' = [segments EXCEPT ![s] = AfterRelease(seg, a)]
      /\ IF IsTiming(seg, a)
         THEN /\ totalWait' = totalWait + WaitOf(seg, a, now)
              /\ waitSamples' = waitSamples + 1
         ELSE UNCHANGED <<totalWait, waitSamples>>
      /\ inside' = [inside EXCEPT ![s] = @ \ {a}]
      /\ UNCHANGED <<now, opened, ticket, waitedTicks>>

\* A new run: the controller resets the manager, and every AGV its own flags.
ResetForRun ==
  /\ segments' = [s \in SegmentIds |-> EmptySegment]
  /\ totalWait' = 0 /\ waitSamples' = 0
  /\ inside' = [s \in SegmentIds |-> {}]
  /\ opened' = 0
  /\ ticket' = [s \in SegmentIds |-> [a \in Agvs |-> 0]]
  /\ waitedTicks' = [s \in SegmentIds |-> [a \in Agvs |-> 0]]
  /\ UNCHANGED now

Tick ==
  /\ now < MaxTime
  /\ now' = now + 1
  /\ waitedTicks' = [s \in SegmentIds |-> [a \in Agvs |->
       IF IsQueued(segments[s], a) THEN waitedTicks[s][a] + 1 ELSE waitedTicks[s][a]]]
  /\ UNCHANGED <<managerVars, inside, opened, ticket>>

Next ==
  \/ \E a \in Agvs, s \in SegmentIds : RequestReservation(a, s)
  \/ \E a \in Agvs, s \in SegmentIds : ReleaseReservation(a, s)
  \/ ResetForRun
  \/ Tick

Spec == Init /\ [][Next]_vars

\* A queued AGV asks again on every frame, and an active one drives through
\* the segment and releases it; nobody is obliged to queue in the first place.
Waits(a, s) == IsQueued(segments[s], a) /\ RequestReservation(a, s)
Leaves(a, s) == segments[s].active = a /\ ReleaseReservation(a, s)

FairSpec ==
  Spec /\ \A a \in Agvs, s \in SegmentIds : WF_vars(Waits(a, s)) /\ WF_vars(Leaves(a, s))

-----------------------------------------------------------------------------
TypeOK ==
  /\ segments \in [SegmentIds -> Segment]
  /\ totalWait \in Nat /\ waitSamples \in Nat /\ now \in Nat
  /\ inside \in [SegmentIds -> SUBSET Agvs]
  /\ opened \in Nat
  /\ ticket \in [SegmentIds -> [Agvs -> Nat]]
  /\ waitedTicks \in [SegmentIds -> [Agvs -> Nat]]

\* Mutual exclusion as the callers see it: at any time at most one AGV has been
\* told that it may drive through a segment and has not given it back, and that
\* AGV is the one the manager believes to be active.
MutualExclusion ==
  \A s \in SegmentIds :
    inside[s] = IF segments[s].active = NoAgv THEN {} ELSE {segments[s].active}

\* The queue and the map of waiting times, updated separately by the code, never
\* drift apart: an AGV is queued once at most, is timed exactly while it is
\* queued, started waiting no later than now, and is not active as well.
Coherent(seg, t) ==
  /\ IsInjective(seg.queue)
  /\ \A a \in Agvs : IsQueued(seg, a) <=> IsTiming(seg, a)
  /\ \A a \in Agvs : seg.waitStartedAt[a] <= t
  /\ ~IsQueued(seg, seg.active)
QueueCoherent == \A s \in SegmentIds : Coherent(segments[s], now)

\* The reservation records are sound: well typed, and in themselves consistent.
RecordsAreCoherent == TypeOK /\ QueueCoherent

\* No overtaking: of the AGVs still waiting when one enters a segment, every
\* one joined the queue after it, whatever releases and retries came between.
Enters(a, s) == segments[s].active # a /\ segments'[s].active = a
NoOvertaking ==
  [][\A a, b \in Agvs, s \in SegmentIds :
       Enters(a, s) /\ IsQueued(segments'[s], b) => ticket'[s][a] < ticket'[s][b]]_vars

\* No wait is lost or counted twice by the KPI counters: every wait opened since
\* the reset is a sample or still open, and the time charged is the time spent.
SumOver(f(_, _)) ==
  MapThenSumSet(LAMBDA p : f(p[1], p[2]), SegmentIds \X Agvs)
WaitAccounting ==
  /\ opened = waitSamples + SumOver(LAMBDA s, a : IF IsQueued(segments[s], a) THEN 1 ELSE 0)
  /\ SumOver(LAMBDA s, a : waitedTicks[s][a]) =
       totalWait + SumOver(LAMBDA s, a : GetWaitDuration(a, s))

\* The read side agrees with what a request would do: the dispatcher's advice is
\* never "blocked" for an AGV the next request admits, a reported holder is let
\* in again at once, a reported waiter is neither free of the queue nor inside,
\* and a segment counts as blocked iff somebody there could refuse a newcomer.
ObserversAgree ==
  /\ \A a \in Agvs, s \in SegmentIds :
       Grants(segments[s], a, now) => CanReserveSegmentFor(a, s)
  /\ \A a \in Agvs : \A snap \in GetReservationSnapshotForAgv(a) :
       /\ snap.state = "reserved" <=> a \in inside[snap.segment]
       /\ snap.state = "waiting" => /\ a \in ToSet(GetQueuedAgvIds(snap.segment))
                                    /\ snap.wait = GetWaitDuration(a, snap.segment)
                                    /\ snap.by = NoAgv \/ inside[snap.segment] = {snap.by}
  /\ GetBlockedSegmentCount =
       Cardinality({s \in SegmentIds : inside[s] # {} \/ \E a \in Agvs : GetWaitDuration(a, s) > 0
                                                        \/ IsQueued(segments[s], a)})

\* What the KPIs and the dispatcher read off the manager is true of it.
ReadSideIsTrue == WaitAccounting /\ ObserversAgree

\* As long as holders leave and waiters keep asking, every queued AGV is
\* eventually admitted, or gives up, or is taken out by a reset.
NoStarvation ==
  \A a \in Agvs, s \in SegmentIds : IsQueued(segments[s], a) ~> ~IsQueued(segments[s], a)

-----------------------------------------------------------------------------
(* The lock the manager implements.                                        *)
Lock == INSTANCE SegmentLock WITH
          holder  <- [s \in SegmentIds |-> segments[s].active],
          waiting <- [s \in SegmentIds |-> {a \in Agvs : IsQueued(segments[s], a)}]

\* Seen through its active AGV and the set of its queued ones, the manager is
\* the abstract segment lock: nobody enters past an occupied segment or without
\* standing in line, and giving up never frees somebody else's reservation.
ImplementsLock == Lock!Spec
=============================================================================
