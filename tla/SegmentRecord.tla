---------------------------- MODULE SegmentRecord -----------------------------
(***************************************************************************)
(* FTrafficSegment: the reservation record of one route segment, and what  *)
(* RequestReservation and ReleaseReservation of ATrafficManagerActor do to *)
(* it.  AIntersectionManager keeps the same record for the one             *)
(* intersection it knows, with the same operations.                        *)
(***************************************************************************)
EXTENDS Integers, SequencesExt, Fleet

NotWaiting == -1

Max0(x) == IF x > 0 THEN x ELSE 0

Segment == [active : Agvs \cup {NoAgv},
            queue : Seq(Agvs),
            waitStartedAt : [Agvs -> Nat \cup {NotWaiting}]]

EmptySegment == [active |-> NoAgv, queue |-> <<>>,
                 waitStartedAt |-> [a \in Agvs |-> NotWaiting]]

IsQueued(seg, a) == Contains(seg.queue, a)

IsTiming(seg, a) == seg.waitStartedAt[a] # NotWaiting

WaitOf(seg, a, t) == IF IsTiming(seg, a) THEN Max0(t - seg.waitStartedAt[a]) ELSE 0

\* Queue.RemoveSingle: the first occurrence goes, the order is kept.
RemoveSingle(q, a) ==
  LET found == {i \in DOMAIN q : q[i] = a}
  IN  IF found = {} THEN q
      ELSE RemoveAt(q, CHOOSE i \in found : \A j \in found : i <= j)

\* Mutant: the start time stays in the map.
DequeuedStillTimed(seg, a) == [seg EXCEPT !.queue = RemoveSingle(@, a)]

\* An AGV that is not queued joins the end of the queue and starts waiting.
Enqueued(seg, a, t) ==
  IF IsQueued(seg, a) THEN seg
  ELSE [seg EXCEPT !.queue = Append(@, a), !.waitStartedAt[a] = t]

Dequeued(seg, a) ==
  [seg EXCEPT !.queue = RemoveSingle(@, a), !.waitStartedAt[a] = NotWaiting]

\* Mutants: the segment's occupant, or the order of the queue, is not looked at.
CanEnterOccupied(seg, a) == seg.queue # <<>> /\ Head(seg.queue) = a
CanEnterOutOfTurn(seg, a) == seg.active = NoAgv /\ seg.queue # <<>>

\* Only the head of the queue enters, and only an empty segment.
CanEnter(seg, a) == seg.active = NoAgv /\ seg.queue # <<>> /\ Head(seg.queue) = a

AfterRequest(seg, a, t) ==
  IF seg.active = a THEN seg
  ELSE LET queued == Enqueued(seg, a, t)
       IN  IF CanEnter(queued, a)
           THEN [Dequeued(queued, a) EXCEPT !.active = a]
           ELSE queued

\* Mutants: only the queue is left, or anybody's release frees the segment.
AfterReleaseOfPlace(seg, a) == Dequeued(seg, a)
AfterReleaseByAnybody(seg, a) == [Dequeued(seg, a) EXCEPT !.active = NoAgv]

AfterRelease(seg, a) ==
  [Dequeued(seg, a) EXCEPT !.active = IF @ = a THEN NoAgv ELSE @]

\* What RequestReservation returns.
Grants(seg, a, t) == AfterRequest(seg, a, t).active = a
=============================================================================
