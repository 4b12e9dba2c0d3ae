------------------------- MODULE TrafficManagerProofs -------------------------
(***************************************************************************)
(* Proofs about the traffic manager, for any set of AGVs and segments and  *)
(* any bounds.  The lemmas go from the queue to the segment record to the  *)
(* two operations; the theorems at the end combine them.                   *)
(***************************************************************************)
EXTENDS TrafficManager, TLAPS, SequenceTheorems, FiniteSetTheorems, WellFoundedInduction

-----------------------------------------------------------------------------
(* Removing an AGV from the queue.                                         *)

\* An AGV that is not in the queue: nothing changes.
LEMMA RemoveSingleAbsent ==
  ASSUME NEW q \in Seq(Agvs), NEW a, ~Contains(q, a)
  PROVE  RemoveSingle(q, a) = q
<1>1. DOMAIN q = 1 .. Len(q)
  BY LenProperties
<1> QED BY <1>1 DEF RemoveSingle, Contains

\* An AGV that is in the queue once: the elements behind it move up by one.
LEMMA RemoveSingleShifts ==
  ASSUME NEW q \in Seq(Agvs), IsInjective(q), NEW a \in Agvs, Contains(q, a)
  PROVE  \E k \in 1 .. Len(q) :
           /\ q[k] = a
           /\ RemoveSingle(q, a) \in Seq(Agvs)
           /\ Len(RemoveSingle(q, a)) = Len(q) - 1
           /\ \A j \in 1 .. Len(q) - 1 :
                RemoveSingle(q, a)[j] = IF j < k THEN q[j] ELSE q[j + 1]
<1> DEFINE found == {i \in DOMAIN q : q[i] = a}
           first == CHOOSE i \in found : \A j \in found : i <= j
<1>1. /\ Len(q) \in Nat
      /\ DOMAIN q = 1 .. Len(q)
      /\ \A i \in 1 .. Len(q) : q[i] \in Agvs
  BY LenProperties
<1>2. PICK k \in 1 .. Len(q) : q[k] = a
  BY <1>1 DEF Contains
<1>3. found = {k}
  BY <1>1, <1>2 DEF IsInjective
<1>4. first = k
  BY <1>3
<1>5. RemoveSingle(q, a) = SubSeq(q, 1, k - 1) \o SubSeq(q, k + 1, Len(q))
  BY <1>3, <1>4 DEF RemoveSingle, RemoveAt
<1>6. /\ SubSeq(q, 1, k - 1) \in Seq(Agvs)
      /\ Len(SubSeq(q, 1, k - 1)) = k - 1
      /\ \A i \in 1 .. k - 1 : SubSeq(q, 1, k - 1)[i] = q[i]
  BY <1>1, SubSeqProperties
<1>7. /\ SubSeq(q, k + 1, Len(q)) \in Seq(Agvs)
      /\ Len(SubSeq(q, k + 1, Len(q))) = Len(q) - k
      /\ \A i \in 1 .. Len(q) - k : SubSeq(q, k + 1, Len(q))[i] = q[k + i]
  <2>1. \A i \in k + 1 .. Len(q) : q[i] \in Agvs
    BY <1>1
  <2> DEFINE b == SubSeq(q, k + 1, Len(q))
             n == Len(q)
  <2>2. /\ b \in Seq(Agvs)
        /\ Len(b) = IF k + 1 <= n THEN n - (k + 1) + 1 ELSE 0
        /\ \A i \in 1 .. n - (k + 1) + 1 : b[i] = q[k + 1 + i - 1]
    BY <1>1, <2>1, SubSeqProperties
  <2>3. n \in Nat /\ k \in 1 .. n
    BY <1>1
  <2> HIDE DEF b, n
  <2>4. Len(b) = n - k
    BY <2>2, <2>3
  <2>5. ASSUME NEW i \in 1 .. n - k
        PROVE  b[i] = q[k + i]
    <3>1. i \in 1 .. n - (k + 1) + 1 /\ k + 1 + i - 1 = k + i
      BY <2>3
    <3> QED BY <3>1, <2>2
  <2> QED BY <2>2, <2>4, <2>5 DEF b, n
<1> DEFINE r == RemoveSingle(q, a)
           front == SubSeq(q, 1, k - 1)
           back == SubSeq(q, k + 1, Len(q))
<1> HIDE DEF found, first
<1>8. /\ r \in Seq(Agvs)
      /\ Len(r) = Len(front) + Len(back)
      /\ \A i \in 1 .. Len(front) + Len(back) :
           r[i] = IF i <= Len(front) THEN front[i] ELSE back[i - Len(front)]
  <2> HIDE DEF front, back
  <2>1. front \in Seq(Agvs) /\ back \in Seq(Agvs)
    BY <1>6, <1>7 DEF front, back
  <2>2. r = front \o back
    BY <1>5 DEF front, back
  <2> HIDE DEF r
  <2> QED BY <2>1, <2>2, ConcatProperties
<1>9. /\ Len(front) = k - 1 /\ Len(back) = Len(q) - k
      /\ \A i \in 1 .. k - 1 : front[i] = q[i]
      /\ \A i \in 1 .. Len(q) - k : back[i] = q[k + i]
  BY <1>6, <1>7
<1> HIDE DEF r, front, back
<1>10. Len(r) = Len(q) - 1
  BY <1>1, <1>8, <1>9
<1>11. ASSUME NEW j \in 1 .. Len(q) - 1
       PROVE  r[j] = IF j < k THEN q[j] ELSE q[j + 1]
  <2>1. r[j] = IF j <= k - 1 THEN front[j] ELSE back[j - (k - 1)]
    BY <1>1, <1>8, <1>9
  <2>2. CASE j < k
    BY <2>1, <2>2, <1>1, <1>9
  <2>3. CASE j >= k
    <3>1. /\ j - (k - 1) \in 1 .. Len(q) - k
          /\ k + (j - (k - 1)) = j + 1
      BY <2>3, <1>1
    <3> QED BY <3>1, <2>1, <2>3, <1>9
  <2> QED BY <2>2, <2>3, <1>1
<1> QED BY <1>2, <1>8, <1>10, <1>11 DEF r

\* Either way the result is a queue without duplicates whose elements are the
\* others, in the same order.
LEMMA RemoveSingleProperties ==
  ASSUME NEW q \in Seq(Agvs), IsInjective(q), NEW a \in Agvs
  PROVE  /\ RemoveSingle(q, a) \in Seq(Agvs)
         /\ IsInjective(RemoveSingle(q, a))
         /\ \A b : Contains(RemoveSingle(q, a), b) <=> Contains(q, b) /\ b # a
<1>1. CASE ~Contains(q, a)
  BY <1>1, RemoveSingleAbsent
<1>2. CASE Contains(q, a)
  <2> DEFINE r == RemoveSingle(q, a)
  <2>1. PICK k \in 1 .. Len(q) :
          /\ q[k] = a
          /\ r \in Seq(Agvs)
          /\ Len(r) = Len(q) - 1
          /\ \A j \in 1 .. Len(q) - 1 : r[j] = IF j < k THEN q[j] ELSE q[j + 1]
    BY <1>2, RemoveSingleShifts
  <2>2. /\ Len(q) \in Nat /\ DOMAIN q = 1 .. Len(q)
        /\ DOMAIN r = 1 .. Len(q) - 1
    BY <2>1, LenProperties
  <2> HIDE DEF r
  <2> DEFINE old(j) == IF j < k THEN j ELSE j + 1
  <2>3. IsInjective(r)
    <3>1. SUFFICES ASSUME NEW i \in 1 .. Len(q) - 1, NEW j \in 1 .. Len(q) - 1,
                          r[i] = r[j]
                   PROVE  i = j
      BY <2>2 DEF IsInjective
    <3>2. /\ old(i) \in DOMAIN q /\ r[i] = q[old(i)]
          /\ old(j) \in DOMAIN q /\ r[j] = q[old(j)]
      BY <2>1, <2>2
    <3>3. old(i) = old(j)
      BY <3>1, <3>2 DEF IsInjective
    <3> QED BY <3>3
  <2>4. ASSUME NEW b, Contains(r, b) PROVE Contains(q, b) /\ b # a
    <3>1. PICK j \in 1 .. Len(q) - 1 : r[j] = b
      BY <2>2, <2>4 DEF Contains
    <3> QED BY <3>1, <2>1, <2>2 DEF Contains, IsInjective
  <2>5. ASSUME NEW b, Contains(q, b), b # a PROVE Contains(r, b)
    <3>1. PICK i \in 1 .. Len(q) : q[i] = b
      BY <2>2, <2>5 DEF Contains
    <3>2. CASE i < k
      <4>1. i \in 1 .. Len(q) - 1 /\ r[i] = b
        BY <3>1, <3>2, <2>1, <2>2
      <4> QED BY <4>1, <2>2 DEF Contains
    <3>3. CASE i > k
      <4>1. i - 1 \in 1 .. Len(q) - 1 /\ ~(i - 1 < k) /\ i - 1 + 1 = i
        BY <3>1, <3>3, <2>2
      <4>2. r[i - 1] = b
        BY <4>1, <3>1, <2>1
      <4> QED BY <4>1, <4>2, <2>2 DEF Contains
    <3>4. i # k
      BY <3>1, <2>1, <2>5
    <3> QED BY <3>2, <3>3, <3>4
  <2> QED BY <2>1, <2>3, <2>4, <2>5 DEF r
<1> QED BY <1>1, <1>2

-----------------------------------------------------------------------------
(* The segment record.                                                     *)

\* Leaving the queue: a is out of it and no longer timed, the rest stands.
LEMMA DequeuedProperties ==
  ASSUME NEW seg \in Segment, NEW t \in Nat, Coherent(seg, t), NEW a \in Agvs
  PROVE  /\ Dequeued(seg, a) \in Segment
         /\ Dequeued(seg, a).active = seg.active
         /\ \A b : IsQueued(Dequeued(seg, a), b) <=> IsQueued(seg, b) /\ b # a
         /\ Coherent(Dequeued(seg, a), t)
<1>1. /\ seg.queue \in Seq(Agvs) /\ IsInjective(seg.queue)
      /\ seg.waitStartedAt \in [Agvs -> Nat \cup {NotWaiting}]
  BY DEF Segment, Coherent
<1> DEFINE out == Dequeued(seg, a)
<1>2. /\ out.active = seg.active
      /\ out.queue = RemoveSingle(seg.queue, a)
      /\ out.waitStartedAt = [seg.waitStartedAt EXCEPT ![a] = NotWaiting]
  BY DEF Dequeued, Segment
<1>3. /\ out.queue \in Seq(Agvs)
      /\ IsInjective(out.queue)
      /\ \A b : IsQueued(out, b) <=> IsQueued(seg, b) /\ b # a
  BY <1>1, <1>2, RemoveSingleProperties DEF IsQueued
<1>4. out \in Segment
  BY <1>1, <1>2, <1>3 DEF Segment, Dequeued
<1> HIDE DEF out
<1>5. \A b \in Agvs : IsTiming(out, b) <=> IsTiming(seg, b) /\ b # a
  BY <1>1, <1>2 DEF IsTiming
<1>6. \A b \in Agvs : out.waitStartedAt[b] <= t
  BY <1>1, <1>2 DEF Coherent, NotWaiting
<1>7. Coherent(out, t)
  BY <1>2, <1>3, <1>5, <1>6 DEF Coherent
<1> QED BY <1>2, <1>3, <1>4, <1>7 DEF out

\* Joining the queue of a segment one is not active in.
LEMMA EnqueuedProperties ==
  ASSUME NEW seg \in Segment, NEW t \in Nat, Coherent(seg, t),
         NEW a \in Agvs, seg.active # a
  PROVE  /\ Enqueued(seg, a, t) \in Segment
         /\ Enqueued(seg, a, t).active = seg.active
         /\ \A b : IsQueued(Enqueued(seg, a, t), b) <=> IsQueued(seg, b) \/ b = a
         /\ Coherent(Enqueued(seg, a, t), t)
<1>1. CASE IsQueued(seg, a)
  BY <1>1 DEF Enqueued
<1>2. CASE ~IsQueued(seg, a)
  <2> DEFINE q == seg.queue
             new == Enqueued(seg, a, t)
  <2>1. /\ q \in Seq(Agvs) /\ IsInjective(q)
        /\ seg.waitStartedAt \in [Agvs -> Nat \cup {NotWaiting}]
    BY DEF Segment, Coherent
  <2>2. /\ new.active = seg.active
        /\ new.queue = Append(q, a)
        /\ new.waitStartedAt = [seg.waitStartedAt EXCEPT ![a] = t]
    BY <1>2 DEF Enqueued, Segment
  <2>3. new \in Segment
    <3>1. /\ Append(q, a) \in Seq(Agvs)
          /\ [seg.waitStartedAt EXCEPT ![a] = t] \in [Agvs -> Nat \cup {NotWaiting}]
      BY <2>1, AppendProperties
    <3>2. new = [seg EXCEPT !.queue = Append(q, a),
                            !.waitStartedAt = [seg.waitStartedAt EXCEPT ![a] = t]]
      BY <1>2 DEF Enqueued
    <3> QED BY <3>1, <3>2 DEF Segment
  <2>4. /\ Len(q) \in Nat /\ DOMAIN q = 1 .. Len(q)
        /\ Append(q, a) \in Seq(Agvs)
        /\ Len(Append(q, a)) = Len(q) + 1
        /\ DOMAIN Append(q, a) = 1 .. Len(q) + 1
        /\ \A i \in 1 .. Len(q) : Append(q, a)[i] = q[i]
        /\ Append(q, a)[Len(q) + 1] = a
    BY <2>1, LenProperties, AppendProperties
  <2>5. \A i \in 1 .. Len(q) : q[i] # a
    BY <1>2, <2>4 DEF IsQueued, Contains
  <2>6. IsInjective(Append(q, a))
    <3>1. SUFFICES ASSUME NEW i \in 1 .. Len(q) + 1, NEW j \in 1 .. Len(q) + 1,
                          Append(q, a)[i] = Append(q, a)[j]
                   PROVE  i = j
      BY <2>4 DEF IsInjective
    <3>2. CASE i \in 1 .. Len(q) /\ j \in 1 .. Len(q)
      BY <3>1, <3>2, <2>1, <2>4 DEF IsInjective
    <3> QED BY <3>1, <3>2, <2>4, <2>5
  <2>7. \A b : Contains(Append(q, a), b) <=> Contains(q, b) \/ b = a
    BY <2>4 DEF Contains
  <2> HIDE DEF new, q
  <2>8. \A b \in Agvs : IsTiming(new, b) <=> IsTiming(seg, b) \/ b = a
    BY <2>1, <2>2 DEF IsTiming, NotWaiting
  <2>9. \A b \in Agvs : new.waitStartedAt[b] <= t
    BY <2>1, <2>2 DEF Coherent
  <2>10. Coherent(new, t)
    BY <2>2, <2>6, <2>7, <2>8, <2>9 DEF Coherent, IsQueued, q
  <2> QED BY <2>2, <2>3, <2>7, <2>10 DEF IsQueued, q, new
<1> QED BY <1>1, <1>2

\* A request is one of three things: a repeated one of the active AGV, one that
\* admits the AGV to a free segment in its turn, or one that leaves it queued.
LEMMA AfterRequestCases ==
  ASSUME NEW seg \in Segment, NEW t \in Nat, Coherent(seg, t), NEW a \in Agvs
  PROVE  LET new == AfterRequest(seg, a, t) IN
         /\ new \in Segment
         /\ Coherent(new, t)
         /\ \/ /\ seg.active = a
               /\ new = seg
            \/ /\ seg.active = NoAgv /\ new.active = a
               /\ IsQueued(seg, a) \/ \A b \in Agvs : ~IsQueued(seg, b)
               /\ \A b : IsQueued(new, b) <=> IsQueued(seg, b) /\ b # a
            \/ /\ seg.active # a /\ new.active = seg.active
               /\ \/ IsQueued(seg, a)
                  \/ seg.active # NoAgv
                  \/ \E b \in Agvs : IsQueued(seg, b)
               /\ \A b : IsQueued(new, b) <=> IsQueued(seg, b) \/ b = a
<1> DEFINE new == AfterRequest(seg, a, t)
           queued == Enqueued(seg, a, t)
           out == Dequeued(queued, a)
<1>1. CASE seg.active = a
  BY <1>1 DEF AfterRequest
<1>2. CASE seg.active # a
  <2>1. /\ queued \in Segment /\ queued.active = seg.active /\ Coherent(queued, t)
        /\ \A b : IsQueued(queued, b) <=> IsQueued(seg, b) \/ b = a
    BY <1>2, EnqueuedProperties
  <2>2. /\ out \in Segment /\ out.active = seg.active /\ Coherent(out, t)
        /\ \A b : IsQueued(out, b) <=> IsQueued(queued, b) /\ b # a
    BY <2>1, DequeuedProperties
  <2>3. /\ seg.queue \in Seq(Agvs) /\ Len(seg.queue) \in Nat
        /\ DOMAIN seg.queue = 1 .. Len(seg.queue)
        /\ \A i \in 1 .. Len(seg.queue) : seg.queue[i] \in Agvs
        /\ seg.queue # <<>> <=> Len(seg.queue) # 0
    BY LenProperties, ElementOfSeq, EmptySeq DEF Segment
  <2>4. ~IsQueued(seg, a) => queued.queue = Append(seg.queue, a)
    BY DEF Enqueued, Segment
  <2>5. CASE CanEnter(queued, a)
    <3>1. new = [out EXCEPT !.active = a]
      BY <1>2, <2>5 DEF AfterRequest
    <3>2. new \in Segment /\ new.active = a
      BY <2>2, <3>1 DEF Segment
    <3>3. new.queue = out.queue /\ new.waitStartedAt = out.waitStartedAt
      BY <2>2, <3>1 DEF Segment
    <3>4. \A b : IsQueued(new, b) <=> IsQueued(seg, b) /\ b # a
      BY <2>1, <2>2, <3>3 DEF IsQueued
    <3>5. Coherent(new, t)
      BY <2>2, <3>2, <3>3, <3>4 DEF Coherent, IsQueued, IsTiming
    <3>6. seg.active = NoAgv
      BY <2>1, <2>5 DEF CanEnter
    <3>7. ASSUME ~IsQueued(seg, a), NEW b \in Agvs, IsQueued(seg, b) PROVE FALSE
      <4>1. Len(seg.queue) # 0
        BY <2>3, <3>7 DEF IsQueued, Contains
      <4>2. Head(Append(seg.queue, a)) = seg.queue[1]
        BY <2>3, <4>1, AppendProperties
      <4>3. seg.queue[1] = a
        BY <2>4, <2>5, <3>7, <4>2 DEF CanEnter
      <4> QED BY <2>3, <3>7, <4>1, <4>3 DEF IsQueued, Contains
    <3> QED BY <3>2, <3>4, <3>5, <3>6, <3>7
  <2>6. CASE ~CanEnter(queued, a)
    <3>1. new = queued
      BY <1>2, <2>6 DEF AfterRequest
    <3>2. ASSUME ~IsQueued(seg, a), seg.active = NoAgv
          PROVE  \E b \in Agvs : IsQueued(seg, b)
      <4>1. CASE Len(seg.queue) = 0
        <5>1. seg.queue = <<>> /\ queued.queue = <<a>>
          BY <2>3, <2>4, <3>2, <4>1
        <5>2. CanEnter(queued, a)
          BY <2>1, <3>2, <5>1 DEF CanEnter
        <5> QED BY <2>6, <5>2
      <4>2. CASE Len(seg.queue) # 0
        <5>1. 1 \in 1 .. Len(seg.queue)
          BY <2>3, <4>2
        <5> QED BY <2>3, <5>1 DEF IsQueued, Contains
      <4> QED BY <4>1, <4>2
    <3> QED BY <1>2, <2>1, <3>1, <3>2
  <2> QED BY <2>5, <2>6
<1> QED BY <1>1, <1>2

\* A release frees the segment only if the AGV is the active one, and takes it
\* out of the queue if it was there.
LEMMA AfterReleaseProperties ==
  ASSUME NEW seg \in Segment, NEW t \in Nat, Coherent(seg, t), NEW a \in Agvs
  PROVE  LET new == AfterRelease(seg, a) IN
         /\ new \in Segment
         /\ Coherent(new, t)
         /\ new.active = IF seg.active = a THEN NoAgv ELSE seg.active
         /\ \A b : IsQueued(new, b) <=> IsQueued(seg, b) /\ b # a
<1> DEFINE new == AfterRelease(seg, a)
           out == Dequeued(seg, a)
<1>1. /\ out \in Segment /\ out.active = seg.active /\ Coherent(out, t)
      /\ \A b : IsQueued(out, b) <=> IsQueued(seg, b) /\ b # a
  BY DequeuedProperties
<1>2. /\ new \in Segment
      /\ new.active = IF seg.active = a THEN NoAgv ELSE seg.active
      /\ new.queue = out.queue /\ new.waitStartedAt = out.waitStartedAt
  BY <1>1 DEF AfterRelease, Segment
<1>3. \A b : IsQueued(new, b) <=> IsQueued(seg, b) /\ b # a
  BY <1>1, <1>2 DEF IsQueued
<1>4. \A b : IsQueued(new, b) => b \in Agvs
  BY <1>2, LenProperties DEF IsQueued, Contains, Segment
<1>5. Coherent(new, t)
  BY <1>1, <1>2, <1>3, <1>4, AgvsAssumption DEF Coherent, IsQueued, IsTiming
<1> QED BY <1>2, <1>3, <1>5

-----------------------------------------------------------------------------
(* The inductive invariant: none of its parts is inductive alone.  The     *)
(* callers' view needs the record's coherence, and the coherence of a      *)
(* record needs its type.                                                  *)
IInv == TypeOK /\ MutualExclusion /\ QueueCoherent

LEMMA InitIInv == Init => IInv
<1> SUFFICES ASSUME Init PROVE IInv
  OBVIOUS
<1>1. /\ EmptySegment \in Segment
      /\ EmptySegment.active = NoAgv
      /\ EmptySegment.queue = <<>>
      /\ \A a \in Agvs : EmptySegment.waitStartedAt[a] = NotWaiting
  BY DEF EmptySegment, Segment
<1>2. \A b : ~IsQueued(EmptySegment, b)
  BY <1>1 DEF IsQueued, Contains
<1>3. Coherent(EmptySegment, now)
  BY <1>1, <1>2 DEF Coherent, IsTiming, NotWaiting, IsInjective, Init
<1>4. TypeOK
  BY <1>1 DEF Init, TypeOK
<1>5. MutualExclusion
  BY <1>1 DEF Init, MutualExclusion
<1>6. QueueCoherent
  BY <1>3 DEF Init, QueueCoherent
<1> QED BY <1>4, <1>5, <1>6 DEF IInv

LEMMA ResetIInv == IInv /\ ResetForRun => IInv'
<1> SUFFICES ASSUME IInv, ResetForRun PROVE IInv'
  OBVIOUS
<1>1. /\ EmptySegment \in Segment
      /\ EmptySegment.active = NoAgv
      /\ EmptySegment.queue = <<>>
      /\ \A a \in Agvs : EmptySegment.waitStartedAt[a] = NotWaiting
  BY DEF EmptySegment, Segment
<1>2. \A b : ~IsQueued(EmptySegment, b)
  BY <1>1 DEF IsQueued, Contains
<1>3. now' = now /\ now \in Nat
  BY DEF ResetForRun, IInv, TypeOK
<1>4. Coherent(EmptySegment, now')
  BY <1>1, <1>2, <1>3 DEF Coherent, IsTiming, NotWaiting, IsInjective
<1>5. TypeOK'
  BY <1>1, <1>3 DEF ResetForRun, TypeOK
<1>6. MutualExclusion'
  BY <1>1 DEF ResetForRun, MutualExclusion
<1>7. QueueCoherent'
  BY <1>4 DEF ResetForRun, QueueCoherent
<1> QED BY <1>5, <1>6, <1>7 DEF IInv

\* The waiting time of an AGV is never negative, so the counters stay naturals.
LEMMA WaitOfType ==
  ASSUME NEW seg \in Segment, NEW a \in Agvs, NEW t \in Nat
  PROVE  WaitOf(seg, a, t) \in Nat
BY DEF WaitOf, Max0, IsTiming, Segment, NotWaiting

LEMMA RequestIInv ==
  ASSUME IInv, NEW a \in Agvs, NEW s \in SegmentIds, RequestReservation(a, s)
  PROVE  IInv'
<1> DEFINE seg == segments[s]
           new == AfterRequest(seg, a, now)
           queued == Enqueued(seg, a, now)
<1>1. seg \in Segment /\ now \in Nat /\ Coherent(seg, now) /\ now' = now
  BY DEF IInv, TypeOK, QueueCoherent, RequestReservation
<1>2. /\ new \in Segment
      /\ Coherent(new, now)
      /\ \/ new.active = seg.active
         \/ seg.active = NoAgv /\ new.active = a
  BY <1>1, AfterRequestCases
<1>3. segments' = [segments EXCEPT ![s] = new]
  BY DEF RequestReservation
<1>4. TypeOK'
  <2>1. seg.active # a => queued \in Segment
    BY <1>1, EnqueuedProperties
  <2>2. seg.active # a => WaitOf(queued, a, now) \in Nat
    BY <1>1, <2>1, WaitOfType
  <2>3. totalWait' \in Nat /\ waitSamples' \in Nat
    BY <2>2 DEF RequestReservation, IInv, TypeOK
  <2>4. opened' \in Nat /\ ticket' \in [SegmentIds -> [Agvs -> Nat]]
    BY DEF RequestReservation, IInv, TypeOK
  <2>5. segments' \in [SegmentIds -> Segment]
    BY <1>2, <1>3 DEF IInv, TypeOK
  <2>6. /\ inside' \in [SegmentIds -> SUBSET Agvs]
        /\ waitedTicks' \in [SegmentIds -> [Agvs -> Nat]]
    BY DEF RequestReservation, IInv, TypeOK
  <2> QED BY <1>1, <2>3, <2>4, <2>5, <2>6 DEF TypeOK
<1>5. MutualExclusion'
  <2> SUFFICES ASSUME NEW r \in SegmentIds
               PROVE  inside'[r] = IF segments'[r].active = NoAgv THEN {}
                                   ELSE {segments'[r].active}
    BY DEF MutualExclusion
  <2>1. inside[r] = IF segments[r].active = NoAgv THEN {} ELSE {segments[r].active}
    BY DEF IInv, MutualExclusion
  <2>2. inside' = IF new.active = a THEN [inside EXCEPT ![s] = @ \cup {a}] ELSE inside
    BY DEF RequestReservation, Grants
  <2>3. CASE r = s
    <3>1. segments'[r] = new /\ segments[r] = seg
      BY <1>3, <2>3 DEF IInv, TypeOK
    <3>2. inside'[r] = IF new.active = a THEN inside[r] \cup {a} ELSE inside[r]
      BY <2>2, <2>3 DEF IInv, TypeOK
    <3> HIDE DEF new, seg
    <3> QED BY <1>2, <2>1, <3>1, <3>2, AgvsAssumption
  <2>4. CASE r # s
    <3>1. segments'[r] = segments[r] /\ inside'[r] = inside[r]
      BY <1>3, <2>2, <2>4 DEF IInv, TypeOK
    <3> QED BY <2>1, <3>1
  <2> QED BY <2>3, <2>4
<1>6. QueueCoherent'
  BY <1>1, <1>2, <1>3 DEF IInv, TypeOK, QueueCoherent
<1> QED BY <1>4, <1>5, <1>6 DEF IInv

LEMMA ReleaseIInv ==
  ASSUME IInv, NEW a \in Agvs, NEW s \in SegmentIds, ReleaseReservation(a, s)
  PROVE  IInv'
<1> DEFINE seg == segments[s]
           new == AfterRelease(seg, a)
<1>1. seg \in Segment /\ now \in Nat /\ Coherent(seg, now) /\ now' = now
  BY DEF IInv, TypeOK, QueueCoherent, ReleaseReservation
<1>2. /\ new \in Segment
      /\ Coherent(new, now)
      /\ new.active = IF seg.active = a THEN NoAgv ELSE seg.active
  BY <1>1, AfterReleaseProperties
<1>3. segments' = [segments EXCEPT ![s] = new]
  BY DEF ReleaseReservation
<1>4. TypeOK'
  <2>1. WaitOf(seg, a, now) \in Nat
    BY <1>1, WaitOfType
  <2>2. totalWait' \in Nat /\ waitSamples' \in Nat
    BY <2>1 DEF ReleaseReservation, IInv, TypeOK
  <2>3. segments' \in [SegmentIds -> Segment]
    BY <1>2, <1>3 DEF IInv, TypeOK
  <2>4. /\ opened' \in Nat /\ ticket' \in [SegmentIds -> [Agvs -> Nat]]
        /\ inside' \in [SegmentIds -> SUBSET Agvs]
        /\ waitedTicks' \in [SegmentIds -> [Agvs -> Nat]]
    BY DEF ReleaseReservation, IInv, TypeOK
  <2> QED BY <1>1, <2>2, <2>3, <2>4 DEF TypeOK
<1>5. MutualExclusion'
  <2> SUFFICES ASSUME NEW r \in SegmentIds
               PROVE  inside'[r] = IF segments'[r].active = NoAgv THEN {}
                                   ELSE {segments'[r].active}
    BY DEF MutualExclusion
  <2>1. inside[r] = IF segments[r].active = NoAgv THEN {} ELSE {segments[r].active}
    BY DEF IInv, MutualExclusion
  <2>2. CASE r = s
    <3>1. segments'[r] = new /\ segments[r] = seg /\ inside'[r] = inside[r] \ {a}
      BY <1>3, <2>2 DEF ReleaseReservation, IInv, TypeOK
    <3> HIDE DEF new, seg
    <3> QED BY <1>2, <2>1, <3>1
  <2>3. CASE r # s
    <3>1. segments'[r] = segments[r] /\ inside'[r] = inside[r]
      BY <1>3, <2>3 DEF ReleaseReservation, IInv, TypeOK
    <3> QED BY <2>1, <3>1
  <2> QED BY <2>2, <2>3
<1>6. QueueCoherent'
  BY <1>1, <1>2, <1>3 DEF IInv, TypeOK, QueueCoherent
<1> QED BY <1>4, <1>5, <1>6 DEF IInv

LEMMA TickIInv == IInv /\ Tick => IInv'
<1> SUFFICES ASSUME IInv, Tick PROVE IInv'
  OBVIOUS
<1>1. segments' = segments /\ inside' = inside /\ now' = now + 1 /\ now \in Nat
  BY DEF Tick, managerVars, IInv, TypeOK
<1>2. TypeOK'
  BY <1>1 DEF Tick, managerVars, IInv, TypeOK
<1>3. MutualExclusion'
  BY <1>1 DEF IInv, MutualExclusion
<1>4. QueueCoherent'
  <2> SUFFICES ASSUME NEW s \in SegmentIds PROVE Coherent(segments[s], now + 1)
    BY <1>1 DEF QueueCoherent
  <2>1. segments[s] \in Segment /\ Coherent(segments[s], now)
    BY DEF IInv, TypeOK, QueueCoherent
  <2>2. \A a \in Agvs : segments[s].waitStartedAt[a] <= now + 1
    BY <1>1, <2>1 DEF Segment, Coherent, NotWaiting
  <2> QED BY <2>1, <2>2 DEF Coherent
<1> QED BY <1>2, <1>3, <1>4 DEF IInv

LEMMA NextIInv == IInv /\ [Next]_vars => IInv'
<1> SUFFICES ASSUME IInv, [Next]_vars PROVE IInv'
  OBVIOUS
<1>1. CASE \E a \in Agvs, s \in SegmentIds : RequestReservation(a, s)
  BY <1>1, RequestIInv
<1>2. CASE \E a \in Agvs, s \in SegmentIds : ReleaseReservation(a, s)
  BY <1>2, ReleaseIInv
<1>3. CASE ResetForRun
  BY <1>3, ResetIInv
<1>4. CASE Tick
  BY <1>4, TickIInv
<1>5. CASE UNCHANGED vars
  BY <1>5 DEF vars, managerVars, historyVars, IInv, TypeOK, MutualExclusion, QueueCoherent
<1> QED BY <1>1, <1>2, <1>3, <1>4, <1>5 DEF Next

THEOREM Invariance == Spec => []IInv
<1> QED BY InitIInv, NextIInv, PTL DEF Spec

\* The variables keep their types.
THEOREM TypeCorrect == Spec => []TypeOK
<1>1. IInv => TypeOK
  BY DEF IInv
<1> QED BY <1>1, Invariance, PTL

\* At most one AGV at a time holds a grant it has not returned, and it is the
\* one the manager takes for the active one (RequestReservation's TRUE).
THEOREM GrantsAreExclusive == Spec => []MutualExclusion
<1>1. IInv => MutualExclusion
  BY DEF IInv
<1> QED BY <1>1, Invariance, PTL

\* Queue, waiting times and active AGV of every segment stay consistent.
THEOREM QueuesAreCoherent == Spec => []QueueCoherent
<1>1. IInv => QueueCoherent
  BY DEF IInv
<1> QED BY <1>1, Invariance, PTL

\* The reservation records stay sound, whatever AGVs ask for and give back.
THEOREM RecordsStayCoherent == Spec => []RecordsAreCoherent
<1>1. IInv => RecordsAreCoherent
  BY DEF IInv, RecordsAreCoherent
<1> QED BY <1>1, Invariance, PTL

-----------------------------------------------------------------------------
(* The manager implements the abstract lock.                               *)

\* The refinement mapping, by name.
LockHolder == [s \in SegmentIds |-> segments[s].active]
LockWaiting == [s \in SegmentIds |-> {a \in Agvs : IsQueued(segments[s], a)}]

LEMMA RequestImplementsLock ==
  ASSUME IInv, NEW a \in Agvs, NEW s \in SegmentIds, RequestReservation(a, s)
  PROVE  \/ Lock!Enter(a, s)
         \/ Lock!Wait(a, s)
         \/ UNCHANGED <<LockHolder, LockWaiting>>
<1> DEFINE seg == segments[s]
           new == AfterRequest(seg, a, now)
<1>1. seg \in Segment /\ now \in Nat /\ Coherent(seg, now)
  BY DEF IInv, TypeOK, QueueCoherent
<1>2. /\ segments' = [segments EXCEPT ![s] = new]
      /\ segments'[s] = new
      /\ \A r \in SegmentIds : r # s => segments'[r] = segments[r]
  BY DEF RequestReservation, IInv, TypeOK
<1>3. LockHolder' = [LockHolder EXCEPT ![s] = new.active]
  <2> HIDE DEF new
  <2>1. \A r \in SegmentIds :
          segments'[r].active = IF r = s THEN new.active ELSE segments[r].active
    BY <1>2
  <2>2. LockHolder' = [r \in SegmentIds |-> segments'[r].active]
    BY DEF LockHolder
  <2>3. [LockHolder EXCEPT ![s] = new.active] =
          [r \in SegmentIds |-> IF r = s THEN new.active ELSE segments[r].active]
    BY DEF LockHolder
  <2> QED BY <2>1, <2>2, <2>3
<1>4. LockWaiting' = [LockWaiting EXCEPT ![s] = {b \in Agvs : IsQueued(new, b)}]
  BY <1>2 DEF LockWaiting
<1>5. /\ LockHolder[s] = seg.active
      /\ LockWaiting[s] = {b \in Agvs : IsQueued(seg, b)}
  BY DEF LockHolder, LockWaiting
<1>6. CASE new = seg
  BY <1>2, <1>6 DEF LockHolder, LockWaiting
<1>7. CASE /\ seg.active = NoAgv /\ new.active = a
           /\ IsQueued(seg, a) \/ \A b \in Agvs : ~IsQueued(seg, b)
           /\ \A b : IsQueued(new, b) <=> IsQueued(seg, b) /\ b # a
  <2>1. {b \in Agvs : IsQueued(new, b)} = LockWaiting[s] \ {a}
    BY <1>5, <1>7
  <2>2. a \in LockWaiting[s] \/ LockWaiting[s] = {}
    BY <1>5, <1>7
  <2> QED BY <2>1, <2>2, <1>3, <1>4, <1>5, <1>7 DEF Lock!Enter, LockHolder, LockWaiting
<1>8. CASE /\ seg.active # a /\ new.active = seg.active
           /\ \/ IsQueued(seg, a)
              \/ seg.active # NoAgv
              \/ \E b \in Agvs : IsQueued(seg, b)
           /\ \A b : IsQueued(new, b) <=> IsQueued(seg, b) \/ b = a
  <2>1. {b \in Agvs : IsQueued(new, b)} = LockWaiting[s] \cup {a}
    BY <1>5, <1>8
  <2>2. LockHolder' = LockHolder
    BY <1>3, <1>8 DEF LockHolder
  <2>3. CASE IsQueued(seg, a)
    <3>1. LockWaiting' = LockWaiting
      BY <1>4, <1>5, <2>1, <2>3 DEF LockWaiting
    <3> QED BY <2>2, <3>1
  <2>4. CASE ~IsQueued(seg, a)
    <3>1. a \notin LockWaiting[s] /\ (LockHolder[s] # NoAgv \/ LockWaiting[s] # {})
      BY <1>5, <1>8, <2>4
    <3> QED BY <3>1, <2>1, <2>2, <1>4, <1>5, <1>8 DEF Lock!Wait, LockHolder, LockWaiting
  <2> QED BY <2>3, <2>4
<1> QED BY <1>1, <1>6, <1>7, <1>8, AfterRequestCases

LEMMA ReleaseImplementsLock ==
  ASSUME IInv, NEW a \in Agvs, NEW s \in SegmentIds, ReleaseReservation(a, s)
  PROVE  \/ Lock!Leave(a, s)
         \/ Lock!GiveUp(a, s)
         \/ UNCHANGED <<LockHolder, LockWaiting>>
<1> DEFINE seg == segments[s]
           new == AfterRelease(seg, a)
<1>1. seg \in Segment /\ now \in Nat /\ Coherent(seg, now)
  BY DEF IInv, TypeOK, QueueCoherent
<1>2. /\ segments' = [segments EXCEPT ![s] = new]
      /\ segments'[s] = new
      /\ \A r \in SegmentIds : r # s => segments'[r] = segments[r]
  BY DEF ReleaseReservation, IInv, TypeOK
<1>3. /\ new.active = IF seg.active = a THEN NoAgv ELSE seg.active
      /\ \A b : IsQueued(new, b) <=> IsQueued(seg, b) /\ b # a
  BY <1>1, AfterReleaseProperties
<1>4. LockHolder' = [LockHolder EXCEPT ![s] = new.active]
  <2> HIDE DEF new
  <2>1. \A r \in SegmentIds :
          segments'[r].active = IF r = s THEN new.active ELSE segments[r].active
    BY <1>2
  <2>2. LockHolder' = [r \in SegmentIds |-> segments'[r].active]
    BY DEF LockHolder
  <2>3. [LockHolder EXCEPT ![s] = new.active] =
          [r \in SegmentIds |-> IF r = s THEN new.active ELSE segments[r].active]
    BY DEF LockHolder
  <2> QED BY <2>1, <2>2, <2>3
<1>5. LockWaiting' = [LockWaiting EXCEPT ![s] = @ \ {a}]
  <2>1. {b \in Agvs : IsQueued(new, b)} = {b \in Agvs : IsQueued(seg, b)} \ {a}
    BY <1>3
  <2>2. LockWaiting' = [LockWaiting EXCEPT ![s] = {b \in Agvs : IsQueued(new, b)}]
    BY <1>2 DEF LockWaiting
  <2>3. LockWaiting[s] = {b \in Agvs : IsQueued(seg, b)}
    BY DEF LockWaiting
  <2> QED BY <2>1, <2>2, <2>3
<1>6. /\ LockHolder[s] = seg.active
      /\ a \in LockWaiting[s] <=> IsQueued(seg, a)
  BY DEF LockHolder, LockWaiting
<1>7. CASE seg.active = a
  <2>1. LockWaiting' = LockWaiting
    <3>1. a \notin LockWaiting[s]
      BY <1>1, <1>6, <1>7 DEF Coherent
    <3> QED BY <1>5, <3>1 DEF LockWaiting
  <2>2. LockHolder' = [LockHolder EXCEPT ![s] = NoAgv]
    BY <1>3, <1>4, <1>7
  <2> QED BY <2>1, <2>2, <1>6, <1>7 DEF Lock!Leave, LockHolder, LockWaiting
<1>8. CASE seg.active # a
  <2>1. LockHolder' = LockHolder
    BY <1>3, <1>4, <1>8 DEF LockHolder
  <2>2. CASE IsQueued(seg, a)
    BY <2>1, <2>2, <1>5, <1>6 DEF Lock!GiveUp, LockHolder, LockWaiting
  <2>3. CASE ~IsQueued(seg, a)
    BY <2>1, <2>3, <1>5, <1>6 DEF LockWaiting
  <2> QED BY <2>2, <2>3
<1> QED BY <1>7, <1>8

LEMMA EmptySegmentIsFree ==
  EmptySegment.active = NoAgv /\ \A b : ~IsQueued(EmptySegment, b)
BY DEF EmptySegment, IsQueued, Contains

\* Every behaviour of the manager is a behaviour of the lock: grants only go to
\* somebody standing in line or to a newcomer nobody is in front of, and only
\* the holder's own release frees a segment.
THEOREM ManagerImplementsLock == Spec => ImplementsLock
<1>1. Init => Lock!Init
  BY EmptySegmentIsFree DEF Init, Lock!Init
<1>2. IInv /\ [Next]_vars => [Lock!Next]_(Lock!lockVars)
  <2> SUFFICES ASSUME IInv, [Next]_vars
               PROVE  Lock!Next \/ UNCHANGED <<LockHolder, LockWaiting>>
    BY DEF Lock!lockVars, LockHolder, LockWaiting
  <2>1. CASE \E a \in Agvs, s \in SegmentIds : RequestReservation(a, s)
    BY <2>1, RequestImplementsLock DEF Lock!Next
  <2>2. CASE \E a \in Agvs, s \in SegmentIds : ReleaseReservation(a, s)
    BY <2>2, ReleaseImplementsLock DEF Lock!Next
  <2>3. CASE ResetForRun
    <3>1. /\ LockHolder' = [s \in SegmentIds |-> NoAgv]
          /\ LockWaiting' = [s \in SegmentIds |-> {}]
      BY <2>3, EmptySegmentIsFree DEF ResetForRun, LockHolder, LockWaiting
    <3> QED BY <3>1 DEF Lock!Next, Lock!Reset, LockHolder, LockWaiting
  <2>4. CASE Tick
    BY <2>4 DEF Tick, managerVars, LockHolder, LockWaiting
  <2>5. CASE UNCHANGED vars
    BY <2>5 DEF vars, managerVars, LockHolder, LockWaiting
  <2> QED BY <2>1, <2>2, <2>3, <2>4, <2>5 DEF Next
<1> QED BY <1>1, <1>2, Invariance, PTL DEF Spec, ImplementsLock, Lock!Spec
-----------------------------------------------------------------------------
(* No overtaking.                                                          *)

\* Along the queue the tickets increase, and none has been drawn after m.
InOrder(q, tickets, m) ==
  /\ \A i, j \in 1 .. Len(q) : i < j => tickets[q[i]] < tickets[q[j]]
  /\ \A i \in 1 .. Len(q) : tickets[q[i]] <= m

\* Each segment's queue is in the order in which its waits were opened.
QueuesInOrder ==
  \A s \in SegmentIds : InOrder(segments[s].queue, ticket[s], opened)

\* Taking one AGV out, wherever it stands, keeps the others in order.
LEMMA OrderAfterRemoval ==
  ASSUME NEW q \in Seq(Agvs), IsInjective(q), NEW a \in Agvs,
         NEW tickets, NEW m, InOrder(q, tickets, m)
  PROVE  InOrder(RemoveSingle(q, a), tickets, m)
<1>1. CASE ~Contains(q, a)
  BY <1>1, RemoveSingleAbsent
<1>2. CASE Contains(q, a)
  <2> DEFINE r == RemoveSingle(q, a)
  <2>1. PICK k \in 1 .. Len(q) :
          /\ Len(r) = Len(q) - 1
          /\ \A j \in 1 .. Len(q) - 1 : r[j] = IF j < k THEN q[j] ELSE q[j + 1]
    BY <1>2, RemoveSingleShifts
  <2>2. Len(q) \in Nat
    BY LenProperties
  <2> HIDE DEF r
  <2> DEFINE old(j) == IF j < k THEN j ELSE j + 1
  <2>3. \A j \in 1 .. Len(q) - 1 : old(j) \in 1 .. Len(q) /\ r[j] = q[old(j)]
    BY <2>1, <2>2
  <2>4. \A i, j \in 1 .. Len(q) - 1 : i < j => old(i) < old(j)
    BY <2>2
  <2> HIDE DEF old
  <2>5. InOrder(r, tickets, m)
    BY <2>1, <2>3, <2>4 DEF InOrder
  <2> QED BY <2>5 DEF r
<1> QED BY <1>1, <1>2

\* A newcomer draws the next ticket and stands at the end.
LEMMA OrderAfterJoining ==
  ASSUME NEW q \in Seq(Agvs), NEW a \in Agvs, ~Contains(q, a),
         NEW tickets \in [Agvs -> Nat], NEW m \in Nat, InOrder(q, tickets, m)
  PROVE  InOrder(Append(q, a), [tickets EXCEPT ![a] = m + 1], m + 1)
<1> DEFINE r == Append(q, a)
           drawn == [tickets EXCEPT ![a] = m + 1]
<1>1. /\ Len(q) \in Nat /\ DOMAIN q = 1 .. Len(q)
      /\ \A i \in 1 .. Len(q) : q[i] \in Agvs
      /\ Len(r) = Len(q) + 1
      /\ \A i \in 1 .. Len(q) : r[i] = q[i]
      /\ r[Len(q) + 1] = a
  BY LenProperties, ElementOfSeq, AppendProperties
<1>2. \A i \in 1 .. Len(q) : q[i] # a
  BY <1>1 DEF Contains
<1>3. \A i \in 1 .. Len(q) : drawn[r[i]] = tickets[q[i]] /\ tickets[q[i]] \in Nat
  BY <1>1, <1>2
<1>4. drawn[r[Len(q) + 1]] = m + 1
  BY <1>1
<1> HIDE DEF r, drawn
<1>5. \A i \in 1 .. Len(q) : drawn[r[i]] <= m
  BY <1>3 DEF InOrder
<1>6. ASSUME NEW i \in 1 .. Len(q) + 1, NEW j \in 1 .. Len(q) + 1, i < j
      PROVE  drawn[r[i]] < drawn[r[j]]
  <2>1. i \in 1 .. Len(q)
    BY <1>1, <1>6
  <2>2. CASE j \in 1 .. Len(q)
    BY <2>1, <2>2, <1>3, <1>6 DEF InOrder
  <2>3. CASE j = Len(q) + 1
    BY <2>1, <2>3, <1>3, <1>4, <1>5
  <2> QED BY <2>2, <2>3, <1>1
<1>7. \A i \in 1 .. Len(q) + 1 : drawn[r[i]] <= m + 1
  <2> SUFFICES ASSUME NEW i \in 1 .. Len(q) + 1 PROVE drawn[r[i]] <= m + 1
    OBVIOUS
  <2>1. CASE i \in 1 .. Len(q)
    BY <2>1, <1>3, <1>5
  <2>2. CASE i = Len(q) + 1
    BY <2>2, <1>4
  <2> QED BY <2>1, <2>2, <1>1
<1>8. InOrder(r, drawn, m + 1)
  BY <1>1, <1>6, <1>7 DEF InOrder
<1> QED BY <1>8 DEF r, drawn

\* Tickets drawn elsewhere do not matter.
LEMMA OrderAfterOthers ==
  ASSUME NEW q \in Seq(Agvs), NEW tickets \in [Agvs -> Nat], NEW m \in Nat,
         InOrder(q, tickets, m)
  PROVE  InOrder(q, tickets, m + 1)
<1>1. \A i \in 1 .. Len(q) : tickets[q[i]] \in Nat
  BY ElementOfSeq, LenProperties
<1> QED BY <1>1 DEF InOrder

\* The head is served first: whoever stays behind it drew a later ticket.
LEMMA HeadDrewFirst ==
  ASSUME NEW q \in Seq(Agvs), q # <<>>, IsInjective(q), NEW tickets, NEW m,
         InOrder(q, tickets, m), NEW b, Contains(q, b), b # Head(q)
  PROVE  tickets[Head(q)] < tickets[b]
<1>1. Len(q) \in Nat /\ Len(q) # 0 /\ DOMAIN q = 1 .. Len(q) /\ Head(q) = q[1]
  BY LenProperties, EmptySeq
<1>2. PICK j \in 1 .. Len(q) : q[j] = b
  BY <1>1 DEF Contains
<1>3. 1 \in 1 .. Len(q) /\ 1 < j
  BY <1>1, <1>2
<1> QED BY <1>1, <1>2, <1>3 DEF InOrder

\* A request keeps its segment's queue in order, joined or left at the head.
LEMMA RequestOrder ==
  ASSUME IInv, QueuesInOrder, NEW a \in Agvs, NEW s \in SegmentIds,
         RequestReservation(a, s)
  PROVE  /\ QueuesInOrder'
         /\ \A c, b \in Agvs, r \in SegmentIds :
              Enters(c, r) /\ IsQueued(segments'[r], b) => ticket'[r][c] < ticket'[r][b]
<1> DEFINE seg == segments[s]
           queued == Enqueued(seg, a, now)
           new == AfterRequest(seg, a, now)
           opens == seg.active # a /\ ~IsQueued(seg, a)
<1>1. /\ seg \in Segment /\ now \in Nat /\ Coherent(seg, now)
      /\ seg.queue \in Seq(Agvs) /\ IsInjective(seg.queue)
      /\ opened \in Nat /\ ticket \in [SegmentIds -> [Agvs -> Nat]]
  BY DEF IInv, TypeOK, QueueCoherent, Coherent, Segment
<1>2. /\ segments'[s] = new
      /\ \A r \in SegmentIds : r # s => segments'[r] = segments[r]
  BY DEF RequestReservation, IInv, TypeOK
<1>3. /\ opened' = IF opens THEN opened + 1 ELSE opened
      /\ ticket'[s] = IF opens THEN [ticket[s] EXCEPT ![a] = opened + 1] ELSE ticket[s]
      /\ \A r \in SegmentIds : r # s => ticket'[r] = ticket[r]
  BY <1>1 DEF RequestReservation
<1>4. InOrder(seg.queue, ticket[s], opened)
  BY DEF QueuesInOrder
<1>5. ASSUME NEW r \in SegmentIds, r # s
      PROVE  InOrder(segments'[r].queue, ticket'[r], opened')
  <2>1. /\ segments[r].queue \in Seq(Agvs) /\ ticket[r] \in [Agvs -> Nat]
        /\ InOrder(segments[r].queue, ticket[r], opened)
    BY DEF IInv, TypeOK, Segment, QueuesInOrder
  <2>2. /\ InOrder(segments[r].queue, ticket[r], opened + 1)
    BY <1>1, <2>1, OrderAfterOthers
  <2> QED BY <1>2, <1>3, <1>5, <2>1, <2>2
<1>6. CASE seg.active = a
  <2>1. new = seg /\ ~opens
    BY <1>6 DEF AfterRequest
  <2>2. InOrder(segments'[s].queue, ticket'[s], opened')
    BY <1>2, <1>3, <1>4, <2>1
  <2>3. \A c \in Agvs, r \in SegmentIds : ~Enters(c, r)
    BY <1>2, <2>1 DEF Enters
  <2> QED BY <1>5, <2>2, <2>3 DEF QueuesInOrder
<1>7. CASE seg.active # a
  <2>1. /\ queued \in Segment /\ queued.active = seg.active
        /\ Coherent(queued, now)
        /\ queued.queue \in Seq(Agvs) /\ IsInjective(queued.queue)
    BY <1>1, <1>7, EnqueuedProperties DEF Coherent, Segment
  <2>2. InOrder(queued.queue, ticket'[s], opened')
    <3>1. CASE IsQueued(seg, a)
      <4>1. queued = seg /\ ~opens
        BY <3>1 DEF Enqueued
      <4> QED BY <1>3, <1>4, <4>1
    <3>2. CASE ~IsQueued(seg, a)
      <4>1. queued.queue = Append(seg.queue, a) /\ opens
        BY <1>7, <3>2 DEF Enqueued, Segment
      <4>2. ticket[s] \in [Agvs -> Nat]
        BY <1>1
      <4>3. InOrder(Append(seg.queue, a), [ticket[s] EXCEPT ![a] = opened + 1], opened + 1)
        BY <1>1, <1>4, <3>2, <4>2, OrderAfterJoining DEF IsQueued
      <4> QED BY <1>3, <4>1, <4>3
    <3> QED BY <3>1, <3>2
  <2>3. CASE CanEnter(queued, a)
    <3>1. /\ new.active = a /\ new.queue = RemoveSingle(queued.queue, a)
      BY <1>7, <2>1, <2>3 DEF AfterRequest, Dequeued, Segment
    <3>2. InOrder(segments'[s].queue, ticket'[s], opened')
      BY <1>2, <2>1, <2>2, <3>1, OrderAfterRemoval
    <3>3. ASSUME NEW c \in Agvs, NEW b \in Agvs, NEW r \in SegmentIds,
                 Enters(c, r), IsQueued(segments'[r], b)
          PROVE  ticket'[r][c] < ticket'[r][b]
      <4>1. r = s /\ c = a
        BY <1>2, <3>1, <3>3 DEF Enters
      <4>2. Contains(queued.queue, b) /\ b # a
        BY <1>2, <2>1, <3>1, <3>3, <4>1, RemoveSingleProperties DEF IsQueued
      <4>3. queued.queue # <<>> /\ Head(queued.queue) = a
        BY <2>3 DEF CanEnter
      <4> HIDE DEF queued
      <4> QED BY <2>1, <2>2, <4>1, <4>2, <4>3, HeadDrewFirst
    <3> QED BY <1>5, <3>2, <3>3 DEF QueuesInOrder
  <2>4. CASE ~CanEnter(queued, a)
    <3>1. new = queued
      BY <1>7, <2>4 DEF AfterRequest
    <3>2. InOrder(segments'[s].queue, ticket'[s], opened')
      BY <1>2, <2>2, <3>1
    <3>3. \A c \in Agvs, r \in SegmentIds : ~Enters(c, r)
      BY <1>2, <2>1, <3>1 DEF Enters
    <3> QED BY <1>5, <3>2, <3>3 DEF QueuesInOrder
  <2> QED BY <2>3, <2>4
<1> QED BY <1>6, <1>7

\* A release takes one AGV out of the queue at most, and lets nobody in.
LEMMA ReleaseOrder ==
  ASSUME IInv, QueuesInOrder, NEW a \in Agvs, NEW s \in SegmentIds,
         ReleaseReservation(a, s)
  PROVE  /\ QueuesInOrder'
         /\ \A c \in Agvs, r \in SegmentIds : ~Enters(c, r)
<1> DEFINE seg == segments[s]
           new == AfterRelease(seg, a)
<1>1. /\ seg \in Segment /\ now \in Nat /\ Coherent(seg, now)
      /\ seg.queue \in Seq(Agvs) /\ IsInjective(seg.queue)
  BY DEF IInv, TypeOK, QueueCoherent, Coherent, Segment
<1>2. /\ segments'[s] = new
      /\ \A r \in SegmentIds : r # s => segments'[r] = segments[r]
      /\ ticket' = ticket /\ opened' = opened
  BY DEF ReleaseReservation, IInv, TypeOK
<1>3. new.active = IF seg.active = a THEN NoAgv ELSE seg.active
  BY <1>1, AfterReleaseProperties
<1>4. new.queue = RemoveSingle(seg.queue, a)
  BY <1>1 DEF AfterRelease, Dequeued, Segment
<1> HIDE DEF new
<1>5. \A c \in Agvs, r \in SegmentIds : ~Enters(c, r)
  BY <1>2, <1>3, AgvsAssumption DEF Enters
<1>6. InOrder(new.queue, ticket[s], opened)
  BY <1>1, <1>4, OrderAfterRemoval DEF QueuesInOrder
<1> QED BY <1>2, <1>5, <1>6 DEF QueuesInOrder

LEMMA EmptyQueueInOrder ==
  ASSUME NEW tickets, NEW m
  PROVE  InOrder(EmptySegment.queue, tickets, m) /\ EmptySegment.active = NoAgv
BY DEF InOrder, EmptySegment

\* Every step keeps the queues in order and overtakes nobody.
LEMMA NextOrder ==
  IInv /\ QueuesInOrder /\ [Next]_vars =>
    /\ QueuesInOrder'
    /\ \A a, b \in Agvs, s \in SegmentIds :
         Enters(a, s) /\ IsQueued(segments'[s], b) => ticket'[s][a] < ticket'[s][b]
<1> SUFFICES ASSUME IInv, QueuesInOrder, [Next]_vars
             PROVE  /\ QueuesInOrder'
                    /\ \A a, b \in Agvs, s \in SegmentIds :
                         Enters(a, s) /\ IsQueued(segments'[s], b)
                           => ticket'[s][a] < ticket'[s][b]
  OBVIOUS
<1>1. CASE \E a \in Agvs, s \in SegmentIds : RequestReservation(a, s)
  BY <1>1, RequestOrder
<1>2. CASE \E a \in Agvs, s \in SegmentIds : ReleaseReservation(a, s)
  BY <1>2, ReleaseOrder
<1>3. CASE ResetForRun
  <2>1. \A s \in SegmentIds : segments'[s] = EmptySegment
    BY <1>3 DEF ResetForRun
  <2>2. QueuesInOrder'
    BY <2>1, EmptyQueueInOrder DEF QueuesInOrder
  <2>3. \A a \in Agvs, s \in SegmentIds : ~Enters(a, s)
    BY <2>1, EmptyQueueInOrder, AgvsAssumption DEF Enters
  <2> QED BY <2>2, <2>3
<1>4. CASE Tick \/ UNCHANGED vars
  <2>1. segments' = segments /\ ticket' = ticket /\ opened' = opened
    BY <1>4 DEF Tick, vars, managerVars, historyVars
  <2> QED BY <2>1 DEF QueuesInOrder, Enters
<1> QED BY <1>1, <1>2, <1>3, <1>4 DEF Next

\* First come, first served: when an AGV enters a segment, every AGV still
\* queued there began to wait after it (the FIFO of RequestReservation).
THEOREM NobodyIsOvertaken == Spec => NoOvertaking
<1>1. Init => QueuesInOrder
  BY EmptyQueueInOrder DEF Init, QueuesInOrder
<1>2. IInv /\ QueuesInOrder /\ [Next]_vars
        => /\ QueuesInOrder'
           /\ [\A a, b \in Agvs, s \in SegmentIds :
                 Enters(a, s) /\ IsQueued(segments'[s], b)
                   => ticket'[s][a] < ticket'[s][b]]_vars
  BY NextOrder
<1> QED BY <1>1, <1>2, Invariance, PTL DEF Spec, NoOvertaking
-----------------------------------------------------------------------------
(* Sums over a finite set.  A sum is folded from the set by taking one     *)
(* element after the other out of it.                                      *)

Before == OpToRel(<, Nat)

LEMMA SetInduction ==
  ASSUME NEW S, 0 \in S, \A n \in Nat : n \in S => n + 1 \in S
  PROVE  Nat \subseteq S
<1> DEFINE T == Nat \ S
<1>1. SUFFICES ASSUME T # {} PROVE FALSE
  OBVIOUS
<1>2. IsWellFoundedOn(Before, Nat)
  BY NatLessThanWellFounded, Zenon DEF Before
<1>3. PICK x \in T : \A y \in T : ~(<<y, x>> \in Before)
  BY <1>1, <1>2, WFMin, T \subseteq Nat
<1>4. x \in Nat /\ x # 0 /\ x - 1 \in Nat /\ x - 1 < x
  OBVIOUS
<1>5. <<x - 1, x>> \in Before
  BY <1>4 DEF Before, OpToRel
<1>6. x - 1 \in S
  BY <1>3, <1>4, <1>5
<1>7. x - 1 + 1 \in S /\ x - 1 + 1 = x
  BY <1>4, <1>6
<1> QED BY <1>7

Taken(T) == CHOOSE x \in T : TRUE

\* What holds of the empty set, and of a set when it holds of the set without
\* the element taken from it, holds of every finite set.
LEMMA TakingInduction ==
  ASSUME NEW S, IsFiniteSet(S), NEW F, {} \in F,
         \A T \in SUBSET S : T # {} /\ T \ {Taken(T)} \in F => T \in F
  PROVE  SUBSET S \subseteq F
<1> DEFINE N == {n \in Nat : \A T \in SUBSET S : Cardinality(T) = n => T \in F}
<1>1. 0 \in N
  BY FS_Subset, FS_EmptySet
<1>2. ASSUME NEW n \in Nat, n \in N PROVE n + 1 \in N
  <2> SUFFICES ASSUME NEW T \in SUBSET S, Cardinality(T) = n + 1 PROVE T \in F
    OBVIOUS
  <2>1. IsFiniteSet(T) /\ T # {}
    BY FS_Subset, FS_EmptySet
  <2>2. Taken(T) \in T
    BY <2>1 DEF Taken
  <2> DEFINE x == Taken(T)
  <2>3. T \ {x} \in SUBSET S /\ Cardinality(T \ {x}) = n
    <3> HIDE DEF x
    <3>1. x \in T
      BY <2>2 DEF x
    <3>2. Cardinality(T \ {x}) = Cardinality(T) - 1
      BY <2>1, <3>1, FS_RemoveElement
    <3> QED BY <3>2
  <2>4. T \ {x} \in F
    BY <1>2, <2>3
  <2> QED BY <2>1, <2>4
<1>3. Nat \subseteq N
  <2> HIDE DEF N
  <2> QED BY <1>1, <1>2, SetInduction
<1>4. ASSUME NEW T \in SUBSET S PROVE T \in F
  <2>1. Cardinality(T) \in Nat
    BY FS_Subset, FS_CardinalityType
  <2> QED BY <1>3, <2>1
<1> QED BY <1>4

\* it sums f over every subset of S.
Sums(it, f, S) ==
  \A T \in SUBSET S : it[T] = IF T = {} THEN 0 ELSE f[Taken(T)] + it[T \ {Taken(T)}]

IsSum(n, f, S) == \E it : Sums(it, f, S) /\ n = it[S]

LEMMA SumsExist ==
  ASSUME NEW S, IsFiniteSet(S), NEW f
  PROVE  \E it : Sums(it, f, S) /\ it = [T \in SUBSET S |-> it[T]]
<1> DEFINE Sub(n) == {T \in SUBSET S : Cardinality(T) <= n}
           Next1(it, T) == IF T = {} THEN 0 ELSE f[Taken(T)] + it[T \ {Taken(T)}]
           Summed(n) == \E it : \A T \in Sub(n) : it[T] = Next1(it, T)
           N == {n \in Nat : Summed(n)}
<1>1. \A T \in SUBSET S : IsFiniteSet(T) /\ Cardinality(T) \in Nat /\ (Cardinality(T) = 0 <=> T = {})
  BY FS_Subset, FS_CardinalityType, FS_EmptySet
<1>2. \A T \in SUBSET S : T # {} => /\ T \ {Taken(T)} \in SUBSET S
                                    /\ Cardinality(T \ {Taken(T)}) = Cardinality(T) - 1
  <2> SUFFICES ASSUME NEW T \in SUBSET S, T # {}
               PROVE  T \ {Taken(T)} \in SUBSET S /\ Cardinality(T \ {Taken(T)}) = Cardinality(T) - 1
    OBVIOUS
  <2>1. Taken(T) \in T
    BY DEF Taken
  <2> QED BY <1>1, <2>1, FS_RemoveElement
<1>3. 0 \in N
  <2> DEFINE it == [T \in SUBSET S |-> 0]
  <2>1. \A T \in Sub(0) : it[T] = Next1(it, T)
    BY <1>1
  <2> QED BY <2>1
<1>4. ASSUME NEW n \in Nat, n \in N PROVE n + 1 \in N
  <2>1. PICK it : \A T \in Sub(n) : it[T] = Next1(it, T)
    BY <1>4
  <2> DEFINE more == [T \in SUBSET S |-> IF Cardinality(T) <= n THEN it[T] ELSE Next1(it, T)]
  <2>2. ASSUME NEW T \in Sub(n + 1) PROVE more[T] = Next1(more, T)
    <3>1. T \in SUBSET S /\ Cardinality(T) \in Nat /\ Cardinality(T) <= n + 1
      BY <1>1
    <3>2. more[T] = Next1(it, T)
      <4>1. CASE Cardinality(T) <= n
        BY <2>1, <3>1, <4>1
      <4>2. CASE ~(Cardinality(T) <= n)
        BY <3>1, <4>2
      <4> QED BY <4>1, <4>2
    <3>3. T # {} => more[T \ {Taken(T)}] = it[T \ {Taken(T)}]
      <4> SUFFICES ASSUME T # {} PROVE more[T \ {Taken(T)}] = it[T \ {Taken(T)}]
        OBVIOUS
      <4>1. T \ {Taken(T)} \in SUBSET S /\ Cardinality(T \ {Taken(T)}) <= n
        BY <1>1, <1>2, <3>1
      <4> QED BY <4>1
    <3> HIDE DEF more
    <3> QED BY <3>2, <3>3
  <2> HIDE DEF more
  <2>3. Summed(n + 1)
    BY <2>2
  <2> HIDE DEF Summed
  <2> QED BY <2>3
<1>5. Nat \subseteq N
  <2> HIDE DEF N
  <2> QED BY <1>3, <1>4, SetInduction
<1>6. PICK it : \A T \in Sub(Cardinality(S)) : it[T] = Next1(it, T)
  BY <1>1, <1>5
<1>7. \A T \in SUBSET S : T \in Sub(Cardinality(S))
  BY <1>1, FS_Subset
<1> DEFINE g == [T \in SUBSET S |-> it[T]]
<1>8. Sums(g, f, S)
  <2> SUFFICES ASSUME NEW T \in SUBSET S
               PROVE  g[T] = IF T = {} THEN 0 ELSE f[Taken(T)] + g[T \ {Taken(T)}]
    BY DEF Sums
  <2>1. it[T] = Next1(it, T)
    BY <1>6, <1>7
  <2>2. T \ {Taken(T)} \in SUBSET S
    OBVIOUS
  <2> QED BY <2>1, <2>2
<1>9. g = [T \in SUBSET S |-> g[T]]
  OBVIOUS
<1> HIDE DEF g
<1> QED BY <1>8, <1>9

\* Sums of integers are integers, and add up pointwise.
LEMMA SumPlus ==
  ASSUME NEW S, IsFiniteSet(S), NEW f, NEW g, NEW h, NEW k, NEW m, NEW n,
         \A x \in S : f[x] \in Int /\ g[x] \in Int /\ h[x] = f[x] + g[x],
         IsSum(k, f, S), IsSum(m, g, S), IsSum(n, h, S)
  PROVE  k \in Int /\ m \in Int /\ n = k + m
<1>1. PICK itf : Sums(itf, f, S) /\ k = itf[S]
  BY DEF IsSum
<1>2. PICK itg : Sums(itg, g, S) /\ m = itg[S]
  BY DEF IsSum
<1>3. PICK ith : Sums(ith, h, S) /\ n = ith[S]
  BY DEF IsSum
<1> DEFINE F == {T \in SUBSET S : itf[T] \in Int /\ itg[T] \in Int /\ ith[T] = itf[T] + itg[T]}
<1>4. {} \in F
  <2>1. itf[{}] = 0 /\ itg[{}] = 0 /\ ith[{}] = 0
    BY <1>1, <1>2, <1>3 DEF Sums
  <2> QED BY <2>1
<1>5. ASSUME NEW T \in SUBSET S, T # {}, T \ {Taken(T)} \in F PROVE T \in F
  <2> DEFINE x == Taken(T)
             U == T \ {x}
  <2>1. x \in S
    BY <1>5 DEF Taken
  <2>2. itf[T] = f[x] + itf[U] /\ itg[T] = g[x] + itg[U] /\ ith[T] = h[x] + ith[U]
    BY <1>1, <1>2, <1>3, <1>5 DEF Sums
  <2>3. itf[U] \in Int /\ itg[U] \in Int /\ ith[U] = itf[U] + itg[U]
    BY <1>5
  <2> HIDE DEF U, x
  <2> QED BY <2>1, <2>2, <2>3
<1>6. SUBSET S \subseteq F
  <2> HIDE DEF F
  <2> QED BY <1>4, <1>5, TakingInduction
<1>7. S \in F
  BY <1>6
<1> QED BY <1>1, <1>2, <1>3, <1>7

\* A sum of which one term at most is not zero is that term.
LEMMA SumOfOne ==
  ASSUME NEW S, IsFiniteSet(S), NEW f, NEW x \in S, f[x] \in Int,
         \A y \in S : y # x => f[y] = 0, NEW n, IsSum(n, f, S)
  PROVE  n = f[x]
<1>1. PICK it : Sums(it, f, S) /\ n = it[S]
  BY DEF IsSum
<1> DEFINE F == {T \in SUBSET S : it[T] = IF x \in T THEN f[x] ELSE 0}
<1>2. {} \in F
  BY <1>1 DEF Sums
<1>3. ASSUME NEW T \in SUBSET S, T # {}, T \ {Taken(T)} \in F PROVE T \in F
  <2> DEFINE y == Taken(T)
             U == T \ {y}
  <2>1. y \in T /\ y \in S
    BY <1>3 DEF Taken
  <2>2. it[T] = f[y] + it[U] /\ it[U] = IF x \in U THEN f[x] ELSE 0
    BY <1>1, <1>3 DEF Sums
  <2> HIDE DEF y
  <2> QED BY <2>1, <2>2
<1>4. SUBSET S \subseteq F
  <2> HIDE DEF F
  <2> QED BY <1>2, <1>3, TakingInduction
<1>5. S \in F
  BY <1>4
<1> QED BY <1>1, <1>5

\* Changing one term changes the sum by as much.
LEMMA SumChanged ==
  ASSUME NEW S, IsFiniteSet(S), NEW f, NEW g, NEW x \in S, NEW m, NEW n, NEW p, NEW q,
         \A y \in S : f[y] \in Int /\ g[y] \in Int /\ (y # x => g[y] = f[y]),
         p = f[x], q = g[x], IsSum(m, f, S), IsSum(n, g, S)
  PROVE  m \in Int /\ n \in Int /\ n + p = m + q
<1> DEFINE d == [y \in S |-> g[y] - f[y]]
<1>1. PICK k : IsSum(k, d, S)
  BY SumsExist DEF IsSum
<1>2. \A y \in S : f[y] \in Int /\ d[y] \in Int /\ g[y] = f[y] + d[y]
  OBVIOUS
<1>3. \A y \in S : y # x => d[y] = 0
  OBVIOUS
<1>4. d[x] = q - p /\ p \in Int /\ q \in Int
  OBVIOUS
<1> HIDE DEF d
<1>5. m \in Int /\ n = m + k
  BY <1>1, <1>2, SumPlus
<1>6. k = d[x]
  BY <1>1, <1>2, <1>3, SumOfOne
<1> QED BY <1>4, <1>5, <1>6

LEMMA SumOfZeros ==
  ASSUME NEW S, IsFiniteSet(S), NEW f, \A x \in S : f[x] = 0, NEW n, IsSum(n, f, S)
  PROVE  n = 0
<1>1. CASE S = {}
  <2>1. PICK it : Sums(it, f, S) /\ n = it[S]
    BY DEF IsSum
  <2> QED BY <1>1, <2>1 DEF Sums
<1>2. CASE S # {}
  <2>1. PICK x \in S : TRUE
    BY <1>2
  <2> QED BY <2>1, SumOfOne
<1> QED BY <1>1, <1>2

\* The same terms, the same sum.
LEMMA SumSame ==
  ASSUME NEW S, IsFiniteSet(S), NEW f, NEW g, NEW m, NEW n,
         \A x \in S : f[x] \in Int /\ g[x] = f[x],
         IsSum(m, f, S), IsSum(n, g, S)
  PROVE  m \in Int /\ n = m
<1> DEFINE z == [x \in S |-> 0]
<1>1. \A x \in S : z[x] = 0
  OBVIOUS
<1> HIDE DEF z
<1>2. PICK k : IsSum(k, z, S)
  BY SumsExist DEF IsSum
<1>3. k = 0
  BY <1>1, <1>2, SumOfZeros
<1>4. \A x \in S : f[x] \in Int /\ z[x] \in Int /\ g[x] = f[x] + z[x]
  BY <1>1
<1>5. m \in Int /\ n = m + k
  BY <1>2, <1>4, SumPlus
<1> QED BY <1>3, <1>5
-----------------------------------------------------------------------------
(* The three sums of WaitAccounting are sums of functions over the pairs of *)
(* a segment and an AGV: the fold's recursive function exists, and is such  *)
(* a function.                                                              *)

Places == SegmentIds \X Agvs

QueuedAt == [p \in Places |-> IF IsQueued(segments[p[1]], p[2]) THEN 1 ELSE 0]
TicksAt == [p \in Places |-> waitedTicks[p[1]][p[2]]]
WaitAt == [p \in Places |-> GetWaitDuration(p[2], p[1])]

QueuedTotal == SumOver(LAMBDA s, a : IF IsQueued(segments[s], a) THEN 1 ELSE 0)
TicksTotal == SumOver(LAMBDA s, a : waitedTicks[s][a])
WaitTotal == SumOver(LAMBDA s, a : GetWaitDuration(a, s))

LEMMA PlacesFinite == IsFiniteSet(Places)
BY AgvsAssumption, FinitenessAssumption, FS_Product DEF Places

LEMMA QueuedSum == IsSum(QueuedTotal, QueuedAt, Places)
<1> DEFINE Step(it, T) == IF T = {} THEN 0
                          ELSE LET p == CHOOSE x \in T : TRUE
                               IN  (IF IsQueued(segments[p[1]], p[2]) THEN 1 ELSE 0) + it[T \ {p}]
           Good(it) == it = [T \in SUBSET Places |-> Step(it, T)]
           the == CHOOSE it : Good(it)
<1>1. ASSUME NEW it, NEW T \in SUBSET Places
      PROVE  Step(it, T) = IF T = {} THEN 0 ELSE QueuedAt[Taken(T)] + it[T \ {Taken(T)}]
  <2>1. T # {} => Taken(T) \in Places
    BY DEF Taken
  <2> QED BY <2>1 DEF Taken, QueuedAt
<1>2. \E it : Good(it)
  <2>1. PICK it : Sums(it, QueuedAt, Places) /\ it = [T \in SUBSET Places |-> it[T]]
    BY PlacesFinite, SumsExist
  <2>2. \A T \in SUBSET Places : it[T] = Step(it, T)
    BY <1>1, <2>1 DEF Sums
  <2> HIDE DEF Step
  <2> QED BY <2>1, <2>2
<1>3. Good(the)
  <2> HIDE DEF Good
  <2> QED BY <1>2
<1>4. QueuedTotal = the[Places]
  BY DEF QueuedTotal, SumOver, MapThenSumSet, MapThenFoldSet, Places
<1> HIDE DEF the
<1>5. Sums(the, QueuedAt, Places)
  <2>1. \A T \in SUBSET Places : the[T] = Step(the, T)
    BY <1>3
  <2> QED BY <1>1, <2>1 DEF Sums
<1> QED BY <1>4, <1>5 DEF IsSum

LEMMA TicksSum == IsSum(TicksTotal, TicksAt, Places)
<1> DEFINE Step(it, T) == IF T = {} THEN 0
                          ELSE LET p == CHOOSE x \in T : TRUE
                               IN  waitedTicks[p[1]][p[2]] + it[T \ {p}]
           Good(it) == it = [T \in SUBSET Places |-> Step(it, T)]
           the == CHOOSE it : Good(it)
<1>1. ASSUME NEW it, NEW T \in SUBSET Places
      PROVE  Step(it, T) = IF T = {} THEN 0 ELSE TicksAt[Taken(T)] + it[T \ {Taken(T)}]
  <2>1. T # {} => Taken(T) \in Places
    BY DEF Taken
  <2> QED BY <2>1 DEF Taken, TicksAt
<1>2. \E it : Good(it)
  <2>1. PICK it : Sums(it, TicksAt, Places) /\ it = [T \in SUBSET Places |-> it[T]]
    BY PlacesFinite, SumsExist
  <2>2. \A T \in SUBSET Places : it[T] = Step(it, T)
    BY <1>1, <2>1 DEF Sums
  <2> HIDE DEF Step
  <2> QED BY <2>1, <2>2
<1>3. Good(the)
  <2> HIDE DEF Good
  <2> QED BY <1>2
<1>4. TicksTotal = the[Places]
  BY DEF TicksTotal, SumOver, MapThenSumSet, MapThenFoldSet, Places
<1> HIDE DEF the
<1>5. Sums(the, TicksAt, Places)
  <2>1. \A T \in SUBSET Places : the[T] = Step(the, T)
    BY <1>3
  <2> QED BY <1>1, <2>1 DEF Sums
<1> QED BY <1>4, <1>5 DEF IsSum

LEMMA WaitSum == IsSum(WaitTotal, WaitAt, Places)
<1> DEFINE Step(it, T) == IF T = {} THEN 0
                          ELSE LET p == CHOOSE x \in T : TRUE
                               IN  GetWaitDuration(p[2], p[1]) + it[T \ {p}]
           Good(it) == it = [T \in SUBSET Places |-> Step(it, T)]
           the == CHOOSE it : Good(it)
<1>1. ASSUME NEW it, NEW T \in SUBSET Places
      PROVE  Step(it, T) = IF T = {} THEN 0 ELSE WaitAt[Taken(T)] + it[T \ {Taken(T)}]
  <2>1. T # {} => Taken(T) \in Places
    BY DEF Taken
  <2> QED BY <2>1 DEF Taken, WaitAt
<1>2. \E it : Good(it)
  <2>1. PICK it : Sums(it, WaitAt, Places) /\ it = [T \in SUBSET Places |-> it[T]]
    BY PlacesFinite, SumsExist
  <2>2. \A T \in SUBSET Places : it[T] = Step(it, T)
    BY <1>1, <2>1 DEF Sums
  <2> HIDE DEF Step
  <2> QED BY <2>1, <2>2
<1>3. Good(the)
  <2> HIDE DEF Good
  <2> QED BY <1>2
<1>4. WaitTotal = the[Places]
  BY DEF WaitTotal, SumOver, MapThenSumSet, MapThenFoldSet, Places
<1> HIDE DEF the
<1>5. Sums(the, WaitAt, Places)
  <2>1. \A T \in SUBSET Places : the[T] = Step(the, T)
    BY <1>3
  <2> QED BY <1>1, <2>1 DEF Sums
<1> QED BY <1>4, <1>5 DEF IsSum

LEMMA AccountingIsOfSums ==
  WaitAccounting <=> opened = waitSamples + QueuedTotal /\ TicksTotal = totalWait + WaitTotal
BY DEF WaitAccounting, QueuedTotal, TicksTotal, WaitTotal

\* The sums of the next state.
LEMMA SumsBeforeAndAfter ==
  /\ IsSum(QueuedTotal, QueuedAt, Places) /\ IsSum(QueuedTotal', QueuedAt', Places)
  /\ IsSum(TicksTotal, TicksAt, Places) /\ IsSum(TicksTotal', TicksAt', Places)
  /\ IsSum(WaitTotal, WaitAt, Places) /\ IsSum(WaitTotal', WaitAt', Places)
<1>1. IsSum(QueuedTotal, QueuedAt, Places)'
  BY QueuedSum, PTL
<1>2. IsSum(TicksTotal, TicksAt, Places)'
  BY TicksSum, PTL
<1>3. IsSum(WaitTotal, WaitAt, Places)'
  BY WaitSum, PTL
<1> QED BY QueuedSum, TicksSum, WaitSum, <1>1, <1>2, <1>3 DEF IsSum, Sums, Places
-----------------------------------------------------------------------------
(* What the two operations do to the terms of the sums: the AGV's own ones *)
(* change, and nobody else's.                                              *)

\* A wait in progress is what has passed since it began.
LEMMA WaitInProgress ==
  ASSUME NEW seg \in Segment, NEW t \in Nat, Coherent(seg, t), NEW a \in Agvs
  PROVE  /\ ~IsQueued(seg, a) => WaitOf(seg, a, t) = 0
         /\ IsQueued(seg, a) => /\ WaitOf(seg, a, t) = t - seg.waitStartedAt[a]
                                /\ seg.waitStartedAt[a] \in Nat
                                /\ seg.waitStartedAt[a] <= t
BY DEF Coherent, Segment, WaitOf, IsTiming, Max0, NotWaiting

LEMMA EnqueuedTerms ==
  ASSUME NEW seg \in Segment, NEW t \in Nat, Coherent(seg, t), NEW a \in Agvs,
         seg.active # a
  PROVE  \A b \in Agvs : WaitOf(Enqueued(seg, a, t), b, t) = WaitOf(seg, b, t)
<1>1. CASE IsQueued(seg, a)
  BY <1>1 DEF Enqueued
<1>2. CASE ~IsQueued(seg, a)
  <2> DEFINE new == Enqueued(seg, a, t)
  <2>1. new.waitStartedAt = [seg.waitStartedAt EXCEPT ![a] = t]
    BY <1>2 DEF Enqueued, Segment
  <2>2. seg.waitStartedAt \in [Agvs -> Nat \cup {NotWaiting}]
    BY DEF Segment
  <2>3. WaitOf(seg, a, t) = 0
    BY <1>2, WaitInProgress
  <2>4. WaitOf(new, a, t) = 0
    BY <2>1, <2>2 DEF WaitOf, IsTiming, Max0
  <2>5. \A b \in Agvs : b # a => WaitOf(new, b, t) = WaitOf(seg, b, t)
    BY <2>1, <2>2 DEF WaitOf, IsTiming
  <2> QED BY <2>3, <2>4, <2>5
<1> QED BY <1>1, <1>2

LEMMA DequeuedTerms ==
  ASSUME NEW seg \in Segment, NEW t \in Nat, Coherent(seg, t), NEW a \in Agvs
  PROVE  \A b \in Agvs :
           WaitOf(Dequeued(seg, a), b, t) = IF b = a THEN 0 ELSE WaitOf(seg, b, t)
<1>1. Dequeued(seg, a).waitStartedAt = [seg.waitStartedAt EXCEPT ![a] = NotWaiting]
  BY DEF Dequeued, Segment
<1>2. seg.waitStartedAt \in [Agvs -> Nat \cup {NotWaiting}]
  BY DEF Segment
<1> QED BY <1>1, <1>2 DEF WaitOf, IsTiming

\* A request admits the AGV, whose wait then ends, or leaves it queued.
LEMMA RequestTerms ==
  ASSUME NEW seg \in Segment, NEW t \in Nat, Coherent(seg, t), NEW a \in Agvs,
         seg.active # a
  PROVE  LET new == AfterRequest(seg, a, t)
             enters == CanEnter(Enqueued(seg, a, t), a)
         IN  /\ WaitOf(Enqueued(seg, a, t), a, t) = WaitOf(seg, a, t)
             /\ \A b \in Agvs : b # a => /\ IsQueued(new, b) <=> IsQueued(seg, b)
                                         /\ WaitOf(new, b, t) = WaitOf(seg, b, t)
             /\ IsQueued(new, a) <=> ~enters
             /\ WaitOf(new, a, t) = IF enters THEN 0 ELSE WaitOf(seg, a, t)
<1> DEFINE queued == Enqueued(seg, a, t)
           new == AfterRequest(seg, a, t)
<1>1. /\ queued \in Segment /\ Coherent(queued, t)
      /\ \A b : IsQueued(queued, b) <=> IsQueued(seg, b) \/ b = a
  BY EnqueuedProperties
<1>2. \A b \in Agvs : WaitOf(queued, b, t) = WaitOf(seg, b, t)
  BY EnqueuedTerms
<1>3. CASE CanEnter(queued, a)
  <2> DEFINE out == Dequeued(queued, a)
  <2>1. \A b : IsQueued(out, b) <=> IsQueued(queued, b) /\ b # a
    BY <1>1, DequeuedProperties
  <2>2. \A b \in Agvs : WaitOf(out, b, t) = IF b = a THEN 0 ELSE WaitOf(queued, b, t)
    BY <1>1, DequeuedTerms
  <2>3. out \in Segment
    BY <1>1, DequeuedProperties
  <2>4. new.queue = out.queue /\ new.waitStartedAt = out.waitStartedAt
    BY <1>3, <2>3 DEF AfterRequest, Segment
  <2>5. \A b \in Agvs : /\ IsQueued(new, b) <=> IsQueued(out, b)
                        /\ WaitOf(new, b, t) = WaitOf(out, b, t)
    BY <2>4 DEF IsQueued, WaitOf, IsTiming
  <2> HIDE DEF new, out, queued
  <2>6. \A b \in Agvs : b # a => /\ IsQueued(new, b) <=> IsQueued(seg, b)
                                 /\ WaitOf(new, b, t) = WaitOf(seg, b, t)
    BY <1>1, <1>2, <2>1, <2>2, <2>5
  <2>7. ~IsQueued(new, a) /\ WaitOf(new, a, t) = 0
    BY <2>1, <2>2, <2>5
  <2> QED BY <1>2, <1>3, <2>6, <2>7 DEF new, queued
<1>4. CASE ~CanEnter(queued, a)
  <2>1. new = queued
    BY <1>4 DEF AfterRequest
  <2> HIDE DEF new, queued
  <2> QED BY <1>1, <1>2, <1>4, <2>1 DEF new, queued
<1> QED BY <1>3, <1>4

LEMMA ReleaseTerms ==
  ASSUME NEW seg \in Segment, NEW t \in Nat, Coherent(seg, t), NEW a \in Agvs
  PROVE  \A b \in Agvs :
           /\ IsQueued(AfterRelease(seg, a), b) <=> IsQueued(seg, b) /\ b # a
           /\ WaitOf(AfterRelease(seg, a), b, t) = IF b = a THEN 0 ELSE WaitOf(seg, b, t)
<1> DEFINE new == AfterRelease(seg, a)
           out == Dequeued(seg, a)
<1>1. out \in Segment /\ \A b : IsQueued(out, b) <=> IsQueued(seg, b) /\ b # a
  BY DequeuedProperties
<1>2. new.queue = out.queue /\ new.waitStartedAt = out.waitStartedAt
  BY <1>1 DEF AfterRelease, Segment
<1>3. \A b \in Agvs : /\ IsQueued(new, b) <=> IsQueued(out, b)
                      /\ WaitOf(new, b, t) = WaitOf(out, b, t)
  BY <1>2 DEF IsQueued, WaitOf, IsTiming
<1> HIDE DEF new, out
<1>4. \A b \in Agvs : WaitOf(out, b, t) = IF b = a THEN 0 ELSE WaitOf(seg, b, t)
  BY DequeuedTerms DEF out
<1>5. \A b \in Agvs : /\ IsQueued(new, b) <=> IsQueued(seg, b) /\ b # a
                      /\ WaitOf(new, b, t) = IF b = a THEN 0 ELSE WaitOf(seg, b, t)
  BY <1>1, <1>3, <1>4
<1> QED BY <1>5 DEF new
-----------------------------------------------------------------------------
(* No wait is lost or counted twice.                                       *)

\* Every term is an integer.
LEMMA TermsAreIntegers ==
  ASSUME IInv
  PROVE  /\ \A p \in Places : QueuedAt[p] \in Int /\ TicksAt[p] \in Int /\ WaitAt[p] \in Int
         /\ opened \in Int /\ waitSamples \in Int /\ totalWait \in Int
<1>1. ASSUME NEW p \in Places
      PROVE  QueuedAt[p] \in Int /\ TicksAt[p] \in Int /\ WaitAt[p] \in Int
  <2>1. p[1] \in SegmentIds /\ p[2] \in Agvs
    BY DEF Places
  <2>2. waitedTicks[p[1]][p[2]] \in Nat
    BY <2>1 DEF IInv, TypeOK
  <2>3. segments[p[1]] \in Segment /\ now \in Nat
    BY <2>1 DEF IInv, TypeOK
  <2>4. GetWaitDuration(p[2], p[1]) \in Nat
    BY <2>1, <2>3, WaitOfType DEF GetWaitDuration
  <2> QED BY <2>2, <2>4 DEF QueuedAt, TicksAt, WaitAt
<1> QED BY <1>1 DEF IInv, TypeOK

\* So they are in the next state.
LEMMA NextTermsAreIntegers ==
  IInv' => \A p \in Places : QueuedAt'[p] \in Int /\ WaitAt'[p] \in Int
<1>1. IInv => \A p \in Places : QueuedAt[p] \in Int /\ WaitAt[p] \in Int
  BY TermsAreIntegers
<1>2. (IInv => \A p \in Places : QueuedAt[p] \in Int /\ WaitAt[p] \in Int)'
  BY <1>1, PTL
<1> QED BY <1>2 DEF Places

\* The terms of a place, before and after.
LEMMA TermsOf ==
  ASSUME NEW s \in SegmentIds, NEW a \in Agvs
  PROVE  /\ <<s, a>> \in Places
         /\ QueuedAt[<<s, a>>] = IF IsQueued(segments[s], a) THEN 1 ELSE 0
         /\ QueuedAt'[<<s, a>>] = IF IsQueued(segments'[s], a) THEN 1 ELSE 0
         /\ WaitAt[<<s, a>>] = WaitOf(segments[s], a, now)
         /\ WaitAt'[<<s, a>>] = WaitOf(segments'[s], a, now')
         /\ TicksAt[<<s, a>>] = waitedTicks[s][a]
         /\ TicksAt'[<<s, a>>] = waitedTicks'[s][a]
BY DEF Places, QueuedAt, WaitAt, TicksAt, GetWaitDuration

LEMMA TicksKept ==
  ASSUME IInv, waitedTicks' = waitedTicks
  PROVE  TicksTotal' = TicksTotal
<1>1. \A p \in Places : TicksAt[p] \in Int /\ TicksAt'[p] = TicksAt[p]
  BY TermsAreIntegers DEF TicksAt
<1> QED BY <1>1, SumsBeforeAndAfter, PlacesFinite, SumSame

\* When only one AGV's place at one segment changes, so do the sums.
LEMMA OnePlaceChanges ==
  ASSUME IInv, IInv', NEW s \in SegmentIds, NEW a \in Agvs, now' = now,
         \A r \in SegmentIds, b \in Agvs :
           ~(r = s /\ b = a) =>
             /\ IsQueued(segments'[r], b) <=> IsQueued(segments[r], b)
             /\ WaitOf(segments'[r], b, now) = WaitOf(segments[r], b, now)
  PROVE  LET here == <<s, a>> IN
         /\ QueuedTotal \in Int /\ QueuedTotal' \in Int
         /\ WaitTotal \in Int /\ WaitTotal' \in Int
         /\ QueuedTotal' = QueuedTotal + (QueuedAt'[here] - QueuedAt[here])
         /\ WaitTotal' = WaitTotal + (WaitAt'[here] - WaitAt[here])
<1> DEFINE x == <<s, a>>
<1>1. x \in Places
  BY DEF Places
<1>2. ASSUME NEW p \in Places, p # x
      PROVE  QueuedAt'[p] = QueuedAt[p] /\ WaitAt'[p] = WaitAt[p]
  <2>1. p[1] \in SegmentIds /\ p[2] \in Agvs /\ p = <<p[1], p[2]>>
    BY DEF Places
  <2>2. ~(p[1] = s /\ p[2] = a)
    BY <1>2, <2>1
  <2> QED BY <2>1, <2>2, TermsOf
<1> HIDE DEF x
<1>3. /\ QueuedTotal \in Int /\ QueuedTotal' \in Int
      /\ QueuedTotal' = QueuedTotal + (QueuedAt'[x] - QueuedAt[x])
  <2>1. PICK p, q, n : p = QueuedAt[x] /\ q = QueuedAt'[x] /\ n = QueuedTotal'
    OBVIOUS
  <2>2. \A y \in Places : /\ QueuedAt[y] \in Int /\ QueuedAt'[y] \in Int
                          /\ y # x => QueuedAt'[y] = QueuedAt[y]
    BY <1>2, TermsAreIntegers, NextTermsAreIntegers
  <2>3. QueuedTotal \in Int /\ n \in Int /\ n + p = QueuedTotal + q
    BY <1>1, <2>1, <2>2, SumsBeforeAndAfter, PlacesFinite, SumChanged
  <2>4. p \in Int /\ q \in Int
    BY <1>1, <2>1, <2>2
  <2>5. n = QueuedTotal + (q - p)
    BY <2>3, <2>4
  <2> QED BY <2>1, <2>3, <2>5
<1>4. /\ WaitTotal \in Int /\ WaitTotal' \in Int
      /\ WaitTotal' = WaitTotal + (WaitAt'[x] - WaitAt[x])
  <2>1. PICK p, q, n : p = WaitAt[x] /\ q = WaitAt'[x] /\ n = WaitTotal'
    OBVIOUS
  <2>2. \A y \in Places : /\ WaitAt[y] \in Int /\ WaitAt'[y] \in Int
                          /\ y # x => WaitAt'[y] = WaitAt[y]
    BY <1>2, TermsAreIntegers, NextTermsAreIntegers
  <2>3. WaitTotal \in Int /\ n \in Int /\ n + p = WaitTotal + q
    BY <1>1, <2>1, <2>2, SumsBeforeAndAfter, PlacesFinite, SumChanged
  <2>4. p \in Int /\ q \in Int
    BY <1>1, <2>1, <2>2
  <2>5. n = WaitTotal + (q - p)
    BY <2>3, <2>4
  <2> QED BY <2>1, <2>3, <2>5
<1> QED BY <1>3, <1>4 DEF x

LEMMA RequestAccounting ==
  ASSUME IInv, WaitAccounting, NEW a \in Agvs, NEW s \in SegmentIds,
         RequestReservation(a, s)
  PROVE  WaitAccounting'
<1> DEFINE seg == segments[s]
           queued == Enqueued(seg, a, now)
           new == AfterRequest(seg, a, now)
           opens == seg.active # a /\ ~IsQueued(seg, a)
           enters == seg.active # a /\ CanEnter(queued, a)
<1>1. seg \in Segment /\ now \in Nat /\ Coherent(seg, now)
  BY DEF IInv, TypeOK, QueueCoherent
<1>2. /\ segments'[s] = new
      /\ \A r \in SegmentIds : r # s => segments'[r] = segments[r]
  BY DEF RequestReservation, IInv, TypeOK
<1>3. /\ totalWait' = IF enters THEN totalWait + WaitOf(queued, a, now) ELSE totalWait
      /\ waitSamples' = IF enters THEN waitSamples + 1 ELSE waitSamples
      /\ opened' = IF opens THEN opened + 1 ELSE opened
      /\ now' = now /\ waitedTicks' = waitedTicks
  BY DEF RequestReservation
<1>4. opened = waitSamples + QueuedTotal /\ TicksTotal = totalWait + WaitTotal
  BY AccountingIsOfSums
<1>5. IInv'
  BY RequestIInv
<1>6. opened \in Int /\ waitSamples \in Int /\ totalWait \in Int
  BY TermsAreIntegers
<1>7. TicksTotal' = TicksTotal
  BY <1>3, TicksKept
<1>8. \A r \in SegmentIds, b \in Agvs :
           ~(r = s /\ b = a) =>
             /\ IsQueued(segments'[r], b) <=> IsQueued(segments[r], b)
             /\ WaitOf(segments'[r], b, now) = WaitOf(segments[r], b, now)
  <2>1. CASE seg.active = a
    <3>1. new = seg
      BY <2>1 DEF AfterRequest
    <3> QED BY <1>2, <3>1
  <2>2. CASE seg.active # a
    <3>1. \A b \in Agvs : b # a => /\ IsQueued(new, b) <=> IsQueued(seg, b)
                                   /\ WaitOf(new, b, now) = WaitOf(seg, b, now)
      BY <1>1, <2>2, RequestTerms
    <3> HIDE DEF new
    <3> QED BY <1>2, <3>1
  <2> QED BY <2>1, <2>2
<1>9. /\ QueuedTotal \in Int /\ WaitTotal \in Int
      /\ QueuedTotal' \in Int /\ WaitTotal' \in Int
      /\ QueuedTotal' = QueuedTotal + (QueuedAt'[<<s, a>>] - QueuedAt[<<s, a>>])
      /\ WaitTotal' = WaitTotal + (WaitAt'[<<s, a>>] - WaitAt[<<s, a>>])
  BY <1>3, <1>5, <1>8, OnePlaceChanges
<1>10. /\ QueuedAt[<<s, a>>] = IF IsQueued(seg, a) THEN 1 ELSE 0
       /\ QueuedAt'[<<s, a>>] = IF IsQueued(new, a) THEN 1 ELSE 0
       /\ WaitAt[<<s, a>>] = WaitOf(seg, a, now)
       /\ WaitAt'[<<s, a>>] = WaitOf(new, a, now)
  BY <1>2, <1>3, TermsOf
<1>11. WaitOf(seg, a, now) \in Nat
  BY <1>1, WaitOfType
<1>12. /\ QueuedTotal \in Int /\ WaitTotal \in Int
       /\ QueuedTotal' \in Int /\ WaitTotal' \in Int
  BY <1>9
<1>13. /\ opened' = waitSamples' + QueuedTotal'
       /\ TicksTotal' = totalWait' + WaitTotal'
  <2>1. CASE seg.active = a
    <3>1. new = seg /\ ~opens /\ ~enters
      BY <2>1 DEF AfterRequest
    <3> HIDE DEF new, seg, opens, enters
    <3> QED BY <1>3, <1>4, <1>6, <1>7, <1>9, <1>10, <1>11, <3>1
  <2>2. CASE seg.active # a
    <3>1. /\ WaitOf(queued, a, now) = WaitOf(seg, a, now)
          /\ IsQueued(new, a) <=> ~enters
          /\ WaitOf(new, a, now) = IF enters THEN 0 ELSE WaitOf(seg, a, now)
      BY <1>1, <2>2, RequestTerms
    <3>2. opens <=> ~IsQueued(seg, a)
      BY <2>2
    <3> DEFINE w == WaitOf(seg, a, now)
               sat == IsQueued(seg, a)
    <3> HIDE DEF new, seg, opens, enters, queued, w, sat
    <3>3. QueuedAt[<<s, a>>] = (IF sat THEN 1 ELSE 0) /\ WaitAt[<<s, a>>] = w /\ w \in Nat
      BY <1>10, <1>11 DEF w, sat
    <3>4. CASE enters
      <4>1. QueuedAt'[<<s, a>>] = 0 /\ WaitAt'[<<s, a>>] = 0
        BY <1>10, <3>1, <3>4
      <4>2. totalWait' = totalWait + w /\ waitSamples' = waitSamples + 1
        BY <1>3, <3>1, <3>4 DEF w
      <4>3. opened' = IF sat THEN opened ELSE opened + 1
        BY <1>3, <3>2 DEF sat
      <4>4. /\ QueuedTotal' = IF sat THEN QueuedTotal - 1 ELSE QueuedTotal
            /\ WaitTotal' = WaitTotal - w
        BY <1>9, <1>12, <3>3, <4>1
      <4>5. opened' = waitSamples' + QueuedTotal'
        BY <1>4, <1>6, <1>12, <4>2, <4>3, <4>4
      <4>6. TicksTotal' = totalWait' + WaitTotal'
        BY <1>4, <1>6, <1>7, <1>12, <3>3, <4>2, <4>4
      <4> QED BY <4>5, <4>6
    <3>5. CASE ~enters
      <4>1. QueuedAt'[<<s, a>>] = 1 /\ WaitAt'[<<s, a>>] = w
        BY <1>10, <3>1, <3>5 DEF w
      <4>2. totalWait' = totalWait /\ waitSamples' = waitSamples
        BY <1>3, <3>5
      <4>3. opened' = IF sat THEN opened ELSE opened + 1
        BY <1>3, <3>2 DEF sat
      <4>4. /\ QueuedTotal' = IF sat THEN QueuedTotal ELSE QueuedTotal + 1
            /\ WaitTotal' = WaitTotal
        BY <1>9, <1>12, <3>3, <4>1
      <4>5. opened' = waitSamples' + QueuedTotal'
        BY <1>4, <1>6, <1>12, <4>2, <4>3, <4>4
      <4>6. TicksTotal' = totalWait' + WaitTotal'
        BY <1>4, <1>6, <1>7, <1>12, <3>3, <4>2, <4>4
      <4> QED BY <4>5, <4>6
    <3> QED BY <3>4, <3>5
  <2> QED BY <2>1, <2>2
<1> QED BY <1>13 DEF WaitAccounting, QueuedTotal, TicksTotal, WaitTotal

LEMMA ReleaseAccounting ==
  ASSUME IInv, WaitAccounting, NEW a \in Agvs, NEW s \in SegmentIds,
         ReleaseReservation(a, s)
  PROVE  WaitAccounting'
<1> DEFINE seg == segments[s]
           new == AfterRelease(seg, a)
           w == WaitOf(seg, a, now)
<1>1. seg \in Segment /\ now \in Nat /\ Coherent(seg, now)
  BY DEF IInv, TypeOK, QueueCoherent
<1>2. /\ segments'[s] = new
      /\ \A r \in SegmentIds : r # s => segments'[r] = segments[r]
  BY DEF ReleaseReservation, IInv, TypeOK
<1>3. /\ totalWait' = IF IsQueued(seg, a) THEN totalWait + w ELSE totalWait
      /\ waitSamples' = IF IsQueued(seg, a) THEN waitSamples + 1 ELSE waitSamples
      /\ opened' = opened /\ now' = now /\ waitedTicks' = waitedTicks
  BY <1>1 DEF ReleaseReservation, Coherent
<1>4. opened = waitSamples + QueuedTotal /\ TicksTotal = totalWait + WaitTotal
  BY AccountingIsOfSums
<1>5. IInv'
  BY ReleaseIInv
<1>6. opened \in Int /\ waitSamples \in Int /\ totalWait \in Int
  BY TermsAreIntegers
<1>7. TicksTotal' = TicksTotal
  BY <1>3, TicksKept
<1>8. \A b \in Agvs : /\ IsQueued(new, b) <=> IsQueued(seg, b) /\ b # a
                      /\ WaitOf(new, b, now) = IF b = a THEN 0 ELSE WaitOf(seg, b, now)
  BY <1>1, ReleaseTerms
<1>9. w \in Nat /\ (~IsQueued(seg, a) => w = 0)
  BY <1>1, WaitOfType, WaitInProgress
<1> HIDE DEF new
<1>10. \A r \in SegmentIds, b \in Agvs :
           ~(r = s /\ b = a) =>
             /\ IsQueued(segments'[r], b) <=> IsQueued(segments[r], b)
             /\ WaitOf(segments'[r], b, now) = WaitOf(segments[r], b, now)
  BY <1>2, <1>8
<1>11. /\ QueuedTotal \in Int /\ WaitTotal \in Int
       /\ QueuedTotal' \in Int /\ WaitTotal' \in Int
       /\ QueuedTotal' = QueuedTotal + (QueuedAt'[<<s, a>>] - QueuedAt[<<s, a>>])
       /\ WaitTotal' = WaitTotal + (WaitAt'[<<s, a>>] - WaitAt[<<s, a>>])
  BY <1>3, <1>5, <1>10, OnePlaceChanges
<1>12. /\ QueuedAt[<<s, a>>] = IF IsQueued(seg, a) THEN 1 ELSE 0
       /\ QueuedAt'[<<s, a>>] = 0
       /\ WaitAt[<<s, a>>] = w
       /\ WaitAt'[<<s, a>>] = 0
  BY <1>2, <1>3, <1>8, TermsOf
<1>13. /\ QueuedTotal \in Int /\ WaitTotal \in Int
       /\ QueuedTotal' \in Int /\ WaitTotal' \in Int
  BY <1>11
<1>14. /\ opened' = waitSamples' + QueuedTotal'
       /\ TicksTotal' = totalWait' + WaitTotal'
  <2> HIDE DEF seg, w
  <2>1. /\ QueuedTotal' = IF IsQueued(seg, a) THEN QueuedTotal - 1 ELSE QueuedTotal
        /\ WaitTotal' = WaitTotal - w
    BY <1>9, <1>11, <1>12, <1>13
  <2>2. opened' = waitSamples' + QueuedTotal'
    BY <1>3, <1>4, <1>6, <1>13, <2>1
  <2>3. TicksTotal' = totalWait' + WaitTotal'
    BY <1>3, <1>4, <1>6, <1>7, <1>9, <1>13, <2>1
  <2> QED BY <2>2, <2>3
<1> QED BY <1>14 DEF WaitAccounting, QueuedTotal, TicksTotal, WaitTotal

\* A tick adds one to the ticks and to the wait of whoever is queued.
LEMMA TickAccounting ==
  ASSUME IInv, WaitAccounting, Tick
  PROVE  WaitAccounting'
<1>1. /\ segments' = segments /\ now' = now + 1 /\ now \in Nat
      /\ totalWait' = totalWait /\ waitSamples' = waitSamples /\ opened' = opened
  BY DEF Tick, managerVars, IInv, TypeOK
<1>2. /\ \A p \in Places : QueuedAt[p] \in Int /\ TicksAt[p] \in Int /\ WaitAt[p] \in Int
      /\ opened \in Int /\ waitSamples \in Int /\ totalWait \in Int
  BY TermsAreIntegers
<1>3. ASSUME NEW p \in Places
      PROVE  /\ QueuedAt'[p] = QueuedAt[p]
             /\ TicksAt'[p] = TicksAt[p] + QueuedAt[p]
             /\ WaitAt'[p] = WaitAt[p] + QueuedAt[p]
  <2>1. PICK s \in SegmentIds, a \in Agvs : p = <<s, a>>
    BY DEF Places
  <2> DEFINE seg == segments[s]
  <2>2. /\ QueuedAt[p] = IF IsQueued(seg, a) THEN 1 ELSE 0
        /\ QueuedAt'[p] = IF IsQueued(seg, a) THEN 1 ELSE 0
        /\ WaitAt[p] = WaitOf(seg, a, now)
        /\ WaitAt'[p] = WaitOf(seg, a, now + 1)
        /\ TicksAt[p] = waitedTicks[s][a]
        /\ TicksAt'[p] = waitedTicks'[s][a]
    BY <1>1, <2>1, TermsOf
  <2>3. waitedTicks'[s][a] = IF IsQueued(seg, a) THEN waitedTicks[s][a] + 1 ELSE waitedTicks[s][a]
    BY DEF Tick
  <2>4. waitedTicks[s][a] \in Nat
    BY DEF IInv, TypeOK
  <2>5. seg \in Segment /\ Coherent(seg, now)
    BY DEF IInv, TypeOK, QueueCoherent
  <2>6. Coherent(seg, now + 1)
    <3>1. IInv'
      BY TickIInv
    <3> QED BY <1>1, <3>1 DEF IInv, QueueCoherent
  <2> DEFINE since == seg.waitStartedAt[a]
  <2>7. /\ ~IsQueued(seg, a) => WaitOf(seg, a, now) = 0
        /\ IsQueued(seg, a) => WaitOf(seg, a, now) = now - since /\ since \in Nat
    BY <1>1, <2>5, WaitInProgress
  <2>8. /\ ~IsQueued(seg, a) => WaitOf(seg, a, now + 1) = 0
        /\ IsQueued(seg, a) => WaitOf(seg, a, now + 1) = now + 1 - since
    BY <1>1, <2>5, <2>6, WaitInProgress
  <2> HIDE DEF seg, since
  <2>9. CASE IsQueued(seg, a)
    BY <1>1, <2>2, <2>3, <2>4, <2>7, <2>8, <2>9
  <2>10. CASE ~IsQueued(seg, a)
    BY <1>1, <2>2, <2>3, <2>4, <2>7, <2>8, <2>10
  <2> QED BY <2>9, <2>10
<1>4. QueuedTotal \in Int /\ QueuedTotal' = QueuedTotal
  BY <1>2, <1>3, SumsBeforeAndAfter, PlacesFinite, SumSame
<1>5. TicksTotal \in Int /\ TicksTotal' = TicksTotal + QueuedTotal
  BY <1>2, <1>3, SumsBeforeAndAfter, PlacesFinite, SumPlus
<1>6. WaitTotal \in Int /\ WaitTotal' = WaitTotal + QueuedTotal
  BY <1>2, <1>3, SumsBeforeAndAfter, PlacesFinite, SumPlus
<1>7. opened = waitSamples + QueuedTotal /\ TicksTotal = totalWait + WaitTotal
  BY AccountingIsOfSums
<1>8. /\ opened' = waitSamples' + QueuedTotal'
      /\ TicksTotal' = totalWait' + WaitTotal'
  BY <1>1, <1>2, <1>4, <1>5, <1>6, <1>7
<1> QED BY <1>8 DEF WaitAccounting, QueuedTotal, TicksTotal, WaitTotal

\* Nobody waits and nobody has waited: all sums are zero.
Nothing ==
  /\ opened = 0 /\ waitSamples = 0 /\ totalWait = 0
  /\ segments = [s \in SegmentIds |-> EmptySegment]
  /\ waitedTicks = [s \in SegmentIds |-> [a \in Agvs |-> 0]]

LEMMA NothingToAccount == Nothing => WaitAccounting
<1> SUFFICES ASSUME Nothing PROVE WaitAccounting
  OBVIOUS
<1>1. \A a \in Agvs : ~IsQueued(EmptySegment, a) /\ WaitOf(EmptySegment, a, now) = 0
  BY DEF EmptySegment, IsQueued, Contains, WaitOf, IsTiming
<1>2. \A p \in Places : QueuedAt[p] = 0 /\ TicksAt[p] = 0 /\ WaitAt[p] = 0
  <2> SUFFICES ASSUME NEW p \in Places
               PROVE  QueuedAt[p] = 0 /\ TicksAt[p] = 0 /\ WaitAt[p] = 0
    OBVIOUS
  <2>1. p[1] \in SegmentIds /\ p[2] \in Agvs
    BY DEF Places
  <2> QED BY <1>1, <2>1 DEF Nothing, QueuedAt, TicksAt, WaitAt, GetWaitDuration
<1>3. QueuedTotal = 0 /\ TicksTotal = 0 /\ WaitTotal = 0
  BY <1>2, QueuedSum, TicksSum, WaitSum, PlacesFinite, SumOfZeros
<1> QED BY <1>3, AccountingIsOfSums DEF Nothing

LEMMA NothingToAccountNext == Nothing' => WaitAccounting'
<1> QED BY NothingToAccount, PTL

LEMMA InitAccounting == Init => WaitAccounting
BY NothingToAccount DEF Init, Nothing

LEMMA NextAccounting == IInv /\ WaitAccounting /\ [Next]_vars => WaitAccounting'
<1> SUFFICES ASSUME IInv, WaitAccounting, [Next]_vars PROVE WaitAccounting'
  OBVIOUS
<1>1. CASE \E a \in Agvs, s \in SegmentIds : RequestReservation(a, s)
  BY <1>1, RequestAccounting
<1>2. CASE \E a \in Agvs, s \in SegmentIds : ReleaseReservation(a, s)
  BY <1>2, ReleaseAccounting
<1>3. CASE ResetForRun
  <2>1. Nothing'
    BY <1>3 DEF ResetForRun, Nothing
  <2> QED BY <2>1, NothingToAccountNext
<1>4. CASE Tick
  BY <1>4, TickAccounting
<1>5. CASE UNCHANGED vars
  BY <1>5 DEF vars, managerVars, historyVars, WaitAccounting, SumOver, MapThenSumSet,
              MapThenFoldSet, GetWaitDuration
<1> QED BY <1>1, <1>2, <1>3, <1>4, <1>5 DEF Next

-----------------------------------------------------------------------------
(* What the dispatcher and the KPIs read.                                  *)

\* Somebody is queued exactly when the queue is not empty.
LEMMA SomebodyIsQueued ==
  ASSUME NEW seg \in Segment
  PROVE  seg.queue # <<>> <=> \E a \in Agvs : IsQueued(seg, a)
<1> DEFINE q == seg.queue
<1>1. q \in Seq(Agvs) /\ Len(q) \in Nat /\ DOMAIN q = 1 .. Len(q)
  BY LenProperties DEF Segment
<1>2. ASSUME q # <<>> PROVE \E a \in Agvs : IsQueued(seg, a)
  <2>1. Len(q) # 0
    BY <1>1, <1>2, EmptySeq
  <2>2. 1 \in DOMAIN q
    BY <1>1, <2>1
  <2>3. q[1] \in Agvs
    BY <1>1, <2>2, ElementOfSeq
  <2> QED BY <2>2, <2>3 DEF IsQueued, Contains
<1>3. ASSUME NEW a \in Agvs, IsQueued(seg, a) PROVE q # <<>>
  BY <1>1, <1>3 DEF IsQueued, Contains
<1> QED BY <1>2, <1>3

LEMMA GrantsAreForeseen ==
  ASSUME IInv, NEW a \in Agvs, NEW s \in SegmentIds, Grants(segments[s], a, now)
  PROVE  CanReserveSegmentFor(a, s)
<1> DEFINE seg == segments[s]
           new == AfterRequest(seg, a, now)
<1>1. seg \in Segment /\ now \in Nat /\ Coherent(seg, now)
  BY DEF IInv, TypeOK, QueueCoherent
<1>2. new = seg \/ seg.active = NoAgv \/ new.active = seg.active
  BY <1>1, AfterRequestCases
<1>3. new.active = a
  BY DEF Grants
<1> HIDE DEF new
<1> QED BY <1>2, <1>3 DEF CanReserveSegmentFor

LEMMA SnapshotsAreTrue ==
  ASSUME IInv, NEW a \in Agvs, NEW snap \in GetReservationSnapshotForAgv(a)
  PROVE  /\ snap.state = "reserved" <=> a \in inside[snap.segment]
         /\ snap.state = "waiting" => /\ a \in ToSet(GetQueuedAgvIds(snap.segment))
                                      /\ snap.wait = GetWaitDuration(a, snap.segment)
                                      /\ snap.by = NoAgv \/ inside[snap.segment] = {snap.by}
<1>1. PICK s \in SegmentIds :
        /\ segments[s].active = a \/ IsQueued(segments[s], a)
        /\ snap = IF segments[s].active = a
                  THEN [segment |-> s, state |-> "reserved", by |-> a, wait |-> 0]
                  ELSE [segment |-> s, state |-> "waiting", by |-> segments[s].active,
                        wait |-> WaitOf(segments[s], a, now)]
  BY DEF GetReservationSnapshotForAgv
<1>2. inside[s] = IF segments[s].active = NoAgv THEN {} ELSE {segments[s].active}
  BY DEF IInv, MutualExclusion
<1>3. CASE segments[s].active = a
  BY <1>1, <1>2, <1>3, AgvsAssumption
<1>4. CASE segments[s].active # a
  <2>1. /\ snap.segment = s /\ snap.state = "waiting" /\ snap.by = segments[s].active
        /\ snap.wait = WaitOf(segments[s], a, now)
    BY <1>1, <1>4
  <2>2. a \in ToSet(segments[s].queue)
    BY <1>1, <1>4 DEF IsQueued, Contains, ToSet
  <2>3. a \notin inside[s]
    BY <1>2, <1>4
  <2> QED BY <1>2, <2>1, <2>2, <2>3 DEF GetQueuedAgvIds, GetWaitDuration
<1> QED BY <1>3, <1>4

LEMMA BlockedSegmentsAreCounted ==
  ASSUME IInv
  PROVE  {s \in SegmentIds : segments[s].active # NoAgv \/ segments[s].queue # <<>>} =
         {s \in SegmentIds : inside[s] # {} \/ \E a \in Agvs : GetWaitDuration(a, s) > 0
                                                          \/ IsQueued(segments[s], a)}
<1> SUFFICES ASSUME NEW s \in SegmentIds
             PROVE  segments[s].active # NoAgv \/ segments[s].queue # <<>> <=>
                    inside[s] # {} \/ \E a \in Agvs : GetWaitDuration(a, s) > 0
                                                      \/ IsQueued(segments[s], a)
  OBVIOUS
<1>1. segments[s] \in Segment /\ now \in Nat /\ Coherent(segments[s], now)
  BY DEF IInv, TypeOK, QueueCoherent
<1>2. inside[s] # {} <=> segments[s].active # NoAgv
  BY DEF IInv, MutualExclusion
<1>3. \A a \in Agvs : GetWaitDuration(a, s) > 0 => IsQueued(segments[s], a)
  BY <1>1, WaitInProgress DEF GetWaitDuration
<1>4. segments[s].queue # <<>> <=> \E a \in Agvs : IsQueued(segments[s], a)
  BY <1>1, SomebodyIsQueued
<1> QED BY <1>2, <1>3, <1>4

LEMMA InvariantMakesObserversAgree == IInv => ObserversAgree
<1> SUFFICES ASSUME IInv PROVE ObserversAgree
  OBVIOUS
<1>1. GetBlockedSegmentCount =
       Cardinality({s \in SegmentIds : inside[s] # {} \/ \E a \in Agvs : GetWaitDuration(a, s) > 0
                                                        \/ IsQueued(segments[s], a)})
  BY BlockedSegmentsAreCounted DEF GetBlockedSegmentCount
<1> QED BY <1>1, GrantsAreForeseen, SnapshotsAreTrue DEF ObserversAgree

\* The waiting-time counters lose no wait and count none twice, and what the
\* dispatcher reads (CanReserveSegmentFor, GetReservationSnapshotForAgv,
\* GetBlockedSegmentCount) is what RequestReservation would do.
THEOREM WhatIsReadIsTrue == Spec => []ReadSideIsTrue
<1>1. IInv /\ WaitAccounting => ReadSideIsTrue
  BY InvariantMakesObserversAgree DEF ReadSideIsTrue
<1> QED BY <1>1, InitAccounting, NextAccounting, Invariance, PTL DEF Spec
=====
