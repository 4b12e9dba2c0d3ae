----------------------------- MODULE SegmentLock ------------------------------
(***************************************************************************)
(* What the traffic manager promises its callers: each segment is a lock   *)
(* with one holder and a set of waiters.  How the next holder is selected  *)
(* among the waiters is left open here.                                    *)
(***************************************************************************)
CONSTANTS Agvs, SegmentIds, NoAgv

VARIABLES holder, waiting

lockVars == <<holder, waiting>>

Init ==
  /\ holder = [s \in SegmentIds |-> NoAgv]
  /\ waiting = [s \in SegmentIds |-> {}]

\* A waiter, or a newcomer nobody is waiting in front of, takes a free segment.
Enter(a, s) ==
  /\ holder[s] = NoAgv
  /\ a \in waiting[s] \/ waiting[s] = {}
  /\ holder' = [holder EXCEPT ![s] = a]
  /\ waiting' = [waiting EXCEPT ![s] = @ \ {a}]

\* A newcomer waits only behind a holder or another waiter.
Wait(a, s) ==
  /\ holder[s] # a
  /\ a \notin waiting[s]
  /\ holder[s] # NoAgv \/ waiting[s] # {}
  /\ waiting' = [waiting EXCEPT ![s] = @ \cup {a}]
  /\ UNCHANGED holder

Leave(a, s) ==
  /\ holder[s] = a
  /\ holder' = [holder EXCEPT ![s] = NoAgv]
  /\ UNCHANGED waiting

GiveUp(a, s) ==
  /\ a \in waiting[s]
  /\ waiting' = [waiting EXCEPT ![s] = @ \ {a}]
  /\ UNCHANGED holder

Reset ==
  /\ holder' = [s \in SegmentIds |-> NoAgv]
  /\ waiting' = [s \in SegmentIds |-> {}]

Next ==
  \/ \E a \in Agvs, s \in SegmentIds :
       Enter(a, s) \/ Wait(a, s) \/ Leave(a, s) \/ GiveUp(a, s)
  \/ Reset

Spec == Init /\ [][Next]_lockVars
=============================================================================
