----------------------------- MODULE AgvMovement ------------------------------
(***************************************************************************)
(* UAGVMovementComponent composed with the traffic manager: AGVs drive to  *)
(* their looped path, follow it frame by frame, ask for the intersection   *)
(* when the next position lies in it, and stop at commanded stations.      *)
(* Each AGV has a path of its own (the controller deals them round-robin); *)
(* the paths share one intersection segment, placed at the same stretch of *)
(* every path.  AGVs move only in a run, each from its own start on, and    *)
(* not while the run is paused.                                            *)
(*                                                                         *)
(* Abstractions: positions are whole units, a frame moves the AGV by any   *)
(* member of Steps (speed multiplier times frame time); the two autonomous *)
(* legs are one state "moving", since this component treats them alike.    *)
(***************************************************************************)
EXTENDS SegmentRecord

CONSTANTS PathLength, \* units on the loop
          Entry,      \* the first unit of the intersection
          Exit,       \* the last one
          Steps,      \* distances an AGV may move in a frame
          Targets,    \* station positions along the path
          Approach    \* distance from the parking place to the path

\* A configured AGV approaches its path for a frame at least.
ASSUME PathAssumption ==
  /\ PathLength \in Nat \ {0} /\ Entry \in Nat /\ Exit \in Nat /\ Approach \in Nat \ {0}
  /\ Steps \subseteq 1 .. PathLength - 1
  /\ Targets \subseteq 0 .. PathLength

VARIABLES active,   \* bRunActive
          paused,   \* bSimPaused: the world's time stands still
          st,       \* State
          pos,      \* DistanceAlongPath
          toPath,   \* distance left to the path; bApproachActive while positive
          target,   \* StationTargetDistance
          resume,   \* ResumeStateAfterWait
          waiting,  \* bWaitingForIntersection
          granted,  \* bInsideIntersection
          seg       \* the manager's record of the intersection

agvVars == <<st, pos, toPath, target, resume, waiting, granted>>
runVars == <<active, paused>>
vars == <<runVars, agvVars, seg>>

States == {"idle", "moving", "toStation", "waiting", "collided"}
Driving == {"moving", "toStation", "waiting"}

\* A run is going on for some AGV at least.
Running == \E a \in Agvs : active[a]

\* Waiting times are not needed here.
Frame == 0

-----------------------------------------------------------------------------
\* Mutant: the position is not taken back to the start of the loop.
Unwrapped(d) == d

Wrapped(d) == d % PathLength

Within(d) == Wrapped(d) \in Entry .. Exit

\* ShouldRequestTrafficSegment; the flag is the component's bInsideIntersection.
ShouldRequest(flag, d) == ~flag /\ Within(d)

\* Mutants: the move is not taken for a wrapped one, or only as far as the seam.
CrossedWithoutWrap(from, to, t) == from < t /\ to >= t
CrossedBeforeSeam(from, to, t) == IF from <= to THEN from < t /\ to >= t ELSE t >= from

\* WasLastMoveAcrossDistance, for a move from the first to the second position.
Crossed(from, to, t) ==
  IF from <= to THEN from < t /\ to >= t ELSE t >= from \/ t <= to

\* Mutant: the reservation is kept until the AGV has left the intersection.
LeavesOutside(flag, d) == flag /\ ~Within(d)

\* Whether the frame ends with a release; since the second conjunct looks at the
\* flag as well, it does whenever the flag is set.
Leaves(flag, d) == flag /\ ~ShouldRequest(flag, d)

\* Mutant: the arrival radius is not widened by the length of the step.
Overshooting(left, d) == IF left <= d THEN d - left ELSE left - d

\* What is left of the approach after a step of length d.
Remaining(left, d) == IF left <= d THEN 0 ELSE left - d

Init ==
  /\ active = [a \in Agvs |-> FALSE]
  /\ paused = FALSE
  /\ st = [a \in Agvs |-> "idle"]
  /\ pos = [a \in Agvs |-> 0]
  /\ toPath = [a \in Agvs |-> Approach]
  /\ target \in [Agvs -> Targets]
  /\ resume = [a \in Agvs |-> "moving"]
  /\ waiting = [a \in Agvs |-> FALSE]
  /\ granted = [a \in Agvs |-> FALSE]
  /\ seg = EmptySegment

\* TickApproach: drive straight to the entry of the path.
TickApproach(a, d) ==
  /\ st[a] \in Driving /\ toPath[a] > 0
  /\ toPath' = [toPath EXCEPT ![a] = Remaining(@, d)]
  /\ UNCHANGED <<runVars, st, pos, target, resume, waiting, granted, seg>>

\* Refused: the AGV stays where it is and waits, remembering what it was doing.
WaitAtSection(a, asked) ==
  /\ seg' = asked
  /\ IF waiting[a] THEN UNCHANGED <<st, resume, waiting>>
     ELSE /\ resume' = [resume EXCEPT ![a] = IF st[a] = "waiting" THEN @ ELSE st[a]]
          /\ st' = [st EXCEPT ![a] = "waiting"]
          /\ waiting' = [waiting EXCEPT ![a] = TRUE]
  /\ UNCHANGED <<pos, granted>>

\* Not refused: the AGV moves, may reach its station (HandleCheckpointTransitions),
\* and may end the frame with a release.
MoveAlongPath(a, d, asks, asked) ==
  LET flag    == granted[a] \/ asks
      to      == Wrapped(pos[a] + d)
      state   == IF asks /\ st[a] = "waiting" THEN resume[a] ELSE st[a]
      arrives == state = "toStation" /\ Crossed(pos[a], to, target[a])
  IN  /\ pos' = [pos EXCEPT ![a] = to]
      /\ st' = [st EXCEPT ![a] = IF arrives THEN "idle" ELSE state]
      /\ waiting' = [waiting EXCEPT ![a] = @ /\ ~asks]
      /\ seg' = IF Leaves(flag, to) THEN AfterRelease(asked, a) ELSE asked
      /\ granted' = [granted EXCEPT ![a] = flag /\ ~Leaves(flag, to)]
      /\ UNCHANGED resume

\* TickMovement on the path.
TickMovement(a, d) ==
  LET asks  == ShouldRequest(granted[a], pos[a] + d)
      asked == IF asks THEN AfterRequest(seg, a, Frame) ELSE seg
  IN  /\ st[a] \in Driving /\ toPath[a] = 0
      /\ IF asks /\ asked.active # a
         THEN WaitAtSection(a, asked)
         ELSE MoveAlongPath(a, d, asks, asked)
      /\ UNCHANGED <<runVars, toPath, target>>

\* AssignDeliveryTask: the dispatcher has an idle AGV start an autonomous delivery.
AssignDeliveryTask(a) ==
  /\ active[a] /\ ~paused
  /\ st[a] = "idle"
  /\ st' = [st EXCEPT ![a] = "moving"]
  /\ UNCHANGED <<runVars, pos, toPath, target, resume, waiting, granted, seg>>

\* The autonomous delivery pauses or ends at a station (TaskRunner, arrivals).
FinishDelivery(a) ==
  /\ active[a]
  /\ st[a] = "moving"
  /\ st' = [st EXCEPT ![a] = "idle"]
  /\ UNCHANGED <<runVars, pos, toPath, target, resume, waiting, granted, seg>>

\* DirectToStation: the route flags are reset, the manager is not told.
DirectToStation(a, t) ==
  /\ active[a] /\ st[a] # "collided"
  /\ st' = [st EXCEPT ![a] = "toStation"]
  /\ target' = [target EXCEPT ![a] = t]
  /\ resume' = [resume EXCEPT ![a] = "moving"]
  /\ waiting' = [waiting EXCEPT ![a] = FALSE]
  /\ granted' = [granted EXCEPT ![a] = FALSE]
  /\ UNCHANGED <<runVars, pos, toPath, seg>>

\* ForceCollisionStop: the AGV stops where it stands, for the rest of the run; one
\* that was hit need not have started yet.
ForceCollisionStop(a) ==
  /\ Running
  /\ st[a] # "collided"
  /\ st' = [st EXCEPT ![a] = "collided"]
  /\ UNCHANGED <<runVars, pos, toPath, target, resume, waiting, granted, seg>>

\* A run starts, ending the one before: the managers are new and all AGVs are
\* configured at their parking places, in the state they were left in.  One of them
\* starts at once, unless its task component refuses; a station's distance is kept.
StartRun ==
  /\ \E first \in SUBSET Agvs :
       /\ \A a, b \in first : a = b
       /\ active' = [a \in Agvs |-> a \in first]
       /\ st' = [a \in Agvs |-> IF a \in first THEN "idle" ELSE st[a]]
  /\ paused' = FALSE
  /\ pos' = [a \in Agvs |-> 0]
  /\ toPath' = [a \in Agvs |-> Approach]
  /\ waiting' = [a \in Agvs |-> FALSE]
  /\ granted' = [a \in Agvs |-> FALSE]
  /\ resume' = [a \in Agvs |-> "moving"]
  /\ seg' = EmptySegment
  /\ UNCHANGED target

\* The staggered timer of one of the others: AAGVActor::StartRun.
LaunchAgv(a) ==
  /\ Running /\ ~paused /\ ~active[a]
  /\ active' = [active EXCEPT ![a] = TRUE]
  /\ st' = [st EXCEPT ![a] = "idle"]
  /\ pos' = [pos EXCEPT ![a] = 0]
  /\ toPath' = [toPath EXCEPT ![a] = Approach]
  /\ resume' = [resume EXCEPT ![a] = "moving"]
  /\ waiting' = [waiting EXCEPT ![a] = FALSE]
  /\ granted' = [granted EXCEPT ![a] = FALSE]
  /\ UNCHANGED <<paused, target, seg>>

\* The run ends (completed or stopped, all collided): every AGV stops as it is; the
\* managers are destroyed now or with the next start.
StopRun ==
  /\ Running
  /\ active' = [a \in Agvs |-> FALSE]
  /\ paused' = FALSE
  /\ seg' \in {seg, EmptySegment}
  /\ UNCHANGED agvVars

\* HandleSimPauseRequest, HandleSimResumeRequest.
PauseOrResume ==
  /\ Running
  /\ paused' \in BOOLEAN
  /\ UNCHANGED <<active, agvVars, seg>>

\* One frame of an AGV; frames of a paused run have no length and change nothing.
Tick(a) ==
  /\ active[a] /\ ~paused
  /\ \E d \in Steps : TickApproach(a, d) \/ TickMovement(a, d)

Next ==
  \/ \E a \in Agvs : \/ Tick(a)
                     \/ AssignDeliveryTask(a)
                     \/ FinishDelivery(a)
                     \/ ForceCollisionStop(a)
                     \/ LaunchAgv(a)
                     \/ \E t \in Targets : DirectToStation(a, t)
  \/ StartRun
  \/ StopRun
  \/ PauseOrResume

\* The engine ticks every AGV on every frame; what the run asks of it, and whether
\* and for how long there is a run at all, is free.
Spec == Init /\ [][Next]_vars
FairSpec == Spec /\ \A a \in Agvs : WF_vars(Tick(a))

-----------------------------------------------------------------------------
TypeOK ==
  /\ active \in [Agvs -> BOOLEAN] /\ paused \in BOOLEAN
  /\ st \in [Agvs -> States]
  /\ pos \in [Agvs -> 0 .. PathLength - 1]
  /\ toPath \in [Agvs -> 0 .. Approach]
  /\ target \in [Agvs -> Targets]
  /\ resume \in [Agvs -> Driving]
  /\ waiting \in [Agvs -> BOOLEAN] /\ granted \in [Agvs -> BOOLEAN]
  /\ seg.active \in Agvs \cup {NoAgv}

\* The component's flags and the manager's record are two copies of one fact:
\* between frames they agree, whatever redirects, collisions and new runs did.
FlagsMatchManager ==
  \A a \in Agvs : /\ granted[a] <=> seg.active = a
                  /\ waiting[a] <=> IsQueued(seg, a)

\* An AGV that no longer drives (collided, or idle at a station) neither holds
\* the intersection nor stands in line for it, where it would stop all others.
NoOrphanedReservation ==
  \A a \in Agvs : st[a] \notin Driving => seg.active # a /\ ~IsQueued(seg, a)

\* What an AGV believes about the intersection is what the manager knows of it.
MovementIsSound == TypeOK /\ FlagsMatchManager /\ NoOrphanedReservation

\* A commanded AGV stops in the very frame whose move takes it to or past its
\* station, over the seam of the loop too, and in no other frame; one that is
\* already there may also stop in a frame that wraps around.
Swept(a) == {x \in 0 .. PathLength - 1 :
               IF pos[a] < pos'[a] THEN pos[a] < x /\ x <= pos'[a]
                                   ELSE pos[a] < x \/ x <= pos'[a]}
StopsExactlyAtStation ==
  [][\A a \in Agvs : st[a] = "toStation" /\ pos'[a] # pos[a] /\ st'[a] \in {"idle", "toStation"}
       /\ toPath[a] = 0 /\ toPath'[a] = 0 =>
       /\ target[a] % PathLength \in Swept(a) => st'[a] = "idle"
       /\ st'[a] = "idle" => target[a] % PathLength \in Swept(a) \cup {pos[a]}]_vars

\* A commanded AGV gets there unless it is redirected or stopped, its run ends, or
\* its run is paused; from a resumption on the same is asked again.
ReachesStation ==
  \A a \in Agvs, t \in Targets :
    active[a] /\ ~paused /\ st[a] = "toStation" /\ target[a] = t
      ~> st[a] # "toStation" \/ target[a] # t \/ ~active[a] \/ paused

\* "Traffic manager grants exclusive segment reservations": two AGVs are never
\* in the intersection together, except that a collided one may be standing there.
OnSegment(a) == toPath[a] = 0 /\ st[a] \in Driving /\ Within(pos[a])
AtMostOneInside == \A a, b \in Agvs : OnSegment(a) /\ OnSegment(b) => a = b
=============================================================================
