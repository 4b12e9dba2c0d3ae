-------------------------- MODULE RunControlProofs ---------------------------
(***************************************************************************)
(* Proofs about RunControl, for any number of requests of any kind: types, *)
(* timers that belong to the active run, what may end a run, and what the  *)
(* rows of ended runs hold.                                                *)
(***************************************************************************)
EXTENDS RunControl, TLAPS, SequenceTheorems

USE NoOpAssumption, OffersAssumption

\* A row, or a copy of one, of a run that is over or not.
Sound(row, over) ==
    /\ row.kpis = "final" => over
    /\ row.status \in Ended => row.dated

\* The copies that endpoints and events hold are as sound as the rows: they may
\* be old, but what was sound once stays sound.  Final KPIs come with the event
\* of a run that is over.
CopiesSound ==
    /\ \A o \in Ops : op[o].pc # "idle" => Sound(op[o].copy, op[o].run \in finished)
    /\ \A e \in events : /\ e.stage = "read" => Sound(e.copy, e.run \in finished)
                         /\ e.final => e.run \in finished

IInv == TypeOK /\ TimersFollowRun /\ CopiesSound /\ RowsAreSound

OpRecord == [pc : {"idle", "call", "queued", "refused", "done"}, kind : Kinds,
             run : Ops, copy : Row]

-----------------------------------------------------------------------------
(* Types *)

LEMMA NoRowTyped == NoRow \in Row
  BY DEF NoRow, Row

LEMMA InitTyped == Init => TypeOK
<1> SUFFICES ASSUME Init PROVE TypeOK
  OBVIOUS
<1>1. /\ op \in [Ops -> OpRecord]
      /\ rows \in [Ops -> Row]
  BY NoRowTyped DEF Init, OpRecord, Kinds
<1> QED BY <1>1, EmptySeq DEF Init, TypeOK, NoRun, OpRecord

LEMMA WrittenTyped ==
    ASSUME NEW kind \in Kinds, NEW row \in Row, NEW accepted \in BOOLEAN
    PROVE  Written(kind, row, accepted) \in Row
  BY DEF Written, Row, Kinds, Ended

LEMMA CompletedTyped ==
    ASSUME NEW e \in Event
    PROVE  Completed(e) \in Row
  BY DEF Completed, Row, Event, Ended

LEMMA EmittedTyped ==
    ASSUME TypeOK, NEW o \in Ops, NEW r \in Ops, NEW final \in BOOLEAN
    PROVE  Emitted(o, r, final) \subseteq Event
  BY NoRowTyped DEF TypeOK, Emitted, Event

LEMMA OpTyped ==
    ASSUME TypeOK, NEW o \in Ops
    PROVE  /\ op[o].pc \in {"idle", "call", "queued", "refused", "done"}
           /\ op[o].kind \in Kinds
           /\ op[o].run \in Ops
           /\ op[o].copy \in Row
  BY DEF TypeOK

\* Ending a run keeps the types.
LEMMA EndRunTyped ==
    ASSUME TypeOK, Running, EndRun
    PROVE  /\ sim' \in [run : Ops \cup {NoOp}, paused : BOOLEAN, runtime : BOOLEAN]
           /\ timer' \in BOOLEAN /\ demo' \in BOOLEAN /\ frozen' \in BOOLEAN
           /\ events' \subseteq Event
           /\ finished' \subseteq Ops
<1>1. sim.run \in Ops
  BY DEF TypeOK, Running
<1>2. Emitted(sim.run, sim.run, TRUE) \subseteq Event
  BY <1>1, EmittedTyped
<1> QED BY <1>1, <1>2 DEF EndRun, NoRun, TypeOK

LEMMA HeadTyped ==
    ASSUME TypeOK, inbox # <<>>
    PROVE  Head(inbox) \in Ops /\ Tail(inbox) \in Seq(Ops)
  BY HeadTailProperties DEF TypeOK

\* The game thread keeps the types.
LEMMA GameThreadTyped ==
    ASSUME TypeOK, GameThread
    PROVE  TypeOK'
<1> DEFINE o == Head(inbox)
<1>1. o \in Ops /\ inbox' \in Seq(Ops)
  BY HeadTyped DEF GameThread
<1>2. op[o].run \in Ops
  BY <1>1, OpTyped
<1>3. /\ op' \in [Ops -> OpRecord]
      /\ rows' \in [Ops -> Row]
  BY DEF GameThread, backend, TypeOK, OpRecord
<1>4. Emitted(o, op[o].run, FALSE) \subseteq Event
  BY <1>1, <1>2, EmittedTyped
<1>5. /\ sim' \in [run : Ops \cup {NoOp}, paused : BOOLEAN, runtime : BOOLEAN]
      /\ timer' \in BOOLEAN /\ demo' \in BOOLEAN /\ frozen' \in BOOLEAN
      /\ events' \subseteq Event
      /\ finished' \subseteq Ops
  <2>1. CASE HandleSimStart(o)
    <3>1. CASE Running
      BY <2>1, <3>1 DEF HandleSimStart, TypeOK, clock
    <3>2. CASE ~Running
      <4>1. PICK runtime \in BOOLEAN :
              /\ sim' = [run |-> o, paused |-> FALSE, runtime |-> runtime]
              /\ timer' = runtime /\ demo' = ~runtime /\ frozen' = FALSE
        BY <2>1, <3>2 DEF HandleSimStart
      <4> QED BY <1>1, <2>1, <4>1 DEF HandleSimStart, TypeOK
    <3> QED BY <3>1, <3>2
  <2>2. CASE HandleSimStop(op[o].run)
    BY <2>2, EndRunTyped DEF HandleSimStop, Stops, TypeOK, clock
  <2>3. CASE HandleSimPause(o)
    BY <2>3, <1>4 DEF HandleSimPause, TypeOK, clock
  <2>4. CASE HandleSimResume(o)
    BY <2>4, <1>4 DEF HandleSimResume, Rescheduled, Running, TypeOK, clock
  <2>5. CASE HandleSimSpeed(o)
    BY <2>5, <1>4 DEF HandleSimSpeed, AppliesSpeed, Running, TypeOK
  <2> QED BY <2>1, <2>2, <2>3, <2>4, <2>5 DEF GameThread
<1> QED BY <1>1, <1>3, <1>5 DEF TypeOK, OpRecord

LEMMA StepTyped == TypeOK /\ [Next]_vars => TypeOK'
<1> SUFFICES ASSUME TypeOK, [Next]_vars PROVE TypeOK'
  OBVIOUS
<1>1. ASSUME NEW o \in Ops, CreateRun(o) PROVE TypeOK'
  <2> DEFINE row == [NoRow EXCEPT !.status = "starting"]
  <2>1. row \in Row
    BY DEF NoRow, Row
  <2>2. /\ op' \in [Ops -> OpRecord]
        /\ rows' \in [Ops -> Row]
    BY <1>1, <2>1 DEF CreateRun, TypeOK, OpRecord, Kinds
  <2> QED BY <1>1, <2>2 DEF CreateRun, TypeOK, OpRecord, clock
<1>2. ASSUME NEW o \in Ops, NEW kind \in Offers[o] \ {"run"}, NEW r \in Ops, GetRun(o, kind, r)
      PROVE  TypeOK'
  <2>1. kind \in Kinds /\ rows[r] \in Row
    BY DEF TypeOK
  <2>2. op' \in [Ops -> OpRecord]
    BY <1>2, <2>1 DEF GetRun, TypeOK, OpRecord
  <2> QED BY <1>2, <2>2 DEF GetRun, TypeOK, OpRecord, clock
<1>3. ASSUME NEW o \in Ops, ProxyControl(o) PROVE TypeOK'
  <2>1. op' \in [Ops -> OpRecord]
    <3>1. ASSUME NEW pc \in {"queued", "refused"} PROVE [op EXCEPT ![o].pc = pc] \in [Ops -> OpRecord]
      BY DEF TypeOK, OpRecord
    <3> QED BY <1>3, <3>1 DEF ProxyControl
  <2>2. inbox' \in Seq(Ops)
    <3>1. inbox \in Seq(Ops) /\ Append(inbox, o) \in Seq(Ops)
      BY AppendProperties DEF TypeOK
    <3> QED BY <1>3, <3>1 DEF ProxyControl
  <2> QED BY <1>3, <2>1, <2>2 DEF ProxyControl, TypeOK, OpRecord, clock
<1>4. ASSUME NEW o \in Ops, UpdateRun(o) PROVE TypeOK'
  <2>1. op[o].run \in Ops /\ \A accepted \in BOOLEAN : Written(op[o].kind, op[o].copy, accepted) \in Row
    BY OpTyped, WrittenTyped
  <2>2. rows' \in [Ops -> Row]
    <3>1. PICK accepted \in BOOLEAN :
            rows' = [rows EXCEPT ![op[o].run] = Written(op[o].kind, op[o].copy, accepted)]
      BY <1>4, ZenonT(20) DEF UpdateRun
    <3> QED BY <2>1, <3>1 DEF TypeOK
  <2>3. op' \in [Ops -> OpRecord]
    <3>1. [op[o] EXCEPT !.pc = "done", !.copy = NoRow] \in OpRecord
      <4>1. op[o] \in OpRecord
        BY DEF TypeOK, OpRecord
      <4> QED BY <4>1, NoRowTyped DEF OpRecord
    <3>2. op \in [Ops -> OpRecord]
      BY DEF TypeOK, OpRecord
    <3>3. op' = [op EXCEPT ![o] = [op[o] EXCEPT !.pc = "done", !.copy = NoRow]]
      BY <1>4, <3>2 DEF UpdateRun
    <3> QED BY <3>1, <3>2, <3>3
  <2> QED BY <1>4, <2>2, <2>3 DEF UpdateRun, TypeOK, OpRecord, clock
<1>5. CASE GameThread
  BY <1>5, GameThreadTyped
<1>6. CASE TimerExpires
  BY <1>6, EndRunTyped DEF TimerExpires, TypeOK, backend
<1>7. CASE CollisionHalt
  BY <1>7, EndRunTyped DEF CollisionHalt, ChecksCollisions, TypeOK, backend
<1>8. ASSUME NEW e \in events, LoseEvent(e) PROVE TypeOK'
  BY <1>8 DEF LoseEvent, TypeOK, backend, clock
<1>9. ASSUME NEW e \in events, ReadRun(e) PROVE TypeOK'
  <2>1. e \in Event
    BY DEF TypeOK
  <2>2. [e EXCEPT !.stage = "read", !.copy = rows[e.run]] \in Event
    BY <2>1 DEF Event, TypeOK
  <2> QED BY <1>9, <2>2 DEF ReadRun, TypeOK, backend, clock
<1>10. ASSUME NEW e \in events, UpdateRunStatus(e) PROVE TypeOK'
  <2>1. e.run \in Ops /\ Completed(e) \in Row
    BY CompletedTyped DEF TypeOK, Event
  <2> QED BY <1>10, <2>1 DEF UpdateRunStatus, TypeOK, clock
<1>11. CASE UNCHANGED vars
  BY <1>11 DEF vars, backend, clock, TypeOK
<1> QED BY <1>1, <1>2, <1>3, <1>4, <1>5, <1>6, <1>7, <1>8, <1>9, <1>10, <1>11 DEF Next

-----------------------------------------------------------------------------
(* Timers *)

LEMMA InitTimers == Init => TimersFollowRun
  BY DEF Init, TimersFollowRun, Running, NoRun

\* Each step of the simulator leaves timers and run in agreement.
LEMMA StepTimers == TypeOK /\ TimersFollowRun /\ [Next]_vars => TimersFollowRun'
<1> SUFFICES ASSUME TypeOK, TimersFollowRun, [Next]_vars PROVE TimersFollowRun'
  OBVIOUS
<1>1. CASE UNCHANGED <<sim, clock>>
  BY <1>1 DEF TimersFollowRun, Running, clock
<1>2. CASE EndRun
  BY <1>2 DEF EndRun, TimersFollowRun, Running, NoRun
<1>3. CASE GameThread
  <2> DEFINE o == Head(inbox)
  <2>1. o \in Ops
    BY <1>3, HeadTyped DEF GameThread
  <2>2. CASE HandleSimStart(o)
    <3>1. CASE Running
      BY <2>2, <3>1, <1>1 DEF HandleSimStart
    <3>2. CASE ~Running
      <4>1. PICK runtime \in BOOLEAN :
              /\ sim' = [run |-> o, paused |-> FALSE, runtime |-> runtime]
              /\ timer' = runtime /\ demo' = ~runtime /\ frozen' = FALSE
        BY <2>2, <3>2 DEF HandleSimStart
      <4> QED BY <2>1, <4>1 DEF TimersFollowRun, Running
    <3> QED BY <3>1, <3>2
  <2>3. CASE HandleSimStop(op[o].run)
    BY <2>3, <1>1, <1>2 DEF HandleSimStop
  <2>4. CASE HandleSimPause(o)
    BY <2>4, <1>1 DEF HandleSimPause, TimersFollowRun, Running, TypeOK
  <2>5. CASE HandleSimResume(o)
    BY <2>5, <1>1 DEF HandleSimResume, Rescheduled, TimersFollowRun, Running, TypeOK
  <2>6. CASE HandleSimSpeed(o)
    BY <2>6 DEF HandleSimSpeed, AppliesSpeed, TimersFollowRun, Running, TypeOK
  <2> QED BY <1>3, <2>2, <2>3, <2>4, <2>5, <2>6 DEF GameThread
<1> QED
  BY <1>1, <1>2, <1>3 DEF Next, CreateRun, GetRun, ProxyControl, UpdateRun, TimerExpires,
     CollisionHalt, LoseEvent, ReadRun, UpdateRunStatus, vars

-----------------------------------------------------------------------------
(* Rows and their copies *)

LEMMA InitSound == Init => CopiesSound /\ RowsAreSound
  BY DEF Init, CopiesSound, RowsAreSound, NoRow, Ended

\* What an endpoint makes of a sound copy is sound.
LEMMA WrittenSound ==
    ASSUME NEW kind \in Kinds, NEW row \in Row, NEW accepted \in BOOLEAN, NEW r,
           Sound(row, r \in finished)
    PROVE  Sound(Written(kind, row, accepted), r \in finished)
  BY DEF Sound, Written, Row, Kinds, Ended

\* What an event makes of a sound copy is sound.
LEMMA CompletedSound ==
    ASSUME NEW e \in Event, Sound(e.copy, e.run \in finished), e.final => e.run \in finished
    PROVE  Sound(Completed(e), e.run \in finished)
  BY DEF Sound, Completed, Event, Row, Ended

\* The simulator touches no row; a new event is final only if its run is over.
LEMMA SimulatorStep ==
    ASSUME TypeOK, GameThread \/ TimerExpires \/ CollisionHalt
    PROVE  /\ UNCHANGED backend
           /\ finished \subseteq finished'
           /\ \A e \in events' : e \in events \/ (e.stage = "sent" /\ (e.final => e.run \in finished'))
<1>1. UNCHANGED backend
  BY DEF GameThread, TimerExpires, CollisionHalt
<1>2. CASE EndRun
  BY <1>1, <1>2 DEF EndRun, Emitted
<1>3. CASE UNCHANGED <<sim, clock, events, finished>>
  BY <1>1, <1>3
<1>4. CASE GameThread
  <2> DEFINE o == Head(inbox)
  <2>1. CASE HandleSimStart(o)
    BY <1>1, <2>1 DEF HandleSimStart
  <2>2. CASE HandleSimStop(op[o].run)
    BY <2>2, <1>2, <1>3 DEF HandleSimStop
  <2>3. CASE HandleSimPause(o)
    BY <1>1, <2>3 DEF HandleSimPause, Emitted
  <2>4. CASE HandleSimResume(o)
    BY <1>1, <2>4 DEF HandleSimResume, Emitted
  <2>5. CASE HandleSimSpeed(o)
    BY <1>1, <2>5 DEF HandleSimSpeed, Emitted
  <2> QED BY <1>4, <2>1, <2>2, <2>3, <2>4, <2>5 DEF GameThread
<1> QED BY <1>2, <1>4 DEF TimerExpires, CollisionHalt

LEMMA StepSound == TypeOK /\ CopiesSound /\ RowsAreSound /\ [Next]_vars => CopiesSound' /\ RowsAreSound'
<1> SUFFICES ASSUME TypeOK, CopiesSound, RowsAreSound, [Next]_vars
             PROVE  CopiesSound' /\ RowsAreSound'
  OBVIOUS
<1>0. \A r \in Ops : Sound(rows[r], r \in finished)
  BY DEF RowsAreSound, Sound
<1>1. ASSUME NEW o \in Ops, CreateRun(o) PROVE CopiesSound' /\ RowsAreSound'
  <2> DEFINE row == [NoRow EXCEPT !.status = "starting"]
  <2>1. Sound(row, o \in finished)
    BY DEF Sound, NoRow, Ended
  <2>2. rows'[o] = row /\ op'[o].copy = row /\ op'[o].run = o
    BY <1>1 DEF CreateRun, TypeOK
  <2>3. \A p \in Ops \ {o} : rows'[p] = rows[p] /\ op'[p] = op[p]
    BY <1>1 DEF CreateRun, TypeOK
  <2>4. UNCHANGED <<events, finished>>
    BY <1>1 DEF CreateRun
  <2> HIDE DEF row
  <2> QED BY <1>0, <2>1, <2>2, <2>3, <2>4 DEF CopiesSound, RowsAreSound, Sound
<1>2. ASSUME NEW o \in Ops, NEW kind \in Offers[o] \ {"run"}, NEW r \in Ops, GetRun(o, kind, r)
      PROVE  CopiesSound' /\ RowsAreSound'
  <2>1. op'[o].copy = rows[r] /\ op'[o].run = r
    BY <1>2 DEF GetRun, TypeOK
  <2>2. \A p \in Ops \ {o} : op'[p] = op[p]
    BY <1>2 DEF GetRun, TypeOK
  <2>3. UNCHANGED <<rows, events, finished>>
    BY <1>2 DEF GetRun
  <2> QED BY <1>0, <2>1, <2>2, <2>3 DEF CopiesSound, RowsAreSound, Sound
<1>3. ASSUME NEW o \in Ops, ProxyControl(o) PROVE CopiesSound' /\ RowsAreSound'
  <2>1. op[o].pc # "idle"
    BY <1>3 DEF ProxyControl
  <2>2. \A p \in Ops : /\ op'[p].copy = op[p].copy /\ op'[p].run = op[p].run
                       /\ op'[p].pc # "idle" => op[p].pc # "idle"
    BY <1>3, <2>1 DEF ProxyControl, TypeOK
  <2>3. UNCHANGED <<rows, events, finished>>
    BY <1>3 DEF ProxyControl
  <2> QED BY <2>2, <2>3 DEF CopiesSound, RowsAreSound, Sound
<1>4. ASSUME NEW o \in Ops, UpdateRun(o) PROVE CopiesSound' /\ RowsAreSound'
  <2> DEFINE r == op[o].run
  <2>1. r \in Ops
    BY OpTyped
  <2>2. PICK accepted \in BOOLEAN : rows' = [rows EXCEPT ![r] = Written(op[o].kind, op[o].copy, accepted)]
    BY <1>4, ZenonT(20) DEF UpdateRun
  <2>3. Sound(op[o].copy, r \in finished)
    BY <1>4 DEF UpdateRun, CopiesSound
  <2>4. Sound(Written(op[o].kind, op[o].copy, accepted), r \in finished)
    BY <2>3, OpTyped, WrittenSound
  <2>5. rows'[r] = Written(op[o].kind, op[o].copy, accepted) /\ \A q \in Ops \ {r} : rows'[q] = rows[q]
    BY <2>1, <2>2 DEF TypeOK
  <2>6. op'[o].copy = NoRow /\ \A p \in Ops \ {o} : op'[p] = op[p]
    BY <1>4 DEF UpdateRun, TypeOK
  <2>7. UNCHANGED <<events, finished>>
    BY <1>4 DEF UpdateRun
  <2>8. CopiesSound'
    BY <2>6, <2>7 DEF CopiesSound, Sound, NoRow, Ended
  <2>9. RowsAreSound'
    BY <2>4, <2>5, <2>7 DEF RowsAreSound, Sound
  <2> QED BY <2>8, <2>9
<1>5. CASE GameThread \/ TimerExpires \/ CollisionHalt
  <2>1. UNCHANGED backend /\ finished \subseteq finished'
    BY <1>5, SimulatorStep
  <2>2. \A e \in events' : e \in events \/ (e.stage = "sent" /\ (e.final => e.run \in finished'))
    BY <1>5, SimulatorStep
  <2> QED BY <2>1, <2>2 DEF backend, CopiesSound, RowsAreSound, Sound
<1>6. ASSUME NEW e \in events, LoseEvent(e) PROVE CopiesSound' /\ RowsAreSound'
  BY <1>6 DEF LoseEvent, backend, CopiesSound, RowsAreSound, Sound
<1>7. ASSUME NEW e \in events, ReadRun(e) PROVE CopiesSound' /\ RowsAreSound'
  <2> DEFINE f == [e EXCEPT !.stage = "read", !.copy = rows[e.run]]
  <2>1. e \in Event /\ e.run \in Ops
    BY DEF TypeOK, Event
  <2>2. f.run = e.run /\ f.final = e.final /\ f.copy = rows[e.run]
    BY <2>1 DEF Event
  <2>3. events' = (events \ {e}) \cup {f} /\ UNCHANGED <<op, rows, finished>>
    BY <1>7 DEF ReadRun, backend
  <2> HIDE DEF f
  <2> QED BY <1>0, <2>1, <2>2, <2>3 DEF CopiesSound, RowsAreSound, Sound
<1>8. ASSUME NEW e \in events, UpdateRunStatus(e) PROVE CopiesSound' /\ RowsAreSound'
  <2>1. e \in Event /\ e.run \in Ops
    BY DEF TypeOK, Event
  <2>2. Sound(Completed(e), e.run \in finished)
    BY <1>8, <2>1, CompletedSound DEF UpdateRunStatus, CopiesSound
  <2>3. rows'[e.run] = Completed(e) /\ \A q \in Ops \ {e.run} : rows'[q] = rows[q]
    BY <1>8, <2>1 DEF UpdateRunStatus, TypeOK
  <2>4. events' = events \ {e} /\ UNCHANGED <<op, finished>>
    BY <1>8 DEF UpdateRunStatus
  <2>5. CopiesSound'
    BY <2>4 DEF CopiesSound, Sound
  <2>6. RowsAreSound'
    BY <2>2, <2>3, <2>4 DEF RowsAreSound, Sound
  <2> QED BY <2>5, <2>6
<1>9. CASE UNCHANGED vars
  BY <1>9 DEF vars, backend, CopiesSound, RowsAreSound, Sound
<1> QED BY <1>1, <1>2, <1>3, <1>4, <1>5, <1>6, <1>7, <1>8, <1>9 DEF Next

-----------------------------------------------------------------------------
(* Theorems *)

\* All of the above holds throughout: the inductive invariant.
THEOREM RunControlInvariance == Spec => []IInv
<1>1. Init => IInv
  BY InitTyped, InitTimers, InitSound DEF IInv
<1>2. IInv /\ [Next]_vars => IInv'
  BY StepTyped, StepTimers, StepSound DEF IInv
<1> QED BY <1>1, <1>2, PTL DEF Spec

\* Endpoints, rows, queue, timers and events keep their types.
THEOREM RunControlTypeCorrect == Spec => []TypeOK
<1>1. IInv => TypeOK
  BY DEF IInv
<1> QED BY <1>1, RunControlInvariance, PTL

\* The timers and the world's time agree with the active run after any sequence
\* of start, stop, pause, resume and speed requests (AGVSimController.cpp).
THEOREM TimersAgree == Spec => []TimersFollowRun
<1>1. IInv => TimersFollowRun
  BY DEF IInv
<1> QED BY <1>1, RunControlInvariance, PTL

\* Rows stay sound although endpoints and events write old copies of them back
\* (update_run, update_run_status).
THEOREM StaleWritesAreSound == Spec => []RowsAreSound
<1>1. IInv => RowsAreSound
  BY DEF IInv
<1> QED BY <1>1, RunControlInvariance, PTL

\* Only its own stop request, or its timer or a collision while it is not paused,
\* ends a run (HandleSimStopRequest, CompleteRuntimeRun).
THEOREM RunsEndAsAsked == Spec => EndsAsAsked
<1> DEFINE Step == Running /\ sim'.run # sim.run =>
       /\ inbox' # inbox => op[Head(inbox)].kind = "stop" /\ op[Head(inbox)].run = sim.run
       /\ sim.paused => inbox' # inbox
<1>1. IInv /\ [Next]_vars => [Step]_vars
  <2> SUFFICES ASSUME IInv, Next, Running, sim'.run # sim.run
               PROVE  /\ inbox' # inbox => op[Head(inbox)].kind = "stop" /\ op[Head(inbox)].run = sim.run
                      /\ sim.paused => inbox' # inbox
    OBVIOUS
  <2>1. CASE GameThread
    <3> DEFINE o == Head(inbox)
    <3>1. inbox' # inbox
      <4>1. inbox \in Seq(Ops) /\ inbox # <<>> /\ inbox' = Tail(inbox)
        BY <2>1 DEF GameThread, IInv, TypeOK
      <4>2. Len(Tail(inbox)) = Len(inbox) - 1 /\ Len(inbox) \in Nat
        BY <4>1, HeadTailProperties, LenProperties
      <4>3. \A n, m \in Nat : n = m - 1 => n # m
        OBVIOUS
      <4>4. Len(Tail(inbox)) # Len(inbox)
        BY <4>2, <4>3
      <4> QED BY <4>1, <4>4, Zenon
    <3>2. ~HandleSimStart(o) /\ ~HandleSimPause(o) /\ ~HandleSimResume(o) /\ ~HandleSimSpeed(o)
      BY DEF HandleSimStart, HandleSimPause, HandleSimResume, HandleSimSpeed, IInv, TypeOK
    <3>3. op[o].kind = "stop" /\ HandleSimStop(op[o].run)
      BY <2>1, <3>2 DEF GameThread
    <3>4. op[o].run = sim.run
      BY <3>3 DEF HandleSimStop, Stops
    <3> QED BY <3>1, <3>3, <3>4
  <2>2. CASE TimerExpires
    BY <2>2 DEF TimerExpires, IInv, TimersFollowRun
  <2>3. CASE CollisionHalt
    BY <2>3 DEF CollisionHalt, ChecksCollisions
  <2> QED
    BY <2>1, <2>2, <2>3 DEF Next, CreateRun, GetRun, ProxyControl, UpdateRun,
       LoseEvent, ReadRun, UpdateRunStatus, backend
<1> QED BY <1>1, RunControlInvariance, PTL DEF Spec, EndsAsAsked
=============================================================================
