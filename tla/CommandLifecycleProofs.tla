----------------------- MODULE CommandLifecycleProofs -----------------------
(***************************************************************************)
(* Proofs about CommandLifecycle, for any number of turns, keys and        *)
(* requests: types, one command and one delivery per key, that no row      *)
(* claims a delivery that did not happen, and that the outcome of a        *)
(* command is recorded truly, once and for good.                           *)
(***************************************************************************)
EXTENDS CommandLifecycle, TLAPS, SequenceTheorems

USE RequestsAssumption, NoCmdAssumption

\* Rows are unique by key: what ON CONFLICT (idempotency_key) maintains.
RowsUnique ==
    \A c, d \in Turns :
        commands[c] # "none" /\ commands[d] # "none" /\ Key(c) = Key(d) => c = d

\* A turn holds a command that has a row, with the turn's own key.
HeldExists ==
    \A t \in Turns :
        turn[t].cmd # NoCmd => commands[turn[t].cmd] # "none" /\ Key(turn[t].cmd) = Key(t)

\* Only the turn that created a command sends it and writes its answer.
SendsItsOwn ==
    \A t \in Turns : turn[t].pc \in {"send", "sent", "verify", "update"} => turn[t].cmd = t

\* What UE5 received has a row.
ReceivedSaved == \A c \in received : commands[c] # "none"

KeyInv == RowsUnique /\ HeldExists /\ SendsItsOwn /\ ReceivedSaved

\* Wherever a success can come from, the command has been received.
SourcesReceived ==
    /\ inbox \in Seq(received)
    /\ sim.run \in received \cup {NoCmd}
    /\ tasks \subseteq received
    /\ \A e \in events : e.cmd \in received
    /\ \A t \in Turns :
          \/ turn[t].pc \in {"sent", "verify"}
          \/ turn[t].pc = "update" /\ turn[t].status \in {"accepted", "completed"}
          => t \in received

DeliveryInv == SourcesReceived /\ AcceptedWasReceived

-----------------------------------------------------------------------------
(* Types *)

LEMMA RequestTyped ==
    ASSUME TypeOK, NEW t \in Turns
    PROVE  Key(t) \in Keys /\ Kind(t) \in Kinds
  BY DEF TypeOK, Key, Kind

LEMMA InitTyped == Init => TypeOK
  BY DEF Init, TypeOK, TurnRecord, PcValues, Statuses, RunStatuses

\* The three ways in which a turn's record changes.
LEMMA MovedTyped ==
  ASSUME TypeOK, NEW t \in Turns, NEW pc \in PcValues
  PROVE  [turn EXCEPT ![t].pc = pc] \in [Turns -> TurnRecord]
<1>1. turn[t] \in TurnRecord
  BY DEF TypeOK
<1>2. [turn[t] EXCEPT !.pc = pc] \in TurnRecord
  BY <1>1 DEF TurnRecord
<1> QED BY <1>2 DEF TypeOK

LEMMA SettledTyped ==
  ASSUME TypeOK, NEW t \in Turns, NEW status \in Statuses
  PROVE  Settled(t, status) \in [Turns -> TurnRecord]
<1>1. turn[t] \in TurnRecord
  BY DEF TypeOK
<1> DEFINE r == [[turn[t] EXCEPT !.pc = "update"] EXCEPT !.status = status]
<1>2. r \in TurnRecord
  BY <1>1 DEF TurnRecord, PcValues
<1>3. Settled(t, status) = [turn EXCEPT ![t] = r]
  BY DEF Settled, TypeOK
<1> QED BY <1>2, <1>3 DEF TypeOK

LEMMA ReuseTyped ==
  ASSUME TypeOK, NEW t \in Turns, ReuseCommand(t)
  PROVE  turn' \in [Turns -> TurnRecord]
<1>1. PICK c \in SameKey(t) : turn' = [turn EXCEPT ![t] = Reused(t, c)]
  BY DEF ReuseCommand
<1>2. turn[t] \in TurnRecord /\ commands[c] \in Statuses /\ c \in Turns
  BY DEF TypeOK, SameKey
<1>3. Reused(t, c) \in TurnRecord
  BY <1>2 DEF Reused, TurnRecord, PcValues
<1> QED BY <1>1, <1>3 DEF TypeOK

\* Writing the columns of a run.
LEMMA RunWrittenTyped ==
  ASSUME TypeOK, NEW i, NEW status \in RunStatuses, NEW kpis \in BOOLEAN
  PROVE  [runs EXCEPT ![i].status = status, ![i].kpis = kpis] \in Seq(Run)
<1> DEFINE g == [runs EXCEPT ![i].status = status, ![i].kpis = kpis]
           n == Len(runs)
<1>1. n \in Nat /\ DOMAIN runs = 1 .. n /\ \A j \in 1 .. n : runs[j] \in Run
  BY LenProperties DEF TypeOK
<1>2. g \in [1 .. n -> Run]
  <2>1. ASSUME NEW j \in 1 .. n PROVE g[j] \in Run
    <3>1. runs[j] \in Run
      BY <1>1
    <3>2. [[runs[j] EXCEPT !.status = status] EXCEPT !.kpis = kpis] \in Run
      BY <3>1 DEF Run
    <3>3. g[j] = IF i = j THEN [[runs[j] EXCEPT !.status = status] EXCEPT !.kpis = kpis]
                 ELSE runs[j]
      BY <1>1
    <3> QED BY <3>1, <3>2, <3>3
  <2>2. DOMAIN g = 1 .. n
    BY <1>1
  <2>3. g = [j \in 1 .. n |-> g[j]]
    BY <2>2, <1>1, Zenon
  <2> HIDE DEF g
  <2> QED BY <2>1, <2>3
<1> HIDE DEF g
<1>3. g \in Seq(Run)
  BY <1>1, <1>2, SeqDef
<1> QED BY <1>3 DEF g

\* An event that goes to another stage.
LEMMA AdvancedTyped ==
  ASSUME TypeOK, NEW e \in events, NEW stage \in {"found", "command", "report"}, NEW i \in Nat
  PROVE  Advanced(e, stage, i) \subseteq Event
<1>1. e \in Event
  BY DEF TypeOK
<1>2. [[e EXCEPT !.stage = stage] EXCEPT !.run = i] \in Event
  BY <1>1 DEF Event
<1> QED BY <1>2 DEF Advanced, TypeOK

\* The end of a run.
LEMMA EndRunTyped ==
  ASSUME TypeOK, EndRun
  PROVE  /\ sim' \in [run : Turns \cup {NoCmd}, paused : BOOLEAN]
         /\ events' \subseteq Event
         /\ finished' \subseteq Turns
         /\ tasks' \subseteq Turns
<1>1. sim.run \in Turns
  BY DEF EndRun, TypeOK
<1>2. sim' \in [run : Turns \cup {NoCmd}, paused : BOOLEAN]
  BY DEF EndRun, NoActiveRun
<1>3. events' \subseteq Event
  BY <1>1 DEF EndRun, Emitted, Event, TypeOK
<1> QED BY <1>1, <1>2, <1>3 DEF EndRun, TypeOK

LEMMA LookUpTyped ==
  ASSUME TypeOK, NEW t \in Turns, LookUp(t) PROVE TypeOK'
<1>1. [turn EXCEPT ![t].pc = "save"] \in [Turns -> TurnRecord]
  BY MovedTyped DEF PcValues
<1>2. turn' \in [Turns -> TurnRecord]
  BY <1>1, ReuseTyped DEF LookUp
<1>3. UNCHANGED <<request, commands, runs, ue5, events, reports, unreported>>
  BY DEF LookUp, ReuseCommand
<1> QED BY <1>2, <1>3 DEF TypeOK, ue5

LEMMA SaveTyped ==
  ASSUME TypeOK, NEW t \in Turns, SaveCommand(t) PROVE TypeOK'
<1>1. UNCHANGED <<request, runs, ue5, events, reports, unreported>>
  BY DEF SaveCommand
<1>2. CASE ReuseCommand(t)
  <2>1. turn' \in [Turns -> TurnRecord] /\ UNCHANGED commands
    BY <1>2, ReuseTyped DEF ReuseCommand
  <2> QED BY <1>1, <2>1 DEF TypeOK, ue5
<1>3. CASE /\ commands' = [commands EXCEPT ![t] = "pending"]
           /\ turn' = [turn EXCEPT ![t].pc = "send", ![t].cmd = t]
  <2>1. turn[t] \in TurnRecord
    BY DEF TypeOK
  <2> DEFINE r == [[turn[t] EXCEPT !.pc = "send"] EXCEPT !.cmd = t]
  <2>2. r \in TurnRecord
    BY <2>1 DEF TurnRecord, PcValues
  <2>3. turn' = [turn EXCEPT ![t] = r]
    BY <1>3 DEF TypeOK
  <2>4. turn' \in [Turns -> TurnRecord]
    BY <2>2, <2>3 DEF TypeOK
  <2>5. commands' \in [Turns -> Statuses \cup {"none"}]
    BY <1>3 DEF TypeOK, Statuses
  <2> QED BY <1>1, <2>4, <2>5 DEF TypeOK, ue5
<1> QED BY <1>2, <1>3 DEF SaveCommand

LEMMA ReplyTyped ==
  ASSUME TypeOK, NEW t \in Turns, Reply(t), turn[t].cmd # NoCmd PROVE TypeOK'
<1>1. UNCHANGED <<request, commands, ue5, events, reports, unreported>>
  BY DEF Reply
<1>2. CASE /\ turn' = [turn EXCEPT ![t].pc = "done"]
           /\ UNCHANGED runs
  <2>1. turn' \in [Turns -> TurnRecord]
    BY <1>2, MovedTyped DEF PcValues
  <2> QED BY <1>1, <1>2, <2>1 DEF TypeOK, ue5
<1>3. CASE /\ turn[t].status # "failed" /\ Kind(turn[t].cmd) = "start"
           /\ runs' = Append(runs, [cmd |-> turn[t].cmd, status |-> "running", kpis |-> FALSE])
           /\ turn' = [turn EXCEPT ![t].pc = "done"]
  <2>1. turn' \in [Turns -> TurnRecord]
    BY <1>3, MovedTyped DEF PcValues
  <2>2. turn[t].cmd \in Turns
    BY DEF TypeOK, TurnRecord
  <2>3. [cmd |-> turn[t].cmd, status |-> "running", kpis |-> FALSE] \in Run
    BY <2>2 DEF Run, RunStatuses
  <2>4. runs' \in Seq(Run)
    BY <1>3, <2>3 DEF TypeOK
  <2> QED BY <1>1, <2>1, <2>4 DEF TypeOK, ue5
<1>4. CASE /\ \E i \in LatestActive :
                turn' = [turn EXCEPT ![t].pc = "mirror", ![t].at = i,
                                     ![t].held = runs[i].status, ![t].kpis = runs[i].kpis]
           /\ UNCHANGED runs
  <2>1. PICK i \in LatestActive :
                turn' = [turn EXCEPT ![t].pc = "mirror", ![t].at = i,
                                     ![t].held = runs[i].status, ![t].kpis = runs[i].kpis]
    BY <1>4
  <2>2. runs[i] \in Run /\ i \in Nat
    BY DEF LatestActive, TypeOK
  <2>3. turn[t] \in TurnRecord
    BY DEF TypeOK
  <2> DEFINE r == [[[[turn[t] EXCEPT !.pc = "mirror"] EXCEPT !.at = i]
                     EXCEPT !.held = runs[i].status] EXCEPT !.kpis = runs[i].kpis]
  <2>4. r \in TurnRecord
    BY <2>2, <2>3 DEF TurnRecord, PcValues, Run
  <2>5. turn' = [turn EXCEPT ![t] = r]
    BY <2>1 DEF TypeOK
  <2>6. turn' \in [Turns -> TurnRecord]
    BY <2>4, <2>5 DEF TypeOK
  <2> QED BY <1>1, <1>4, <2>6 DEF TypeOK, ue5
<1> QED BY <1>2, <1>3, <1>4 DEF Reply

LEMMA GameThreadTyped ==
  ASSUME TypeOK, GameThread PROVE TypeOK'
<1> DEFINE c == Head(inbox)
<1>1. c \in Turns /\ inbox' \in Seq(Turns)
  BY DEF GameThread, TypeOK
<1>2. UNCHANGED <<request, backend, received, reports, unreported>>
  BY DEF GameThread
<1>3. Emitted(c) \subseteq Event
  BY <1>1 DEF Emitted, Event, TypeOK
<1>4. Handle(c)
  BY DEF GameThread
<1>5. /\ sim' \in [run : Turns \cup {NoCmd}, paused : BOOLEAN]
      /\ tasks' \subseteq Turns
      /\ finished' \subseteq Turns
      /\ events' \subseteq Event
  <2> HIDE DEF c
  <2>1. CASE EndRun
    BY <2>1, EndRunTyped
  <2>2. CASE UNCHANGED <<finished, tasks>>
    <3>1. [sim EXCEPT !.paused = (Kind(c) = "pause")] \in [run : Turns \cup {NoCmd}, paused : BOOLEAN]
      <4>1. (Kind(c) = "pause") \in BOOLEAN
        OBVIOUS
      <4> QED BY <4>1 DEF TypeOK
    <3>2. [run |-> c, paused |-> FALSE] \in [run : Turns \cup {NoCmd}, paused : BOOLEAN]
      BY <1>1
    <3>3. \/ sim' = sim
          \/ sim' = [run |-> c, paused |-> FALSE]
          \/ sim' = [sim EXCEPT !.paused = (Kind(c) = "pause")]
          \/ EndRun
      BY <1>4 DEF Handle
    <3>4. events' \in {events, Emitted(c)} \/ EndRun
      BY <1>4 DEF Handle
    <3> QED BY <1>3, <2>1, <2>2, <3>1, <3>2, <3>3, <3>4 DEF TypeOK
  <2>3. CASE UNCHANGED <<sim, finished>>
    BY <1>1, <1>3, <1>4, <2>1, <2>3 DEF Handle, TypeOK
  <2> QED BY <1>4, <2>1, <2>2, <2>3 DEF Handle
<1> QED BY <1>1, <1>2, <1>5 DEF TypeOK, backend

LEMMA UpdateRunTyped ==
  ASSUME TypeOK, NEW e \in events, UpdateRunStatus(e) PROVE TypeOK'
<1>1. e \in Event
  BY DEF TypeOK
<1>2. events' \subseteq Event
  BY AdvancedTyped DEF UpdateRunStatus
<1>3. runs' \in Seq(Run)
  <2>1. "completed" \in RunStatuses
    BY DEF RunStatuses
  <2>2. ASSUME NEW kpis \in BOOLEAN
        PROVE [runs EXCEPT ![e.run].status = "completed", ![e.run].kpis = kpis] \in Seq(Run)
    BY <2>1, RunWrittenTyped
  <2>3. [runs EXCEPT ![e.run].status = "completed", ![e.run].kpis = TRUE] \in Seq(Run)
    BY <2>2, Zenon
  <2> QED BY <2>3 DEF UpdateRunStatus
<1> QED BY <1>2, <1>3 DEF UpdateRunStatus, TypeOK, ue5

LEMMA MirrorTyped ==
  ASSUME TypeOK, NEW t \in Turns, Mirror(t) PROVE TypeOK'
<1>1. turn' \in [Turns -> TurnRecord]
  BY MovedTyped DEF Mirror, PcValues
<1>2. MirroredStatus(t) \in RunStatuses /\ turn[t].kpis \in BOOLEAN
  BY DEF MirroredStatus, TypeOK, TurnRecord, RunStatuses
<1>3. runs' \in Seq(Run)
  BY <1>2, RunWrittenTyped DEF Mirror
<1> QED BY <1>1, <1>3 DEF Mirror, TypeOK, ue5

\* A turn that answers holds a command.
HoldsCommand == \A t \in Turns : turn[t].pc = "reply" => turn[t].cmd # NoCmd

LEMMA StepTyped ==
  ASSUME TypeOK, HoldsCommand, [Next]_vars PROVE TypeOK'
<1>1. ASSUME NEW t \in Turns, Post(t) PROVE TypeOK'
  <2>1. turn' \in [Turns -> TurnRecord]
    BY <1>1, MovedTyped DEF Post, PcValues
  <2>2. inbox' \in Seq(Turns) /\ received' \subseteq Turns
    BY <1>1 DEF Post, TypeOK
  <2> QED BY <1>1, <2>1, <2>2 DEF Post, TypeOK
<1>2. ASSUME NEW t \in Turns, HttpError(t) \/ Answered(t) \/ WaitUntilStopped(t) PROVE TypeOK'
  <2>1. "failed" \in Statuses /\ "accepted" \in Statuses
    BY DEF Statuses
  <2>2. [turn EXCEPT ![t].pc = "verify"] \in [Turns -> TurnRecord]
    BY MovedTyped DEF PcValues
  <2>3. turn' \in [Turns -> TurnRecord]
    <3>1. /\ Settled(t, "failed") \in [Turns -> TurnRecord]
          /\ Settled(t, "accepted") \in [Turns -> TurnRecord]
      BY <2>1, SettledTyped
    <3> QED BY <1>2, <2>2, <3>1 DEF HttpError, HttpErrorStatus, Answered, WaitUntilStopped
  <2>4. UNCHANGED <<request, commands, runs, ue5, events, reports, unreported>>
    BY <1>2 DEF HttpError, Answered, WaitUntilStopped
  <2> QED BY <2>3, <2>4 DEF TypeOK, ue5
<1>3. ASSUME NEW t \in Turns, UpdateCommand(t) PROVE TypeOK'
  <2>1. turn' \in [Turns -> TurnRecord]
    BY <1>3, MovedTyped DEF UpdateCommand, PcValues
  <2>2. turn[t].status \in Statuses
    BY DEF TypeOK, TurnRecord
  <2>3. commands' \in [Turns -> Statuses \cup {"none"}]
    BY <1>3, <2>2 DEF UpdateCommand, TypeOK
  <2> QED BY <1>3, <2>1, <2>3 DEF UpdateCommand, TypeOK, ue5
<1>4. ASSUME NEW t \in Turns, Reply(t) PROVE TypeOK'
  BY <1>4, ReplyTyped DEF HoldsCommand, Reply
<1>5. ASSUME NEW t \in Turns, ReachStation(t) PROVE TypeOK'
  BY <1>5 DEF ReachStation, Emitted, backend, Event, TypeOK
<1>6. CASE RunEnds
  BY <1>6, EndRunTyped DEF RunEnds, backend, TypeOK
<1>7. ASSUME NEW e \in events, LoseEvent(e) PROVE TypeOK'
  BY <1>7 DEF LoseEvent, backend, ue5, TypeOK
<1>8. ASSUME NEW e \in events, FindRun(e) PROVE TypeOK'
  <2>1. e \in Event
    BY DEF TypeOK
  <2>2. \A i \in Matching(e) : i \in Nat
    BY DEF Matching, TypeOK
  <2>3. events' \subseteq Event
    BY <1>8, <2>2, AdvancedTyped DEF FindRun
  <2> QED BY <1>8, <2>3 DEF FindRun, backend, ue5, TypeOK
<1>9. ASSUME NEW e \in events, HandleCompletionEvent(e) PROVE TypeOK'
  <2>1. e \in Event
    BY DEF TypeOK
  <2>2. events' \subseteq Event
    <3>1. Advanced(e, "report", 0) \subseteq Event
      BY AdvancedTyped
    <3>2. events \ {e} \subseteq Event
      BY DEF TypeOK
    <3> QED BY <1>9, <3>1, <3>2 DEF HandleCompletionEvent
  <2>3. commands' \in [Turns -> Statuses \cup {"none"}]
    BY <1>9, <2>1 DEF HandleCompletionEvent, Event, Statuses, TypeOK
  <2> QED BY <1>9, <2>2, <2>3 DEF HandleCompletionEvent, ue5, TypeOK
<1>10. ASSUME NEW e \in events, GenerateReport(e) \/ ReportFails(e) PROVE TypeOK'
  <2>1. e.cmd \in Turns
    BY DEF Event, TypeOK
  <2>2. reports' \in [Turns -> Nat]
    BY <1>10 DEF GenerateReport, ReportFails, TypeOK
  <2>3. unreported' \subseteq Turns /\ events' \subseteq Event
    BY <1>10, <2>1 DEF GenerateReport, ReportFails, TypeOK
  <2> QED BY <1>10, <2>2, <2>3 DEF GenerateReport, ReportFails, backend, ue5, TypeOK
<1>11. CASE UNCHANGED vars
  BY <1>11 DEF vars, backend, ue5, TypeOK
<1> QED
  BY <1>1, <1>2, <1>3, <1>4, <1>5, <1>6, <1>7, <1>8, <1>9, <1>10, <1>11,
     LookUpTyped, SaveTyped, MirrorTyped, GameThreadTyped, UpdateRunTyped
  DEF Next, TurnStep, EventStep

-----------------------------------------------------------------------------
(* One key, one command *)

LEMMA InitKeys == Init => KeyInv /\ HoldsCommand
  BY NoCmdAssumption DEF Init, KeyInv, RowsUnique, HeldExists, SendsItsOwn, ReceivedSaved, HoldsCommand

LEMMA StepKeys ==
  ASSUME TypeOK, KeyInv, HoldsCommand, SourcesReceived, [Next]_vars
  PROVE  KeyInv' /\ HoldsCommand'
<1> USE DEF KeyInv, RowsUnique, HeldExists, SendsItsOwn, ReceivedSaved, HoldsCommand
<1>0. /\ turn \in [Turns -> TurnRecord]
      /\ commands \in [Turns -> Statuses \cup {"none"}]
      /\ received \subseteq Turns
  BY DEF TypeOK
\* Steps that leave the set of rows and the turns' commands alone.
<1>1. ASSUME UNCHANGED <<request, received>>,
             \A c \in Turns : commands'[c] = "none" <=> commands[c] = "none",
             \A t \in Turns : turn'[t].cmd = turn[t].cmd,
             \A t \in Turns : turn'[t].pc \in {"send", "sent", "verify", "update", "reply"}
                                => turn[t].pc \in {"send", "sent", "verify", "update", turn'[t].pc}
      PROVE  KeyInv' /\ HoldsCommand'
  <2>1. RowsUnique'
    BY <1>1 DEF Key
  <2>2. HeldExists'
    <3>1. \A t \in Turns : turn[t].cmd \in Turns \cup {NoCmd}
      BY <1>0 DEF TurnRecord
    <3> QED BY <1>1, <3>1 DEF Key
  <2>3. SendsItsOwn' /\ HoldsCommand'
    BY <1>1, NoCmdAssumption
  <2>4. ReceivedSaved'
    BY <1>0, <1>1
  <2> QED BY <2>1, <2>2, <2>3, <2>4
\* A turn that takes over an existing row.
<1>2. ASSUME NEW t \in Turns, ReuseCommand(t), UNCHANGED <<request, received>>
      PROVE  KeyInv' /\ HoldsCommand'
  <2>1. PICK c \in SameKey(t) : turn' = [turn EXCEPT ![t] = Reused(t, c)]
    BY <1>2 DEF ReuseCommand
  <2>2. c \in Turns /\ commands[c] # "none" /\ Key(c) = Key(t) /\ UNCHANGED commands
    BY <1>2 DEF SameKey, ReuseCommand
  <2>3. turn'[t] = Reused(t, c) /\ \A u \in Turns \ {t} : turn'[u] = turn[u]
    BY <1>0, <2>1
  <2>4. turn'[t].pc = "reply" /\ turn'[t].cmd = c
    BY <1>0, <2>3 DEF Reused, TurnRecord
  <2> QED BY <1>2, <2>2, <2>3, <2>4, NoCmdAssumption DEF Key
<1>3. ASSUME NEW t \in Turns, LookUp(t) PROVE KeyInv' /\ HoldsCommand'
  <2>1. CASE ReuseCommand(t)
    BY <1>2, <1>3, <2>1 DEF LookUp, ue5
  <2>2. CASE turn' = [turn EXCEPT ![t].pc = "save"] /\ UNCHANGED commands
    BY <1>0, <1>1, <1>3, <2>2 DEF LookUp, ue5, TurnRecord
  <2> QED BY <1>3, <2>1, <2>2 DEF LookUp
<1>4. ASSUME NEW t \in Turns, SaveCommand(t) PROVE KeyInv' /\ HoldsCommand'
  <2>1. CASE ReuseCommand(t)
    BY <1>2, <1>4, <2>1 DEF SaveCommand, ue5
  <2>2. CASE /\ SameKey(t) = {}
             /\ commands' = [commands EXCEPT ![t] = "pending"]
             /\ turn' = [turn EXCEPT ![t].pc = "send", ![t].cmd = t]
    <3>1. UNCHANGED <<request, received>>
      BY <1>4 DEF SaveCommand, ue5
    <3>2. \A c \in Turns : commands[c] # "none" => Key(c) # Key(t)
      BY <2>2 DEF SameKey
    <3>3. /\ commands'[t] = "pending"
          /\ \A c \in Turns \ {t} : commands'[c] = commands[c]
      BY <1>0, <2>2
    <3>4. /\ turn'[t].pc = "send" /\ turn'[t].cmd = t
          /\ \A u \in Turns \ {t} : turn'[u] = turn[u]
      BY <1>0, <2>2 DEF TurnRecord
    <3> QED BY <1>0, <3>1, <3>2, <3>3, <3>4 DEF Key, TurnRecord
  <2> QED BY <1>4, <2>1, <2>2 DEF SaveCommand, Inserted
<1>5. ASSUME NEW t \in Turns, Post(t) PROVE KeyInv' /\ HoldsCommand'
  <2>1. turn[t].cmd = t /\ commands[t] # "none"
    BY <1>0, <1>5, NoCmdAssumption DEF Post
  <2>2. /\ turn'[t].pc = "sent" /\ turn'[t].cmd = t
        /\ \A u \in Turns \ {t} : turn'[u] = turn[u]
    BY <1>0, <1>5, <2>1 DEF Post, TurnRecord
  <2> QED BY <1>0, <1>5, <2>1, <2>2 DEF Post, Key
<1>6. ASSUME NEW t \in Turns, HttpError(t) \/ Answered(t) \/ WaitUntilStopped(t)
      PROVE  KeyInv' /\ HoldsCommand'
  <2>1. /\ turn[t].pc \in {"send", "sent", "verify"}
        /\ turn'[t].cmd = turn[t].cmd
        /\ turn'[t].pc \in {"update", "verify"}
        /\ \A u \in Turns \ {t} : turn'[u] = turn[u]
    BY <1>0, <1>6 DEF HttpError, Answered, WaitUntilStopped, Settled, TurnRecord
  <2> QED BY <1>1, <1>6, <2>1 DEF HttpError, Answered, WaitUntilStopped, ue5
<1>7. ASSUME NEW t \in Turns, UpdateCommand(t) PROVE KeyInv' /\ HoldsCommand'
  <2>1. turn[t].cmd = t /\ turn[t].status # "none" /\ commands[t] # "none"
    BY <1>0, <1>7, NoCmdAssumption DEF UpdateCommand, TurnRecord, Statuses
  <2>2. /\ commands'[t] = turn[t].status
        /\ \A c \in Turns \ {t} : commands'[c] = commands[c]
    BY <1>0, <1>7, <2>1 DEF UpdateCommand
  <2>3. /\ turn'[t].pc = "reply" /\ turn'[t].cmd = t
        /\ \A u \in Turns \ {t} : turn'[u] = turn[u]
    BY <1>0, <1>7, <2>1 DEF UpdateCommand, TurnRecord
  <2>4. UNCHANGED <<request, received>>
    BY <1>7 DEF UpdateCommand, ue5
  <2> QED BY <1>1, <1>7, <2>1, <2>2, <2>3, <2>4 DEF UpdateCommand
<1>8. ASSUME NEW t \in Turns, Reply(t) \/ Mirror(t) PROVE KeyInv' /\ HoldsCommand'
  <2>1. /\ turn'[t].cmd = turn[t].cmd
        /\ turn'[t].pc \in {"done", "mirror"}
        /\ \A u \in Turns \ {t} : turn'[u] = turn[u]
    <3>1. CASE turn' = [turn EXCEPT ![t].pc = "done"]
      BY <1>0, <3>1 DEF TurnRecord
    <3>2. ASSUME NEW i \in LatestActive,
                 turn' = [turn EXCEPT ![t].pc = "mirror", ![t].at = i,
                                      ![t].held = runs[i].status, ![t].kpis = runs[i].kpis]
          PROVE  /\ turn'[t].cmd = turn[t].cmd
                 /\ turn'[t].pc \in {"done", "mirror"}
                 /\ \A u \in Turns \ {t} : turn'[u] = turn[u]
      BY <1>0, <3>2 DEF TurnRecord
    <3> QED BY <1>8, <3>1, <3>2 DEF Reply, Mirror
  <2> QED BY <1>1, <1>8, <2>1 DEF Reply, Mirror, ue5
<1>9. ASSUME UNCHANGED <<request, turn, commands, received>> PROVE KeyInv' /\ HoldsCommand'
  BY <1>1, <1>9
<1>10. ASSUME NEW e \in events, HandleCompletionEvent(e) PROVE KeyInv' /\ HoldsCommand'
  <2>1. e.cmd \in Turns
    BY DEF TypeOK, Event
  <2>2. commands[e.cmd] # "none"
    BY DEF SourcesReceived
  <2>3. /\ commands'[e.cmd] = "completed"
        /\ \A c \in Turns \ {e.cmd} : commands'[c] = commands[c]
    BY <1>0, <1>10, <2>1 DEF HandleCompletionEvent
  <2>4. UNCHANGED <<request, turn, received>>
    BY <1>10 DEF HandleCompletionEvent, ue5
  <2> QED BY <1>1, <2>1, <2>2, <2>3, <2>4
<1> QED
  BY <1>3, <1>4, <1>5, <1>6, <1>7, <1>8, <1>9, <1>10
  DEF Next, TurnStep, EventStep, ReachStation, GameThread, RunEnds, LoseEvent, FindRun,
      UpdateRunStatus, GenerateReport, ReportFails, vars, backend, ue5

-----------------------------------------------------------------------------
(* No success without a delivery *)

LEMMA InitDelivery == Init => DeliveryInv
<1> SUFFICES ASSUME Init PROVE DeliveryInv
  OBVIOUS
<1>1. inbox \in Seq(received)
  BY DEF Init
<1> QED BY <1>1 DEF Init, DeliveryInv, SourcesReceived, AcceptedWasReceived

\* Everything UE5 has in hand was received, and so is what it answers to.
LEMMA HandleReceived ==
  ASSUME TypeOK, SourcesReceived, NEW c \in received, Handle(c)
  PROVE  /\ sim'.run \in received \cup {NoCmd}
         /\ tasks' \subseteq received
         /\ \A e \in events' : e.cmd \in received
<1> USE DEF SourcesReceived
<1>1. \A e \in Emitted(c) : e.cmd \in received
  BY DEF Emitted
<1>2. EndRun => /\ sim'.run = NoCmd
                /\ tasks' = {}
                /\ \A e \in events' : e.cmd \in received
  BY DEF EndRun, NoActiveRun, Emitted
<1>3. sim'.run \in received \cup {NoCmd}
  <2>1. CASE sim' = [sim EXCEPT !.paused = (Kind(c) = "pause")]
    <3>1. sim'.run = sim.run
      BY <2>1 DEF TypeOK
    <3> QED BY <3>1
  <2>2. CASE sim' = sim \/ sim' = [run |-> c, paused |-> FALSE]
    BY <2>2
  <2>3. CASE EndRun
    BY <1>2, <2>3
  <2> QED BY <2>1, <2>2, <2>3 DEF Handle
<1>4. tasks' \subseteq received
  BY <1>2 DEF Handle
<1>5. \A e \in events' : e.cmd \in received
  <2>1. events' \in {events, Emitted(c)} \/ EndRun
    BY DEF Handle
  <2> QED BY <1>1, <1>2, <2>1
<1> QED BY <1>3, <1>4, <1>5

LEMMA StepDelivery ==
  ASSUME TypeOK, KeyInv, DeliveryInv, [Next]_vars
  PROVE  DeliveryInv'
<1> USE DEF DeliveryInv, SourcesReceived, AcceptedWasReceived
<1>0. /\ turn \in [Turns -> TurnRecord]
      /\ commands \in [Turns -> Statuses \cup {"none"}]
      /\ received \subseteq Turns
  BY DEF TypeOK
<1> DEFINE Succeeds(t) == \/ turn[t].pc \in {"sent", "verify"}
                          \/ turn[t].pc = "update" /\ turn[t].status \in {"accepted", "completed"}
\* Steps of a turn other than the delivery itself.
<1>1. ASSUME NEW t \in Turns,
             UNCHANGED <<ue5, events>>,
             \A u \in Turns \ {t} : turn'[u] = turn[u],
             Succeeds(t)' => t \in received,
             \A c \in Turns : commands'[c] \in {"accepted", "completed"} => c \in received
      PROVE  DeliveryInv'
  BY <1>1 DEF ue5
<1>2. ASSUME NEW t \in Turns, LookUp(t) \/ SaveCommand(t) PROVE DeliveryInv'
  <2>1. CASE ReuseCommand(t)
    <3>1. PICK c \in SameKey(t) : turn' = [turn EXCEPT ![t] = Reused(t, c)]
      BY <2>1 DEF ReuseCommand
    <3>2. turn'[t].pc = "reply" /\ \A u \in Turns \ {t} : turn'[u] = turn[u]
      BY <1>0, <3>1 DEF Reused, TurnRecord
    <3> QED BY <1>1, <1>2, <2>1, <3>2 DEF LookUp, SaveCommand, ReuseCommand
  <2>2. CASE turn' = [turn EXCEPT ![t].pc = "save"] /\ UNCHANGED commands
    <3>1. turn'[t].pc = "save" /\ \A u \in Turns \ {t} : turn'[u] = turn[u]
      BY <1>0, <2>2 DEF TurnRecord
    <3> QED BY <1>1, <1>2, <2>2, <3>1 DEF LookUp, SaveCommand
  <2>3. CASE /\ commands' = [commands EXCEPT ![t] = "pending"]
             /\ turn' = [turn EXCEPT ![t].pc = "send", ![t].cmd = t]
    <3>1. turn'[t].pc = "send" /\ \A u \in Turns \ {t} : turn'[u] = turn[u]
      BY <1>0, <2>3 DEF TurnRecord
    <3>2. \A c \in Turns : commands'[c] \in {"accepted", "completed"} => c \in received
      BY <1>0, <2>3
    <3> QED BY <1>1, <1>2, <3>1, <3>2 DEF LookUp, SaveCommand
  <2> QED BY <1>2, <2>1, <2>2, <2>3 DEF LookUp, SaveCommand
<1>3. ASSUME NEW t \in Turns, Post(t) PROVE DeliveryInv'
  <2>1. \A u \in Turns \ {t} : turn'[u] = turn[u]
    BY <1>0, <1>3 DEF Post
  <2>2. received' = received \cup {t} /\ UNCHANGED <<commands, sim, tasks, events>>
    BY <1>3 DEF Post
  <2>3. inbox' \in Seq(received')
    <3>1. inbox \in Seq(received')
      BY <2>2
    <3>2. t \in received'
      BY <2>2
    <3> QED BY <1>3, <3>1, <3>2 DEF Post
  <2> QED BY <2>1, <2>2, <2>3
<1>4. ASSUME NEW t \in Turns, HttpError(t) PROVE DeliveryInv'
  <2>1. /\ turn'[t].pc = "update" /\ turn'[t].status = "failed"
        /\ \A u \in Turns \ {t} : turn'[u] = turn[u]
    BY <1>0, <1>4 DEF HttpError, HttpErrorStatus, Settled, TurnRecord
  <2> QED BY <1>1, <1>4, <2>1 DEF HttpError
<1>5. ASSUME NEW t \in Turns, Answered(t) \/ WaitUntilStopped(t) PROVE DeliveryInv'
  <2>1. turn[t].pc \in {"sent", "verify"}
    BY <1>5 DEF Answered, WaitUntilStopped
  <2>2. \A u \in Turns \ {t} : turn'[u] = turn[u]
    BY <1>0, <1>5 DEF Answered, WaitUntilStopped, Settled
  <2> QED BY <1>1, <1>5, <2>1, <2>2 DEF Answered, WaitUntilStopped
<1>6. ASSUME NEW t \in Turns, UpdateCommand(t) PROVE DeliveryInv'
  <2>1. turn[t].cmd = t
    BY <1>6 DEF UpdateCommand, KeyInv, SendsItsOwn
  <2>2. turn'[t].pc = "reply" /\ \A u \in Turns \ {t} : turn'[u] = turn[u]
    BY <1>0, <1>6 DEF UpdateCommand, TurnRecord
  <2>3. \A c \in Turns : commands'[c] \in {"accepted", "completed"} => c \in received
    BY <1>0, <1>6, <2>1 DEF UpdateCommand
  <2> QED BY <1>1, <1>6, <2>2, <2>3 DEF UpdateCommand
<1>7. ASSUME NEW t \in Turns, Reply(t) \/ Mirror(t) PROVE DeliveryInv'
  <2>1. /\ turn'[t].pc \in {"done", "mirror"}
        /\ \A u \in Turns \ {t} : turn'[u] = turn[u]
    <3>1. CASE turn' = [turn EXCEPT ![t].pc = "done"]
      BY <1>0, <3>1 DEF TurnRecord
    <3>2. ASSUME NEW i \in LatestActive,
                 turn' = [turn EXCEPT ![t].pc = "mirror", ![t].at = i,
                                      ![t].held = runs[i].status, ![t].kpis = runs[i].kpis]
          PROVE  /\ turn'[t].pc \in {"done", "mirror"}
                 /\ \A u \in Turns \ {t} : turn'[u] = turn[u]
      BY <1>0, <3>2 DEF TurnRecord
    <3> QED BY <1>7, <3>1, <3>2 DEF Reply, Mirror
  <2> QED BY <1>1, <1>7, <2>1 DEF Reply, Mirror
<1>8. CASE GameThread
  <2> DEFINE c == Head(inbox)
  <2>1. inbox' \in Seq(received) /\ c \in received
    BY <1>8 DEF GameThread
  <2>2. UNCHANGED <<turn, commands, received>>
    BY <1>8 DEF GameThread, backend
  <2>3. Handle(c)
    BY <1>8 DEF GameThread
  <2> HIDE DEF c
  <2> QED BY <2>1, <2>2, <2>3, HandleReceived
<1>9. ASSUME NEW t \in Turns, ReachStation(t) PROVE DeliveryInv'
  BY <1>9 DEF ReachStation, Emitted, backend
<1>10. CASE RunEnds
  BY <1>10 DEF RunEnds, EndRun, NoActiveRun, Emitted, backend
\* Steps of an event keep its command.
<1>11. ASSUME NEW e \in events, LoseEvent(e) \/ GenerateReport(e) \/ ReportFails(e) PROVE DeliveryInv'
  BY <1>11 DEF LoseEvent, GenerateReport, ReportFails, backend, ue5
<1>12. ASSUME NEW e \in events, NEW stage, NEW i PROVE \A f \in Advanced(e, stage, i) : f.cmd \in received
  <2>1. [[e EXCEPT !.stage = stage] EXCEPT !.run = i].cmd = e.cmd
    BY DEF TypeOK, Event
  <2> QED BY <2>1 DEF Advanced
<1>13. ASSUME NEW e \in events, FindRun(e) \/ UpdateRunStatus(e) PROVE DeliveryInv'
  <2>1. \A f \in events' : f.cmd \in received
    BY <1>12, <1>13 DEF FindRun, UpdateRunStatus
  <2> QED BY <1>13, <2>1 DEF FindRun, UpdateRunStatus, backend, ue5
<1>14. ASSUME NEW e \in events, HandleCompletionEvent(e) PROVE DeliveryInv'
  <2>1. \A f \in events' : f.cmd \in received
    BY <1>12, <1>14 DEF HandleCompletionEvent
  <2>2. \A c \in Turns : commands'[c] \in {"accepted", "completed"} => c \in received
    BY <1>0, <1>14 DEF HandleCompletionEvent
  <2> QED BY <1>14, <2>1, <2>2 DEF HandleCompletionEvent, ue5
<1>15. CASE UNCHANGED vars
  BY <1>15 DEF vars, backend, ue5
<1> QED
  BY <1>2, <1>3, <1>4, <1>5, <1>6, <1>7, <1>8, <1>9, <1>10, <1>11, <1>13, <1>14, <1>15
  DEF Next, TurnStep, EventStep

-----------------------------------------------------------------------------
(* What became of a command *)

\* From its delivery on a command is in at most one place: the queue of the
\* game thread, the active run, the stations' work, an event, or the reports.
Queued == {inbox[i] : i \in DOMAIN inbox}
Running == {sim.run} \ {NoCmd}
Signalled == {e.cmd : e \in events}
Reported == {c \in Turns : reports[c] # 0} \cup unreported

Apart(q, r, k, s, p) ==
    /\ q \cap r = {} /\ q \cap k = {} /\ q \cap s = {} /\ q \cap p = {}
    /\ r \cap k = {} /\ r \cap s = {} /\ r \cap p = {}
    /\ k \cap s = {} /\ k \cap p = {}
    /\ s \cap p = {}

QueuedOnce == \A i, j \in DOMAIN inbox : inbox[i] = inbox[j] => i = j
SignalledOnce == \A e, f \in events : e.cmd = f.cmd => e = f

\* A turn that has not sent its command has not had it received.
Unsent == \A t \in Turns : turn[t].pc \in {"idle", "save", "send"} => t \notin received

PlaceInv ==
    /\ Unsent
    /\ QueuedOnce
    /\ SignalledOnce
    /\ Apart(Queued, Running, tasks, Signalled, Reported)
    /\ Reported \subseteq received
    /\ ReportedOnce

\* Only start commands have runs, and only station commands are worked on, so
\* that the event of a start command means that its run has ended.
RunsOfStarts == \A i \in DOMAIN runs : Kind(runs[i].cmd) = "start"
TasksAreTasks == \A c \in tasks : Kind(c) = "task"
SignalsOfStarts == \A e \in events : Kind(e.cmd) = "start" => e.cmd \in finished

\* The handler of an event writes the run of the event's own command.
FoundItsOwn ==
    \A e \in events : e.stage = "found" => e.run \in DOMAIN runs /\ runs[e.run].cmd = e.cmd

\* A stale copy of a run was of an active one, and tells the truth of its KPIs.
CopiesAreTrue ==
    \A t \in Turns : turn[t].pc = "mirror" =>
        /\ turn[t].at \in DOMAIN runs
        /\ turn[t].held \in {"running", "paused"}
        /\ turn[t].kpis => runs[turn[t].at].cmd \in finished

TruthInv ==
    /\ CompletedRunsFinished /\ RunsOfStarts /\ TasksAreTasks
    /\ SignalsOfStarts /\ FoundItsOwn /\ CopiesAreTrue

LEMMA InitPlaces == Init => PlaceInv
  BY DEF Init, PlaceInv, Unsent, QueuedOnce, SignalledOnce, Apart, Queued, Running,
         Signalled, Reported, ReportedOnce

\* The queue: what is taken from it is no longer there, and what is put there
\* for the first time is there once.
LEMMA QueueTaken ==
  ASSUME NEW q \in Seq(Turns), q # << >>,
         \A i, j \in DOMAIN q : q[i] = q[j] => i = j
  PROVE  /\ \A i, j \in DOMAIN Tail(q) : Tail(q)[i] = Tail(q)[j] => i = j
         /\ Head(q) \in {q[i] : i \in DOMAIN q}
         /\ {Tail(q)[i] : i \in DOMAIN Tail(q)} \subseteq {q[i] : i \in DOMAIN q} \ {Head(q)}
<1>1. /\ DOMAIN Tail(q) = 1 .. (Len(q) - 1)
      /\ \A i \in 1 .. (Len(q) - 1) : Tail(q)[i] = q[i + 1]
      /\ DOMAIN q = 1 .. Len(q) /\ Len(q) \in Nat /\ Len(q) > 0 /\ Head(q) = q[1]
  BY HeadTailProperties, LenProperties
<1>2. \A i \in DOMAIN Tail(q) : i + 1 \in DOMAIN q /\ 1 \in DOMAIN q /\ i + 1 # 1 /\ i \in Int
  BY <1>1
<1>3. \A i, j \in DOMAIN Tail(q) : i + 1 = j + 1 => i = j
  BY <1>2
<1> QED BY <1>1, <1>2, <1>3

LEMMA QueuePut ==
  ASSUME NEW q \in Seq(Turns), NEW t \in Turns, t \notin {q[i] : i \in DOMAIN q},
         \A i, j \in DOMAIN q : q[i] = q[j] => i = j
  PROVE  LET p == Append(q, t) IN
         /\ \A i, j \in DOMAIN p : p[i] = p[j] => i = j
         /\ {p[i] : i \in DOMAIN p} \subseteq {q[i] : i \in DOMAIN q} \cup {t}
<1>1. /\ DOMAIN Append(q, t) = 1 .. (Len(q) + 1)
      /\ \A i \in 1 .. Len(q) : Append(q, t)[i] = q[i]
      /\ Append(q, t)[Len(q) + 1] = t
      /\ DOMAIN q = 1 .. Len(q) /\ Len(q) \in Nat
  BY AppendProperties, LenProperties
<1>2. \A i \in DOMAIN Append(q, t) : i \in DOMAIN q \/ i = Len(q) + 1
  BY <1>1
<1> QED BY <1>1, <1>2

\* A command that has no event yet is given one.
LEMMA EmittedOnce ==
  ASSUME SignalledOnce, NEW c, c \notin Signalled, events' = Emitted(c)
  PROVE  SignalledOnce' /\ Signalled' = Signalled \cup {c}
<1>1. [cmd |-> c, stage |-> "sent", run |-> 0].cmd = c
  OBVIOUS
<1>2. SignalledOnce'
  BY <1>1 DEF Emitted, SignalledOnce, Signalled
<1>3. Signalled' = Signalled \cup {c}
  BY <1>1 DEF Emitted, Signalled
<1> QED BY <1>2, <1>3

\* An event that goes to another stage, or disappears.
LEMMA AdvancedOnce ==
  ASSUME TypeOK, SignalledOnce, NEW e \in events, NEW stage, NEW i, events' = Advanced(e, stage, i)
  PROVE  SignalledOnce' /\ Signalled' = Signalled
<1> DEFINE f == [e EXCEPT !.stage = stage, !.run = i]
<1>1. f.cmd = e.cmd /\ events' = (events \ {e}) \cup {f}
  BY DEF Advanced, TypeOK, Event
<1> HIDE DEF f
<1> QED BY <1>1 DEF SignalledOnce, Signalled

LEMMA DroppedOnce ==
  ASSUME SignalledOnce, NEW e \in events, events' = events \ {e}
  PROVE  SignalledOnce' /\ Signalled' = Signalled \ {e.cmd}
  BY DEF SignalledOnce, Signalled

\* The places when the active run ends while the queue may lose entries.
LEMMA EndRunApart ==
  ASSUME PlaceInv, EndRun, Queued' \subseteq Queued, UNCHANGED <<reports, unreported>>
  PROVE  SignalledOnce' /\ Apart(Queued, Running, tasks, Signalled, Reported)'
<1>1. sim.run \in Running
  BY DEF EndRun, Running
<1>2. /\ sim.run \notin Signalled /\ sim.run \notin Queued
      /\ sim.run \notin tasks /\ sim.run \notin Reported
  BY <1>1 DEF PlaceInv, Apart
<1>3. SignalledOnce' /\ Signalled' = Signalled \cup {sim.run}
  BY <1>2, EmittedOnce DEF EndRun, PlaceInv
<1>4. Running' = {} /\ tasks' = {} /\ Reported' = Reported
  BY DEF EndRun, NoActiveRun, Running, Reported
<1>5. Apart(Queued, Running, tasks, Signalled, Reported)
  BY DEF PlaceInv
<1> DEFINE d == sim.run
<1>6. /\ Queued' \cap {d} = {} /\ Running' \cap {d} = {}
      /\ tasks' \cap {d} = {} /\ Reported' \cap {d} = {}
  BY <1>2, <1>4
<1>7. Apart(Queued' \cap {d}, Running' \cap {d}, tasks' \cap {d}, Signalled' \cap {d}, Reported' \cap {d})
  BY <1>6 DEF Apart
<1>8. /\ Queued' \subseteq Queued \cup {d} /\ Running' \subseteq Running \cup {d}
      /\ tasks' \subseteq tasks \cup {d} /\ Signalled' \subseteq Signalled \cup {d}
      /\ Reported' \subseteq Reported \cup {d}
  BY <1>3, <1>4
<1> HIDE DEF d
<1>9. Apart(Queued', Running', tasks', Signalled', Reported')
  BY <1>5, <1>7, <1>8 DEF Apart
<1> QED BY <1>3, <1>9 DEF Apart

\* The game thread takes a command from the queue.
LEMMA HandleApart ==
  ASSUME TypeOK, PlaceInv, NEW c \in Queued, c # NoCmd, Handle(c),
         Queued' \subseteq Queued \ {c}, UNCHANGED <<reports, unreported>>
  PROVE  SignalledOnce' /\ Apart(Queued, Running, tasks, Signalled, Reported)'
<1>1. c \notin Running /\ c \notin tasks /\ c \notin Signalled /\ c \notin Reported
  BY DEF PlaceInv, Apart
<1>2. CASE EndRun
  BY <1>2, EndRunApart
<1>3. CASE ~EndRun
  <2>1. \/ /\ Running' \subseteq Running \cup {c} /\ UNCHANGED <<tasks, events>>
        \/ /\ Running' \subseteq Running /\ tasks' \subseteq tasks /\ events' \in {events, Emitted(c)}
        \/ /\ Running' \subseteq Running /\ tasks' \subseteq tasks \cup {c} /\ UNCHANGED events
    <3>1. sim' = [run |-> c, paused |-> FALSE] => Running' = {c}
      BY DEF Running
    <3>2. sim' = [sim EXCEPT !.paused = (Kind(c) = "pause")] => Running' = Running
      BY DEF Running, TypeOK
    <3>3. sim' = sim => Running' = Running
      BY DEF Running
    <3> QED BY <1>3, <3>1, <3>2, <3>3 DEF Handle
  <2>2. (SignalledOnce' /\ Signalled' = Signalled) \/ events' = Emitted(c)
    BY <2>1 DEF PlaceInv, SignalledOnce, Signalled
  <2>3. SignalledOnce' /\ Signalled' \subseteq Signalled \cup {c}
    BY <1>1, <2>2, EmittedOnce DEF PlaceInv
  <2>4. Reported' = Reported
    BY DEF Reported
  <2>5. events' = events => Signalled' = Signalled
    BY DEF Signalled
  <2>6. /\ Queued' \cap {c} = {} /\ Reported' \cap {c} = {}
        /\ \/ tasks' \cap {c} = {} /\ Signalled' \cap {c} = {}
           \/ Running' \cap {c} = {} /\ tasks' \cap {c} = {}
           \/ Running' \cap {c} = {} /\ Signalled' \cap {c} = {}
    BY <1>1, <2>1, <2>4, <2>5
  <2>7. Apart(Queued' \cap {c}, Running' \cap {c}, tasks' \cap {c}, Signalled' \cap {c}, Reported' \cap {c})
    BY <2>6 DEF Apart
  <2>8. /\ Queued' \subseteq Queued \cup {c} /\ Running' \subseteq Running \cup {c}
        /\ tasks' \subseteq tasks \cup {c} /\ Signalled' \subseteq Signalled \cup {c}
        /\ Reported' \subseteq Reported \cup {c}
    BY <2>1, <2>3, <2>4
  <2>9. Apart(Queued, Running, tasks, Signalled, Reported)
    BY DEF PlaceInv
  <2>10. Apart(Queued', Running', tasks', Signalled', Reported')
    BY <2>7, <2>8, <2>9 DEF Apart
  <2> QED BY <2>3, <2>10 DEF Apart
<1> QED BY <1>2, <1>3

\* A turn other than the sending one leaves every place alone.
LEMMA TurnPlaces ==
  ASSUME TypeOK, PlaceInv, UNCHANGED <<ue5, events, reports, unreported>>, NEW t \in Turns,
         \A u \in Turns \ {t} : turn'[u] = turn[u],
         turn'[t].pc \in {"idle", "save", "send"} => turn[t].pc \in {"idle", "save", "send"}
  PROVE  PlaceInv'
<1>1. Unsent'
  BY DEF PlaceInv, Unsent, ue5
<1>2. UNCHANGED <<inbox, received, sim, tasks, events, reports, unreported>>
  BY DEF ue5
<1>3. UNCHANGED <<Queued, Running, tasks, Signalled, Reported, QueuedOnce, SignalledOnce, ReportedOnce, received>>
  BY <1>2 DEF Queued, Running, Signalled, Reported, QueuedOnce, SignalledOnce, ReportedOnce
<1> QED BY <1>1, <1>3 DEF PlaceInv, Apart

LEMMA StepPlaces ==
  ASSUME TypeOK, SourcesReceived, PlaceInv, [Next]_vars
  PROVE  PlaceInv'
<1>0. /\ turn \in [Turns -> TurnRecord]
      /\ inbox \in Seq(Turns) /\ received \subseteq Turns
      /\ reports \in [Turns -> Nat]
  BY DEF TypeOK
<1>1. ASSUME NEW t \in Turns, LookUp(t) \/ SaveCommand(t) PROVE PlaceInv'
  <2>1. CASE ReuseCommand(t)
    <3>1. PICK c \in SameKey(t) : turn' = [turn EXCEPT ![t] = Reused(t, c)]
      BY <2>1 DEF ReuseCommand
    <3>2. turn'[t].pc = "reply" /\ \A u \in Turns \ {t} : turn'[u] = turn[u]
      BY <1>0, <3>1 DEF Reused, TurnRecord
    <3> QED BY <1>1, <3>2, TurnPlaces DEF LookUp, SaveCommand
  <2>2. CASE ~ReuseCommand(t)
    <3>1. /\ turn[t].pc \in {"idle", "save", "send"}
          /\ \A u \in Turns \ {t} : turn'[u] = turn[u]
      BY <1>0, <1>1, <2>2 DEF LookUp, SaveCommand
    <3> QED BY <1>1, <3>1, TurnPlaces DEF LookUp, SaveCommand
  <2> QED BY <2>1, <2>2
<1>2. ASSUME NEW t \in Turns, Post(t) PROVE PlaceInv'
  <2>1. t \notin received
    BY <1>2 DEF Post, PlaceInv, Unsent
  <2>2. Queued \subseteq received
    BY <1>0 DEF SourcesReceived, Queued
  <2>3. /\ t \notin Queued /\ t \notin Running /\ t \notin tasks
        /\ t \notin Signalled /\ t \notin Reported
    BY <2>1, <2>2, NoCmdAssumption DEF SourcesReceived, PlaceInv, Running, Signalled
  <2>4. QueuedOnce' /\ Queued' \subseteq Queued \cup {t}
    BY <1>0, <1>2, <2>3, QueuePut DEF Post, QueuedOnce, Queued, PlaceInv
  <2>5. UNCHANGED <<sim, tasks, events, reports, unreported>> /\ received' = received \cup {t}
    BY <1>2 DEF Post
  <2>6. UNCHANGED <<Running, tasks, Signalled, Reported, SignalledOnce, ReportedOnce>>
    BY <2>5 DEF Running, Signalled, Reported, SignalledOnce, ReportedOnce
  <2>7. turn'[t].pc = "sent" /\ \A u \in Turns \ {t} : turn'[u] = turn[u]
    BY <1>0, <1>2 DEF Post, TurnRecord
  <2>8. Unsent'
    BY <2>5, <2>7 DEF PlaceInv, Unsent
  <2>9. Apart(Queued', Running', tasks', Signalled', Reported')
    <3>1. Apart(Queued' \cap {t}, Running' \cap {t}, tasks' \cap {t}, Signalled' \cap {t}, Reported' \cap {t})
      BY <2>3, <2>6 DEF Apart
    <3>2. Apart(Queued, Running, tasks, Signalled, Reported)
      BY DEF PlaceInv
    <3>3. /\ Queued' \subseteq Queued \cup {t} /\ Running' \subseteq Running \cup {t}
          /\ tasks' \subseteq tasks \cup {t} /\ Signalled' \subseteq Signalled \cup {t}
          /\ Reported' \subseteq Reported \cup {t}
      BY <2>4, <2>6
    <3> QED BY <3>1, <3>2, <3>3 DEF Apart
  <2> QED BY <2>4, <2>5, <2>6, <2>8, <2>9 DEF PlaceInv, Apart
<1>3. ASSUME NEW t \in Turns,
             HttpError(t) \/ Answered(t) \/ WaitUntilStopped(t) \/ UpdateCommand(t)
      PROVE  PlaceInv'
  <2>1. \/ turn' = [turn EXCEPT ![t].pc = "verify"]
        \/ turn' = [turn EXCEPT ![t].pc = "reply"]
        \/ \E status \in Statuses : turn' = Settled(t, status)
    BY <1>3 DEF HttpError, HttpErrorStatus, Answered, WaitUntilStopped, UpdateCommand, Statuses
  <2>2. turn'[t].pc \in {"verify", "reply", "update"} /\ \A u \in Turns \ {t} : turn'[u] = turn[u]
    BY <1>0, <2>1 DEF TurnRecord, Settled
  <2> QED BY <1>3, <2>2, TurnPlaces DEF HttpError, Answered, WaitUntilStopped, UpdateCommand
<1>4. ASSUME NEW t \in Turns, Reply(t) \/ Mirror(t) PROVE PlaceInv'
  <2>1. /\ turn'[t].pc \in {"done", "mirror"}
        /\ \A u \in Turns \ {t} : turn'[u] = turn[u]
    <3>1. CASE turn' = [turn EXCEPT ![t].pc = "done"]
      BY <1>0, <3>1 DEF TurnRecord
    <3>2. ASSUME NEW i \in LatestActive,
                 turn' = [turn EXCEPT ![t].pc = "mirror", ![t].at = i,
                                      ![t].held = runs[i].status, ![t].kpis = runs[i].kpis]
          PROVE  /\ turn'[t].pc \in {"done", "mirror"}
                 /\ \A u \in Turns \ {t} : turn'[u] = turn[u]
      BY <1>0, <3>2 DEF TurnRecord
    <3> QED BY <1>4, <3>1, <3>2 DEF Reply, Mirror
  <2> QED BY <1>4, <2>1, TurnPlaces DEF Reply, Mirror
<1>5. ASSUME UNCHANGED <<turn, received, reports, unreported>>,
             QueuedOnce', SignalledOnce',
             Apart(Queued, Running, tasks, Signalled, Reported)'
      PROVE  PlaceInv'
  <2>1. Unsent' /\ Reported' \subseteq received' /\ ReportedOnce'
    BY <1>5 DEF PlaceInv, Unsent, Reported, ReportedOnce
  <2> QED BY <1>5, <2>1 DEF PlaceInv, Apart
<1>6. CASE GameThread
  <2>1. inbox # << >> /\ inbox' = Tail(inbox) /\ Handle(Head(inbox))
    BY <1>6 DEF GameThread
  <2>2. UNCHANGED <<turn, received, reports, unreported>>
    BY <1>6 DEF GameThread, backend
  <2>3. QueuedOnce' /\ Head(inbox) \in Queued /\ Queued' \subseteq Queued \ {Head(inbox)}
    BY <1>0, <2>1, QueueTaken DEF QueuedOnce, Queued, PlaceInv
  <2>4. Head(inbox) # NoCmd
    BY <1>0, <2>1, NoCmdAssumption
  <2>5. SignalledOnce' /\ Apart(Queued, Running, tasks, Signalled, Reported)'
    BY <2>1, <2>2, <2>3, <2>4, HandleApart
  <2> QED BY <1>5, <2>2, <2>3, <2>5
<1>7. CASE RunEnds
  <2>1. EndRun /\ UNCHANGED <<turn, received, reports, unreported, inbox>>
    BY <1>7 DEF RunEnds, backend
  <2>2. Queued' = Queued /\ QueuedOnce'
    BY <2>1 DEF Queued, QueuedOnce, PlaceInv
  <2>3. SignalledOnce' /\ Apart(Queued, Running, tasks, Signalled, Reported)'
    BY <2>1, <2>2, EndRunApart
  <2> QED BY <1>5, <2>1, <2>2, <2>3
<1>8. ASSUME NEW c \in Turns, ReachStation(c) PROVE PlaceInv'
  <2>1. /\ c \in tasks /\ tasks' = tasks \ {c} /\ events' = Emitted(c)
        /\ UNCHANGED <<turn, received, reports, unreported, inbox, sim>>
    BY <1>8 DEF ReachStation, backend
  <2>2. c \notin Queued /\ c \notin Running /\ c \notin Signalled /\ c \notin Reported
    BY <2>1 DEF PlaceInv, Apart
  <2>3. SignalledOnce' /\ Signalled' = Signalled \cup {c}
    BY <2>1, <2>2, EmittedOnce DEF PlaceInv
  <2>4. UNCHANGED <<Queued, Running, Reported, QueuedOnce>>
    BY <2>1 DEF Queued, Running, Reported, QueuedOnce
  <2>5. Apart(Queued', Running', tasks', Signalled', Reported')
    <3>1. Apart(Queued' \cap {c}, Running' \cap {c}, tasks' \cap {c}, Signalled' \cap {c}, Reported' \cap {c})
      BY <2>1, <2>2, <2>4 DEF Apart
    <3>2. Apart(Queued, Running, tasks, Signalled, Reported)
      BY DEF PlaceInv
    <3>3. /\ Queued' \subseteq Queued \cup {c} /\ Running' \subseteq Running \cup {c}
          /\ tasks' \subseteq tasks \cup {c} /\ Signalled' \subseteq Signalled \cup {c}
          /\ Reported' \subseteq Reported \cup {c}
      BY <2>1, <2>3, <2>4
    <3> QED BY <3>1, <3>2, <3>3 DEF Apart
  <2>6. Apart(Queued, Running, tasks, Signalled, Reported)'
    BY <2>5 DEF Apart
  <2> QED BY <1>5, <2>1, <2>3, <2>4, <2>6 DEF PlaceInv
\* Events on their way: the places of UE5 stay as they are.
<1>9. ASSUME UNCHANGED <<turn, ue5, reports, unreported>>, SignalledOnce', Signalled' \subseteq Signalled
      PROVE  PlaceInv'
  <2>1. UNCHANGED <<Queued, Running, tasks, Reported, QueuedOnce, received>>
    BY <1>9 DEF Queued, Running, Reported, QueuedOnce, ue5
  <2>2. Apart(Queued', Running', tasks', Signalled', Reported')
    BY <1>9, <2>1 DEF PlaceInv, Apart
  <2> QED BY <1>5, <1>9, <2>1, <2>2 DEF PlaceInv, Apart
<1>10. ASSUME NEW e \in events, LoseEvent(e) PROVE PlaceInv'
  <2>1. events' = events \ {e} /\ UNCHANGED <<turn, ue5, reports, unreported>>
    BY <1>10 DEF LoseEvent, backend
  <2> QED BY <1>9, <2>1, DroppedOnce DEF PlaceInv
<1>11. ASSUME NEW e \in events, FindRun(e) \/ UpdateRunStatus(e) \/ HandleCompletionEvent(e)
       PROVE PlaceInv'
  <2>1. UNCHANGED <<turn, ue5, reports, unreported>>
    BY <1>11 DEF FindRun, UpdateRunStatus, HandleCompletionEvent, backend
  <2>2. events' = events \ {e} \/ \E stage, i : events' = Advanced(e, stage, i)
    BY <1>11 DEF FindRun, UpdateRunStatus, HandleCompletionEvent
  <2> QED BY <1>9, <2>1, <2>2, DroppedOnce, AdvancedOnce DEF PlaceInv
<1>12. ASSUME NEW e \in events, GenerateReport(e) \/ ReportFails(e) PROVE PlaceInv'
  <2> DEFINE d == e.cmd
  <2>1. /\ events' = events \ {e}
        /\ \/ reports' = [reports EXCEPT ![d] = @ + 1] /\ unreported' = unreported
           \/ reports' = reports /\ unreported' = unreported \cup {d}
        /\ UNCHANGED <<turn, inbox, received, sim, tasks>>
    BY <1>12 DEF GenerateReport, ReportFails, backend, ue5
  <2>2. d \in Signalled /\ d \in Turns /\ d \in received
    BY DEF Signalled, TypeOK, Event, SourcesReceived
  <2>3. d \notin Queued /\ d \notin Running /\ d \notin tasks /\ d \notin Reported
    BY <2>2 DEF PlaceInv, Apart
  <2>4. SignalledOnce' /\ Signalled' = Signalled \ {d}
    BY <2>1, DroppedOnce DEF PlaceInv
  <2> HIDE DEF d
  <2>5. reports[d] = 0 /\ d \notin unreported
    BY <2>2, <2>3 DEF Reported
  <2>6. /\ \A c \in Turns \ {d} : reports'[c] = reports[c]
        /\ \/ reports'[d] = 1 /\ unreported' = unreported
           \/ reports'[d] = 0 /\ unreported' = unreported \cup {d}
    BY <1>0, <2>1, <2>2, <2>5
  <2>7. Reported' = Reported \cup {d}
    BY <2>2, <2>6 DEF Reported
  <2>8. ReportedOnce'
    BY <2>2, <2>5, <2>6 DEF ReportedOnce, PlaceInv
  <2>9. UNCHANGED <<Queued, Running, tasks, QueuedOnce, Unsent, received>>
    BY <2>1 DEF Queued, Running, QueuedOnce, Unsent
  <2>10. Apart(Queued', Running', tasks', Signalled', Reported')
    <3>1. Apart(Queued' \cap {d}, Running' \cap {d}, tasks' \cap {d}, Signalled' \cap {d}, Reported' \cap {d})
      BY <2>3, <2>4, <2>9 DEF Apart
    <3>2. Apart(Queued, Running, tasks, Signalled, Reported)
      BY DEF PlaceInv
    <3>3. /\ Queued' \subseteq Queued \cup {d} /\ Running' \subseteq Running \cup {d}
          /\ tasks' \subseteq tasks \cup {d} /\ Signalled' \subseteq Signalled \cup {d}
          /\ Reported' \subseteq Reported \cup {d}
      BY <2>4, <2>7, <2>9
    <3> QED BY <3>1, <3>2, <3>3 DEF Apart
  <2> QED BY <2>2, <2>4, <2>7, <2>8, <2>9, <2>10 DEF PlaceInv, Apart
<1>13. CASE UNCHANGED vars
  <2>1. UNCHANGED <<turn, ue5, reports, unreported, events>>
    BY <1>13 DEF vars, backend
  <2>2. SignalledOnce' /\ Signalled' = Signalled
    BY <2>1 DEF SignalledOnce, Signalled, PlaceInv
  <2> QED BY <1>9, <2>1, <2>2
<1> QED
  BY <1>1, <1>2, <1>3, <1>4, <1>6, <1>7, <1>8, <1>10, <1>11, <1>12, <1>13
  DEF Next, TurnStep, EventStep

LEMMA InitTruth == Init => TruthInv
  BY DEF Init, TruthInv, CompletedRunsFinished, RunsOfStarts, TasksAreTasks,
         SignalsOfStarts, FoundItsOwn, CopiesAreTrue

\* What is true of a run stays true while runs keep their commands and
\* finished commands stay finished.
RunsKept ==
    /\ UNCHANGED request
    /\ DOMAIN runs \subseteq DOMAIN runs'
    /\ \A i \in DOMAIN runs : runs'[i].cmd = runs[i].cmd
    /\ finished \subseteq finished'

LEMMA SameRuns ==
  ASSUME UNCHANGED <<request, runs>>, finished \subseteq finished'
  PROVE  RunsKept
  BY DEF RunsKept

LEMMA FoundKept ==
  ASSUME FoundItsOwn, RunsKept, NEW e \in events, e.stage = "found"
  PROVE  e.run \in DOMAIN runs' /\ runs'[e.run].cmd = e.cmd
  BY DEF FoundItsOwn, RunsKept

\* Turns that did not begin to mirror a run.
LEMMA CopiesKept ==
  ASSUME TypeOK, CopiesAreTrue, RunsKept,
         \A t \in Turns : turn'[t].pc = "mirror" => turn'[t] = turn[t]
  PROVE  CopiesAreTrue'
<1> SUFFICES ASSUME NEW t \in Turns, turn'[t].pc = "mirror"
             PROVE  /\ turn'[t].at \in DOMAIN runs'
                    /\ turn'[t].held \in {"running", "paused"}
                    /\ turn'[t].kpis => runs'[turn'[t].at].cmd \in finished'
  BY DEF CopiesAreTrue
<1>1. turn'[t] = turn[t]
  OBVIOUS
<1>2. /\ turn[t].at \in DOMAIN runs
      /\ turn[t].held \in {"running", "paused"}
      /\ turn[t].kpis => runs[turn[t].at].cmd \in finished
  BY <1>1 DEF CopiesAreTrue
<1> QED BY <1>1, <1>2 DEF RunsKept

\* Nothing was written to the runs, and no run was read.
LEMMA QuietTruth ==
  ASSUME TypeOK, TruthInv, UNCHANGED <<request, runs>>, finished \subseteq finished',
         \A t \in Turns : turn'[t].pc = "mirror" => turn'[t] = turn[t],
         TasksAreTasks', SignalsOfStarts', FoundItsOwn'
  PROVE  TruthInv'
<1>1. CopiesAreTrue'
  BY SameRuns, CopiesKept DEF TruthInv
<1>2. CompletedRunsFinished' /\ RunsOfStarts'
  BY DEF TruthInv, CompletedRunsFinished, RunsOfStarts, Kind
<1> QED BY <1>1, <1>2 DEF TruthInv

\* A command is given an event.
LEMMA EmittedTruth ==
  ASSUME TruthInv, NEW c, UNCHANGED <<request, runs>>, finished \subseteq finished',
         Kind(c) = "start" => c \in finished',
         events' \in {events, Emitted(c)}
  PROVE  SignalsOfStarts' /\ FoundItsOwn'
<1> DEFINE f == [cmd |-> c, stage |-> "sent", run |-> 0]
<1>1. f.cmd = c /\ f.stage = "sent"
  OBVIOUS
<1>2. events' \subseteq events \cup {f}
  BY DEF Emitted
<1> HIDE DEF f
<1>3. SignalsOfStarts'
  BY <1>1, <1>2 DEF TruthInv, SignalsOfStarts, Kind
<1>4. FoundItsOwn'
  BY <1>1, <1>2 DEF TruthInv, FoundItsOwn
<1> QED BY <1>3, <1>4

LEMMA EndRunTruth ==
  ASSUME TypeOK, TruthInv, EndRun, UNCHANGED <<request, backend>>
  PROVE  TruthInv'
<1>1. /\ finished' = finished \cup {sim.run} /\ events' = Emitted(sim.run) /\ tasks' = {}
      /\ UNCHANGED <<request, runs, turn>>
  BY DEF EndRun, backend
<1>2. TasksAreTasks'
  BY <1>1 DEF TasksAreTasks
<1>3. SignalsOfStarts' /\ FoundItsOwn'
  BY <1>1, EmittedTruth
<1> QED BY <1>1, <1>2, <1>3, QuietTruth

LEMMA HandleTruth ==
  ASSUME TypeOK, TruthInv, NEW c, Handle(c), UNCHANGED <<request, backend>>
  PROVE  TruthInv'
<1>1. CASE EndRun
  BY <1>1, EndRunTruth
<1>2. CASE ~EndRun
  <2>1. /\ UNCHANGED <<request, runs, turn, finished>>
        /\ \/ events' = events
           \/ events' = Emitted(c) /\ Kind(c) # "start"
        /\ \/ tasks' = tasks
           \/ Kind(c) = "task" /\ tasks' \subseteq tasks \cup {c}
    BY <1>2 DEF Handle, backend
  <2>2. TasksAreTasks'
    BY <2>1 DEF TruthInv, TasksAreTasks, Kind
  <2>3. SignalsOfStarts' /\ FoundItsOwn'
    <3>1. CASE events' = events
      BY <2>1, <3>1 DEF TruthInv, SignalsOfStarts, FoundItsOwn, Kind
    <3>2. CASE events' = Emitted(c) /\ Kind(c) # "start"
      BY <2>1, <3>2, EmittedTruth
    <3> QED BY <2>1, <3>1, <3>2
  <2> QED BY <2>1, <2>2, <2>3, QuietTruth
<1> QED BY <1>1, <1>2

\* What becomes of an event on its way keeps the truth of the others.
LEMMA AdvancedTruth ==
  ASSUME TypeOK, TruthInv, NEW e \in events, NEW stage, NEW i, RunsKept,
         events' = Advanced(e, stage, i),
         stage = "found" => i \in DOMAIN runs' /\ runs'[i].cmd = e.cmd
  PROVE  SignalsOfStarts' /\ FoundItsOwn'
<1> DEFINE f == [e EXCEPT !.stage = stage, !.run = i]
<1>1. f.cmd = e.cmd /\ f.stage = stage /\ f.run = i /\ events' = (events \ {e}) \cup {f}
  BY DEF Advanced, TypeOK, Event
<1> HIDE DEF f
<1>2. SignalsOfStarts'
  BY <1>1 DEF TruthInv, SignalsOfStarts, RunsKept, Kind
<1>3. ASSUME NEW g \in events', g.stage = "found"
      PROVE  g.run \in DOMAIN runs' /\ runs'[g.run].cmd = g.cmd
  <2>1. CASE g = f
    BY <1>1, <1>3, <2>1
  <2>2. CASE g \in events
    BY <1>3, <2>2, FoundKept DEF TruthInv
  <2> QED BY <1>1, <1>3, <2>1, <2>2
<1> QED BY <1>2, <1>3 DEF FoundItsOwn

LEMMA DroppedTruth ==
  ASSUME TypeOK, TruthInv, NEW e \in events, RunsKept, events' = events \ {e}
  PROVE  SignalsOfStarts' /\ FoundItsOwn'
<1>1. SignalsOfStarts'
  BY DEF TruthInv, SignalsOfStarts, RunsKept, Kind
<1>2. ASSUME NEW g \in events', g.stage = "found"
      PROVE  g.run \in DOMAIN runs' /\ runs'[g.run].cmd = g.cmd
  BY <1>2, FoundKept DEF TruthInv
<1> QED BY <1>1, <1>2 DEF FoundItsOwn

\* A run is written that is not said to be complete, unless it has ended.
LEMMA WrittenTruth ==
  ASSUME TypeOK, TruthInv, NEW i \in DOMAIN runs, NEW status, NEW kpis,
         runs' = [runs EXCEPT ![i].status = status, ![i].kpis = kpis],
         kpis \/ status = "completed" => runs[i].cmd \in finished,
         UNCHANGED <<request, finished>>
  PROVE  RunsKept /\ CompletedRunsFinished' /\ RunsOfStarts'
<1>1. /\ DOMAIN runs' = DOMAIN runs
      /\ \A j \in DOMAIN runs : runs'[j].cmd = runs[j].cmd
      /\ runs'[i].status = status /\ runs'[i].kpis = kpis
      /\ \A j \in DOMAIN runs \ {i} : runs'[j] = runs[j]
  <2>1. runs[i] \in Run
    BY DEF TypeOK
  <2> DEFINE r == [[runs[i] EXCEPT !.status = status] EXCEPT !.kpis = kpis]
  <2>2. r.cmd = runs[i].cmd /\ r.status = status /\ r.kpis = kpis
    BY <2>1 DEF Run
  <2>3. runs'[i] = r /\ DOMAIN runs' = DOMAIN runs /\ \A j \in DOMAIN runs \ {i} : runs'[j] = runs[j]
    OBVIOUS
  <2> HIDE DEF r
  <2> QED BY <2>2, <2>3
<1>2. RunsKept
  BY <1>1 DEF RunsKept
<1>3. RunsOfStarts'
  BY <1>1 DEF TruthInv, RunsOfStarts, Kind
<1>4. ASSUME NEW j \in DOMAIN runs', runs'[j].kpis \/ runs'[j].status = "completed"
      PROVE  runs'[j].cmd \in finished'
  <2>0. finished' = finished
    OBVIOUS
  <2>1. CASE j = i
    BY <1>1, <1>4, <2>0, <2>1, Zenon
  <2>2. CASE j # i
    BY <1>1, <1>4, <2>2 DEF TruthInv, CompletedRunsFinished
  <2> QED BY <2>1, <2>2
<1> QED BY <1>2, <1>3, <1>4 DEF CompletedRunsFinished

LEMMA MirrorTruth ==
  ASSUME TypeOK, TruthInv, NEW t \in Turns, Mirror(t) PROVE TruthInv'
<1>1. /\ turn[t].pc = "mirror" /\ turn[t].at \in DOMAIN runs
      /\ turn[t].held \in {"running", "paused"}
      /\ turn[t].kpis => runs[turn[t].at].cmd \in finished
  BY DEF Mirror, TruthInv, CopiesAreTrue
<1>2. MirroredStatus(t) # "completed"
  BY <1>1 DEF MirroredStatus
<1>3. UNCHANGED <<request, finished, tasks, events>>
  BY DEF Mirror, ue5
<1> DEFINE i == turn[t].at
           status == MirroredStatus(t)
           kpis == turn[t].kpis
<1>4. runs' = [runs EXCEPT ![i].status = status, ![i].kpis = kpis]
  BY DEF Mirror
<1>5. i \in DOMAIN runs /\ (kpis \/ status = "completed" => runs[i].cmd \in finished)
  BY <1>1, <1>2
<1> HIDE DEF i, status, kpis
<1>6. RunsKept /\ CompletedRunsFinished' /\ RunsOfStarts'
  BY <1>3, <1>4, <1>5, WrittenTruth
<1>7. turn'[t].pc = "done" /\ \A u \in Turns \ {t} : turn'[u] = turn[u]
  BY DEF Mirror, TypeOK, TurnRecord
<1>8. CopiesAreTrue'
  BY <1>6, <1>7, CopiesKept DEF TruthInv
<1>9. TasksAreTasks' /\ SignalsOfStarts'
  BY <1>3 DEF TruthInv, TasksAreTasks, SignalsOfStarts, Kind
<1>10. FoundItsOwn'
  BY <1>3, <1>6, FoundKept DEF TruthInv, FoundItsOwn
<1> QED BY <1>6, <1>8, <1>9, <1>10 DEF TruthInv

LEMMA UpdateRunTruth ==
  ASSUME TypeOK, TruthInv, NEW e \in events, UpdateRunStatus(e) PROVE TruthInv'
<1> DEFINE i == e.run
<1>1. /\ e.stage = "found" /\ events' = Advanced(e, "command", 0)
      /\ runs' = [runs EXCEPT ![i].status = "completed", ![i].kpis = TRUE]
      /\ UNCHANGED <<request, turn, finished, tasks>>
  BY DEF UpdateRunStatus, ue5
<1>2. i \in DOMAIN runs /\ runs[i].cmd = e.cmd
  BY <1>1 DEF TruthInv, FoundItsOwn
<1>3. runs[i].cmd \in finished
  BY <1>2 DEF TruthInv, RunsOfStarts, SignalsOfStarts
<1> HIDE DEF i
<1>4. ASSUME NEW status, NEW kpis, runs' = [runs EXCEPT ![i].status = status, ![i].kpis = kpis]
      PROVE  RunsKept /\ CompletedRunsFinished' /\ RunsOfStarts'
  BY <1>1, <1>2, <1>3, <1>4, WrittenTruth
<1>5. RunsKept /\ CompletedRunsFinished' /\ RunsOfStarts'
  BY <1>1, <1>4, Zenon
<1>6. CopiesAreTrue'
  BY <1>1, <1>5, CopiesKept DEF TruthInv
<1>7. SignalsOfStarts' /\ FoundItsOwn'
  BY <1>1, <1>5, AdvancedTruth
<1>8. TasksAreTasks'
  BY <1>1 DEF TruthInv, TasksAreTasks, Kind
<1> QED BY <1>5, <1>6, <1>7, <1>8 DEF TruthInv

LEMMA ReplyTruth ==
  ASSUME TypeOK, TruthInv, NEW t \in Turns, Reply(t) PROVE TruthInv'
<1>0. turn \in [Turns -> TurnRecord] /\ runs \in Seq(Run)
  BY DEF TypeOK
<1>1. UNCHANGED <<request, finished, tasks, events>>
  BY DEF Reply, ue5
<1>2. TasksAreTasks' /\ SignalsOfStarts'
  BY <1>1 DEF TruthInv, TasksAreTasks, SignalsOfStarts, Kind
<1>3. CASE turn' = [turn EXCEPT ![t].pc = "done"] /\ UNCHANGED runs
  <2>1. turn'[t].pc = "done" /\ \A u \in Turns \ {t} : turn'[u] = turn[u]
    BY <1>0, <1>3 DEF TurnRecord
  <2>2. FoundItsOwn'
    BY <1>1, <1>3 DEF TruthInv, FoundItsOwn
  <2> QED BY <1>1, <1>2, <1>3, <2>1, <2>2, QuietTruth
<1>4. CASE /\ Kind(turn[t].cmd) = "start"
           /\ runs' = Append(runs, [cmd |-> turn[t].cmd, status |-> "running", kpis |-> FALSE])
           /\ turn' = [turn EXCEPT ![t].pc = "done"]
  <2>1. turn'[t].pc = "done" /\ \A u \in Turns \ {t} : turn'[u] = turn[u]
    BY <1>0, <1>4 DEF TurnRecord
  <2> DEFINE r == [cmd |-> turn[t].cmd, status |-> "running", kpis |-> FALSE]
             n == Len(runs)
  <2>2. r.cmd = turn[t].cmd /\ r.status = "running" /\ r.kpis = FALSE
    OBVIOUS
  <2>3. /\ n \in Nat /\ DOMAIN runs = 1 .. n /\ DOMAIN runs' = 1 .. (n + 1)
        /\ \A i \in 1 .. n : runs'[i] = runs[i]
        /\ runs'[n + 1] = r
    BY <1>0, <1>4
  <2> HIDE DEF r, n
  <2>4. DOMAIN runs \subseteq DOMAIN runs' /\ \A i \in DOMAIN runs' : i \in DOMAIN runs \/ i = n + 1
    BY <2>3
  <2>5. RunsKept
    BY <1>1, <2>3, <2>4 DEF RunsKept
  <2>6. CompletedRunsFinished'
    BY <1>1, <2>2, <2>3, <2>4 DEF TruthInv, CompletedRunsFinished
  <2>7. RunsOfStarts'
    BY <1>1, <1>4, <2>2, <2>3, <2>4 DEF TruthInv, RunsOfStarts, Kind
  <2>8. CopiesAreTrue'
    BY <2>1, <2>5, CopiesKept DEF TruthInv
  <2>9. FoundItsOwn'
    BY <1>1, <2>5, FoundKept DEF TruthInv, FoundItsOwn
  <2> QED BY <1>2, <2>6, <2>7, <2>8, <2>9 DEF TruthInv
<1>5. ASSUME NEW i \in LatestActive, UNCHANGED runs,
             turn' = [turn EXCEPT ![t].pc = "mirror", ![t].at = i,
                                  ![t].held = runs[i].status, ![t].kpis = runs[i].kpis]
      PROVE  TruthInv'
  <2>1. /\ i \in DOMAIN runs /\ runs[i].status \in {"running", "paused"}
        /\ runs[i].kpis => runs[i].cmd \in finished
    BY DEF LatestActive, Active, TruthInv, CompletedRunsFinished
  <2>2. /\ turn'[t].at = i /\ turn'[t].held = runs[i].status /\ turn'[t].kpis = runs[i].kpis
        /\ \A u \in Turns \ {t} : turn'[u] = turn[u]
    BY <1>0, <1>5 DEF TurnRecord
  <2>3. CopiesAreTrue'
    <3> SUFFICES ASSUME NEW u \in Turns, turn'[u].pc = "mirror"
                 PROVE  /\ turn'[u].at \in DOMAIN runs
                        /\ turn'[u].held \in {"running", "paused"}
                        /\ turn'[u].kpis => runs[turn'[u].at].cmd \in finished
      BY <1>1, <1>5 DEF CopiesAreTrue
    <3>1. CASE u = t
      BY <2>1, <2>2, <3>1, Zenon
    <3>2. CASE u # t
      BY <2>2, <3>2, Zenon DEF TruthInv, CopiesAreTrue
    <3> QED BY <3>1, <3>2
  <2>4. CompletedRunsFinished' /\ RunsOfStarts' /\ FoundItsOwn'
    BY <1>1, <1>5 DEF TruthInv, CompletedRunsFinished, RunsOfStarts, FoundItsOwn, Kind
  <2> QED BY <1>2, <2>3, <2>4 DEF TruthInv
<1> QED BY <1>3, <1>4, <1>5 DEF Reply

LEMMA StepTruth ==
  ASSUME TypeOK, TruthInv, [Next]_vars PROVE TruthInv'
<1>0. turn \in [Turns -> TurnRecord]
  BY DEF TypeOK
\* Steps of a turn that touch neither the runs nor the simulator.
<1>1. ASSUME NEW t \in Turns, UNCHANGED <<request, runs, finished, tasks, events>>,
             turn'[t].pc # "mirror", \A u \in Turns \ {t} : turn'[u] = turn[u]
      PROVE  TruthInv'
  <2>1. TasksAreTasks' /\ SignalsOfStarts' /\ FoundItsOwn'
    BY <1>1 DEF TruthInv, TasksAreTasks, SignalsOfStarts, FoundItsOwn, Kind
  <2> QED BY <1>1, <2>1, QuietTruth
<1>2. ASSUME NEW t \in Turns, LookUp(t) \/ SaveCommand(t) \/ Post(t) PROVE TruthInv'
  <2>1. UNCHANGED <<request, runs, finished, tasks, events>>
    BY <1>2 DEF LookUp, SaveCommand, Post, ue5
  <2>2. turn'[t].pc # "mirror" /\ \A u \in Turns \ {t} : turn'[u] = turn[u]
    <3>1. CASE ReuseCommand(t)
      <4>1. PICK c \in SameKey(t) : turn' = [turn EXCEPT ![t] = Reused(t, c)]
        BY <3>1 DEF ReuseCommand
      <4> QED BY <1>0, <4>1 DEF Reused, TurnRecord
    <3>2. CASE ~ReuseCommand(t)
      <4>1. \/ turn' = [turn EXCEPT ![t].pc = "save"]
            \/ turn' = [turn EXCEPT ![t].pc = "send", ![t].cmd = t]
            \/ turn' = [turn EXCEPT ![t].pc = "sent"]
        BY <1>2, <3>2 DEF LookUp, SaveCommand, Post
      <4> QED BY <1>0, <4>1 DEF TurnRecord
    <3> QED BY <3>1, <3>2
  <2> QED BY <1>1, <2>1, <2>2
<1>3. ASSUME NEW t \in Turns,
             HttpError(t) \/ Answered(t) \/ WaitUntilStopped(t) \/ UpdateCommand(t)
      PROVE  TruthInv'
  <2>1. UNCHANGED <<request, runs, finished, tasks, events>>
    BY <1>3 DEF HttpError, Answered, WaitUntilStopped, UpdateCommand, ue5
  <2>2. \/ turn' = [turn EXCEPT ![t].pc = "verify"]
        \/ turn' = [turn EXCEPT ![t].pc = "reply"]
        \/ \E status \in Statuses : turn' = Settled(t, status)
    BY <1>3 DEF HttpError, HttpErrorStatus, Answered, WaitUntilStopped, UpdateCommand, Statuses
  <2>3. turn'[t].pc # "mirror" /\ \A u \in Turns \ {t} : turn'[u] = turn[u]
    BY <1>0, <2>2 DEF TurnRecord, Settled
  <2> QED BY <1>1, <2>1, <2>3
<1>4. CASE GameThread
  BY <1>4, HandleTruth DEF GameThread
<1>5. CASE RunEnds
  BY <1>5, EndRunTruth DEF RunEnds
<1>6. ASSUME NEW c \in Turns, ReachStation(c) PROVE TruthInv'
  <2>1. /\ c \in tasks /\ tasks' = tasks \ {c} /\ events' = Emitted(c)
        /\ UNCHANGED <<request, turn, runs, finished>>
    BY <1>6 DEF ReachStation, backend
  <2>2. Kind(c) = "task" /\ TasksAreTasks'
    BY <2>1 DEF TruthInv, TasksAreTasks, Kind
  <2>3. SignalsOfStarts' /\ FoundItsOwn'
    BY <2>1, <2>2, EmittedTruth
  <2> QED BY <2>1, <2>2, <2>3, QuietTruth
\* Events on their way to a report.
<1>7. ASSUME UNCHANGED <<request, turn, runs, finished, tasks>>, SignalsOfStarts', FoundItsOwn'
      PROVE  TruthInv'
  <2>1. TasksAreTasks'
    BY <1>7 DEF TruthInv, TasksAreTasks, Kind
  <2> QED BY <1>7, <2>1, QuietTruth
<1>8. ASSUME NEW e \in events,
             LoseEvent(e) \/ FindRun(e) \/ HandleCompletionEvent(e) \/ GenerateReport(e) \/ ReportFails(e)
      PROVE  TruthInv'
  <2>1. UNCHANGED <<request, turn, runs, finished, tasks>>
    BY <1>8 DEF LoseEvent, FindRun, HandleCompletionEvent, GenerateReport, ReportFails, backend, ue5
  <2>2. RunsKept
    BY <2>1, SameRuns
  <2>3. \/ events' = events \ {e}
        \/ events' = Advanced(e, "command", 0)
        \/ events' = Advanced(e, "report", 0)
        \/ \E i \in Matching(e) : events' = Advanced(e, "found", i)
    BY <1>8 DEF LoseEvent, FindRun, HandleCompletionEvent, GenerateReport, ReportFails
  <2>4. CASE events' = events \ {e}
    BY <1>7, <2>1, <2>2, <2>4, DroppedTruth
  <2>5. CASE events' = Advanced(e, "command", 0)
    BY <1>7, <2>1, <2>2, <2>5, AdvancedTruth
  <2>6. CASE events' = Advanced(e, "report", 0)
    BY <1>7, <2>1, <2>2, <2>6, AdvancedTruth
  <2>7. ASSUME NEW i \in Matching(e), events' = Advanced(e, "found", i) PROVE TruthInv'
    <3>1. i \in DOMAIN runs' /\ runs'[i].cmd = e.cmd
      BY <2>1 DEF Matching
    <3> QED BY <1>7, <2>1, <2>2, <2>7, <3>1, AdvancedTruth
  <2> QED BY <2>3, <2>4, <2>5, <2>6, <2>7
<1>9. CASE UNCHANGED vars
  <2>1. UNCHANGED <<request, turn, runs, finished, tasks, events>>
    BY <1>9 DEF vars, backend, ue5
  <2>2. SignalsOfStarts' /\ FoundItsOwn'
    BY <2>1 DEF TruthInv, SignalsOfStarts, FoundItsOwn, Kind
  <2> QED BY <1>7, <2>1, <2>2
<1> QED
  BY <1>2, <1>3, <1>4, <1>5, <1>6, <1>8, <1>9, ReplyTruth, MirrorTruth, UpdateRunTruth
  DEF Next, TurnStep, EventStep

\* A turn writes its own row only, and before it is through.
LEMMA StepFinal ==
  ASSUME TypeOK, KeyInv, [Next]_vars PROVE OutcomeIsFinal
<1>0. commands \in [Turns -> Statuses \cup {"none"}]
  BY DEF TypeOK
<1>1. ASSUME UNCHANGED commands PROVE OutcomeIsFinal
  BY <1>1 DEF OutcomeIsFinal
<1>2. ASSUME NEW t \in Turns, turn[t].pc # "done", NEW status,
             commands' = [commands EXCEPT ![t] = status]
      PROVE  OutcomeIsFinal
  BY <1>0, <1>2 DEF OutcomeIsFinal
<1>3. ASSUME NEW t \in Turns, SaveCommand(t) PROVE OutcomeIsFinal
  BY <1>1, <1>2, <1>3 DEF SaveCommand, ReuseCommand
<1>4. ASSUME NEW t \in Turns, UpdateCommand(t) PROVE OutcomeIsFinal
  <2>1. turn[t].cmd = t
    BY <1>4 DEF UpdateCommand, KeyInv, SendsItsOwn
  <2> QED BY <1>2, <1>4, <2>1 DEF UpdateCommand
<1>5. ASSUME NEW e \in events, HandleCompletionEvent(e) PROVE OutcomeIsFinal
  BY <1>0, <1>5 DEF HandleCompletionEvent, OutcomeIsFinal, TypeOK, Event
<1> QED
  BY <1>1, <1>3, <1>4, <1>5
  DEF Next, TurnStep, EventStep, LookUp, ReuseCommand, Post, HttpError, Answered, WaitUntilStopped,
      Reply, Mirror, ReachStation, GameThread, RunEnds, LoseEvent, FindRun, UpdateRunStatus,
      GenerateReport, ReportFails, vars, backend

-----------------------------------------------------------------------------
(* Theorems *)

IInv == TypeOK /\ KeyInv /\ HoldsCommand /\ DeliveryInv

\* All of the above holds throughout: the inductive invariant.
THEOREM LifecycleInvariance == Spec => []IInv
<1>1. Init => IInv
  BY InitTyped, InitKeys, InitDelivery DEF IInv
<1>2. IInv /\ [Next]_vars => IInv'
  BY StepTyped, StepKeys, StepDelivery DEF IInv, DeliveryInv
<1> QED BY <1>1, <1>2, PTL DEF Spec

\* The rows, records and queues of the command lifecycle keep their types.
THEOREM LifecycleTypeCorrect == Spec => []TypeOK
<1>1. IInv => TypeOK
  BY DEF IInv
<1> QED BY <1>1, LifecycleInvariance, PTL

\* One key is sent to the simulator at most once (issue_robot_command).
THEOREM KeysAreSentOnce == Spec => []SentOncePerKey
<1>1. IInv => SentOncePerKey
  BY DEF IInv, TypeOK, KeyInv, RowsUnique, ReceivedSaved, SentOncePerKey
<1> QED BY <1>1, LifecycleInvariance, PTL

\* Turns with one key hold one command (save_command).
THEOREM KeysDecideCommands == Spec => []KeyDecidesCommand
<1>1. IInv => KeyDecidesCommand
  <2> SUFFICES ASSUME IInv, NEW t \in Turns, NEW u \in Turns,
                      turn[t].cmd # NoCmd, turn[u].cmd # NoCmd, Key(t) = Key(u)
               PROVE  turn[t].cmd = turn[u].cmd
    BY DEF KeyDecidesCommand
  <2>1. turn[t].cmd \in Turns /\ turn[u].cmd \in Turns
    BY DEF IInv, TypeOK, TurnRecord
  <2> QED BY <2>1 DEF IInv, KeyInv, HeldExists, RowsUnique
<1> QED BY <1>1, LifecycleInvariance, PTL

\* A key stands for one command on both sides of the wire.
THEOREM KeysStandForCommands == Spec => []OneCommandPerKey
<1>1. SentOncePerKey /\ KeyDecidesCommand => OneCommandPerKey
  BY DEF OneCommandPerKey
<1> QED BY <1>1, KeysAreSentOnce, KeysDecideCommands, PTL

\* A row that says accepted or completed is about a command that UE5 received
\* (send_robot_command, update_command).
THEOREM SuccessesWereDelivered == Spec => []AcceptedWasReceived
<1>1. IInv => AcceptedWasReceived
  BY DEF IInv, DeliveryInv
<1> QED BY <1>1, LifecycleInvariance, PTL

\* Every delivered command is in one place at most, and the runs and events
\* tell the truth (GameThread, ResetActiveRun, _ingest_event).
THEOREM OutcomeInvariance == Spec => [](PlaceInv /\ TruthInv)
<1>1. Init => PlaceInv /\ TruthInv
  BY InitPlaces, InitTruth
<1>2. IInv /\ PlaceInv /\ TruthInv /\ [Next]_vars => (PlaceInv /\ TruthInv)'
  <2> SUFFICES ASSUME IInv, PlaceInv, TruthInv, [Next]_vars PROVE PlaceInv' /\ TruthInv'
    BY Zenon
  <2>1. TypeOK /\ SourcesReceived
    BY DEF IInv, DeliveryInv
  <2> QED BY <2>1, StepPlaces, StepTruth
<1> QED BY <1>1, <1>2, LifecycleInvariance, PTL DEF Spec

\* A command is reported on once at most, a run counts as completed only when
\* it has ended, and a completed row of a turn that is through stays completed
\* (handle_completion_event, update_run, update_command).
THEOREM OutcomesStayTrue == Spec => OutcomesAreTrue
<1>1. /\ IInv /\ PlaceInv /\ TruthInv /\ PlaceInv' /\ TruthInv' /\ [Next]_vars
      => [CompletedRunsFinished' /\ ReportedOnce' /\ OutcomeIsFinal]_vars
  BY StepFinal DEF IInv, PlaceInv, TruthInv
<1> QED BY <1>1, LifecycleInvariance, OutcomeInvariance, PTL DEF Spec, OutcomesAreTrue
=============================================================================
