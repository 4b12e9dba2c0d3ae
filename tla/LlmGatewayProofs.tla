-------------------------- MODULE LlmGatewayProofs --------------------------
(***************************************************************************)
(* The tool planning of a chat turn, proved for every set of operator      *)
(* texts, model calls and runs and for any number of repair retries.       *)
(***************************************************************************)
EXTENDS LlmGateway, FiniteSetTheorems, SequenceTheorems, TLAPS

\* While a turn is under way a further request is allowed, and on the routing
\* gateway no reply so far was a decline.
Underway == phase # "idle" =>
    /\ Len(attempts) <= Retries
    /\ DeclineRetry(provider) => \A i \in DOMAIN attempts : ~IsDecline(attempts[i])

IInv == TypeOK /\ Underway /\ CallsAreSafe /\ DeclinesAreFinal /\ ComparisonsAgree

-----------------------------------------------------------------------------
(* The tool router and the rules.                                          *)

LEMMA NormalizedIsCall == ASSUME NEW c \in Call PROVE Normalized(c) \in Call
<1>1. \A v \in Values : Coerced(v) \in Values
  BY DEF Values, Coerced
<1>2. c.args \in [Keys -> Values] /\ c.name \in Tools
  BY DEF Call
<1> DEFINE new == [k \in Keys |->
              IF k \in {"station_id", "agv_count", "speed_multiplier"}
              THEN Coerced(c.args[k]) ELSE c.args[k]]
<1>3. new \in [Keys -> Values]
  BY <1>1, <1>2
<1>4. Normalized(c) = [c EXCEPT !.args = new]
  BY DEF Normalized
<1> HIDE DEF new
<1> QED BY <1>2, <1>3, <1>4 DEF Call

LEMMA CandidateIsCall == ASSUME NEW r \in ModelCalls PROVE Candidate(r) \in Call
BY NormalizedIsCall, GatewayAssumption DEF Candidate

LEMMA ArgIsTyped ==
  ASSUME NEW k \in Keys, NEW v \in Values
  PROVE  Arg(k, v) \in [Keys -> Values]
BY DEF Arg, NoCall, Values, Keys

LEMMA RulesMakeCalls ==
  ASSUME {text.station, text.speed, text.agv} \subseteq Values
  PROVE  RuleBasedCall(text) \in Call \cup {NoCall}
<1>1. NoCall.args \in [Keys -> Values]
  BY DEF NoCall, Values
<1>2. \A k \in Keys : \A v \in {text.station, text.speed, text.agv} : Arg(k, v) \in [Keys -> Values]
  BY ArgIsTyped
<1>3. [Arg("agv_count", text.agv) EXCEPT !["speed_multiplier"] = text.speed] \in [Keys -> Values]
  BY <1>2 DEF Keys
<1>4. {"station_id", "speed_multiplier", "agv_count"} \subseteq Keys
  BY DEF Keys
<1>5. \A tool \in Tools : \A args \in [Keys -> Values] : [name |-> tool, args |-> args] \in Call
  BY DEF Call
<1> QED BY <1>1, <1>2, <1>3, <1>4, <1>5 DEF RuleBasedCall, Tools

LEMMA InRangeIsNotBad ==
  ASSUME NEW c, Valid(c, TRUE)
  PROVE  \A k \in Keys : c.args[k] # "bad"
BY DEF Valid, WellTyped, Keys, Accepted, InRange, Values

LEMMA RulesCheckNoRanges == RuleBased(provider) => ~ChecksRanges(provider)
BY DEF RuleBased, ServersOf, ChecksRanges

-----------------------------------------------------------------------------
(* The evaluation.                                                         *)

LEMMA GradeIsTyped ==
  ASSUME NEW kpis, NEW stats, NEW verdict
  PROVE  Evaluation(kpis, stats, verdict).grade \in {"-", "A", "B", "C"}
<1>1. Grade(kpis) \in {"A", "B", "C"}
  BY DEF Grade
<1> QED BY <1>1 DEF Evaluation, NoEvaluation

\* The two tables agree: a value that is better never has a worse tone.
LEMMA BetterIsNotWorse ==
  ASSUME NEW m \in KpiNames, NEW v \in Int, NEW w \in Int, Better(m, v, w)
  PROVE  Tone(m, v) >= Tone(m, w)
<1>1. /\ Metrics[m].good \in Int /\ Metrics[m].warn \in Int
      /\ Metrics[m].up <=> m \in HigherIsBetter
  BY DEF KpiNames, Metrics, HigherIsBetter
<1>2. CASE m \in HigherIsBetter
  BY <1>1, <1>2 DEF Better, Tone
<1>3. CASE m \notin HigherIsBetter
  BY <1>1, <1>3 DEF Better, Tone
<1> QED BY <1>2, <1>3

LEMMA WinsAreCounted == ASSUME NEW a, NEW b PROVE Wins(a, b) \in Nat
<1>1. IsFiniteSet(KpiNames)
  <2>1. KpiNames = {"bottleneck_rate", "throughput", "avg_wait_time", "collision_risk", "uptime"}
    BY DEF KpiNames, Metrics
  <2>2. IsFiniteSet({"bottleneck_rate"} \cup {"throughput"})
    BY FS_Singleton, FS_Union
  <2>3. IsFiniteSet({"avg_wait_time"} \cup {"collision_risk"})
    BY FS_Singleton, FS_Union
  <2>4. IsFiniteSet(({"avg_wait_time"} \cup {"collision_risk"}) \cup {"uptime"})
    BY <2>3, FS_Singleton, FS_Union
  <2>5. IsFiniteSet(({"bottleneck_rate"} \cup {"throughput"})
                    \cup (({"avg_wait_time"} \cup {"collision_risk"}) \cup {"uptime"}))
    BY <2>2, <2>4, FS_Union
  <2>6. KpiNames = ({"bottleneck_rate"} \cup {"throughput"})
                   \cup (({"avg_wait_time"} \cup {"collision_risk"}) \cup {"uptime"})
    BY <2>1
  <2> QED BY <2>5, <2>6
<1>2. {m \in Shared(a, b) : Better(m, a.kpis[m], b.kpis[m])} \subseteq KpiNames
  BY DEF Shared, Measured
<1> QED BY <1>1, <1>2, FS_Subset, FS_CardinalityType DEF Wins

LEMMA WinnerIsSymmetric ==
  ASSUME NEW a, NEW b
  PROVE  Winner(a, b) = "a" <=> Winner(b, a) = "b"
<1>1. Wins(a, b) \in Nat /\ Wins(b, a) \in Nat
  BY WinsAreCounted
<1>2. Shared(a, b) = Shared(b, a)
  BY DEF Shared
<1> QED BY <1>1, <1>2 DEF Winner

LEMMA WinnerIsTyped ==
  ASSUME NEW a, NEW b PROVE Winner(a, b) \in {"none", "a", "b", "tie"}
BY DEF Winner

-----------------------------------------------------------------------------
(* Steps.                                                                  *)

\* One more reply, of any kind.
LEMMA AppendedReply ==
  ASSUME NEW S, NEW seq \in Seq(S), NEW e \in S
  PROVE  /\ Append(seq, e) \in Seq(S) /\ Len(Append(seq, e)) = Len(seq) + 1
         /\ \A i \in DOMAIN seq : Append(seq, e)[i] = seq[i]
         /\ Append(seq, e)[Len(seq) + 1] = e
         /\ \A i \in DOMAIN Append(seq, e) : i \in DOMAIN seq \/ i = Len(seq) + 1
OBVIOUS

LEMMA LengthsAreCounted ==
  ASSUME NEW S, NEW seq \in Seq(S)
  PROVE  /\ Len(seq) \in Nat
         /\ Len(seq) <= Retries => Len(seq) <= Retries + 1
         /\ Len(seq) <= Retries => Len(seq) + 1 <= Retries + 1
         /\ Len(seq) < Retries => Len(seq) + 1 <= Retries
BY GatewayAssumption

LEMMA NoRepliesYet ==
  /\ <<>> \in Seq(Replies \cup ModelCalls) /\ Len(<<>>) <= Retries + 1 /\ Len(<<>>) <= Retries
BY GatewayAssumption

LEMMA ServersAreKnown == ServersOf(provider) \subseteq Servers
BY DEF ServersOf, Servers

LEMMA AnswersAreTyped ==
  /\ NoAnswer \in Answer /\ NoAnswer.compared = <<>>
  /\ \A from \in {"llm", "unavailable", "runs"} :
        /\ [NoAnswer EXCEPT !.from = from] \in Answer
        /\ [NoAnswer EXCEPT !.from = from].compared = <<>>
BY DEF NoAnswer, Answer

LEMMA InitIInv == ASSUME Init PROVE IInv
<1>1. TypeOK
  <2>1. attempts \in Seq(Replies \cup ModelCalls) /\ Len(attempts) <= Retries + 1
    BY NoRepliesYet DEF Init
  <2>2. up \subseteq Servers
    BY ServersAreKnown DEF Init
  <2> QED BY <2>1, <2>2, AnswersAreTyped DEF Init, TypeOK
<1>2. Underway /\ CallsAreSafe /\ DeclinesAreFinal /\ ComparisonsAgree
  BY DEF Init, Underway, CallsAreSafe, DeclinesAreFinal, ComparisonsAgree, NoAnswer
<1> QED BY <1>1, <1>2 DEF IInv

\* A step that leaves the turn alone, and the container typed.
LEMMA TurnUnchanged ==
  ASSUME IInv, UNCHANGED <<provider, turn>>,
         up' \subseteq Servers, status' \in {"loading", "ready"}, loaded' \in BOOLEAN
  PROVE  IInv'
<1>1. /\ phase' = phase /\ text' = text /\ attempts' = attempts /\ call' = call
      /\ outcome' = outcome /\ plan' = plan /\ answer' = answer /\ provider' = provider
  BY DEF turn
<1>2. TypeOK'
  BY <1>1 DEF IInv, TypeOK
<1>3. Underway' /\ CallsAreSafe' /\ DeclinesAreFinal' /\ ComparisonsAgree'
  BY <1>1 DEF IInv, Underway, CallsAreSafe, DeclinesAreFinal, ComparisonsAgree
<1> QED BY <1>2, <1>3 DEF IInv

LEMMA StepContainer == ASSUME IInv, ServerChanges \/ Preload PROVE IInv'
<1>1. UNCHANGED <<provider, turn>>
  BY DEF ServerChanges, Preload
<1>2. up' \subseteq Servers /\ status' \in {"loading", "ready"} /\ loaded' \in BOOLEAN
  BY ServersAreKnown DEF ServerChanges, Preload, IInv, TypeOK
<1> QED BY <1>1, <1>2, TurnUnchanged

\* A turn that begins, goes on to its next phase, or ends without a tool.
LEMMA StepTurn ==
  ASSUME IInv,
         \/ \E t \in Texts : Receive(t)
         \/ \E good \in BOOLEAN : NarratePlan(good) \/ FreeAnswer(good)
         \/ \E route \in {"tool", "chat", "compare"} : Classify(route)
  PROVE  IInv'
<1>1. CASE \E t \in Texts : Receive(t)
  <2>1. answer' \in Answer /\ answer'.compared = <<>>
    BY <1>1, AnswersAreTyped DEF Receive
  <2>2. TypeOK'
    BY <1>1, <2>1, NoRepliesYet DEF Receive, container, IInv, TypeOK
  <2>3. Underway' /\ CallsAreSafe' /\ DeclinesAreFinal' /\ ComparisonsAgree'
    BY <1>1, <2>1, NoRepliesYet DEF Receive, Underway, CallsAreSafe, DeclinesAreFinal, ComparisonsAgree
  <2> QED BY <2>2, <2>3 DEF IInv
<1>2. CASE \E good \in BOOLEAN : NarratePlan(good)
  BY <1>2 DEF NarratePlan, container, IInv, TypeOK, Underway, CallsAreSafe, DeclinesAreFinal,
     ComparisonsAgree
<1>3. CASE \E route \in {"tool", "chat", "compare"} : Classify(route)
  <2>1. /\ phase \in {"intent"} /\ phase' \in {"tool", "chat", "compare"}
        /\ UNCHANGED <<provider, up, status, loaded, text, attempts, call, outcome, plan, answer>>
    BY <1>3 DEF Classify, container
  <2>2. TypeOK'
    BY <2>1 DEF IInv, TypeOK
  <2>3. Underway' /\ CallsAreSafe' /\ DeclinesAreFinal' /\ ComparisonsAgree'
    BY <2>1 DEF IInv, Underway, CallsAreSafe, DeclinesAreFinal, ComparisonsAgree
  <2> QED BY <2>2, <2>3 DEF IInv
<1>4. CASE \E good \in BOOLEAN : FreeAnswer(good)
  <2>1. answer' \in Answer /\ answer'.compared = <<>>
    BY <1>4, AnswersAreTyped DEF FreeAnswer
  <2> QED BY <1>4, <2>1 DEF FreeAnswer, container, IInv, TypeOK, Underway, CallsAreSafe,
     DeclinesAreFinal, ComparisonsAgree
<1> QED BY <1>1, <1>2, <1>3, <1>4

\* What SettleProposal makes of a call that is typed and, where the gateway
\* checks ranges, in range.
LEMMA SettledIsSafe ==
  ASSUME NEW c \in Call \cup {NoCall}, SettleProposal(c),
         ChecksRanges(provider) /\ c # NoCall => Valid(c, TRUE)
  PROVE  /\ call' \in Call \cup {NoCall} /\ CallsAreSafe'
         /\ outcome' \in {"none", "call", "no tool", "invalid", "unavailable"}
         /\ phase' = "idle" /\ UNCHANGED <<container, text, plan, answer>>
<1>1. ChecksRanges(provider) /\ c # NoCall => \A k \in Keys : c.args[k] # "bad"
  BY InRangeIsNotBad
<1>2. Valid(c, FALSE) => WellTyped(c)
  BY DEF Valid
<1>3. provider' = provider
  BY DEF SettleProposal, Settle, container
<1> QED BY <1>1, <1>2, <1>3 DEF SettleProposal, Settle, CallsAreSafe

\* What every way to settle a tool request must give.
LEMMA StepSettled ==
  ASSUME IInv, phase = "tool",
         UNCHANGED <<container, text, plan, answer>>,
         phase' = "idle",
         call' \in Call \cup {NoCall}, CallsAreSafe',
         outcome' \in {"none", "call", "no tool", "invalid", "unavailable"},
         \/ attempts' = attempts
         \/ \E r \in Replies \cup ModelCalls :
               /\ attempts' = Append(attempts, r)
               /\ DeclineRetry(provider) /\ IsDecline(r) => outcome' = "no tool" /\ call' = NoCall
  PROVE  IInv'
<1>1. /\ attempts \in Seq(Replies \cup ModelCalls) /\ Len(attempts) <= Retries
      /\ DeclineRetry(provider) => \A i \in DOMAIN attempts : ~IsDecline(attempts[i])
      /\ provider' = provider
  BY DEF IInv, TypeOK, Underway, container
<1>2. /\ attempts' \in Seq(Replies \cup ModelCalls) /\ Len(attempts') <= Retries + 1
      /\ DeclinesAreFinal'
  <2>1. CASE attempts' = attempts
    <3>1. Len(attempts) <= Retries + 1
      BY <1>1, LengthsAreCounted
    <3>2. DeclinesAreFinal'
      BY <1>1, <2>1 DEF DeclinesAreFinal
    <3> QED BY <1>1, <2>1, <3>1, <3>2
  <2>2. ASSUME NEW r \in Replies \cup ModelCalls, attempts' = Append(attempts, r),
               DeclineRetry(provider) /\ IsDecline(r) => outcome' = "no tool" /\ call' = NoCall
        PROVE  /\ attempts' \in Seq(Replies \cup ModelCalls) /\ Len(attempts') <= Retries + 1
               /\ DeclinesAreFinal'
    <3>1. /\ attempts' \in Seq(Replies \cup ModelCalls) /\ Len(attempts') = Len(attempts) + 1
          /\ \A i \in DOMAIN attempts : attempts'[i] = attempts[i]
          /\ attempts'[Len(attempts')] = r
          /\ \A i \in DOMAIN attempts' : i \in DOMAIN attempts \/ i = Len(attempts')
      <4>1. attempts \in Seq(Replies \cup ModelCalls) /\ r \in Replies \cup ModelCalls
            /\ attempts' = Append(attempts, r)
        BY <1>1, <2>2
      <4> DEFINE S == Replies \cup ModelCalls
                 more == Append(attempts, r)
      <4> HIDE DEF S
      <4>2. /\ more \in Seq(S) /\ Len(more) = Len(attempts) + 1
            /\ \A i \in DOMAIN attempts : more[i] = attempts[i]
            /\ more[Len(attempts) + 1] = r
            /\ \A i \in DOMAIN more : i \in DOMAIN attempts \/ i = Len(attempts) + 1
        BY <4>1, AppendedReply DEF S
      <4>3. attempts' = more
        BY <4>1
      <4> HIDE DEF more
      <4> QED BY <4>2, <4>3 DEF S
    <3>2. Len(attempts') <= Retries + 1
      BY <1>1, <3>1, LengthsAreCounted
    <3>3. DeclinesAreFinal'
      BY <1>1, <2>2, <3>1 DEF DeclinesAreFinal
    <3> QED BY <3>1, <3>2, <3>3
  <2> QED BY <2>1, <2>2
<1>3. TypeOK'
  BY <1>2 DEF container, IInv, TypeOK
<1>4. Underway' /\ ComparisonsAgree'
  BY DEF Underway, ComparisonsAgree, IInv
<1> QED BY <1>2, <1>3, <1>4 DEF IInv

LEMMA TextIsTyped == TypeOK => {text.station, text.speed, text.agv} \subseteq Values
<1>1. {Silence.station, Silence.speed, Silence.agv} \subseteq Values
  BY DEF Silence, Values
<1>2. TypeOK => text \in Texts \/ text = Silence
  BY DEF TypeOK
<1> QED BY <1>1, <1>2, GatewayAssumption

LEMMA FallbackIsSafe ==
  ASSUME TypeOK
  PROVE  /\ Fallback \in Call \cup {NoCall}
         /\ ChecksRanges(provider) /\ Fallback # NoCall => Valid(Fallback, TRUE)
BY TextIsTyped, RulesMakeCalls DEF Fallback

LEMMA StepToolReply ==
  ASSUME IInv, NEW r \in Replies \cup ModelCalls, ToolReply(r) PROVE IInv'
<1>1. phase = "tool" /\ attempts' = Append(attempts, r) /\ TypeOK
  BY DEF ToolReply, ToolRequest, IInv
<1>2. CASE Terminal(r) /\ Settle(NoCall, "no tool")
  <2>1. call' = NoCall /\ outcome' = "no tool" /\ phase' = "idle"
        /\ UNCHANGED <<container, text, plan, answer>>
    BY <1>2 DEF Settle
  <2> QED BY <1>1, <2>1, StepSettled DEF CallsAreSafe
<1>3. CASE ~Terminal(r) /\ Passes(r) /\ SettleProposal(Candidate(r))
  <2>1. Candidate(r) \in Call /\ Valid(Candidate(r), ChecksRanges(provider))
    BY <1>3, CandidateIsCall DEF Passes
  <2>2. ChecksRanges(provider) \in BOOLEAN
    BY DEF ChecksRanges
  <2>3. ~(DeclineRetry(provider) /\ IsDecline(r))
    BY <1>3 DEF Terminal
  <2> QED BY <1>1, <1>3, <2>1, <2>2, <2>3, SettledIsSafe, StepSettled
<1>4. CASE ~Terminal(r) /\ ~Repairable /\ SettleProposal(Fallback)
  <2>1. ~(DeclineRetry(provider) /\ IsDecline(r))
    BY <1>4 DEF Terminal
  <2> QED BY <1>1, <1>4, <2>1, FallbackIsSafe, SettledIsSafe, StepSettled
<1>5. CASE /\ ~Terminal(r) /\ Repairable
           /\ UNCHANGED <<container, phase, text, call, outcome, plan, answer>>
  <2>1. /\ attempts \in Seq(Replies \cup ModelCalls) /\ Len(attempts) < Retries
        /\ DeclineRetry(provider) => ~IsDecline(r) /\ \A i \in DOMAIN attempts : ~IsDecline(attempts[i])
        /\ provider' = provider
    BY <1>1, <1>5 DEF IInv, TypeOK, Underway, Terminal, Repairable, container
  <2>2. /\ attempts' \in Seq(Replies \cup ModelCalls) /\ Len(attempts') = Len(attempts) + 1
        /\ \A i \in DOMAIN attempts : attempts'[i] = attempts[i]
        /\ attempts'[Len(attempts')] = r
        /\ \A i \in DOMAIN attempts' : i \in DOMAIN attempts \/ i = Len(attempts')
    BY <1>1, <2>1, AppendedReply
  <2>3. Len(attempts') <= Retries
    BY <2>1, <2>2, LengthsAreCounted
  <2>4. DeclineRetry(provider) => \A i \in DOMAIN attempts' : ~IsDecline(attempts'[i])
    BY <2>1, <2>2
  <2>5. TypeOK'
    <3>1. Len(attempts') <= Retries + 1
      BY <2>2, <2>3, LengthsAreCounted
    <3> QED BY <1>5, <2>2, <3>1 DEF container, IInv, TypeOK
  <2>6. Underway' /\ DeclinesAreFinal'
    BY <2>1, <2>3, <2>4 DEF Underway, DeclinesAreFinal
  <2>7. CallsAreSafe' /\ ComparisonsAgree'
    BY <1>5, <2>1 DEF IInv, CallsAreSafe, ComparisonsAgree
  <2> QED BY <2>5, <2>6, <2>7 DEF IInv
<1> QED BY <1>2, <1>3, <1>4, <1>5 DEF ToolReply

LEMMA StepPathActionReply ==
  ASSUME IInv, NEW r \in Replies \cup ModelCalls, PathActionReply(r) PROVE IInv'
<1>1. phase = "tool" /\ attempts' = Append(attempts, r) /\ ~DeclineRetry(provider)
  BY DEF PathActionReply, ToolRequest, PathAction, DeclineRetry
<1>2. CASE Settle(NoCall, "no tool")
  <2>1. call' = NoCall /\ outcome' = "no tool" /\ phase' = "idle"
        /\ UNCHANGED <<container, text, plan, answer>>
    BY <1>2 DEF Settle
  <2> QED BY <1>1, <2>1, StepSettled DEF CallsAreSafe
<1>3. CASE Passes(r) /\ SettleProposal(Candidate(r))
  <2>1. Candidate(r) \in Call /\ Valid(Candidate(r), ChecksRanges(provider))
    BY <1>3, CandidateIsCall DEF Passes
  <2>2. ChecksRanges(provider) \in BOOLEAN
    BY DEF ChecksRanges
  <2> QED BY <1>1, <1>3, <2>1, <2>2, SettledIsSafe, StepSettled
<1> QED BY <1>2, <1>3 DEF PathActionReply

LEMMA StepNoReply == ASSUME IInv, ToolUnavailable \/ RuleBasedPlan PROVE IInv'
<1>1. phase = "tool" /\ attempts' = attempts
  BY DEF ToolUnavailable, RuleBasedPlan, ToolRequest
<1>2. CASE ToolUnavailable
  <2>1. call' = NoCall /\ outcome' = "unavailable" /\ phase' = "idle"
        /\ UNCHANGED <<container, text, plan, answer>>
    BY <1>2 DEF ToolUnavailable, Settle
  <2> QED BY <1>1, <2>1, StepSettled DEF CallsAreSafe
<1>3. CASE RuleBasedPlan
  <2>1. ~ChecksRanges(provider) /\ SettleProposal(RuleBasedCall(text))
    BY <1>3, RulesCheckNoRanges DEF RuleBasedPlan
  <2>2. RuleBasedCall(text) \in Call \cup {NoCall}
    BY TextIsTyped, RulesMakeCalls DEF IInv
  <2> QED BY <1>1, <2>1, <2>2, SettledIsSafe, StepSettled
<1> QED BY <1>2, <1>3

LEMMA StepCompareRuns == ASSUME IInv, CompareRuns PROVE IInv'
<1>1. /\ UNCHANGED <<container, text, attempts, call, outcome, plan>> /\ phase' = "idle"
  BY DEF CompareRuns
<1>2. CASE answer' = [NoAnswer EXCEPT !.from = "runs"]
  <2>1. answer' \in Answer /\ answer'.compared = <<>>
    BY <1>2, AnswersAreTyped
  <2> QED BY <1>1, <2>1 DEF container, IInv, TypeOK, Underway, CallsAreSafe, DeclinesAreFinal,
     ComparisonsAgree
<1>3. ASSUME NEW older \in Runs, NEW newer \in Runs,
             answer' = [NoAnswer EXCEPT !.from = "runs", !.compared = <<older, newer>>,
                          !.winner = Winner(older, newer)]
      PROVE  IInv'
  <2>1. /\ answer'.from = "runs" /\ answer'.notice = FALSE /\ answer'.grade = "-"
        /\ answer'.compared = <<older, newer>> /\ answer'.winner = Winner(older, newer)
        /\ answer' \in Answer
    BY <1>3, WinnerIsTyped DEF NoAnswer, Answer
  <2>2. \A m \in Shared(older, newer) : m \in KpiNames /\ older.kpis[m] \in Int /\ newer.kpis[m] \in Int
    BY GatewayAssumption DEF Shared, Measured
  <2>3. ComparisonsAgree'
    <3>1. answer'.compared[1] = older /\ answer'.compared[2] = newer
      BY <2>1
    <3>2. \A m \in Shared(older, newer) :
             /\ Better(m, older.kpis[m], newer.kpis[m])
                   => Tone(m, older.kpis[m]) >= Tone(m, newer.kpis[m])
             /\ Better(m, newer.kpis[m], older.kpis[m])
                   => Tone(m, newer.kpis[m]) >= Tone(m, older.kpis[m])
      BY <2>2, BetterIsNotWorse
    <3>3. Winner(older, newer) = "a" <=> Winner(newer, older) = "b"
      BY WinnerIsSymmetric
    <3>4. Winner(newer, older) = "a" <=> Winner(older, newer) = "b"
      BY WinnerIsSymmetric
    <3> QED BY <2>1, <3>1, <3>2, <3>3, <3>4 DEF ComparisonsAgree
  <2>4. TypeOK'
    BY <1>1, <2>1 DEF container, IInv, TypeOK
  <2>5. Underway' /\ CallsAreSafe' /\ DeclinesAreFinal'
    BY <1>1 DEF container, IInv, Underway, CallsAreSafe, DeclinesAreFinal
  <2> QED BY <2>3, <2>4, <2>5 DEF IInv
<1> QED BY <1>2, <1>3 DEF CompareRuns

LEMMA StepReport ==
  ASSUME IInv, NEW run \in Runs, NEW halted \in BOOLEAN, NEW good \in BOOLEAN,
         Report(run, halted, good)
  PROVE  IInv'
<1>1. /\ text' = Silence /\ attempts' = <<>> /\ call' = NoCall /\ outcome' = "none"
      /\ plan' = "none" /\ UNCHANGED <<container, phase>> /\ phase = "idle"
  BY DEF Report
<1>2. PICK g \in {"-", "A", "B", "C"} :
        answer' = [NoAnswer EXCEPT !.from = ReportFrom(good), !.notice = halted, !.grade = g]
  BY GradeIsTyped DEF Report
<1>3. /\ answer' \in Answer
      /\ answer'.compared = <<>>
  BY <1>2 DEF NoAnswer, ReportFrom, Answer
<1>4. TypeOK'
  BY <1>1, <1>3, NoRepliesYet DEF container, IInv, TypeOK
<1>5. Underway' /\ CallsAreSafe' /\ DeclinesAreFinal' /\ ComparisonsAgree'
  BY <1>1, <1>3 DEF Underway, CallsAreSafe, DeclinesAreFinal, ComparisonsAgree
<1> QED BY <1>4, <1>5 DEF IInv

-----------------------------------------------------------------------------
(* Theorems.                                                               *)

\* The properties of the gateway and the replies of a turn under way hold
\* together, inductively.
THEOREM GatewayInvariance == Spec => []IInv
<1>1. ASSUME IInv, [Next]_vars PROVE IInv'
  <2>1. CASE ServerChanges \/ Preload
    BY <1>1, <2>1, StepContainer
  <2>2. CASE \/ \E t \in Texts : Receive(t)
             \/ \E good \in BOOLEAN : NarratePlan(good) \/ FreeAnswer(good)
             \/ \E route \in {"tool", "chat", "compare"} : Classify(route)
    BY <1>1, <2>2, StepTurn
  <2>3. CASE \E r \in Replies \cup ModelCalls : ToolReply(r) \/ PathActionReply(r)
    BY <1>1, <2>3, StepToolReply, StepPathActionReply
  <2>4. CASE ToolUnavailable \/ RuleBasedPlan
    BY <1>1, <2>4, StepNoReply
  <2>5. CASE CompareRuns
    BY <1>1, <2>5, StepCompareRuns
  <2>6. CASE \E run \in Runs, halted, good \in BOOLEAN : Report(run, halted, good)
    BY <1>1, <2>6, StepReport
  <2>7. CASE UNCHANGED vars
    BY <1>1, <2>7, TurnUnchanged DEF vars, container, turn, IInv, TypeOK
  <2> QED BY <1>1, <2>1, <2>2, <2>3, <2>4, <2>5, <2>6, <2>7 DEF Next
<1> QED BY <1>1, InitIInv, PTL DEF Spec

\* The state of a turn is typed and its repair requests are bounded
\* (llm_gateway.py 193-294).
THEOREM GatewayTypeCorrect == Spec => []TypeOK
<1>1. IInv => TypeOK
  BY DEF IInv
<1> QED BY <1>1, GatewayInvariance, PTL

\* Whatever the models write, the call a turn goes on with is well typed and,
\* where the gateway checks ranges, in range (router.py 70-132).
THEOREM GatewayCallsAreSafe == Spec => []CallsAreSafe
<1>1. IInv => CallsAreSafe
  BY DEF IInv
<1> QED BY <1>1, GatewayInvariance, PTL

\* On the routing gateway a decline ends the request: no repair, no rules, no
\* later reply (llm_gateway.py 239-281).
THEOREM GatewayDeclinesAreFinal == Spec => []DeclinesAreFinal
<1>1. IInv => DeclinesAreFinal
  BY DEF IInv
<1> QED BY <1>1, GatewayInvariance, PTL

\* A comparison agrees with the tones of both reports and does not depend on
\* the order of the runs, for every pair of runs (evaluation.py 210-291).
THEOREM GatewayComparisonsAgree == Spec => []ComparisonsAgree
<1>1. IInv => ComparisonsAgree
  BY DEF IInv
<1> QED BY <1>1, GatewayInvariance, PTL
=============================================================================
