----------------------------- MODULE LlmGateway -----------------------------
(***************************************************************************)
(* What a chat turn asks of the language models, and what it makes of the  *)
(* replies: the plan it narrates, the intent, the tool call with its       *)
(* repair retry and rule-based fallback, the free answer and the report.   *)
(* Requests are refused until the model servers of the configured provider *)
(* have answered a preload.                                                *)
(*                                                                         *)
(* Argument values are classes: "ok" and "bad" are numbers inside and      *)
(* outside the allowed range, "okText" and "badText" the same numbers as   *)
(* text, "junk" other text, "flag" a JSON boolean.                         *)
(***************************************************************************)
EXTENDS RunEvaluation

CONSTANTS Providers,    \* the values of LLM_PROVIDER looked at
          Retries,      \* structured_retry_count
          Texts,        \* operator texts: [words, station, speed, agv]
          ModelCalls,   \* the tool calls a model may write: [name, args]
          Runs          \* finished runs to report on: [kpis, verdict, grid, mask]

Servers == {"ollama", "llama_cpp"}
Tools == {"run_station_task", "move_to_station", "inspect_station", "cancel_command",
          "start_simulation", "stop_simulation", "pause_simulation",
          "resume_simulation", "set_sim_speed"}
Keys == {"station_id", "speed_multiplier", "agv_count", "command_id", "priority"}
Values == {"absent", "ok", "bad", "okText", "badText", "junk", "flag"}
Call == [name : Tools, args : [Keys -> Values]]
NoCall == [name |-> "none", args |-> [k \in Keys |-> "absent"]]

\* The tool names of ModelCalls are known ones: an unknown name is the reply Unknown.
ASSUME GatewayAssumption ==
    /\ Retries \in Nat
    /\ ModelCalls \subseteq Call
    /\ \A t \in Texts : {t.station, t.speed, t.agv} \subseteq Values
    /\ \A run \in Runs : run.kpis \in [KpiNames -> Int]

---------------------------------------------------------------------------
(* The providers and the gateways they build.                              *)

LocalProviders == {"ollama", "llama_cpp", "routing_split", "adapter_toggle"}

\* Which servers the gateway talks to, and which does the tool planning.
ServersOf(p) == CASE p = "ollama"         -> {"ollama"}
                  [] p = "routing_split"  -> {"ollama", "llama_cpp"}
                  [] p \in {"llama_cpp", "llamacpp", "adapter_toggle"} -> {"llama_cpp"}
                  [] OTHER                -> {}
ToolServer(p) == IF p = "ollama" THEN "ollama" ELSE "llama_cpp"
TextServer(p) == IF p \in {"ollama", "routing_split"} THEN "ollama" ELSE "llama_cpp"

RuleBased(p) == ServersOf(p) = {}
PathAction(p) == p = "adapter_toggle"
DeclineRetry(p) == p = "routing_split"
ChecksRanges(p) == p \in {"routing_split", "adapter_toggle"}
Normalizes(p) == p \in {"routing_split", "adapter_toggle"}

---------------------------------------------------------------------------
(* The tool router.                                                        *)

Required(tool) == CASE tool \in {"run_station_task", "move_to_station", "inspect_station"}
                                              -> {"station_id"}
                    [] tool = "cancel_command" -> {"command_id"}
                    [] tool = "set_sim_speed"  -> {"speed_multiplier"}
                    [] OTHER                   -> {}

\* Python's bool is an int: a flag passes as a station or a speed.
Accepted == [ station_id |-> {"absent", "ok", "bad", "flag"},
              speed_multiplier |-> {"absent", "ok", "bad", "flag"},
              agv_count |-> Values,
              command_id |-> Values \ {"flag", "bad"},
              priority |-> {"absent", "ok"} ]

InRange == [ station_id |-> Values \ {"bad"}, speed_multiplier |-> Values \ {"bad"},
             agv_count |-> {"absent", "ok"}, command_id |-> Values, priority |-> Values ]

WellTyped(c) == /\ \A k \in Required(c.name) : c.args[k] # "absent"
                /\ \A k \in Keys : c.args[k] \in Accepted[k]

Valid(c, ranges) == WellTyped(c) /\ (ranges => \A k \in Keys : c.args[k] \in InRange[k])

\* Numbers written as text become numbers; anything else stays what it is.
Coerced(v) == CASE v = "okText" -> "ok" [] v = "badText" -> "bad" [] OTHER -> v
Normalized(c) ==
    [c EXCEPT !.args = [k \in Keys |->
        IF k \in {"station_id", "agv_count", "speed_multiplier"} THEN Coerced(@[k]) ELSE @[k]]]

---------------------------------------------------------------------------
(* The rule-based fallback: the first rule whose words occur in the text.  *)

Arg(k, v) == [NoCall.args EXCEPT ![k] = v]

RuleBasedCall(text) ==
    LET says(w) == w \in text.words
        call(tool, args) == [name |-> tool, args |-> args]
    IN  IF says("pause") THEN call("pause_simulation", NoCall.args)
        ELSE IF says("resume") THEN call("resume_simulation", NoCall.args)
        ELSE IF says("speed") /\ text.speed # "absent"
             THEN call("set_sim_speed", Arg("speed_multiplier", text.speed))
        ELSE IF says("start")
             THEN call("start_simulation",
                       [Arg("agv_count", text.agv) EXCEPT !["speed_multiplier"] = text.speed])
        ELSE IF says("stop") THEN call("stop_simulation", NoCall.args)
        ELSE IF text.station = "absent"
             THEN IF says("add") /\ text.agv # "absent"
                  THEN call("start_simulation", Arg("agv_count", text.agv)) ELSE NoCall
        ELSE IF says("run") THEN call("run_station_task", Arg("station_id", text.station))
        ELSE IF says("inspect") THEN call("inspect_station", Arg("station_id", text.station))
        ELSE NoCall

---------------------------------------------------------------------------
(* What a model's reply to a tool request is.                              *)

Reply(kind) == [name |-> kind, args |-> NoCall.args]
Prose == Reply("prose")                 \* content that is not JSON
Empty == Reply("empty")                 \* no content and no tool call
Nameless == Reply("nameless")           \* a JSON object that names no tool
Declined == Reply("declined")           \* a name or decision that says: no tool
Unknown == Reply("unknown")             \* an unsupported tool, arguments that do not parse
NativeNameless == Reply("nativeNone")   \* a native tool call without a name

Replies == {Prose, Empty, Nameless, Declined, Unknown, NativeNameless}

IsDecline(r) == r \in {Empty, Nameless, Declined}
NamesNoCall(r) == r \in {Prose, Empty, NativeNameless}

---------------------------------------------------------------------------

VARIABLES provider, up, status, loaded,     \* the container and its servers
          phase,      \* what the turn asks for next
          text,       \* the operator's text of the turn
          attempts,   \* last_tool_attempts: the replies to the tool request
          call,       \* the tool call the turn goes on with
          outcome,    \* how the tool planning ended
          plan,       \* where the narrated plan is from: "llm" or "rules"
          answer      \* the last text for the operator: its source and notice

container == <<provider, up, status, loaded>>
turn == <<phase, text, attempts, call, outcome, plan, answer>>
vars == <<container, turn>>

NoAnswer == [ from |-> "none", notice |-> FALSE, grade |-> "-",
              compared |-> <<>>, winner |-> "none" ]
Silence == [words |-> {}, station |-> "absent", speed |-> "absent", agv |-> "absent"]

Init == /\ provider \in Providers
        /\ up \in SUBSET ServersOf(provider)
        /\ status = IF provider \in LocalProviders THEN "loading" ELSE "ready"
        /\ loaded = FALSE
        /\ phase = "idle"
        /\ text = Silence
        /\ attempts = <<>>
        /\ call = NoCall
        /\ outcome = "none"
        /\ plan = "none"
        /\ answer = NoAnswer

\* Model servers come and go; the backend does not notice.
ServerChanges == /\ \E s \in ServersOf(provider) : up' = (up \ {s}) \cup ({s} \ up)
                 /\ UNCHANGED <<provider, status, loaded, turn>>

\* Mutant: the preload is tried once.
PreloadOnce == /\ status = "loading"
               /\ status' = IF ServersOf(provider) \subseteq up THEN "ready" ELSE "failed"
               /\ loaded' = (ServersOf(provider) \subseteq up)
               /\ UNCHANGED <<provider, up, turn>>

\* preload_llm: ready as soon as every server has answered once, else retry.
Preload == /\ status = "loading"
           /\ ServersOf(provider) \subseteq up
           /\ status' = "ready"
           /\ loaded' = TRUE
           /\ UNCHANGED <<provider, up, turn>>

\* post_chat_message refuses with 503 until the models are ready.
Receive(t) == /\ phase = "idle"
              /\ status = "ready"
              /\ phase' = "plan"
              /\ text' = t
              /\ attempts' = <<>>
              /\ call' = NoCall
              /\ outcome' = "none"
              /\ plan' = "none"
              /\ answer' = NoAnswer
              /\ UNCHANGED container

\* The rules always answer; a model may fail, and fails when its server is down.
Answers(server, good) == IF RuleBased(provider) THEN good ELSE good => server \in up

\* generate_plan_steps: two to five steps, or those of the planning rules.
NarratePlan(good) == /\ phase = "plan"
                     /\ Answers(TextServer(provider), good)
                     /\ phase' = "intent"
                     /\ plan' = IF good THEN "llm" ELSE "rules"
                     /\ UNCHANGED <<container, text, attempts, call, outcome, answer>>

\* classify_intent: any failure or unknown word leaves it to the key words.
Classify(route) == /\ phase = "intent"
                   /\ route \in {"tool", "chat", "compare"}
                   /\ phase' = route
                   /\ UNCHANGED <<container, text, attempts, call, outcome, plan, answer>>

Settle(c, how) == /\ call' = c
                  /\ outcome' = how
                  /\ phase' = "idle"
                  /\ UNCHANGED <<container, text, plan, answer>>

\* RobotControlAgent.plan_tool_call validates what the gateway returns once
\* more, without the ranges.
SettleProposal(c) == IF c = NoCall THEN Settle(NoCall, "no tool")
                     ELSE IF Valid(c, FALSE) THEN Settle(c, "call")
                     ELSE Settle(NoCall, "invalid")

\* Mutant: the call of the rules is not checked against the ranges.
UncheckedFallback == RuleBasedCall(text)

\* The rules get the text when every reply was malformed; their call is
\* checked against the ranges too.
Fallback == LET c == RuleBasedCall(text)
            IN  IF ChecksRanges(provider) /\ c # NoCall /\ ~Valid(c, TRUE) THEN NoCall ELSE c

ToolRequest == phase = "tool" /\ ~RuleBased(provider)

\* A transport failure is not caught by the gateway: the turn reports it.
ToolUnavailable == /\ ToolRequest
                   /\ attempts' = attempts
                   /\ Settle(NoCall, "unavailable")

\* Mutant: a reply that declines is repaired like a malformed one.
NeverTerminal(r) == FALSE

\* Does the reply end the request without a tool?
Terminal(r) == DeclineRetry(provider) /\ (IsDecline(r) \/ NamesNoCall(r))

\* The reply as a call, if it is one and passes the checks of this gateway.
Candidate(r) == IF Normalizes(provider) THEN Normalized(r) ELSE r
Passes(r) == r \notin Replies /\ Valid(Candidate(r), ChecksRanges(provider))

\* Mutant: one request too many.
RepairOnceMore == Len(attempts) <= Retries

\* May a malformed reply be sent back with the repair message?
Repairable == Len(attempts) < Retries

\* OllamaLlmGateway.propose_tool_call, one request and its reply.
ToolReply(r) ==
    /\ ToolRequest
    /\ ~PathAction(provider)
    /\ Answers(ToolServer(provider), TRUE)
    /\ attempts' = Append(attempts, r)
    /\ \/ Terminal(r) /\ Settle(NoCall, "no tool")
       \/ ~Terminal(r) /\ Passes(r) /\ SettleProposal(Candidate(r))
       \/ /\ ~Terminal(r) /\ ~Passes(r)
          /\ IF Repairable
             THEN UNCHANGED <<container, phase, text, call, outcome, plan, answer>>
             ELSE SettleProposal(Fallback)

\* PathActionRoutingGateway.propose_tool_call: one request, no repair and no
\* rules; a move is for internal use only.
PathActionReply(r) ==
    /\ ToolRequest
    /\ PathAction(provider)
    /\ Answers(ToolServer(provider), TRUE)
    /\ attempts' = Append(attempts, r)
    /\ IF Passes(r) /\ r.name # "move_to_station"
       THEN SettleProposal(Candidate(r)) ELSE Settle(NoCall, "no tool")

\* RuleBasedLlmGateway.propose_tool_call.
RuleBasedPlan == /\ phase = "tool"
                 /\ RuleBased(provider)
                 /\ attempts' = attempts
                 /\ SettleProposal(RuleBasedCall(text))

\* generate_chat_response: an empty or failed answer is reported as such.
FreeAnswer(good) == /\ phase = "chat"
                    /\ Answers(TextServer(provider), good)
                    /\ phase' = "idle"
                    /\ answer' = [NoAnswer EXCEPT !.from = IF good THEN "llm" ELSE "unavailable"]
                    /\ UNCHANGED <<container, text, attempts, call, outcome, plan>>

\* _compare_recent_runs: the two newest runs that have KPIs, if there are two.
CompareRuns == /\ phase = "compare"
               /\ phase' = "idle"
               /\ \/ answer' = [NoAnswer EXCEPT !.from = "runs"]
                  \/ \E older, newer \in {run \in Runs : Measured(run.kpis) # {}} :
                       answer' = [NoAnswer EXCEPT !.from = "runs",
                                    !.compared = <<older, newer>>,
                                    !.winner = Winner(older, newer)]
               /\ UNCHANGED <<container, text, attempts, call, outcome, plan>>

\* generate_report: the model's text, or that of the fallback report.
ReportFrom(good) == IF good THEN "llm" ELSE "rules"

\* ReportAgent.generate_report on a completed run: the graded evaluation goes
\* into the prompt or, when the model fails, behind the fallback report; a
\* collision halt is announced in front of either. A report reads nothing of a
\* turn: the record of the last one is closed.
Report(run, halted, good) ==
    LET stats == HeatmapStats(run.grid, run.mask, 2)
    IN  /\ phase = "idle"
        /\ Answers(TextServer(provider), good)
        /\ answer' = [NoAnswer EXCEPT
                         !.from = ReportFrom(good), !.notice = halted,
                         !.grade = Evaluation(run.kpis, stats, run.verdict).grade]
        /\ text' = Silence /\ attempts' = <<>>
        /\ call' = NoCall /\ outcome' = "none" /\ plan' = "none"
        /\ UNCHANGED <<container, phase>>

Next == \/ ServerChanges
        \/ Preload
        \/ \E t \in Texts : Receive(t)
        \/ \E good \in BOOLEAN : NarratePlan(good) \/ FreeAnswer(good)
        \/ \E route \in {"tool", "chat", "compare"} : Classify(route)
        \/ \E r \in Replies \cup ModelCalls : ToolReply(r) \/ PathActionReply(r)
        \/ ToolUnavailable
        \/ RuleBasedPlan
        \/ CompareRuns
        \/ \E run \in Runs, halted, good \in BOOLEAN : Report(run, halted, good)

\* The preload loop retries for ever; the steps of a turn are awaited.
TurnStep == \/ \E good \in BOOLEAN : NarratePlan(good) \/ FreeAnswer(good)
            \/ \E route \in {"tool", "chat", "compare"} : Classify(route)
            \/ \E r \in Replies \cup ModelCalls : ToolReply(r) \/ PathActionReply(r)
            \/ ToolUnavailable
            \/ RuleBasedPlan
            \/ CompareRuns

Spec == Init /\ [][Next]_vars /\ WF_vars(Preload) /\ WF_vars(TurnStep)

---------------------------------------------------------------------------
(* Properties.                                                             *)

Answer == [ from : {"none", "llm", "rules", "unavailable", "runs"},
            notice : BOOLEAN, grade : {"-", "A", "B", "C"},
            compared : {<<>>} \cup (Runs \X Runs), winner : {"none", "a", "b", "tie"} ]

\* Every variable has its type; the repair retries are bounded.
TypeOK == /\ provider \in Providers
          /\ up \subseteq Servers
          /\ status \in {"loading", "ready"}
          /\ loaded \in BOOLEAN
          /\ phase \in {"idle", "plan", "intent", "tool", "chat", "compare"}
          /\ text \in Texts \cup {Silence}
          /\ attempts \in Seq(Replies \cup ModelCalls)
          /\ Len(attempts) <= Retries + 1
          /\ call \in Call \cup {NoCall}
          /\ outcome \in {"none", "call", "no tool", "invalid", "unavailable"}
          /\ plan \in {"none", "llm", "rules"}
          /\ answer \in Answer

\* Whatever a model writes, and whichever path takes its place, the call a turn
\* goes on with has its required arguments with the right types, and none out
\* of range when the gateway checks ranges (llm_gateway.py:282-293: the rules
\* must not smuggle back a value the validator has just rejected).
CallsAreSafe == call # NoCall =>
    /\ WellTyped(call)
    /\ ChecksRanges(provider) => \A k \in Keys : call.args[k] # "bad"

\* A model that declines on the routing gateway is not asked again, and neither
\* the rules nor a later reply act in its place (llm_gateway.py:239-281).
DeclinesAreFinal == \A i \in DOMAIN attempts :
    DeclineRetry(provider) /\ IsDecline(attempts[i])
        => /\ i = Len(attempts)
           /\ outcome = "no tool" /\ call = NoCall

\* When the model servers come up and stay up, the backend becomes ready
\* without a restart (main.py:24-26).
EventuallyReady == (<>[](up = ServersOf(provider))) => <>(status = "ready")

\* In a comparison told to the operator, a metric won agrees with the tones that
\* the report of each run gave it (evaluation.py:210-211, two tables kept by hand),
\* and the winner does not depend on which of the two runs is the newer one.
ComparisonsAgree == answer.compared # <<>> =>
    LET older == answer.compared[1]
        newer == answer.compared[2]
        swapped == Winner(newer, older)
    IN  /\ \A m \in Shared(older, newer) :
             /\ Better(m, older.kpis[m], newer.kpis[m])
                   => Tone(m, older.kpis[m]) >= Tone(m, newer.kpis[m])
             /\ Better(m, newer.kpis[m], older.kpis[m])
                   => Tone(m, newer.kpis[m]) >= Tone(m, older.kpis[m])
        /\ answer.winner = "a" <=> swapped = "b"
        /\ answer.winner = "b" <=> swapped = "a"
===========================================================================
