--------------------------- MODULE KnowledgeBase ---------------------------
(***************************************************************************)
(* What the chatbot looks up: the ontology graph over stations and runs,   *)
(* the memo it is kept in, the answer to a relational question, and the    *)
(* ranking of the chunks a vector search returns.                          *)
(*                                                                         *)
(* A question is the set of its words; texts and scores are left out where *)
(* only their order matters.  No variable is declared here: Records is the *)
(* state machine that asks.                                                *)
(***************************************************************************)
EXTENDS Integers, SequencesExt

NoZone == "none"
NoCapability == "none"
NoRate == -1
NoKpis == [rate |-> NoRate, heat |-> <<>>]

CapabilitiesOf(type) ==
    CASE type \in {"loading", "pickup"}    -> {"load", "pickup", "station_task"}
      [] type = "work"                     -> {"process", "work", "station_task"}
      [] type = "inspection"               -> {"inspect", "inspection", "qa"}
      [] type \in {"unloading", "dropoff"} -> {"unload", "dropoff", "station_task"}
      [] type = "charger"                  -> {"charge", "battery"}
      [] OTHER                             -> {"station_task"}

\* The longest alias is looked for first; aliases of one length in table order.
ZoneAliases == <<<<"zone 1", "A">>, <<"zone 2", "B">>, <<"zone 3", "C">>,
                 <<"zone1", "A">>, <<"zone2", "B">>, <<"zone3", "C">>,
                 <<"1", "A">>, <<"a", "A">>, <<"2", "B">>, <<"b", "B">>,
                 <<"3", "C">>, <<"c", "C">>>>

CapabilityAliases == <<<<"station task", "station_task">>, <<"inspection", "inspect">>,
                       <<"unloading", "unload">>, <<"inspect", "inspect">>, <<"loading", "load">>,
                       <<"dropoff", "dropoff">>, <<"process", "process">>, <<"charger", "charge">>,
                       <<"battery", "battery">>, <<"pickup", "pickup">>, <<"unload", "unload">>,
                       <<"charge", "charge">>, <<"load", "load">>, <<"work", "process">>,
                       <<"qa", "inspect">>>>

\* The members of a finite set, from the first to the last of an order on them.
Arranged(S, before) ==
    CHOOSE q \in [1 .. Cardinality(S) -> S] :
        ToSet(q) = S /\ \A m, n \in DOMAIN q : m < n => <<q[m], q[n]>> \in before

Ascending(S) == Arranged(S, {p \in S \X S : p[1] < p[2]})

\* What stands in a sequence at some positions of it.
Kept(seq, positions) ==
    LET order == Ascending(positions) IN [k \in DOMAIN order |-> seq[order[k]]]

FirstOf(aliases, words, none) ==
    LET found == SelectSeq(aliases, LAMBDA a : a[1] \in words)
    IN IF found = <<>> THEN none ELSE found[1][2]

ParseZone(words) == FirstOf(ZoneAliases, words, NoZone)
ParseCapability(words) == FirstOf(CapabilityAliases, words, NoCapability)
NormalizeZone(name) == FirstOf(ZoneAliases, {name}, NoZone)

IsRelationalQuery(words) ==
    /\ words \cap {"which station", "can handle", "capability", "zone", "bottleneck rate"} # {}
    /\ words \cap {"which station", "station", "zone", "capability"} # {}

(***************************************************************************)
(* The graph.  Stations are [id, type, zone, state], state standing for    *)
(* task_ready, accessible and state; runs are [id, status, ended, kpis],   *)
(* their ids in the order of created_at.                                   *)
(***************************************************************************)
StationZone(station) ==
    LET zone == NormalizeZone(station.zone) IN IF zone = NoZone THEN station.zone ELSE zone

ZonesFromKpis(kpis) == {NormalizeZone(z) : z \in DOMAIN kpis.heat} \ {NoZone}

Graph(stations, runs) ==
    LET zones == {StationZone(s) : s \in stations}
    IN [nodes |-> [station |-> stations, zone |-> zones,
                   capability |-> UNION {CapabilitiesOf(s.type) : s \in stations},
                   run |-> {[id |-> r.id, status |-> r.status, ended |-> r.ended] : r \in runs},
                   kpi |-> {<<r.id, r.kpis.rate>> : r \in {x \in runs : x.kpis.rate # NoRate}}],
        edges |-> [contains |-> {<<StationZone(s), s.id>> : s \in stations},
                   has |-> UNION {{<<s.id, c>> : c \in CapabilitiesOf(s.type)} : s \in stations},
                   affects |-> UNION {{<<r.id, z>> : z \in ZonesFromKpis(r.kpis) \cap zones}
                                        : r \in runs}]]

\* Mutant: a key without what changes about a station.
FingerprintOfPlaces(stations, runs) ==
    <<{[id |-> s.id, type |-> s.type, zone |-> s.zone] : s \in stations},
      {[id |-> r.id, status |-> r.status, ended |-> r.ended, kpis |-> r.kpis] : r \in runs}>>

\* The runs' part of the key has neither the speed nor the result; the graph
\* has neither of them.
Fingerprint(stations, runs) ==
    <<stations, {[id |-> r.id, status |-> r.status, ended |-> r.ended, kpis |-> r.kpis] : r \in runs}>>

(* The memo: the least recently used entry first. *)
Lookup(memo, stations, runs) ==
    LET key == Fingerprint(stations, runs)
        hits == {e \in ToSet(memo) : e.key = key}
    IN IF hits = {} THEN [key |-> key, graph |-> Graph(stations, runs)] ELSE CHOOSE e \in hits : TRUE

Others(memo, entry) == Kept(memo, {m \in DOMAIN memo : memo[m].key # entry.key})

\* Mutant: nothing is evicted.
TouchAndKeep(memo, entry, size) == Append(Others(memo, entry), entry)

Touch(memo, entry, size) ==
    LET kept == Append(Others(memo, entry), entry)
    IN SubSeq(kept, 1 + (IF Len(kept) > size THEN Len(kept) - size ELSE 0), Len(kept))

(***************************************************************************)
(* The answer to a relational question.                                    *)
(***************************************************************************)
StationsForQuery(graph, zone, capability) ==
    {s \in graph.nodes.station :
        /\ zone # NoZone => StationZone(s) = zone
        /\ capability # NoCapability => capability \in CapabilitiesOf(s.type)}

Newest(runs) == IF runs = {} THEN [run |-> 0, value |-> NoRate]
                ELSE LET r == CHOOSE r \in runs : \A x \in runs : x.run <= r.run IN r

LatestMetric(runs) ==
    Newest({[run |-> r.id, value |-> r.kpis.rate] : r \in {x \in runs : x.kpis.rate # NoRate}})

LatestZoneMetric(runs, zone) ==
    Newest(UNION {{[run |-> r.id, value |-> r.kpis.heat[z]]
                     : z \in {y \in DOMAIN r.kpis.heat : FirstOf(ZoneAliases, {y}, y) = zone}}
                     : r \in runs})

NoAnswer == [kind |-> "none"]

\* Nothing is answered from a graph that has no station for the question.
GraphAnswer(words, graph, runs) ==
    LET chosen == StationsForQuery(graph, ParseZone(words), ParseCapability(words))
    IN IF ~IsRelationalQuery(words) \/ chosen = {} THEN NoAnswer
       ELSE [kind |-> "graph", graph |-> graph,
             stations |-> {[station |-> s, rate |-> LatestZoneMetric(runs, StationZone(s))] : s \in chosen},
             latest |-> LatestMetric(runs)]

(***************************************************************************)
(* The vector search.  A hit is [doc, score, fused], best score first;     *)
(* fused is what the score and the words it shares with the question come  *)
(* to together.                                                            *)
(***************************************************************************)
Longest(seq, n) == SubSeq(seq, 1, IF Len(seq) < n THEN Len(seq) ELSE n)

\* Mutant: a candidate named twice is taken twice.
EachNamed(hits, reply) == {r \in DOMAIN reply : reply[r] \in DOMAIN hits}

\* The positions of a model's reply that name a candidate for the first time.
FirstNamed(hits, reply) ==
    {r \in DOMAIN reply : reply[r] \in DOMAIN hits /\ \A s \in 1 .. r - 1 : reply[s] # reply[r]}

LlmRerank(hits, reply, topK) ==
    LET named == Kept(reply, FirstNamed(hits, reply))
        order == named \o Ascending((DOMAIN hits) \ ToSet(reply))
    IN Longest([k \in DOMAIN order |-> hits[order[k]]], topK)

\* The sort is stable: hits with one fused score stay in the order found.
LexicalRerank(hits) ==
    LET before == {p \in (DOMAIN hits) \X (DOMAIN hits) :
                     \/ hits[p[1]].fused > hits[p[2]].fused
                     \/ hits[p[1]].fused = hits[p[2]].fused /\ p[1] < p[2]}
        order == Arranged(DOMAIN hits, before)
    IN [k \in DOMAIN order |-> hits[order[k]]]

AboveMinimum(hits, minScore) == Kept(hits, {h \in DOMAIN hits : hits[h].score >= minScore})

\* reply is what the ranking model writes, [kind, ids]: ids it names ("ids"),
\* a failing server or a text that holds no ids ("unusable"), or JSON that is
\* not an object ("noObject").  The last one raises what no handler expects.
Raises(mode, hits, reply) == hits # <<>> /\ mode = "llm" /\ reply.kind = "noObject"

\* What does not raise.  A question without words is ranked as "off" ranks it.
Rerank(mode, hits, reply, topK) ==
    IF hits = <<>> \/ mode = "off" THEN hits
    ELSE IF mode = "llm" /\ reply.kind = "ids" THEN LlmRerank(hits, reply.ids, topK)
    ELSE LexicalRerank(hits)
=============================================================================
