-------------------------- MODULE ChatTurnProofs --------------------------
(***************************************************************************)
(* Chat turns and the live search, proved for any number of turns and      *)
(* searches, any texts, fleets, goals and measured rates: what was held    *)
(* for confirmation is issued once, a search has one run at a time, and    *)
(* unless it is cut short it finds the largest fleet that meets the goal.  *)
(***************************************************************************)
EXTENDS ChatTurn, SequenceTheorems, WellFoundedInduction, TLAPS

-----------------------------------------------------------------------------
(* Induction, as a fact about sets of naturals.                            *)

Before == OpToRel(<, Nat)

LEMMA BeforeIs == \A m, n \in Nat : m < n => <<m, n>> \in Before
BY DEF Before, OpToRel

LEMMA BeforeWellFounded == IsWellFoundedOn(Before, Nat)
BY NatLessThanWellFounded, Zenon DEF Before

LEMMA SetInduction ==
  ASSUME NEW S, 0 \in S, \A n \in Nat : n \in S => n + 1 \in S
  PROVE  Nat \subseteq S
<1> DEFINE T == Nat \ S
<1>1. SUFFICES ASSUME T # {} PROVE FALSE
  OBVIOUS
<1>2. PICK x \in T : \A y \in T : ~(<<y, x>> \in Before)
  BY <1>1, BeforeWellFounded, WFMin, T \subseteq Nat
<1>3. x \in Nat /\ x # 0 /\ x - 1 \in Nat /\ x - 1 < x
  OBVIOUS
<1>4. <<x - 1, x>> \in Before
  BY <1>3, BeforeIs
<1>5. x - 1 \in S
  BY <1>2, <1>3, <1>4
<1>6. x - 1 + 1 \in S /\ x - 1 + 1 = x
  BY <1>3, <1>5
<1> QED BY <1>6

\* The largest member of a bounded set of naturals is one of them.
LEMMA MaxIsMember ==
  ASSUME NEW n \in Nat, NEW C, C \subseteq 1 .. n, C # {}
  PROVE  Max(C) \in C /\ \A c \in C : c <= Max(C)
<1> DEFINE Bounded(m) == (\A c \in C : c <= m) => \E x \in C : \A y \in C : x >= y
           N == {m \in Nat : Bounded(m)}
<1>1. 0 \in N
  <2>0. PICK c : c \in C
    OBVIOUS
  <2>1. c \in 1 .. n /\ ~(c <= 0)
    BY <2>0
  <2>2. Bounded(0)
    BY <2>0, <2>1
  <2> HIDE DEF Bounded
  <2> QED BY <2>2
<1>2. ASSUME NEW m \in Nat, m \in N PROVE m + 1 \in N
  <2>1. Bounded(m)
    BY <1>2
  <2>2. Bounded(m + 1)
    <3>1. SUFFICES ASSUME \A c \in C : c <= m + 1
                   PROVE  \E x \in C : \A y \in C : x >= y
      OBVIOUS
    <3>2. CASE m + 1 \in C
      BY <3>1, <3>2
    <3>3. CASE m + 1 \notin C
      <4>1. \A c \in C : c <= m
        BY <3>1, <3>3
      <4> QED BY <4>1, <2>1
    <3> QED BY <3>2, <3>3
  <2> HIDE DEF Bounded
  <2> QED BY <2>2
<1>3. Nat \subseteq N
  <2> HIDE DEF N
  <2> QED BY <1>1, <1>2, SetInduction
<1>4. \E x \in C : \A y \in C : x >= y
  <2>1. Bounded(n)
    <3> HIDE DEF Bounded
    <3> QED BY <1>3
  <2> QED BY <2>1
<1>5. Max(C) \in C /\ \A y \in C : Max(C) >= y
  BY <1>4 DEF Max
<1> QED BY <1>5

-----------------------------------------------------------------------------
(* The deterministic search.                                               *)

\* The counts from m down to c.
Down(m, c) == [i \in 1 .. m - c + 1 |-> m + 1 - i]

\* No count above c meets the goal.
UnmetAbove(goal, rates, c) ==
    \A d \in 1 .. goal.most : d > c => ~GoalSatisfied(rates[d], goal)

\* The search stops at c: it is the first from the top that meets the goal, or 1.
StopsAt(goal, rates, c) ==
    /\ c \in 1 .. goal.most
    /\ UnmetAbove(goal, rates, c)
    /\ GoalSatisfied(rates[c], goal) \/ c = 1

LEMMA DownIsSeq ==
  ASSUME NEW m \in Nat, NEW c \in 1 .. m + 1
  PROVE  /\ Down(m, c) \in Seq(Nat)
         /\ Len(Down(m, c)) = m - c + 1
         /\ \A i \in 1 .. m - c + 1 : Down(m, c)[i] = m + 1 - i
<1>1. m - c + 1 \in Nat /\ \A i \in 1 .. m - c + 1 : m + 1 - i \in Nat
  OBVIOUS
<1> QED BY <1>1 DEF Down

LEMMA DownOne ==
  ASSUME NEW c \in Nat \ {0}
  PROVE  <<c>> = Down(c, c)
<1>1. /\ <<c>> \in Seq(Nat) /\ Len(<<c>>) = 1 /\ <<c>>[1] = c
  OBVIOUS
<1> DEFINE d == Down(c, c)
<1>2. c \in Nat /\ c \in 1 .. c + 1 /\ c - c + 1 = 1 /\ c + 1 - 1 = c
  OBVIOUS
<1>3. d \in Seq(Nat) /\ Len(d) = c - c + 1 /\ \A i \in 1 .. c - c + 1 : d[i] = c + 1 - i
  BY <1>2, DownIsSeq
<1> HIDE DEF d
<1>4. Len(d) = 1 /\ d[1] = c
  BY <1>2, <1>3
<1>5. <<c>> = d
  BY <1>1, <1>3, <1>4, SeqEqual
<1> QED BY <1>5 DEF d

LEMMA DownMore ==
  ASSUME NEW m \in Nat, NEW c \in 1 .. m
  PROVE  <<m + 1>> \o Down(m, c) = Down(m + 1, c)
<1> DEFINE s == <<m + 1>>
           d == Down(m, c)
           e == Down(m + 1, c)
<1>1. s \in Seq(Nat) /\ Len(s) = 1 /\ s[1] = m + 1
  OBVIOUS
<1>2. d \in Seq(Nat) /\ Len(d) = m - c + 1 /\ \A i \in 1 .. m - c + 1 : d[i] = m + 1 - i
  BY DownIsSeq
<1>3. e \in Seq(Nat) /\ Len(e) = m - c + 2 /\ \A i \in 1 .. m - c + 2 : e[i] = m + 2 - i
  <2>1. m + 1 \in Nat /\ c \in 1 .. (m + 1) + 1
    OBVIOUS
  <2>2. e \in Seq(Nat) /\ Len(e) = (m + 1) - c + 1
        /\ \A i \in 1 .. (m + 1) - c + 1 : e[i] = (m + 1) + 1 - i
    BY <2>1, DownIsSeq
  <2> HIDE DEF e
  <2> QED BY <2>2
<1> HIDE DEF s, d, e
<1>4. /\ s \o d \in Seq(Nat) /\ Len(s \o d) = Len(s) + Len(d)
      /\ \A i \in 1 .. Len(s) + Len(d) :
           (s \o d)[i] = IF i <= Len(s) THEN s[i] ELSE d[i - Len(s)]
  <2>1. s \in Seq(Nat) /\ d \in Seq(Nat)
    BY <1>1, <1>2
  <2> QED BY <2>1, ConcatProperties
<1>5. ASSUME NEW i \in 1 .. m - c + 2 PROVE (s \o d)[i] = e[i]
  <2>0. i \in 1 .. Len(s) + Len(d) /\ i \in Int
    BY <1>1, <1>2
  <2>1. CASE i = 1
    BY <2>0, <2>1, <1>1, <1>3, <1>4
  <2>2. CASE i > 1
    <3>1. i - 1 \in 1 .. m - c + 1 /\ m + 1 - (i - 1) = m + 2 - i
      BY <2>2
    <3>2. (s \o d)[i] = d[i - 1]
      BY <2>0, <2>2, <1>1, <1>4
    <3> QED BY <3>1, <3>2, <1>2, <1>3
  <2>3. i >= 1
    OBVIOUS
  <2> QED BY <2>0, <2>1, <2>2, <2>3
<1>6. Len(s \o d) = m - c + 2
  BY <1>1, <1>2, <1>4
<1>7. s \o d = e
  BY <1>3, <1>4, <1>5, <1>6, SeqEqual
<1> QED BY <1>7 DEF s, d, e

\* The recursion of SearchSteps, and that a function satisfies it.
Rest(goal, rates, f, c) ==
    IF c = 0 THEN <<>>
    ELSE IF GoalSatisfied(rates[c], goal) THEN <<c>> ELSE <<c>> \o f[c - 1]

LEMMA RestUnmet ==
  ASSUME NEW goal, NEW rates, NEW f, NEW c, c # 0, ~GoalSatisfied(rates[c], goal)
  PROVE  Rest(goal, rates, f, c) = <<c>> \o f[c - 1]
BY DEF Rest

LEMMA RestHasSolution ==
  ASSUME NEW goal, NEW rates, NEW m \in Nat
  PROVE  \E f : f = [c \in 0 .. m |-> Rest(goal, rates, f, c)]
<1> DEFINE N == {n \in Nat : \E f : f = [c \in 0 .. n |-> Rest(goal, rates, f, c)]}
<1>1. 0 \in N
  <2> DEFINE f == [c \in 0 .. 0 |-> <<>>]
  <2>1. f = [c \in 0 .. 0 |-> Rest(goal, rates, f, c)]
    BY DEF Rest
  <2> QED BY <2>1
<1>2. ASSUME NEW n \in Nat, n \in N PROVE n + 1 \in N
  <2>1. PICK f : f = [c \in 0 .. n |-> Rest(goal, rates, f, c)]
    BY <1>2
  <2> DEFINE g == [c \in 0 .. n + 1 |-> IF c = n + 1 THEN Rest(goal, rates, f, n + 1) ELSE f[c]]
  <2>2. \A c \in 0 .. n : g[c] = f[c] /\ f[c] = Rest(goal, rates, f, c)
    <3>1. \A c \in 0 .. n : f[c] = Rest(goal, rates, f, c)
      BY <2>1
    <3> QED BY <3>1
  <2>3. \A c \in 0 .. n + 1 : Rest(goal, rates, g, c) = Rest(goal, rates, f, c)
    <3> SUFFICES ASSUME NEW c \in 0 .. n + 1 PROVE Rest(goal, rates, g, c) = Rest(goal, rates, f, c)
      OBVIOUS
    <3>1. CASE c = 0
      BY <3>1 DEF Rest
    <3>2. CASE c # 0
      <4>1. c - 1 \in 0 .. n
        BY <3>2
      <4>2. g[c - 1] = f[c - 1]
        BY <2>2, <4>1
      <4> HIDE DEF g
      <4> QED BY <4>2 DEF Rest
    <3> QED BY <3>1, <3>2
  <2>4. \A c \in 0 .. n + 1 : g[c] = Rest(goal, rates, g, c)
    <3> SUFFICES ASSUME NEW c \in 0 .. n + 1 PROVE g[c] = Rest(goal, rates, f, c)
      BY <2>3
    <3>1. CASE c = n + 1
      BY <3>1
    <3>2. CASE c # n + 1
      <4>1. c \in 0 .. n
        BY <3>2
      <4> QED BY <4>1, <2>2
    <3> QED BY <3>1, <3>2
  <2>5. g = [c \in 0 .. n + 1 |-> Rest(goal, rates, g, c)]
    <3>1. DOMAIN g = 0 .. n + 1 /\ g = [c \in 0 .. n + 1 |-> g[c]]
      OBVIOUS
    <3> HIDE DEF g
    <3> QED BY <2>4, <3>1
  <2> HIDE DEF g
  <2> QED BY <2>5
<1>3. Nat \subseteq N
  <2> HIDE DEF N
  <2> QED BY <1>1, <1>2, SetInduction
<1> QED BY <1>3

LEMMA StepsEquation ==
  ASSUME NEW goal, NEW rates, goal.most \in Nat
  PROVE  \E f : /\ SearchSteps(goal, rates) = f[goal.most]
                /\ \A c \in 0 .. goal.most : f[c] = Rest(goal, rates, f, c)
<1> DEFINE Equation(f) == f = [c \in 0 .. goal.most |-> Rest(goal, rates, f, c)]
           from == CHOOSE f : Equation(f)
<1>1. SearchSteps(goal, rates) = from[goal.most]
  BY DEF SearchSteps, Rest
<1>2. \E f : Equation(f)
  BY RestHasSolution
<1>3. Equation(from)
  <2> HIDE DEF Equation
  <2> QED BY <1>2
<1>4. \A c \in 0 .. goal.most : from[c] = Rest(goal, rates, from, c)
  <2>1. from = [c \in 0 .. goal.most |-> Rest(goal, rates, from, c)]
    BY <1>3
  <2> HIDE DEF from
  <2> QED BY <2>1
<1> HIDE DEF from
<1> QED BY <1>1, <1>4

\* The steps are the counts from the top down to where the search stops.
LEMMA StepsToTheStop ==
  ASSUME NEW goal, NEW rates, goal.most \in Nat, NEW c, StopsAt(goal, rates, c)
  PROVE  SearchSteps(goal, rates) = Down(goal.most, c)
<1> DEFINE m == goal.most
<1>1. c \in 1 .. m /\ m \in Nat
  BY DEF StopsAt
<1>2. PICK f : /\ SearchSteps(goal, rates) = f[m]
               /\ \A d \in 0 .. m : f[d] = Rest(goal, rates, f, d)
  BY StepsEquation
<1> HIDE DEF m
<1> DEFINE N == {n \in Nat : c + n <= m => f[c + n] = Down(c + n, c)}
<1>3. 0 \in N
  <2>1. c \in 0 .. m /\ 0 \in 0 .. m
    BY <1>1
  <2>2. f[c] = Rest(goal, rates, f, c) /\ f[0] = Rest(goal, rates, f, 0)
    BY <1>2, <2>1
  <2>3. f[0] = <<>>
    BY <2>2 DEF Rest
  <2>4. f[c] = <<c>>
    <3>1. CASE GoalSatisfied(rates[c], goal)
      BY <3>1, <2>2, <1>1 DEF Rest
    <3>2. CASE ~GoalSatisfied(rates[c], goal)
      <4>1. c = 1 /\ c - 1 = 0
        BY <3>2 DEF StopsAt
      <4>2. f[c] = <<c>> \o f[c - 1]
        BY <2>2, <3>2, <1>1 DEF Rest
      <4>3. <<c>> \in Seq(Nat) /\ f[c - 1] = <<>>
        BY <2>3, <4>1
      <4> QED BY <4>2, <4>3, ConcatEmptySeq
    <3> QED BY <3>1, <3>2
  <2>5. f[c] = Down(c, c)
    BY <1>1, <2>4, DownOne
  <2> QED BY <1>1, <2>5
<1>4. ASSUME NEW n \in Nat, n \in N PROVE n + 1 \in N
  <2> SUFFICES ASSUME c + (n + 1) <= m PROVE f[c + (n + 1)] = Down(c + (n + 1), c)
    OBVIOUS
  <2> DEFINE d == c + n
  <2>1. /\ d \in Nat /\ c \in 1 .. d /\ d + 1 \in 1 .. m /\ d + 1 > c
        /\ d + 1 = c + (n + 1) /\ d + 1 - 1 = d
    BY <1>1
  <2>2. f[d] = Down(d, c)
    BY <1>4, <1>1
  <2>3. ~GoalSatisfied(rates[d + 1], goal)
    BY <2>1 DEF StopsAt, UnmetAbove, m
  <2> HIDE DEF d
  <2>4. d + 1 \in 0 .. m /\ d + 1 # 0
    BY <2>1
  <2>5. f[d + 1] = Rest(goal, rates, f, d + 1)
    BY <1>2, <2>4
  <2>6. f[d + 1] = <<d + 1>> \o f[d]
    <3> DEFINE e == d + 1
    <3>1. e # 0 /\ ~GoalSatisfied(rates[e], goal)
      BY <2>3, <2>4
    <3> HIDE DEF e
    <3>2. Rest(goal, rates, f, e) = <<e>> \o f[e - 1]
      BY <3>1, RestUnmet
    <3> QED BY <3>2, <2>1, <2>5 DEF e
  <2>7. f[d + 1] = Down(d + 1, c)
    BY <2>1, <2>2, <2>6, DownMore
  <2> QED BY <2>1, <2>7
<1>5. Nat \subseteq N
  <2> HIDE DEF N
  <2> QED BY <1>3, <1>4, SetInduction
<1>6. m - c \in N /\ c + (m - c) = m
  BY <1>1, <1>5
<1>7. f[m] = Down(m, c)
  BY <1>1, <1>6
<1> QED BY <1>2, <1>7 DEF m

LEMMA OptimumAtTheStop ==
  ASSUME NEW goal, NEW rates, goal.most \in Nat, NEW c, StopsAt(goal, rates, c)
  PROVE  SearchOptimum(goal, rates) = IF GoalSatisfied(rates[c], goal) THEN c ELSE NoCount
<1> DEFINE m == goal.most
           steps == SearchSteps(goal, rates)
<1>1. c \in 1 .. m /\ c \in 1 .. m + 1
  BY DEF StopsAt
<1>2. steps = Down(m, c)
  BY StepsToTheStop
<1> HIDE DEF m, steps
<1>3. /\ Len(steps) = m - c + 1 /\ m - c + 1 \in 1 .. m - c + 1 /\ m + 1 - (m - c + 1) = c
      /\ \A i \in 1 .. m - c + 1 : steps[i] = m + 1 - i
  <2>1. m \in Nat
    BY DEF m
  <2>2. /\ Len(Down(m, c)) = m - c + 1
        /\ \A i \in 1 .. m - c + 1 : Down(m, c)[i] = m + 1 - i
    BY <2>1, <1>1, DownIsSeq
  <2>3. m - c + 1 \in 1 .. m - c + 1 /\ m + 1 - (m - c + 1) = c
    BY <2>1, <1>1
  <2> QED BY <2>2, <2>3, <1>2
<1>4. steps[Len(steps)] = c
  BY <1>3
<1> QED BY <1>4 DEF SearchOptimum, steps

LEMMA SearchStops ==
  ASSUME NEW goal, NEW rates, goal.most \in Nat \ {0}
  PROVE  \E c : StopsAt(goal, rates, c)
<1> DEFINE m == goal.most
           C == {d \in 1 .. m : GoalSatisfied(rates[d], goal)}
<1>1. CASE C = {}
  <2>1. StopsAt(goal, rates, 1)
    BY <1>1 DEF StopsAt, UnmetAbove
  <2> QED BY <2>1
<1>2. CASE C # {}
  <2>1. Max(C) \in C /\ \A d \in C : d <= Max(C)
    BY <1>2, MaxIsMember
  <2>2. \A d \in 1 .. m : d > Max(C) => d \notin C
    BY <2>1
  <2>3. StopsAt(goal, rates, Max(C))
    BY <2>1, <2>2 DEF StopsAt, UnmetAbove
  <2> QED BY <2>3
<1> QED BY <1>1, <1>2

\* What search_optimal_agv_count returns is the largest fleet that meets the
\* goal, and no count exactly if no fleet does, whatever the rates: they need
\* not grow with the fleet.
THEOREM OptimumIsLargest ==
  ASSUME NEW goal, NEW rates, goal.most \in Nat \ {0}
  PROVE  LET best == SearchOptimum(goal, rates)
             meets(c) == GoalSatisfied(rates[c], goal)
         IN  \/ /\ best \in 1 .. goal.most /\ meets(best)
                /\ \A c \in 1 .. goal.most : meets(c) => c <= best
             \/ best = NoCount /\ \A c \in 1 .. goal.most : ~meets(c)
<1>1. PICK c : StopsAt(goal, rates, c)
  BY SearchStops
<1>2. SearchOptimum(goal, rates) = IF GoalSatisfied(rates[c], goal) THEN c ELSE NoCount
  BY <1>1, OptimumAtTheStop
<1>3. c \in 1 .. goal.most /\ \A d \in 1 .. goal.most : GoalSatisfied(rates[d], goal) => d <= c
  BY <1>1 DEF StopsAt, UnmetAbove
<1>4. GoalSatisfied(rates[c], goal) \/ \A d \in 1 .. goal.most : ~GoalSatisfied(rates[d], goal)
  <2> SUFFICES ASSUME ~GoalSatisfied(rates[c], goal), NEW d \in 1 .. goal.most
               PROVE  ~GoalSatisfied(rates[d], goal)
    OBVIOUS
  <2>1. c = 1
    BY <1>1 DEF StopsAt
  <2>2. d = c \/ d > c
    BY <2>1
  <2> QED BY <1>1, <2>2 DEF StopsAt, UnmetAbove
<1> QED BY <1>2, <1>3, <1>4

-----------------------------------------------------------------------------
(* The inductive invariant.                                                *)

\* The shapes of the state, which TypeOK leaves open.
CallRec == {NoCall} \cup [tool : Tools, target : Nat]
TurnRec == [pc : {"finalize", "save", "send", "complete", "done"},
            text : SUBSET {"cancel", "abort", "confirm"}, call : CallRec, ask : Nat, cmd : Nat]
CommandRec == [tool : Tools, status : {"pending", "accepted", "failed", "completed"},
               ask : Nat, by : Nat, count : Nat]
EventRec(rates) == [cmd : Nat, rate : {0, 1000} \cup {rates[n] : n \in Nat}, cut : BOOLEAN]
GoalRec == [atMost : BOOLEAN, threshold : Int, most : Nat \ {0}]
SearchRec(rates) == [pc : {"save", "send", "await", "done", "failed"}, goal : GoalRec,
                     count : Nat \ {0}, cmd : Nat, queue : Seq(EventRec(rates)),
                     tried : Seq(Nat), found : Nat, cut : BOOLEAN]

Shapes == /\ demo \in BOOLEAN
          /\ turn \in Seq(TurnRec)
          /\ pending \in [call : CallRec, ask : Nat]
          /\ commands \in Seq(CommandRec)
          /\ search \in Seq(SearchRec(rate))
          /\ cell \in Nat
          /\ wire \subseteq EventRec(rate)

\* A turn that asked for a confirmation is over when what it asked for is held,
\* taken or issued.
AskedBefore(ask) == ask # 0 => ask \in DOMAIN turn /\ turn[ask].pc = "done"
AsksAreDone ==
    /\ AskedBefore(pending.ask)
    /\ \A i \in DOMAIN turn : turn[i].pc = "save" => AskedBefore(turn[i].ask)
    /\ \A c \in DOMAIN commands : AskedBefore(commands[c].ask)

\* One of them has it: the session, a turn about to issue it, or a command.
AsksAreUnique ==
    /\ \A i \in DOMAIN turn : turn[i].pc = "save" /\ turn[i].ask # 0 =>
          /\ turn[i].ask # pending.ask
          /\ \A j \in DOMAIN turn : turn[j].pc = "save" /\ turn[j].ask = turn[i].ask => j = i
          /\ \A c \in DOMAIN commands : commands[c].ask # turn[i].ask
    /\ \A c \in DOMAIN commands : commands[c].ask # 0 => commands[c].ask # pending.ask
    /\ ConfirmedOnce

\* A turn issues a command of its own; those of the searches are starts, each
\* for the count tried.
TurnsOwn == \A i \in DOMAIN turn :
    /\ turn[i].cmd \in 0 .. Len(commands)
    /\ turn[i].pc = "save" => turn[i].call.tool \in Tools
    /\ turn[i].pc \in {"send", "complete"} =>
          turn[i].cmd \in DOMAIN commands /\ commands[turn[i].cmd].by = 0
StartsAreOwned == \A c \in DOMAIN commands :
    /\ commands[c].by \in 0 .. Len(search)
    /\ commands[c].by # 0 => commands[c].tool = "start" /\ commands[c].count # 0
SearchesOwn == \A k \in DOMAIN search : search[k].pc \in {"send", "await"} =>
    /\ search[k].cmd \in DOMAIN commands
    /\ commands[search[k].cmd].by = k
    /\ commands[search[k].cmd].count = search[k].count

\* The candidate is a fleet size, and only a search that runs has a queue.
InBounds(s) == /\ s.count <= s.goal.most
               /\ s.cmd <= Len(commands)
               /\ s.pc \in {"done", "failed"} => s.queue = <<>>
\* A completion event of a search's run is of a run that has been asked for and
\* is over; unless the run was cut short it carries the rate of its count.
EventSound(e) ==
    /\ e.cmd \in DOMAIN commands
    /\ commands[e.cmd].by # 0 =>
          /\ e.cmd # cell
          /\ ~e.cut => e.rate = rate[commands[e.cmd].count]
          /\ \A k \in DOMAIN search : search[k].pc = "send" => search[k].cmd # e.cmd
Sent == wire \cup UNION {{search[k].queue[n] : n \in DOMAIN search[k].queue} : k \in DOMAIN search}
EventsSound == \A e \in Sent : EventSound(e)

\* A search asks for a run when none of its own is under way.
RunsApart ==
    /\ OneRunAtATime
    /\ \A k \in DOMAIN search :
          /\ search[k].pc = "send" => cell # search[k].cmd
          /\ search[k].pc = "save" /\ cell # NoCmd => commands[cell].by # k

\* What a search that was not cut short has seen.
Progress(s) == ~s.cut =>
    /\ s.pc \in {"save", "send", "await"} =>
          /\ s.found = NoCount
          /\ s.tried = Down(s.goal.most, s.count + 1)
          /\ UnmetAbove(s.goal, rate, s.count)
    /\ s.pc = "done" => /\ s.tried = SearchSteps(s.goal, rate)
                        /\ s.found = SearchOptimum(s.goal, rate)

TurnInv == /\ pending.call.tool \in {"none", "stop", "cancel"}
           /\ AsksAreDone
           /\ AsksAreUnique
           /\ TurnsOwn

SearchInv == /\ cell \in 0 .. Len(commands)
             /\ StartsAreOwned
             /\ SearchesOwn
             /\ EventsSound
             /\ RunsApart
             /\ \A k \in DOMAIN search : InBounds(search[k]) /\ Progress(search[k])

IInv == Shapes /\ TurnInv /\ SearchInv

LEMMA IInvTypes == IInv => TypeOK
<1> SUFFICES ASSUME IInv PROVE TypeOK
  OBVIOUS
<1> USE DEF IInv, Shapes, TurnInv, SearchInv
<1>1. \A i \in DOMAIN turn : turn[i] \in TurnRec
  OBVIOUS
<1>2. \A i \in DOMAIN turn :
          /\ turn[i].pc \in {"finalize", "save", "send", "complete", "done"}
          /\ turn[i].call.tool \in Tools \cup {"none"}
          /\ turn[i].cmd \in 0 .. Len(commands)
  BY <1>1 DEF TurnRec, CallRec, NoCall, TurnsOwn
<1>3. \A c \in DOMAIN commands : commands[c] \in CommandRec
  OBVIOUS
<1>4. \A c \in DOMAIN commands :
          /\ commands[c].tool \in Tools
          /\ commands[c].status \in {"pending", "accepted", "failed", "completed"}
  BY <1>3 DEF CommandRec
<1>5. \A k \in DOMAIN search : search[k] \in SearchRec(rate)
  OBVIOUS
<1>6. \A k \in DOMAIN search : InBounds(search[k]) /\ Len(commands) \in Nat
  OBVIOUS
<1>7. \A k \in DOMAIN search :
          /\ search[k].pc \in {"save", "send", "await", "done", "failed"}
          /\ search[k].count \in 1 .. search[k].goal.most
          /\ search[k].cmd \in 0 .. Len(commands)
          /\ ~Subscribed(k) => search[k].queue = <<>>
  <2> SUFFICES ASSUME NEW k \in DOMAIN search
               PROVE  /\ search[k].pc \in {"save", "send", "await", "done", "failed"}
                      /\ search[k].count \in 1 .. search[k].goal.most
                      /\ search[k].cmd \in 0 .. Len(commands)
                      /\ ~Subscribed(k) => search[k].queue = <<>>
    OBVIOUS
  <2>1. /\ search[k].pc \in {"save", "send", "await", "done", "failed"}
        /\ search[k].count \in Nat \ {0} /\ search[k].cmd \in Nat
        /\ search[k].goal \in GoalRec
    BY <1>5 DEF SearchRec
  <2>2. search[k].goal.most \in Nat
    BY <2>1 DEF GoalRec
  <2> QED BY <1>6, <2>1, <2>2 DEF InBounds, Subscribed
<1>8. \A e \in wire : e.cmd \in DOMAIN commands
  BY DEF EventsSound, EventSound, Sent
<1> QED BY <1>2, <1>4, <1>7, <1>8 DEF TypeOK

LEMMA IInvFinds == IInv => SearchFindsOptimum
BY DEF IInv, SearchInv, Progress, SearchFindsOptimum

LEMMA InitIInv == Init => IInv
<1> SUFFICES ASSUME Init PROVE IInv
  OBVIOUS
<1>1. \A S : <<>> \in Seq(S)
  OBVIOUS
<1>2. /\ turn = <<>> /\ commands = <<>> /\ search = <<>>
      /\ cell = 0 /\ wire = {} /\ demo \in BOOLEAN /\ pending = NothingPending
      /\ DOMAIN turn = {} /\ DOMAIN commands = {} /\ DOMAIN search = {} /\ Len(commands) = 0
  BY DEF Init, NoCmd
<1>3. Shapes
  BY <1>1, <1>2 DEF Shapes, NothingPending, CallRec, NoCall
<1>4. TurnInv
  BY <1>2 DEF TurnInv, AsksAreDone, AskedBefore, AsksAreUnique, ConfirmedOnce, TurnsOwn,
              NothingPending, NoCall
<1>5. SearchInv
  BY <1>2 DEF SearchInv, StartsAreOwned, SearchesOwn, EventsSound, Sent, RunsApart,
              OneRunAtATime
<1> QED BY <1>3, <1>4, <1>5 DEF IInv

-----------------------------------------------------------------------------
(* Sequences that grow or change in one place.                             *)

LEMMA Appended ==
  ASSUME NEW S, NEW s \in Seq(S), NEW e \in S
  PROVE  /\ Append(s, e) \in Seq(S)
         /\ Len(Append(s, e)) = Len(s) + 1
         /\ DOMAIN Append(s, e) = DOMAIN s \cup {Len(s) + 1}
         /\ DOMAIN s = 1 .. Len(s) /\ Len(s) \in Nat
         /\ Append(s, e)[Len(s) + 1] = e
         /\ \A i \in DOMAIN s : i # Len(s) + 1 /\ Append(s, e)[i] = s[i]
OBVIOUS

LEMMA Replaced ==
  ASSUME NEW S, NEW s \in Seq(S), NEW i \in DOMAIN s, NEW e \in S
  PROVE  /\ [s EXCEPT ![i] = e] \in Seq(S)
         /\ Len([s EXCEPT ![i] = e]) = Len(s)
         /\ DOMAIN [s EXCEPT ![i] = e] = DOMAIN s
         /\ DOMAIN s = 1 .. Len(s) /\ Len(s) \in Nat
         /\ [s EXCEPT ![i] = e][i] = e
         /\ \A j \in DOMAIN s : j # i => [s EXCEPT ![i] = e][j] = s[j]
OBVIOUS

-----------------------------------------------------------------------------
(* What turns share.                                                       *)

RowKept(c) == /\ commands'[c].tool = commands[c].tool
              /\ commands'[c].ask = commands[c].ask
              /\ commands'[c].by = commands[c].by
              /\ commands'[c].count = commands[c].count

\* Commands are only added, and only their status changes.
RowsKept == /\ commands' \in Seq(CommandRec)
            /\ Len(commands) \in Nat /\ Len(commands') \in Nat /\ Len(commands') >= Len(commands)
            /\ DOMAIN commands = 1 .. Len(commands) /\ DOMAIN commands' = 1 .. Len(commands')
            /\ \A c \in DOMAIN commands : RowKept(c)

LEMMA RowsUnchanged ==
  ASSUME commands \in Seq(CommandRec), commands' = commands
  PROVE  RowsKept /\ Len(commands') = Len(commands)
BY DEF RowsKept, RowKept

LEMMA StatusChanged ==
  ASSUME commands \in Seq(CommandRec), NEW c \in DOMAIN commands,
         NEW status \in {"pending", "accepted", "failed", "completed"},
         commands' = [commands EXCEPT ![c].status = status]
  PROVE  RowsKept /\ Len(commands') = Len(commands)
<1> DEFINE r == [commands[c] EXCEPT !.status = status]
<1>1. commands[c] \in CommandRec
  OBVIOUS
<1>2. r \in CommandRec /\ r.tool = commands[c].tool /\ r.ask = commands[c].ask
      /\ r.by = commands[c].by /\ r.count = commands[c].count
  BY <1>1 DEF CommandRec
<1>3. commands' = [commands EXCEPT ![c] = r]
  OBVIOUS
<1> HIDE DEF r
<1>4. /\ commands' \in Seq(CommandRec)
      /\ Len(commands') = Len(commands) /\ DOMAIN commands' = DOMAIN commands
      /\ DOMAIN commands = 1 .. Len(commands) /\ Len(commands) \in Nat
      /\ commands'[c] = r
      /\ \A j \in DOMAIN commands : j # c => commands'[j] = commands[j]
  BY <1>2, <1>3, Replaced
<1>5. \A j \in DOMAIN commands : RowKept(j)
  BY <1>2, <1>4 DEF RowKept
<1>6. Len(commands') >= Len(commands)
  BY <1>4
<1> QED BY <1>4, <1>5, <1>6 DEF RowsKept

LEMMA RowAdded ==
  ASSUME commands \in Seq(CommandRec), NEW r \in CommandRec, commands' = Append(commands, r)
  PROVE  /\ RowsKept
         /\ Len(commands') = Len(commands) + 1
         /\ commands'[Len(commands) + 1] = r
         /\ DOMAIN commands' = DOMAIN commands \cup {Len(commands) + 1}
BY Appended DEF RowsKept, RowKept

\* A turn is added, before it has done anything.
LEMMA TurnAdded ==
  ASSUME Shapes, TurnInv, UNCHANGED <<pending, commands>>,
         NEW r \in TurnRec, r.cmd = 0, r.pc \in {"finalize", "done"}, turn' = Append(turn, r)
  PROVE  turn' \in Seq(TurnRec) /\ TurnInv'
<1>1. turn \in Seq(TurnRec) /\ commands \in Seq(CommandRec)
  BY DEF Shapes
<1>2. /\ turn' \in Seq(TurnRec)
      /\ DOMAIN turn' = DOMAIN turn \cup {Len(turn) + 1}
      /\ turn'[Len(turn) + 1] = r
      /\ \A i \in DOMAIN turn : turn'[i] = turn[i]
  BY <1>1, Appended
<1>3. Len(commands) \in Nat
  BY <1>1
<1>4. \A i \in DOMAIN turn' : turn'[i].pc \in {"save", "send", "complete"} =>
          i \in DOMAIN turn /\ turn'[i] = turn[i]
  BY <1>2
<1>5. \A ask : AskedBefore(ask) => AskedBefore(ask)'
  BY <1>2 DEF AskedBefore
<1>6. AsksAreDone'
  BY <1>4, <1>5 DEF TurnInv, AsksAreDone
<1>7. AsksAreUnique'
  BY <1>4 DEF TurnInv, AsksAreUnique, ConfirmedOnce
<1>8. TurnsOwn'
  BY <1>2, <1>3, <1>4 DEF TurnInv, TurnsOwn
<1> QED BY <1>2, <1>6, <1>7, <1>8 DEF TurnInv

\* A command is answered, or a search starts a run: a turn that goes on keeps
\* its command.
LEMMA TurnKept ==
  ASSUME Shapes, TurnInv, RowsKept, pending' = pending,
         \A c \in DOMAIN commands' \ DOMAIN commands : commands'[c].ask = 0,
         turn' \in Seq(TurnRec), DOMAIN turn' = DOMAIN turn,
         \A i \in DOMAIN turn : \/ turn'[i] = turn[i]
                                \/ turn'[i].pc = "done" /\ turn'[i].cmd = 0
                                \/ /\ turn'[i].pc = "complete" /\ turn[i].pc = "send"
                                   /\ turn'[i].cmd = turn[i].cmd
  PROVE  TurnInv'
<1>1. /\ \A c \in DOMAIN commands : c \in DOMAIN commands' /\ RowKept(c)
      /\ \A c \in DOMAIN commands' : commands'[c].ask # 0 => c \in DOMAIN commands
      /\ Len(commands') \in Nat /\ Len(commands) \in Nat /\ Len(commands') >= Len(commands)
  BY DEF RowsKept
<1>2. \A i \in DOMAIN turn' : turn'[i].pc = "save" => turn'[i] = turn[i]
  OBVIOUS
<1>3. \A ask : AskedBefore(ask) => AskedBefore(ask)'
  BY DEF AskedBefore
<1>4. AsksAreDone'
  <2>1. AskedBefore(pending.ask)'
    BY <1>3 DEF TurnInv, AsksAreDone, AskedBefore
  <2>2. ASSUME NEW i \in DOMAIN turn', turn'[i].pc = "save" PROVE AskedBefore(turn[i].ask)'
    <3>1. AskedBefore(turn[i].ask) /\ turn'[i] = turn[i]
      BY <1>2, <2>2 DEF TurnInv, AsksAreDone
    <3> QED BY <1>3, <3>1 DEF AskedBefore
  <2>3. ASSUME NEW c \in DOMAIN commands' PROVE AskedBefore(commands[c].ask)'
    <3>1. CASE commands'[c].ask = 0
      BY <3>1 DEF AskedBefore
    <3>2. CASE commands'[c].ask # 0
      <4>1. AskedBefore(commands[c].ask) /\ commands'[c].ask = commands[c].ask
        BY <1>1, <3>2 DEF TurnInv, AsksAreDone, RowKept
      <4> QED BY <1>3, <4>1 DEF AskedBefore
    <3> QED BY <3>1, <3>2
  <2> QED BY <2>1, <2>2, <2>3 DEF AsksAreDone
<1>5. AsksAreUnique'
  <2>1. ASSUME NEW i \in DOMAIN turn', turn'[i].pc = "save", turn'[i].ask # 0
        PROVE  /\ turn'[i].ask # pending'.ask
               /\ \A j \in DOMAIN turn' : turn'[j].pc = "save" /\ turn'[j].ask = turn'[i].ask => j = i
               /\ \A c \in DOMAIN commands' : commands'[c].ask # turn'[i].ask
    <3>1. i \in DOMAIN turn /\ turn[i].pc = "save" /\ turn[i].ask = turn'[i].ask /\ turn[i].ask # 0
      BY <1>2, <2>1
    <3> QED BY <1>1, <1>2, <2>1, <3>1 DEF TurnInv, AsksAreUnique, RowKept
  <2>2. \A c \in DOMAIN commands' : commands'[c].ask # 0 => commands'[c].ask # pending'.ask
    BY <1>1 DEF TurnInv, AsksAreUnique, RowKept
  <2>3. ConfirmedOnce'
    BY <1>1 DEF TurnInv, AsksAreUnique, ConfirmedOnce, RowKept
  <2> QED BY <2>1, <2>2, <2>3 DEF AsksAreUnique
<1>6. TurnsOwn'
  <2> SUFFICES ASSUME NEW i \in DOMAIN turn
               PROVE  /\ turn'[i].cmd \in 0 .. Len(commands')
                      /\ turn'[i].pc = "save" => turn'[i].call.tool \in Tools
                      /\ turn'[i].pc \in {"send", "complete"} =>
                            turn'[i].cmd \in DOMAIN commands' /\ commands'[turn'[i].cmd].by = 0
    BY DEF TurnsOwn
  <2>1. /\ turn[i].cmd \in 0 .. Len(commands)
        /\ turn[i].pc = "save" => turn[i].call.tool \in Tools
        /\ turn[i].pc \in {"send", "complete"} =>
              turn[i].cmd \in DOMAIN commands /\ commands[turn[i].cmd].by = 0
    BY DEF TurnInv, TurnsOwn
  <2> QED BY <1>1, <2>1 DEF RowKept
<1> QED BY <1>4, <1>5, <1>6 DEF TurnInv

\* The call a turn goes on with is one of the tools', and a cancelled command
\* exists: the last that can be.
LEMMA ChosenTyped ==
  ASSUME Shapes, NEW i \in DOMAIN turn
  PROVE  Chosen(i) \in CallRec /\ (Chosen(i) # NoCall => Chosen(i).tool \in Tools)
<1>1. NoCall \in CallRec /\ \A call \in CallRec : call # NoCall => call.tool \in Tools
  BY DEF CallRec
<1>2. turn[i] \in TurnRec /\ pending.call \in CallRec
  BY DEF Shapes
<1>3. turn[i].call \in CallRec
  BY <1>2 DEF TurnRec
<1>4. CASE Cancelable # {}
  <2> DEFINE n == Len(commands)
             C == Cancelable
  <2>1. n \in Nat /\ C \subseteq 1 .. n /\ C # {}
    BY <1>4 DEF Cancelable, Shapes
  <2>2. 1 .. n \subseteq Nat
    BY <2>1
  <2> HIDE DEF n, C
  <2>3. Max(C) \in C
    BY <2>1, MaxIsMember
  <2>4. Max(C) \in Nat
    BY <2>1, <2>2, <2>3
  <2> USE DEF C
  <2>5. [tool |-> "cancel", target |-> Max(Cancelable)] \in CallRec
    BY <2>4 DEF CallRec, Tools
  <2> QED BY <1>1, <1>2, <1>3, <2>5 DEF Chosen
<1>5. CASE Cancelable = {}
  BY <1>1, <1>2, <1>3, <1>5 DEF Chosen
<1> QED BY <1>4, <1>5

LEMMA FinalizeTurn ==
  ASSUME Shapes, TurnInv, NEW i \in DOMAIN turn, FinalizeRobotCommand(i)
  PROVE  turn' \in Seq(TurnRec) /\ pending' \in [call : CallRec, ask : Nat] /\ TurnInv'
<1> DEFINE call == Chosen(i)
           left == IF Consumes(i) THEN ConsumePending(i) ELSE pending
           ask == IF Consumes(i) THEN pending.ask ELSE 0
           r == [turn[i] EXCEPT !.pc = "save", !.call = call, !.ask = ask]
<1>1. /\ turn \in Seq(TurnRec) /\ turn[i] \in TurnRec /\ turn[i].pc = "finalize"
      /\ DOMAIN turn = 1 .. Len(turn) /\ i \in Nat /\ i # 0
      /\ pending \in [call : CallRec, ask : Nat] /\ commands' = commands
  BY DEF Shapes, FinalizeRobotCommand
<1>2. call \in CallRec /\ (call # NoCall => call.tool \in Tools)
  BY ChosenTyped
<1>3. Finished \in TurnRec /\ Finished.pc = "done" /\ Finished.cmd = 0
  BY DEF Finished, TurnRec, CallRec, NoCmd
<1>4. /\ AskedBefore(pending.ask) /\ \A j \in DOMAIN turn : turn[j].pc = "save" => AskedBefore(turn[j].ask)
      /\ \A c \in DOMAIN commands : AskedBefore(commands[c].ask)
  BY DEF TurnInv, AsksAreDone
<1>5. /\ left \in [call : CallRec, ask : Nat]
      /\ left.ask = pending.ask \/ left.ask = 0
      /\ left.call.tool \in {"none", "stop", "cancel"}
      /\ ask # 0 => ask = pending.ask /\ left.ask = 0
      /\ ask \in Nat
  BY <1>1 DEF ConsumePending, NothingPending, CallRec, NoCall, TurnInv
<1>6. /\ r \in TurnRec /\ r.pc = "save" /\ r.call = call /\ r.ask = ask /\ r.cmd = turn[i].cmd
  BY <1>1, <1>2, <1>5 DEF TurnRec
<1>7. \/ /\ AsksFirst(call, turn[i].text)
         /\ pending' = [call |-> call, ask |-> i]
         /\ turn' = [turn EXCEPT ![i] = Finished]
      \/ /\ pending' = left
         /\ call # NoCall
         /\ turn' = [turn EXCEPT ![i] = r]
      \/ pending' = left /\ turn' = [turn EXCEPT ![i] = Finished]
  BY DEF FinalizeRobotCommand, End
<1> HIDE DEF call, left, ask, r
\* The turn asks: nothing is held for it yet.
<1>8. CASE /\ AsksFirst(call, turn[i].text)
           /\ pending' = [call |-> call, ask |-> i]
           /\ turn' = [turn EXCEPT ![i] = Finished]
  <2>1. /\ turn' \in Seq(TurnRec) /\ DOMAIN turn' = DOMAIN turn /\ turn'[i] = Finished
        /\ \A j \in DOMAIN turn : j # i => turn'[j] = turn[j]
    BY <1>1, <1>3, <1>8, Replaced
  <2>2. pending' \in [call : CallRec, ask : Nat] /\ pending'.ask = i /\ pending'.call = call
    BY <1>1, <1>2, <1>8
  <2>3. call.tool \in {"stop", "cancel"}
    BY <1>8 DEF AsksFirst, Dangerous
  <2>4. \A a : AskedBefore(a) => a # i /\ (AskedBefore(a))'
    BY <1>1, <1>3, <2>1 DEF AskedBefore
  <2>5. AsksAreDone'
    BY <1>1, <1>3, <1>4, <2>1, <2>2, <2>4 DEF AsksAreDone, AskedBefore
  <2>6. AsksAreUnique'
    <3>1. /\ \A j \in DOMAIN turn : turn[j].pc = "save" => turn[j].ask # i
          /\ \A c \in DOMAIN commands : commands[c].ask # i
      BY <1>4, <2>4
    <3>2. \A j \in DOMAIN turn' : turn'[j].pc = "save" => turn'[j] = turn[j]
      BY <1>3, <2>1
    <3> QED BY <1>1, <2>1, <2>2, <3>1, <3>2 DEF TurnInv, AsksAreUnique, ConfirmedOnce
  <2>7. TurnsOwn'
    BY <1>1, <1>3, <2>1 DEF TurnInv, TurnsOwn, Shapes
  <2> QED BY <2>1, <2>2, <2>3, <2>5, <2>6, <2>7 DEF TurnInv
\* The turn goes on, perhaps with what was held, which is then held no more.
<1>9. CASE pending' = left /\ call # NoCall /\ turn' = [turn EXCEPT ![i] = r]
  <2>1. /\ turn' \in Seq(TurnRec) /\ DOMAIN turn' = DOMAIN turn /\ turn'[i] = r
        /\ \A j \in DOMAIN turn : j # i => turn'[j] = turn[j]
    BY <1>1, <1>6, <1>9, Replaced
  <2>2. \A a : AskedBefore(a) => a # i /\ (AskedBefore(a))'
    BY <1>1, <2>1 DEF AskedBefore
  <2>3. AskedBefore(0)' /\ AskedBefore(left.ask) /\ AskedBefore(ask)
    BY <1>4, <1>5 DEF AskedBefore
  <2>4. AsksAreDone'
    <3>1. AskedBefore(pending.ask)'
      BY <1>9, <2>2, <2>3 DEF AskedBefore
    <3>2. ASSUME NEW j \in DOMAIN turn', turn'[j].pc = "save" PROVE AskedBefore(turn[j].ask)'
      BY <1>4, <1>6, <2>1, <2>2, <2>3, <3>2 DEF AskedBefore
    <3>3. ASSUME NEW c \in DOMAIN commands' PROVE AskedBefore(commands[c].ask)'
      BY <1>1, <1>4, <2>2 DEF AskedBefore
    <3> QED BY <3>1, <3>2, <3>3 DEF AsksAreDone
  <2>5. AsksAreUnique'
    <3>1. /\ \A j \in DOMAIN turn : turn[j].pc = "save" /\ turn[j].ask # 0 => turn[j].ask # pending.ask
          /\ \A c \in DOMAIN commands : commands[c].ask # 0 => commands[c].ask # pending.ask
      BY DEF TurnInv, AsksAreUnique
    <3>2. ASSUME NEW j \in DOMAIN turn', turn'[j].pc = "save", turn'[j].ask # 0
          PROVE  /\ turn'[j].ask # pending'.ask
                 /\ \A l \in DOMAIN turn' : turn'[l].pc = "save" /\ turn'[l].ask = turn'[j].ask => l = j
                 /\ \A c \in DOMAIN commands' : commands'[c].ask # turn'[j].ask
      <4>1. CASE j = i
        <5>1. turn'[j].ask = ask /\ ask # 0 /\ ask = pending.ask /\ pending'.ask = 0
          BY <1>5, <1>6, <1>9, <2>1, <3>2, <4>1
        <5> QED BY <1>1, <2>1, <3>1, <4>1, <5>1
      <4>2. CASE j # i
        <5>1. j \in DOMAIN turn /\ turn'[j] = turn[j] /\ turn[j].ask # pending.ask
          BY <2>1, <3>1, <3>2, <4>2
        <5>2. turn[j].ask # ask
          BY <1>5, <3>2, <5>1
        <5>3. /\ \A l \in DOMAIN turn : turn[l].pc = "save" /\ turn[l].ask = turn[j].ask => l = j
              /\ \A c \in DOMAIN commands : commands[c].ask # turn[j].ask
          BY <3>2, <5>1 DEF TurnInv, AsksAreUnique
        <5> QED BY <1>1, <1>5, <1>6, <1>9, <2>1, <3>2, <5>1, <5>2, <5>3
      <4> QED BY <4>1, <4>2
    <3>3. \A c \in DOMAIN commands' : commands'[c].ask # 0 => commands'[c].ask # pending'.ask
      BY <1>1, <1>5, <1>9, <3>1
    <3>4. ConfirmedOnce'
      BY <1>1 DEF TurnInv, AsksAreUnique, ConfirmedOnce
    <3> QED BY <3>2, <3>3, <3>4 DEF AsksAreUnique
  <2>6. TurnsOwn'
    BY <1>1, <1>2, <1>6, <1>9, <2>1 DEF TurnInv, TurnsOwn
  <2> QED BY <1>5, <1>9, <2>1, <2>4, <2>5, <2>6 DEF TurnInv
\* The turn ends.
<1>10. CASE pending' = left /\ turn' = [turn EXCEPT ![i] = Finished]
  <2>1. /\ turn' \in Seq(TurnRec) /\ DOMAIN turn' = DOMAIN turn /\ turn'[i] = Finished
        /\ \A j \in DOMAIN turn : j # i => turn'[j] = turn[j]
    BY <1>1, <1>3, <1>10, Replaced
  <2>2. \A a : AskedBefore(a) => (AskedBefore(a))'
    BY <1>1, <1>3, <2>1 DEF AskedBefore
  <2>3. \A j \in DOMAIN turn' : turn'[j].pc = "save" => turn'[j] = turn[j]
    BY <1>3, <2>1
  <2>4. AsksAreDone'
    <3>1. AskedBefore(pending.ask)'
      BY <1>4, <1>5, <1>10, <2>2 DEF AskedBefore
    <3>2. ASSUME NEW j \in DOMAIN turn', turn'[j].pc = "save" PROVE AskedBefore(turn[j].ask)'
      BY <1>4, <2>1, <2>2, <2>3, <3>2 DEF AskedBefore
    <3>3. ASSUME NEW c \in DOMAIN commands' PROVE AskedBefore(commands[c].ask)'
      BY <1>1, <1>4, <2>2 DEF AskedBefore
    <3> QED BY <3>1, <3>2, <3>3 DEF AsksAreDone
  <2>5. AsksAreUnique'
    BY <1>1, <1>5, <1>10, <2>1, <2>3 DEF TurnInv, AsksAreUnique, ConfirmedOnce
  <2>6. TurnsOwn'
    BY <1>1, <1>3, <2>1 DEF TurnInv, TurnsOwn, Shapes
  <2> QED BY <1>5, <1>10, <2>1, <2>4, <2>5, <2>6 DEF TurnInv
<1> QED BY <1>7, <1>8, <1>9, <1>10

LEMMA SaveTurn ==
  ASSUME Shapes, TurnInv, NEW i \in DOMAIN turn, SaveCommand(i)
  PROVE  /\ turn' \in Seq(TurnRec) /\ RowsKept /\ TurnInv'
         /\ Len(commands') = Len(commands) + 1
         /\ commands'[Len(commands) + 1].by = 0
<1> DEFINE n == Len(commands) + 1
           row == Row(turn[i].call.tool, turn[i].ask, 0, 0)
           r == [turn[i] EXCEPT !.pc = "send", !.cmd = n]
<1>1. /\ turn \in Seq(TurnRec) /\ turn[i] \in TurnRec /\ turn[i].pc = "save"
      /\ commands \in Seq(CommandRec) /\ Len(commands) \in Nat
      /\ DOMAIN commands = 1 .. Len(commands) /\ pending' = pending
  BY DEF Shapes, SaveCommand
<1>2. turn[i].call.tool \in Tools
  BY <1>1 DEF TurnInv, TurnsOwn
<1>3. row \in CommandRec /\ row.by = 0 /\ row.ask = turn[i].ask
  BY <1>1, <1>2 DEF Row, CommandRec, TurnRec
<1>4. r \in TurnRec /\ r.pc = "send" /\ r.cmd = n
  <2>1. n \in Nat
    BY <1>1
  <2> HIDE DEF n
  <2> QED BY <1>1, <2>1 DEF TurnRec
<1>5. commands' = Append(commands, row) /\ turn' = [turn EXCEPT ![i] = r]
  BY DEF SaveCommand
<1> HIDE DEF row, r
<1>6. /\ RowsKept /\ Len(commands') = n /\ commands'[n] = row
      /\ DOMAIN commands' = DOMAIN commands \cup {n}
  BY <1>1, <1>3, <1>5, RowAdded
<1>7. /\ turn' \in Seq(TurnRec) /\ DOMAIN turn' = DOMAIN turn /\ turn'[i] = r
      /\ \A j \in DOMAIN turn : j # i => turn'[j] = turn[j]
  BY <1>1, <1>4, <1>5, Replaced
<1>8. n \in Nat /\ n \notin DOMAIN commands /\ n \in 0 .. n
  BY <1>1
<1> HIDE DEF n
<1>9. \A a : AskedBefore(a) => (AskedBefore(a))'
  BY <1>1, <1>7 DEF AskedBefore
<1>10. \A j \in DOMAIN turn' : turn'[j].pc = "save" =>
          j # i /\ j \in DOMAIN turn /\ turn'[j] = turn[j]
  BY <1>4, <1>7
<1>11. \A c \in DOMAIN commands : commands'[c].ask = commands[c].ask
  BY <1>6 DEF RowsKept, RowKept
<1>12. AskedBefore(turn[i].ask)
  BY <1>1 DEF TurnInv, AsksAreDone
<1>13. AsksAreDone'
  <2>1. AskedBefore(pending.ask)'
    BY <1>1, <1>9 DEF TurnInv, AsksAreDone, AskedBefore
  <2>2. ASSUME NEW j \in DOMAIN turn', turn'[j].pc = "save" PROVE AskedBefore(turn[j].ask)'
    BY <1>9, <1>10, <2>2 DEF TurnInv, AsksAreDone, AskedBefore
  <2>3. ASSUME NEW c \in DOMAIN commands' PROVE AskedBefore(commands[c].ask)'
    <3>1. CASE c = n
      BY <1>3, <1>6, <1>9, <1>12, <3>1 DEF AskedBefore
    <3>2. CASE c \in DOMAIN commands
      BY <1>9, <1>11, <3>2 DEF TurnInv, AsksAreDone, AskedBefore
    <3> QED BY <1>6, <3>1, <3>2
  <2> QED BY <2>1, <2>2, <2>3 DEF AsksAreDone
<1>14. AsksAreUnique'
  <2>1. turn[i].ask # 0 =>
          /\ turn[i].ask # pending.ask
          /\ \A j \in DOMAIN turn : turn[j].pc = "save" /\ turn[j].ask = turn[i].ask => j = i
          /\ \A c \in DOMAIN commands : commands[c].ask # turn[i].ask
    BY <1>1 DEF TurnInv, AsksAreUnique
  <2>2. commands'[n].ask = turn[i].ask
    BY <1>3, <1>6
  <2>3. ASSUME NEW j \in DOMAIN turn', turn'[j].pc = "save", turn'[j].ask # 0
        PROVE  /\ turn'[j].ask # pending'.ask
               /\ \A l \in DOMAIN turn' : turn'[l].pc = "save" /\ turn'[l].ask = turn'[j].ask => l = j
               /\ \A c \in DOMAIN commands' : commands'[c].ask # turn'[j].ask
    <3>1. j # i /\ j \in DOMAIN turn /\ turn'[j] = turn[j]
      BY <1>10, <2>3
    <3>2. /\ turn[j].ask # pending.ask
          /\ \A l \in DOMAIN turn : turn[l].pc = "save" /\ turn[l].ask = turn[j].ask => l = j
          /\ \A c \in DOMAIN commands : commands[c].ask # turn[j].ask
      BY <2>3, <3>1 DEF TurnInv, AsksAreUnique
    <3>3. turn[i].ask # turn[j].ask
      BY <1>1, <2>3, <3>1, <3>2
    <3> QED BY <1>1, <1>6, <1>10, <1>11, <2>2, <3>1, <3>2, <3>3
  <2>4. \A c \in DOMAIN commands' : commands'[c].ask # 0 => commands'[c].ask # pending'.ask
    BY <1>1, <1>6, <1>11, <2>1, <2>2 DEF TurnInv, AsksAreUnique
  <2>5. ConfirmedOnce'
    BY <1>6, <1>11, <2>1, <2>2 DEF TurnInv, AsksAreUnique, ConfirmedOnce
  <2> QED BY <2>3, <2>4, <2>5 DEF AsksAreUnique
<1>15. TurnsOwn'
  <2> SUFFICES ASSUME NEW j \in DOMAIN turn
               PROVE  /\ turn'[j].cmd \in 0 .. Len(commands')
                      /\ turn'[j].pc = "save" => turn'[j].call.tool \in Tools
                      /\ turn'[j].pc \in {"send", "complete"} =>
                            turn'[j].cmd \in DOMAIN commands' /\ commands'[turn'[j].cmd].by = 0
    BY <1>7 DEF TurnsOwn
  <2>1. CASE j = i
    BY <1>3, <1>4, <1>6, <1>7, <1>8, <2>1
  <2>2. CASE j # i
    <3>1. /\ turn[j].cmd \in 0 .. Len(commands)
          /\ turn[j].pc = "save" => turn[j].call.tool \in Tools
          /\ turn[j].pc \in {"send", "complete"} =>
                turn[j].cmd \in DOMAIN commands /\ commands[turn[j].cmd].by = 0
      BY DEF TurnInv, TurnsOwn
    <3> QED BY <1>1, <1>6, <1>7, <2>2, <3>1 DEF RowsKept, RowKept
  <2> QED BY <2>1, <2>2
<1>16. pending'.call.tool \in {"none", "stop", "cancel"}
  BY <1>1 DEF TurnInv
<1> QED BY <1>3, <1>6, <1>7, <1>13, <1>14, <1>15, <1>16 DEF TurnInv, n

-----------------------------------------------------------------------------
(* What searches share.                                                    *)

\* Events are only added where a step says so.
LEMMA SentGrows ==
  ASSUME NEW X, wire' \subseteq Sent \cup X,
         \A k \in DOMAIN search' : \A n \in DOMAIN search'[k].queue : search'[k].queue[n] \in Sent \cup X
  PROVE  Sent' \subseteq Sent \cup X
BY DEF Sent

\* The searches that are about to ask for a run ask for the same or a new one.
SendsKept == \A k \in DOMAIN search' : search'[k].pc = "send" =>
    \/ k \in DOMAIN search /\ search[k].pc = "send" /\ search'[k].cmd = search[k].cmd
    \/ search'[k].cmd \notin DOMAIN commands

LEMMA EventStaysSound ==
  ASSUME NEW e, EventSound(e), RowsKept, rate' = rate, SendsKept,
         commands[e.cmd].by # 0 => cell' # e.cmd
  PROVE  EventSound(e)'
<1>1. /\ e.cmd \in DOMAIN commands /\ e.cmd \in DOMAIN commands'
      /\ commands'[e.cmd].by = commands[e.cmd].by
      /\ commands'[e.cmd].count = commands[e.cmd].count
  BY DEF EventSound, RowsKept, RowKept
<1>2. ASSUME commands'[e.cmd].by # 0
      PROVE  /\ e.cmd # cell'
             /\ ~e.cut => e.rate = rate'[commands'[e.cmd].count]
             /\ \A k \in DOMAIN search' : search'[k].pc = "send" => search'[k].cmd # e.cmd
  BY <1>1, <1>2 DEF EventSound, SendsKept
<1> QED BY <1>1, <1>2 DEF EventSound

\* The cell's run stays or is over: what was sent stays sound.
LEMMA EventsStaySound ==
  ASSUME SearchInv, RowsKept, rate' = rate, SendsKept, cell' \in {0, cell},
         \A e \in Sent' \ Sent : EventSound(e)'
  PROVE  EventsSound'
<1>1. ASSUME NEW e \in Sent PROVE EventSound(e)'
  <2>1. EventSound(e)
    BY DEF SearchInv, EventsSound
  <2>2. commands[e.cmd].by # 0 => cell' # e.cmd
    <3>1. e.cmd \in Nat /\ e.cmd # 0
      BY <2>1 DEF EventSound, RowsKept
    <3> QED BY <2>1, <3>1 DEF EventSound
  <2> QED BY <2>1, <2>2, EventStaysSound
<1> QED BY <1>1 DEF EventsSound

\* New commands that are not a search's change nothing for the searches.
LEMMA StartsKept ==
  ASSUME Shapes, SearchInv, RowsKept, Len(search') \in Nat, Len(search') >= Len(search),
         \A c \in DOMAIN commands' \ DOMAIN commands :
            /\ commands'[c].by \in 0 .. Len(search')
            /\ commands'[c].by # 0 => commands'[c].tool = "start" /\ commands'[c].count # 0
  PROVE  StartsAreOwned'
<1> SUFFICES ASSUME NEW c \in DOMAIN commands', c \in DOMAIN commands
             PROVE  /\ commands'[c].by \in 0 .. Len(search')
                    /\ commands'[c].by # 0 => commands'[c].tool = "start" /\ commands'[c].count # 0
  BY DEF StartsAreOwned
<1>1. /\ commands[c].by \in 0 .. Len(search)
      /\ commands[c].by # 0 => commands[c].tool = "start" /\ commands[c].count # 0
  BY DEF SearchInv, StartsAreOwned
<1>2. RowKept(c) /\ Len(search) \in Nat
  BY DEF RowsKept, Shapes
<1> QED BY <1>1, <1>2 DEF RowKept

LEMMA SearchKept ==
  ASSUME Shapes, SearchInv, RowsKept, UNCHANGED <<rate, search, cell, wire>>,
         \A c \in DOMAIN commands' \ DOMAIN commands : commands'[c].by = 0
  PROVE  SearchInv'
<1>0. Len(search) \in Nat /\ search' = search /\ cell' = cell /\ rate' = rate /\ wire' = wire
  BY DEF Shapes
<1>1. /\ \A c \in DOMAIN commands : c \in DOMAIN commands' /\ RowKept(c)
      /\ Len(commands) \in Nat /\ Len(commands') \in Nat /\ Len(commands') >= Len(commands)
      /\ DOMAIN commands = 1 .. Len(commands)
  BY DEF RowsKept
<1>2. cell' \in 0 .. Len(commands')
  BY <1>0, <1>1 DEF SearchInv
<1>3. StartsAreOwned'
  BY <1>0, StartsKept
<1>4. SearchesOwn'
  BY <1>0, <1>1 DEF SearchInv, SearchesOwn, RowKept
<1>5. EventsSound'
  <2>1. SendsKept /\ Sent' = Sent
    BY <1>0 DEF SendsKept, Sent
  <2> QED BY <1>0, <2>1, EventsStaySound
<1>6. RunsApart'
  <2>1. cell # 0 => cell \in DOMAIN commands /\ RowKept(cell)
    BY <1>1 DEF SearchInv
  <2> QED BY <1>0, <2>1 DEF SearchInv, RunsApart, OneRunAtATime, RowKept, NoCmd
<1>7. ASSUME NEW k \in DOMAIN search' PROVE InBounds(search[k])' /\ Progress(search[k])'
  <2>1. InBounds(search[k]) /\ Progress(search[k]) /\ search[k].cmd \in Nat
    <3>1. search[k] \in SearchRec(rate)
      BY <1>0 DEF Shapes
    <3> QED BY <1>0, <3>1 DEF SearchInv, SearchRec
  <2>2. InBounds(search[k])'
    BY <1>0, <1>1, <2>1 DEF InBounds
  <2>3. Progress(search[k])'
    BY <1>0, <2>1 DEF Progress
  <2> QED BY <2>2, <2>3
<1> QED BY <1>2, <1>3, <1>4, <1>5, <1>6, <1>7 DEF SearchInv

\* A command reaches the cell: one of a turn, or the start a search asks for.
LEMMA WorldStep ==
  ASSUME Shapes, SearchInv, RowsKept, Len(commands') = Len(commands), rate' = rate,
         NEW c \in DOMAIN commands, Handled(c) \/ UNCHANGED <<cell, wire>>,
         DOMAIN search' = DOMAIN search,
         \A k \in DOMAIN search :
            /\ search'[k].cmd = search[k].cmd
            /\ search'[k].queue \in {search[k].queue, <<>>}
            /\ search'[k].pc \in {"save", "send"} => search'[k].pc = search[k].pc
            /\ search'[k].pc = "send" => search[k].cmd # c,
         commands[c].by # 0 => LET k == commands[c].by
                               IN  k \in DOMAIN search /\ search[k].pc = "send" /\ search[k].cmd = c
  PROVE  cell' \in 0 .. Len(commands') /\ EventsSound' /\ RunsApart' /\ wire' \subseteq EventRec(rate')
<1> DEFINE X == wire' \ wire
<1>1. /\ DOMAIN commands = 1 .. Len(commands) /\ Len(commands) \in Nat
      /\ \A d \in DOMAIN commands : RowKept(d)
      /\ wire \subseteq EventRec(rate) /\ cell \in 0 .. Len(commands)
  BY DEF RowsKept, Shapes, SearchInv
<1>2. c \in Nat /\ cell \in Nat
  BY <1>1
<1>3. /\ cell' \in {0, cell} \/ (cell = 0 /\ cell' = c)
      /\ \A e \in X : /\ e \in EventRec(rate)
                      /\ \/ e.cmd = cell /\ e.cut /\ cell # 0 /\ cell' = 0
                         \/ e.cmd = c /\ commands[c].tool \in {"cancel", "task"}
  <2> DEFINE tool == commands[c].tool
             Same == UNCHANGED <<cell, wire>>
             Started == tool = "start" /\ cell' = (IF cell = NoCmd THEN c ELSE cell) /\ wire' = wire
             Stopped == /\ tool = "stop" /\ cell # NoCmd /\ cell' = NoCmd
                        /\ \E r \in {0, 1000} : wire' = wire \cup {Event(cell, r, TRUE)}
             Acknowledged == /\ tool \in {"task", "cancel"}
                             /\ wire' = wire \cup {Event(c, 0, FALSE)} /\ cell' = cell
  <2>1. CASE Same
    BY <2>1
  <2>2. CASE Started
    BY <2>2 DEF NoCmd
  <2>3. CASE Stopped
    <3>1. PICK r \in {0, 1000} : wire' = wire \cup {Event(cell, r, TRUE)}
      BY <2>3
    <3>2. ASSUME NEW e \in X PROVE e \in EventRec(rate) /\ e.cmd = cell /\ e.cut
      <4>1. e = [cmd |-> cell, rate |-> r, cut |-> TRUE]
        BY <3>1 DEF Event
      <4> QED BY <1>2, <4>1 DEF EventRec
    <3>3. cell # 0 /\ cell' = 0
      BY <2>3 DEF NoCmd
    <3> HIDE DEF X
    <3> QED BY <3>2, <3>3
  <2>4. CASE Acknowledged
    <3>1. ASSUME NEW e \in X PROVE e \in EventRec(rate) /\ e.cmd = c
      <4>1. e = [cmd |-> c, rate |-> 0, cut |-> FALSE]
        BY <2>4 DEF Event
      <4> QED BY <1>2, <4>1 DEF EventRec
    <3> HIDE DEF X
    <3> QED BY <2>4, <3>1
  <2>5. Handled(c) => Same \/ Started \/ Stopped \/ Acknowledged
    BY DEF Handled, HandleSimStart, HandleSimStop, HandleOther, world
  <2> HIDE DEF X, tool, Same, Started, Stopped, Acknowledged
  <2>6. Handled(c) \/ Same
    BY DEF Same
  <2> QED BY <2>1, <2>2, <2>3, <2>4, <2>5, <2>6
<1>4. cell' \in 0 .. Len(commands') /\ wire' \subseteq EventRec(rate')
  BY <1>1, <1>3
<1>5. SendsKept
  BY DEF SendsKept
<1>6. Sent' \subseteq Sent \cup X
  <2>1. wire' \subseteq Sent \cup X
    BY DEF Sent
  <2>2. \A k \in DOMAIN search' : \A n \in DOMAIN search'[k].queue : search'[k].queue[n] \in Sent \cup X
    <3> SUFFICES ASSUME NEW k \in DOMAIN search', NEW n \in DOMAIN search'[k].queue
                 PROVE  search'[k].queue[n] \in Sent
      OBVIOUS
    <3>1. DOMAIN <<>> = {}
      OBVIOUS
    <3>2. search'[k].queue = search[k].queue /\ k \in DOMAIN search
      BY <3>1
    <3> QED BY <3>2 DEF Sent
  <2> HIDE DEF X
  <2> QED BY <2>1, <2>2, SentGrows
<1>7. \A e \in X : e.cmd \in DOMAIN commands /\
          (commands[e.cmd].by # 0 => e.cmd = cell /\ cell # 0 /\ cell' = 0 /\ e.cut)
  <2>1. commands[c].tool \in {"cancel", "task"} => commands[c].by = 0
    BY DEF SearchInv, StartsAreOwned
  <2>2. cell # 0 => cell \in DOMAIN commands
    BY <1>1
  <2> QED BY <1>3, <2>1, <2>2
<1> HIDE DEF X
<1>8. ASSUME NEW e \in X PROVE EventSound(e)'
  <2>1. /\ e.cmd \in DOMAIN commands' /\ commands'[e.cmd].by = commands[e.cmd].by
        /\ commands[e.cmd].by # 0 => e.cmd = cell /\ cell # 0 /\ cell' = 0 /\ e.cut
    BY <1>1, <1>7 DEF RowsKept, RowKept
  <2>2. ASSUME commands[e.cmd].by # 0, NEW k \in DOMAIN search', search'[k].pc = "send"
        PROVE  search'[k].cmd # e.cmd
    BY <2>1, <2>2 DEF SearchInv, RunsApart
  <2> QED BY <2>1, <2>2 DEF EventSound
<1>9. ASSUME NEW e \in Sent PROVE EventSound(e)'
  <2>1. EventSound(e)
    BY DEF SearchInv, EventsSound
  <2>2. commands[e.cmd].by # 0 => cell' # e.cmd
    <3> SUFFICES ASSUME commands[e.cmd].by # 0 PROVE cell' # e.cmd
      OBVIOUS
    <3>1. e.cmd \in DOMAIN commands /\ e.cmd # cell /\ e.cmd # 0
      BY <1>1, <2>1 DEF EventSound
    <3>2. e.cmd # c
      BY <2>1 DEF EventSound
    <3> QED BY <1>3, <3>1, <3>2
  <2> QED BY <1>5, <2>1, <2>2, EventStaysSound
<1>10. EventsSound'
  BY <1>6, <1>8, <1>9 DEF EventsSound
<1>11. cell' # 0 => cell' \in DOMAIN commands /\ commands'[cell'].by = commands[cell'].by
  BY <1>1, <1>3 DEF RowKept
<1>12. OneRunAtATime'
  <2> SUFFICES ASSUME NEW k \in DOMAIN search, cell' # 0, commands[cell'].by = k
               PROVE  cell' = search[k].cmd
    BY <1>11 DEF OneRunAtATime, NoCmd
  <2>1. k # 0
    BY DEF Shapes
  <2> QED BY <1>3, <2>1 DEF SearchInv, RunsApart, OneRunAtATime, NoCmd
<1>13. ASSUME NEW k \in DOMAIN search'
       PROVE  /\ search'[k].pc = "send" => cell' # search'[k].cmd
              /\ search'[k].pc = "save" /\ cell' # 0 => commands'[cell'].by # k
  <2>1. k # 0 /\ k \in DOMAIN search
    BY DEF Shapes
  <2>2. ASSUME search'[k].pc = "send" PROVE cell' # search'[k].cmd
    <3>1. search[k].pc = "send" /\ search'[k].cmd = search[k].cmd /\ search[k].cmd # c
      BY <2>1, <2>2
    <3>2. search[k].cmd \in DOMAIN commands /\ search[k].cmd # cell
      BY <2>1, <3>1 DEF SearchInv, SearchesOwn, RunsApart
    <3>3. search[k].cmd # 0
      BY <1>1, <3>2
    <3> QED BY <1>3, <3>1, <3>2, <3>3
  <2>3. ASSUME search'[k].pc = "save", cell' # 0 PROVE commands'[cell'].by # k
    <3>1. search[k].pc = "save"
      BY <2>1, <2>3
    <3>2. CASE cell' = cell
      BY <1>11, <2>1, <2>3, <3>1, <3>2 DEF SearchInv, RunsApart, NoCmd
    <3>3. CASE cell' = c
      BY <1>11, <2>1, <2>3, <3>1, <3>3
    <3> QED BY <1>3, <2>3, <3>2, <3>3
  <2> QED BY <2>2, <2>3
<1>14. RunsApart'
  BY <1>12, <1>13 DEF RunsApart, NoCmd
<1> QED BY <1>4, <1>10, <1>14

\* One search goes on without a command.
LEMMA SearchReplaced ==
  ASSUME Shapes, SearchInv, UNCHANGED <<rate, commands, cell, wire>>,
         NEW k \in DOMAIN search, NEW s \in SearchRec(rate), search' = [search EXCEPT ![k] = s],
         InBounds(s), Progress(s), s.cmd = search[k].cmd, s.pc # "send",
         \A n \in DOMAIN s.queue : s.queue[n] \in Sent,
         s.pc = "save" /\ cell # 0 => commands[cell].by # k,
         s.pc = "await" => search[k].pc = "await" /\ s.count = search[k].count
  PROVE  search' \in Seq(SearchRec(rate')) /\ SearchInv'
<1>1. /\ search \in Seq(SearchRec(rate)) /\ commands \in Seq(CommandRec)
      /\ rate' = rate /\ commands' = commands /\ cell' = cell /\ wire' = wire
  BY DEF Shapes
<1>2. /\ search' \in Seq(SearchRec(rate)) /\ DOMAIN search' = DOMAIN search /\ search'[k] = s
      /\ Len(search') = Len(search) /\ Len(search) \in Nat
      /\ \A j \in DOMAIN search : j # k => search'[j] = search[j]
  BY <1>1, Replaced
<1>3. RowsKept
  BY <1>1, RowsUnchanged
<1>4. StartsAreOwned'
  BY <1>1, <1>2, <1>3, StartsKept
<1>5. SearchesOwn'
  BY <1>1, <1>2 DEF SearchInv, SearchesOwn
<1>6. EventsSound'
  <2>1. wire' \subseteq Sent \cup {}
    BY <1>1 DEF Sent
  <2>2. \A j \in DOMAIN search' : \A n \in DOMAIN search'[j].queue : search'[j].queue[n] \in Sent \cup {}
    <3> SUFFICES ASSUME NEW j \in DOMAIN search', NEW n \in DOMAIN search'[j].queue
                 PROVE  search'[j].queue[n] \in Sent
      OBVIOUS
    <3>1. CASE j = k
      BY <1>2, <3>1
    <3>2. CASE j # k
      BY <1>2, <3>2 DEF Sent
    <3> QED BY <3>1, <3>2
  <2>3. Sent' \subseteq Sent
    BY <2>1, <2>2, SentGrows
  <2>4. SendsKept
    BY <1>2 DEF SendsKept
  <2> QED BY <1>1, <1>3, <2>3, <2>4, EventsStaySound
<1>7. RunsApart'
  BY <1>1, <1>2 DEF SearchInv, RunsApart, OneRunAtATime, NoCmd
<1>8. ASSUME NEW j \in DOMAIN search' PROVE InBounds(search[j])' /\ Progress(search[j])'
  <2>1. InBounds(search'[j]) /\ Progress(search'[j])
    BY <1>2 DEF SearchInv
  <2> QED BY <1>1, <2>1 DEF InBounds, Progress
<1>9. cell' \in 0 .. Len(commands')
  BY <1>1 DEF SearchInv
<1> QED BY <1>1, <1>2, <1>4, <1>5, <1>6, <1>7, <1>8, <1>9 DEF SearchInv

LEMMA DownNone ==
  ASSUME NEW m \in Nat
  PROVE  <<>> = Down(m, m + 1)
<1> DEFINE d == Down(m, m + 1)
<1>1. m + 1 \in 1 .. m + 1 /\ m - (m + 1) + 1 = 0
  OBVIOUS
<1>2. d \in Seq(Nat) /\ Len(d) = m - (m + 1) + 1
  BY <1>1, DownIsSeq
<1> HIDE DEF d
<1>3. d = <<>>
  BY <1>1, <1>2, EmptySeq
<1> QED BY <1>3 DEF d

LEMMA DownNext ==
  ASSUME NEW m \in Nat, NEW c \in 1 .. m
  PROVE  Append(Down(m, c + 1), c) = Down(m, c)
<1> DEFINE d == Down(m, c + 1)
           e == Down(m, c)
<1>1. c + 1 \in 1 .. m + 1 /\ c \in 1 .. m + 1 /\ m - (c + 1) + 1 = m - c /\ c \in Nat
  OBVIOUS
<1>2. d \in Seq(Nat) /\ Len(d) = m - (c + 1) + 1 /\ \A i \in 1 .. m - (c + 1) + 1 : d[i] = m + 1 - i
  BY <1>1, DownIsSeq
<1>3. e \in Seq(Nat) /\ Len(e) = m - c + 1 /\ \A i \in 1 .. m - c + 1 : e[i] = m + 1 - i
  BY <1>1, DownIsSeq
<1> HIDE DEF d, e
<1>4. /\ Append(d, c) \in Seq(Nat) /\ Len(Append(d, c)) = m - c + 1
      /\ \A i \in 1 .. m - c : Append(d, c)[i] = m + 1 - i
      /\ Append(d, c)[m - c + 1] = c
  BY <1>1, <1>2, AppendProperties
<1>5. ASSUME NEW i \in 1 .. m - c + 1 PROVE Append(d, c)[i] = e[i]
  <2>1. CASE i = m - c + 1
    BY <1>3, <1>4, <2>1
  <2>2. CASE i # m - c + 1
    <3>1. i \in 1 .. m - c
      BY <2>2
    <3> QED BY <1>3, <1>4, <3>1
  <2> QED BY <2>1, <2>2
<1>6. Append(d, c) = e
  BY <1>3, <1>4, <1>5, SeqEqual
<1> QED BY <1>6 DEF d, e

LEMMA Unsubscribed ==
  ASSUME NEW r \in SearchRec(rate), NEW pc \in {"done", "failed"}
  PROVE  /\ Leave(r, pc) \in SearchRec(rate) /\ Leave(r, pc).pc = pc /\ Leave(r, pc).queue = <<>>
         /\ Leave(r, pc).count = r.count /\ Leave(r, pc).cmd = r.cmd /\ Leave(r, pc).goal = r.goal
         /\ Leave(r, pc).tried = r.tried /\ Leave(r, pc).found = r.found /\ Leave(r, pc).cut = r.cut
<1>1. <<>> \in Seq(EventRec(rate))
  BY EmptySeq
<1> QED BY <1>1 DEF Leave, SearchRec

LEMMA GiveUpStep ==
  ASSUME Shapes, SearchInv, NEW k \in DOMAIN search, GiveUp(k)
  PROVE  search' \in Seq(SearchRec(rate')) /\ SearchInv'
<1> DEFINE s == Leave(search[k], "failed")
<1>1. /\ search[k] \in SearchRec(rate) /\ search' = [search EXCEPT ![k] = s]
      /\ UNCHANGED <<rate, commands, cell, wire>>
  BY DEF Shapes, GiveUp, Step, world
<1>2. /\ s \in SearchRec(rate) /\ s.cmd = search[k].cmd /\ s.pc = "failed" /\ s.queue = <<>>
      /\ s.count = search[k].count /\ s.goal = search[k].goal
  BY <1>1, Unsubscribed
<1> HIDE DEF s
<1>3. InBounds(s) /\ Progress(s)
  BY <1>2 DEF SearchInv, InBounds, Progress
<1>4. \A n \in DOMAIN s.queue : s.queue[n] \in Sent
  BY <1>2
<1> QED BY <1>1, <1>2, <1>3, <1>4, SearchReplaced

LEMMA AwaitStep ==
  ASSUME Shapes, SearchInv, NEW k \in DOMAIN search, Await(k)
  PROVE  search' \in Seq(SearchRec(rate')) /\ SearchInv'
<1> DEFINE s == search[k]
           e == Head(s.queue)
           rest == [s EXCEPT !.queue = Tail(@)]
           o == Observed(rest, e)
           next == IF IsAwaited(k, e) THEN NextCandidate(o) ELSE rest
<1>1. /\ s \in SearchRec(rate) /\ s.pc = "await" /\ s.queue # <<>>
      /\ search' = [search EXCEPT ![k] = next]
      /\ UNCHANGED <<rate, commands, cell, wire>>
  BY DEF Shapes, Await, Step, world
<1>2. /\ s.cmd = search[k].cmd /\ s.queue = search[k].queue
      /\ s.cmd \in DOMAIN commands /\ commands[s.cmd].by = k /\ commands[s.cmd].count = s.count
      /\ InBounds(s) /\ Progress(s) /\ k # 0
  BY <1>1 DEF SearchInv, SearchesOwn, Shapes
<1>3. /\ s.goal \in GoalRec /\ s.count \in Nat \ {0} /\ s.cmd \in Nat /\ s.queue \in Seq(EventRec(rate))
      /\ s.tried \in Seq(Nat) /\ s.found \in Nat /\ s.cut \in BOOLEAN /\ s.goal.most \in Nat \ {0}
  BY <1>1 DEF SearchRec, GoalRec
<1>4. s.count \in 1 .. s.goal.most
  BY <1>2, <1>3 DEF InBounds
<1> HIDE DEF s
<1>5. /\ e \in EventRec(rate) /\ Tail(s.queue) \in Seq(EventRec(rate)) /\ e \in Sent
      /\ \A n \in DOMAIN Tail(s.queue) : Tail(s.queue)[n] \in Sent
  <2>1. /\ Head(s.queue) \in EventRec(rate) /\ Tail(s.queue) \in Seq(EventRec(rate))
        /\ Len(Tail(s.queue)) = Len(s.queue) - 1
        /\ \A n \in 1 .. Len(Tail(s.queue)) : Tail(s.queue)[n] = s.queue[n + 1]
    BY <1>1, <1>3, HeadTailProperties
  <2>2. /\ e = s.queue[1] /\ 1 \in DOMAIN s.queue
        /\ \A n \in 1 .. Len(Tail(s.queue)) : n + 1 \in DOMAIN s.queue
        /\ DOMAIN Tail(s.queue) = 1 .. Len(Tail(s.queue))
    BY <1>1, <1>3, <2>1
  <2>3. \A n \in DOMAIN s.queue : s.queue[n] \in Sent
    BY <1>2 DEF Sent
  <2> HIDE DEF e
  <2> QED BY <2>1, <2>2, <2>3 DEF e
<1>6. EventSound(e) /\ e.cut \in BOOLEAN
  BY <1>5 DEF SearchInv, EventsSound, EventRec
<1> HIDE DEF e
<1>7. /\ rest \in SearchRec(rate) /\ rest.pc = "await" /\ rest.goal = s.goal /\ rest.count = s.count
      /\ rest.cmd = s.cmd /\ rest.queue = Tail(s.queue) /\ rest.tried = s.tried
      /\ rest.found = s.found /\ rest.cut = s.cut
  BY <1>1, <1>5 DEF SearchRec
<1> HIDE DEF rest
<1>8. CASE ~IsAwaited(k, e)
  <2>1. InBounds(rest) /\ Progress(rest) /\ rest = next
    BY <1>1, <1>2, <1>7, <1>8 DEF InBounds, Progress
  <2> HIDE DEF next
  <2>2. \A n \in DOMAIN next.queue : next.queue[n] \in Sent
    BY <1>5, <1>7, <2>1
  <2>3. next \in SearchRec(rate) /\ next.pc = "await" /\ next.cmd = search[k].cmd /\ next.count = search[k].count
    BY <1>2, <1>7, <2>1 DEF s
  <2> QED BY <1>1, <2>1, <2>2, <2>3, SearchReplaced DEF s
<1>9. CASE IsAwaited(k, e)
  <2>1. e.cmd = s.cmd
    BY <1>2, <1>9 DEF IsAwaited
  <2>2. e.cmd # cell /\ (~e.cut => e.rate = rate[s.count])
    BY <1>2, <1>6, <2>1 DEF EventSound
  <2>3. Append(s.tried, s.count) \in Seq(Nat)
    BY <1>3
  <2> DEFINE sat == GoalSatisfied(e.rate, s.goal)
  <2>4. /\ o \in SearchRec(rate) /\ o.pc = "await" /\ o.goal = s.goal /\ o.count = s.count
        /\ o.cmd = s.cmd /\ o.queue = Tail(s.queue) /\ o.tried = Append(s.tried, s.count)
        /\ o.found = (IF sat THEN s.count ELSE s.found) /\ o.cut = (s.cut \/ e.cut)
    BY <1>3, <1>6, <1>7, <2>3 DEF Observed, SearchRec
  <2> HIDE DEF o
  \* What an uncut search has seen, with this run.
  <2>5. ASSUME ~o.cut
        PROVE  /\ ~s.cut /\ ~e.cut /\ e.rate = rate[s.count]
               /\ s.found = NoCount /\ UnmetAbove(s.goal, rate, s.count)
               /\ o.tried = Down(s.goal.most, s.count)
    <3>1. ~s.cut /\ ~e.cut
      BY <2>4, <2>5
    <3>2. /\ s.found = NoCount /\ UnmetAbove(s.goal, rate, s.count)
          /\ s.tried = Down(s.goal.most, s.count + 1)
      BY <1>1, <1>2, <3>1 DEF Progress
    <3>3. o.tried = Down(s.goal.most, s.count)
      BY <1>3, <1>4, <2>4, <3>2, DownNext
    <3> QED BY <2>2, <3>1, <3>2, <3>3
  <2>6. CASE o.found = NoCount /\ o.count > 1
    <3>1. next = [o EXCEPT !.pc = "save", !.count = @ - 1]
      BY <1>9, <2>6 DEF NextCandidate
    <3>2. o.count - 1 \in Nat \ {0}
      BY <1>3, <2>4, <2>6
    <3>3. /\ next \in SearchRec(rate) /\ next.pc = "save" /\ next.count = s.count - 1 /\ next.cmd = s.cmd
          /\ next.goal = s.goal /\ next.queue = Tail(s.queue) /\ next.tried = o.tried
          /\ next.found = NoCount /\ next.cut = o.cut
      BY <2>4, <2>6, <3>1, <3>2 DEF SearchRec
    <3> HIDE DEF next
    <3>4. InBounds(next)
      BY <1>2, <1>3, <3>3 DEF InBounds
    <3>5. Progress(next)
      <4> SUFFICES ASSUME ~o.cut
                   PROVE  /\ next.tried = Down(next.goal.most, next.count + 1)
                          /\ UnmetAbove(next.goal, rate, next.count)
        BY <3>3 DEF Progress
      <4>1. ~GoalSatisfied(rate[s.count], s.goal)
        BY <1>3, <2>4, <2>5, <2>6 DEF NoCount
      <4>2. s.count - 1 + 1 = s.count /\ \A d \in 1 .. s.goal.most : d > s.count - 1 => d = s.count \/ d > s.count
        BY <1>3
      <4> QED BY <2>5, <3>3, <4>1, <4>2 DEF UnmetAbove
    <3>6. cell # 0 => commands[cell].by # k
      BY <1>2, <2>1, <2>2 DEF SearchInv, RunsApart, OneRunAtATime, NoCmd
    <3>7. \A n \in DOMAIN next.queue : next.queue[n] \in Sent
      BY <1>5, <3>3
    <3>8. next.cmd = search[k].cmd
      BY <1>2, <3>3
    <3> QED BY <1>1, <3>3, <3>4, <3>5, <3>6, <3>7, <3>8, SearchReplaced
  <2>7. CASE ~(o.found = NoCount /\ o.count > 1)
    <3>1. next = Leave(o, "done")
      BY <1>9, <2>7 DEF NextCandidate
    <3>2. /\ next \in SearchRec(rate) /\ next.pc = "done" /\ next.count = s.count /\ next.cmd = s.cmd
          /\ next.goal = s.goal /\ next.queue = <<>> /\ next.tried = o.tried
          /\ next.found = o.found /\ next.cut = o.cut
      BY <2>4, <3>1, Unsubscribed
    <3> HIDE DEF next
    <3>3. InBounds(next)
      BY <1>2, <3>2 DEF InBounds
    <3>4. Progress(next)
      <4> SUFFICES ASSUME ~o.cut
                   PROVE  o.tried = SearchSteps(s.goal, rate) /\ o.found = SearchOptimum(s.goal, rate)
        BY <3>2 DEF Progress
      <4>1. sat = GoalSatisfied(rate[s.count], s.goal) /\ s.found = NoCount
        BY <2>5
      <4> HIDE DEF sat
      <4>2. o.found = IF sat THEN s.count ELSE NoCount
        BY <2>4, <4>1
      <4>3. sat \/ s.count = 1
        BY <1>3, <2>4, <2>7, <4>2
      <4>4. StopsAt(s.goal, rate, s.count)
        BY <1>4, <2>5, <4>1, <4>3 DEF StopsAt
      <4>5. s.goal.most \in Nat
        BY <1>3
      <4>6. SearchSteps(s.goal, rate) = Down(s.goal.most, s.count)
        BY <4>4, <4>5, StepsToTheStop
      <4>7. SearchOptimum(s.goal, rate) = IF GoalSatisfied(rate[s.count], s.goal) THEN s.count ELSE NoCount
        BY <4>4, <4>5, OptimumAtTheStop
      <4> QED BY <2>5, <4>1, <4>2, <4>6, <4>7
    <3>5. \A n \in DOMAIN next.queue : next.queue[n] \in Sent
      BY <3>2
    <3>6. next.cmd = search[k].cmd
      BY <1>2, <3>2
    <3> QED BY <1>1, <3>2, <3>3, <3>4, <3>5, <3>6, SearchReplaced
  <2> QED BY <2>6, <2>7
<1> QED BY <1>8, <1>9

LEMMA SaveStartStep ==
  ASSUME Shapes, SearchInv, NEW k \in DOMAIN search, SaveStart(k)
  PROVE  /\ RowsKept /\ \A c \in DOMAIN commands' \ DOMAIN commands : commands'[c].ask = 0
         /\ search' \in Seq(SearchRec(rate')) /\ SearchInv'
<1> DEFINE n == Len(commands) + 1
           row == Row("start", 0, k, search[k].count)
           s == [search[k] EXCEPT !.pc = "send", !.cmd = n]
<1>1. /\ search \in Seq(SearchRec(rate)) /\ search[k] \in SearchRec(rate) /\ search[k].pc = "save"
      /\ commands \in Seq(CommandRec) /\ Len(commands) \in Nat /\ DOMAIN commands = 1 .. Len(commands)
      /\ DOMAIN search = 1 .. Len(search) /\ Len(search) \in Nat /\ k \in Nat /\ k # 0
      /\ UNCHANGED <<rate, cell, wire>>
      /\ commands' = Append(commands, row) /\ search' = [search EXCEPT ![k] = s]
  BY DEF Shapes, SaveStart, Step, world
<1>2. InBounds(search[k]) /\ Progress(search[k])
  BY DEF SearchInv
<1>3. /\ row \in CommandRec /\ row.by = k /\ row.ask = 0 /\ row.tool = "start"
      /\ row.count = search[k].count /\ row.count # 0
  BY <1>1 DEF Row, CommandRec, SearchRec, Tools
<1>4. n \in Nat /\ n \notin DOMAIN commands /\ n # 0
  BY <1>1
<1> HIDE DEF n
<1>5. /\ s \in SearchRec(rate) /\ s.pc = "send" /\ s.cmd = n /\ s.count = search[k].count
      /\ s.goal = search[k].goal /\ s.queue = search[k].queue /\ s.tried = search[k].tried
      /\ s.found = search[k].found /\ s.cut = search[k].cut
  BY <1>1, <1>4 DEF SearchRec
<1> HIDE DEF row, s
<1>6. /\ RowsKept /\ Len(commands') = n /\ commands'[n] = row
      /\ DOMAIN commands' = DOMAIN commands \cup {n}
  BY <1>1, <1>3, RowAdded DEF n
<1>7. /\ search' \in Seq(SearchRec(rate)) /\ DOMAIN search' = DOMAIN search /\ search'[k] = s
      /\ Len(search') = Len(search) /\ \A j \in DOMAIN search : j # k => search'[j] = search[j]
  BY <1>1, <1>5, Replaced
<1>8. \A c \in DOMAIN commands : RowKept(c)
  BY <1>6 DEF RowsKept
<1>9. cell' \in 0 .. Len(commands') /\ (cell # 0 => cell \in DOMAIN commands)
  BY <1>1, <1>6 DEF SearchInv, n
<1>10. StartsAreOwned'
  BY <1>1, <1>3, <1>6, <1>7, StartsKept
<1>11. SearchesOwn'
  <2> SUFFICES ASSUME NEW j \in DOMAIN search, search'[j].pc \in {"send", "await"}
               PROVE  /\ search'[j].cmd \in DOMAIN commands'
                      /\ commands'[search'[j].cmd].by = j
                      /\ commands'[search'[j].cmd].count = search'[j].count
    BY <1>7 DEF SearchesOwn
  <2>1. CASE j = k
    BY <1>3, <1>5, <1>6, <1>7, <2>1
  <2>2. CASE j # k
    BY <1>6, <1>7, <1>8, <2>2 DEF SearchInv, SearchesOwn, RowKept
  <2> QED BY <2>1, <2>2
<1>12. EventsSound'
  <2>1. wire' \subseteq Sent \cup {}
    BY <1>1 DEF Sent
  <2>2. \A j \in DOMAIN search' : \A m \in DOMAIN search'[j].queue : search'[j].queue[m] \in Sent \cup {}
    <3> SUFFICES ASSUME NEW j \in DOMAIN search, NEW m \in DOMAIN search[j].queue
                 PROVE  search[j].queue[m] \in Sent
      BY <1>5, <1>7
    <3> QED BY DEF Sent
  <2>3. Sent' \subseteq Sent
    BY <2>1, <2>2, SentGrows
  <2>4. SendsKept
    BY <1>4, <1>5, <1>7 DEF SendsKept
  <2> QED BY <1>1, <1>6, <2>3, <2>4, EventsStaySound
<1>13. RunsApart'
  <2>1. cell # 0 => commands'[cell].by = commands[cell].by /\ cell # n
    BY <1>4, <1>8, <1>9 DEF RowKept
  <2>2. cell # 0 => commands[cell].by # k
    BY <1>1 DEF SearchInv, RunsApart, NoCmd
  <2>3. cell # n
    BY <1>4, <2>1
  <2>4. OneRunAtATime'
    <3> SUFFICES ASSUME NEW j \in DOMAIN search, cell # 0, commands[cell].by = j
                 PROVE  cell = search'[j].cmd
      BY <1>1, <1>7, <2>1 DEF OneRunAtATime, NoCmd
    <3>1. j # k /\ search'[j] = search[j]
      BY <1>7, <2>2
    <3> QED BY <3>1 DEF SearchInv, RunsApart, OneRunAtATime, NoCmd
  <2>5. ASSUME NEW j \in DOMAIN search
        PROVE  /\ search'[j].pc = "send" => cell # search'[j].cmd
               /\ search'[j].pc = "save" /\ cell # 0 => commands'[cell].by # j
    <3>1. CASE j = k
      BY <1>5, <1>7, <2>3, <3>1
    <3>2. CASE j # k
      BY <1>7, <2>1, <3>2 DEF SearchInv, RunsApart, NoCmd
    <3> QED BY <3>1, <3>2
  <2> QED BY <1>1, <1>7, <2>4, <2>5 DEF RunsApart, NoCmd
<1>14. ASSUME NEW j \in DOMAIN search' PROVE InBounds(search[j])' /\ Progress(search[j])'
  <2>1. j \in DOMAIN search /\ InBounds(search[j]) /\ Progress(search[j]) /\ search[j].cmd \in Nat
    <3>1. j \in DOMAIN search /\ search[j] \in SearchRec(rate)
      BY <1>1, <1>7
    <3> QED BY <3>1 DEF SearchInv, SearchRec
  <2>2. CASE j = k
    BY <1>1, <1>2, <1>4, <1>5, <1>6, <1>7, <2>2 DEF InBounds, Progress
  <2>3. CASE j # k
    <3>1. Len(commands) <= Len(commands')
      BY <1>1, <1>6 DEF n
    <3>2. InBounds(search[j])'
      BY <1>1, <1>4, <1>6, <1>7, <2>1, <2>3, <3>1 DEF InBounds
    <3>3. Progress(search[j])'
      BY <1>1, <1>7, <2>1, <2>3 DEF Progress
    <3> QED BY <3>2, <3>3
  <2> QED BY <2>2, <2>3
<1> QED BY <1>1, <1>3, <1>6, <1>7, <1>9, <1>10, <1>11, <1>12, <1>13, <1>14 DEF SearchInv

LEMMA SendStartStep ==
  ASSUME Shapes, SearchInv, NEW k \in DOMAIN search, NEW ok \in BOOLEAN, SendStart(k, ok)
  PROVE  /\ RowsKept /\ Len(commands') = Len(commands)
         /\ search' \in Seq(SearchRec(rate')) /\ wire' \subseteq EventRec(rate') /\ SearchInv'
<1> DEFINE c == search[k].cmd
           s == IF ok THEN [search[k] EXCEPT !.pc = "await"] ELSE Leave(search[k], "failed")
<1>1. /\ search \in Seq(SearchRec(rate)) /\ search[k] \in SearchRec(rate) /\ search[k].pc = "send"
      /\ commands \in Seq(CommandRec) /\ DOMAIN search = 1 .. Len(search) /\ Len(search) \in Nat
      /\ rate' = rate /\ search' = [search EXCEPT ![k] = s]
      /\ Handled(c) \/ UNCHANGED <<cell, wire>>
  BY DEF Shapes, SendStart, Request, Step, world
<1>2. c \in DOMAIN commands /\ commands[c].by = k /\ commands[c].count = search[k].count
      /\ InBounds(search[k]) /\ Progress(search[k])
  BY <1>1 DEF SearchInv, SearchesOwn
<1>3. /\ s \in SearchRec(rate) /\ s.pc \in {"await", "failed"} /\ s.cmd = c /\ s.count = search[k].count
      /\ s.goal = search[k].goal /\ s.tried = search[k].tried /\ s.found = search[k].found
      /\ s.cut = search[k].cut /\ s.queue \in {search[k].queue, <<>>}
      /\ s.pc = "failed" => s.queue = <<>>
  <2>1. CASE ok
    BY <1>1, <2>1 DEF SearchRec
  <2>2. CASE ~ok
    BY <1>1, <2>2, Unsubscribed
  <2> QED BY <2>1, <2>2
<1>4. RowsKept /\ Len(commands') = Len(commands)
  <2> DEFINE status == IF ok THEN "accepted" ELSE "failed"
  <2>1. status \in {"pending", "accepted", "failed", "completed"}
    OBVIOUS
  <2>2. commands' = [commands EXCEPT ![c].status = status]
    BY DEF SendStart, Request
  <2> HIDE DEF status, c
  <2> QED BY <1>1, <1>2, <2>1, <2>2, StatusChanged
<1> HIDE DEF c, s
<1>5. /\ search' \in Seq(SearchRec(rate)) /\ DOMAIN search' = DOMAIN search /\ search'[k] = s
      /\ Len(search') = Len(search) /\ \A j \in DOMAIN search : j # k => search'[j] = search[j]
  BY <1>1, <1>3, Replaced
<1>6. cell' \in 0 .. Len(commands') /\ EventsSound' /\ RunsApart' /\ wire' \subseteq EventRec(rate')
  <2>1. ASSUME NEW j \in DOMAIN search
        PROVE  /\ search'[j].cmd = search[j].cmd
               /\ search'[j].queue \in {search[j].queue, <<>>}
               /\ search'[j].pc \in {"save", "send"} => search'[j].pc = search[j].pc
               /\ search'[j].pc = "send" => search[j].cmd # c
    <3>1. CASE j = k
      BY <1>3, <1>5, <3>1 DEF c
    <3>2. CASE j # k
      BY <1>2, <1>5, <3>2 DEF SearchInv, SearchesOwn
    <3> QED BY <3>1, <3>2
  <2>2. LET j == commands[c].by IN j \in DOMAIN search /\ search[j].pc = "send" /\ search[j].cmd = c
    BY <1>1, <1>2 DEF c
  <2> QED BY <1>1, <1>2, <1>4, <1>5, <2>1, <2>2, WorldStep
<1>7. StartsAreOwned'
  BY <1>1, <1>4, <1>5, StartsKept DEF RowsKept
<1>8. \A d \in DOMAIN commands : d \in DOMAIN commands' /\ RowKept(d)
  BY <1>4 DEF RowsKept
<1>9. SearchesOwn'
  <2> SUFFICES ASSUME NEW j \in DOMAIN search, search'[j].pc \in {"send", "await"}
               PROVE  /\ search'[j].cmd \in DOMAIN commands'
                      /\ commands'[search'[j].cmd].by = j
                      /\ commands'[search'[j].cmd].count = search'[j].count
    BY <1>5 DEF SearchesOwn
  <2>1. CASE j = k
    BY <1>2, <1>3, <1>5, <1>8, <2>1 DEF RowKept
  <2>2. CASE j # k
    BY <1>5, <1>8, <2>2 DEF SearchInv, SearchesOwn, RowKept
  <2> QED BY <2>1, <2>2
<1>10. ASSUME NEW j \in DOMAIN search' PROVE InBounds(search[j])' /\ Progress(search[j])'
  <2>1. CASE j = k
    BY <1>1, <1>2, <1>3, <1>4, <1>5, <2>1 DEF InBounds, Progress, c
  <2>2. CASE j # k
    BY <1>1, <1>4, <1>5, <2>2 DEF SearchInv, InBounds, Progress
  <2> QED BY <2>1, <2>2
<1> QED BY <1>1, <1>4, <1>5, <1>6, <1>7, <1>9, <1>10 DEF SearchInv

LEMMA RunEndsStep ==
  ASSUME Shapes, SearchInv, RunEnds
  PROVE  wire' \subseteq EventRec(rate') /\ SearchInv'
<1> DEFINE n == commands[cell].count
<1>0. PICK e : e = [cmd |-> cell, rate |-> IF n = 0 THEN 0 ELSE rate[n], cut |-> FALSE]
  OBVIOUS
<1>1. /\ cell # 0 /\ cell' = 0 /\ wire' = wire \cup {e}
      /\ rate' = rate /\ commands' = commands /\ search' = search
  BY <1>0 DEF RunEnds, Event, NoCmd
<1>2. /\ commands \in Seq(CommandRec) /\ wire \subseteq EventRec(rate) /\ cell \in DOMAIN commands
      /\ Len(search) \in Nat /\ Len(commands) \in Nat
  BY <1>1 DEF Shapes, SearchInv
<1>3. n \in Nat /\ cell \in Nat
  <2>1. commands[cell] \in CommandRec /\ cell \in Nat
    BY <1>2
  <2> QED BY <2>1 DEF CommandRec
<1>4. e \in EventRec(rate) /\ e.cmd = cell /\ e.rate = (IF n = 0 THEN 0 ELSE rate[n]) /\ e.cut = FALSE
  BY <1>0, <1>3 DEF EventRec
<1>5. RowsKept
  BY <1>1, <1>2, RowsUnchanged
<1>6. StartsAreOwned' /\ SearchesOwn'
  BY <1>1 DEF SearchInv, StartsAreOwned, SearchesOwn
<1>7. EventsSound'
  <2>1. Sent' \subseteq Sent \cup {e}
    <3>1. wire' \subseteq Sent \cup {e}
      BY <1>1 DEF Sent
    <3>2. \A k \in DOMAIN search' : \A m \in DOMAIN search'[k].queue : search'[k].queue[m] \in Sent \cup {e}
      BY <1>1 DEF Sent
    <3> QED BY <3>1, <3>2, SentGrows
  <2>2. EventSound(e)'
    <3>1. commands[cell].by # 0 => n # 0
      BY <1>2 DEF SearchInv, StartsAreOwned
    <3>2. \A k \in DOMAIN search : search[k].pc = "send" => search[k].cmd # cell
      BY DEF SearchInv, RunsApart
    <3> QED BY <1>1, <1>2, <1>4, <3>1, <3>2 DEF EventSound
  <2>3. SendsKept
    BY <1>1 DEF SendsKept
  <2> QED BY <1>1, <1>5, <2>1, <2>2, <2>3, EventsStaySound
<1>8. RunsApart'
  <2>1. ASSUME NEW k \in DOMAIN search, search[k].pc = "send" PROVE search[k].cmd # 0
    BY <1>2, <2>1 DEF SearchInv, SearchesOwn
  <2> QED BY <1>1, <2>1 DEF RunsApart, OneRunAtATime, NoCmd
<1>9. \A k \in DOMAIN search' : InBounds(search[k])' /\ Progress(search[k])'
  BY <1>1 DEF SearchInv, InBounds, Progress
<1>10. wire' \subseteq EventRec(rate') /\ cell' \in 0 .. Len(commands')
  BY <1>1, <1>2, <1>4
<1> QED BY <1>6, <1>7, <1>8, <1>9, <1>10 DEF SearchInv

LEMMA HandleStep ==
  ASSUME Shapes, SearchInv, NEW e \in wire, HandleCompletionEvent(e)
  PROVE  /\ RowsKept /\ Len(commands') = Len(commands)
         /\ search' \in Seq(SearchRec(rate')) /\ wire' \subseteq EventRec(rate') /\ SearchInv'
<1> DEFINE heard(k) == IF Subscribed(k) THEN [search[k] EXCEPT !.queue = Append(@, e)] ELSE search[k]
<1>1. /\ search \in Seq(SearchRec(rate)) /\ commands \in Seq(CommandRec) /\ e \in EventRec(rate)
      /\ Len(search) \in Nat /\ DOMAIN search = 1 .. Len(search) /\ wire \subseteq EventRec(rate)
      /\ rate' = rate /\ cell' = cell /\ wire' = wire \ {e}
      /\ search' = [k \in DOMAIN search |-> heard(k)]
      /\ commands' = [commands EXCEPT ![e.cmd].status = "completed"]
  BY DEF Shapes, HandleCompletionEvent
<1>2. e \in Sent /\ e.cmd \in DOMAIN commands
  BY DEF SearchInv, EventsSound, EventSound, Sent
<1>3. RowsKept /\ Len(commands') = Len(commands)
  BY <1>1, <1>2, StatusChanged
<1>4. ASSUME NEW k \in DOMAIN search
      PROVE  LET s == search'[k]
             IN  /\ s \in SearchRec(rate) /\ s.pc = search[k].pc /\ s.cmd = search[k].cmd
                 /\ s.count = search[k].count /\ s.goal = search[k].goal /\ s.tried = search[k].tried
                 /\ s.found = search[k].found /\ s.cut = search[k].cut
                 /\ s.pc \in {"done", "failed"} => s.queue = search[k].queue
                 /\ \A n \in DOMAIN s.queue : s.queue[n] \in Sent
  <2>1. search[k] \in SearchRec(rate) /\ search'[k] = heard(k)
    BY <1>1
  <2>2. search[k].queue \in Seq(EventRec(rate))
    BY <2>1 DEF SearchRec
  <2>3. \A n \in DOMAIN search[k].queue : search[k].queue[n] \in Sent
    BY DEF Sent
  <2>4. CASE Subscribed(k)
    <3>1. /\ Append(search[k].queue, e) \in Seq(EventRec(rate))
          /\ \A n \in DOMAIN Append(search[k].queue, e) : Append(search[k].queue, e)[n] \in Sent
      <4> DEFINE q == search[k].queue
      <4> HIDE DEF q
      <4>1. /\ Append(q, e) \in Seq(EventRec(rate)) /\ DOMAIN Append(q, e) = DOMAIN q \cup {Len(q) + 1}
            /\ Append(q, e)[Len(q) + 1] = e /\ \A i \in DOMAIN q : Append(q, e)[i] = q[i]
        BY <1>1, <2>2, Appended DEF q
      <4> QED BY <1>2, <2>3, <4>1 DEF q
    <3>2. search'[k] = [search[k] EXCEPT !.queue = Append(@, e)]
      BY <2>1, <2>4
    <3>3. search[k].pc \in {"save", "send", "await"}
      BY <2>4 DEF Subscribed
    <3> HIDE DEF heard
    <3> QED BY <2>1, <3>1, <3>2, <3>3 DEF SearchRec
  <2>5. CASE ~Subscribed(k)
    BY <2>1, <2>3, <2>5
  <2> QED BY <2>4, <2>5
<1> HIDE DEF heard
<1>5. search' \in Seq(SearchRec(rate')) /\ DOMAIN search' = DOMAIN search /\ Len(search') = Len(search)
  <2>1. search' \in [1 .. Len(search) -> SearchRec(rate)]
    BY <1>1, <1>4
  <2> QED BY <1>1, <2>1
<1>6. StartsAreOwned'
  BY <1>1, <1>3, <1>5, StartsKept DEF RowsKept
<1>7. \A c \in DOMAIN commands : c \in DOMAIN commands' /\ RowKept(c)
  BY <1>3 DEF RowsKept
<1>8. SearchesOwn'
  BY <1>4, <1>5, <1>7 DEF SearchInv, SearchesOwn, RowKept
<1>9. EventsSound'
  <2>1. wire' \subseteq Sent \cup {}
    BY <1>1 DEF Sent
  <2>2. \A k \in DOMAIN search' : \A n \in DOMAIN search'[k].queue : search'[k].queue[n] \in Sent \cup {}
    BY <1>4, <1>5
  <2>3. Sent' \subseteq Sent
    BY <2>1, <2>2, SentGrows
  <2>4. SendsKept
    BY <1>4, <1>5 DEF SendsKept
  <2> QED BY <1>1, <1>3, <2>3, <2>4, EventsStaySound
<1>10. cell # 0 => cell \in DOMAIN commands
  BY <1>3 DEF SearchInv, RowsKept
<1>11. RunsApart'
  <2>1. cell # 0 => commands'[cell].by = commands[cell].by
    BY <1>7, <1>10 DEF RowKept
  <2>2. \A k \in DOMAIN search : search'[k].pc = search[k].pc /\ search'[k].cmd = search[k].cmd
    BY <1>4
  <2> QED BY <1>1, <1>5, <2>1, <2>2 DEF SearchInv, RunsApart, OneRunAtATime, NoCmd
<1>12. ASSUME NEW k \in DOMAIN search' PROVE InBounds(search[k])' /\ Progress(search[k])'
  <2>1. InBounds(search[k]) /\ Progress(search[k])
    BY <1>5 DEF SearchInv
  <2>2. InBounds(search[k])'
    BY <1>3, <1>4, <1>5, <2>1 DEF InBounds
  <2>3. Progress(search[k])'
    BY <1>1, <1>4, <1>5, <2>1 DEF Progress
  <2> QED BY <2>2, <2>3
<1>13. cell' \in 0 .. Len(commands') /\ wire' \subseteq EventRec(rate')
  BY <1>1, <1>3 DEF SearchInv
<1> QED BY <1>3, <1>5, <1>6, <1>8, <1>9, <1>11, <1>12, <1>13 DEF SearchInv

LEMMA GoalTyped ==
  ASSUME NEW asked \in Requests, NEW fleet \in Fleets
  PROVE  Goal(asked.atMost, asked.percent, fleet) \in GoalRec
<1>1. asked \in [atMost : BOOLEAN, percent : Int] /\ fleet \in Nat \ {0}
  BY ChatAssumption
<1> QED BY <1>1 DEF Goal, GoalRec, NoKpi

LEMMA NewSearchTyped ==
  ASSUME NEW goal \in GoalRec, NEW s \in {ModelSearch(goal), Search("save", goal)}
  PROVE  /\ s \in SearchRec(rate) /\ s.pc \in {"save", "done"} /\ s.cmd = 0 /\ s.queue = <<>>
         /\ s.count = goal.most /\ s.goal = goal /\ Progress(s)
<1>1. goal.most \in Nat /\ goal.most \in Nat \ {0}
  BY DEF GoalRec
<1>2. <<>> \in Seq(EventRec(rate)) /\ <<>> \in Seq(Nat)
  BY EmptySeq
<1>3. Search("save", goal) \in SearchRec(rate) /\ Search("done", goal) \in SearchRec(rate)
  BY <1>1, <1>2 DEF Search, SearchRec, NoCmd, NoCount
<1>4. CASE s = Search("save", goal)
  <2>1. /\ s.pc = "save" /\ s.cmd = 0 /\ s.queue = <<>> /\ s.count = goal.most /\ s.goal = goal
        /\ s.tried = <<>> /\ s.found = NoCount
    BY <1>4 DEF Search, NoCmd
  <2>2. <<>> = Down(goal.most, goal.most + 1) /\ UnmetAbove(goal, rate, goal.most)
    BY <1>1, DownNone DEF UnmetAbove
  <2> QED BY <1>3, <1>4, <2>1, <2>2 DEF Progress
<1>5. CASE s = ModelSearch(goal)
  <2> DEFINE steps == SearchSteps(goal, rate)
             best == SearchOptimum(goal, rate)
  <2>1. steps \in Seq(Nat) /\ best \in Nat
    <3>1. PICK c : StopsAt(goal, rate, c)
      BY <1>1, SearchStops
    <3>2. c \in 1 .. goal.most + 1 /\ c \in Nat
      BY <1>1, <3>1 DEF StopsAt
    <3>3. steps = Down(goal.most, c) /\ best = IF GoalSatisfied(rate[c], goal) THEN c ELSE NoCount
      BY <1>1, <3>1, StepsToTheStop, OptimumAtTheStop
    <3>4. Down(goal.most, c) \in Seq(Nat)
      BY <1>1, <3>2, DownIsSeq
    <3> QED BY <3>2, <3>3, <3>4 DEF NoCount
  <2>2. s = [Search("done", goal) EXCEPT !.tried = steps, !.found = best]
    BY <1>5 DEF ModelSearch
  <2> HIDE DEF steps, best
  <2>3. s \in SearchRec(rate) /\ s.tried = steps /\ s.found = best /\ s.goal = Search("done", goal).goal
        /\ s.pc = Search("done", goal).pc /\ s.cmd = Search("done", goal).cmd
        /\ s.queue = Search("done", goal).queue /\ s.count = Search("done", goal).count
    BY <1>3, <2>1, <2>2 DEF SearchRec
  <2>4. s.pc = "done" /\ s.cmd = 0 /\ s.queue = <<>> /\ s.count = goal.most /\ s.goal = goal
    BY <2>3 DEF Search, NoCmd
  <2> QED BY <2>3, <2>4 DEF Progress, steps, best
<1> QED BY <1>4, <1>5

LEMMA OptimizeStep ==
  ASSUME Shapes, SearchInv, NEW t, Optimize(t)
  PROVE  search' \in Seq(SearchRec(rate')) /\ SearchInv'
<1>1. /\ search \in Seq(SearchRec(rate)) /\ commands \in Seq(CommandRec)
      /\ Len(search) \in Nat /\ DOMAIN search = 1 .. Len(search) /\ Len(commands) \in Nat
      /\ rate' = rate /\ commands' = commands /\ cell' = cell /\ wire' = wire
  BY DEF Shapes, Optimize, world
<1>2. PICK asked \in Requests, fleet \in Fleets :
          LET goal == Goal(asked.atMost, asked.percent, fleet)
          IN  search' = Append(search, IF demo THEN ModelSearch(goal) ELSE Search("save", goal))
  BY DEF Optimize
<1> DEFINE goal == Goal(asked.atMost, asked.percent, fleet)
           n == Len(search) + 1
<1>3. goal \in GoalRec
  BY GoalTyped
<1>4. PICK s \in {ModelSearch(goal), Search("save", goal)} : search' = Append(search, s)
  BY <1>2
<1> HIDE DEF goal
<1>5. /\ s \in SearchRec(rate) /\ s.pc \in {"save", "done"} /\ s.cmd = 0 /\ s.queue = <<>>
      /\ s.count = goal.most /\ s.goal = goal /\ Progress(s)
  BY <1>3, NewSearchTyped
<1>6. /\ search' \in Seq(SearchRec(rate)) /\ Len(search') = n /\ DOMAIN search' = DOMAIN search \cup {n}
      /\ search'[n] = s /\ \A k \in DOMAIN search : search'[k] = search[k]
      /\ n \in Nat /\ n # 0 /\ n > Len(search)
  BY <1>1, <1>4, <1>5, Appended
<1> HIDE DEF n
<1>7. RowsKept
  BY <1>1, RowsUnchanged
<1>8. StartsAreOwned'
  BY <1>1, <1>6, <1>7, StartsKept
<1>9. SearchesOwn'
  BY <1>1, <1>5, <1>6 DEF SearchInv, SearchesOwn
<1>10. EventsSound'
  <2>1. wire' \subseteq Sent \cup {}
    BY <1>1 DEF Sent
  <2>2. \A k \in DOMAIN search' : \A m \in DOMAIN search'[k].queue : search'[k].queue[m] \in Sent \cup {}
    BY <1>5, <1>6 DEF Sent
  <2>3. Sent' \subseteq Sent
    BY <2>1, <2>2, SentGrows
  <2>4. SendsKept
    BY <1>5, <1>6 DEF SendsKept
  <2> QED BY <1>1, <1>7, <2>3, <2>4, EventsStaySound
<1>11. RunsApart'
  <2>1. cell # 0 => cell \in DOMAIN commands /\ commands[cell].by # n
    <3>1. cell # 0 => cell \in DOMAIN commands
      BY <1>1 DEF SearchInv
    <3>2. \A c \in DOMAIN commands : commands[c].by # n
      BY <1>1, <1>6 DEF SearchInv, StartsAreOwned
    <3> QED BY <3>1, <3>2
  <2> QED BY <1>1, <1>5, <1>6, <2>1 DEF SearchInv, RunsApart, OneRunAtATime, NoCmd
<1>12. ASSUME NEW k \in DOMAIN search' PROVE InBounds(search[k])' /\ Progress(search[k])'
  <2>1. CASE k = n
    <3>1. goal.most <= goal.most /\ 0 <= Len(commands')
      BY <1>1, <1>3 DEF GoalRec
    <3>2. InBounds(search[k])'
      BY <1>5, <1>6, <2>1, <3>1 DEF InBounds
    <3>3. Progress(search[k])'
      BY <1>1, <1>5, <1>6, <2>1 DEF Progress
    <3> QED BY <3>2, <3>3
  <2>2. CASE k \in DOMAIN search
    BY <1>1, <1>6, <2>2 DEF SearchInv, InBounds, Progress
  <2> QED BY <1>6, <2>1, <2>2
<1>13. cell' \in 0 .. Len(commands')
  BY <1>1 DEF SearchInv
<1> QED BY <1>1, <1>6, <1>8, <1>9, <1>10, <1>11, <1>12, <1>13 DEF SearchInv

-----------------------------------------------------------------------------
(* Every step keeps the invariant.                                         *)

LEMMA FinishedTyped == Finished \in TurnRec /\ Finished.pc = "done" /\ Finished.cmd = 0
BY DEF Finished, TurnRec, CallRec, NoCmd

\* The steps of a turn that has just come in.
LEMMA ReceiveStep ==
  ASSUME IInv, NEW t \in Texts, Refuse(t) \/ AnswerRead(t) \/ PlanToolCall(t)
  PROVE  IInv'
<1>1. t.calls \subseteq Tools
  BY ChatAssumption
<1>2. UNCHANGED <<demo, rate, pending, commands, search, cell, wire>>
  BY DEF Refuse, AnswerRead, PlanToolCall, world
<1>3. \E r \in TurnRec : r.cmd = 0 /\ r.pc \in {"finalize", "done"} /\ turn' = Append(turn, r)
  <2>1. CASE NewTurn(Finished)
    BY <2>1, FinishedTyped DEF NewTurn
  <2>2. ASSUME NEW call \in {NoCall} \cup {Call(tool) : tool \in t.calls},
               NewTurn([Finished EXCEPT !.pc = "finalize", !.call = call,
                                        !.text = t.words \cap {"cancel", "abort", "confirm"}])
        PROVE  \E r \in TurnRec : r.cmd = 0 /\ r.pc \in {"finalize", "done"} /\ turn' = Append(turn, r)
    <3> DEFINE r == [Finished EXCEPT !.pc = "finalize", !.call = call,
                                     !.text = t.words \cap {"cancel", "abort", "confirm"}]
    <3>1. call \in CallRec
      BY <1>1 DEF CallRec, Call, NoCmd
    <3>2. r \in TurnRec /\ r.cmd = 0 /\ r.pc = "finalize"
      BY <3>1, FinishedTyped DEF TurnRec
    <3>3. turn' = Append(turn, r)
      BY <2>2 DEF NewTurn
    <3> HIDE DEF r
    <3> QED BY <3>2, <3>3
  <2>3. \/ NewTurn(Finished)
        \/ \E call \in {NoCall} \cup {Call(tool) : tool \in t.calls} :
             NewTurn([Finished EXCEPT !.pc = "finalize", !.call = call,
                                      !.text = t.words \cap {"cancel", "abort", "confirm"}])
    BY DEF Refuse, AnswerRead, PlanToolCall
  <2> QED BY <2>1, <2>2, <2>3
<1>4. turn' \in Seq(TurnRec) /\ TurnInv'
  BY <1>2, <1>3, TurnAdded DEF IInv
<1>5. SearchInv'
  BY <1>2, RowsUnchanged, SearchKept DEF IInv, Shapes
<1> QED BY <1>2, <1>4, <1>5 DEF IInv, Shapes

LEMMA OptimizeTurn ==
  ASSUME IInv, NEW t \in Texts, Optimize(t)
  PROVE  IInv'
<1>1. UNCHANGED <<demo, rate, pending, commands, cell, wire>> /\ turn' = Append(turn, Finished)
  BY DEF Optimize, NewTurn, world
<1>2. turn' \in Seq(TurnRec) /\ TurnInv'
  BY <1>1, FinishedTyped, TurnAdded DEF IInv
<1>3. search' \in Seq(SearchRec(rate')) /\ SearchInv'
  BY OptimizeStep DEF IInv
<1> QED BY <1>1, <1>2, <1>3 DEF IInv, Shapes

LEMMA SendTurn ==
  ASSUME IInv, NEW i \in DOMAIN turn, NEW ok \in BOOLEAN, Send(i, ok)
  PROVE  IInv'
<1> DEFINE c == turn[i].cmd
           r == IF demo THEN [turn[i] EXCEPT !.pc = "complete"] ELSE Finished
<1>1. /\ turn \in Seq(TurnRec) /\ turn[i] \in TurnRec /\ turn[i].pc = "send"
      /\ commands \in Seq(CommandRec) /\ search \in Seq(SearchRec(rate))
      /\ turn' = [turn EXCEPT ![i] = r] /\ UNCHANGED <<demo, rate, pending, search>>
      /\ Handled(c) \/ UNCHANGED <<cell, wire>>
  BY DEF IInv, Shapes, Send, Request, Goto, End, world
<1>2. c \in DOMAIN commands /\ commands[c].by = 0
  BY <1>1 DEF IInv, TurnInv, TurnsOwn
<1>3. r \in TurnRec /\ ((r.pc = "done" /\ r.cmd = 0) \/ (r.pc = "complete" /\ r.cmd = c))
  <2>1. CASE demo
    BY <1>1, <2>1 DEF TurnRec
  <2>2. CASE ~demo
    <3>1. r = Finished
      BY <2>2
    <3> HIDE DEF r
    <3> QED BY <3>1, FinishedTyped
  <2> QED BY <2>1, <2>2
<1>4. RowsKept /\ Len(commands') = Len(commands)
  <2> DEFINE status == IF ok THEN "accepted" ELSE "failed"
  <2>1. status \in {"pending", "accepted", "failed", "completed"}
    OBVIOUS
  <2>2. commands' = [commands EXCEPT ![c].status = status]
    BY DEF Send, Request
  <2> HIDE DEF status, c
  <2> QED BY <1>1, <1>2, <2>1, <2>2, StatusChanged
<1> HIDE DEF r
<1>5. /\ turn' \in Seq(TurnRec) /\ DOMAIN turn' = DOMAIN turn /\ turn'[i] = r
      /\ \A j \in DOMAIN turn : j # i => turn'[j] = turn[j]
  BY <1>1, <1>3, Replaced
<1>6. DOMAIN commands' \ DOMAIN commands = {}
  BY <1>4 DEF RowsKept
<1>7. TurnInv'
  <2>1. \A j \in DOMAIN turn : \/ turn'[j] = turn[j]
                               \/ turn'[j].pc = "done" /\ turn'[j].cmd = 0
                               \/ /\ turn'[j].pc = "complete" /\ turn[j].pc = "send"
                                  /\ turn'[j].cmd = turn[j].cmd
    BY <1>1, <1>3, <1>5
  <2> QED BY <1>1, <1>4, <1>5, <1>6, <2>1, TurnKept DEF IInv
<1> HIDE DEF c
<1>8. cell' \in 0 .. Len(commands') /\ EventsSound' /\ RunsApart' /\ wire' \subseteq EventRec(rate')
  <2>1. ASSUME NEW k \in DOMAIN search, search[k].pc = "send" PROVE search[k].cmd # c
    <3>1. commands[search[k].cmd].by = k /\ k # 0
      BY <1>1, <2>1 DEF IInv, SearchInv, SearchesOwn
    <3> QED BY <1>2, <3>1
  <2>2. rate' = rate /\ search' = search
    BY <1>1
  <2>3. \A k \in DOMAIN search :
            /\ search'[k].cmd = search[k].cmd
            /\ search'[k].queue \in {search[k].queue, <<>>}
            /\ search'[k].pc \in {"save", "send"} => search'[k].pc = search[k].pc
            /\ search'[k].pc = "send" => search[k].cmd # c
    BY <2>1, <2>2
  <2> QED BY <1>1, <1>2, <1>4, <2>2, <2>3, WorldStep DEF IInv
<1>9. Len(search) \in Nat /\ search' = search
  BY <1>1
<1>10. StartsAreOwned'
  BY <1>4, <1>6, <1>9, StartsKept DEF IInv
<1>11. SearchesOwn'
  BY <1>4, <1>9 DEF IInv, SearchInv, SearchesOwn, RowsKept, RowKept
<1>12. \A k \in DOMAIN search' : InBounds(search[k])' /\ Progress(search[k])'
  BY <1>1, <1>4 DEF IInv, SearchInv, InBounds, Progress
<1>13. SearchInv'
  BY <1>8, <1>10, <1>11, <1>12 DEF SearchInv
<1>14. Shapes'
  BY <1>1, <1>4, <1>5, <1>8 DEF IInv, Shapes, RowsKept
<1> QED BY <1>7, <1>13, <1>14 DEF IInv

LEMMA CompleteTurn ==
  ASSUME IInv, NEW i \in DOMAIN turn, CompleteDemoCommand(i)
  PROVE  IInv'
<1>1. /\ turn \in Seq(TurnRec) /\ commands \in Seq(CommandRec) /\ turn[i].pc = "complete"
      /\ turn' = [turn EXCEPT ![i] = Finished] /\ UNCHANGED <<demo, rate, pending, search, cell, wire>>
      /\ commands' = [commands EXCEPT ![turn[i].cmd].status = "completed"]
  BY DEF IInv, Shapes, CompleteDemoCommand, End, world
<1>2. turn[i].cmd \in DOMAIN commands
  BY <1>1 DEF IInv, TurnInv, TurnsOwn
<1>3. RowsKept /\ Len(commands') = Len(commands)
  BY <1>1, <1>2, StatusChanged
<1>4. /\ turn' \in Seq(TurnRec) /\ DOMAIN turn' = DOMAIN turn /\ turn'[i] = Finished
      /\ \A j \in DOMAIN turn : j # i => turn'[j] = turn[j]
  BY <1>1, FinishedTyped, Replaced
<1>5. DOMAIN commands' \ DOMAIN commands = {}
  BY <1>3 DEF RowsKept
<1>6. TurnInv'
  BY <1>1, <1>3, <1>4, <1>5, FinishedTyped, TurnKept DEF IInv
<1>7. SearchInv'
  BY <1>1, <1>3, <1>5, SearchKept DEF IInv
<1> QED BY <1>1, <1>3, <1>4, <1>6, <1>7 DEF IInv, Shapes, RowsKept

LEMMA TurnStepKeeps ==
  ASSUME IInv, NEW i \in DOMAIN turn, TurnStep(i)
  PROVE  IInv'
<1>1. CASE FinalizeRobotCommand(i)
  <2>1. turn' \in Seq(TurnRec) /\ pending' \in [call : CallRec, ask : Nat] /\ TurnInv'
    BY <1>1, FinalizeTurn DEF IInv
  <2>2. UNCHANGED <<demo, rate, commands, search, cell, wire>>
    BY <1>1 DEF FinalizeRobotCommand, world
  <2>3. SearchInv'
    BY <2>2, RowsUnchanged, SearchKept DEF IInv, Shapes
  <2> QED BY <2>1, <2>2, <2>3 DEF IInv, Shapes
<1>2. CASE SaveCommand(i)
  <2>1. /\ turn' \in Seq(TurnRec) /\ RowsKept /\ TurnInv'
        /\ Len(commands') = Len(commands) + 1
        /\ commands'[Len(commands) + 1].by = 0
    BY <1>2, SaveTurn DEF IInv
  <2>2. UNCHANGED <<demo, rate, pending, search, cell, wire>>
    BY <1>2 DEF SaveCommand, world
  <2>3. \A c \in DOMAIN commands' \ DOMAIN commands : commands'[c].by = 0
    BY <2>1 DEF RowsKept
  <2>4. SearchInv'
    BY <2>1, <2>2, <2>3, SearchKept DEF IInv
  <2> QED BY <2>1, <2>2, <2>4 DEF IInv, Shapes, RowsKept
<1>3. ASSUME NEW ok \in BOOLEAN, Send(i, ok) PROVE IInv'
  BY <1>3, SendTurn
<1>4. CASE CompleteDemoCommand(i)
  BY <1>4, CompleteTurn
<1> QED BY <1>1, <1>2, <1>3, <1>4 DEF TurnStep

LEMMA SearchStepKeeps ==
  ASSUME IInv, NEW k \in DOMAIN search, SearchStep(k)
  PROVE  IInv'
<1>1. UNCHANGED <<demo, rate, turn, pending>>
  BY DEF SearchStep, SaveStart, SendStart, Await, GiveUp
<1>2. CASE SaveStart(k)
  <2>1. /\ RowsKept /\ \A c \in DOMAIN commands' \ DOMAIN commands : commands'[c].ask = 0
        /\ search' \in Seq(SearchRec(rate')) /\ SearchInv'
    BY <1>2, SaveStartStep DEF IInv
  <2>2. UNCHANGED <<cell, wire>>
    BY <1>2 DEF SaveStart, world
  <2>3. TurnInv'
    BY <1>1, <2>1, TurnKept DEF IInv, Shapes
  <2> QED BY <1>1, <2>1, <2>2, <2>3 DEF IInv, Shapes, RowsKept, SearchInv
<1>3. ASSUME NEW ok \in BOOLEAN, SendStart(k, ok) PROVE IInv'
  <2>1. /\ RowsKept /\ Len(commands') = Len(commands)
        /\ search' \in Seq(SearchRec(rate')) /\ wire' \subseteq EventRec(rate') /\ SearchInv'
    BY <1>3, SendStartStep DEF IInv
  <2>2. DOMAIN commands' \ DOMAIN commands = {}
    BY <2>1 DEF RowsKept
  <2>3. TurnInv'
    BY <1>1, <2>1, <2>2, TurnKept DEF IInv, Shapes
  <2>4. cell' \in Nat
    BY <2>1 DEF SearchInv, RowsKept
  <2> QED BY <1>1, <2>1, <2>3, <2>4 DEF IInv, Shapes, RowsKept
<1>4. CASE Await(k) \/ GiveUp(k)
  <2>1. search' \in Seq(SearchRec(rate')) /\ SearchInv'
    BY <1>4, AwaitStep, GiveUpStep DEF IInv
  <2>2. UNCHANGED <<commands, cell, wire>>
    BY <1>4 DEF Await, GiveUp, world
  <2>3. TurnInv'
    BY <1>1, <2>2, RowsUnchanged, TurnKept DEF IInv, Shapes
  <2> QED BY <1>1, <2>1, <2>2, <2>3 DEF IInv, Shapes
<1> QED BY <1>2, <1>3, <1>4 DEF SearchStep

LEMMA EventStepKeeps ==
  ASSUME IInv, RunEnds \/ \E e \in wire : HandleCompletionEvent(e)
  PROVE  IInv'
<1>1. CASE RunEnds
  <2>1. wire' \subseteq EventRec(rate') /\ SearchInv'
    BY <1>1, RunEndsStep DEF IInv
  <2>2. UNCHANGED <<demo, rate, turn, pending, commands, search>> /\ cell' \in Nat
    BY <1>1 DEF RunEnds, NoCmd
  <2>3. TurnInv'
    BY <2>2, RowsUnchanged, TurnKept DEF IInv, Shapes
  <2> QED BY <2>1, <2>2, <2>3 DEF IInv, Shapes
<1>2. ASSUME NEW e \in wire, HandleCompletionEvent(e) PROVE IInv'
  <2>1. /\ RowsKept /\ Len(commands') = Len(commands)
        /\ search' \in Seq(SearchRec(rate')) /\ wire' \subseteq EventRec(rate') /\ SearchInv'
    BY <1>2, HandleStep DEF IInv
  <2>2. UNCHANGED <<demo, rate, turn, pending, cell>>
    BY <1>2 DEF HandleCompletionEvent
  <2>3. DOMAIN commands' \ DOMAIN commands = {}
    BY <2>1 DEF RowsKept
  <2>4. TurnInv'
    BY <2>1, <2>2, <2>3, TurnKept DEF IInv, Shapes
  <2> QED BY <2>1, <2>2, <2>4 DEF IInv, Shapes, RowsKept
<1> QED BY <1>1, <1>2

LEMMA NextKeeps == IInv /\ [Next]_vars => IInv'
<1> SUFFICES ASSUME IInv, [Next]_vars PROVE IInv'
  OBVIOUS
<1>1. CASE UNCHANGED vars
  <2>1. UNCHANGED <<demo, rate, turn, pending, commands, search, cell, wire>>
    BY <1>1 DEF vars, world
  <2>2. TurnInv' /\ SearchInv'
    BY <2>1, RowsUnchanged, TurnKept, SearchKept DEF IInv, Shapes
  <2> QED BY <2>1, <2>2 DEF IInv, Shapes
<1>2. ASSUME NEW t \in Texts, Refuse(t) \/ AnswerRead(t) \/ PlanToolCall(t) \/ Optimize(t) PROVE IInv'
  BY <1>2, ReceiveStep, OptimizeTurn
<1>3. ASSUME NEW i \in DOMAIN turn, TurnStep(i) PROVE IInv'
  BY <1>3, TurnStepKeeps
<1>4. ASSUME NEW k \in DOMAIN search, SearchStep(k) PROVE IInv'
  BY <1>4, SearchStepKeeps
<1>5. CASE RunEnds \/ \E e \in wire : HandleCompletionEvent(e)
  BY <1>5, EventStepKeeps
<1> QED BY <1>1, <1>2, <1>3, <1>4, <1>5 DEF Next

THEOREM InductiveInvariant == Spec => []IInv
BY InitIInv, NextKeeps, PTL DEF Spec

\* Turns, commands, searches and the cell keep their types, and whatever names
\* a command names one that was issued.
THEOREM ChatTypes == Spec => []TypeOK
BY InductiveInvariant, IInvTypes, PTL

\* However many turns confirm at once, what was held is issued at most once
\* (chat_orchestrator.py:1421-1428).
THEOREM ConfirmationIsTakenOnce == Spec => []ConfirmedOnce
<1>1. IInv => ConfirmedOnce
  BY DEF IInv, TurnInv, AsksAreUnique
<1> QED BY <1>1, InductiveInvariant, PTL

\* No search asks for a run while one of its own is under way.
THEOREM RunsOfASearchAreApart == Spec => []OneRunAtATime
<1>1. IInv => OneRunAtATime
  BY DEF IInv, SearchInv, RunsApart
<1> QED BY <1>1, InductiveInvariant, PTL

\* A live search that no stop has cut short ends with what the deterministic
\* search over the same rates finds, in the same steps, whatever else is
\* commanded, lost, late or reordered (chat_orchestrator.py:874-877).
THEOREM LiveSearchIsRight == Spec => []SearchFindsOptimum
BY InductiveInvariant, IInvFinds, PTL
=============================================================================
