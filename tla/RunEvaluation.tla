--------------------------- MODULE RunEvaluation ---------------------------
(***************************************************************************)
(* The pure part of the backend that judges runs: the bottleneck rate of a *)
(* congestion heat map, the graded evaluation of one run, the comparison   *)
(* of two, the deterministic process model, and the search for the largest *)
(* fleet that meets a goal.                                                *)
(*                                                                         *)
(* KPIs are integers: bottleneck rate, throughput and wait in tenths,      *)
(* collision risk and uptime in hundredths; NoKpi is a missing value.      *)
(***************************************************************************)
EXTENDS Integers, Sequences, FiniteSets, FiniteSetsExt

NoKpi == -1

\* What the five KPIs are, whether more is better, and the bounds of the tones.
Metrics == [ bottleneck_rate |-> [up |-> FALSE, good |-> 300, warn |-> 500],
             throughput      |-> [up |-> TRUE,  good |-> 600, warn |-> 400],
             avg_wait_time   |-> [up |-> FALSE, good |-> 100, warn |-> 200],
             collision_risk  |-> [up |-> FALSE, good |-> 50,  warn |-> 150],
             uptime          |-> [up |-> TRUE,  good |-> 95,  warn |-> 85] ]
KpiNames == DOMAIN Metrics
NoKpis == [m \in KpiNames |-> NoKpi]

---------------------------------------------------------------------------
(* Heat maps: a grid of densities and an optional mask of visited cells.   *)

NoMask == <<>>

\* The cells the AGVs entered: by the mask, else those with any density.
Traversed(grid, mask) ==
    IF mask # NoMask THEN {i \in DOMAIN grid \cap DOMAIN mask : mask[i]}
                     ELSE {i \in DOMAIN grid : grid[i] > 0}

Peak(grid) == Max({grid[i] : i \in DOMAIN grid})
Hot(grid, cells) == {i \in cells : 10 * grid[i] >= 6 * Peak(grid)}

\* round(100 * part / whole, 1), in tenths, ties to even.
Percent(part, whole) ==
    LET q == (1000 * part) \div whole
        twice == 2 * ((1000 * part) % whole)
    IN  IF twice > whole \/ (twice = whole /\ q % 2 = 1) THEN q + 1 ELSE q

BottleneckRate(grid, mask) ==
    LET cells == Traversed(grid, mask)
    IN  IF grid = <<>> \/ cells = {} \/ Peak(grid) <= 0 THEN 0
        ELSE Percent(Cardinality(Hot(grid, cells)), Cardinality(cells))

NoStats == [hot |-> 0, of |-> 0, concentrated |-> FALSE, spot |-> <<>>]

\* Congestion is concentrated when the peak is 3.5 times the mean and at most
\* 15% of the visited cells are hot; the hot spot is the quadrant of the peak.
HeatmapStats(grid, mask, resX) ==
    LET cells == Traversed(grid, mask)
        n == Cardinality(cells)
        sum == MapThenSumSet(LAMBDA i : grid[i], cells)
        hot == Cardinality(Hot(grid, cells))
        at == Min({i \in DOMAIN grid : grid[i] = Peak(grid)}) - 1
        resY == (2 * Len(grid) + resX) \div (2 * resX)
    IN  IF grid = <<>> \/ cells = {} \/ Peak(grid) <= 0 THEN NoStats
        ELSE [ hot |-> hot, of |-> n,
               concentrated |-> /\ sum > 0 /\ 2 * Peak(grid) * n >= 7 * sum
                                /\ 20 * hot <= 3 * n,
               spot |-> << 2 * (at \div resX) < resY, 2 * (at % resX) < resX >> ]

---------------------------------------------------------------------------
(* The evaluation of one run.                                              *)

Measured(kpis) == {m \in KpiNames : kpis[m] # NoKpi}

\* The tone of a value as points: 2 good, 1 warn, 0 bad.
Tone(m, v) ==
    LET reaches(bound) == IF Metrics[m].up THEN v >= bound ELSE v <= bound
    IN  IF reaches(Metrics[m].good) THEN 2 ELSE IF reaches(Metrics[m].warn) THEN 1 ELSE 0

Score(kpis) == MapThenSumSet(LAMBDA m : Tone(m, kpis[m]), Measured(kpis))

\* A from 80% of the points, B from 55%, C below; with only a heat map the
\* ratio is one half.
Grade(kpis) ==
    LET full == 2 * Cardinality(Measured(kpis))
        reaches(share) == full > 0 /\ 100 * Score(kpis) >= share * full
    IN  IF reaches(80) THEN "A" ELSE IF reaches(55) THEN "B" ELSE "C"

NoEvaluation == [grade |-> "-", headline |-> "-"]

\* The verdict decides the headline when there is one, the grade otherwise.
Evaluation(kpis, stats, verdict) ==
    IF Measured(kpis) = {} /\ stats = NoStats THEN NoEvaluation
    ELSE [ grade |-> Grade(kpis),
           headline |-> IF verdict # "none" THEN verdict ELSE Grade(kpis) ]

---------------------------------------------------------------------------
(* The comparison of two finished runs [kpis, verdict].                    *)

\* Mutant: the table of the comparison lacks a direction.
HigherIsBetterForgotten == {"throughput"}

\* _COMPARE_METRICS has a table of directions of its own.
HigherIsBetter == {"throughput", "uptime"}
Better(m, v, w) == IF m \in HigherIsBetter THEN v > w ELSE v < w
Shared(a, b) == Measured(a.kpis) \cap Measured(b.kpis)
Wins(a, b) == Cardinality({m \in Shared(a, b) : Better(m, a.kpis[m], b.kpis[m])})

\* A verdict decides when exactly one of the two passed; wins decide otherwise.
Winner(a, b) ==
    LET decided == /\ {a.verdict, b.verdict} = {"passed", "failed"}
        aWins == IF decided THEN a.verdict = "passed" ELSE Wins(a, b) > Wins(b, a)
        bWins == IF decided THEN b.verdict = "passed" ELSE Wins(b, a) > Wins(a, b)
    IN  IF Shared(a, b) = {} THEN "none"
        ELSE IF aWins THEN "a" ELSE IF bWins THEN "b" ELSE "tie"

---------------------------------------------------------------------------
(* The process model of the demo and the search over it.                   *)

HeatmapCells == 24 * 16

\* round(min(0.95, 0.06 + 0.05 n + 0.02 n^2) * 384)
HotCells(n) ==
    LET share == Min({95, 6 + 5 * n + 2 * n * n})
    IN  (2 * share * HeatmapCells + 100) \div 200

\* The KPIs of one simulated run; the heat map has a positive background, so
\* that all its cells count.
SimulatedKpis(count) ==
    LET n == Max({1, count})
    IN  [ bottleneck_rate |-> Percent(HotCells(n), HeatmapCells),
          throughput      |-> (2 * (26000 * n - 1560 * n * n) + 100) \div 200,
          avg_wait_time   |-> 40 + 30 * n + 20 * n * n,
          collision_risk  |-> 15 * n * n,
          uptime          |-> Max({50, 98 - 3 * n}) ]

\* A goal [atMost, threshold, most]: the rate at most (or at least) a
\* threshold, searched from the fleet size down to one AGV.
GoalSatisfied(rate, goal) ==
    IF goal.atMost THEN rate <= goal.threshold ELSE rate >= goal.threshold

\* parse_optimization_goal: 30% unless the request names a percentage, and
\* three AGVs unless the fleet size is known.
Goal(atMost, percent, fleet) ==
    [ atMost |-> atMost, threshold |-> IF percent = NoKpi THEN 300 ELSE percent,
      most |-> IF fleet > 0 THEN fleet ELSE 3 ]

\* The counts tried, in order: from the top down to the first that satisfies.
SearchSteps(goal, rate) ==
    LET from[c \in 0 .. goal.most] ==
            IF c = 0 THEN <<>>
            ELSE IF GoalSatisfied(rate[c], goal) THEN <<c>>
            ELSE <<c>> \o from[c - 1]
    IN  from[goal.most]

NoCount == 0
SearchOptimum(goal, rate) ==
    LET steps == SearchSteps(goal, rate)
        last == steps[Len(steps)]
    IN  IF GoalSatisfied(rate[last], goal) THEN last ELSE NoCount
===========================================================================
