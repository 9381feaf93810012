----------------------------- MODULE ResultRules ----------------------------
(***************************************************************************)
(* How abilities and percentiles are read off tables: the norms that the   *)
(* nightly job makes (cron-calibration.service.ts), the continuous norms,  *)
(* the cut scores and the categories and recommendations of                *)
(* evaluation-business-rules.ts, whose labels are written without accents. *)
(*                                                                         *)
(* Abilities (theta) are integers, in tenths; a norm has as many           *)
(* percentiles as its cuts make, a hundred in the code.                    *)
(***************************************************************************)
EXTENDS Integers, Sequences, FiniteSets, FiniteSetsExt

CONSTANTS
    Theta,      \* abilities the tables are read for
    Curve,      \* curves of continuous norms
    Cuts,       \* quantiles of samples: sequences of abilities in order
    Unstated    \* a demographic field that is null

VARIABLE
    input       \* what one table is read for, NoInput for none

NoInput == [table |-> "none"]

Lowest == -9990
Highest == 9990

\* Abilities lie between the ends of the tables; the quantiles of a sample are
\* in order; the points of a curve are those of a normal distribution whose
\* deviation is clipped to 0.1 .. 2.0 (scripts/continuous_norming.py).
ASSUME TablesAssumption ==
    /\ \A theta \in Theta : theta \in Int /\ Lowest <= theta /\ theta < Highest
    /\ \A cuts \in Cuts : cuts \in Seq(Int) /\ \A i, j \in DOMAIN cuts : i <= j => cuts[i] <= cuts[j]
    /\ \A curve \in Curve : curve \in [1 .. 7 -> Int] /\ \A i, j \in 1 .. 7 : i < j => curve[i] < curve[j]

-----------------------------------------------------------------------------
\* The DO block: each percentile ends where the next one begins; the first
\* begins at -999 and the last ends at 999.
NormRows(cuts) == {[percentile |-> i,
                    min |-> IF i = 1 THEN Lowest ELSE cuts[i - 1],
                    max |-> IF i > Len(cuts) THEN Highest ELSE cuts[i]] :
                   i \in 1 .. Len(cuts) + 1}

Covers(row, theta) == row.min <= theta /\ theta < row.max

\* Every field the candidate states must be the row's; among those rows the
\* largest sample wins.  There is no fallback to a more general norm.
ForCandidate(group, candidate) ==
    \A f \in DOMAIN candidate : candidate[f] # Unstated => group[f] = candidate[f]

FoundNorm(norms, candidate) ==
    LET own == {n \in norms : ForCandidate(n.group, candidate)}
    IN  {n \in own : \A o \in own : o.sample <= n.sample}

\* Whatever the quantiles of the sample, equal ones included, each ability has
\* exactly one percentile in a norm: the reads with findFirst are determined.
OnePercentileEach ==
    input.table = "norm" =>
        Cardinality({row \in NormRows(input.cuts) : Covers(row, input.theta)}) = 1

-----------------------------------------------------------------------------
\* resolveRuleLabel: the first rule whose end lies above the value.
ResolveLabel(value, rules, default) ==
    LET open == {i \in DOMAIN rules : value < rules[i][1]}
    IN  IF open = {} THEN default ELSE rules[Min(open)][2]

ThetaRules == <<<<-15, "Basico">>, <<5, "En desarrollo">>, <<15, "Competente">>>>
CategoryForTheta(theta) == ResolveLabel(theta, ThetaRules, "Sobresaliente")

NarrativeRules == <<<<-15, "Basico / Critico">>, <<5, "En desarrollo">>, <<15, "Competente">>>>
NarrativeCategory(theta) == ResolveLabel(theta, NarrativeRules, "Sobresaliente / Experto")

\* The paragraph of a scale, by its place in REPORT_NARRATIVES.
NarrativeParagraph(theta) == ResolveLabel(theta, <<<<-15, 1>>, <<5, 2>>, <<15, 3>>>>, 4)

\* The cut scores sown when there are none, and findCutScore.
DefaultCutScores ==
    {[categoria |-> "Basico",        min |-> Lowest, max |-> -15],
     [categoria |-> "En desarrollo", min |-> -15,    max |-> 5],
     [categoria |-> "Competente",    min |-> 5,      max |-> 15],
     [categoria |-> "Sobresaliente", min |-> 15,     max |-> Highest]}

\* Mutant: both ends belong to the category.
FindCutScoreWithin(cutScores, theta) == {c \in cutScores : c.min <= theta /\ theta <= c.max}

FindCutScore(cutScores, theta) == {c \in cutScores : c.min <= theta /\ theta < c.max}

\* The values categoria can have in getAttemptResultados.
Categorias(cutScores, theta) ==
    LET found == FindCutScore(cutScores, theta)
    IN  IF found = {} THEN {CategoryForTheta(theta)} ELSE {c.categoria : c \in found}

\* Place of a category, whatever it is called.
Place(label) ==
    CASE label \in {"Basico", "Basico / Critico"} -> 1
      [] label = "En desarrollo" -> 2
      [] label = "Competente" -> 3
      [] OTHER -> 4

\* The results, read from the cut scores, and the narrative report, which
\* never looks at them, put an ability at the same place, at every boundary
\* and whether or not the cut scores were sown.
CategoriesAgree ==
    input.table = "category" =>
        /\ \A label \in Categorias(input.cutScores, input.theta) :
             Place(label) = Place(NarrativeCategory(input.theta))
        /\ NarrativeParagraph(input.theta) = Place(NarrativeCategory(input.theta))

-----------------------------------------------------------------------------
\* getPercentileContinuous, once the norm is found: its curve gives the
\* ability at each of the seven percentiles.
CurvePercentiles == <<5, 10, 25, 50, 75, 90, 95>>

Clamp(low, high, n) == IF n < low THEN low ELSE IF n > high THEN high ELSE n

\* Math.round(p + num / den)
RoundedFrom(p, num, den) == (2 * (p * den + num) + den) \div (2 * den)

\* The line through two points of the curve.
OnLine(curve, i, theta) ==
    LET run == curve[i + 1] - curve[i]
        rise == CurvePercentiles[i + 1] - CurvePercentiles[i]
    IN  RoundedFrom(CurvePercentiles[i], rise * (theta - curve[i]), run)

PercentileContinuous(curve, theta) ==
    IF theta <= curve[1] THEN Clamp(1, 4, OnLine(curve, 1, theta))
    ELSE IF theta >= curve[7]
      THEN Clamp(96, 99, RoundedFrom(95, 5 * (theta - curve[7]), curve[7] - curve[6]))
    ELSE LET i == Min({k \in 1 .. 6 : curve[k] <= theta /\ theta <= curve[k + 1]})
         IN  IF curve[i] = curve[i + 1] THEN CurvePercentiles[i] ELSE OnLine(curve, i, theta)

\* Along a curve whose points differ, a greater ability never has a lesser
\* percentile, across the ends and the points where the lines meet.
ContinuousInOrder ==
    input.table = "curve" =>
        PercentileContinuous(input.curve, input.theta) <= PercentileContinuous(input.curve, input.more)

(***************************************************************************)
(* Each ability is read to one place in every table, and to the same one   *)
(* in all of them: one percentile of a norm whatever its quantiles, one    *)
(* category in the results and in the narrative report with and without    *)
(* cut scores in the database, and along a continuous norm never a lesser  *)
(* percentile for a greater ability.                                       *)
(***************************************************************************)
TablesAgree == OnePercentileEach /\ CategoriesAgree /\ ContinuousInOrder

-----------------------------------------------------------------------------
\* The inputs one table is checked for.
TableRead ==
    \/ \E cuts \in Cuts, theta \in Theta :
          input = [table |-> "norm", cuts |-> cuts, theta |-> theta]
    \/ \E cutScores \in {{}, DefaultCutScores}, theta \in Theta :
          input = [table |-> "category", cutScores |-> cutScores, theta |-> theta]
    \/ \E curve \in Curve, theta \in Theta : \E more \in {t \in Theta : theta <= t} :
          input = [table |-> "curve", curve |-> curve, theta |-> theta, more |-> more]

-----------------------------------------------------------------------------
RecommendationForIga(iga) ==
    IF iga >= 75 THEN "Recomendado"
    ELSE IF iga >= 50 THEN "Aceptable con observaciones" ELSE "No recomendado"

AlertThreshold == [IT2_I |-> 20, IT2_AC10 |-> 15, IT2_CB10 |-> 20]

AlertFor(test, percentile) ==
    test \in DOMAIN AlertThreshold /\ percentile < AlertThreshold[test]

\* The weights are renormalised when they make less than the whole.
Iga(percentiles, weights) ==
    LET used == MapThenSumSet(LAMBDA t : weights[t], DOMAIN percentiles)
        sum == MapThenSumSet(LAMBDA t : weights[t] * percentiles[t], DOMAIN percentiles)
    IN  sum \div (IF used < 100 THEN used ELSE 100)
=============================================================================
