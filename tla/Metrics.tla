------------------------------- MODULE Metrics -------------------------------
(***************************************************************************)
(* The ranking metrics (app/metrics.py) and their grades                   *)
(* (app/metrics_report.py), as functions of the relevant ids and of the    *)
(* list of ranked ids.  Values are in thousandths, rounded down.           *)
(***************************************************************************)
EXTENDS Integers, Sequences, FiniteSets, SequencesExt

CONSTANT Discount \* Discount[i]: 1 / log2(i + 1), for position i from 1

\* In a unit in which no two positions have the same discount.
ASSUME MetricsAssumption ==
    /\ Discount \in Seq(Nat \ {0})
    /\ \A i, j \in 1 .. Len(Discount) : i < j => Discount[j] < Discount[i]

One == 1000

TopOf(ranked, k) == SubSeq(ranked, 1, IF k < Len(ranked) THEN k ELSE Len(ranked))

\* The relevant ids among the first k places, one for each place.
Hits(relevant, ranked, k) == Cardinality({i \in DOMAIN TopOf(ranked, k) : ranked[i] \in relevant})

PrecisionAt(relevant, ranked, k) ==
    IF k <= 0 THEN 0 ELSE (One * Hits(relevant, ranked, k)) \div k

RecallAt(relevant, ranked, k) ==
    IF relevant = {} \/ k <= 0 THEN 0
    ELSE (One * Hits(relevant, ranked, k)) \div Cardinality(relevant)

\* Sums(s)[i] is the sum of the first i elements.
Sums(s) ==
    LET sum[i \in 0 .. Len(s)] == IF i = 0 THEN 0 ELSE sum[i - 1] + s[i] IN sum

SumOver(s) == Sums(s)[Len(s)]

\* A mutant of Attainable: all relevant ids, as if k were large enough.
AllRelevant(relevant, k) == Cardinality(relevant)

\* The number of hits the first k places can have.
Attainable(relevant, k) == IF Cardinality(relevant) < k THEN Cardinality(relevant) ELSE k

\* average_precision_at_k: precision at each hit, over what could be hit.
AveragePrecisionAt(relevant, ranked, k) ==
    LET atHit(i) == IF ranked[i] \in relevant THEN (One * Hits(relevant, ranked, i)) \div i ELSE 0
    IN  IF Attainable(relevant, k) <= 0 THEN 0
        ELSE SumOver([i \in DOMAIN TopOf(ranked, k) |-> atHit(i)])
             \div Attainable(relevant, k)

Dcg(gains) == SumOver([i \in DOMAIN gains |-> gains[i] * Discount[i]])

\* ndcg_at_k: the ideal ranking is made of the first k places themselves.
NdcgAt(relevant, ranked, k) ==
    LET gains == [i \in DOMAIN TopOf(ranked, k) |-> IF ranked[i] \in relevant THEN 1 ELSE 0]
        best  == [i \in DOMAIN gains |-> IF i <= SumOver(gains) THEN 1 ELSE 0]
    IN  IF SumOver(gains) = 0 THEN 0 ELSE (One * Dcg(gains)) \div Dcg(best)

\* f1_at_k, on the two values before they are rounded: 2h / (k + |relevant|).
F1At(relevant, ranked, k) ==
    IF k <= 0 THEN 0 ELSE (2 * One * Hits(relevant, ranked, k)) \div (k + Cardinality(relevant))

MeanReciprocalRank(relevant, ranked) ==
    LET found == {i \in DOMAIN ranked : ranked[i] \in relevant}
    IN  IF found = {} THEN 0 ELSE One \div (CHOOSE i \in found : \A j \in found : i <= j)

\* The ks of evaluate: those asked for, if there are any.
Cutoffs(ks) == IF ks = {} THEN {1, 3, 5, 10} ELSE ks

\* evaluate: every metric at every k.
Evaluate(relevant, ranked, ks) ==
    [at |-> [k \in Cutoffs(ks) |-> [precision |-> PrecisionAt(relevant, ranked, k),
                                    recall    |-> RecallAt(relevant, ranked, k),
                                    ap        |-> AveragePrecisionAt(relevant, ranked, k),
                                    ndcg      |-> NdcgAt(relevant, ranked, k),
                                    f1        |-> F1At(relevant, ranked, k)]],
     mrr |-> MeanReciprocalRank(relevant, ranked)]

Grade(value) == IF value >= 900 THEN "A" ELSE IF value >= 750 THEN "B"
                ELSE IF value >= 550 THEN "C" ELSE IF value >= 350 THEN "D" ELSE "F"

\* The overall score of build_report: NDCG at the primary k when it was
\* computed, and the mean of all values otherwise.
Overall(metrics, primary) ==
    LET ks   == DOMAIN metrics.at
        sum5 == [k \in ks |-> metrics.at[k].precision + metrics.at[k].recall
                              + metrics.at[k].ap + metrics.at[k].ndcg + metrics.at[k].f1]
        all  == FoldFunction(LAMBDA x, acc : x + acc, metrics.mrr, sum5)
    IN  IF primary \in ks THEN metrics.at[primary].ndcg
        ELSE all \div (5 * Cardinality(ks) + 1)

\* evaluate_with_report.
Report(relevant, ranked, ks, primary) ==
    LET metrics == Evaluate(relevant, ranked, ks)
    IN  [raw |-> metrics, grade |-> Grade(Overall(metrics, primary))]
=============================================================================
