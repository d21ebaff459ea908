------------------------------- MODULE Scoring -------------------------------
(***************************************************************************)
(* What the ranking handlers do with the results of the reranker: the      *)
(* keyword fallback (app/fallback.py), the confidence levels               *)
(* (app/confidence.py) and the sort by level (app/main.py).                *)
(***************************************************************************)
EXTENDS Reranking

CONSTANTS
    StopWords, \* words that are no keywords
    HighValue, \* words that count two and a half times
    PartOf     \* pairs of a word and a longer one that contains it

FallbackThreshold == 150

Keywords(t) == (Tokens[t] \ StopWords) \cup (Tokens[t] \cap HighValue)

\* Weights in halves: 2.5 and 1.0.
Weight(words) == 2 * Cardinality(words) + 3 * Cardinality(words \cap HighValue)

\* The keywords of the job description that are words of the resume, or
\* parts of them.
Matched(jd, text) ==
    {w \in Keywords(jd) : \E v \in Keywords(text) : v = w \/ <<w, v>> \in PartOf}

KeywordScore(jd, text) ==
    IF Keywords(jd) = {} THEN 0
    ELSE (Unit * Weight(Matched(jd, text))) \div Weight(Keywords(jd))

\* A mutant of Blend: the better of the two.
BetterOf(neural, keyword) == IF neural > keyword THEN neural ELSE keyword

\* KeywordFallback.blend: two fifths neural, three fifths keywords.
Blend(neural, keyword) == (2 * neural + 3 * keyword) \div 5

NeedsFallback(score) == score < FallbackThreshold

\* apply_fallback: the result dicts, in the order of the reranker.
ApplyFallback(jd, results) ==
    [i \in DOMAIN results |->
        IF NeedsFallback(results[i].final)
        THEN [score    |-> Blend(results[i].final, KeywordScore(jd, results[i].text)),
              fallback |-> TRUE]
        ELSE [score |-> results[i].final, fallback |-> FALSE]]

High == 700
Medium == 400
Low == 150
Gap == 80

Total(s) == FoldLeft(LAMBDA acc, x : acc + x, 0, s)

\* The standard deviation of the scores is below 0.05; one score spreads.
NarrowBand(s) ==
    LET squares == [i \in DOMAIN s |-> s[i] * s[i]]
    IN  /\ Len(s) > 1
        /\ Len(s) * Total(squares) - Total(s) * Total(s) < 50 * 50 * Len(s) * Len(s)

\* A mutant of GapAfter: the gap to the score before.
GapBefore(s, i) == IF i > 1 THEN s[i - 1] - s[i] ELSE 0

\* The gap to the next score of the list, 0 for the last one.
GapAfter(s, i) == IF i < Len(s) THEN s[i] - s[i + 1] ELSE 0

Level(s, i) ==
    IF NarrowBand(s) THEN "uncertain"
    ELSE IF s[i] >= High /\ GapAfter(s, i) >= Gap THEN "high"
    ELSE IF s[i] >= Medium
         THEN IF GapAfter(s, i) < Gap /\ i < Len(s) THEN "uncertain" ELSE "medium"
    ELSE IF s[i] >= Low THEN "low"
    ELSE "uncertain"

\* score_confidence, for a list that is in the order of the reranker.
ScoreConfidence(s) ==
    [i \in DOMAIN s |-> [level  |-> Level(s, i),
                         winner |-> i = 1 /\ s[i] >= High /\ GapAfter(s, i) >= 2 * Gap]]

Tier(level) == CASE level = "high" -> 0 [] level = "medium" -> 1
                 [] level = "low" -> 2 [] OTHER -> 3

\* apply_confidence_penalty_and_sort: best tier first, then best score.
TierSort(combined) ==
    SortedBy(combined, [i \in DOMAIN combined |->
                           combined[i].score - 2 * Unit * Tier(combined[i].level)])

\* From the reranker's results to the results of the answer.
Score(jd, results) ==
    LET dicts  == Listed(ApplyFallback(jd, results))
        levels == ScoreConfidence(Listed([i \in DOMAIN dicts |-> dicts[i].score]))
    IN  Numbered(TierSort(Listed([i \in DOMAIN results |->
            [pos |-> results[i].pos, id |-> results[i].id, scored |-> results[i].scored,
             score |-> dicts[i].score, fallback |-> dicts[i].fallback,
             level |-> levels[i].level, winner |-> levels[i].winner, rank |-> results[i].rank]])))
=============================================================================
