------------------------------ MODULE Reranking ------------------------------
(***************************************************************************)
(* The second stage of a ranking (app/reranker.py): what each of the       *)
(* rerankers makes of the candidates that the retriever found.             *)
(*                                                                         *)
(* Scores are integers, in thousandths and rounded down.  A candidate is   *)
(* [pos, id, text, emb]: its position in the list that was submitted, and  *)
(* its embedding score.  A language model's answer is NoAnswer (the call   *)
(* raised), or a value with the list in it, if there is one, and its items *)
(* reduced to what the parser looks at.                                    *)
(***************************************************************************)
EXTENDS Validation

CONSTANTS
    TopK,          \* RetrieverConfig.top_k, as many candidates there are at most
    MaxCandidates, \* HostedLLMReranker._MAX_CANDIDATES
    NoAnswer,      \* call_llm_json raised
    NoList,        \* the answer is neither a list nor an object with one
    Absent         \* an item without an index, or without a score

ASSUME RerankingAssumption ==
    /\ TopK \in Nat \ {0} /\ MaxCandidates \in Nat \ {0}
    /\ Absent \notin Int

Unit == 1000

Lesser(a, b) == IF a < b THEN a ELSE b
Greatest(S) == CHOOSE x \in S : \A y \in S : y <= x
Least(S) == CHOOSE x \in S : \A y \in S : x <= y

\* The first n elements, as a slice [:n] takes them.
FirstOf(s, n) == SubSeq(s, 1, Lesser(n, Len(s)))

\* The list s itself, evaluated: TLC computes a function's value at each use.
Listed(s) == SubSeq(s, 1, Len(s))

\* list.sort(key=..., reverse=True), which is stable: largest key first.
SortedBy(s, keys) ==
    LET before(i) == {j \in DOMAIN s : keys[j] > keys[i] \/ (keys[j] = keys[i] /\ j < i)}
        at == InOrder([i \in DOMAIN s |-> before(i)])
    IN  Listed([p \in DOMAIN s |-> s[at[p]]])

ByEmbedding(candidates) ==
    SortedBy(candidates, [i \in DOMAIN candidates |-> candidates[i].emb])

\* A RerankResult; "scored" remembers whether a model has judged it.
Result(c, rerank, final, scored) ==
    [pos |-> c.pos, id |-> c.id, text |-> c.text, emb |-> c.emb,
     rerank |-> rerank, final |-> final, scored |-> scored, rank |-> 0]

ByFinal(results) == SortedBy(results, [i \in DOMAIN results |-> results[i].final])

\* rank is the place in the list, from 0.
Numbered(results) == [p \in DOMAIN results |-> [results[p] EXCEPT !.rank = p - 1]]

\* Retrieval order: the embedding score stands in for every other.
Passthrough(candidates, n) ==
    Numbered([p \in DOMAIN FirstOf(candidates, n) |->
                 Result(candidates[p], candidates[p].emb, candidates[p].emb, FALSE)])

\* CrossEncoderReranker without its library, what get_reranker falls back to.
LexicalRerank(candidates, n) == Passthrough(ByEmbedding(candidates), n)

\* Cosine scores stretched to [0, Unit]; all equal ones become 0.
Stretched(candidates) ==
    LET embs == {candidates[i].emb : i \in DOMAIN candidates}
        span == Greatest(embs) - Least(embs)
    IN  Listed([i \in DOMAIN candidates |->
            IF span = 0 THEN 0 ELSE (Unit * (candidates[i].emb - Least(embs))) \div span])

\* The orders of n candidates.
Orders ==
    [n \in 0 .. TopK |->
        {f \in [1 .. n -> 1 .. n] : \A i, j \in 1 .. n : f[i] = f[j] => i = j}]

\* The local models: one score per candidate, weighted with the stretched
\* embedding score (the weight is in tenths: 3 for the cross-encoder, 2 for
\* the local language model).  argsort may put equal scores in any order.
LocalReranks(candidates, n, weight, scores) ==
    LET embs     == Stretched(candidates)
        combined == Listed([i \in DOMAIN candidates |->
                        Result(candidates[i], scores[i],
                               (weight * embs[i] + (10 - weight) * scores[i]) \div 10, TRUE)])
        falling  == {f \in Orders[Len(candidates)] :
                        \A p, q \in DOMAIN f : p < q => combined[f[p]].final >= combined[f[q]].final}
    IN  {FirstOf(Numbered([p \in DOMAIN f |-> combined[f[p]]]), n) : f \in falling}

\* _score_list: a bare list, or the first list under a known key.
ScoreList(answer) == IF answer.form \in {"list", "wrapped"} THEN answer.items ELSE NoList

\* The test that call_llm_json is given for what may be stored and replayed.
Storable(answer) == ScoreList(answer) # NoList /\ ScoreList(answer) # <<>>

\* The candidate an item is about: its index, or its place in the list.
IndexOf(items, p) == IF items[p].index = Absent THEN p - 1 ELSE items[p].index

\* The items that give candidate i (from 0) a score; the last one counts.
ItemsFor(items, i) == {p \in DOMAIN items : items[p].score # Absent /\ IndexOf(items, p) = i}

\* A mutant of Clamped: without its upper bound.
NotNegative(percent) == (Unit * (IF percent < 0 THEN 0 ELSE percent)) \div 100

Clamped(percent) ==
    (Unit * (IF percent < 0 THEN 0 ELSE IF percent > 100 THEN 100 ELSE percent)) \div 100

\* _score_candidates: the candidates that get a usable score from the answer.
ScoresOf(answer, m) ==
    LET items  == IF answer = NoAnswer \/ ScoreList(answer) = NoList THEN <<>>
                  ELSE ScoreList(answer)
        judged == {i \in 0 .. m - 1 : ItemsFor(items, i) # {}}
    IN  [i \in judged |-> Clamped(items[Greatest(ItemsFor(items, i))].score)]

\* The candidates in the prompt of the hosted model.
Subset20(candidates) == FirstOf(ByEmbedding(candidates), MaxCandidates)

\* A mutant of HostedScore: past the cap candidates keep their embedding score.
ScoreOrEmbedding(scores, ordered, p) ==
    IF p - 1 \in DOMAIN scores THEN scores[p - 1] ELSE ordered[p].emb

\* The score of the answer; a candidate that got none keeps its embedding
\* score, and those past the cap get 0.
HostedScore(scores, ordered, p) ==
    IF p - 1 \in DOMAIN scores THEN scores[p - 1]
    ELSE IF p <= MaxCandidates THEN ordered[p].emb
    ELSE 0

\* HostedLLMReranker.rerank: without a usable score retrieval order.
HostedRerank(candidates, n, answer) ==
    LET ordered  == ByEmbedding(candidates)
        scores   == ScoresOf(answer, Len(Subset20(candidates)))
        combined == Listed([p \in DOMAIN ordered |->
                        Result(ordered[p], HostedScore(scores, ordered, p),
                               HostedScore(scores, ordered, p), p <= MaxCandidates)])
    IN  IF DOMAIN scores = {} THEN Passthrough(ordered, n)
        ELSE FirstOf(Numbered(ByFinal(combined)), n)
=============================================================================
