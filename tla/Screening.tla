------------------------------ MODULE Screening ------------------------------
(***************************************************************************)
(* The way of a ranking request from its body to its answer (app/main.py,  *)
(* app/pipeline.py): validation, retrieval, reranking through the answer   *)
(* cache (app/llm.py, app/db.py), fallback, confidence and metrics.        *)
(*                                                                         *)
(* Calls share the table ai_cache and nothing else here: what they do to   *)
(* each other through the retriever is the subject of RankPipeline, and    *)
(* how a model call ends that of LLMCall.  A step of a call is what it     *)
(* does between two awaits, or two accesses to the table.                  *)
(***************************************************************************)
EXTENDS Scoring, Metrics

CONSTANTS
    Calls,       \* requests in progress
    Deployments, \* what may be installed
    Bodies,      \* the request bodies clients may send
    Answers,     \* what the hosted model may answer
    LocalScores, \* the scores a local model may give
    Cosine,      \* Cosine[<<jd, text>>]: similarity of the embeddings
    FlatLimit,   \* as many vectors make build_index take an IVF index
    PrimaryK     \* the k of the overall grade

\* get_reranker's choice, by what is installed and configured.
Rerankers == {"llama", "cross", "hosted", "lexical"}

ASSUME ScreeningAssumption ==
    /\ Deployments \subseteq [reranker : Rerankers, database : BOOLEAN, faiss : BOOLEAN]
    /\ \A d \in Deployments : d.faiss => d.reranker \in {"llama", "cross"}
    /\ \A b \in Bodies : b \in [kind : {"rank", "batch", "evaluate"}, jd : Texts,
                               resumes : Seq([id : Ids, text : Texts]), topN : Nat \ {0},
                               skip : BOOLEAN, relevant : SUBSET Ids, ks : SUBSET Nat]
    /\ \A a \in Answers : a \in [form : {"list", "wrapped", "other"},
                                items : Seq([index : Int \cup {Absent}, score : Int \cup {Absent}])]
    /\ \A b \in Bodies : IsFiniteSet(b.relevant)
    /\ FlatLimit \in Nat
    /\ \A b \in Bodies : b.kind # "evaluate" => Len(b.resumes) < FlatLimit
    /\ NoAnswer \notin Answers
    /\ LocalScores \subseteq 0 .. Unit
    /\ Cosine \in [Texts \X Texts -> Int]
    /\ TopK <= Len(Discount)

VARIABLES
    deployed, \* the reranker, and whether there is a database, and an index by FAISS
    aiCache,  \* the table ai_cache: answers by prompt
    call      \* of each call where it stands, its body and its local variables

vars == <<deployed, aiCache, call>>

Idle == [pc |-> "new"]

Init ==
    /\ deployed \in Deployments
    /\ aiCache = [key \in {} |-> NoAnswer]
    /\ call = [r \in Calls |-> Idle]

----------------------------------------------------------------------------
(* Operators of the steps *)

Validated(b) == b.kind # "evaluate" /\ ~b.skip

Verdict(b) == Validate(b.jd, b.resumes)

\* What the handler passes to the pipeline, with the place in the body.
ToRank(b) ==
    LET placed == [i \in DOMAIN b.resumes |->
                      [pos |-> i, id |-> b.resumes[i].id, text |-> b.resumes[i].text]]
    IN  IF Validated(b) THEN Submitted(placed, Verdict(b)) ELSE placed

\* /evaluate asks for all of them.
Wanted(b) == IF b.kind = "evaluate" THEN Len(b.resumes) ELSE b.topN

\* Word overlap, where FAISS or the embedding model is not installed.
Similarity(jd, text) ==
    IF deployed.faiss THEN Cosine[<<jd, text>>]
    ELSE (Unit * Common(jd, text)) \div (IF Either(jd, text) = 0 THEN 1 ELSE Either(jd, text))

Entries(b) ==
    LET entry(r) == [pos |-> r.pos, id |-> r.id, text |-> r.text,
                     emb |-> Similarity(b.jd, r.text)]
    IN  [i \in DOMAIN ToRank(b) |-> entry(ToRank(b)[i])]

\* The index is searched in a few of its cells only.
Approximate(b) == deployed.faiss /\ Len(ToRank(b)) >= FlatLimit

\* The entries a search compares with the query: whichever are in those cells.
Seen(b) == IF Approximate(b) THEN SUBSET DOMAIN ToRank(b) ELSE {DOMAIN ToRank(b)}

\* Pipeline.rank up to the candidates: the best of those seen, best first.
Retrievals(b) == {FirstOf(ByEmbedding(Kept(Entries(b), seen)), TopK) : seen \in Seen(b)}

\* The prompt, as far as it tells calls apart: texts in their order, no ids.
Prompt(r) ==
    LET subset == Subset20(call[r].candidates)
    IN  <<call[r].body.jd, [i \in DOMAIN subset |-> subset[i].text]>>

Goes(r, place) == call' = [call EXCEPT ![r].pc = place]

\* A call ends with an answer to its client, or to its job.
Ends(r, status, results, metrics) ==
    call' = [call EXCEPT ![r] = [pc |-> "done", body |-> @.body, status |-> status,
                                 results |-> results, metrics |-> metrics]]

----------------------------------------------------------------------------
(* The steps of a call *)

\* The validator accepts nothing: 422, or the job fails.
Refuse(r, b) ==
    /\ call[r] = Idle
    /\ Validated(b) /\ ~Verdict(b).valid
    /\ call' = [call EXCEPT ![r] = [pc |-> "done", body |-> b, status |-> "invalid",
                                    results |-> <<>>, metrics |-> NoList]]
    /\ UNCHANGED <<deployed, aiCache>>

Accept(r, b) ==
    /\ call[r] = Idle
    /\ Validated(b) => Verdict(b).valid
    /\ call' = [call EXCEPT ![r] = [pc |-> "accepted", body |-> b]]
    /\ UNCHANGED <<deployed, aiCache>>

\* build_index raises on an empty list: 500, or the job fails.
FailEmpty(r) ==
    /\ call[r].pc = "accepted"
    /\ ToRank(call[r].body) = <<>>
    /\ Ends(r, "failed", <<>>, NoList)
    /\ UNCHANGED <<deployed, aiCache>>

Retrieve(r) ==
    /\ call[r].pc = "accepted"
    /\ ToRank(call[r].body) # <<>>
    /\ \E cs \in Retrievals(call[r].body) :
           call' = [call EXCEPT ![r] = [pc |-> "retrieved", body |-> @.body, candidates |-> cs]]
    /\ UNCHANGED <<deployed, aiCache>>

Ranks(r, results) ==
    /\ call' = [call EXCEPT ![r] = [pc |-> "ranked", body |-> @.body, ranking |-> results]]
    /\ UNCHANGED <<deployed, aiCache>>

RerankLexically(r) ==
    /\ call[r].pc = "retrieved" /\ deployed.reranker = "lexical"
    /\ Ranks(r, LexicalRerank(call[r].candidates, Wanted(call[r].body)))

\* The cross-encoder, or the local language model.
RerankLocally(r) ==
    /\ call[r].pc = "retrieved" /\ deployed.reranker \in {"cross", "llama"}
    /\ \E scores \in [DOMAIN call[r].candidates -> LocalScores] :
       \E results \in LocalReranks(call[r].candidates, Wanted(call[r].body),
                                   IF deployed.reranker = "cross" THEN 3 ELSE 2, scores) :
           Ranks(r, results)

\* The call has an answer of the model, or one that is replayed.
Receives(r, answer, replayed, place) ==
    call' = [call EXCEPT ![r] = [pc |-> place, body |-> @.body, candidates |-> @.candidates,
                                 answer |-> answer, replayed |-> replayed]]

\* call_llm_json with the cache: a stored answer that passes the test is used.
Replay(r) ==
    /\ call[r].pc = "retrieved" /\ deployed.reranker = "hosted" /\ deployed.database
    /\ Prompt(r) \in DOMAIN aiCache
    /\ Storable(aiCache[Prompt(r)])
    /\ Receives(r, aiCache[Prompt(r)], TRUE, "answered")
    /\ UNCHANGED <<deployed, aiCache>>

\* No entry for the prompt, or no database, or the database fails.
Ask(r) ==
    /\ call[r].pc = "retrieved" /\ deployed.reranker = "hosted"
    /\ Goes(r, "asking")
    /\ UNCHANGED <<deployed, aiCache>>

ModelAnswers(r, a) ==
    /\ call[r].pc = "asking"
    /\ Receives(r, a, FALSE, IF a # NoAnswer /\ deployed.database /\ Storable(a)
                             THEN "storing" ELSE "answered")
    /\ UNCHANGED <<deployed, aiCache>>

\* INSERT ... ON CONFLICT DO NOTHING.
StoreAnswer(r) ==
    /\ call[r].pc = "storing"
    /\ aiCache' = [key \in DOMAIN aiCache \cup {Prompt(r)} |->
                      IF key \in DOMAIN aiCache THEN aiCache[key] ELSE call[r].answer]
    /\ Goes(r, "answered")
    /\ UNCHANGED deployed

StoreFails(r) ==
    /\ call[r].pc = "storing"
    /\ Goes(r, "answered")
    /\ UNCHANGED <<deployed, aiCache>>

RerankHosted(r) ==
    /\ call[r].pc = "answered"
    /\ Ranks(r, HostedRerank(call[r].candidates, Wanted(call[r].body), call[r].answer))

\* The metrics of an answer, when the client has named relevant ids.
Judged(b, results) ==
    IF b.relevant = {} THEN NoList
    ELSE Report(b.relevant, [p \in DOMAIN results |-> results[p].id], b.ks, PrimaryK)

\* /rank, and a job's query: fallback, confidence, tiers, metrics.
Respond(r) ==
    LET b       == call[r].body
        results == Score(b.jd, call[r].ranking)
    IN  /\ call[r].pc = "ranked" /\ b.kind # "evaluate"
        /\ Ends(r, "ok", results, Judged(b, results))
        /\ UNCHANGED <<deployed, aiCache>>

\* /evaluate: only the metrics, of the reranker's order.
RespondEvaluation(r) ==
    LET b == call[r].body
    IN  /\ call[r].pc = "ranked" /\ b.kind = "evaluate"
        /\ Ends(r, "ok", call[r].ranking, Judged(b, call[r].ranking))
        /\ UNCHANGED <<deployed, aiCache>>

Step(r) ==
    \/ FailEmpty(r) \/ Retrieve(r)
    \/ RerankLexically(r) \/ RerankLocally(r)
    \/ Replay(r) \/ Ask(r)
    \/ \E a \in Answers \cup {NoAnswer} : ModelAnswers(r, a)
    \/ StoreAnswer(r) \/ StoreFails(r) \/ RerankHosted(r)
    \/ Respond(r) \/ RespondEvaluation(r)

\* Every call that was sent has been answered.
Rest == (\A r \in Calls : call[r].pc \in {"new", "done"}) /\ UNCHANGED vars

Next ==
    \/ \E r \in Calls, b \in Bodies : Refuse(r, b) \/ Accept(r, b)
    \/ \E r \in Calls : Step(r)
    \/ Rest

Spec == Init /\ [][Next]_vars

----------------------------------------------------------------------------
(* Properties *)

Done(r)     == call[r].pc = "done"
Answered(r) == Done(r) /\ call[r].status = "ok"

\* Every variable has its type: an answer's results are numbered from 0 and
\* scored within the scale, and only what may be stored is in the table.
TypeOK ==
    /\ deployed \in Deployments
    /\ \A key \in DOMAIN aiCache : Storable(aiCache[key])
    /\ \A r \in Calls :
        /\ call[r].pc \in {"new", "accepted", "retrieved", "asking", "storing",
                           "answered", "ranked", "done"}
        /\ call[r].pc # "new" => call[r].body \in Bodies
        /\ Answered(r) /\ call[r].body.kind # "evaluate" =>
            \A p \in DOMAIN call[r].results :
                /\ call[r].results[p].rank = p - 1
                /\ call[r].results[p].score \in 0 .. Unit

AcceptedIds(b) == {c.id : c \in ToSet(Verdict(b).cleaned)}
SentAs(b, i)   == b.resumes[i].id
RankedAt(r)    == {call[r].results[p].pos : p \in DOMAIN call[r].results}

\* The filter by id between the validator and the pipeline (main.py 259 and
\* 481) neither loses nor invents resumes: an answer has no more than can be
\* asked for, no resume twice, and none with an id that was not accepted; and
\* it is shorter only when every accepted id sent without blanks is in it
\* (every resume, where nothing was validated), except that /evaluate, which
\* takes any number of resumes, may get less from an IVF index.  A call of
\* which something was accepted fails for an empty list only when every
\* accepted id was sent with blanks, which the validator strips and the
\* filter does not.
AcceptedAreRanked ==
    \A r \in Calls : Done(r) =>
        LET b    == call[r].body
            n    == Len(call[r].results)
            kept == {i \in DOMAIN b.resumes : SentAs(b, i) \in AcceptedIds(b)}
        IN  /\ Answered(r) =>
                /\ n <= Lesser(Wanted(b), TopK)
                /\ Cardinality(RankedAt(r)) = n
                /\ Validated(b) => RankedAt(r) \subseteq kept
                /\ n < Lesser(Wanted(b), TopK) /\ (b.kind # "evaluate" \/ ~Approximate(b)) =>
                    IF Validated(b)
                    THEN \A i \in kept : \E j \in RankedAt(r) : SentAs(b, j) = SentAs(b, i)
                    ELSE RankedAt(r) = DOMAIN b.resumes
            /\ call[r].status = "failed" =>
                \A i \in DOMAIN b.resumes :
                    Strip[SentAs(b, i)] \in AcceptedIds(b) => Strip[SentAs(b, i)] # SentAs(b, i)

\* What the validator's warning says of an id sent twice: the second occurrence
\* is rejected.  (The filter asks for the id only, which the first occurrence
\* has made an accepted one.)
SecondOccurrenceRejected ==
    \A r \in Calls : Answered(r) =>
        LET b       == call[r].body
            seen(i) == {c.id : c \in ToSet(Validate(b.jd, SubSeq(b.resumes, 1, i - 1)).cleaned)}
        IN  Validated(b) =>
                \A i \in RankedAt(r) :
                    RejectCode(Strip[SentAs(b, i)], b.resumes[i].text, seen(i)) # "DUPLICATE_ID"

\* What HostedLLMReranker.rerank says of the candidates past the cap: they
\* keep retrieval order, below everything the model was asked about.
CappedBelowScored ==
    \A r \in Calls : call[r].pc = "ranked" =>
        \A p, q \in DOMAIN call[r].ranking : p < q =>
            LET above == call[r].ranking[p]
                below == call[r].ranking[q]
            IN  /\ below.scored => above.scored
                /\ ~above.scored => above.emb >= below.emb

\* score_confidence takes the list to be in rank order, which the fallback
\* has disturbed.  Still a result called "high" is separated from every lower
\* one that has kept its own score.
HighMeansSeparated ==
    \A r \in Calls : Answered(r) /\ call[r].body.kind # "evaluate" =>
        \A x, y \in ToSet(call[r].results) :
            x.level = "high" /\ ~y.fallback /\ y.score < x.score =>
                /\ x.score - y.score >= Gap
                /\ x.score >= High

\* The result flagged as the clear winner before the sort is the first of the
\* answer and has the best score, whatever the fallback made of the others.
ClearWinnerIsFirst ==
    \A r \in Calls : Answered(r) /\ call[r].body.kind # "evaluate" =>
        \A p \in DOMAIN call[r].results : call[r].results[p].winner =>
            /\ p = 1
            /\ \A q \in DOMAIN call[r].results \ {1} :
                   call[r].results[q].score < call[r].results[1].score

\* The metrics of an answer that holds no id twice are fractions, and agree
\* with what they are documented to say: MRR is perfect when the first result
\* is relevant, and only then; average precision when nothing better could be
\* shown, and only then; NDCG whenever average precision is, and never while a
\* relevant result stands below another one; recall grows with k.  (With an id
\* twice recall passes 1.)
MetricsSound ==
    \A r \in Calls : Answered(r) /\ call[r].body.relevant # {} =>
        LET relevant == call[r].body.relevant
            ids      == [p \in DOMAIN call[r].results |-> call[r].results[p].id]
            at       == call[r].metrics.raw.at
            hit(p)   == p \in DOMAIN ids /\ ids[p] \in relevant
            top(k)   == 1 .. Lesser(k, Len(ids))
        IN  Cardinality(ToSet(ids)) = Len(ids) =>
            /\ call[r].metrics.raw.mrr = One <=> hit(1)
            /\ \A k \in DOMAIN at :
                /\ {at[k].precision, at[k].recall, at[k].ap, at[k].ndcg, at[k].f1} \subseteq 0 .. One
                /\ at[k].ap = One <=> /\ k > 0
                                      /\ \A p \in 1 .. Lesser(k, Cardinality(relevant)) :
                                             hit(p)
                /\ at[k].ap = One => at[k].ndcg = One
                /\ at[k].ndcg = One => /\ \E p \in top(k) : hit(p)
                                       /\ \A p, q \in top(k) : p < q /\ hit(q) => hit(p)
                /\ \A l \in DOMAIN at : k <= l => at[k].recall <= at[l].recall

\* What call_llm_json's docstring says of the table: no malformed answer is
\* replayed.  (The reranker's test lets pass a list without usable scores.)
NeverReplayedMalformed ==
    \A r \in Calls : call[r].pc = "answered" /\ call[r].replayed =>
        DOMAIN ScoresOf(call[r].answer, Len(Subset20(call[r].candidates))) # {}
=============================================================================
