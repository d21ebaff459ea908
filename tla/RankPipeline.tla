---------------------------- MODULE RankPipeline ----------------------------
(***************************************************************************)
(* The ranking pipeline of the screener: requests that build and search    *)
(* the one Retriever object of the process (app/pipeline.py, and           *)
(* app/retriever.py behind it).                                            *)
(*                                                                         *)
(* rank() runs on a ThreadPoolExecutor (Pipeline._executor) and, for every *)
(* request, REBUILDS the shared index and then searches it; POST           *)
(* /index/build rebuilds it on the event-loop thread.  Nothing locks the   *)
(* retriever, so the reads and writes of _entries and _index by different  *)
(* threads interleave.  A step below is one access to a shared attribute.  *)
(*                                                                         *)
(* Data abstraction.  The resume list of request r is represented by r     *)
(* itself, and the entry at position p of that list by <<r, p>>: a resume  *)
(* of one request is never a resume of another.  Scores are left out: the  *)
(* search returns any set of positions of the right size.                  *)
(***************************************************************************)
EXTENDS Integers, Sequences, FiniteSets

CONSTANTS
    Ranks,      \* calls of Pipeline.rank through rank_async
    BatchRanks, \* those of them made by the threads of the batch job queue
    Builds,     \* POST /index/build requests
    Size,       \* Size[r] is the number of resumes of request r
    Workers,    \* threads of Pipeline._executor
    TopK,       \* RetrieverConfig.top_k
    TopN,       \* number of results asked for
    FlatLimit,  \* from this many entries on, build_index makes an IVF index
    NoList      \* owner of the empty _entries, and "no index yet"

Requests == Ranks \cup Builds

ASSUME PipelineAssumption ==
    /\ BatchRanks \subseteq Ranks
    /\ Ranks \cap Builds = {}
    /\ NoList \notin Requests
    /\ Size \in [Requests -> Nat]
    /\ Workers \in Nat \ {0}
    /\ TopK \in Nat \ {0}
    /\ TopN \in Nat \ {0}
    /\ FlatLimit \in Nat

VARIABLES
    faissMode,  \* are faiss and sentence-transformers importable?
    entries,    \* Retriever._entries: the request whose list it holds
    index,      \* Retriever._index: the request whose vectors it holds
    queue,      \* rank calls waiting for a worker, oldest first
    pc,         \* where the call of each request stands
    k,          \* the local k of retrieve()
    hits,       \* positions the search returned that are not yet looked up
    found,      \* the candidates retrieve() has collected
    results,    \* what the reranker returned
    overwrites  \* history: who wrote _entries or _index inside r's window

vars == <<faissMode, entries, index, queue, pc, k, hits, found, results,
          overwrites>>

locals == <<k, hits, found, results>>

\* The call of retrieve() is over: its local variables are gone.
DropLocals(r) ==
    /\ k' = [k EXCEPT ![r] = 0]
    /\ hits' = [hits EXCEPT ![r] = {}]
    /\ found' = [found EXCEPT ![r] = {}]

----------------------------------------------------------------------------
Min2(a, b) == IF a < b THEN a ELSE b

ListSize(o) == IF o = NoList THEN 0 ELSE Size[o]

\* The calls that occupy a worker of the executor.
Running == {r \in Ranks :
              pc[r] \in {"started", "listed", "indexed", "sized", "mapping"}}

\* /index/build is an async handler that never awaits: while it runs, the
\* event loop runs no other handler.
LoopFree == \A b \in Builds : pc[b] \notin {"started", "listed"}

\* From r's write of _entries to r's last read of the retriever.  A build
\* keeps its window open: nobody is to undo it but a later build.
Window(r) ==
    \/ pc[r] \in {"listed", "indexed", "sized"}
    \/ pc[r] = "mapping" /\ hits[r] # {}

\* w has written the retriever: everybody whose window is open notes it.
NoteWrite(w) ==
    overwrites' = [r \in Requests |->
        IF r # w /\ Window(r) THEN overwrites[r] \cup {w} ELSE overwrites[r]]

----------------------------------------------------------------------------
Init ==
    /\ faissMode \in BOOLEAN
    /\ entries = NoList
    /\ index = NoList
    /\ queue = <<>>
    /\ pc = [r \in Requests |-> "new"]
    /\ k = [r \in Ranks |-> 0]
    /\ hits = [r \in Ranks |-> {}]
    /\ found = [r \in Ranks |-> {}]
    /\ results = [r \in Ranks |-> {}]
    /\ overwrites = [r \in Requests |-> {}]

\* rank_async hands the call to the executor: from a handler on the event
\* loop, or from a job thread that runs a loop of its own.
Submit(r) ==
    /\ pc[r] = "new"
    /\ r \in BatchRanks \/ LoopFree
    /\ queue' = Append(queue, r)
    /\ pc' = [pc EXCEPT ![r] = "queued"]
    /\ UNCHANGED <<faissMode, entries, index, locals, overwrites>>

\* A free worker takes the oldest waiting call; preprocessing is local.
Start(r) ==
    /\ pc[r] = "queued"
    /\ queue # <<>>
    /\ r = Head(queue)
    /\ Cardinality(Running) < Workers
    /\ queue' = Tail(queue)
    /\ pc' = [pc EXCEPT ![r] = "started"]
    /\ UNCHANGED <<faissMode, entries, index, locals, overwrites>>

\* POST /index/build begins: it calls the retriever on the event-loop thread.
StartBuild(b) ==
    /\ pc[b] = "new"
    /\ LoopFree
    /\ pc' = [pc EXCEPT ![b] = "started"]
    /\ UNCHANGED <<faissMode, entries, index, queue, locals, overwrites>>

\* build_index refuses an empty list before it touches anything.
RejectEmpty(r) ==
    /\ pc[r] = "started"
    /\ Size[r] = 0
    /\ pc' = [pc EXCEPT ![r] = "failed"]
    /\ UNCHANGED <<faissMode, entries, index, queue, locals, overwrites>>

\* Mutant: an existing list is kept, "rebuild or reuse" taken as reuse.
WriteEntriesOnce(r) ==
    /\ pc[r] = "started"
    /\ Size[r] > 0
    /\ entries' = IF entries = NoList THEN r ELSE entries
    /\ NoteWrite(r)
    /\ pc' = [pc EXCEPT ![r] = "listed"]
    /\ UNCHANGED <<faissMode, index, queue, locals>>

\* self._entries = list(entries)
WriteEntries(r) ==
    /\ pc[r] = "started"
    /\ Size[r] > 0
    /\ entries' = r
    /\ NoteWrite(r)
    /\ pc' = [pc EXCEPT ![r] = "listed"]
    /\ UNCHANGED <<faissMode, index, queue, locals>>

\* Mutant: an existing index is kept.
WriteIndexOnce(r) ==
    /\ pc[r] = "listed"
    /\ index' = IF index = NoList THEN r ELSE index
    /\ NoteWrite(r)
    /\ pc' = [pc EXCEPT ![r] = "indexed"]
    /\ UNCHANGED <<faissMode, entries, queue, locals>>

\* The new index is published in one assignment, once it is complete; the
\* lexical index is whatever list _entries holds by then.
WriteIndex(r) ==
    /\ pc[r] = "listed"
    /\ index' = IF faissMode THEN r ELSE entries
    /\ NoteWrite(r)
    /\ pc' = [pc EXCEPT ![r] = "indexed"]
    /\ UNCHANGED <<faissMode, entries, queue, locals>>

\* Embedding the entries raises: _entries stays replaced, _index does not.
EmbedFails(r) ==
    /\ faissMode
    /\ pc[r] = "listed"
    /\ pc' = [pc EXCEPT ![r] = "failed"]
    /\ UNCHANGED <<faissMode, entries, index, queue, locals, overwrites>>

\* Mutant: rank() passes the configured top_k without the bound by its own
\* list.
ReadSizeUnbounded(r) ==
    /\ pc[r] = "indexed"
    /\ k' = [k EXCEPT ![r] = Min2(TopK, ListSize(entries))]
    /\ pc' = [pc EXCEPT ![r] = "sized"]
    /\ UNCHANGED <<faissMode, entries, index, queue, hits, found, results,
                   overwrites>>

\* retrieve(): the index exists, and k is bounded by the list of the moment.
ReadSize(r) ==
    /\ pc[r] = "indexed"
    /\ index # NoList
    /\ k' = [k EXCEPT ![r] =
               Min2(Min2(TopK, Size[r]), ListSize(entries))]
    /\ pc' = [pc EXCEPT ![r] = "sized"]
    /\ UNCHANGED <<faissMode, entries, index, queue, hits, found, results,
                   overwrites>>

\* Mutant: the lexical path keeps positions and looks each one up later.
ScanPositions(r) ==
    /\ ~faissMode
    /\ pc[r] = "sized"
    /\ \E best \in SUBSET (1 .. ListSize(entries)) :
         /\ Cardinality(best) = Min2(k[r], ListSize(entries))
         /\ hits' = [hits EXCEPT ![r] = best]
    /\ pc' = [pc EXCEPT ![r] = "mapping"]
    /\ UNCHANGED <<faissMode, entries, index, queue, k, found, results,
                   overwrites>>

\* retrieve(), lexical: score one snapshot of the list and keep k of it.
ScanEntries(r) ==
    /\ ~faissMode
    /\ pc[r] = "sized"
    /\ \E best \in SUBSET (1 .. ListSize(entries)) :
         /\ Cardinality(best) = Min2(k[r], ListSize(entries))
         /\ found' = [found EXCEPT ![r] = {<<entries, p>> : p \in best}]
    /\ pc' = [pc EXCEPT ![r] = "mapping"]
    /\ UNCHANGED <<faissMode, entries, index, queue, k, hits, results,
                   overwrites>>

\* Mutant: the -1 padding of a short search result is not skipped.
PaddedHits(o, n) ==
    {IF Cardinality(h) < n THEN h \cup {-1} ELSE h :
        h \in SUBSET (1 .. ListSize(o))}

\* The positions a FAISS search for n neighbours may return: a flat index
\* returns min(n, ntotal) of them, an IVF index, which probes only some of
\* its cells, that many or fewer (it pads with -1, which retrieve skips).
SearchHits(o, n) ==
    {h \in SUBSET (1 .. ListSize(o)) :
        IF ListSize(o) < FlatLimit
        THEN Cardinality(h) = Min2(n, ListSize(o))
        ELSE Cardinality(h) <= n}

\* retrieve(), FAISS: search the index of the moment.
Search(r) ==
    /\ faissMode
    /\ pc[r] = "sized"
    /\ \E h \in SearchHits(index, k[r]) : hits' = [hits EXCEPT ![r] = h]
    /\ pc' = [pc EXCEPT ![r] = "mapping"]
    /\ UNCHANGED <<faissMode, entries, index, queue, k, found, results,
                   overwrites>>

\* Embedding the query raises.
QueryFails(r) ==
    /\ faissMode
    /\ pc[r] = "sized"
    /\ DropLocals(r)
    /\ pc' = [pc EXCEPT ![r] = "failed"]
    /\ UNCHANGED <<faissMode, entries, index, queue, results, overwrites>>

\* entry = self._entries[idx], for the next position of the search result.
MapHit(r) ==
    /\ pc[r] = "mapping"
    /\ \E p \in hits[r] :
         /\ p <= ListSize(entries)
         /\ found' = [found EXCEPT ![r] = @ \cup {<<entries, p>>}]
         /\ hits' = [hits EXCEPT ![r] = @ \ {p}]
    /\ UNCHANGED <<faissMode, entries, index, queue, pc, k, results,
                   overwrites>>

\* The same access past the end of the list: IndexError.
MapHitOutOfRange(r) ==
    /\ pc[r] = "mapping"
    /\ \E p \in hits[r] : p > ListSize(entries)
    /\ DropLocals(r)
    /\ pc' = [pc EXCEPT ![r] = "indexError"]
    /\ UNCHANGED <<faissMode, entries, index, queue, results, overwrites>>

\* rerank(): the best TopN of the candidates.
Rerank(r) ==
    /\ pc[r] = "mapping"
    /\ hits[r] = {}
    /\ \E best \in SUBSET found[r] :
         /\ Cardinality(best) = Min2(TopN, Cardinality(found[r]))
         /\ results' = [results EXCEPT ![r] = best]
    /\ DropLocals(r)
    /\ pc' = [pc EXCEPT ![r] = "ranked"]
    /\ UNCHANGED <<faissMode, entries, index, queue, overwrites>>

\* The model behind a local reranker raises.
RerankFails(r) ==
    /\ pc[r] = "mapping"
    /\ hits[r] = {}
    /\ DropLocals(r)
    /\ pc' = [pc EXCEPT ![r] = "failed"]
    /\ UNCHANGED <<faissMode, entries, index, queue, results, overwrites>>

\* Mutant: an exception of the worker never reaches the caller.
RespondSuccess(r) ==
    /\ r \in BatchRanks \/ LoopFree
    /\ pc[r] = "ranked"
    /\ pc' = [pc EXCEPT ![r] = "ok"]
    /\ UNCHANGED <<faissMode, entries, index, queue, locals, overwrites>>

\* The caller resumes: a handler, on the event loop, answers 200 or 500; a
\* batch job collects the response or ends with the error.
Respond(r) ==
    /\ r \in BatchRanks \/ LoopFree
    /\ \/ /\ pc[r] = "ranked"
          /\ pc' = [pc EXCEPT ![r] = "ok"]
       \/ /\ pc[r] \in {"failed", "indexError"}
          /\ pc' = [pc EXCEPT ![r] = "serverError"]
    /\ UNCHANGED <<faissMode, entries, index, queue, locals, overwrites>>

\* Every request of the run has been answered.
Idle ==
    /\ \A r \in Ranks : pc[r] \in {"ok", "serverError"}
    /\ \A b \in Builds : pc[b] \in {"indexed", "failed"}
    /\ UNCHANGED vars

Worker(r) ==
    \/ Start(r) \/ RejectEmpty(r) \/ WriteEntries(r) \/ WriteIndex(r)
    \/ EmbedFails(r) \/ ReadSize(r) \/ ScanEntries(r) \/ Search(r)
    \/ QueryFails(r) \/ MapHit(r) \/ MapHitOutOfRange(r) \/ Rerank(r)
    \/ RerankFails(r)

Build(b) ==
    \/ RejectEmpty(b) \/ WriteEntries(b) \/ WriteIndex(b) \/ EmbedFails(b)

Next ==
    \/ \E r \in Ranks : Submit(r) \/ Worker(r) \/ Respond(r)
    \/ \E b \in Builds : StartBuild(b) \/ Build(b)
    \/ Idle

Spec == Init /\ [][Next]_vars

\* The executor's threads and the event loop are scheduled: each call that
\* can take a step eventually does.  That a client sends a request at all
\* is not assumed.
Fairness ==
    /\ \A r \in Ranks : WF_vars(Worker(r)) /\ WF_vars(Respond(r))
    /\ \A b \in Builds : WF_vars(Build(b))

FairSpec == Spec /\ Fairness

----------------------------------------------------------------------------
Steps == {"new", "queued", "started", "listed", "indexed", "sized", "mapping",
          "ranked", "failed", "indexError", "ok", "serverError"}

Types ==
    /\ faissMode \in BOOLEAN
    /\ entries \in Requests \cup {NoList}
    /\ index \in Requests \cup {NoList}
    /\ queue \in Seq(Ranks)
    /\ pc \in [Requests -> Steps]
    /\ k \in [Ranks -> 0 .. TopK]
    /\ hits \in [Ranks -> SUBSET (Nat \ {0})]
    /\ found \in [Ranks -> SUBSET (Requests \X (Nat \ {0}))]
    /\ results \in [Ranks -> SUBSET (Requests \X (Nat \ {0}))]
    /\ overwrites \in [Requests -> SUBSET Requests]

\* The variables keep their types, and the executor never runs more calls
\* than it has threads.
TypeOK == Types /\ Cardinality(Running) <= Workers

\* How many results a request must get when nobody interferes.
Expected(r) == Min2(TopN, Min2(TopK, Size[r]))

\* Does the search promise all the neighbours it is asked for?
Exact(r) == ~faissMode \/ Size[r] < FlatLimit

\* A ranking whose window saw no other writer is isolated: it never fails
\* with an IndexError, it sees resumes of its own list only, and it returns
\* exactly as many as test_rank_returns_correct_count expects.
IsolatedWhenUndisturbed ==
    \A r \in Ranks : overwrites[r] = {} =>
        /\ pc[r] # "indexError"
        /\ found[r] \cup results[r] \subseteq {r} \X (1 .. Size[r])
        /\ pc[r] \in {"ranked", "ok"} /\ Exact(r) =>
              Cardinality(results[r]) = Expected(r)

\* Even under interference nothing of the past comes back: a resume in the
\* answer is the request's own or of a request that wrote the retriever
\* while this one was using it ("rebuild or reuse" never reuses).
NoStaleResumes ==
    \A r \in Ranks : \A e \in found[r] \cup results[r] :
        e[1] \in {r} \cup overwrites[r]

\* After a build, and until somebody else writes, the index and the list it
\* is decoded with belong together: _entries[i] is the text of vector i.
IndexMatchesEntries ==
    \A r \in Requests :
        Window(r) /\ pc[r] # "listed" /\ overwrites[r] = {} =>
            entries = r /\ index = r

\* The lexical fallback reads _entries once, so that even a disturbed answer
\* comes from one list, and never fails with an IndexError.
LexicalReadsOneList ==
    ~faissMode => \A r \in Ranks :
        /\ pc[r] # "indexError"
        /\ \A d, e \in found[r] \cup results[r] : d[1] = e[1]

\* No interleaving makes an answer longer than the request's own list
\* (test_top_n_larger_than_corpus).
NoMoreThanSubmitted ==
    \A r \in Ranks :
        Cardinality(results[r]) <= Min2(TopN, Size[r])

\* Every ranking handed to the executor is answered, whatever fails.
EveryRankAnswered ==
    \A r \in Ranks : pc[r] = "queued" ~> pc[r] \in {"ok", "serverError"}

\* What test_rank_all_ids_valid asserts of an answer: the ids in it are ids
\* of the request's own resumes.
RankAllIdsValid ==
    \A r \in Ranks : pc[r] = "ok" =>
        \A e \in results[r] : e[1] = r
=============================================================================
