# Resume Screener: a verification project in TLA+

The Resume Screener (`src/`) is a FastAPI application: a recruiter submits a job
description and a list of resumes, and gets the resumes ranked, with optional
explanations from a language model. This directory holds TLA+ models of its
concurrent and stateful parts, TLC configurations that check them on small
instances, and TLAPS proofs of the properties for every instance.
`PROJECT.json` is the index: every model definition with the source lines it
translates, every run, every hazard with the properties that cover it.

## 1. Inventory of the system

The process has one asyncio event loop. Handlers that never `await` are atomic
with respect to each other; what runs on a thread pool is not. There are two
pools: `Pipeline._executor` (four threads, every ranking) and
`JobRunner._pool` (two threads, batch jobs; each job runs an event loop of its
own that in turn submits its rankings to `Pipeline._executor`).

| Component | Source | State | Operations | Hard behaviour | Correct when | Module |
|---|---|---|---|---|---|---|
| Ranking pipeline and shared retriever | `app/pipeline.py`, `app/retriever.py`, `/rank`, `/rank/batch`, `/evaluate`, `/index/build` in `app/main.py` | one `Retriever` (`_entries`, `_index`) for the whole process | `rank_async`, `rank`, `build_index`, `retrieve` | four threads and the event loop rebuild and search the same object without a lock | an answer holds the request's own resumes; an undisturbed one holds all it should; everybody is answered | `RankPipeline` |
| Index persistence | `app/retriever.py` 231-267 | two files | `save_index`, `load_index`, `add_to_index` | crash between the files, writers in between | files and memory belong together | `IndexStore` |
| Batch job queue | `app/job_queue.py`, `/rank/batch`, `/jobs/{id}` | `JobStore._jobs`; per job status, result, error, times | create, get, cleanup, submit, `_run`, poll | the worker writes a job attribute by attribute while the poll reads it so | a job ends once; answers only move forward; nobody is dropped early | `JobService`, `JobQueue` |
| Rate limiter | `app/rate_limiter.py` | a deque of times per client | check, reset, cleanup | one deque for two limits; boundaries of the window | the window really slides, refusals are justified, a client's deque is bounded | `RateLimiter` |
| Accounts, quota, billing | `app/db.py`, `app/payments.py`, `app/auth.py`, `app/main.py` | Postgres tables `users`, `screenings`, `payment_orders` | signup, login, screen, create order, upgrade | check, await, count; two transactions per upgrade; an invocation that ends between them | the quota is kept, who paid gets what was paid for, once | `Accounts` |
| LLM client | `app/llm.py` | in-flight calls, attempt counter, deadline | `_post_hedged`, `call_llm` | hedged requests, retries, a total budget | at most two copies in flight, always ends, no text that arrived is lost | `LLMCall` |
| AI answer cache | `app/llm.py`, `app/db.py`, `app/reranker.py` | table ai_cache | get, put | stored once and never replaced; checked twice, differently | a stored answer is usable | `Screening` |
| Embedding cache, batch embedder | `utils/cache.py`, `app/batch_manager.py` | an LRU dictionary | get, set, embed | no lock under four threads | a text gets its own vector, the limit holds, one thread alone never fails | `EmbedCache`, run with `IndexStore` |
| Input validator | `app/validator.py`, `/rank` in `app/main.py` | none | validate, filter | duplicate ids, duplicate texts | what is ranked is what was accepted | `Validation`, run with `Screening` |
| Rerankers | `app/reranker.py` | none | four rerankers, parsing of the hosted model's answer | partial, repeated, misplaced scores; a cap; failure | nobody lost or misplaced; failures keep retrieval order | `Reranking`, run with `Screening` |
| Scoring | `app/confidence.py`, `app/fallback.py`, `app/main.py` | none | blend, confidence, tiers, keyword fallback | order lost between steps | "high" and "clear winner" mean what they say after all steps | `Scoring`, run with `Screening` |
| Metrics | `app/metrics.py`, `app/metrics_report.py` | none | precision, recall, AP, MRR, NDCG, F1, grades | boundaries | shares of one; a perfect value means that nothing stands before what is relevant | `Metrics`, run with `Screening` |
| Browser pages | `ui.html`, `dashboard.html`, `login.html`, `index.html` | timers, the current job | `pollJob`, generate analyses | a timer fires during an awaited poll | results rendered once | not modelled |
| Batching utilities | `utils/batching.py` | none; `AdaptiveBatcher` a batch size | `chunks`, `AdaptiveBatcher`, `parallel_embed` | - | - | not modelled: slicing without state, and code nothing calls |
| Preprocessor | `app/preprocessor.py` | none | regular expressions over text | - | - | not modelled: text rules without state |
| Scripts, configuration | `scripts/`, `utils/config.py`, `run.py` | none | command line, constants | - | - | not modelled: command line and I/O |

How they interact. `/rank` checks the rate limiter, the user's quota and the
validator, then awaits `rank_async` (retriever, reranker, scoring), then asks
the hosted model, if that is the reranker, through the AI answer cache, and last
counts the usage. `/rank/batch` does the ranking part of it inside a job of the job queue,
so that a batch job, an HTTP ranking and `/index/build` meet in the one
retriever. The browser polls `/jobs/{id}`; each poll passes the rate limiter too.

## 2. Plan

Modules, in the order in which they were written:

1. `RankPipeline`: the shared retriever under the thread pool. It is the core
   of the program and the place where requests can disturb each other.
2. `JobService` (abstract promise), `JobQueue` (threads, store, clock, polls),
   and the refinement between them.
3. `RateLimiter`: the sliding window against its definition over the history
   of admissions.
4. `Accounts`: signup, quota, orders and upgrade as separate transactions, with
   calls that stop between them: an order upgrades at most once, and the bound
   that the quota really has under concurrency.
5. `LLMCall`: one call with its hedged copies, retries and deadline: the copies
   in flight, and the time bound.
6. `Validation`, `Reranking`, `Scoring`, `Metrics`: the algorithms on the way of
   a request, as operators, and `Screening`, which composes them, with the answer
   cache between concurrent requests, into the way from a body to its answer.
7. `EmbedCache`: the lazily made embedder and its LRU cache under several threads,
   and `IndexStore`, which composes it with the index, its files and crashes.

Each of them is proved about in a module of its own: `RankPipelineProofs`,
`JobQueueProofs`, `RateLimiterProofs`, `AccountsProofs`, `LLMCallProofs`;
`IndexStoreProofs` (with `EmbedCache`); `RerankingProofs`, the lemmas about the
operators of 6, and `ScreeningProofs`, the theorems that rest on them.

Each stateful module gets one run with its safety properties (and liveness
where threads must make progress), with two or three actors and bounds that
just let the interesting case happen, and theorems for its invariants.

## 3. The models

### RankPipeline

The state is that of the one `Retriever` object (`entries` for `_entries`,
`index` for `_index`), of the executor (`queue`, and `Running` derived from
`pc`), and of the local variables of each call (`k`, `hits`, `found`,
`results`). One action is one access to a shared attribute:

| Action | Code |
|---|---|
| `Submit`, `Start` | `rank_async` hands `rank` to the executor; a thread takes it |
| `StartBuild` | `POST /index/build` on the event loop |
| `RejectEmpty`, `WriteEntries`, `WriteIndex`, `EmbedFails` | `build_index`: the check, the two assignments, an exception between them |
| `ReadSize`, `Search`, `MapHit`, `MapHitOutOfRange` | `retrieve` with FAISS: `k`, the search, each `_entries[idx]`, the `IndexError` |
| `ScanEntries` | `retrieve` without FAISS: one pass over one list |
| `Rerank`, `RerankFails`, `QueryFails` | the reranking and the failures on the way |
| `Respond` | the caller resumes and answers 200 or 500, or the batch job collects the outcome |

A list of resumes is represented by the request that submitted it, an entry by
the pair of its request and position. So a resume of another request is always
recognised. Similarity scores are abstracted: a search returns any positions
of the right number (from `FlatLimit` entries on, an IVF index may return fewer).
`overwrites` is a history variable: who wrote the retriever between a request's
first write and its last read. `/index/build` is an `async` handler that does
not await, so no other handler runs meanwhile (`LoopFree`).

Not in this model: `add_to_index` and the two files (`IndexStore`), and what is
made of the candidates (`Screening`).

### JobService, JobQueue

`JobQueue` has the store, the clock, the threads and the poll handler. A worker
is the sequence `Take`, `MarkRunning`, `StoreResult` or `StoreError`,
`PublishDone` or `PublishError`, `Finish`: one step per attribute that
`_run` assigns and a reader can see. A poll is `PollTest` (the status decides
whether the answer will have a result), `PollReadStatus` (`to_dict` reads it
again) and `PollAnswer` (the error or the result is read). `Submit` and `Refuse`
start with the cleanup, as `create` does. Handlers do not overlap each other.

`JobService` states what the API promises without threads, store or clock: a
submission is accepted or refused, ends once, and the answers about it only move
forward. `JobQueue` implements it under the mapping `Phase`, which reads the
phase of a job off its status.

### RateLimiter

`check()` is one step (it never awaits): `Admit` or `Refuse`. `log` is the deque
of each client, `admitted` the history of everything admitted. `Reset` and
`Cleanup` are there because the store offers them; the application calls
neither, so that nothing is claimed of them but that they keep the invariants. The burst multiplier is the 1.5 of the defaults. The `max_keys`
setting is read nowhere and does not appear.

### Accounts

The application runs as serverless invocations over one Postgres database, and
every function of `db.py` opens a connection and commits once. So one action is
one transaction, two handlers interleave between any two of theirs, and `Stop` ends
a call before its next one (the invocation ends, or the database call raises).

| Action | Code |
|---|---|
| `LookUpEmail`, `InsertUser` | `signup`: the lookup, then the INSERT under UNIQUE |
| `RefuseScreening`, `AdmitScreening`, `AbandonScreening`, `RecordScreening` | `rank_resumes`: the quota test on the row read, the failures on the way, `record_screening` after the awaited ranking |
| `AskProvider`, `StoreOrder` | `POST /payments/order`: the provider's order, then the row |
| `Pay` | the user at the provider (external) |
| `RejectSignature`, `ClaimOrder`, `UpgradeToPro` | `upgrade_plan`: 400, the conditional UPDATE or 409, the second transaction |

The columns `plan`, `screenings_used` and `screenings_limit` are functions of the
account, the table `screenings` is `recorded`. A good signature is one of an
order in `captured`. `peak` is a history variable, the most screenings an account
has ever had under way at once: it makes the real promise of the quota
statable. Login, `/auth/me` and `/screenings` only read. Anonymous calls of
`/rank` have no quota in the code and touch no table.

### LLMCall

One call of `call_llm`. `pc` is where it stands, `copy` the task of each copy of
each attempt, `collected` and `last` the local variables of `_post_hedged`,
`wake` the end of a sleep. `PostFirst` is the head of the loop with
the cut of the timeout to what is left (`GiveUp` its other branch),
`PostSecond` the hedge, `CollectResult` and `CollectFailure` what `_post_hedged`
does with a copy that has ended, and `Return`, `RaiseRaw`, `Fail`, `Busy`, `DropToggle`
and `Retry` what `call_llm` does with the result. Time is an integer; `Tick` lets
it pass only while the call waits or sleeps and nothing is due.

`CopyEnds` is the provider and the HTTP client: any outcome at any time, and the
timeout not before the end of the window. `Overrun` says how much later a
copy may end: httpx counts its timeout for each phase of a request, so that a body
that trickles in may take longer than the comments of `llm.py` assume. Every
bound on time is stated with it. Not in the model: `max_tokens`, the
text of prompts and answers, and the cancellation of a call from outside, which
nothing in the repository does.

### Validation, Reranking, Scoring, Metrics, Screening

`Screening` follows a request from its body to its answer: `Refuse` or `Accept`
(the validator and the filter behind it), `Retrieve` or `FailEmpty`
(`Pipeline.rank` on a list that the filter may have emptied), one of the rerankers
(`RerankLexically`, `RerankLocally`, or for the hosted model `Replay`, `Ask`,
`ModelAnswers`, `StoreAnswer`, `StoreFails`, `RerankHosted`), and `Respond`
or `RespondEvaluation`. A step is what a call does between two awaits or two
accesses to the table `ai_cache`; two calls meet in that table, and are otherwise
independent here, because what they do to each other in the retriever is the
subject of `RankPipeline`. What is computed in a step is an operator of one of
four modules: `Validate` and `Submitted`; `HostedRerank`, `LocalReranks` and
`Passthrough`; `Score` (fallback, confidence, sort by tier); `Report`.

Scores are integers in thousandths, rounded down. A text is its set of words, its
number of words and whether it is very long; the three parts of the code that
split a text into words (validator, retriever, fallback) do it a little
differently, and the model gives them the same set. A local model's scores are
chosen freely, the hosted model's answers from a set with all forms the parser
distinguishes: complete, without indexes, with an index twice and one out of
range, outside the scale, cut off, empty, no list. `argsort` is not stable: equal
scores come in any order. `deployed` is what is installed. With FAISS the similarity
is the cosine of the embeddings, and without it the word overlap; FAISS serves only
beside the local rerankers, because the hosted one and the passthrough are chosen
only where `sentence-transformers` is missing. From `FlatLimit` resumes on (1000 in
the code) the index is an IVF index, whose search looks into a few cells only:
`Retrievals` is then the best of any part of the list. `/rank` and a job's query
cannot reach that size, since the request model takes 500 resumes at most (an
assumption on `Bodies`); `/evaluate` has no maximum, and gets what was found.

The hazards here: an id sent twice is rejected once by the validator and still
ranked twice, since the filter behind it goes by the id (`SecondOccurrenceRejected`
is violated); an id sent with blanks around it is accepted and then filtered out,
and if it is the only one the request fails with a 500. `AcceptedAreRanked` states
what the filter does promise, and what it would also promise if it dropped the second
occurrence: no more results than were asked for, no resume twice, none with an id
that was not accepted, and fewer only when every accepted id sent without blanks is in
the answer.

With an id twice in an answer, recall passes 1; `MetricsSound` is about the others.
It says of NDCG that it is 1 whenever average precision is, and never with a
relevant resume of the first `k` below another one. It does not say that 1 means a
perfect ranking: the ideal order is made of the first `k` of the answer itself, and what
they miss does not count. What `MetricsSound`
says of NDCG would hold as well with an ideal order made of all relevant ids.
The discounts need a unit in which no two places have the same; a thousandth
is one for the four places of the instance.

`HighMeansSeparated` and `ClearWinnerIsFirst` hold although the scores that
confidence is computed from are not in rank order any more: the blend of two
fifths neural (below 0.15) and three fifths keywords stays below 0.7. With the
maximum of the two, which the docstring of `fallback.py` (line 27) describes, the
second fails, as its mutant shows.

### EmbedCache, IndexStore

`EmbedCache` has the embedders made so far, the published one, a clock, and for
each call its local variables. Every access to the ordered dictionary is an
action, in the order of the code: `Find`, `Read`, `Delete`, `Touch` for `get`;
`SetFind`, `Move`, `Put`, `Check`, `Evict` for `set`. The vector of a text is that
text, so that a wrong or misplaced vector is recognised; a key is the first
2000 characters of a text, so that texts may share one. An entry expires after `TTL`,
or never when that is 0 (`Expired`). A KeyError ends the call.
Two threads that find the limit exceeded both evict: `SizeBounded` bounds the cache
from above only.
Two threads that both find no embedder make two (`CheckEmbedder`,
`PublishEmbedder`), and use the one that is published when they return.

`IndexStore` adds the index, the entries and the two files. A call is a ranking
as far as it builds, `/index/build` with its save as a background task,
`/cache/warm`, `add_to_index` or `load_or_build`; the last two are called by no
endpoint, only by tests and scripts. A file is opened in one step, torn until
it is written in the next. `Crash` empties the memory and leaves the files. Nothing
in the code ties the two files to each other, or checks them when they are
loaded, so that a build between the two writes saves parts that do not fit:
`alone` is a history variable, the calls nobody has interfered with, and
`UndisturbedSaveRestores` says what holds for them.

## 4. The runs

| Run | Instance | Shows |
|---|---|---|
| `RankPipeline` | HTTP ranking of 3 resumes, batch ranking of 1, ranking of an empty list, one build of 1; 2 threads; `TopK` 3, `TopN` 2, IVF from 3 entries | `TypeOK`, `IsolatedWhenUndisturbed`, `NoStaleResumes`, `IndexMatchesEntries`, `LexicalReadsOneList`, `NoMoreThanSubmitted`, and the liveness property `EveryRankAnswered` |
| `RankPipelineIds` | the same | a violation: an overlapped ranking answers with resumes of another request |
| `JobQueue` | 3 submissions, 1 thread, 2 places, TTL 1, clock to 2 | `TypeOK`, `NoHollowAnswer`, `KeptUntilExpired`, `StoreBounded`, liveness `EveryJobEnds`, and the refinement `ServiceSpec` |
| `JobQueueAnswer` | the same | a violation: "done" without the result |
| `RateLimiter` | 2 interchangeable clients, heavy limit 1 (burst 1), light limit 2 (burst 3), window 2, clock to 5 | `TypeOK`, `WindowBound`, `RefusedOnlyAtLimit`, `LogIsRecent`, `DequeBounded` |
| `Accounts` | 3 signups, two of them for one address; one address an admin's; 2 interchangeable screenings, 2 orders, 2 upgrades; free limit 1 | `TypeOK`, `OneAccountPerEmail`, `QuotaWithinOverlap`, `UsageMatchesHistory`, `ProIsPaidFor`, `OrderUsedOnce`, `UpgradeLasts` |
| `AccountsConflict` | the same | a violation: a payment claimed by a call that stopped is refused as used |
| `LLMCall` | 3 attempts of 3 ticks, budget 7, hedge after 0 to 3, pauses 0, 1, 2, `Overrun` 1 | `TypeOK`, `NoneLeftInFlight`, `EndsInTime`, `NoTextLost`, liveness `CallEnds` |
| `Screening` | 2 interchangeable requests where they share the answer cache, otherwise 1; 10 bodies, 7 deployments, 7 answers of the hosted model or none, 3 scores of a local one; cap 3, `TopK` 4, IVF from 5 resumes | `TypeOK`, `AcceptedAreRanked`, `CappedBelowScored`, `HighMeansSeparated`, `ClearWinnerIsFirst`, `MetricsSound` |
| `ScreeningReplay` | the hosted model with the database, else the same | a violation: an answer without a usable score is stored and replayed |
| `ScreeningDuplicates` | 1 request, else the same | a violation: a second occurrence, rejected by the validator, is ranked |
| `IndexStore` | 3 calls in 4 mixes of kinds, 3 texts of which two share a key, cache of 1, chunks of 1, TTL 1, clock to 2, 1 crash | `OwnVectorInOrder`, `SizeBounded`, `RaisesOnlyWhenRaced`, `UndisturbedSaveRestores` |

Why these bounds are enough. Interference in the retriever needs a victim and
one other writer; the instance has three writers, so that a second one can undo
the first, and two threads for three rankings, so that one waits. One list is
longer than `TopN` and reaches the IVF size, one is shorter than `TopN`, one is
empty: every branch of `build_index`, of `retrieve` and of the executor is
taken, out-of-range positions included. The job queue needs more submissions
than places and more places than threads, and a clock that passes the TTL once.
The rate limiter needs both limits to be reached in one window and a window that
slides over a full one: time 5 with window 2 gives both. In `Accounts` two
accounts share an address, two calls of each kind can meet, and a limit of 1
is reached by the first and passed by the second screening. In `LLMCall` three
attempts do not fit into the budget, so that the window is cut, the call
gives up for want of time and for want of attempts, and the hedge values are
none, early, late and too late. The bodies of `Screening` have every reason of the
validator to reject, an id twice, an id with blanks, one more candidate than the
cap, as many as make an IVF index, an empty description, and lists of relevant ids
with every `k` from 0 to the whole list, or none named; calls meet in the answer cache
only, which only the hosted model with a database has, so that one request is enough
for every other deployment (`OneUnlessShared`, the constraint of the run). Its texts lie on both sides of the thresholds of fallback, tiers and
gaps. In `IndexStore` a cache of one entry with two keys makes every put an
eviction and every lookup a race, with three calls a third can undo what two have
agreed on, one crash can come at any step, and the clock passes the TTL of an entry
once. Deadlock is checked in every run but those of
`Accounts`: there every call is a client's, clients need not send anything and
calls are finite, so the system may stop anywhere. In `RankPipeline` and
`LLMCall` the action `Idle`, in `Screening` and `IndexStore` the action `Rest`, is enabled exactly when everything has been answered,
so that a deadlock would be a call that is stuck.

Fairness. `RankPipeline` assumes that the threads of the executor and the event
loop are scheduled (weak fairness of each call's `Worker` and `Respond` steps and
of a running build): the operating system gives the first, and no handler
blocks the loop for ever. `JobQueue` assumes weak fairness of each worker,
which includes that the function of a job returns; that function awaits rankings,
which are answered by `EveryRankAnswered`, and a language-model call whose time is
limited. `Screening` and `IndexStore` assume no fairness and have no liveness
property. `LLMCall` assumes that the event loop runs the call, that time passes,
and that a copy ends, which the client's timeout sees to. Nothing is assumed of
clients: they may never send a request or a poll.

## 5. What is proved

All theorems hold for every value of the constants that satisfies the named
assumption of the module that declares them (finite or arbitrary sets of requests,
positive numbers of threads, limits in `Nat`), and need no other. TLC evaluates each
assumption in the runs of its module.

`RankPipelineProofs`: `TypeCorrect`, `BuildsAgree`, `NothingStale`,
`Isolation`, `LexicalIsAtomic`, `NeverTooMany`. The properties are not
inductive: that an undisturbed ranking ends with its own resumes rests on what
its local variables may hold at each step (a `k` no larger than its own list, hits
inside the list they came from, candidates of the request or of one that wrote
during its window), on `overwrites` noting every write while a window is open,
and on the executor starting each call once. The invariant has one such
conjunct per local variable. `TypeCorrect` includes that no more calls run than the
executor has threads, by the cardinality of `Running` before and after each step.

`JobQueueProofs`: `TypeCorrect`, `NoAnswerIsHollow`, `KeptForItsTime`,
`StoreStaysBounded`, and `KeepsItsPromise`, which is `Spec => ServiceSpec`:
every step of the queue is a step of `JobService` or a stutter. The
invariant ties the status and the two outcome flags of a job to the position of
its worker, a poll in progress to a status the job has already passed, and the
last answer told to the phase; without the part on the poll in progress the
refinement fails at `PollAnswer`, since the status may have moved on between its
reads.

`RateLimiterProofs`: `TypeCorrect`, `SlidingWindow`, `RefusalJustified`,
`NothingForgotten`, `BoundedMemory`. The argument: the deque is a suffix of the
history and everything it has lost is older than the window (`LogIsRecent`, with
the order of both sequences), from which the bound on every past window follows
at the moment a request is admitted, and the justification of a refusal at the
moment it is given.

`AccountsProofs`: `TypeCorrect`, `OneAccount`, `QuotaHolds`, `UsageCounted`,
`ProPaid`, `UsedOnce`, `UpgradesLast`. The invariant has a part for each handler:
what a call past its first transaction knows (its user has a row, its
order is claimed, and claimed by no other call), and for the quota that the
count and the screenings under way stay below the limit plus `peak` at the
moment one more is admitted. The cardinalities are handled by the library's
theorems on finite sets; the number of calls need not be bounded.

`LLMCallProofs`: `TypeCorrect`, `NoneLeft`, `BudgetKept`, `TextReturned`. The
invariant says for each place of the call how late it may be: a window ends at the
deadline (`WindowFits`, where the first attempt needs `Floor <= Budget` and the
later ones `Floor <= MinLeft`, both true of the constants of `llm.py`), a sleep
at most `MaxPause` after it; and that the copies looked at while it still
waits have all failed, from which it follows that no text is dropped.

`IndexStoreProofs`: `VectorsInOrder`, `CacheBounded`, `FailsOnlyWhenRaced`,
`SavesAndRestores`. The first three are about calls that disturb each other in the
cache. The invariant says what a call knows at each of its steps: that each place of
its result has the vector of its text or is noted as missing, and while it stores,
that what is not good yet is still to come (`SearchOK`, `StoringOK`); that the
key it relies on is in the store or was removed by another call since it looked
(`MeetsOK`); and that a store passes its limit by no more than the calls between
`Put` and the end of `Evict` (`SizeInv`, over sets of calls of any size). For the
last theorem `UndisturbedSoFar` follows a call in `alone` from place to place: the index,
the entries and each file are those of its own list, as far as it has come.

`RerankingProofs` and `ScreeningProofs`: `TypeCorrect`, `NoneLostOrInvented`,
`CappedStayBelow`, `HighIsSeparated`, `WinnerIsFirst`, `MetricsAreSound`. The first
module has no state; it shows what the operators return for lists of every length.
Everything that filters, sorts or cuts a list is built on `InOrder`, which lists
the places of a total order; `InOrderPlaces` shows that it names every place once
and in that order, and from it follow the filter (`KeptPlaces`), the stable sorts
(`SortedPlaces`) and the rerankers (`PassthroughRanks`, `LexicalRanks`, `LocalRanks`,
`HostedRanks`): as many results as candidates allow, none twice, places of the candidates,
scores in the scale, falling, and for the hosted model those it was not asked about
at the end. For the confidence levels (`HighSeparated`, `WinnerLeads`) the argument is
that a blended score cannot reach 0.7, so that a result called "high" has its
own score, and the results that have theirs are still in falling order: between
such a result and a lower one no neighbour is closer than the gap. The winner's sort
key is the greatest, and no other result has it. `ScoreKeeps` joins the two with
the fallback and the sort by tier.

For the metrics one counts hits. The recursive sum is shown to be the sum
(`SumsAre`, by the least counterexample, since an induction theorem with an operator
as parameter cannot be used); the sum of the precisions at the hits is at
most one for each hit, and that just when no other place precedes a hit
(`PrecisionsAtHits`); the discounted gains are at most those of as many hits on the
first places, with equality in the same case (`GainsDiscounted`, which needs the
discount to fall strictly with the place); and a list without an id twice has no
more hits than there are relevant ids (`HitsDistinct`). So when nothing better could be
shown, the hits of the first `k` are all on the first places (`BestPrecisionBestOrder`).

That an answer is shorter than asked for only when it is complete is a matter of
counting: where the search passes over nothing (`Exact`) there are as many candidates as
places to rank, up to `TopK`, no step loses one, and as many different places among those to
rank as there are of them are all of them. The search is exact for all but `/evaluate` by
the maximum on the length of a body (`ExactUnlessEvaluate`).

The invariant of `ScreeningProofs` then says of each call which lists it holds at
each step and that they are results of those operators on its own body, whatever the
other calls have put into the table, and that only the hosted reranker uses the table. Its
assumptions type the parameters: a text has finitely many words, a request names
finitely many relevant ids, a body is a record of the request model, too short for an
IVF index unless it is for `/evaluate`, FAISS goes with the local rerankers, a score is in
the scale or missing, and every place of an answer has a discount.

Only model-checked: the liveness properties `EveryRankAnswered`, `EveryJobEnds` and
`CallEnds` (liveness under fairness is out of the prover's reach), and the five
violations. Every safety invariant of the passing runs, and the refinement, is
a theorem.

## 6. Findings

- `RankPipelineIds`: two overlapping rankings share the retriever, and one is
  answered with the resumes of the other (or fails with an `IndexError`). What
  survives the interference is what the passing run and the proofs state.
- `JobQueueAnswer`: the poll handler reads the status twice; when the worker
  ends in between, the answer says "done" and carries no result, while the page
  stops polling at the first "done".
- `AccountsConflict`: the claim of an order and the upgrade are two
  transactions; when the call stops between them the payment is marked used, the
  account stays free, and the retry is answered that it "has already been used".
- `ScreeningReplay`: what the answer cache may store is tested by "is there a
  list", what is usable by "is there a score". A list without usable scores is
  stored under ON CONFLICT DO NOTHING and replayed for good, and every ranking with
  that prompt falls back to retrieval order.
- `ScreeningDuplicates`: the validator says of an id sent twice that the second
  occurrence is rejected; the handlers keep every resume whose id was accepted, and
  rank and answer both.

Seen while modelling, without a run: heavy and light requests share one deque of the
rate limiter, so that polling a job uses up the budget of `/rank`
(`rate_limiter.py` 139); `_batch_fn` (`main.py` 527) raises for the whole job when
one of its queries is invalid; a 200 whose body is not the expected JSON leaves
`call_llm` (`llm.py` 364, the action `RaiseRaw`) as another exception than the `LLMError`
that its module promises (`llm.py` 16); NDCG is 1.0, "perfect ranking order" to the
report (`metrics_report.py` 52), also when the first `k` miss relevant resumes that stand
further down, since the ideal order is made of those `k` (`metrics.py` 73); of two close scores only the first becomes
"uncertain".

## 7. Not modelled

- Browser pages: rendering. The poll timer of `ui.html` is a client of the job
  queue; what the server promises it is `JobService`.
- `utils/batching.py`: `chunks` slices a list for the local rerankers, whose scores
  are any values here; `AdaptiveBatcher` and `parallel_embed` are called by nothing.
- `RedisCache`: `enable_redis` is false wherever a cache is made.
- `extract_json`, `strip_thinking` and the preprocessor: rules over text without
  state. The parser of the hosted model's answers starts from what they return.
- `/analyze`, `/explain` and the other endpoints that only fill in a prompt: one
  `call_llm`, modelled as such.
- `batch_evaluate` and `spearman_rho`: averages of modelled values, and a
  coefficient no endpoint asks for.
- Scripts, configuration, `diagnose`, `list_models`: single requests and constants.
