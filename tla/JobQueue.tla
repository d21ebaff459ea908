------------------------------ MODULE JobQueue ------------------------------
(***************************************************************************)
(* The batch job queue (app/job_queue.py) with the two handlers of main.py *)
(* that use it: POST /rank/batch and GET /jobs/{id}.                       *)
(*                                                                         *)
(* Handlers run one at a time on the event loop and never await, so the    *)
(* store is touched by one handler at a time.  A Job object is written by  *)
(* its worker thread, attribute by attribute, while the poll handler reads *)
(* it attribute by attribute: those steps interleave.                      *)
(*                                                                         *)
(* A result and an error text are represented by whether they have been    *)
(* set; started_at and finished_at, which are only displayed, are left out. *)
(***************************************************************************)
EXTENDS Integers, Sequences, FiniteSets

CONSTANTS
    Jobs,     \* the submissions of the run
    Workers,  \* threads of JobRunner._pool
    MaxJobs,  \* JobStore._max
    TTL,      \* JobStore._ttl
    MaxTime   \* bound of the clock

ASSUME JobQueueAssumption ==
    /\ IsFiniteSet(Jobs)
    /\ Workers \in Nat \ {0}
    /\ MaxJobs \in Nat
    /\ TTL \in Nat
    /\ MaxTime \in Nat

VARIABLES
    clock,
    store,     \* the jobs JobStore._jobs still holds
    queue,     \* jobs waiting in the pool, oldest first
    pc,        \* where the worker of each job stands
    status,    \* Job.status; "none" before the job is created
    result,    \* Job.result is set
    error,     \* Job.error is set
    created,   \* Job.created_at
    poll,      \* the poll handler in progress, or NoPoll
    told       \* the last answer given about each job

job  == <<status, result, error, created>>
vars == <<clock, store, queue, pc, job, poll, told>>

NoPoll == [at |-> "idle"]

LoopFree == poll = NoPoll

\* Accepted jobs: the client has been given their id.
Accepted == {j \in Jobs : status[j] # "none"}

\* The jobs that occupy a thread of the pool.
Occupying == {j \in Jobs : pc[j] \in
    {"taken", "working", "resulted", "failed", "published"}}

Expired(j) == clock - created[j] > TTL

----------------------------------------------------------------------------
Init ==
    /\ clock = 0
    /\ store = {}
    /\ queue = <<>>
    /\ pc = [j \in Jobs |-> "new"]
    /\ status = [j \in Jobs |-> "none"]
    /\ result = [j \in Jobs |-> FALSE]
    /\ error = [j \in Jobs |-> FALSE]
    /\ created = [j \in Jobs |-> 0]
    /\ poll = NoPoll
    /\ told = [j \in Jobs |-> "nothing"]

Tick ==
    /\ clock < MaxTime
    /\ clock' = clock + 1
    /\ UNCHANGED <<store, queue, pc, job, poll, told>>

\* Mutant: a job is dropped one tick too early.
CleanedEarly == {j \in store : clock - created[j] < TTL}

\* _cleanup(): drop what is older than the TTL, in whatever state it is.
Cleaned == {j \in store : ~Expired(j)}

\* Mutant: the job is put into the store before the store is found full.
RefuseLate(j) ==
    /\ LoopFree
    /\ pc[j] = "new"
    /\ Cardinality(Cleaned) >= MaxJobs
    /\ store' = Cleaned \cup {j}
    /\ pc' = [pc EXCEPT ![j] = "refused"]
    /\ UNCHANGED <<clock, queue, job, poll, told>>

\* POST /rank/batch, queue full: RuntimeError after the cleanup.
Refuse(j) ==
    /\ LoopFree
    /\ pc[j] = "new"
    /\ Cardinality(Cleaned) >= MaxJobs
    /\ store' = Cleaned
    /\ pc' = [pc EXCEPT ![j] = "refused"]
    /\ UNCHANGED <<clock, queue, job, poll, told>>

\* Mutant: off by one at the full queue.
SubmitOverfull(j) ==
    /\ LoopFree
    /\ pc[j] = "new"
    /\ Cardinality(Cleaned) <= MaxJobs
    /\ store' = Cleaned \cup {j}
    /\ status' = [status EXCEPT ![j] = "queued"]
    /\ created' = [created EXCEPT ![j] = clock]
    /\ queue' = Append(queue, j)
    /\ pc' = [pc EXCEPT ![j] = "waiting"]
    /\ UNCHANGED <<clock, result, error, poll, told>>

\* POST /rank/batch: create the job and hand it to the pool.
Submit(j) ==
    /\ LoopFree
    /\ pc[j] = "new"
    /\ Cardinality(Cleaned) < MaxJobs
    /\ store' = Cleaned \cup {j}
    /\ status' = [status EXCEPT ![j] = "queued"]
    /\ created' = [created EXCEPT ![j] = clock]
    /\ queue' = Append(queue, j)
    /\ pc' = [pc EXCEPT ![j] = "waiting"]
    /\ UNCHANGED <<clock, result, error, poll, told>>

----------------------------------------------------------------------------
\* The worker thread: _run() of one job.

Take(j) ==
    /\ pc[j] = "waiting"
    /\ queue # <<>>
    /\ j = Head(queue)
    /\ Cardinality(Occupying) < Workers
    /\ queue' = Tail(queue)
    /\ pc' = [pc EXCEPT ![j] = "taken"]
    /\ UNCHANGED <<clock, store, job, poll, told>>

MarkRunning(j) ==
    /\ pc[j] = "taken"
    /\ status' = [status EXCEPT ![j] = "running"]
    /\ pc' = [pc EXCEPT ![j] = "working"]
    /\ UNCHANGED <<clock, store, queue, result, error, created, poll,
                   told>>

\* Mutant: the status is published and the result is not stored yet.
StoreResultLate(j) ==
    /\ pc[j] = "working"
    /\ status' = [status EXCEPT ![j] = "done"]
    /\ pc' = [pc EXCEPT ![j] = "resulted"]
    /\ UNCHANGED <<clock, store, queue, result, error, created, poll, told>>

\* fn returns and its value is stored, before the status says so.
StoreResult(j) ==
    /\ pc[j] = "working"
    /\ result' = [result EXCEPT ![j] = TRUE]
    /\ pc' = [pc EXCEPT ![j] = "resulted"]
    /\ UNCHANGED <<clock, store, queue, status, error, created, poll,
                   told>>

\* fn raises and the text is stored, before the status says so.
StoreError(j) ==
    /\ pc[j] = "working"
    /\ error' = [error EXCEPT ![j] = TRUE]
    /\ pc' = [pc EXCEPT ![j] = "failed"]
    /\ UNCHANGED <<clock, store, queue, status, result, created, poll,
                   told>>

PublishDone(j) ==
    /\ pc[j] = "resulted"
    /\ status' = [status EXCEPT ![j] = "done"]
    /\ pc' = [pc EXCEPT ![j] = "published"]
    /\ UNCHANGED <<clock, store, queue, result, error, created, poll,
                   told>>

PublishError(j) ==
    /\ pc[j] = "failed"
    /\ status' = [status EXCEPT ![j] = "error"]
    /\ pc' = [pc EXCEPT ![j] = "published"]
    /\ UNCHANGED <<clock, store, queue, result, error, created, poll,
                   told>>

\* Mutant: only a job that succeeded gives its thread back.
FinishDone(j) ==
    /\ pc[j] = "published"
    /\ status[j] = "done"
    /\ pc' = [pc EXCEPT ![j] = "finished"]
    /\ UNCHANGED <<clock, store, queue, job, poll, told>>

\* Mutant: a failed job is tried again.
FinishRetry(j) ==
    /\ pc[j] = "published"
    /\ IF status[j] = "error"
       THEN /\ status' = [status EXCEPT ![j] = "queued"]
            /\ queue' = Append(queue, j)
            /\ pc' = [pc EXCEPT ![j] = "waiting"]
       ELSE /\ pc' = [pc EXCEPT ![j] = "finished"]
            /\ UNCHANGED <<queue, status>>
    /\ UNCHANGED <<clock, store, result, error, created, poll, told>>

\* finally: job.finished_at = time.time(); the thread is free again.
Finish(j) ==
    /\ pc[j] = "published"
    /\ pc' = [pc EXCEPT ![j] = "finished"]
    /\ UNCHANGED <<clock, store, queue, job, poll, told>>

----------------------------------------------------------------------------
\* GET /jobs/{id}, on the event loop, while workers go on.

\* The job is gone: 404.
PollUnknown(j) ==
    /\ LoopFree
    /\ j \in Accepted \ store
    /\ told' = [told EXCEPT ![j] = "unknown"]
    /\ UNCHANGED <<clock, store, queue, pc, job, poll>>

\* job.status == "done" decides whether the answer will have a result.
PollTest(j) ==
    /\ LoopFree
    /\ j \in store
    /\ poll' = [at |-> "tested", job |-> j, full |-> status[j] = "done"]
    /\ UNCHANGED <<clock, store, queue, pc, job, told>>

\* to_dict() reads the status again.
PollReadStatus ==
    /\ poll.at = "tested"
    /\ poll' = [at |-> "read", job |-> poll.job, full |-> poll.full,
                says |-> status[poll.job]]
    /\ UNCHANGED <<clock, store, queue, pc, job, told>>

\* What the finished answer tells the client.
Answer(p) ==
    CASE p.says \in {"queued", "running"}           -> "pending"
      [] p.says = "error" /\ error[p.job]           -> "error"
      [] p.says = "error" /\ ~error[p.job]          -> "errorWithoutText"
      [] p.says = "done" /\ p.full /\ result[p.job] -> "result"
      [] p.says = "done" /\ p.full /\ ~result[p.job] -> "emptyResult"
      [] p.says = "done" /\ ~p.full                 -> "announced"

\* to_dict() reads the error, to_dict_with_result() the result.
PollAnswer ==
    /\ poll.at = "read"
    /\ told' = [told EXCEPT ![poll.job] = Answer(poll)]
    /\ poll' = NoPoll
    /\ UNCHANGED <<clock, store, queue, pc, job>>

Worker(j) ==
    \/ Take(j) \/ MarkRunning(j) \/ StoreResult(j) \/ StoreError(j)
    \/ PublishDone(j) \/ PublishError(j) \/ Finish(j)

Next ==
    \/ Tick
    \/ \E j \in Jobs :
         Submit(j) \/ Refuse(j) \/ Worker(j) \/ PollUnknown(j) \/ PollTest(j)
    \/ PollReadStatus
    \/ PollAnswer

Spec == Init /\ [][Next]_vars

\* The threads of the pool are scheduled, and the work of a job returns.
FairSpec == Spec /\ \A j \in Jobs : WF_vars(Worker(j))

----------------------------------------------------------------------------
Answers == {"nothing", "pending", "announced", "result", "error", "unknown",
            "emptyResult", "errorWithoutText"}

Polls ==
    {NoPoll}
    \cup [at : {"tested"}, job : Jobs, full : BOOLEAN]
    \cup [at : {"read"}, job : Jobs, full : BOOLEAN,
          says : {"queued", "running", "done", "error"}]

TypeOK ==
    /\ clock \in 0 .. MaxTime
    /\ store \subseteq Accepted
    /\ queue \in Seq(Jobs)
    /\ pc \in [Jobs -> {"new", "refused", "waiting", "taken", "working",
                        "resulted", "failed", "published", "finished"}]
    /\ status \in [Jobs -> {"none", "queued", "running", "done", "error"}]
    /\ result \in [Jobs -> BOOLEAN]
    /\ error \in [Jobs -> BOOLEAN]
    /\ created \in [Jobs -> 0 .. MaxTime]
    /\ poll \in Polls
    /\ told \in [Jobs -> Answers]

\* However a poll and a worker interleave, an answer that carries a result
\* carries a stored one, and an answer that says "error" says why.
NoHollowAnswer ==
    \A j \in Jobs : told[j] \notin {"emptyResult", "errorWithoutText"}

\* An accepted job is found until it is older than the TTL (and is then lost
\* whatever its state: the cleanup does not ask whether it has ended).
KeptUntilExpired == \A j \in Accepted \ store : Expired(j)

\* The store never holds more than MaxJobs jobs, also when a submission
\* finds it full of expired ones.
StoreBounded == Cardinality(store) <= MaxJobs

\* Every accepted job ends and gives its thread back, whether fn returns or
\* raises, and however many jobs wait.
EveryJobEnds ==
    \A j \in Jobs : pc[j] = "waiting" ~> pc[j] = "finished"

\* The queue keeps the promise of JobService: a job ends once, and what the
\* client is told only moves forward.
Phase(j) ==
    CASE pc[j] \in {"new", "refused"}       -> pc[j]
      [] status[j] \in {"queued", "running"} -> "pending"
      [] OTHER                              -> status[j]

Service == INSTANCE JobService WITH phase <- [j \in Jobs |-> Phase(j)]

ServiceSpec == Service!Spec

\* An answer that says "done" carries the result ("Client polls
\* /jobs/{job_id} for completion").
DoneCarriesResult == \A j \in Jobs : told[j] # "announced"
=============================================================================
