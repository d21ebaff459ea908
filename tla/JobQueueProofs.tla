--------------------------- MODULE JobQueueProofs ---------------------------
(***************************************************************************)
(* Proofs about JobQueue for any number of jobs, threads, places in the    *)
(* store, and any TTL: its safety invariants, and that it implements       *)
(* JobService.                                                             *)
(***************************************************************************)
EXTENDS JobQueue, FiniteSetTheorems, TLAPS

\* Where the worker stands tells what it has written to the job so far.
JobOK(j) ==
    /\ pc[j] \in {"new", "refused"} <=> status[j] = "none"
    /\ pc[j] \in {"waiting", "taken"} => status[j] = "queued"
    /\ pc[j] \in {"working", "resulted", "failed"} => status[j] = "running"
    /\ pc[j] \in {"published", "finished"} => status[j] \in {"done", "error"}
    /\ pc[j] = "resulted" \/ status[j] = "done" => result[j]
    /\ pc[j] = "failed" \/ status[j] = "error" => error[j]

\* What a client has been told is still true of the job.
ToldOK(j) ==
    /\ told[j] \notin {"emptyResult", "errorWithoutText"}
    /\ told[j] # "nothing" => status[j] # "none"
    /\ told[j] = "unknown" => j \notin store
    /\ told[j] \in {"announced", "result"} => status[j] = "done"
    /\ told[j] = "error" => status[j] = "error"

\* What a poll in progress has read is not contradicted by the job since, and
\* does not fall behind what the client was told before the poll began.
PollOK ==
    /\ poll.at # "idle" => poll.job \in store
    /\ poll.at # "idle" /\ poll.full => status[poll.job] = "done"
    /\ poll.at # "idle" /\ ~poll.full =>
         told[poll.job] \in {"nothing", "pending", "error"}
    /\ poll.at = "read" =>
         /\ poll.says \in {"done", "error"} => status[poll.job] = poll.says
         /\ poll.full => poll.says = "done"
         /\ poll.says \in {"queued", "running"} =>
              told[poll.job] \in {"nothing", "pending"}

IInv ==
    /\ TypeOK
    /\ \A j \in Jobs : JobOK(j) /\ ToldOK(j)
    /\ PollOK
    /\ KeptUntilExpired

----------------------------------------------------------------------------
\* Every variable keeps its type: a job in the store has a status, and a poll
\* only ever reads the statuses of an accepted job.
LEMMA TypeStep ==
    ASSUME IInv, [Next]_vars
    PROVE  TypeOK'
<1> USE JobQueueAssumption DEF IInv, TypeOK, Accepted, job
<1>1. CASE Tick
  BY <1>1 DEF Tick
<1>2. ASSUME NEW j \in Jobs, Refuse(j) PROVE TypeOK'
  BY <1>2 DEF Refuse, Cleaned
<1>3. ASSUME NEW j \in Jobs, Submit(j) PROVE TypeOK'
  BY <1>3 DEF Submit, Cleaned
<1>4. ASSUME NEW j \in Jobs, Take(j) PROVE TypeOK'
  BY <1>4 DEF Take
<1>5. ASSUME NEW j \in Jobs, MarkRunning(j) PROVE TypeOK'
  BY <1>5 DEF MarkRunning
<1>6. ASSUME NEW j \in Jobs, StoreResult(j) PROVE TypeOK'
  BY <1>6 DEF StoreResult
<1>7. ASSUME NEW j \in Jobs, StoreError(j) PROVE TypeOK'
  BY <1>7 DEF StoreError
<1>8. ASSUME NEW j \in Jobs, PublishDone(j) PROVE TypeOK'
  BY <1>8 DEF PublishDone
<1>9. ASSUME NEW j \in Jobs, PublishError(j) PROVE TypeOK'
  BY <1>9 DEF PublishError
<1>10. ASSUME NEW j \in Jobs, Finish(j) PROVE TypeOK'
  BY <1>10 DEF Finish
<1>11. ASSUME NEW j \in Jobs, PollUnknown(j) PROVE TypeOK'
  BY <1>11 DEF PollUnknown, Answers
<1>12. ASSUME NEW j \in Jobs, PollTest(j) PROVE TypeOK'
  BY <1>12 DEF PollTest, Polls
<1>13. CASE PollReadStatus
  BY <1>13 DEF PollReadStatus, PollOK, Polls, NoPoll
<1>14. CASE PollAnswer
  <2>1. /\ poll.job \in Jobs /\ poll.full \in BOOLEAN
        /\ poll.says \in {"queued", "running", "done", "error"}
    BY <1>14 DEF PollAnswer, Polls, NoPoll
  <2>2. error[poll.job] \in BOOLEAN /\ result[poll.job] \in BOOLEAN
    BY <2>1
  <2>3. Answer(poll) \in Answers
    BY <2>1, <2>2 DEF Answer, Answers
  <2>4. NoPoll \in Polls
    BY DEF Polls
  <2>5. QED
    BY <1>14, <2>3, <2>4 DEF PollAnswer
<1>15. CASE UNCHANGED vars
  BY <1>15 DEF vars
<1>16. QED
  BY <1>1, <1>2, <1>3, <1>4, <1>5, <1>6, <1>7, <1>8, <1>9, <1>10, <1>11,
     <1>12, <1>13, <1>14, <1>15 DEF Next, Worker

\* The worker writes the result before it publishes the status.
LEMMA JobStep ==
    ASSUME TypeOK, \A j \in Jobs : JobOK(j), [Next]_vars
    PROVE  \A j \in Jobs : JobOK(j)'
<1> USE DEF TypeOK, job, JobOK
<1>1. CASE Tick
  BY <1>1 DEF Tick
<1>2. ASSUME NEW i \in Jobs, Refuse(i) PROVE \A j \in Jobs : JobOK(j)'
  BY <1>2 DEF Refuse
<1>3. ASSUME NEW i \in Jobs, Submit(i) PROVE \A j \in Jobs : JobOK(j)'
  BY <1>3 DEF Submit
<1>4. ASSUME NEW i \in Jobs, Take(i) PROVE \A j \in Jobs : JobOK(j)'
  BY <1>4 DEF Take
<1>5. ASSUME NEW i \in Jobs, MarkRunning(i) PROVE \A j \in Jobs : JobOK(j)'
  BY <1>5 DEF MarkRunning
<1>6. ASSUME NEW i \in Jobs, StoreResult(i) PROVE \A j \in Jobs : JobOK(j)'
  BY <1>6 DEF StoreResult
<1>7. ASSUME NEW i \in Jobs, StoreError(i) PROVE \A j \in Jobs : JobOK(j)'
  BY <1>7 DEF StoreError
<1>8. ASSUME NEW i \in Jobs, PublishDone(i) PROVE \A j \in Jobs : JobOK(j)'
  BY <1>8 DEF PublishDone
<1>9. ASSUME NEW i \in Jobs, PublishError(i) PROVE \A j \in Jobs : JobOK(j)'
  BY <1>9 DEF PublishError
<1>10. ASSUME NEW i \in Jobs, Finish(i) PROVE \A j \in Jobs : JobOK(j)'
  BY <1>10 DEF Finish
<1>11. ASSUME NEW i \in Jobs, PollUnknown(i) \/ PollTest(i)
       PROVE  \A j \in Jobs : JobOK(j)'
  BY <1>11 DEF PollUnknown, PollTest
<1>12. CASE PollReadStatus \/ PollAnswer \/ UNCHANGED vars
  BY <1>12 DEF PollReadStatus, PollAnswer, vars
<1>13. QED
  BY <1>1, <1>2, <1>3, <1>4, <1>5, <1>6, <1>7, <1>8, <1>9, <1>10, <1>11,
     <1>12 DEF Next, Worker

\* A job is only forgotten when it is too old, and time does not run back.
LEMMA KeptStep ==
    ASSUME IInv, [Next]_vars
    PROVE  KeptUntilExpired'
<1> USE JobQueueAssumption
    DEF IInv, TypeOK, job, JobOK, KeptUntilExpired, Accepted, Expired
<1>1. CASE Tick
  BY <1>1 DEF Tick
<1>2. ASSUME NEW i \in Jobs, Refuse(i) PROVE KeptUntilExpired'
  BY <1>2 DEF Refuse, Cleaned
<1>3. ASSUME NEW i \in Jobs, Submit(i) PROVE KeptUntilExpired'
  BY <1>3 DEF Submit, Cleaned
<1>4. ASSUME NEW i \in Jobs, Worker(i) PROVE KeptUntilExpired'
  <2>1. /\ UNCHANGED <<clock, store, created>>
        /\ \A j \in Jobs : status'[j] # "none" => status[j] # "none"
    BY <1>4 DEF Worker, Take, MarkRunning, StoreResult, StoreError,
                PublishDone, PublishError, Finish
  <2>2. QED
    BY <2>1
<1>5. ASSUME NEW i \in Jobs, PollUnknown(i) \/ PollTest(i)
      PROVE  KeptUntilExpired'
  BY <1>5 DEF PollUnknown, PollTest
<1>6. CASE PollReadStatus \/ PollAnswer \/ UNCHANGED vars
  BY <1>6 DEF PollReadStatus, PollAnswer, vars
<1>7. QED
  BY <1>1, <1>2, <1>3, <1>4, <1>5, <1>6 DEF Next

\* What is read during a poll, and what was told before it, stays in line with
\* the job while its worker goes on.
LEMMA PollStep ==
    ASSUME IInv, [Next]_vars
    PROVE  PollOK' /\ \A j \in Jobs : ToldOK(j)'
<1> USE DEF IInv, PollOK, ToldOK
<1>1. CASE Tick
  BY <1>1 DEF Tick, job
<1>2. ASSUME NEW i \in Jobs, Refuse(i)
      PROVE  PollOK' /\ \A j \in Jobs : ToldOK(j)'
  BY <1>2 DEF Refuse, Cleaned, LoopFree, NoPoll, job
<1>3. ASSUME NEW i \in Jobs, Submit(i)
      PROVE  PollOK' /\ \A j \in Jobs : ToldOK(j)'
  <2>1. /\ poll = NoPoll /\ poll' = poll /\ told' = told
        /\ status[i] = "none" /\ told[i] = "nothing"
        /\ store' \subseteq store \cup {i}
        /\ \A j \in Jobs : status'[j] = IF j = i THEN "queued" ELSE status[j]
    BY <1>3 DEF Submit, Cleaned, LoopFree, JobOK, TypeOK, Answers
  <2>2. QED
    BY <2>1 DEF NoPoll
<1>4. ASSUME NEW i \in Jobs, Worker(i)
      PROVE  PollOK' /\ \A j \in Jobs : ToldOK(j)'
  <2>1. /\ UNCHANGED <<store, poll, told>>
        /\ status'[i] # "none"
        /\ \A j \in Jobs : status'[j] # status[j] =>
             status[j] \in {"queued", "running"}
    BY <1>4 DEF Worker, Take, MarkRunning, StoreResult, StoreError,
                PublishDone, PublishError, Finish, JobOK, TypeOK, job
  <2>2. \A j \in Jobs : status'[j] # status[j] => status'[j] # "none"
    BY <1>4 DEF Worker, Take, MarkRunning, StoreResult, StoreError,
                PublishDone, PublishError, Finish, TypeOK, job
  <2>3. \A j \in Jobs : ToldOK(j)'
    BY <2>1, <2>2
  <2>4. poll.at # "idle" => poll.job \in Jobs
    BY DEF TypeOK, Polls, NoPoll
  <2>5. PollOK'
    BY <2>1, <2>4
  <2>6. QED
    BY <2>3, <2>5
<1>5. ASSUME NEW i \in Jobs, PollUnknown(i)
      PROVE  PollOK' /\ \A j \in Jobs : ToldOK(j)'
  BY <1>5 DEF PollUnknown, LoopFree, NoPoll, Accepted, TypeOK, job
<1>6. ASSUME NEW i \in Jobs, PollTest(i)
      PROVE  PollOK' /\ \A j \in Jobs : ToldOK(j)'
  <2>1. /\ poll'.at = "tested" /\ poll'.job = i /\ i \in store
        /\ poll'.full = (status[i] = "done")
        /\ UNCHANGED <<store, job, told>>
    BY <1>6 DEF PollTest
  <2>2. status[i] # "done" => told[i] \in {"nothing", "pending", "error"}
    BY <2>1 DEF TypeOK, Answers
  <2>3. QED
    BY <2>1, <2>2 DEF job
<1>7. CASE PollReadStatus
  <2>1. /\ poll.at = "tested" /\ poll'.at = "read"
        /\ poll'.job = poll.job /\ poll'.full = poll.full
        /\ poll'.says = status[poll.job]
        /\ UNCHANGED <<store, job, told>>
    BY <1>7 DEF PollReadStatus
  <2>2. poll.job \in Jobs
    BY <2>1 DEF TypeOK, Polls, NoPoll
  <2>3. status[poll.job] \in {"queued", "running"} =>
          told[poll.job] \in {"nothing", "pending"}
    BY <2>1, <2>2
  <2>4. QED
    BY <2>1, <2>2, <2>3 DEF job
<1>8. CASE PollAnswer
  <2>1. /\ poll.at = "read" /\ poll'.at = "idle"
        /\ told' = [told EXCEPT ![poll.job] = Answer(poll)]
        /\ UNCHANGED <<store, job>>
    BY <1>8 DEF PollAnswer, NoPoll
  <2>2. /\ poll.job \in Jobs /\ poll.full \in BOOLEAN
        /\ poll.says \in {"queued", "running", "done", "error"}
    BY <2>1 DEF TypeOK, Polls, NoPoll
  <2>3. /\ poll.says \in {"done", "error"} => status[poll.job] = poll.says
        /\ poll.job \in store
    BY <2>1
  <2>4. ASSUME NEW j \in Jobs, j = poll.job PROVE ToldOK(j)'
    <3>1. told'[j] = Answer(poll)
      BY <2>1, <2>4 DEF TypeOK
    <3>2. /\ poll.says = "done" => result[poll.job]
          /\ poll.says = "error" => error[poll.job]
      BY <2>2, <2>3 DEF JobOK
    <3>3. status[poll.job] # "none"
      BY <2>3 DEF TypeOK, Accepted
    <3>4. /\ poll.says \in {"queued", "running"} => Answer(poll) = "pending"
          /\ poll.says = "error" => Answer(poll) = "error"
          /\ poll.says = "done" => Answer(poll) \in {"result", "announced"}
      BY <2>2, <3>2 DEF Answer
    <3>5. QED
      BY <2>1, <2>2, <2>3, <2>4, <3>1, <3>3, <3>4 DEF job
  <2>5. ASSUME NEW j \in Jobs, j # poll.job PROVE ToldOK(j)'
    BY <2>5, <2>1, <2>2 DEF TypeOK, job
  <2>6. QED
    BY <2>1, <2>4, <2>5
<1>9. CASE UNCHANGED vars
  BY <1>9 DEF vars, job
<1>10. QED
  BY <1>1, <1>2, <1>3, <1>4, <1>5, <1>6, <1>7, <1>8, <1>9 DEF Next

\* The invariant is inductive.
LEMMA IInvAlways == Spec => []IInv
<1>1. Init => IInv
  BY JobQueueAssumption
  DEF Init, IInv, TypeOK, JobOK, ToldOK, PollOK, KeptUntilExpired, Accepted,
      Polls, NoPoll, Answers
<1>2. IInv /\ [Next]_vars => IInv'
  BY TypeStep, JobStep, KeptStep, PollStep DEF IInv
<1>3. QED
  BY <1>1, <1>2, PTL DEF Spec

----------------------------------------------------------------------------
\* The types of the job store, of the workers and of a poll in progress.
THEOREM TypeCorrect == Spec => []TypeOK
BY IInvAlways, PTL DEF IInv

\* No poll ever answers "done" with an empty result or "error" without a
\* text: _run() stores the outcome before it publishes the status.
THEOREM NoAnswerIsHollow == Spec => []NoHollowAnswer
<1>1. IInv => NoHollowAnswer
  BY DEF IInv, ToldOK, NoHollowAnswer
<1>2. QED
  BY IInvAlways, <1>1, PTL

\* _cleanup() never takes a job that is younger than the TTL.
THEOREM KeptForItsTime == Spec => []KeptUntilExpired
BY IInvAlways, PTL DEF IInv

\* create() never lets the store grow past max_jobs.
THEOREM StoreStaysBounded == Spec => []StoreBounded
<1> DEFINE Bounded == IsFiniteSet(store) /\ StoreBounded
<1>1. Init => Bounded
  BY FS_EmptySet, JobQueueAssumption DEF Init, StoreBounded
<1>2. Bounded /\ [Next]_vars => Bounded'
  <2> SUFFICES ASSUME Bounded, [Next]_vars PROVE Bounded'
    OBVIOUS
  <2> USE DEF StoreBounded
  <2>1. /\ IsFiniteSet(Cleaned) /\ Cardinality(Cleaned) \in Nat
        /\ Cardinality(Cleaned) <= Cardinality(store)
        /\ Cardinality(store) \in Nat
    <3>1. Cleaned \subseteq store
      BY DEF Cleaned
    <3>2. QED
      BY <3>1, FS_Subset, FS_CardinalityType
  <2>2. ASSUME NEW j \in Jobs, Submit(j) PROVE Bounded'
    <3>1. store' = Cleaned \cup {j} /\ Cardinality(Cleaned) < MaxJobs
      BY <2>2 DEF Submit
    <3>2. /\ IsFiniteSet(Cleaned \cup {j})
          /\ Cardinality(Cleaned \cup {j}) <= Cardinality(Cleaned) + 1
      <4>1. CASE j \in Cleaned
        <5>1. Cleaned \cup {j} = Cleaned
          BY <4>1
        <5>2. /\ IsFiniteSet(Cleaned \cup {j})
              /\ Cardinality(Cleaned \cup {j}) = Cardinality(Cleaned)
          BY <2>1, <5>1, Zenon
        <5>3. QED
          BY <2>1, <5>2
      <4>2. CASE j \notin Cleaned
        <5>1. /\ IsFiniteSet(Cleaned \cup {j})
              /\ Cardinality(Cleaned \cup {j}) = Cardinality(Cleaned) + 1
          BY <2>1, <4>2, FS_AddElement, Zenon
        <5>2. QED
          BY <2>1, <5>1
      <4>3. QED
        BY <4>1, <4>2
    <3>3. Cardinality(Cleaned \cup {j}) \in Nat
      BY <3>2, FS_CardinalityType
    <3>4. QED
      BY <2>1, <3>1, <3>2, <3>3, JobQueueAssumption
  <2>3. ASSUME NEW j \in Jobs, Refuse(j) PROVE Bounded'
    BY <2>1, <2>3, JobQueueAssumption DEF Refuse
  <2>4. CASE UNCHANGED store
    BY <2>4
  <2>5. QED
    BY <2>2, <2>3, <2>4
    DEF Next, Tick, Worker, Take, MarkRunning, StoreResult, StoreError,
        PublishDone, PublishError, Finish, PollUnknown, PollTest,
        PollReadStatus, PollAnswer, vars
<1>3. QED
  BY <1>1, <1>2, PTL DEF Spec

----------------------------------------------------------------------------
\* The queue implements JobService.

phase == [j \in Jobs |-> Phase(j)]

\* What the phase of a job is, in the terms of its status.
LEMMA PhaseOf ==
    ASSUME IInv, NEW j \in Jobs
    PROVE  /\ phase[j] = Phase(j)
           /\ pc[j] \in {"new", "refused"} => Phase(j) = pc[j]
           /\ status[j] \in {"queued", "running"} => Phase(j) = "pending"
           /\ status[j] \in {"done", "error"} => Phase(j) = status[j]
BY DEF phase, Phase, IInv, JobOK, TypeOK

\* A step that changes the phase of one job only.
LEMMA PhaseUpdate ==
    ASSUME NEW i \in Jobs, \A j \in Jobs \ {i} : Phase(j)' = Phase(j)
    PROVE  phase' = [phase EXCEPT ![i] = Phase(i)']
BY DEF phase

\* What the poll handler answers is one of the answers that JobService allows
\* after what the client has been told.
LEMMA AnswerAllowed ==
    ASSUME IInv, poll.at = "read"
    PROVE  Answer(poll) \in Service!Allowed(poll.job)
<1>1. /\ poll.job \in Jobs /\ poll.full \in BOOLEAN
      /\ poll.says \in {"queued", "running", "done", "error"}
  BY DEF IInv, TypeOK, Polls, NoPoll
<1> DEFINE j == poll.job
<1>2. /\ j \in store /\ told[j] # "unknown"
      /\ told[j] \in Answers \ {"emptyResult", "errorWithoutText"}
      /\ poll.says \in {"done", "error"} => status[j] = poll.says
      /\ poll.full => poll.says = "done"
      /\ ~poll.full => told[j] \in {"nothing", "pending", "error"}
      /\ poll.says \in {"queued", "running"} =>
           told[j] \in {"nothing", "pending"}
      /\ told[j] = "error" => status[j] = "error"
      /\ status[j] = "done" => result[j]
      /\ status[j] = "error" => error[j]
  BY <1>1 DEF IInv, PollOK, ToldOK, JobOK, TypeOK
<1>3. phase[j] = Phase(j) /\ (status[j] \in {"done", "error"} =>
                                 Phase(j) = status[j])
  BY <1>1, PhaseOf
<1>4. CASE poll.says \in {"queued", "running"}
  <2>1. Answer(poll) = "pending"
    BY <1>4 DEF Answer
  <2>2. QED
    BY <1>2, <1>4, <2>1 DEF Service!Allowed
<1>5. CASE poll.says = "error"
  <2>1. Answer(poll) = "error"
    BY <1>1, <1>2, <1>5 DEF Answer
  <2>2. QED
    BY <1>2, <1>3, <1>5, <2>1 DEF Service!Allowed, phase
<1>6. CASE poll.says = "done"
  <2>1. Answer(poll) = IF poll.full THEN "result" ELSE "announced"
    BY <1>1, <1>2, <1>6 DEF Answer
  <2>2. ~poll.full => told[j] \in {"nothing", "pending"}
    BY <1>2, <1>6
  <2>3. QED
    BY <1>1, <1>2, <1>3, <1>6, <2>1, <2>2 DEF Service!Allowed, phase
<1>7. QED
  BY <1>1, <1>4, <1>5, <1>6

\* Every step is a step of JobService or changes nothing it can see.
LEMMA ServiceStep ==
    ASSUME IInv, [Next]_vars
    PROVE  [Service!Next]_<<phase, told>>
<1> USE DEF IInv, TypeOK
<1>1. CASE Tick \/ PollReadStatus \/ UNCHANGED vars
  <2>1. UNCHANGED <<pc, status, told>>
    BY <1>1 DEF Tick, PollReadStatus, vars, job
  <2>2. QED
    BY <2>1 DEF phase, Phase
<1>2. ASSUME NEW i \in Jobs, Refuse(i)
      PROVE  Service!Next
  <2>1. /\ pc[i] = "new" /\ pc' = [pc EXCEPT ![i] = "refused"]
        /\ status[i] = "none" /\ UNCHANGED <<status, told>>
    BY <1>2 DEF Refuse, job, JobOK
  <2>2. /\ \A j \in Jobs \ {i} : Phase(j)' = Phase(j)
        /\ Phase(i) = "new" /\ Phase(i)' = "refused"
    BY <2>1 DEF Phase
  <2>3. phase[i] = "new" /\ phase' = [phase EXCEPT ![i] = "refused"]
    BY <2>2, PhaseUpdate DEF phase
  <2>4. Service!Receive(i)
    BY <2>1, <2>3 DEF Service!Receive, phase
  <2>5. QED
    BY <2>4 DEF Service!Next
<1>3. ASSUME NEW i \in Jobs, Submit(i)
      PROVE  Service!Next
  <2>1. /\ pc[i] = "new" /\ pc' = [pc EXCEPT ![i] = "waiting"]
        /\ status[i] = "none" /\ status' = [status EXCEPT ![i] = "queued"]
        /\ UNCHANGED told
    BY <1>3 DEF Submit, JobOK
  <2>2. /\ \A j \in Jobs \ {i} : Phase(j)' = Phase(j)
        /\ Phase(i) = "new" /\ Phase(i)' = "pending"
    BY <2>1 DEF Phase
  <2>3. phase[i] = "new" /\ phase' = [phase EXCEPT ![i] = "pending"]
    BY <2>2, PhaseUpdate DEF phase
  <2>4. Service!Receive(i)
    BY <2>1, <2>3 DEF Service!Receive, phase
  <2>5. QED
    BY <2>4 DEF Service!Next
<1>4. ASSUME NEW i \in Jobs, PublishDone(i) \/ PublishError(i)
      PROVE  Service!Next
  <2>1. /\ pc[i] \in {"resulted", "failed"} /\ status[i] = "running"
        /\ pc' = [pc EXCEPT ![i] = "published"]
        /\ \E v \in {"done", "error"} : status' = [status EXCEPT ![i] = v]
        /\ UNCHANGED told
    BY <1>4 DEF PublishDone, PublishError, JobOK
  <2>2. PICK v \in {"done", "error"} : status' = [status EXCEPT ![i] = v]
    BY <2>1
  <2>3. /\ \A j \in Jobs \ {i} : Phase(j)' = Phase(j)
        /\ Phase(i) = "pending" /\ Phase(i)' = v
    BY <2>1, <2>2 DEF Phase
  <2>4. phase[i] = "pending" /\ phase' = [phase EXCEPT ![i] = v]
    BY <2>3, PhaseUpdate DEF phase
  <2>5. Service!Resolve(i)
    BY <2>1, <2>4 DEF Service!Resolve, Service!Final, phase
  <2>6. QED
    BY <2>5 DEF Service!Next
<1>5. ASSUME NEW i \in Jobs,
             Take(i) \/ MarkRunning(i) \/ StoreResult(i) \/ StoreError(i)
               \/ Finish(i) \/ PollTest(i)
      PROVE  UNCHANGED <<phase, told>>
  <2>1. UNCHANGED told
    BY <1>5 DEF Take, MarkRunning, StoreResult, StoreError, Finish, PollTest
  <2>2. \A j \in Jobs : Phase(j)' = Phase(j)
    BY <1>5 DEF Take, MarkRunning, StoreResult, StoreError, Finish,
                PollTest, job, JobOK, Phase
  <2>3. QED
    BY <2>1, <2>2 DEF phase
<1>6. ASSUME NEW i \in Jobs, PollUnknown(i)
      PROVE  Service!Next
  <2>1. /\ status[i] # "none" /\ UNCHANGED <<pc, status>>
        /\ told' = [told EXCEPT ![i] = "unknown"]
    BY <1>6 DEF PollUnknown, Accepted, job
  <2>2. UNCHANGED phase
    BY <2>1 DEF phase, Phase
  <2>3. phase[i] \in {"pending", "done", "error"}
    BY <2>1, PhaseOf
  <2>4. "unknown" \in Service!Allowed(i)
    BY DEF Service!Allowed
  <2>5. Service!Tell(i)
    BY <2>1, <2>2, <2>3, <2>4 DEF Service!Tell, Service!Final, phase
  <2>6. QED
    BY <2>5 DEF Service!Next
<1>7. CASE PollAnswer
  <2>1. /\ poll.at = "read" /\ UNCHANGED <<pc, status>>
        /\ told' = [told EXCEPT ![poll.job] = Answer(poll)]
    BY <1>7 DEF PollAnswer, job
  <2>2. UNCHANGED phase
    BY <2>1 DEF phase, Phase
  <2>3. poll.job \in Jobs /\ status[poll.job] # "none"
    BY <2>1 DEF PollOK, Accepted
  <2>4. phase[poll.job] \in {"pending", "done", "error"}
    BY <2>3, PhaseOf
  <2>5. Answer(poll) \in Service!Allowed(poll.job)
    BY <2>1, AnswerAllowed
  <2>6. Service!Tell(poll.job)
    BY <2>1, <2>2, <2>4, <2>5 DEF Service!Tell, Service!Final, phase
  <2>7. QED
    BY <2>3, <2>6 DEF Service!Next
<1>8. QED
  BY <1>1, <1>2, <1>3, <1>4, <1>5, <1>6, <1>7 DEF Next, Worker

\* The queue keeps the promise of JobService: a job is accepted or refused,
\* ends once, and what its client is told only moves forward.
THEOREM KeepsItsPromise == Spec => ServiceSpec
<1>1. Init => Service!Init
  BY DEF Init, Service!Init, Phase
<1>2. IInv /\ [Next]_vars => [Service!Next]_<<phase, told>>
  BY ServiceStep
<1>3. QED
  BY <1>1, <1>2, IInvAlways, PTL DEF Spec, ServiceSpec, Service!Spec, phase
=============================================================================
