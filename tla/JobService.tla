----------------------------- MODULE JobService -----------------------------
(***************************************************************************)
(* What the batch job API promises its client (POST /rank/batch and GET    *)
(* /jobs/{id}), without threads, store or clock.                           *)
(***************************************************************************)
CONSTANT Jobs

VARIABLES
    phase,  \* what has become of each job
    told    \* the last answer given about each job

Final == {"done", "error"}

Init ==
    /\ phase = [j \in Jobs |-> "new"]
    /\ told = [j \in Jobs |-> "nothing"]

\* A submission is accepted, or refused because the queue is full.
Receive(j) ==
    /\ phase[j] = "new"
    /\ \E p \in {"pending", "refused"} : phase' = [phase EXCEPT ![j] = p]
    /\ UNCHANGED told

\* A job ends once, with a result or with an error.
Resolve(j) ==
    /\ phase[j] = "pending"
    /\ \E p \in Final : phase' = [phase EXCEPT ![j] = p]
    /\ UNCHANGED told

\* The answers that may follow what the client knows: a "pending" may be
\* late, but none comes after the end has been told; an end may be announced
\* without its result once, and the next answer carries it; a job that has
\* become unknown stays unknown.
Allowed(j) ==
    {"unknown"} \cup
    (IF told[j] \in {"nothing", "pending"} THEN {"pending"} ELSE {}) \cup
    (IF phase[j] = "done" /\ told[j] \in {"nothing", "pending"}
        THEN {"announced"} ELSE {}) \cup
    (IF phase[j] = "done" /\ told[j] # "unknown" THEN {"result"} ELSE {}) \cup
    (IF phase[j] = "error" /\ told[j] # "unknown" THEN {"error"} ELSE {})

Tell(j) ==
    /\ phase[j] \in {"pending"} \cup Final
    /\ \E a \in Allowed(j) : told' = [told EXCEPT ![j] = a]
    /\ UNCHANGED phase

Next == \E j \in Jobs : Receive(j) \/ Resolve(j) \/ Tell(j)

Spec == Init /\ [][Next]_<<phase, told>>
=============================================================================
