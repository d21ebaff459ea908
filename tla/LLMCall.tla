------------------------------- MODULE LLMCall -------------------------------
(***************************************************************************)
(* One call of the hosted language model: call_llm with _post_hedged       *)
(* (app/llm.py).  A request that stays open is hedged by one duplicate;    *)
(* attempts that fail are repeated, within a number of attempts and a      *)
(* total budget of time.                                                   *)
(*                                                                         *)
(* The provider and the HTTP client are outside.  A copy of the request    *)
(* ends with one of Outcomes, at any time up to its timeout, or at most    *)
(* Overrun later: the client counts its timeout for each phase of a        *)
(* request and not for the whole, where the comments of the code take      *)
(* Overrun to be 0.  Prompts and texts are left out, and with them         *)
(* max_tokens, which grows between attempts and decides nothing here.      *)
(***************************************************************************)
EXTENDS Integers, FiniteSets

CONSTANTS
    Timeout,   \* timeout of an attempt
    Attempts,  \* attempts, at least one
    Budget,    \* TOTAL_BUDGET_S
    Hedges,    \* the hedge_after of the callers
    MinLeft,   \* no further attempt with less than this (10 s) left
    Floor,     \* the first attempt waits at least this long (5 s)
    Pause,     \* Pause[n] is the sleep after attempt n, 0.6 s * n
    MaxPause,  \* a bound of Pause
    Overrun    \* how much later than its timeout a copy may end

Min2(a, b) == IF a < b THEN a ELSE b
Max2(a, b) == IF a > b THEN a ELSE b

\* The call begins at time 0.
Deadline == Min2(Timeout * Attempts, Budget)

ASSUME LLMCallAssumption ==
    /\ {Timeout, Attempts} \subseteq Nat \ {0}
    /\ {Budget, MinLeft, Floor, MaxPause, Overrun} \subseteq Nat
    /\ Floor <= Budget /\ Floor <= MinLeft
    /\ Hedges \subseteq Int
    /\ Pause \in [1 .. Attempts -> 0 .. MaxPause]

VARIABLES
    now,
    pc,         \* where call_llm stands
    attempt,
    thinking,   \* does the payload still hold the thinking toggle?
    hedgeAfter,
    started,    \* when the attempt was started
    window,     \* the timeout given to the attempt
    copy,       \* the task of each copy, by attempt and order; "none" where
                \* there is none, or it has ended in an earlier attempt
    collected,  \* copies of this attempt whose end has been looked at
    last,       \* what _post_hedged would return now, or has returned
    wake        \* end of the sleep

vars == <<now, pc, attempt, thinking, hedgeAfter, started, window, copy,
          collected, last, wake>>

Copies == (1 .. Attempts) \X {1, 2}

\* 200 with a usable text, without one, or with a body that is not the
\* expected JSON.
Successes == {"text", "empty", "garbage"}

\* 429 and 5xx are "busy", the remaining 4xx "rejected".  A 3xx, or another
\* 2xx, is no answer of this API.
Responses == Successes \cup {"401", "404", "busy", "rejected"}

\* TimeoutException, and any other HTTPError.
Exceptions == {"timeout", "broken"}

Outcomes == Responses \cup Exceptions

Over == {"returned", "llmError", "raised"}

\* The copies of the attempt that have ended and were not looked at.
Ended == {i \in {1, 2} \ collected : copy[<<attempt, i>>] \in Outcomes}

Hedging == 0 < hedgeAfter /\ hedgeAfter < window

HedgeDue ==
    /\ Hedging
    /\ copy[<<attempt, 1>>] = "open"
    /\ copy[<<attempt, 2>>] = "none"
    /\ now = started + hedgeAfter

----------------------------------------------------------------------------
Init ==
    /\ now = 0
    /\ pc = "top"
    /\ attempt = 1
    /\ thinking \in BOOLEAN
    /\ hedgeAfter \in Hedges
    /\ started = 0
    /\ window = 0
    /\ copy = [c \in Copies |-> "none"]
    /\ collected = {}
    /\ last = "none"
    /\ wake = 0

\* Time passes while the call waits for a copy or sleeps.  The event loop
\* is prompt: what is due is done before.
Tick ==
    /\ \/ /\ pc = "waiting"
          /\ Ended = {}
          /\ ~HedgeDue
          /\ now < started + window + Overrun
       \/ /\ pc = "sleeping"
          /\ now < wake
    /\ now' = now + 1
    /\ UNCHANGED <<pc, attempt, thinking, hedgeAfter, started, window, copy,
                   collected, last, wake>>

----------------------------------------------------------------------------
\* The head of the loop.

\* Too little of the total budget is left, or no attempt: LLMError.
GiveUp ==
    /\ pc = "top"
    /\ attempt > Attempts \/ (attempt > 1 /\ Deadline - now < MinLeft)
    /\ pc' = "llmError"
    /\ UNCHANGED <<now, attempt, thinking, hedgeAfter, started, window, copy,
                   collected, last, wake>>

\* The task of the first copy, and what may still run of earlier attempts.
NewAttempt ==
    [c \in Copies |-> IF c = <<attempt, 1>> \/ copy[c] = "open"
                      THEN "open" ELSE "none"]

\* Mutant: the window of an attempt is not cut to what is left.
PostFirstWhole ==
    /\ pc = "top"
    /\ attempt <= Attempts
    /\ attempt = 1 \/ Deadline - now >= MinLeft
    /\ started' = now
    /\ window' = Timeout
    /\ copy' = NewAttempt
    /\ collected' = {}
    /\ last' = "none"
    /\ pc' = "waiting"
    /\ UNCHANGED <<now, attempt, thinking, hedgeAfter, wake>>

\* Mutant: what is left is neither tested nor kept above zero.
PostFirstUntested ==
    /\ pc = "top"
    /\ attempt <= Attempts
    /\ started' = now
    /\ window' = Min2(Timeout, Deadline - now)
    /\ copy' = NewAttempt
    /\ collected' = {}
    /\ last' = "none"
    /\ pc' = "waiting"
    /\ UNCHANGED <<now, attempt, thinking, hedgeAfter, wake>>

\* The attempt begins: the first copy is sent.
PostFirst ==
    /\ pc = "top"
    /\ attempt <= Attempts
    /\ attempt = 1 \/ Deadline - now >= MinLeft
    /\ started' = now
    /\ window' = Min2(Timeout, Max2(Deadline - now, Floor))
    /\ copy' = NewAttempt
    /\ collected' = {}
    /\ last' = "none"
    /\ pc' = "waiting"
    /\ UNCHANGED <<now, attempt, thinking, hedgeAfter, wake>>

\* The first copy is still open after hedge_after: a second one is sent, for
\* the rest of the window.
PostSecond ==
    /\ pc = "waiting"
    /\ HedgeDue
    /\ copy' = [copy EXCEPT ![<<attempt, 2>>] = "open"]
    /\ UNCHANGED <<now, pc, attempt, thinking, hedgeAfter, started, window,
                   collected, last, wake>>

\* The provider answers a copy, the connection breaks, or the time is up.
CopyEnds(i) ==
    /\ pc = "waiting"
    /\ copy[<<attempt, i>>] = "open"
    /\ \E out \in Outcomes :
         /\ out = "timeout" => now >= started + window
         /\ copy' = [copy EXCEPT ![<<attempt, i>>] = out]
    /\ UNCHANGED <<now, pc, attempt, thinking, hedgeAfter, started, window,
                   collected, last, wake>>

----------------------------------------------------------------------------
\* _post_hedged looks at a copy that has ended.

\* Mutant: whichever copy ends first is the result, whatever it brings.
WinsAnyhow(i) == TRUE

\* The first copy without a hedge is the result as it is; of two copies the
\* first success is, or what the last one brings.
Wins(i) ==
    \/ copy[<<attempt, 2>>] = "none"
    \/ copy[<<attempt, i>>] \in Successes

\* A response is preferred to an exception, and a later one to an earlier.
Better(old, new) ==
    IF new \in Exceptions /\ old \in Responses THEN old ELSE new

\* Mutant: the losing copy is left running.
CollectResultOnly(i) ==
    /\ pc = "waiting"
    /\ i \in Ended
    /\ Wins(i)
    /\ last' = copy[<<attempt, i>>]
    /\ collected' = collected \cup {i}
    /\ pc' = "received"
    /\ UNCHANGED <<now, attempt, thinking, hedgeAfter, started, window, copy,
                   wake>>

\* The result is there; the copy that is still open is cancelled.
CollectResult(i) ==
    /\ pc = "waiting"
    /\ i \in Ended
    /\ Wins(i)
    /\ last' = copy[<<attempt, i>>]
    /\ collected' = collected \cup {i}
    /\ copy' = [c \in Copies |->
                  IF copy[c] = "open" THEN "cancelled" ELSE copy[c]]
    /\ pc' = "received"
    /\ UNCHANGED <<now, attempt, thinking, hedgeAfter, started, window, wake>>

\* One of two copies failed: wait for the other, if it is still to come.
CollectFailure(i) ==
    /\ pc = "waiting"
    /\ i \in Ended
    /\ ~Wins(i)
    /\ last' = Better(last, copy[<<attempt, i>>])
    /\ collected' = collected \cup {i}
    /\ pc' = IF collected' = {1, 2} THEN "received" ELSE "waiting"
    /\ UNCHANGED <<now, attempt, thinking, hedgeAfter, started, window, copy,
                   wake>>

----------------------------------------------------------------------------
\* call_llm decides on the result of the attempt.

Last == attempt >= Attempts

End(how) ==
    /\ pc' = how
    /\ UNCHANGED <<now, attempt, thinking, hedgeAfter, started, window, copy,
                   collected, last, wake>>

Return ==
    /\ pc = "received"
    /\ last = "text"
    /\ End("returned")

\* res.json() or the reading of its fields raises, past every handler.
RaiseRaw ==
    /\ pc = "received"
    /\ last = "garbage"
    /\ End("raised")

\* 401, 404; a rejection without the toggle; anything at the last attempt.
Fail ==
    /\ pc = "received"
    /\ \/ last \in {"401", "404"}
       \/ last = "rejected" /\ ~thinking
       \/ last \in {"busy", "empty"} \cup Exceptions /\ Last
    /\ End("llmError")

\* Mutant: a busy provider is asked again at once, and not counted.
BusyAgain ==
    /\ pc = "received"
    /\ last = "busy"
    /\ ~Last
    /\ pc' = "top"
    /\ UNCHANGED <<now, attempt, thinking, hedgeAfter, started, window, copy,
                   collected, last, wake>>

\* The provider is busy: sleep before the next attempt.
Busy ==
    /\ pc = "received"
    /\ last = "busy"
    /\ ~Last
    /\ wake' = now + Pause[attempt]
    /\ pc' = "sleeping"
    /\ UNCHANGED <<now, attempt, thinking, hedgeAfter, started, window, copy,
                   collected, last>>

WakeUp ==
    /\ pc = "sleeping"
    /\ now = wake
    /\ attempt' = attempt + 1
    /\ pc' = "top"
    /\ UNCHANGED <<now, thinking, hedgeAfter, started, window, copy,
                   collected, last, wake>>

\* The provider rejects the thinking toggle, perhaps: drop it.
DropToggle ==
    /\ pc = "received"
    /\ last = "rejected"
    /\ thinking
    /\ thinking' = FALSE
    /\ attempt' = attempt + 1
    /\ pc' = "top"
    /\ UNCHANGED <<now, hedgeAfter, started, window, copy, collected, last,
                   wake>>

Retry ==
    /\ pc = "received"
    /\ last \in {"empty"} \cup Exceptions
    /\ ~Last
    /\ attempt' = attempt + 1
    /\ pc' = "top"
    /\ UNCHANGED <<now, thinking, hedgeAfter, started, window, copy,
                   collected, last, wake>>

\* The call is over.
Idle ==
    /\ pc \in Over
    /\ UNCHANGED vars

Call ==
    \/ GiveUp \/ PostFirst \/ PostSecond
    \/ \E i \in {1, 2} : CollectResult(i) \/ CollectFailure(i)
    \/ Return \/ RaiseRaw \/ Fail \/ Busy \/ WakeUp \/ DropToggle \/ Retry

Provider == \E i \in {1, 2} : CopyEnds(i)

Next == Call \/ Provider \/ Tick \/ Idle

Spec == Init /\ [][Next]_vars

\* The event loop runs the call, time passes, and a copy ends: the client's
\* timeout sees to that.
FairSpec == Spec /\ WF_vars(Call) /\ WF_vars(Provider) /\ WF_vars(Tick)

----------------------------------------------------------------------------
TypeOK ==
    /\ now \in Nat
    /\ pc \in {"top", "waiting", "received", "sleeping"} \cup Over
    /\ attempt \in 1 .. Attempts + 1
    /\ thinking \in BOOLEAN
    /\ hedgeAfter \in Hedges
    /\ started \in Nat
    /\ window \in Nat
    /\ copy \in [Copies -> {"none", "open", "cancelled"} \cup Outcomes]
    /\ collected \subseteq {1, 2}
    /\ last \in {"none"} \cup Outcomes
    /\ wake \in Nat

\* No attempt leaves a copy behind: while the call waits only copies of the
\* current attempt are open, and none is when it sleeps or is over ("at most
\* two copies are ever in flight").
NoneLeftInFlight ==
    \A c \in Copies : copy[c] = "open" => pc = "waiting" /\ c[1] = attempt

\* Attempts, hedges and sleeps together keep the total budget: no attempt
\* ends after the deadline (but for what the client's timeout is late), and
\* the call is over one last sleep later.
EndsInTime ==
    /\ pc \in {"waiting", "received"} => now <= Deadline + Overrun
    /\ now <= Deadline + Overrun + MaxPause

\* A usable answer is never dropped for a failure of its twin: once a copy
\* has brought a text the call returns it, unless the twin is a 200 as well.
NoTextLost ==
    \A n \in 1 .. Attempts, i \in {1, 2} : copy[<<n, i>>] = "text" =>
        \/ copy[<<n, 3 - i>>] \in Successes \ {"text"}
        \/ /\ n = attempt
           /\ \/ pc = "waiting"
              \/ pc = "received" /\ last = "text"
              \/ pc = "returned"

\* Whatever the provider does, the call ends.
CallEnds == <>(pc \in Over)
=============================================================================
