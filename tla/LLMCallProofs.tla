---------------------------- MODULE LLMCallProofs ----------------------------
(***************************************************************************)
(* Proofs about LLMCall for any timeouts, budget, hedge, number of         *)
(* attempts and pauses, and any lateness of the HTTP client.               *)
(***************************************************************************)
EXTENDS LLMCall, TLAPS

\* Where the call stands tells how late it may be.
TimeOK ==
    /\ pc = "top" /\ attempt = 1 => now = 0
    /\ pc = "waiting" =>
         started + window <= Deadline /\ now <= started + window + Overrun
    /\ pc = "received" => now <= Deadline + Overrun
    /\ pc = "sleeping" =>
         now <= wake /\ wake <= Deadline + Overrun + MaxPause
    /\ now <= Deadline + Overrun + MaxPause

\* An attempt has sent its first copy, and the copies it has looked at have
\* ended without success, as long as it waits.
AttemptOK ==
    /\ pc \in {"waiting", "received", "sleeping"} => attempt <= Attempts
    /\ pc = "waiting" =>
         /\ copy[<<attempt, 1>>] # "none"
         /\ \A i \in collected :
              /\ copy[<<attempt, i>>] \in Outcomes \ Successes
              /\ copy[<<attempt, 2>>] # "none"

IInv == TypeOK /\ TimeOK /\ AttemptOK /\ NoneLeftInFlight /\ NoTextLost

----------------------------------------------------------------------------
\* The deadline leaves room for the first attempt.
LEMMA DeadlineFacts ==
    /\ Deadline \in Nat
    /\ Deadline >= Timeout \/ Deadline >= Floor
<1>1. Timeout * Attempts \in Nat /\ Timeout * Attempts >= Timeout
  BY LLMCallAssumption
<1> DEFINE product == Timeout * Attempts
<1>2. product \in Nat /\ product >= Timeout /\ Deadline = Min2(product, Budget)
  BY <1>1 DEF Deadline
<1> HIDE DEF product
<1>3. QED
  BY <1>2, LLMCallAssumption DEF Min2

\* An attempt is given no more time than is left.
LEMMA WindowFits ==
    ASSUME TypeOK, TimeOK, PostFirst
    PROVE  /\ window' \in Nat
           /\ now + window' <= Deadline
<1>1. /\ now \in Nat /\ Deadline \in Nat /\ Timeout \in Nat /\ Floor \in Nat
      /\ MinLeft \in Nat /\ Floor <= MinLeft
  BY DeadlineFacts, LLMCallAssumption DEF TypeOK
<1>2. window' = Min2(Timeout, Max2(Deadline - now, Floor))
  BY DEF PostFirst
<1>3. CASE attempt = 1
  <2>1. now = 0
    BY <1>3 DEF TimeOK, PostFirst
  <2>2. QED
    BY <1>1, <1>2, <2>1, DeadlineFacts DEF Min2, Max2
<1>4. CASE attempt # 1
  <2>1. Deadline - now >= MinLeft
    BY <1>4 DEF PostFirst
  <2>2. QED
    BY <1>1, <1>2, <2>1 DEF Min2, Max2
<1>5. QED
  BY <1>3, <1>4

\* Every variable keeps its type.
LEMMA TypeStep ==
    ASSUME IInv, [Next]_vars
    PROVE  TypeOK'
<1> USE LLMCallAssumption DEF IInv, TypeOK, Copies, Over, Outcomes, Responses,
                              Successes, Exceptions
<1>1. CASE Tick
  BY <1>1 DEF Tick
<1>2. CASE GiveUp
  BY <1>2 DEF GiveUp
<1>3. CASE PostFirst
  <2>1. window' \in Nat
    BY <1>3, WindowFits
  <2>2. copy' \in [Copies -> {"none", "open"}]
    BY <1>3 DEF PostFirst, NewAttempt
  <2>3. QED
    BY <1>3, <2>1, <2>2 DEF PostFirst
<1>4. CASE PostSecond
  BY <1>4 DEF PostSecond
<1>5. ASSUME NEW i \in {1, 2}, CollectResult(i) PROVE TypeOK'
  <2>1. copy[<<attempt, i>>] \in Outcomes
    BY <1>5 DEF CollectResult, Ended
  <2>2. QED
    BY <1>5, <2>1 DEF CollectResult
<1>6. ASSUME NEW i \in {1, 2}, CollectFailure(i) PROVE TypeOK'
  <2>1. copy[<<attempt, i>>] \in Outcomes
    BY <1>6 DEF CollectFailure, Ended
  <2>2. Better(last, copy[<<attempt, i>>]) \in Outcomes
    BY <2>1 DEF Better
  <2>3. QED
    BY <1>6, <2>2 DEF CollectFailure
<1>7. CASE Return \/ RaiseRaw \/ Fail
  BY <1>7 DEF Return, RaiseRaw, Fail, End
<1>8. CASE Busy
  <2>1. attempt \in 1 .. Attempts
    BY <1>8 DEF Busy, Last
  <2>2. Pause[attempt] \in Nat
    BY <2>1
  <2>3. QED
    BY <1>8, <2>2 DEF Busy
<1>9. CASE WakeUp \/ DropToggle \/ Retry
  <2>1. attempt <= Attempts /\ attempt' = attempt + 1
    BY <1>9 DEF WakeUp, DropToggle, Retry, AttemptOK
  <2>2. attempt' \in 1 .. Attempts + 1
    BY <2>1
  <2>3. thinking' \in BOOLEAN
    BY <1>9 DEF WakeUp, DropToggle, Retry
  <2>4. pc' = "top"
    BY <1>9 DEF WakeUp, DropToggle, Retry
  <2>5. UNCHANGED <<now, hedgeAfter, started, window, copy, collected, last,
                    wake>>
    BY <1>9 DEF WakeUp, DropToggle, Retry
  <2>6. QED
    BY <2>2, <2>3, <2>4, <2>5
<1>10. ASSUME NEW i \in {1, 2}, CopyEnds(i) PROVE TypeOK'
  <2>1. PICK out \in Outcomes : copy' = [copy EXCEPT ![<<attempt, i>>] = out]
    BY <1>10 DEF CopyEnds
  <2>2. copy' \in [Copies -> {"none", "open", "cancelled"} \cup Outcomes]
    BY <2>1
  <2>3. QED
    BY <1>10, <2>2 DEF CopyEnds
<1>11. CASE UNCHANGED vars
  BY <1>11 DEF vars
<1>12. QED
  BY <1>1, <1>2, <1>3, <1>4, <1>5, <1>6, <1>7, <1>8, <1>9, <1>10, <1>11
  DEF Next, Call, Provider, Idle

\* Time: an attempt ends within its window, a sleep after its pause.
LEMMA TimeStep ==
    ASSUME IInv, [Next]_vars
    PROVE  TimeOK'
<1> USE LLMCallAssumption, DeadlineFacts DEF IInv, TypeOK, TimeOK, Over
<1>1. CASE Tick
  BY <1>1 DEF Tick
<1>2. CASE GiveUp
  BY <1>2 DEF GiveUp
<1>3. CASE PostFirst
  <2>1. window' \in Nat /\ now + window' <= Deadline
    BY <1>3, WindowFits
  <2>2. /\ UNCHANGED now
        /\ started' = now
        /\ pc' = "waiting"
    BY <1>3 DEF PostFirst
  <2>3. now' <= started' + window' + Overrun
    BY <2>1, <2>2
  <2>4. QED
    BY <2>1, <2>2, <2>3
<1>4. CASE PostSecond
  BY <1>4 DEF PostSecond
<1>5. ASSUME NEW i \in {1, 2}, CollectResult(i) \/ CollectFailure(i)
      PROVE  TimeOK'
  BY <1>5 DEF CollectResult, CollectFailure
<1>6. CASE Return \/ RaiseRaw \/ Fail
  BY <1>6 DEF Return, RaiseRaw, Fail, End
<1>7. CASE Busy
  <2>1. attempt \in 1 .. Attempts
    BY <1>7 DEF Busy, Last
  <2>2. Pause[attempt] \in 0 .. MaxPause
    BY <2>1
  <2>3. QED
    BY <1>7, <2>2 DEF Busy
<1>8. CASE WakeUp \/ DropToggle \/ Retry
  BY <1>8 DEF WakeUp, DropToggle, Retry
<1>9. ASSUME NEW i \in {1, 2}, CopyEnds(i) PROVE TimeOK'
  BY <1>9 DEF CopyEnds
<1>10. CASE UNCHANGED vars
  BY <1>10 DEF vars
<1>11. QED
  BY <1>1, <1>2, <1>3, <1>4, <1>5, <1>6, <1>7, <1>8, <1>9, <1>10
  DEF Next, Call, Provider, Idle

----------------------------------------------------------------------------
CopiesOK == AttemptOK /\ NoneLeftInFlight /\ NoTextLost

\* What is known of the copies through every step.
LEMMA CopiesStep ==
    ASSUME IInv, [Next]_vars
    PROVE  CopiesOK'
<1> USE LLMCallAssumption DEF IInv, TypeOK, CopiesOK, AttemptOK, Copies, Over
<1>1. CASE Tick \/ GiveUp \/ UNCHANGED vars
  <2>1. AttemptOK' /\ NoneLeftInFlight'
    BY <1>1 DEF Tick, GiveUp, vars, NoneLeftInFlight
  <2>2. NoTextLost'
    BY <1>1 DEF Tick, GiveUp, vars, NoTextLost
  <2>3. QED
    BY <2>1, <2>2
<1>2. CASE PostFirst
  <2>1. \A c \in Copies : copy[c] # "open"
    BY <1>2 DEF PostFirst, NoneLeftInFlight
  <2>2. copy' = [c \in Copies |->
                   IF c = <<attempt, 1>> THEN "open" ELSE "none"]
    BY <1>2, <2>1 DEF PostFirst, NewAttempt
  <2>3. AttemptOK' /\ NoneLeftInFlight'
    BY <1>2, <2>2 DEF PostFirst, NoneLeftInFlight
  <2>4. NoTextLost'
    BY <2>2 DEF NoTextLost
  <2>5. QED
    BY <2>3, <2>4
<1>3. CASE PostSecond
  <2>1. AttemptOK' /\ NoneLeftInFlight'
    BY <1>3 DEF PostSecond, HedgeDue, NoneLeftInFlight
  <2>2. NoTextLost'
    BY <1>3 DEF PostSecond, HedgeDue, NoTextLost
  <2>3. QED
    BY <2>1, <2>2
<1>4. ASSUME NEW i \in {1, 2}, CopyEnds(i) PROVE CopiesOK'
  <2> USE DEF Outcomes, Responses, Exceptions, Successes
  <2>1. AttemptOK' /\ NoneLeftInFlight'
    BY <1>4 DEF CopyEnds, NoneLeftInFlight
  <2>2. NoTextLost'
    BY <1>4 DEF CopyEnds, NoTextLost
  <2>3. QED
    BY <2>1, <2>2
<1>5. ASSUME NEW i \in {1, 2}, CollectResult(i) PROVE CopiesOK'
  <2>1. AttemptOK'
    BY <1>5 DEF CollectResult
  <2>2. NoneLeftInFlight'
    BY <1>5 DEF CollectResult, NoneLeftInFlight
  <2>3. NoTextLost'
    <3>1. \A n \in 1 .. Attempts, j \in {1, 2} :
            copy'[<<n, j>>] = IF copy[<<n, j>>] = "open" THEN "cancelled"
                          ELSE copy[<<n, j>>]
      BY <1>5 DEF CollectResult
    <3>2. ASSUME NEW n \in 1 .. Attempts, NEW j \in {1, 2},
                 copy'[<<n, j>>] = "text",
                 copy'[<<n, 3 - j>>] \notin Successes \ {"text"}
          PROVE  n = attempt /\ last' = "text"
      <4>1. 3 - j \in {1, 2} /\ (i = j \/ i = 3 - j)
        OBVIOUS
      <4>2. copy[<<n, j>>] = "text"
        BY <3>1, <3>2
      <4>3. copy[<<n, 3 - j>>] \notin Successes \ {"text"}
        BY <3>1, <3>2, <4>1 DEF Successes
      <4>4. n = attempt
        BY <1>5, <4>3, <4>2 DEF CollectResult, NoTextLost
      <4>5. copy[<<attempt, i>>] = "text"
        <5>1. CASE i = j
          BY <4>4, <4>2, <5>1
        <5>2. CASE i = 3 - j
          <6>1. copy[<<attempt, i>>] \notin Successes \ {"text"}
            BY <4>3, <4>4, <5>2
          <6>2. copy[<<attempt, 2>>] # "none"
            <7>1. copy[<<attempt, i>>] # "none"
              BY <1>5 DEF CollectResult, Ended, Outcomes, Responses,
                          Successes, Exceptions
            <7>2. copy[<<attempt, j>>] # "none"
              BY <4>4, <4>2
            <7>3. i = 2 \/ j = 2
              BY <5>2
            <7>4. QED
              BY <7>1, <7>2, <7>3
          <6>3. QED
            BY <1>5, <6>1, <6>2 DEF CollectResult, Wins
        <5>3. QED
          BY <4>1, <5>1, <5>2
      <4>6. QED
        BY <1>5, <4>4, <4>5 DEF CollectResult
    <3>3. QED
      BY <1>5, <3>2 DEF CollectResult, NoTextLost
  <2>4. QED
    BY <2>1, <2>2, <2>3
<1>6. ASSUME NEW i \in {1, 2}, CollectFailure(i) PROVE CopiesOK'
  <2>1. /\ copy[<<attempt, i>>] \in Outcomes \ Successes
        /\ copy[<<attempt, 2>>] # "none"
    BY <1>6 DEF CollectFailure, Ended, Wins
  <2>2. AttemptOK'
    BY <1>6, <2>1 DEF CollectFailure
  <2>3. \A j \in collected' : copy[<<attempt, j>>] \in Outcomes \ Successes
    BY <1>6, <2>1 DEF CollectFailure
  <2>4. NoneLeftInFlight'
    BY <1>6, <2>3 DEF CollectFailure, NoneLeftInFlight, Outcomes, Responses,
                      Successes, Exceptions
  <2>5. NoTextLost'
    BY <1>6, <2>3 DEF CollectFailure, NoTextLost, Successes
  <2>6. QED
    BY <2>2, <2>4, <2>5
<1>7. CASE Return \/ RaiseRaw \/ Fail \/ Busy \/ WakeUp \/ DropToggle \/ Retry
  <2> USE DEF Return, RaiseRaw, Fail, End, Busy, WakeUp, DropToggle, Retry
  <2>1. AttemptOK' /\ NoneLeftInFlight'
    BY <1>7 DEF NoneLeftInFlight, Last
  <2>2. NoTextLost'
    BY <1>7 DEF NoTextLost, Exceptions
  <2>3. QED
    BY <2>1, <2>2
<1>8. QED
  BY <1>1, <1>2, <1>3, <1>4, <1>5, <1>6, <1>7 DEF Next, Call, Provider, Idle

----------------------------------------------------------------------------
\* The call has not begun.
LEMMA InvInit == Init => IInv
  BY LLMCallAssumption, DeadlineFacts
  DEF Init, IInv, TypeOK, TimeOK, AttemptOK, NoneLeftInFlight, NoTextLost,
      Copies, Over, Outcomes

\* No step breaks the invariant.
LEMMA InvNext == IInv /\ [Next]_vars => IInv'
<1> SUFFICES ASSUME IInv, [Next]_vars PROVE IInv'
  OBVIOUS
<1>1. TypeOK' /\ TimeOK' /\ CopiesOK'
  BY TypeStep, TimeStep, CopiesStep
<1>2. QED
  BY <1>1 DEF IInv, CopiesOK

\* The inductive invariant holds in every reachable state.
THEOREM Invariance == Spec => []IInv
  BY InvInit, InvNext, PTL DEF Spec

\* The local state of a call keeps its types.
THEOREM TypeCorrect == Spec => []TypeOK
<1>1. IInv => TypeOK
  BY DEF IInv
<1>2. QED
  BY <1>1, Invariance, PTL

\* No copy of a request outlives its attempt.
THEOREM NoneLeft == Spec => []NoneLeftInFlight
<1>1. IInv => NoneLeftInFlight
  BY DEF IInv
<1>2. QED
  BY <1>1, Invariance, PTL

\* The total budget is kept, whatever the provider does.
THEOREM BudgetKept == Spec => []EndsInTime
<1>1. IInv => EndsInTime
  BY DeadlineFacts, LLMCallAssumption DEF IInv, TypeOK, TimeOK, EndsInTime
<1>2. QED
  BY <1>1, Invariance, PTL

\* A text that has arrived is returned, if no other 200 has.
THEOREM TextReturned == Spec => []NoTextLost
<1>1. IInv => NoTextLost
  BY DEF IInv
<1>2. QED
  BY <1>1, Invariance, PTL
=============================================================================
