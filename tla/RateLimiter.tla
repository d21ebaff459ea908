----------------------------- MODULE RateLimiter -----------------------------
(***************************************************************************)
(* The sliding-window rate limiter (app/rate_limiter.py) as main.py uses   *)
(* it: every endpoint calls check() with heavy=True or heavy=False, and    *)
(* both kinds are recorded in the one deque of the client's IP.            *)
(*                                                                         *)
(* check() runs on the event loop without an await, so it is one step.     *)
(* reset() and cleanup() are operations of the store that the application  *)
(* does not call.                                                          *)
(***************************************************************************)
EXTENDS Integers, Sequences

CONSTANTS
    Keys,      \* client IPs
    HeavyRpm,  \* requests_per_minute
    LightRpm,  \* requests_per_minute_light
    Window,    \* window_seconds
    MaxTime    \* bound of the clock

\* int(limit * burst_multiplier), with the multiplier 1.5 of the defaults.
BurstLimit(heavy) == ((IF heavy THEN HeavyRpm ELSE LightRpm) * 3) \div 2

ASSUME RateLimiterAssumption ==
    /\ HeavyRpm \in Nat \ {0}
    /\ LightRpm \in Nat \ {0}
    /\ Window \in Nat
    /\ MaxTime \in Nat

VARIABLES
    now,       \* time.monotonic()
    tracked,   \* the keys of SlidingWindowStore._store
    log,       \* the deque of each key; empty when not tracked
    answer,    \* what the last check() answered
    admitted   \* history: every request admitted, since the last reset

vars == <<now, tracked, log, answer, admitted>>

NoAnswer == [kind |-> "none"]

----------------------------------------------------------------------------
\* Mutant: an entry exactly Window old is popped as well.
PoppedAtCutoff(q, cutoff) ==
    CHOOSE n \in 0 .. Len(q) :
        /\ \A i \in 1 .. n : q[i] <= cutoff
        /\ n < Len(q) => q[n + 1] > cutoff

\* How many entries "while q and q[0] < cutoff: q.popleft()" pops.
Popped(q, cutoff) ==
    CHOOSE n \in 0 .. Len(q) :
        /\ \A i \in 1 .. n : q[i] < cutoff
        /\ n < Len(q) => q[n + 1] >= cutoff

\* Mutant: "if" in place of "while".
EvictOne(q, cutoff) ==
    IF q # <<>> /\ q[1] < cutoff THEN Tail(q) ELSE q

Evict(q, cutoff) == SubSeq(q, Popped(q, cutoff) + 1, Len(q))

Init ==
    /\ now = 0
    /\ tracked = {}
    /\ log = [k \in Keys |-> <<>>]
    /\ answer = NoAnswer
    /\ admitted = [k \in Keys |-> <<>>]

Tick ==
    /\ now < MaxTime
    /\ now' = now + 1
    /\ UNCHANGED <<tracked, log, answer, admitted>>

\* The outcome of a check; the X-RateLimit headers are left out.
Outcome(kind, key, heavy) ==
    [kind |-> kind, key |-> key, heavy |-> heavy, at |-> now]

\* Mutant: the request is recorded at the wrong end of the deque.
AdmitLeft(key, heavy) ==
    LET q == Evict(log[key], now - Window) IN
    /\ Len(q) < BurstLimit(heavy)
    /\ log' = [log EXCEPT ![key] = <<now>> \o q]
    /\ tracked' = tracked \cup {key}
    /\ answer' = Outcome("ok", key, heavy)
    /\ admitted' = [admitted EXCEPT
                      ![key] = Append(@, [at |-> now, heavy |-> heavy])]
    /\ UNCHANGED now

\* check(): evict, then admit and record.
Admit(key, heavy) ==
    LET q == Evict(log[key], now - Window) IN
    /\ Len(q) < BurstLimit(heavy)
    /\ log' = [log EXCEPT ![key] = Append(q, now)]
    /\ tracked' = tracked \cup {key}
    /\ answer' = Outcome("ok", key, heavy)
    /\ admitted' = [admitted EXCEPT
                      ![key] = Append(@, [at |-> now, heavy |-> heavy])]
    /\ UNCHANGED now

\* Mutant: the refused request is recorded too.
RefuseRecorded(key, heavy) ==
    LET q == Evict(log[key], now - Window) IN
    /\ Len(q) >= BurstLimit(heavy)
    /\ log' = [log EXCEPT ![key] = Append(q, now)]
    /\ tracked' = tracked \cup {key}
    /\ answer' = Outcome("refused", key, heavy)
    /\ UNCHANGED <<now, admitted>>

\* check(): evict, then answer 429; the refused request is not recorded.
Refuse(key, heavy) ==
    LET q == Evict(log[key], now - Window) IN
    /\ Len(q) >= BurstLimit(heavy)
    /\ log' = [log EXCEPT ![key] = q]
    /\ tracked' = tracked \cup {key}
    /\ answer' = Outcome("refused", key, heavy)
    /\ UNCHANGED <<now, admitted>>

\* reset(): the key starts afresh.
Reset(key) ==
    /\ key \in tracked
    /\ log' = [log EXCEPT ![key] = <<>>]
    /\ admitted' = [admitted EXCEPT ![key] = <<>>]
    /\ answer' = NoAnswer
    /\ UNCHANGED <<now, tracked>>

\* Mutant: cleanup() looks at the oldest entry of a key.
IdleByOldest(key) == log[key] = <<>> \/ log[key][1] < now - Window

\* cleanup(): drop the keys without a recent request.
Idle(key) == log[key] = <<>> \/ log[key][Len(log[key])] < now - Window

Cleanup ==
    /\ tracked' = {k \in tracked : ~Idle(k)}
    /\ log' = [k \in Keys |-> IF k \in tracked' THEN log[k] ELSE <<>>]
    /\ UNCHANGED <<now, answer, admitted>>

Next ==
    \/ Tick
    \/ \E key \in Keys, heavy \in BOOLEAN :
         Admit(key, heavy) \/ Refuse(key, heavy)
    \/ \E key \in Keys : Reset(key)
    \/ Cleanup

Spec == Init /\ [][Next]_vars

----------------------------------------------------------------------------
Admissions == [at : 0 .. MaxTime, heavy : BOOLEAN]

Nondecreasing(s) == \A i, j \in DOMAIN s : i <= j => s[i] <= s[j]

\* The types, and the order of the deque: oldest request first.
TypeOK ==
    /\ now \in 0 .. MaxTime
    /\ tracked \subseteq Keys
    /\ log \in [Keys -> Seq(0 .. MaxTime)]
    /\ \A k \in Keys : Nondecreasing(log[k])
    /\ admitted \in [Keys -> Seq(Admissions)]
    /\ answer \in {NoAnswer} \cup
         [kind : {"ok", "refused"}, key : Keys, heavy : BOOLEAN,
          at : 0 .. MaxTime]

\* The window slides: of the requests of one client, the one that came a full
\* burst limit before an admitted request is more than Window older.  So no
\* window of that length, wherever it starts, lets a client exceed the burst
\* limit of the requests it ends with ("always the last 60 seconds").
WindowBound ==
    \A k \in Keys : \A i \in DOMAIN admitted[k] :
        LET limit == BurstLimit(admitted[k][i].heavy) IN
        i > limit =>
            admitted[k][i - limit].at < admitted[k][i].at - Window

\* A client is refused only when it has used up the limit inside the window
\* that ends at the refusal: one that was quiet for longer is let in, and
\* nobody pays for the requests of another client.
RefusedOnlyAtLimit ==
    answer.kind = "refused" =>
        LET a == admitted[answer.key]
            limit == BurstLimit(answer.heavy) IN
        /\ Len(a) >= limit
        /\ a[Len(a) - limit + 1].at >= answer.at - Window

\* The deque is the recent past and nothing else: the end of the history of
\* admissions, all that it leaves out being older than the window.
LogIsRecent ==
    \A k \in Keys :
        LET a == admitted[k]
            off == Len(a) - Len(log[k]) IN
        /\ off >= 0
        /\ \A i \in 1 .. Len(log[k]) : log[k][i] = a[off + i].at
        /\ \A i \in 1 .. off : a[i].at < now - Window

\* However often a client retries after a 429, its deque stays bounded.
DequeBounded ==
    \A k \in Keys :
        Len(log[k]) <= BurstLimit(TRUE) \/ Len(log[k]) <= BurstLimit(FALSE)
=============================================================================
