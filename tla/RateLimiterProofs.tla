------------------------- MODULE RateLimiterProofs -------------------------
(***************************************************************************)
(* Proofs about RateLimiter for any number of clients, any limits and any  *)
(* window.                                                                 *)
(***************************************************************************)
EXTENDS RateLimiter, SequenceTheorems, WellFoundedInduction, TLAPS

\* A burst limit lets at least one request in.
LEMMA BurstNat ==
    ASSUME NEW h \in BOOLEAN
    PROVE  BurstLimit(h) \in Nat \ {0}
<1>1. HeavyRpm \in Nat \ {0} /\ LightRpm \in Nat \ {0}
  BY RateLimiterAssumption
<1>2. \A n \in Nat \ {0} : (n * 3) \div 2 \in Nat \ {0}
  OBVIOUS
<1>3. QED
  BY <1>1, <1>2 DEF BurstLimit

\* A set of naturals that is not empty has a least member.
LEMMA LeastNatural ==
    ASSUME NEW T \in SUBSET Nat, T # {}
    PROVE  \E x \in T : \A y \in T : x <= y
<1>1. PICK x \in T : \A y \in T : ~(<<y, x>> \in OpToRel(<, Nat))
  BY NatLessThanWellFounded, WFMin
<1>2. \A y \in T : ~(y < x)
  BY <1>1 DEF OpToRel
<1>3. QED
  BY <1>2

\* The eviction loop stops at the first entry that is recent enough.
LEMMA PoppedExists ==
    ASSUME NEW q \in Seq(Nat), NEW c \in Int
    PROVE  /\ Popped(q, c) \in 0 .. Len(q)
           /\ \A i \in 1 .. Popped(q, c) : q[i] < c
           /\ Popped(q, c) < Len(q) => q[Popped(q, c) + 1] >= c
<1> DEFINE Stops(n) == /\ \A i \in 1 .. n : q[i] < c
                       /\ n < Len(q) => q[n + 1] >= c
           Recent == {i \in 1 .. Len(q) : q[i] >= c}
<1>1. \E n \in 0 .. Len(q) : Stops(n)
  <2>1. CASE Recent = {}
    <3>1. \A i \in 1 .. Len(q) : q[i] < c
      BY <2>1
    <3>2. Len(q) \in 0 .. Len(q) /\ Stops(Len(q))
      BY <3>1
    <3>3. QED
      BY <3>2
  <2>2. CASE Recent # {}
    <3>0. Recent \in SUBSET Nat
      OBVIOUS
    <3>1. PICK m \in Recent : \A y \in Recent : m <= y
      <4> HIDE DEF Recent
      <4>1. QED BY <2>2, <3>0, LeastNatural
    <3>2. m - 1 \in 0 .. Len(q)
      BY <3>1
    <3>3. Stops(m - 1)
      BY <3>1
    <3>4. QED
      BY <3>2, <3>3
  <2>3. QED
    BY <2>1, <2>2
<1>2. QED
  BY <1>1 DEF Popped

\* What is left after the eviction is the end of the deque.
LEMMA EvictFacts ==
    ASSUME NEW q \in Seq(Nat), NEW c \in Int
    PROVE  /\ Evict(q, c) \in Seq(Nat)
           /\ Len(q) - Len(Evict(q, c)) \in Nat
           /\ \A i \in 1 .. Len(q) - Len(Evict(q, c)) : q[i] < c
           /\ \A i \in 1 .. Len(Evict(q, c)) :
                Evict(q, c)[i] = q[Len(q) - Len(Evict(q, c)) + i]
           /\ Len(Evict(q, c)) > 0 => Evict(q, c)[1] >= c
<1> DEFINE p == Popped(q, c)
           e == Evict(q, c)
<1>1. /\ p \in 0 .. Len(q)
      /\ \A i \in 1 .. p : q[i] < c
      /\ p < Len(q) => q[p + 1] >= c
  BY PoppedExists
<1> HIDE DEF p
<1>2. e = SubSeq(q, p + 1, Len(q))
  BY DEF Evict, p
<1>3. \A i \in p + 1 .. Len(q) : q[i] \in Nat
  BY <1>1
<1>4. /\ e \in Seq(Nat)
      /\ Len(e) = IF p + 1 <= Len(q) THEN Len(q) - (p + 1) + 1 ELSE 0
      /\ \A i \in 1 .. Len(q) - (p + 1) + 1 : e[i] = q[p + 1 + i - 1]
  <2>1. p + 1 \in Int /\ Len(q) \in Int
    BY <1>1
  <2>2. QED
    BY <1>2, <1>3, <2>1, SubSeqProperties
<1> HIDE DEF e
<1>5. Len(e) = Len(q) - p /\ Len(q) - Len(e) = p
  BY <1>1, <1>4
<1>6. \A i \in 1 .. Len(e) : e[i] = q[p + i]
  BY <1>1, <1>4, <1>5
<1>7. Len(e) > 0 => e[1] >= c
  BY <1>1, <1>5, <1>6
<1>8. /\ e \in Seq(Nat)
      /\ Len(q) - Len(e) \in Nat
      /\ \A i \in 1 .. Len(q) - Len(e) : q[i] < c
      /\ \A i \in 1 .. Len(e) : e[i] = q[Len(q) - Len(e) + i]
      /\ Len(e) > 0 => e[1] >= c
  <2>1. Len(q) - Len(e) \in Nat
    BY <1>1, <1>5
  <2>2. QED
    BY <1>1, <1>4, <1>5, <1>6, <1>7, <2>1, Zenon
<1>9. QED
  BY <1>8 DEF e

----------------------------------------------------------------------------
Max2(a, b) == IF a > b THEN a ELSE b

\* The larger of two limits bounds both.
LEMMA Max2Bounds ==
    ASSUME NEW a \in Nat, NEW b \in Nat
    PROVE  Max2(a, b) \in Nat /\ a <= Max2(a, b) /\ b <= Max2(a, b)
BY DEF Max2

\* The history of a client is in the order of time.
HistoryOK(k) ==
    /\ admitted[k] \in Seq(Admissions)
    /\ \A i, j \in 1 .. Len(admitted[k]) :
         i <= j => admitted[k][i].at <= admitted[k][j].at
    /\ \A i \in 1 .. Len(admitted[k]) : admitted[k][i].at <= now

\* Its deque is the recent end of that history.
LogOK(k) ==
    /\ log[k] \in Seq(Nat)
    /\ Len(log[k]) <= Max2(BurstLimit(TRUE), BurstLimit(FALSE))
    /\ Len(log[k]) <= Len(admitted[k])
    /\ \A i \in 1 .. Len(log[k]) :
         log[k][i] = admitted[k][Len(admitted[k]) - Len(log[k]) + i].at
    /\ \A i \in 1 .. Len(admitted[k]) - Len(log[k]) :
         admitted[k][i].at < now - Window

WindowOK(k) ==
    \A i \in 1 .. Len(admitted[k]) :
        i > BurstLimit(admitted[k][i].heavy) =>
            admitted[k][i - BurstLimit(admitted[k][i].heavy)].at
                < admitted[k][i].at - Window

KeyOK(k) == HistoryOK(k) /\ LogOK(k) /\ WindowOK(k)

AnswerOK ==
    answer.kind = "refused" =>
        /\ Len(admitted[answer.key]) >= BurstLimit(answer.heavy)
        /\ admitted[answer.key][Len(admitted[answer.key])
                                  - BurstLimit(answer.heavy) + 1].at
             >= answer.at - Window

Scalars ==
    /\ now \in 0 .. MaxTime
    /\ tracked \subseteq Keys
    /\ DOMAIN log = Keys /\ log = [k \in Keys |-> log[k]]
    /\ DOMAIN admitted = Keys /\ admitted = [k \in Keys |-> admitted[k]]
    /\ answer \in {NoAnswer} \cup
         [kind : {"ok", "refused"}, key : Keys, heavy : BOOLEAN,
          at : 0 .. MaxTime]

UntrackedEmpty == \A k \in Keys \ tracked : log[k] = <<>>

IInv ==
    Scalars /\ AnswerOK /\ UntrackedEmpty /\ \A k \in Keys : KeyOK(k)

\* After the eviction the deque holds exactly the requests of the window.
LEMMA EvictedLog ==
    ASSUME NEW k \in Keys, now \in Nat, HistoryOK(k), LogOK(k),
           NEW q, q = Evict(log[k], now - Window)
    PROVE  /\ q \in Seq(Nat)
           /\ Len(q) <= Len(log[k])
           /\ Len(q) <= Len(admitted[k])
           /\ \A i \in 1 .. Len(q) :
                q[i] = admitted[k][Len(admitted[k]) - Len(q) + i].at
           /\ \A i \in 1 .. Len(admitted[k]) - Len(q) :
                admitted[k][i].at < now - Window
           /\ \A i \in Len(admitted[k]) - Len(q) + 1 .. Len(admitted[k]) :
                admitted[k][i].at >= now - Window
<1> DEFINE c == now - Window
           a == admitted[k]
           A == Len(a)
           L == Len(log[k])
           Q == Len(q)
           n == L - Q
<1>1. /\ c \in Int /\ log[k] \in Seq(Nat)
      /\ a \in Seq(Admissions)
  BY RateLimiterAssumption DEF LogOK, HistoryOK
<1>2. /\ q \in Seq(Nat)
      /\ n \in Nat
      /\ \A i \in 1 .. n : log[k][i] < c
      /\ \A i \in 1 .. Q : q[i] = log[k][n + i]
      /\ Q > 0 => q[1] >= c
  <2> HIDE DEF c
  <2>1. q = Evict(log[k], c)
    BY DEF c
  <2>2. QED
    BY <1>1, <2>1, EvictFacts
<1>3. /\ Q \in Nat /\ L \in Nat /\ A \in Nat
      /\ Q <= L /\ L <= A
      /\ n = L - Q
  BY <1>1, <1>2, LenProperties DEF LogOK
<1>4. /\ \A i \in 1 .. L : log[k][i] = a[A - L + i].at
      /\ \A i \in 1 .. A - L : a[i].at < c
      /\ \A i, j \in 1 .. A : i <= j => a[i].at <= a[j].at
      /\ \A i \in 1 .. A : a[i].at \in Int
  <2>1. \A i \in 1 .. A : a[i] \in Admissions
    BY <1>1, ElementOfSeq
  <2>2. \A x \in Admissions : x.at \in Int
    BY DEF Admissions
  <2>3. \A i \in 1 .. A : a[i].at \in Int
    <3> HIDE DEF a, A
    <3>1. QED BY <2>1, <2>2
  <2>4. QED
    BY <2>3 DEF LogOK, HistoryOK
<1> HIDE DEF c, a, A, L, Q, n
<1>5. \A i \in 1 .. Q : q[i] = a[A - Q + i].at
  <2>1. SUFFICES ASSUME NEW i \in 1 .. Q PROVE q[i] = a[A - Q + i].at
    OBVIOUS
  <2>2. n + i \in 1 .. L /\ A - L + (n + i) = A - Q + i
    BY <1>3
  <2>3. log[k][n + i] = a[A - L + (n + i)].at
    BY <1>4, <2>2
  <2>4. QED
    BY <1>2, <2>2, <2>3
<1>6. \A i \in 1 .. A - Q : a[i].at < c
  <2>1. SUFFICES ASSUME NEW i \in 1 .. A - Q PROVE a[i].at < c
    OBVIOUS
  <2>2. CASE i <= A - L
    <3>1. i \in 1 .. A - L
      BY <1>3, <2>2
    <3>2. QED
      BY <1>4, <3>1
  <2>3. CASE i > A - L
    <3>1. /\ i - (A - L) \in 1 .. n /\ i - (A - L) \in 1 .. L
          /\ A - L + (i - (A - L)) = i
      BY <1>3, <2>3
    <3>2. log[k][i - (A - L)] = a[A - L + (i - (A - L))].at
      BY <1>4, <3>1
    <3>3. QED
      BY <1>2, <3>1, <3>2
  <2>4. QED
    BY <1>3, <2>2, <2>3
<1>7. \A i \in A - Q + 1 .. A : a[i].at >= c
  <2>1. SUFFICES ASSUME NEW i \in A - Q + 1 .. A PROVE a[i].at >= c
    OBVIOUS
  <2>2. /\ Q > 0 /\ 1 \in 1 .. Q /\ i \in 1 .. A /\ A - Q + 1 \in 1 .. A
        /\ A - Q + 1 <= i
    BY <1>3
  <2>3. a[A - Q + 1].at >= c
    BY <1>2, <1>5, <2>2
  <2>4. a[A - Q + 1].at <= a[i].at
    BY <1>4, <2>2
  <2>5. a[i].at \in Int /\ a[A - Q + 1].at \in Int
    BY <1>4, <2>2
  <2>6. QED
    BY <1>1, <2>3, <2>4, <2>5 DEF c
<1>8. Q <= A
  BY <1>3
<1>9. QED
  BY <1>2, <1>3, <1>5, <1>6, <1>7, <1>8 DEF c, a, A, L, Q

\* An admitted time is an integer no later than the clock.
LEMMA HistoryTimes ==
    ASSUME NEW k \in Keys, HistoryOK(k)
    PROVE  /\ Len(admitted[k]) \in Nat
           /\ \A i \in 1 .. Len(admitted[k]) : admitted[k][i] \in Admissions
           /\ \A i \in 1 .. Len(admitted[k]) :
                /\ admitted[k][i].at \in Int
                /\ admitted[k][i].heavy \in BOOLEAN
<1>1. /\ Len(admitted[k]) \in Nat
      /\ \A i \in 1 .. Len(admitted[k]) : admitted[k][i] \in Admissions
  BY LenProperties, ElementOfSeq DEF HistoryOK
<1>2. \A x \in Admissions : x.at \in Int /\ x.heavy \in BOOLEAN
  BY DEF Admissions
<1>3. QED
  BY <1>1, <1>2

\* A key that a step does not touch stays in order while time passes.
LEMMA KeyFrame ==
    ASSUME NEW k \in Keys, KeyOK(k), now \in Nat, now' \in Nat, now <= now',
           UNCHANGED <<log[k], admitted[k]>>
    PROVE  KeyOK(k)'
<1> DEFINE a == admitted[k]
<1>1. \A i \in 1 .. Len(a) : a[i].at \in Int
  BY HistoryTimes DEF KeyOK
<1>2. HistoryOK(k)'
  BY <1>1 DEF KeyOK, HistoryOK
<1>3. Len(a) \in Nat /\ Len(log[k]) \in Nat
  BY LenProperties DEF KeyOK, HistoryOK, LogOK
<1>4. \A i \in 1 .. Len(a) - Len(log[k]) : a[i].at < now' - Window
  <2>1. SUFFICES ASSUME NEW i \in 1 .. Len(a) - Len(log[k])
                 PROVE  a[i].at < now' - Window
    OBVIOUS
  <2>2. a[i].at < now - Window /\ i \in 1 .. Len(a)
    BY <1>3 DEF KeyOK, LogOK
  <2>3. a[i].at \in Int /\ Window \in Nat
    BY <1>1, <2>2, RateLimiterAssumption
  <2>4. QED
    BY <2>2, <2>3
<1>5. LogOK(k)'
  BY <1>4 DEF KeyOK, LogOK
<1>6. WindowOK(k)'
  BY DEF KeyOK, WindowOK
<1>7. QED
  BY <1>2, <1>5, <1>6 DEF KeyOK

\* An admitted request joins the history and the deque of its client, and the
\* window before it holds fewer requests than its limit.
LEMMA AdmitKeepsKey ==
    ASSUME IInv, NEW key \in Keys, NEW heavy \in BOOLEAN, Admit(key, heavy)
    PROVE  KeyOK(key)'
<1> DEFINE q == Evict(log[key], now - Window)
           a == admitted[key]
           A == Len(a)
           Q == Len(q)
           e == [at |-> now, heavy |-> heavy]
           limit == BurstLimit(heavy)
<1>1. HistoryOK(key) /\ LogOK(key) /\ WindowOK(key) /\ now \in Nat
      /\ now \in 0 .. MaxTime
  BY RateLimiterAssumption DEF IInv, KeyOK, Scalars
<1>2. /\ q \in Seq(Nat) /\ Q <= A
      /\ \A i \in 1 .. Q : q[i] = a[A - Q + i].at
      /\ \A i \in 1 .. A - Q : a[i].at < now - Window
  BY <1>1, EvictedLog
<1>3. /\ Q < limit
      /\ log'[key] = Append(q, now)
      /\ admitted'[key] = Append(a, e)
      /\ now' = now
  BY DEF Admit, IInv, Scalars
<1>4. /\ A \in Nat /\ Q \in Nat /\ limit \in Nat \ {0}
      /\ \A i \in 1 .. A : a[i].at \in Int /\ a[i].heavy \in BOOLEAN
      /\ a \in Seq(Admissions) /\ e \in Admissions
      /\ e.at = now /\ e.heavy = heavy
  BY <1>1, <1>2, LenProperties, HistoryTimes, BurstNat
  DEF Admissions, HistoryOK
<1>5. /\ \A i \in 1 .. A : a[i].at <= now
      /\ \A i, j \in 1 .. A : i <= j => a[i].at <= a[j].at
      /\ \A i \in 1 .. A : i > BurstLimit(a[i].heavy) =>
            a[i - BurstLimit(a[i].heavy)].at < a[i].at - Window
  BY <1>1 DEF HistoryOK, WindowOK
<1> HIDE DEF q, e, a, limit
<1> DEFINE b == admitted'[key]
           l == log'[key]
<1>6. /\ b \in Seq(Admissions) /\ Len(b) = A + 1
      /\ \A i \in 1 .. A : b[i] = a[i]
      /\ b[A + 1] = e
  BY <1>3, <1>4, AppendProperties
<1>7. /\ l \in Seq(Nat) /\ Len(l) = Q + 1
      /\ \A i \in 1 .. Q : l[i] = q[i]
      /\ l[Q + 1] = now
  BY <1>1, <1>2, <1>3, AppendProperties
<1> HIDE DEF b, l, A, Q
<1>8. HistoryOK(key)'
  <2>1. \A i \in 1 .. A + 1 : b[i].at <= now
    BY <1>1, <1>4, <1>5, <1>6
  <2>2. \A i, j \in 1 .. A + 1 : i <= j => b[i].at <= b[j].at
    BY <1>1, <1>4, <1>5, <1>6, <2>1
  <2>3. QED
    BY <1>3, <1>6, <2>1, <2>2 DEF HistoryOK, b
<1>9. LogOK(key)'
  <2>1. Q + 1 <= Max2(BurstLimit(TRUE), BurstLimit(FALSE))
    <3>1. BurstLimit(TRUE) \in Nat /\ BurstLimit(FALSE) \in Nat
      BY BurstNat
    <3>2. limit = BurstLimit(TRUE) \/ limit = BurstLimit(FALSE)
      BY DEF limit
    <3>3. limit <= Max2(BurstLimit(TRUE), BurstLimit(FALSE))
      BY <3>1, <3>2, Max2Bounds
    <3>4. Max2(BurstLimit(TRUE), BurstLimit(FALSE)) \in Nat
      BY <3>1, Max2Bounds
    <3>5. Q + 1 <= limit /\ Q \in Nat /\ limit \in Nat
      BY <1>3, <1>4 DEF Q
    <3> HIDE DEF limit
    <3>6. \A x, y, z \in Nat : x + 1 <= y /\ y <= z => x + 1 <= z
      OBVIOUS
    <3>7. QED
      BY <3>3, <3>4, <3>5, <3>6
  <2>2. \A i \in 1 .. Q + 1 : l[i] = b[(A + 1) - (Q + 1) + i].at
    <3>1. SUFFICES ASSUME NEW i \in 1 .. Q + 1
                   PROVE  l[i] = b[(A + 1) - (Q + 1) + i].at
      OBVIOUS
    <3>2. CASE i = Q + 1
      <4>1. (A + 1) - (Q + 1) + i = A + 1
        BY <1>4, <3>2
      <4>2. QED
        BY <1>4, <1>6, <1>7, <3>2, <4>1
    <3>3. CASE i \in 1 .. Q
      <4>1. /\ (A + 1) - (Q + 1) + i = A - Q + i
            /\ A - Q + i \in 1 .. A
        BY <1>2, <1>4, <3>3 DEF A, Q
      <4>2. QED
        BY <1>2, <1>6, <1>7, <3>3, <4>1 DEF A, Q
    <3>4. QED
      BY <1>4, <3>2, <3>3
  <2>3. \A i \in 1 .. (A + 1) - (Q + 1) : b[i].at < now - Window
    <3>1. \A i \in 1 .. (A + 1) - (Q + 1) : i \in 1 .. A - Q /\ i \in 1 .. A
      BY <1>4
    <3>2. QED
      BY <1>2, <1>6, <3>1 DEF A, Q
  <2>4. Q + 1 <= A + 1
    BY <1>2, <1>4 DEF A, Q
  <2>5. QED
    BY <1>3, <1>6, <1>7, <2>1, <2>2, <2>3, <2>4 DEF LogOK, b, l
<1>10. WindowOK(key)'
  <2>1. ASSUME NEW i \in 1 .. A + 1, i > BurstLimit(b[i].heavy)
        PROVE  b[i - BurstLimit(b[i].heavy)].at < b[i].at - Window
    <3>1. CASE i \in 1 .. A
      <4>1. b[i] = a[i] /\ BurstLimit(a[i].heavy) \in Nat \ {0}
        BY <1>4, <1>6, <3>1, BurstNat
      <4>2. i - BurstLimit(a[i].heavy) \in 1 .. A
        BY <1>4, <2>1, <3>1, <4>1
      <4>3. QED
        BY <1>5, <1>6, <2>1, <3>1, <4>1, <4>2
    <3>2. CASE i = A + 1
      <4>1. b[i] = e /\ BurstLimit(b[i].heavy) = limit
        BY <1>4, <1>6, <3>2 DEF limit
      <4>2. i - limit \in 1 .. A - Q /\ i - limit \in 1 .. A
        BY <1>3, <1>4, <2>1, <3>2, <4>1 DEF Q
      <4>3. QED
        BY <1>2, <1>4, <1>6, <4>1, <4>2 DEF A, Q
    <3>3. QED
      BY <1>4, <3>1, <3>2
  <2>2. QED
    BY <1>6, <2>1 DEF WindowOK, b
<1>11. QED
  BY <1>8, <1>9, <1>10 DEF KeyOK

\* A refusal only drops what is too old, and the client that is refused has
\* indeed used up the limit inside the window.
LEMMA RefuseKeepsKey ==
    ASSUME IInv, NEW key \in Keys, NEW heavy \in BOOLEAN, Refuse(key, heavy)
    PROVE  KeyOK(key)' /\ AnswerOK'
<1> DEFINE q == Evict(log[key], now - Window)
           a == admitted[key]
           A == Len(a)
           Q == Len(q)
           limit == BurstLimit(heavy)
<1>1. HistoryOK(key) /\ LogOK(key) /\ WindowOK(key) /\ now \in Nat
      /\ Window \in Nat
  BY RateLimiterAssumption DEF IInv, KeyOK, Scalars
<1>2. /\ q \in Seq(Nat) /\ Q <= Len(log[key]) /\ Q <= A
      /\ \A i \in 1 .. Q : q[i] = a[A - Q + i].at
      /\ \A i \in 1 .. A - Q : a[i].at < now - Window
      /\ \A i \in A - Q + 1 .. A : a[i].at >= now - Window
  BY <1>1, EvictedLog
<1>3. /\ Q >= limit
      /\ log'[key] = q
      /\ admitted' = admitted /\ now' = now
      /\ answer' = [kind |-> "refused", key |-> key, heavy |-> heavy,
                    at |-> now]
  BY DEF Refuse, Outcome, IInv, Scalars
<1>4. /\ A \in Nat /\ Q \in Nat /\ limit \in Nat \ {0}
      /\ Len(log[key]) \in Nat
  BY <1>1, <1>2, LenProperties, BurstNat DEF HistoryOK, LogOK
<1>5. HistoryOK(key)' /\ WindowOK(key)'
  BY <1>1, <1>3 DEF HistoryOK, WindowOK
<1>6. LogOK(key)'
  <2>1. Max2(BurstLimit(TRUE), BurstLimit(FALSE)) \in Nat
    BY BurstNat, Max2Bounds
  <2>2. Len(log[key]) <= Max2(BurstLimit(TRUE), BurstLimit(FALSE))
    BY <1>1 DEF LogOK
  <2>3. Q <= Max2(BurstLimit(TRUE), BurstLimit(FALSE))
    <3>1. \A x, y, z \in Nat : x <= y /\ y <= z => x <= z
      OBVIOUS
    <3>2. QED
      BY <1>2, <1>4, <2>1, <2>2, <3>1
  <2>4. QED
    BY <1>2, <1>3, <2>3 DEF LogOK
<1> HIDE DEF q, a, A, Q, limit
<1>7. A >= limit /\ a[A - limit + 1].at >= now - Window
  <2>1. A - limit + 1 \in A - Q + 1 .. A
    BY <1>2, <1>3, <1>4
  <2>2. \A i \in A - Q + 1 .. A : a[i].at >= now - Window
    BY <1>2 DEF a, A, Q
  <2>3. A >= limit
    BY <1>2, <1>3, <1>4 DEF A, Q
  <2>4. QED
    BY <2>1, <2>2, <2>3
<1>8. AnswerOK'
  BY <1>3, <1>7 DEF AnswerOK, a, A, limit
<1>9. QED
  BY <1>5, <1>6, <1>8 DEF KeyOK

\* An empty deque is right when the whole history is too old.
LEMMA EmptyLog ==
    ASSUME NEW k \in Keys, log'[k] = <<>>, Len(admitted'[k]) \in Nat,
           \A i \in 1 .. Len(admitted'[k]) :
             admitted'[k][i].at < now' - Window
    PROVE  LogOK(k)'
<1> DEFINE l == log'[k]
           n == Len(admitted'[k])
<1>1. l \in Seq(Nat) /\ Len(l) = 0
  BY EmptySeq
<1>2. Max2(BurstLimit(TRUE), BurstLimit(FALSE)) \in Nat
  BY BurstNat, Max2Bounds
<1> HIDE DEF l, n
<1>3. n \in Nat /\ n - Len(l) = n
  BY <1>1 DEF n
<1>4. \A i \in 1 .. n - Len(l) : admitted'[k][i].at < now' - Window
  BY <1>3 DEF n
<1>5. \A i \in 1 .. Len(l) :
        l[i] = admitted'[k][n - Len(l) + i].at
  BY <1>1
<1>6. Len(l) <= Max2(BurstLimit(TRUE), BurstLimit(FALSE)) /\ Len(l) <= n
  <2>1. \A x \in Nat : 0 <= x
    OBVIOUS
  <2>2. QED
    BY <1>1, <1>2, <1>3, <2>1
<1>7. QED
  BY <1>1, <1>4, <1>5, <1>6 DEF LogOK, l, n

\* A key that is reset starts with an empty deque and an empty history.
LEMMA ResetKeepsKey ==
    ASSUME IInv, NEW key \in Keys, Reset(key)
    PROVE  KeyOK(key)'
<1>1. log'[key] = <<>> /\ admitted'[key] = <<>> /\ now' = now
  BY DEF Reset, IInv, Scalars
<1>2. /\ <<>> \in Seq(Admissions) /\ <<>> \in Seq(Nat)
      /\ Len(<<>>) = 0
  BY EmptySeq
<1>4. HistoryOK(key)' /\ WindowOK(key)'
  BY <1>1, <1>2 DEF HistoryOK, WindowOK
<1>5. LogOK(key)'
  BY <1>1, <1>2, EmptyLog
<1>6. QED
  BY <1>4, <1>5 DEF KeyOK

\* cleanup() only forgets requests that no window reaches any more: the last
\* entry of a sorted deque being too old, all of them are.
LEMMA CleanupKeepsKey ==
    ASSUME IInv, NEW k \in Keys, Cleanup
    PROVE  KeyOK(k)'
<1> DEFINE a == admitted[k]
           A == Len(a)
           L == Len(log[k])
<1>1. /\ KeyOK(k) /\ now \in Nat /\ now' = now /\ Window \in Nat
      /\ admitted'[k] = admitted[k]
      /\ log'[k] = IF k \in tracked' THEN log[k] ELSE <<>>
  BY RateLimiterAssumption DEF Cleanup, IInv, Scalars
<1>2. CASE log'[k] = log[k]
  BY <1>1, <1>2, KeyFrame
<1>3. CASE log'[k] = <<>> /\ log[k] # <<>>
  <2>1. Idle(k)
    BY <1>1, <1>3 DEF Cleanup, IInv, UntrackedEmpty
  <2>2. log[k][L] < now - Window
    BY <1>3, <2>1 DEF Idle
  <2>3. /\ A \in Nat /\ L \in Nat /\ L > 0 /\ L <= A
        /\ log[k][L] = a[A - L + L].at
        /\ \A i \in 1 .. A : a[i].at \in Int
        /\ \A i, j \in 1 .. A : i <= j => a[i].at <= a[j].at
    <3>1. /\ A \in Nat /\ L \in Nat /\ L > 0
      BY <1>1, <1>3, LenProperties, EmptySeq DEF KeyOK, HistoryOK, LogOK
    <3>2. L \in 1 .. L
      BY <3>1
    <3>3. QED
      BY <1>1, <3>1, <3>2, HistoryTimes DEF KeyOK, HistoryOK, LogOK
  <2> HIDE DEF a, A, L
  <2>4. A - L + L = A
    BY <2>3
  <2>5. \A i \in 1 .. A : a[i].at < now - Window
    <3>1. SUFFICES ASSUME NEW i \in 1 .. A PROVE a[i].at < now - Window
      OBVIOUS
    <3>2. A \in 1 .. A /\ i <= A
      BY <2>3
    <3>3. a[i].at <= a[A].at /\ a[i].at \in Int /\ a[A].at \in Int
      BY <2>3, <3>2
    <3>4. a[A].at < now - Window
      BY <2>2, <2>3, <2>4
    <3>5. QED
      BY <1>1, <3>3, <3>4
  <2>8. LogOK(k)'
    BY <1>1, <1>3, <2>3, <2>5, EmptyLog DEF a, A
  <2>9. HistoryOK(k)' /\ WindowOK(k)'
    BY <1>1 DEF KeyOK, HistoryOK, WindowOK
  <2>10. QED
    BY <2>8, <2>9 DEF KeyOK
<1>4. QED
  BY <1>1, <1>2, <1>3

----------------------------------------------------------------------------
\* Initially nobody has asked for anything.
LEMMA InitIInv == Init => IInv
<1> SUFFICES ASSUME Init PROVE IInv
  OBVIOUS
<1>1. Scalars
  BY RateLimiterAssumption DEF Init, Scalars
<1>2. AnswerOK /\ UntrackedEmpty
  BY DEF Init, AnswerOK, UntrackedEmpty, NoAnswer
<1>3. ASSUME NEW k \in Keys PROVE KeyOK(k)
  <2>1. log[k] = <<>> /\ admitted[k] = <<>>
    BY DEF Init
  <2>2. <<>> \in Seq(Nat) /\ <<>> \in Seq(Admissions) /\ Len(<<>>) = 0
    BY EmptySeq
  <2>3. HistoryOK(k) /\ WindowOK(k)
    BY <2>1, <2>2 DEF HistoryOK, WindowOK
  <2>4. Len(log[k]) <= Max2(BurstLimit(TRUE), BurstLimit(FALSE))
    <3>1. Max2(BurstLimit(TRUE), BurstLimit(FALSE)) \in Nat
      BY BurstNat, Max2Bounds
    <3>2. \A x \in Nat : 0 <= x
      OBVIOUS
    <3>3. QED
      BY <2>1, <2>2, <3>1, <3>2
  <2>5. LogOK(k)
    <3>1. \A i \in 1 .. 0 - 0 : FALSE
      OBVIOUS
    <3>2. \A i \in 1 .. 0 : FALSE
      OBVIOUS
    <3>3. Len(log[k]) = 0 /\ Len(admitted[k]) = 0 /\ log[k] \in Seq(Nat)
      BY <2>1, <2>2
    <3>4. Len(log[k]) <= Len(admitted[k])
      BY <3>3
    <3>5. \A i \in 1 .. Len(log[k]) : FALSE
      BY <3>2, <3>3
    <3>6. \A i \in 1 .. Len(admitted[k]) - Len(log[k]) : FALSE
      BY <3>1, <3>3
    <3>7. QED
      BY <2>4, <3>3, <3>4, <3>5, <3>6, Zenon DEF LogOK
  <2>6. QED
    BY <2>3, <2>5 DEF KeyOK
<1>4. QED
  BY <1>1, <1>2, <1>3 DEF IInv

\* Every operation keeps the shape of the scalars and of the store.
LEMMA StepScalars == IInv /\ [Next]_vars => Scalars' /\ UntrackedEmpty'
<1> SUFFICES ASSUME IInv, [Next]_vars PROVE Scalars' /\ UntrackedEmpty'
  OBVIOUS
<1> USE DEF IInv, Scalars, UntrackedEmpty
<1>1. CASE Tick
  BY <1>1, RateLimiterAssumption DEF Tick
<1>2. ASSUME NEW key \in Keys, NEW heavy \in BOOLEAN, Admit(key, heavy)
      PROVE  Scalars' /\ UntrackedEmpty'
  <2>1. answer' \in [kind : {"ok", "refused"}, key : Keys, heavy : BOOLEAN,
                     at : 0 .. MaxTime]
    BY <1>2 DEF Admit, Outcome
  <2>2. Scalars'
    BY <1>2, <2>1 DEF Admit
  <2>3. UntrackedEmpty'
    BY <1>2 DEF Admit
  <2>4. QED
    BY <2>2, <2>3
<1>3. ASSUME NEW key \in Keys, NEW heavy \in BOOLEAN, Refuse(key, heavy)
      PROVE  Scalars' /\ UntrackedEmpty'
  <2>1. answer' \in [kind : {"ok", "refused"}, key : Keys, heavy : BOOLEAN,
                     at : 0 .. MaxTime]
    BY <1>3 DEF Refuse, Outcome
  <2>2. Scalars'
    BY <1>3, <2>1 DEF Refuse
  <2>3. UntrackedEmpty'
    BY <1>3 DEF Refuse
  <2>4. QED
    BY <2>2, <2>3
<1>4. ASSUME NEW key \in Keys, Reset(key)
      PROVE  Scalars' /\ UntrackedEmpty'
  BY <1>4 DEF Reset
<1>5. CASE Cleanup
  BY <1>5 DEF Cleanup
<1>6. CASE UNCHANGED vars
  BY <1>6 DEF vars
<1>7. QED
  BY <1>1, <1>2, <1>3, <1>4, <1>5, <1>6 DEF Next

\* Every operation keeps the deque of every client in step with its history,
\* and the last refusal justified.
LEMMA StepKeys ==
    IInv /\ [Next]_vars => AnswerOK' /\ \A k \in Keys : KeyOK(k)'
<1> SUFFICES ASSUME IInv, [Next]_vars
             PROVE  AnswerOK' /\ \A k \in Keys : KeyOK(k)'
  OBVIOUS
<1>0. /\ now \in Nat /\ AnswerOK
      /\ \A k \in Keys : KeyOK(k)
      /\ DOMAIN log = Keys /\ DOMAIN admitted = Keys
  BY RateLimiterAssumption DEF IInv, Scalars
<1>1. CASE Tick
  <2>1. now' \in Nat /\ now <= now'
    BY <1>0, <1>1 DEF Tick
  <2>2. \A k \in Keys : KeyOK(k)'
    BY <1>0, <1>1, <2>1, KeyFrame DEF Tick
  <2>3. AnswerOK'
    BY <1>0, <1>1 DEF Tick, AnswerOK
  <2>4. QED
    BY <2>2, <2>3
<1>2. ASSUME NEW key \in Keys, NEW heavy \in BOOLEAN, Admit(key, heavy)
      PROVE  AnswerOK' /\ \A k \in Keys : KeyOK(k)'
  <2>1. KeyOK(key)'
    BY <1>2, AdmitKeepsKey
  <2>2. ASSUME NEW k \in Keys, k # key PROVE KeyOK(k)'
    <3>1. UNCHANGED <<now, log[k], admitted[k]>>
      BY <1>0, <1>2, <2>2 DEF Admit
    <3>2. now' \in Nat /\ now <= now'
      BY <1>0, <3>1
    <3>3. QED
      BY <1>0, <2>2, <3>1, <3>2, KeyFrame
  <2>3. AnswerOK'
    BY <1>2 DEF Admit, Outcome, AnswerOK
  <2>4. QED
    BY <2>1, <2>2, <2>3
<1>3. ASSUME NEW key \in Keys, NEW heavy \in BOOLEAN, Refuse(key, heavy)
      PROVE  AnswerOK' /\ \A k \in Keys : KeyOK(k)'
  <2>1. KeyOK(key)' /\ AnswerOK'
    BY <1>3, RefuseKeepsKey
  <2>2. ASSUME NEW k \in Keys, k # key PROVE KeyOK(k)'
    <3>1. UNCHANGED <<now, log[k], admitted[k]>>
      BY <1>0, <1>3, <2>2 DEF Refuse
    <3>2. now' \in Nat /\ now <= now'
      BY <1>0, <3>1
    <3>3. QED
      BY <1>0, <2>2, <3>1, <3>2, KeyFrame
  <2>3. QED
    BY <2>1, <2>2
<1>4. ASSUME NEW key \in Keys, Reset(key)
      PROVE  AnswerOK' /\ \A k \in Keys : KeyOK(k)'
  <2>1. KeyOK(key)'
    BY <1>4, ResetKeepsKey
  <2>2. ASSUME NEW k \in Keys, k # key PROVE KeyOK(k)'
    <3>1. UNCHANGED <<now, log[k], admitted[k]>>
      BY <1>0, <1>4, <2>2 DEF Reset
    <3>2. now' \in Nat /\ now <= now'
      BY <1>0, <3>1
    <3>3. QED
      BY <1>0, <2>2, <3>1, <3>2, KeyFrame
  <2>3. AnswerOK'
    BY <1>4 DEF Reset, AnswerOK, NoAnswer
  <2>4. QED
    BY <2>1, <2>2, <2>3
<1>5. CASE Cleanup
  <2>1. \A k \in Keys : KeyOK(k)'
    BY <1>5, CleanupKeepsKey
  <2>2. AnswerOK'
    BY <1>0, <1>5 DEF Cleanup, AnswerOK
  <2>3. QED
    BY <2>1, <2>2
<1>6. CASE UNCHANGED vars
  <2>1. now' \in Nat /\ now <= now'
    BY <1>0, <1>6 DEF vars
  <2>2. \A k \in Keys : KeyOK(k)'
    BY <1>0, <1>6, <2>1, KeyFrame DEF vars
  <2>3. AnswerOK'
    BY <1>0, <1>6 DEF vars, AnswerOK
  <2>4. QED
    BY <2>2, <2>3
<1>7. QED
  BY <1>1, <1>2, <1>3, <1>4, <1>5, <1>6 DEF Next

\* The invariant is inductive.
THEOREM IInvAlways == Spec => []IInv
<1>1. IInv /\ [Next]_vars => IInv'
  BY StepScalars, StepKeys DEF IInv
<1>2. QED
  BY InitIInv, <1>1, PTL DEF Spec

----------------------------------------------------------------------------
\* The values keep their types and every deque is in the order of time:
\* record_and_check(), reset() and cleanup() leave a deque that its popleft
\* loop may read from the left.
THEOREM TypeCorrect == Spec => []TypeOK
<1>1. IInv => TypeOK
  <2> SUFFICES ASSUME IInv PROVE TypeOK
    OBVIOUS
  <2>1. ASSUME NEW k \in Keys
        PROVE  log[k] \in Seq(0 .. MaxTime) /\ Nondecreasing(log[k])
    <3> DEFINE a == admitted[k]
               A == Len(a)
               L == Len(log[k])
               l == log[k]
    <3>1. /\ A \in Nat /\ L \in Nat /\ L <= A
          /\ l \in Seq(Nat) /\ DOMAIN l = 1 .. L
          /\ \A i \in 1 .. L : l[i] = a[A - L + i].at
          /\ \A i, j \in 1 .. A : i <= j => a[i].at <= a[j].at
          /\ \A i \in 1 .. A : a[i] \in Admissions
      BY HistoryTimes, LenProperties DEF IInv, KeyOK, HistoryOK, LogOK
    <3>2. \A i \in 1 .. A : a[i].at \in 0 .. MaxTime
      BY <3>1 DEF Admissions
    <3> HIDE DEF a, A, L, l
    <3>3. \A i \in 1 .. L : A - L + i \in 1 .. A
      BY <3>1
    <3>4. \A i \in 1 .. L : l[i] \in 0 .. MaxTime
      BY <3>1, <3>2, <3>3
    <3>5. l \in Seq(0 .. MaxTime)
      <4>1. l = [i \in 1 .. L |-> l[i]]
        BY <3>1, LenProperties DEF L
      <4>2. \A S : \A f : L \in Nat /\ f = [i \in 1 .. L |-> f[i]]
               /\ (\A i \in 1 .. L : f[i] \in S) => f \in Seq(S)
        OBVIOUS
      <4>3. QED
        BY <3>1, <3>4, <4>1, <4>2
    <3>6. Nondecreasing(l)
      <4>1. SUFFICES ASSUME NEW i \in 1 .. L, NEW j \in 1 .. L, i <= j
                     PROVE  l[i] <= l[j]
        BY <3>1 DEF Nondecreasing
      <4>2. /\ A - L + i \in 1 .. A /\ A - L + j \in 1 .. A
            /\ A - L + i <= A - L + j
        BY <3>1, <4>1
      <4>3. a[A - L + i].at <= a[A - L + j].at
        BY <3>1, <4>2
      <4>4. QED
        BY <3>1, <4>3
    <3>7. QED
      BY <3>5, <3>6 DEF l
  <2>2. admitted \in [Keys -> Seq(Admissions)]
    BY DEF IInv, Scalars, KeyOK, HistoryOK
  <2>3. log \in [Keys -> Seq(0 .. MaxTime)]
    BY <2>1 DEF IInv, Scalars
  <2>4. QED
    BY <2>1, <2>2, <2>3 DEF IInv, Scalars, TypeOK
<1>2. QED
  BY IInvAlways, <1>1, PTL

\* No client is let in above the burst limit of its own request within any
\* window, however its heavy and light requests are interleaved.
THEOREM SlidingWindow == Spec => []WindowBound
<1>1. IInv => WindowBound
  <2> SUFFICES ASSUME IInv, NEW k \in Keys, NEW i \in DOMAIN admitted[k],
                      i > BurstLimit(admitted[k][i].heavy)
               PROVE  admitted[k][i - BurstLimit(admitted[k][i].heavy)].at
                        < admitted[k][i].at - Window
    BY DEF WindowBound
  <2>1. DOMAIN admitted[k] = 1 .. Len(admitted[k])
    BY LenProperties DEF IInv, KeyOK, HistoryOK
  <2>2. QED
    BY <2>1 DEF IInv, KeyOK, WindowOK
<1>2. QED
  BY IInvAlways, <1>1, PTL

\* A 429 is only given to a client that has used up its limit.
THEOREM RefusalJustified == Spec => []RefusedOnlyAtLimit
<1>1. IInv => RefusedOnlyAtLimit
  BY DEF IInv, AnswerOK, RefusedOnlyAtLimit
<1>2. QED
  BY IInvAlways, <1>1, PTL

\* Eviction and cleanup() never lose a request that still counts.
THEOREM NothingForgotten == Spec => []LogIsRecent
<1>1. IInv => LogIsRecent
  <2> SUFFICES ASSUME IInv, NEW k \in Keys
               PROVE  /\ Len(admitted[k]) - Len(log[k]) >= 0
                      /\ \A i \in 1 .. Len(log[k]) :
                           log[k][i] = admitted[k]
                             [Len(admitted[k]) - Len(log[k]) + i].at
                      /\ \A i \in 1 .. Len(admitted[k]) - Len(log[k]) :
                           admitted[k][i].at < now - Window
    BY DEF LogIsRecent
  <2>1. KeyOK(k)
    BY DEF IInv
  <2>2. Len(admitted[k]) \in Nat /\ Len(log[k]) \in Nat
    BY <2>1, LenProperties DEF KeyOK, HistoryOK, LogOK
  <2>3. LogOK(k) /\ Len(log[k]) <= Len(admitted[k])
    BY <2>1 DEF KeyOK, LogOK
  <2>4. Len(admitted[k]) - Len(log[k]) >= 0
    BY <2>2, <2>3
  <2>5. QED
    BY <2>3, <2>4, Zenon DEF LogOK
<1>2. QED
  BY IInvAlways, <1>1, PTL

\* A client's deque never outgrows the larger of the two burst limits.
THEOREM BoundedMemory == Spec => []DequeBounded
<1>1. IInv => DequeBounded
  <2> SUFFICES ASSUME IInv, NEW k \in Keys
               PROVE  Len(log[k]) <= BurstLimit(TRUE)
                        \/ Len(log[k]) <= BurstLimit(FALSE)
    BY DEF DequeBounded
  <2>1. Len(log[k]) <= Max2(BurstLimit(TRUE), BurstLimit(FALSE))
    BY DEF IInv, KeyOK, LogOK
  <2>2. CASE BurstLimit(TRUE) > BurstLimit(FALSE)
    BY <2>1, <2>2, Zenon DEF Max2
  <2>3. CASE ~(BurstLimit(TRUE) > BurstLimit(FALSE))
    BY <2>1, <2>3, Zenon DEF Max2
  <2>4. QED
    BY <2>2, <2>3, Zenon
<1>2. QED
  BY IInvAlways, <1>1, PTL
=============================================================================
