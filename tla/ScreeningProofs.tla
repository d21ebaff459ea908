--------------------------- MODULE ScreeningProofs ---------------------------
(***************************************************************************)
(* Theorems about Screening, for any number of calls, any bodies, and any  *)
(* answers of the models, after lemmas on the values of the metrics.  The  *)
(* inductive invariant follows a call through its steps: which lists it    *)
(* holds at each, and what is known of them.                               *)
(***************************************************************************)
EXTENDS Screening, RerankingProofs

----------------------------------------------------------------------------
(* Sums *)

\* What holds of 0, and of m + 1 when it holds of m, holds up to n.
LEMMA UpTo ==
    ASSUME NEW n \in Nat, NEW P \in SUBSET (0 .. n), 0 \in P,
           \A m \in 0 .. n - 1 : m \in P => m + 1 \in P
    PROVE  \A m \in 0 .. n : m \in P
<1> DEFINE S == (0 .. n) \ P
<1>1. SUFFICES ASSUME S # {} PROVE FALSE
  OBVIOUS
<1>2. S \in SUBSET Int /\ IsFiniteSet(S)
  <2>1. IsFiniteSet(0 .. n) /\ S \in SUBSET (0 .. n)
    BY FS_Interval
  <2>2. QED
    BY <2>1, FS_Subset
<1>3. Least(S) \in S /\ \A y \in S : Least(S) <= y
  BY <1>1, <1>2, Extremes
<1> DEFINE l == Least(S)
<1> HIDE DEF l
<1>4. l \in 0 .. n /\ l \notin P /\ \A y \in S : l <= y
  BY <1>3 DEF l
<1>5. l # 0 /\ l - 1 \in 0 .. n - 1
  BY <1>4
<1>6. l - 1 \in P
  BY <1>4, <1>5
<1>7. l - 1 + 1 = l
  BY <1>4
<1>8. QED
  BY <1>4, <1>5, <1>6, <1>7

\* The sums of the first m elements of s.
SumsTo(s, f, m) ==
    f \in [0 .. m -> Int] /\ f[0] = 0 /\ \A i \in 1 .. m : f[i] = f[i - 1] + s[i]

\* The recursive definition has a solution: the sums are what it says.
LEMMA SumsAre ==
    ASSUME NEW n \in Nat, NEW s \in [1 .. n -> Int], Len(s) = n
    PROVE  /\ Sums(s) \in [0 .. n -> Int] /\ Sums(s)[0] = 0
           /\ \A i \in 1 .. n : Sums(s)[i] = Sums(s)[i - 1] + s[i]
<1> DEFINE P == {m \in 0 .. n : \E f : SumsTo(s, f, m)}
           IsSums(f) == f = [i \in 0 .. n |-> IF i = 0 THEN 0 ELSE f[i - 1] + s[i]]
<1>1. 0 \in P
  <2> DEFINE f == [i \in 0 .. 0 |-> 0]
  <2>1. SumsTo(s, f, 0)
    BY DEF SumsTo
  <2>2. QED
    BY <2>1
<1>2. ASSUME NEW m \in 0 .. n - 1, m \in P
      PROVE  m + 1 \in P
  <2>1. PICK f : SumsTo(s, f, m)
    BY <1>2
  <2> DEFINE g == [i \in 0 .. m + 1 |-> IF i <= m THEN f[i] ELSE f[m] + s[m + 1]]
  <2>2. g \in [0 .. m + 1 -> Int] /\ g[0] = 0
    BY <2>1 DEF SumsTo
  <2>3. \A i \in 0 .. m : g[i] = f[i]
    OBVIOUS
  <2>4. g[m + 1] = f[m] + s[m + 1]
    OBVIOUS
  <2> HIDE DEF g
  <2>5. ASSUME NEW i \in 1 .. m + 1
        PROVE  g[i] = g[i - 1] + s[i]
    <3>1. i - 1 \in 0 .. m
      OBVIOUS
    <3>2. CASE i = m + 1
      BY <2>3, <2>4, <3>1, <3>2
    <3>3. CASE i # m + 1
      <4>1. i \in 0 .. m /\ i \in 1 .. m
        BY <3>3
      <4>2. QED
        BY <2>1, <2>3, <3>1, <4>1 DEF SumsTo
    <3>4. QED
      BY <3>2, <3>3
  <2>6. SumsTo(s, g, m + 1)
    BY <2>2, <2>5 DEF SumsTo
  <2>7. QED
    BY <2>6
<1>3. n \in P
  <2> HIDE DEF P
  <2>1. P \in SUBSET (0 .. n)
    BY DEF P
  <2>2. \A m \in 0 .. n : m \in P
    BY <1>1, <1>2, <2>1, UpTo
  <2>3. QED
    BY <2>2
<1>4. PICK f : SumsTo(s, f, n)
  BY <1>3
<1>5. IsSums(f)
  <2> DEFINE g == [i \in 0 .. n |-> IF i = 0 THEN 0 ELSE f[i - 1] + s[i]]
  <2>1. \A i \in 0 .. n : g[i] = f[i]
    <3>1. SUFFICES ASSUME NEW i \in 0 .. n PROVE g[i] = f[i]
      OBVIOUS
    <3>2. CASE i = 0
      BY <1>4, <3>2 DEF SumsTo
    <3>3. CASE i # 0
      BY <1>4, <3>3 DEF SumsTo
    <3>4. QED
      BY <3>2, <3>3
  <2>2. f = g
    BY <1>4, <2>1 DEF SumsTo
  <2>3. QED
    BY <2>2
<1> DEFINE h == Sums(s)
<1>6. h = CHOOSE x : IsSums(x)
  BY DEF Sums
<1>7. IsSums(h)
  <2> HIDE DEF IsSums, h
  <2>1. QED
    BY <1>5, <1>6
<1> HIDE DEF h
<1>8. h[0] = 0 /\ \A i \in 1 .. n : h[i] = h[i - 1] + s[i]
  BY <1>7
<1>9. DOMAIN h = 0 .. n /\ h = [i \in 0 .. n |-> h[i]]
  BY <1>7
<1>10. \A m \in 0 .. n : h[m] \in Int
  <2> DEFINE Q == {m \in 0 .. n : h[m] \in Int}
  <2>1. 0 \in Q
    BY <1>8
  <2>2. ASSUME NEW m \in 0 .. n - 1, m \in Q
        PROVE  m + 1 \in Q
    <3>1. m + 1 \in 1 .. n /\ m + 1 - 1 = m
      OBVIOUS
    <3>2. h[m + 1] = h[m] + s[m + 1]
      BY <1>8, <3>1
    <3>3. QED
      BY <2>2, <3>1, <3>2
  <2> HIDE DEF Q
  <2>3. Q \in SUBSET (0 .. n)
    BY DEF Q
  <2>4. \A m \in 0 .. n : m \in Q
    BY <2>1, <2>2, <2>3, UpTo
  <2>5. QED
    BY <2>4 DEF Q
<1>11. QED
  BY <1>8, <1>9, <1>10 DEF h

----------------------------------------------------------------------------
(* Hits *)

\* The hits among the first m places.
HitPlaces(relevant, ids, m) == {i \in 1 .. m : ids[i] \in relevant}

HitCount(relevant, ids, m) == Cardinality(HitPlaces(relevant, ids, m))

\* The count grows by one with each hit, and by nothing else.
LEMMA HitsCounted ==
    ASSUME NEW R, NEW ids, NEW m \in Nat
    PROVE  /\ IsFiniteSet(HitPlaces(R, ids, m)) /\ HitCount(R, ids, m) \in 0 .. m
           /\ HitCount(R, ids, 0) = 0
           /\ HitCount(R, ids, m + 1) = IF ids[m + 1] \in R THEN HitCount(R, ids, m) + 1
                                        ELSE HitCount(R, ids, m)
<1> DEFINE H(k) == HitPlaces(R, ids, k)
<1>1. IsFiniteSet(1 .. m) /\ Cardinality(1 .. m) = m
  BY FS_Interval
<1>2. H(m) \in SUBSET (1 .. m)
  BY DEF HitPlaces
<1>3. IsFiniteSet(H(m)) /\ Cardinality(H(m)) \in Nat /\ Cardinality(H(m)) <= m
  BY <1>1, <1>2, FS_Subset, FS_CardinalityType
<1>4. H(0) = {} /\ Cardinality(H(0)) = 0
  <2>1. H(0) = {}
    BY DEF HitPlaces
  <2>2. QED
    BY <2>1, FS_EmptySet
<1>5. CASE ids[m + 1] \in R
  <2>1. H(m + 1) = H(m) \cup {m + 1}
    BY <1>5 DEF HitPlaces
  <2>2. m + 1 \notin H(m)
    BY <1>2
  <2>3. Cardinality(H(m) \cup {m + 1}) = Cardinality(H(m)) + 1
    BY <1>3, <2>2, FS_AddElement
  <2>4. HitCount(R, ids, m + 1) = HitCount(R, ids, m) + 1
    BY <2>1, <2>3 DEF HitCount
  <2>5. QED
    BY <1>3, <1>4, <1>5, <2>4 DEF HitCount
<1>6. CASE ids[m + 1] \notin R
  <2>1. H(m + 1) = H(m)
    BY <1>6 DEF HitPlaces
  <2>2. QED
    BY <1>3, <1>4, <1>6, <2>1 DEF HitCount
<1>7. QED
  BY <1>5, <1>6

\* The last of these facts on its own.
LEMMA HitsNext ==
    ASSUME NEW R, NEW ids, NEW m \in Nat
    PROVE  HitCount(R, ids, m + 1) = IF ids[m + 1] \in R THEN HitCount(R, ids, m) + 1
                                     ELSE HitCount(R, ids, m)
BY HitsCounted

\* More places have no fewer hits, and as many hits as places are all of them.
LEMMA HitsGrow ==
    ASSUME NEW R, NEW ids, NEW m \in Nat, NEW l \in 0 .. m
    PROVE  /\ HitCount(R, ids, l) <= HitCount(R, ids, m)
           /\ HitCount(R, ids, m) = m <=> \A i \in 1 .. m : ids[i] \in R
           /\ HitCount(R, ids, m) = 0 <=> \A i \in 1 .. m : ids[i] \notin R
<1>1. l \in Nat
  OBVIOUS
<1>2. /\ IsFiniteSet(HitPlaces(R, ids, m)) /\ HitCount(R, ids, m) \in 0 .. m
      /\ IsFiniteSet(1 .. m) /\ Cardinality(1 .. m) = m
  BY HitsCounted, FS_Interval
<1>3. HitPlaces(R, ids, l) \in SUBSET HitPlaces(R, ids, m)
  BY DEF HitPlaces
<1>4. HitCount(R, ids, l) <= HitCount(R, ids, m)
  BY <1>2, <1>3, FS_Subset DEF HitCount
<1>5. HitPlaces(R, ids, m) \in SUBSET (1 .. m)
  BY DEF HitPlaces
<1>6. HitCount(R, ids, m) = m => HitPlaces(R, ids, m) = 1 .. m
  BY <1>2, <1>5, FS_Subset DEF HitCount
<1>7. HitPlaces(R, ids, m) = 1 .. m <=> \A i \in 1 .. m : ids[i] \in R
  BY DEF HitPlaces
<1>8. HitPlaces(R, ids, m) = 1 .. m => HitCount(R, ids, m) = m
  BY <1>2 DEF HitCount
<1>9. HitCount(R, ids, m) = 0 <=> HitPlaces(R, ids, m) = {}
  BY <1>2, FS_EmptySet DEF HitCount
<1>10. HitPlaces(R, ids, m) = {} <=> \A i \in 1 .. m : ids[i] \notin R
  BY DEF HitPlaces
<1>11. QED
  BY <1>4, <1>6, <1>7, <1>8, <1>9, <1>10

\* A list without repetition has no more hits than there are relevant ids.
LEMMA HitsDistinct ==
    ASSUME NEW R, IsFiniteSet(R), NEW ids, NEW m \in Nat,
           \A i, j \in 1 .. m : ids[i] = ids[j] => i = j
    PROVE  HitCount(R, ids, m) <= Cardinality(R)
<1> DEFINE H == HitPlaces(R, ids, m)
           f == [i \in H |-> ids[i]]
<1>1. IsFiniteSet(H) /\ H \in SUBSET (1 .. m)
  BY HitsCounted DEF HitPlaces
<1>2. f \in Injection(H, R)
  <2>1. f \in [H -> R]
    BY DEF HitPlaces
  <2>2. \A i, j \in H : f[i] = f[j] => i = j
    BY <1>1
  <2> HIDE DEF f, H
  <2>3. QED
    BY <2>1, <2>2 DEF Injection, IsInjective
<1> HIDE DEF f, H
<1>3. Cardinality(H) <= Cardinality(R)
  BY <1>1, <1>2, FS_Injection
<1>4. QED
  BY <1>3 DEF H, HitCount

\* The first k places, or all there are.
Places(ids, k) == IF k < Len(ids) THEN k ELSE Len(ids)

\* Hits counts the hits on those places.
LEMMA HitsAre ==
    ASSUME NEW R, NEW T, NEW ids \in Seq(T), NEW k \in Nat
    PROVE  /\ Places(ids, k) \in 0 .. Len(ids) /\ Places(ids, k) <= k
           /\ k <= Len(ids) => Places(ids, k) = k
           /\ DOMAIN TopOf(ids, k) = 1 .. Places(ids, k)
           /\ Hits(R, ids, k) = HitCount(R, ids, Places(ids, k))
<1> DEFINE m == Places(ids, k)
<1>1. Len(ids) \in Nat
  BY LenProperties
<1>2. m \in 0 .. Len(ids) /\ m <= k /\ (k <= Len(ids) => m = k)
  BY <1>1 DEF Places
<1>3. TopOf(ids, k) = SubSeq(ids, 1, m)
  BY DEF TopOf, Places
<1> HIDE DEF m
<1>4. DOMAIN SubSeq(ids, 1, m) = 1 .. m
  BY <1>1, <1>2, SubSeqProperties
<1>5. QED
  BY <1>2, <1>3, <1>4 DEF Hits, HitCount, HitPlaces, m

----------------------------------------------------------------------------
(* The metrics *)

\* A share of a thousand: the whole just when nothing is missing.
LEMMA Fraction ==
    ASSUME NEW a \in Nat, NEW b \in Nat \ {0}, a <= b
    PROVE  /\ (One * a) \div b \in 0 .. One
           /\ (One * a) \div b = One <=> a = b
<1>1. (1000 * a) \div b \in 0 .. 1000
  BY Share DEF Unit
<1>2. a = b => (1000 * a) \div b = 1000
  OBVIOUS
<1>3. a < b => (1000 * a) \div b < 1000
  <2> SUFFICES ASSUME a < b PROVE (1000 * a) \div b < 1000
    OBVIOUS
  <2> DEFINE x == 1000 * a
             q == x \div b
  <2>1. x \in Nat /\ x < 1000 * b
    OBVIOUS
  <2>2. q \in 0 .. 1000
    BY <1>1
  <2> HIDE DEF x
  <2>3. x = b * q + (x % b) /\ x % b \in 0 .. b - 1
    BY <2>1
  <2> HIDE DEF q
  <2>4. q = 1000 => x >= 1000 * b
    BY <2>1, <2>2, <2>3
  <2>5. QED
    BY <2>1, <2>2, <2>4 DEF q, x
<1>4. QED
  BY <1>1, <1>2, <1>3 DEF One

\* A larger part is no smaller share.
LEMMA FractionGrows ==
    ASSUME NEW a \in Nat, NEW c \in Nat, a <= c, NEW b \in Nat \ {0}
    PROVE  (One * a) \div b <= (One * c) \div b
<1> DEFINE x == 1000 * a
           y == 1000 * c
           p == x \div b
           q == y \div b
<1>1. x \in Nat /\ y \in Nat /\ x <= y
  OBVIOUS
<1> HIDE DEF x, y
<1>2. /\ x = b * p + (x % b) /\ x % b \in 0 .. b - 1 /\ p \in Int
      /\ y = b * q + (y % b) /\ y % b \in 0 .. b - 1 /\ q \in Int
  BY <1>1
<1> HIDE DEF p, q
<1>3. p <= q
  <2>1. SUFFICES ASSUME q + 1 <= p PROVE FALSE
    BY <1>2
  <2>2. b * (q + 1) <= b * p
    BY <1>2, <2>1
  <2>3. b * (q + 1) = b * q + b
    BY <1>2
  <2>4. b * q \in Int /\ b * p \in Int
    BY <1>2
  <2> DEFINE u == b * q
             v == b * p
  <2>5. u + b <= v /\ u \in Int /\ v \in Int
    BY <2>2, <2>3, <2>4
  <2>6. x = v + (x % b) /\ y = u + (y % b)
    BY <1>2
  <2> HIDE DEF u, v
  <2>7. QED
    BY <1>1, <1>2, <2>5, <2>6
<1>4. QED
  BY <1>3 DEF p, q, x, y, One

\* Precision, recall and F1 are shares, and recall grows with k.
LEMMA SharesSound ==
    ASSUME NEW R, IsFiniteSet(R), R # {}, NEW T, NEW ids \in Seq(T),
           \A i, j \in DOMAIN ids : ids[i] = ids[j] => i = j, NEW k \in Nat
    PROVE  /\ PrecisionAt(R, ids, k) \in 0 .. One
           /\ RecallAt(R, ids, k) \in 0 .. One
           /\ F1At(R, ids, k) \in 0 .. One
           /\ \A l \in Nat : k <= l => RecallAt(R, ids, k) <= RecallAt(R, ids, l)
<1> DEFINE n == Len(ids)
           c == Cardinality(R)
           h(m) == Hits(R, ids, m)
<1>1. n \in Nat /\ DOMAIN ids = 1 .. n
  BY LenProperties
<1>2. c \in Nat \ {0}
  BY FS_CardinalityType, FS_EmptySet
<1>3. ASSUME NEW m \in Nat
      PROVE  h(m) \in Nat /\ h(m) <= m /\ h(m) <= c
  <2> DEFINE p == Places(ids, m)
  <2>1. p \in 0 .. n /\ p <= m /\ h(m) = HitCount(R, ids, p)
    BY HitsAre
  <2> HIDE DEF p
  <2>2. p \in Nat /\ \A i, j \in 1 .. p : ids[i] = ids[j] => i = j
    BY <1>1, <2>1
  <2>3. HitCount(R, ids, p) \in 0 .. p
    BY <2>2, HitsCounted
  <2>4. HitCount(R, ids, p) <= c
    BY <2>2, HitsDistinct
  <2>5. QED
    BY <2>1, <2>2, <2>3, <2>4
<1>4. ASSUME NEW l \in Nat, k <= l
      PROVE  h(k) <= h(l)
  <2>1. /\ Places(ids, k) \in 0 .. n /\ h(k) = HitCount(R, ids, Places(ids, k))
        /\ Places(ids, l) \in 0 .. n /\ h(l) = HitCount(R, ids, Places(ids, l))
    BY HitsAre
  <2>2. Places(ids, l) \in Nat /\ Places(ids, k) \in 0 .. Places(ids, l)
    BY <1>1, <1>4, <2>1 DEF Places
  <2>3. QED
    BY <2>1, <2>2, HitsGrow
<1>5. PrecisionAt(R, ids, k) \in 0 .. One
  <2>1. CASE k = 0
    BY <2>1 DEF PrecisionAt, One
  <2>2. CASE k # 0
    <3>1. h(k) \in Nat /\ h(k) <= k /\ k \in Nat \ {0}
      BY <1>3, <2>2
    <3> HIDE DEF h
    <3>2. (One * h(k)) \div k \in 0 .. One
      BY <3>1, Fraction
    <3>3. PrecisionAt(R, ids, k) = (One * h(k)) \div k
      BY <2>2 DEF PrecisionAt, h
    <3>4. QED
      BY <3>2, <3>3
  <2>3. QED
    BY <2>1, <2>2
<1>6. RecallAt(R, ids, k) \in 0 .. One
  <2>1. CASE k = 0
    BY <2>1 DEF RecallAt, One
  <2>2. CASE k # 0
    <3>1. h(k) \in Nat /\ h(k) <= c
      BY <1>3
    <3> HIDE DEF h, c
    <3>2. (One * h(k)) \div c \in 0 .. One
      BY <1>2, <3>1, Fraction
    <3>3. RecallAt(R, ids, k) = (One * h(k)) \div c
      BY <2>2 DEF RecallAt, h, c
    <3>4. QED
      BY <3>2, <3>3
  <2>3. QED
    BY <2>1, <2>2
<1>7. F1At(R, ids, k) \in 0 .. One
  <2>1. CASE k = 0
    BY <2>1 DEF F1At, One
  <2>2. CASE k # 0
    <3>1. h(k) \in Nat /\ h(k) <= k /\ h(k) <= c
      BY <1>3
    <3> HIDE DEF h, c
    <3>2. 2 * h(k) \in Nat /\ 2 * h(k) <= k + c /\ k + c \in Nat \ {0}
      BY <1>2, <3>1
    <3>3. (One * (2 * h(k))) \div (k + c) \in 0 .. One
      BY <3>2, Fraction
    <3>4. One * (2 * h(k)) = 2 * One * h(k)
      BY <3>1 DEF One
    <3>5. F1At(R, ids, k) = (2 * One * h(k)) \div (k + c)
      BY <2>2 DEF F1At, h, c
    <3>6. QED
      BY <3>3, <3>4, <3>5
  <2>3. QED
    BY <2>1, <2>2
<1>8. ASSUME NEW l \in Nat, k <= l
      PROVE  RecallAt(R, ids, k) <= RecallAt(R, ids, l)
  <2>1. h(k) <= h(l) /\ h(k) \in Nat /\ h(l) \in Nat /\ h(l) <= c
    BY <1>3, <1>4, <1>8
  <2> HIDE DEF h, c
  <2>2. /\ (One * h(k)) \div c <= (One * h(l)) \div c
        /\ (One * h(l)) \div c \in 0 .. One
    BY <1>2, <2>1, FractionGrows, Fraction
  <2>3. /\ RecallAt(R, ids, k) = IF k = 0 THEN 0 ELSE (One * h(k)) \div c
        /\ RecallAt(R, ids, l) = IF l = 0 THEN 0 ELSE (One * h(l)) \div c
    BY DEF RecallAt, h, c
  <2>4. QED
    BY <1>8, <2>2, <2>3
<1>9. QED
  BY <1>5, <1>6, <1>7, <1>8

\* The reciprocal rank is one just when the first place is a hit.
LEMMA FirstHit ==
    ASSUME NEW R, NEW T, NEW ids \in Seq(T)
    PROVE  MeanReciprocalRank(R, ids) = One <=> 1 \in DOMAIN ids /\ ids[1] \in R
<1> DEFINE found == {i \in DOMAIN ids : ids[i] \in R}
           least == CHOOSE i \in found : \A j \in found : i <= j
<1>1. Len(ids) \in Nat /\ DOMAIN ids = 1 .. Len(ids)
  BY LenProperties
<1>2. MeanReciprocalRank(R, ids) = IF found = {} THEN 0 ELSE One \div least
  BY DEF MeanReciprocalRank
<1>3. IsFiniteSet(found) /\ found \in SUBSET Int
  <2>1. IsFiniteSet(DOMAIN ids) /\ found \in SUBSET DOMAIN ids
    BY <1>1, FS_Interval
  <2>2. QED
    BY <1>1, <2>1, FS_Subset
<1>4. CASE found = {}
  BY <1>2, <1>4 DEF One
<1>5. CASE found # {}
  <2>1. least \in found /\ \A j \in found : least <= j
    BY <1>3, <1>5, Extremes DEF Least
  <2> HIDE DEF least
  <2>2. least \in 1 .. Len(ids)
    BY <1>1, <2>1
  <2>3. least = 1 <=> 1 \in found
    BY <1>1, <2>1, <2>2
  <2>4. 1000 \div least = 1000 <=> least = 1
    BY <1>1, <2>2
  <2>5. QED
    BY <1>2, <1>5, <2>3, <2>4 DEF One
<1>6. QED
  BY <1>4, <1>5

\* Among the first m places no other place precedes a hit.
HitsFirst(relevant, ids, m) ==
    \A q \in 1 .. m : ids[q] \in relevant => \A p \in 1 .. q : ids[p] \in relevant

\* Then the hits are just as many places as they are.
LEMMA FirstAreHits ==
    ASSUME NEW R, NEW ids, NEW n \in Nat
    PROVE  HitsFirst(R, ids, n) <=> \A p \in 1 .. HitCount(R, ids, n) : ids[p] \in R
<1> DEFINE h(m) == HitCount(R, ids, m)
<1>1. h(n) \in 0 .. n
  BY HitsCounted
<1>2. ASSUME HitsFirst(R, ids, n), NEW p \in 1 .. h(n), ids[p] \notin R
      PROVE  FALSE
  <2>1. p \in 1 .. n /\ p - 1 \in Nat
    BY <1>1
  <2>2. HitPlaces(R, ids, n) \in SUBSET (1 .. p - 1)
    <3>1. SUFFICES ASSUME NEW q \in 1 .. n, ids[q] \in R PROVE q < p
      BY <2>1 DEF HitPlaces
    <3>2. p \notin 1 .. q
      BY <1>2, <3>1 DEF HitsFirst
    <3>3. QED
      BY <2>1, <3>2
  <2>3. IsFiniteSet(1 .. p - 1) /\ Cardinality(1 .. p - 1) = p - 1
    <3>1. 1 \in Int /\ p - 1 \in Int
      BY <2>1
    <3>2. QED
      BY <2>1, <3>1, FS_Interval
  <2>4. h(n) <= p - 1
    BY <2>2, <2>3, FS_Subset DEF HitCount
  <2>5. QED
    BY <1>1, <2>1, <2>4
<1>3. ASSUME \A p \in 1 .. h(n) : ids[p] \in R
      PROVE  HitsFirst(R, ids, n)
  <2> DEFINE a == h(n)
  <2>1. a \in 0 .. n /\ a \in Nat
    BY <1>1
  <2>2. \A p \in 1 .. a : ids[p] \in R
    BY <1>3
  <2> HIDE DEF a
  <2>3. h(a) = a
    BY <2>1, <2>2, HitsGrow
  <2>4. ASSUME NEW q \in 1 .. n, ids[q] \in R, q > a
        PROVE  FALSE
    <3>1. q - 1 \in Nat /\ q - 1 + 1 = q /\ a \in 0 .. q - 1 /\ q \in 0 .. n /\ q \in Nat
      BY <2>1, <2>4
    <3>2. h(q) = h(q - 1) + 1 /\ h(q - 1) \in 0 .. q - 1
      BY <2>4, <3>1, HitsCounted
    <3>3. h(a) <= h(q - 1) /\ h(q) <= h(n)
      BY <3>1, HitsGrow
    <3>4. h(n) = a
      BY DEF a
    <3> HIDE DEF h
    <3>5. QED
      BY <2>1, <2>3, <3>1, <3>2, <3>3, <3>4
  <2>5. \A q \in 1 .. n : ids[q] \in R => q \in 1 .. a
    BY <2>1, <2>4
  <2>6. QED
    BY <2>1, <2>2, <2>5 DEF HitsFirst
<1>4. QED
  BY <1>2, <1>3

\* The sum of the precisions at the hits: at most one for each hit, and that
\* just when no other place precedes a hit.
LEMMA PrecisionsAtHits ==
    ASSUME NEW R, NEW ids, NEW n \in Nat, NEW s \in [1 .. n -> Int], Len(s) = n,
           \A i \in 1 .. n : s[i] = IF ids[i] \in R THEN (One * HitCount(R, ids, i)) \div i ELSE 0
    PROVE  /\ SumOver(s) \in 0 .. One * HitCount(R, ids, n)
           /\ SumOver(s) = One * HitCount(R, ids, n) <=> HitsFirst(R, ids, n)
<1> DEFINE h(m) == HitCount(R, ids, m)
           f == Sums(s)
           Q(m) == /\ f[m] \in 0 .. One * h(m)
                   /\ f[m] = One * h(m) <=> HitsFirst(R, ids, m)
           P == {m \in 0 .. n : Q(m)}
<1>1. f \in [0 .. n -> Int] /\ f[0] = 0 /\ \A i \in 1 .. n : f[i] = f[i - 1] + s[i]
  BY SumsAre
<1>2. SumOver(s) = f[n]
  BY DEF SumOver
<1> HIDE DEF f
<1>3. \A m \in 0 .. n : h(m) \in 0 .. m /\ f[m] \in Int
  BY <1>1, HitsCounted
<1>4. Q(0)
  <2>1. h(0) = 0
    BY HitsCounted
  <2>2. HitsFirst(R, ids, 0)
    BY DEF HitsFirst
  <2>3. QED
    BY <1>1, <2>1, <2>2 DEF One
<1>5. ASSUME NEW m \in 0 .. n - 1, Q(m)
      PROVE  Q(m + 1)
  <2>1. m \in 0 .. n /\ m + 1 \in 1 .. n /\ m + 1 \in 0 .. n /\ m + 1 - 1 = m
    OBVIOUS
  <2>2. f[m + 1] = f[m] + s[m + 1] /\ f[m] \in Int /\ f[m + 1] \in Int
    BY <1>1, <2>1
  <2>3. h(m) \in Nat /\ h(m + 1) \in 0 .. m + 1
        /\ h(m + 1) = IF ids[m + 1] \in R THEN h(m) + 1 ELSE h(m)
    <3>1. m \in Nat /\ h(m) \in 0 .. m /\ h(m + 1) \in 0 .. m + 1
      BY <1>3, <2>1
    <3>2. h(m + 1) = IF ids[m + 1] \in R THEN h(m) + 1 ELSE h(m)
      BY <3>1, HitsCounted
    <3>3. QED
      BY <3>1, <3>2
  <2>4. HitsFirst(R, ids, m + 1) <=>
            HitsFirst(R, ids, m) /\ (ids[m + 1] \in R => \A p \in 1 .. m + 1 : ids[p] \in R)
    BY <2>1 DEF HitsFirst
  <2>5. h(m + 1) = m + 1 <=> \A p \in 1 .. m + 1 : ids[p] \in R
    BY <2>1, HitsGrow
  <2>6. CASE ids[m + 1] \notin R
    <3>1. s[m + 1] = 0
      BY <2>1, <2>6
    <3>2. f[m + 1] = f[m] /\ h(m + 1) = h(m)
      BY <2>2, <2>3, <2>6, <3>1
    <3>3. HitsFirst(R, ids, m + 1) <=> HitsFirst(R, ids, m)
      BY <2>4, <2>6
    <3> HIDE DEF h
    <3>4. QED
      BY <1>5, <3>2, <3>3
  <2>7. CASE ids[m + 1] \in R
    <3> DEFINE share == (One * h(m + 1)) \div (m + 1)
    <3>1. s[m + 1] = share
      BY <2>1, <2>7
    <3>2. share \in 0 .. One /\ (share = One <=> h(m + 1) = m + 1)
      <4>1. m + 1 \in Nat \ {0} /\ h(m + 1) \in Nat /\ h(m + 1) <= m + 1
        BY <2>1, <2>3
      <4> HIDE DEF h
      <4>2. QED
        BY <4>1, Fraction
    <3> HIDE DEF share, h
    <3>3. h(m + 1) = h(m) + 1 /\ One * h(m + 1) = One * h(m) + One
      BY <2>3, <2>7 DEF One
    <3>4. One * h(m) \in Nat /\ One \in Nat
      BY <2>3 DEF One
    <3>5. f[m + 1] = f[m] + share /\ f[m] \in 0 .. One * h(m)
      BY <1>5, <2>2, <3>1
    <3>6. f[m + 1] \in 0 .. One * h(m + 1)
          /\ (f[m + 1] = One * h(m + 1) <=> f[m] = One * h(m) /\ share = One)
      BY <3>2, <3>3, <3>4, <3>5
    <3>7. QED
      BY <1>5, <2>4, <2>5, <2>7, <3>2, <3>6
  <2>8. QED
    BY <2>6, <2>7
<1> HIDE DEF Q
<1>6. 0 \in P /\ \A m \in 0 .. n - 1 : m \in P => m + 1 \in P
  BY <1>4, <1>5
<1>7. P \in SUBSET (0 .. n)
  OBVIOUS
<1> HIDE DEF P
<1>8. \A m \in 0 .. n : m \in P
  BY <1>6, <1>7, UpTo
<1>9. Q(n)
  BY <1>8 DEF P
<1>10. QED
  BY <1>2, <1>9 DEF Q

\* Average precision is a share, and one just when the first places are hits,
\* as many as there can be.
LEMMA AveragePrecisionSound ==
    ASSUME NEW R, IsFiniteSet(R), R # {}, NEW T, NEW ids \in Seq(T),
           \A i, j \in DOMAIN ids : ids[i] = ids[j] => i = j, NEW k \in Nat
    PROVE  /\ AveragePrecisionAt(R, ids, k) \in 0 .. One
           /\ AveragePrecisionAt(R, ids, k) = One <=>
                  /\ k > 0
                  /\ \A p \in 1 .. Attainable(R, k) : p \in DOMAIN ids /\ ids[p] \in R
<1> DEFINE a == Attainable(R, k)
           n == Places(ids, k)
           c == Cardinality(R)
           h == HitCount(R, ids, n)
           atHit(i) == IF ids[i] \in R THEN (One * Hits(R, ids, i)) \div i ELSE 0
           s == [i \in DOMAIN TopOf(ids, k) |-> atHit(i)]
           ap == AveragePrecisionAt(R, ids, k)
<1>1. Len(ids) \in Nat /\ DOMAIN ids = 1 .. Len(ids)
  BY LenProperties
<1>2. n \in 0 .. Len(ids) /\ n <= k /\ DOMAIN TopOf(ids, k) = 1 .. n
  BY HitsAre
<1>3. c \in Nat \ {0}
  BY FS_CardinalityType, FS_EmptySet
<1>4. a \in Nat /\ a <= c /\ a <= k /\ (a = c \/ a = k)
  BY <1>3 DEF Attainable
<1>5. ap = IF a <= 0 THEN 0 ELSE SumOver(s) \div a
  BY DEF AveragePrecisionAt
<1> HIDE DEF a, n, ap, c
<1>6. h \in 0 .. n /\ h <= c /\ h <= a
  <2>1. n \in Nat /\ \A i, j \in 1 .. n : ids[i] = ids[j] => i = j
    BY <1>1, <1>2
  <2>2. h \in 0 .. n /\ h <= c
    BY <2>1, HitsCounted, HitsDistinct DEF c
  <2>3. QED
    BY <1>2, <1>3, <1>4, <2>2
<1>7. ASSUME NEW i \in 1 .. n
      PROVE  /\ s[i] = IF ids[i] \in R THEN (One * HitCount(R, ids, i)) \div i ELSE 0
             /\ s[i] \in Int
  <2>1. i \in Nat \ {0} /\ Places(ids, i) = i
    <3>1. i \in Nat \ {0} /\ i <= Len(ids)
      BY <1>1, <1>2
    <3>2. Places(ids, i) = i
      BY <3>1, HitsAre
    <3>3. QED
      BY <3>1, <3>2
  <2>2. Hits(R, ids, i) = HitCount(R, ids, i) /\ HitCount(R, ids, i) \in 0 .. i
    BY <2>1, HitsAre, HitsCounted
  <2>3. s[i] = IF ids[i] \in R THEN (One * HitCount(R, ids, i)) \div i ELSE 0
    BY <1>2, <2>2
  <2>4. (One * HitCount(R, ids, i)) \div i \in Int
    <3>1. One * HitCount(R, ids, i) \in Int
      BY <2>2 DEF One
    <3>2. QED
      BY <2>1, <3>1
  <2>5. QED
    BY <2>3, <2>4
<1>8. s \in [1 .. n -> Int] /\ Len(s) = n
  <2>1. s = [i \in 1 .. n |-> s[i]]
    BY <1>2
  <2> HIDE DEF s
  <2>2. s \in [1 .. n -> Int]
    BY <1>7, <2>1
  <2>3. n \in Nat
    BY <1>1, <1>2
  <2>4. QED
    BY <2>2, <2>3, ListOf
<1> HIDE DEF s, h
<1>9. /\ SumOver(s) \in 0 .. One * h
      /\ SumOver(s) = One * h <=> HitsFirst(R, ids, n)
  BY <1>1, <1>2, <1>7, <1>8, PrecisionsAtHits DEF h
<1>10. HitsFirst(R, ids, n) <=> \A p \in 1 .. h : ids[p] \in R
  BY <1>1, <1>2, FirstAreHits DEF h
<1>11. CASE a = 0
  <2>1. k = 0
    BY <1>3, <1>4, <1>11
  <2>2. QED
    BY <1>5, <1>11, <2>1 DEF One, ap
<1>12. CASE a # 0
  <2> DEFINE x == SumOver(s)
             q == x \div a
  <2>1. ap = q /\ a \in Nat \ {0} /\ k > 0
    BY <1>4, <1>5, <1>12
  <2>2. x \in Nat /\ x <= 1000 * h /\ (x = 1000 * h <=> HitsFirst(R, ids, n))
    BY <1>6, <1>9 DEF One
  <2> HIDE DEF x
  <2>3. x <= 1000 * a /\ (x = 1000 * a <=> h = a /\ HitsFirst(R, ids, n))
    BY <1>4, <1>6, <2>2
  <2>4. q \in 0 .. 1000 /\ (q = 1000 <=> x = 1000 * a)
    <3>1. x = a * q + (x % a) /\ x % a \in 0 .. a - 1 /\ q \in Int
      BY <2>1, <2>2
    <3>2. x = 1000 * a => q = 1000
      BY <2>1
    <3> HIDE DEF q
    <3>3. q >= 0
      <4>1. q <= -1 => a * q <= -a
        BY <2>1, <3>1
      <4> DEFINE u == a * q
      <4>2. u \in Int /\ x = u + (x % a)
        BY <2>1, <3>1
      <4>3. q <= -1 => u <= -a
        BY <4>1
      <4> HIDE DEF u
      <4>4. QED
        BY <2>1, <2>2, <3>1, <4>2, <4>3
    <3>4. q <= 1000
      <4>1. q >= 1001 => a * q >= 1001 * a
        BY <2>1, <3>1
      <4> DEFINE u == a * q
      <4>2. u \in Int /\ x = u + (x % a)
        BY <2>1, <3>1
      <4>3. q >= 1001 => u >= 1001 * a
        BY <4>1
      <4> HIDE DEF u
      <4>4. QED
        BY <2>1, <2>2, <2>3, <3>1, <4>2, <4>3
    <3>5. q = 1000 => x >= 1000 * a
      BY <2>1, <2>2, <3>1
    <3>6. QED
      BY <2>1, <2>2, <2>3, <3>1, <3>2, <3>3, <3>4, <3>5
  <2> HIDE DEF q
  <2>5. ap = One <=> h = a /\ \A p \in 1 .. a : ids[p] \in R
    BY <1>10, <2>1, <2>3, <2>4 DEF One
  <2>6. ASSUME h = a, NEW p \in 1 .. a
        PROVE  p \in DOMAIN ids
    BY <1>1, <1>2, <1>4, <1>6, <2>6
  <2>7. ASSUME \A p \in 1 .. a : p \in DOMAIN ids /\ ids[p] \in R
        PROVE  h = a
    <3>1. a \in DOMAIN ids
      BY <2>1, <2>7
    <3>2. a \in 0 .. n
      <4>1. a <= Len(ids) /\ a <= k
        BY <1>1, <1>4, <3>1
      <4>2. QED
        BY <1>1, <1>2, <1>4, <4>1 DEF n, Places
    <3>3. HitCount(R, ids, a) = a
      BY <1>4, <2>7, HitsGrow
    <3>4. HitCount(R, ids, a) <= h
      BY <1>1, <1>2, <3>2, HitsGrow DEF h
    <3>5. QED
      BY <1>1, <1>2, <1>4, <1>6, <3>3, <3>4
  <2>8. QED
    BY <2>1, <2>4, <2>5, <2>6, <2>7 DEF ap, a, One
<1>13. QED
  BY <1>11, <1>12

\* Discounted gains: at most those of as many hits on the first places, and
\* just those when no other place precedes a hit.
LEMMA GainsDiscounted ==
    ASSUME NEW R, NEW ids, NEW n \in Nat, n <= Len(Discount),
           NEW f, NEW g, NEW s, NEW t, SumsTo(s, f, n), SumsTo(t, g, n),
           \A i \in 1 .. n : s[i] = IF ids[i] \in R THEN Discount[i] ELSE 0,
           \A i \in 1 .. n : t[i] = IF i <= HitCount(R, ids, n) THEN Discount[i] ELSE 0
    PROVE  /\ f[n] \in Nat /\ g[n] \in Nat /\ f[n] <= g[n]
           /\ f[n] = g[n] <=> HitsFirst(R, ids, n)
           /\ f[n] = 0 <=> HitCount(R, ids, n) = 0
<1> DEFINE h(m) == HitCount(R, ids, m)
           k == h(n)
<1>1. \A i \in 1 .. n : /\ Discount[i] \in Nat \ {0}
                        /\ \A j \in 1 .. n : i < j => Discount[j] < Discount[i]
  <2>1. Len(Discount) \in Nat /\ DOMAIN Discount = 1 .. Len(Discount)
    BY MetricsAssumption, LenProperties DEF MetricsAssumption
  <2>2. \A i \in 1 .. Len(Discount) : Discount[i] \in Nat \ {0}
    BY <2>1, MetricsAssumption, ElementOfSeq DEF MetricsAssumption
  <2>3. \A i \in 1 .. n : i \in 1 .. Len(Discount)
    BY <2>1
  <2>4. QED
    BY <2>2, <2>3, MetricsAssumption DEF MetricsAssumption
<1>2. /\ f \in [0 .. n -> Int] /\ f[0] = 0 /\ \A i \in 1 .. n : f[i] = f[i - 1] + s[i]
      /\ g \in [0 .. n -> Int] /\ g[0] = 0 /\ \A i \in 1 .. n : g[i] = g[i - 1] + t[i]
  BY DEF SumsTo
<1>3. ASSUME NEW m \in 0 .. n
      PROVE  h(m) \in 0 .. m /\ h(m) \in 0 .. k /\ k \in 0 .. n
  BY HitsCounted, HitsGrow
<1>4. h(0) = 0
  BY HitsCounted
<1> DEFINE Q(m) == /\ f[m] >= 0 /\ f[m] <= g[h(m)] /\ (f[m] = 0 <=> h(m) = 0)
                   /\ f[m] = g[h(m)] <=> HitsFirst(R, ids, m)
           P == {m \in 0 .. n : Q(m)}
<1>5. 0 \in P
  <2>1. HitsFirst(R, ids, 0)
    BY DEF HitsFirst
  <2>2. QED
    BY <1>2, <1>4, <2>1
<1>6. ASSUME NEW m \in 0 .. n - 1, m \in P
      PROVE  m + 1 \in P
  <2>1. Q(m)
    BY <1>6
  <2>2. m \in 0 .. n /\ m + 1 \in 1 .. n /\ m + 1 \in 0 .. n /\ m + 1 - 1 = m
    OBVIOUS
  <2>3. f[m + 1] = f[m] + s[m + 1] /\ f[m] \in Int /\ f[m + 1] \in Int
    BY <1>2, <2>2
  <2>4. h(m) \in Nat /\ h(m) <= m /\ h(m + 1) \in 0 .. m + 1 /\ h(m + 1) \in 0 .. k
        /\ k \in 0 .. n
    BY <1>3, <2>2
  <2>5. h(m + 1) = IF ids[m + 1] \in R THEN h(m) + 1 ELSE h(m)
    <3>1. m \in Nat
      BY <2>2
    <3>2. HitCount(R, ids, m + 1) = IF ids[m + 1] \in R THEN HitCount(R, ids, m) + 1
                                    ELSE HitCount(R, ids, m)
      BY <3>1, HitsNext
    <3>3. QED
      BY <3>2
  <2>6. HitsFirst(R, ids, m + 1) <=>
            HitsFirst(R, ids, m) /\ (ids[m + 1] \in R => \A p \in 1 .. m + 1 : ids[p] \in R)
    BY <2>2 DEF HitsFirst
  <2>7. h(m + 1) = m + 1 <=> \A p \in 1 .. m + 1 : ids[p] \in R
    BY <2>2, HitsGrow
  <2>8. CASE ids[m + 1] \notin R
    <3>1. f[m + 1] = f[m] /\ h(m + 1) = h(m)
      BY <2>2, <2>3, <2>5, <2>8
    <3>2. HitsFirst(R, ids, m + 1) <=> HitsFirst(R, ids, m)
      BY <2>6, <2>8
    <3> HIDE DEF h
    <3>3. QED
      BY <2>1, <2>2, <3>1, <3>2
  <2>9. CASE ids[m + 1] \in R
    <3> DEFINE j == h(m) + 1
    <3>1. h(m + 1) = j /\ j \in 1 .. n /\ j <= m + 1 /\ j <= k /\ j - 1 = h(m)
      BY <2>4, <2>5, <2>9
    <3>2. s[m + 1] = Discount[m + 1] /\ f[m + 1] = f[m] + Discount[m + 1]
      BY <2>2, <2>3, <2>9
    <3>3. g[j] = g[h(m)] + Discount[j]
      BY <1>2, <3>1
    <3>4. /\ Discount[m + 1] \in Nat \ {0} /\ Discount[j] \in Nat \ {0}
          /\ Discount[m + 1] <= Discount[j] /\ (Discount[m + 1] = Discount[j] <=> j = m + 1)
      <4>1. j < m + 1 \/ j = m + 1
        BY <2>2, <3>1
      <4>2. QED
        BY <1>1, <2>2, <3>1, <4>1
    <3>5. g[h(m)] \in Int /\ g[j] \in Int
      <4>1. h(m) \in 0 .. n /\ j \in 0 .. n
        BY <2>2, <2>4, <3>1
      <4>2. QED
        BY <1>2, <4>1
    <3> DEFINE a == f[m]
               b == g[h(m)]
               d == Discount[m + 1]
               e == Discount[j]
    <3>6. a \in Int /\ b \in Int /\ a >= 0 /\ a <= b
          /\ d \in Nat \ {0} /\ e \in Nat \ {0} /\ d <= e
      BY <2>1, <2>3, <3>4, <3>5
    <3>7. f[m + 1] = a + d /\ g[j] = b + e /\ j # 0
      BY <2>4, <3>2, <3>3
    <3> HIDE DEF a, b, d, e
    <3>8. a + d >= 0 /\ a + d <= b + e /\ a + d # 0 /\ (a + d = b + e <=> a = b /\ d = e)
      BY <3>6
    <3>9. f[m + 1] = g[j] <=> f[m] = g[h(m)] /\ j = m + 1
      BY <3>4, <3>7, <3>8 DEF a, b, d, e
    <3> HIDE DEF h
    <3>10. f[m + 1] = g[j] <=> HitsFirst(R, ids, m + 1)
      BY <2>1, <2>6, <2>7, <2>9, <3>1, <3>9
    <3>11. f[m + 1] >= 0 /\ f[m + 1] <= g[j] /\ f[m + 1] # 0 /\ j # 0
      BY <3>7, <3>8
    <3> HIDE DEF j
    <3>12. QED
      BY <2>2, <3>1, <3>10, <3>11
  <2>10. QED
    BY <2>8, <2>9
<1>7. Q(n)
  <2>1. P \in SUBSET (0 .. n)
    OBVIOUS
  <2> HIDE DEF P
  <2>2. \A m \in 0 .. n : m \in P
    BY <1>5, <1>6, <2>1, UpTo
  <2>3. n \in P
    BY <2>2
  <2>4. QED
    BY <2>3 DEF P
\* Past the last hit the best gains do not grow.
<1>8. g[n] = g[k]
  <2> DEFINE S == {m \in 0 .. n : m >= k => g[m] = g[k]}
  <2>1. k \in 0 .. n /\ k \in Nat
    BY <1>3
  <2>2. 0 \in S
    BY <2>1
  <2>3. ASSUME NEW m \in 0 .. n - 1, m \in S
        PROVE  m + 1 \in S
    <3>1. SUFFICES ASSUME m + 1 >= k PROVE g[m + 1] = g[k]
      BY <2>1
    <3>2. CASE m + 1 = k
      BY <3>2
    <3>3. CASE m >= k
      <4>1. m + 1 \in 1 .. n /\ m + 1 - 1 = m /\ ~(m + 1 <= k) /\ m \in 0 .. n
        BY <2>1, <3>3
      <4>2. t[m + 1] = 0
        BY <4>1
      <4>3. g[m + 1] = g[m] + 0 /\ g[m] \in Int
        BY <1>2, <4>1, <4>2
      <4>4. g[m] = g[k]
        BY <2>3, <3>3
      <4>5. QED
        BY <4>3, <4>4
    <3>4. QED
      BY <2>1, <3>1, <3>2, <3>3
  <2>4. S \in SUBSET (0 .. n)
    OBVIOUS
  <2> HIDE DEF k
  <2> HIDE DEF S
  <2>5. \A m \in 0 .. n : m \in S
    BY <2>2, <2>3, <2>4, UpTo
  <2>6. n \in S
    BY <2>5
  <2>7. QED
    BY <2>1, <2>6 DEF S
<1>9. f[n] \in Int /\ g[k] \in Int
  BY <1>2, <1>3
<1>10. QED
  BY <1>7, <1>8, <1>9

\* The sum of the gains is the number of hits.
LEMMA GainsCounted ==
    ASSUME NEW R, NEW ids, NEW n \in Nat, NEW s \in [1 .. n -> Int], Len(s) = n,
           \A i \in 1 .. n : s[i] = IF ids[i] \in R THEN 1 ELSE 0
    PROVE  SumOver(s) = HitCount(R, ids, n)
<1> DEFINE f == Sums(s)
           P == {m \in 0 .. n : f[m] = HitCount(R, ids, m)}
<1>1. f[0] = 0 /\ \A i \in 1 .. n : f[i] = f[i - 1] + s[i]
  BY SumsAre
<1>2. SumOver(s) = f[n]
  BY DEF SumOver
<1> HIDE DEF f
<1>3. 0 \in P
  BY <1>1, HitsCounted
<1>4. ASSUME NEW m \in 0 .. n - 1, m \in P
      PROVE  m + 1 \in P
  <2>1. m \in Nat /\ m + 1 \in 1 .. n /\ m + 1 \in 0 .. n /\ m + 1 - 1 = m
    OBVIOUS
  <2>2. f[m + 1] = f[m] + s[m + 1] /\ f[m] = HitCount(R, ids, m)
    BY <1>1, <1>4, <2>1
  <2>3. HitCount(R, ids, m) \in Int
        /\ HitCount(R, ids, m + 1) = IF ids[m + 1] \in R THEN HitCount(R, ids, m) + 1
                                     ELSE HitCount(R, ids, m)
    <3>1. HitCount(R, ids, m) \in 0 .. m
      BY <2>1, HitsCounted
    <3>2. QED
      BY <2>1, <3>1, HitsNext
  <2>4. f[m + 1] = HitCount(R, ids, m + 1)
    BY <2>1, <2>2, <2>3
  <2>5. QED
    BY <2>1, <2>4
<1>5. P \in SUBSET (0 .. n)
  OBVIOUS
<1> HIDE DEF P
<1>6. \A m \in 0 .. n : m \in P
  BY <1>3, <1>4, <1>5, UpTo
<1>7. n \in P
  BY <1>6
<1>8. QED
  BY <1>2, <1>7 DEF P

\* NDCG is a share, and one just when there is a hit and no other place
\* precedes one.
LEMMA NdcgSound ==
    ASSUME NEW R, NEW T, NEW ids \in Seq(T), Len(ids) <= Len(Discount), NEW k \in Nat
    PROVE  /\ NdcgAt(R, ids, k) \in 0 .. One
           /\ NdcgAt(R, ids, k) = One <=> /\ \E p \in 1 .. Places(ids, k) : ids[p] \in R
                                         /\ HitsFirst(R, ids, Places(ids, k))
<1> DEFINE n == Places(ids, k)
           h == HitCount(R, ids, n)
           gains == [i \in DOMAIN TopOf(ids, k) |-> IF ids[i] \in R THEN 1 ELSE 0]
           best  == [i \in DOMAIN gains |-> IF i <= SumOver(gains) THEN 1 ELSE 0]
           s == [i \in DOMAIN gains |-> gains[i] * Discount[i]]
           t == [i \in DOMAIN best |-> best[i] * Discount[i]]
           ndcg == NdcgAt(R, ids, k)
<1>1. ndcg = IF SumOver(gains) = 0 THEN 0 ELSE (One * SumOver(s)) \div SumOver(t)
  BY DEF NdcgAt, Dcg
<1>2. n \in Nat /\ n <= Len(ids) /\ DOMAIN TopOf(ids, k) = 1 .. n
  <2>1. Len(ids) \in Nat
    BY LenProperties
  <2>2. n \in 0 .. Len(ids) /\ DOMAIN TopOf(ids, k) = 1 .. n
    BY HitsAre
  <2>3. QED
    BY <2>1, <2>2
<1>3. n <= Len(Discount) /\ \A i \in 1 .. n : Discount[i] \in Nat
  <2>1. Len(Discount) \in Nat /\ DOMAIN Discount = 1 .. Len(Discount)
        /\ Discount \in Seq(Nat \ {0}) /\ Len(ids) \in Nat
    BY MetricsAssumption, LenProperties DEF MetricsAssumption
  <2>2. n <= Len(Discount)
    BY <1>2, <2>1
  <2> HIDE DEF n
  <2>3. \A i \in 1 .. n : i \in 1 .. Len(Discount)
    BY <1>2, <2>1, <2>2
  <2>4. QED
    BY <2>1, <2>2, <2>3, ElementOfSeq
<1> HIDE DEF n, ndcg
<1>4. gains \in [1 .. n -> Int] /\ \A i \in 1 .. n : gains[i] = IF ids[i] \in R THEN 1 ELSE 0
  BY <1>2
<1> HIDE DEF gains
<1>5. DOMAIN gains = 1 .. n /\ Len(gains) = n
  BY <1>2, <1>4, ListOf
<1>6. SumOver(gains) = h
  BY <1>2, <1>4, <1>5, GainsCounted
<1>7. h \in 0 .. n
  BY <1>2, HitsCounted
<1>8. best \in [1 .. n -> Int] /\ \A i \in 1 .. n : best[i] = IF i <= h THEN 1 ELSE 0
  BY <1>5, <1>6
<1> HIDE DEF best
<1>9. /\ s = [i \in 1 .. n |-> gains[i] * Discount[i]]
      /\ t = [i \in 1 .. n |-> best[i] * Discount[i]]
  BY <1>5, <1>8
<1> HIDE DEF s, t, h
<1>10. \A i \in 1 .. n : /\ s[i] = IF ids[i] \in R THEN Discount[i] ELSE 0
                         /\ t[i] = IF i <= h THEN Discount[i] ELSE 0
                         /\ s[i] \in Int /\ t[i] \in Int
  <2> SUFFICES ASSUME NEW i \in 1 .. n
               PROVE  /\ s[i] = IF ids[i] \in R THEN Discount[i] ELSE 0
                      /\ t[i] = IF i <= h THEN Discount[i] ELSE 0
                      /\ s[i] \in Int /\ t[i] \in Int
    OBVIOUS
  <2>1. s[i] = gains[i] * Discount[i] /\ t[i] = best[i] * Discount[i] /\ Discount[i] \in Nat
    BY <1>3, <1>9
  <2>2. gains[i] = (IF ids[i] \in R THEN 1 ELSE 0) /\ best[i] = IF i <= h THEN 1 ELSE 0
    BY <1>4, <1>8
  <2>3. s[i] = (IF ids[i] \in R THEN Discount[i] ELSE 0) /\ s[i] \in Int
    BY <2>1, <2>2
  <2>4. t[i] = (IF i <= h THEN Discount[i] ELSE 0) /\ t[i] \in Int
    BY <2>1, <2>2
  <2>5. QED
    BY <2>3, <2>4
<1>11. s \in [1 .. n -> Int] /\ t \in [1 .. n -> Int] /\ Len(s) = n /\ Len(t) = n
  <2>1. s \in [1 .. n -> Int] /\ t \in [1 .. n -> Int]
    BY <1>9, <1>10
  <2>2. QED
    BY <1>2, <2>1, ListOf
<1> DEFINE f == Sums(s)
           g == Sums(t)
<1>12. SumOver(s) = f[n] /\ SumOver(t) = g[n]
  BY <1>11 DEF SumOver
<1>13. SumsTo(s, f, n) /\ SumsTo(t, g, n)
  BY <1>2, <1>11, SumsAre DEF SumsTo
<1> HIDE DEF f, g
<1>14. /\ f[n] \in Nat /\ g[n] \in Nat /\ f[n] <= g[n]
       /\ f[n] = g[n] <=> HitsFirst(R, ids, n)
       /\ f[n] = 0 <=> h = 0
  BY <1>2, <1>3, <1>10, <1>13, GainsDiscounted DEF h
<1>15. h = 0 <=> \A p \in 1 .. n : ids[p] \notin R
  BY <1>2, HitsGrow DEF h
<1>16. CASE h = 0
  BY <1>1, <1>6, <1>15, <1>16 DEF One, ndcg, n
<1>17. CASE h # 0
  <2>1. g[n] \in Nat \ {0}
    BY <1>14, <1>17
  <2> DEFINE a == f[n]
             b == g[n]
  <2>2. a \in Nat /\ b \in Nat \ {0} /\ a <= b
    BY <1>14, <2>1
  <2> HIDE DEF a, b
  <2>3. /\ (One * a) \div b \in 0 .. One
        /\ (One * a) \div b = One <=> a = b
    BY <2>2, Fraction
  <2>4. ndcg = (One * a) \div b
    BY <1>1, <1>6, <1>12, <1>17 DEF a, b
  <2>5. QED
    BY <1>14, <1>15, <1>17, <2>3, <2>4 DEF a, b, ndcg, n
<1>18. QED
  BY <1>16, <1>17

\* When nothing better could be shown, no other result precedes a hit.
LEMMA BestPrecisionBestOrder ==
    ASSUME NEW R, IsFiniteSet(R), R # {}, NEW T, NEW ids \in Seq(T),
           \A i, j \in DOMAIN ids : ids[i] = ids[j] => i = j, Len(ids) <= Len(Discount),
           NEW k \in Nat, AveragePrecisionAt(R, ids, k) = One
    PROVE  NdcgAt(R, ids, k) = One
<1> DEFINE a == Attainable(R, k)
           n == Places(ids, k)
           h == HitCount(R, ids, n)
           c == Cardinality(R)
<1>1. k > 0 /\ \A p \in 1 .. a : p \in DOMAIN ids /\ ids[p] \in R
  BY AveragePrecisionSound
<1>2. Len(ids) \in Nat /\ DOMAIN ids = 1 .. Len(ids)
  BY LenProperties
<1>3. c \in Nat /\ c # 0
  BY FS_CardinalityType, FS_EmptySet
<1>4. a \in Nat /\ a > 0 /\ \A m \in Nat : m <= c /\ m <= k => m <= a
  BY <1>1, <1>3 DEF Attainable
<1>5. n \in Nat /\ n <= Len(ids) /\ n <= k /\ n > 0
  <2>1. 1 \in DOMAIN ids
    BY <1>1, <1>4
  <2>2. QED
    BY <1>1, <1>2, <2>1 DEF Places
<1>6. h \in 0 .. n
  BY <1>5, HitsCounted
<1>7. h <= c
  <2>1. \A i, j \in 1 .. n : ids[i] = ids[j] => i = j
    BY <1>2, <1>5
  <2>2. QED
    BY <1>5, <2>1, HitsDistinct
<1> HIDE DEF a, n, h, c
<1>8. h <= a
  BY <1>4, <1>5, <1>6, <1>7
<1>9. \A p \in 1 .. h : ids[p] \in R
  BY <1>1, <1>4, <1>6, <1>8
<1>10. HitsFirst(R, ids, n)
  BY <1>5, <1>9, FirstAreHits DEF h
<1>11. 1 \in 1 .. n /\ ids[1] \in R
  BY <1>1, <1>4, <1>5
<1>12. QED
  BY <1>10, <1>11, NdcgSound DEF n

----------------------------------------------------------------------------
(* The inductive invariant *)

\* The places of a body that are to be ranked: those the validator has let
\* through, all of them where it is not asked.
RankPlaces(b) ==
    {i \in DOMAIN b.resumes : Validated(b) => SentAs(b, i) \in AcceptedIds(b)}

\* The search of a body's index, under deployment d, passes over no entry.
Exact(b, d) == d.faiss => Len(ToRank(b)) < FlatLimit

\* What the retriever found for a body: as many of its places as there may
\* be, no place twice; only the cosine of embeddings may leave the scale.
CandidatesOK(b, cs, d) ==
    /\ cs \in Seq(Candidate)
    /\ Distinct(cs) /\ PlacesIn(cs) \subseteq RankPlaces(b)
    /\ Len(cs) <= TopK
    /\ Exact(b, d) => Len(cs) = Lesser(TopK, Cardinality(RankPlaces(b)))
    /\ ~d.faiss => InScale(cs)

\* As many results as were asked for, none for a place twice.
FullOf(b, results, d) ==
    /\ Len(results) <= Lesser(Wanted(b), TopK)
    /\ Exact(b, d) => Len(results) = Lesser(Wanted(b), Lesser(TopK, Cardinality(RankPlaces(b))))
    /\ Distinct(results) /\ PlacesIn(results) \subseteq RankPlaces(b)

RankingOK(b, results, d) ==
    /\ results \in Seq(Ranked) /\ FullOf(b, results, d)
    /\ Falling(results) /\ JudgedFirst(results)

\* What is promised of the results of /rank and of a job.
OutcomeOK(results) ==
    /\ results \in Seq(Outcome)
    /\ \A p \in DOMAIN results : results[p].rank = p - 1
    /\ HighApart(results) /\ WinnerFirst(results)

EndOK(c, d) ==
    /\ c.body \in Bodies
    /\ c.status = "failed" => RankPlaces(c.body) = {}
    /\ c.status = "ok" =>
        /\ FullOf(c.body, c.results, d) /\ Len(c.results) \in Nat
        /\ DOMAIN c.results = 1 .. Len(c.results)
        /\ \A p \in DOMAIN c.results : c.results[p].pos \in Nat
        /\ c.metrics = Judged(c.body, c.results)
        /\ c.body.kind # "evaluate" => OutcomeOK(c.results)

\* The local variables of a call, by where it stands.
Accepted  == [pc : {"accepted"}, body : Bodies]
Searching == [pc : {"retrieved", "asking"}, body : Bodies, candidates : Seq(Candidate)]
Told      == [pc : {"storing", "answered"}, body : Bodies, candidates : Seq(Candidate),
              answer : Answers \cup {NoAnswer}, replayed : BOOLEAN]
Sorted    == [pc : {"ranked"}, body : Bodies, ranking : Seq(Ranked)]

CallOK(c, d) ==
    \/ c = Idle
    \/ c \in Accepted
    \/ c \in Searching /\ CandidatesOK(c.body, c.candidates, d)
                       /\ (c.pc = "asking" => d.reranker = "hosted")
    \/ c \in Told /\ CandidatesOK(c.body, c.candidates, d) /\ d.reranker = "hosted"
                  /\ (c.pc = "storing" => c.answer \in Answers /\ Storable(c.answer))
    \/ c \in Sorted /\ RankingOK(c.body, c.ranking, d)
    \/ c.pc = "done" /\ EndOK(c, d)

\* Only answers that may be replayed are in the table.
TableOK == \A key \in DOMAIN aiCache : aiCache[key] \in Answers /\ Storable(aiCache[key])

IInv ==
    /\ deployed \in Deployments
    /\ TableOK
    /\ call = [r \in Calls |-> call[r]]
    /\ \A r \in Calls : CallOK(call[r], deployed)

----------------------------------------------------------------------------
(* What a body makes of the operators *)

BodyType == [kind : {"rank", "batch", "evaluate"}, jd : Texts,
             resumes : Seq([id : Ids, text : Texts]), topN : Nat \ {0},
             skip : BOOLEAN, relevant : SUBSET Ids, ks : SUBSET Nat]

\* The parts of a body.
LEMMA BodyTyped ==
    ASSUME NEW b \in Bodies
    PROVE  /\ b.jd \in Texts /\ b.resumes \in Seq([id : Ids, text : Texts])
           /\ Len(b.resumes) \in Nat /\ DOMAIN b.resumes = 1 .. Len(b.resumes)
           /\ \A i \in DOMAIN b.resumes : b.resumes[i].id \in Ids /\ b.resumes[i].text \in Texts
           /\ Wanted(b) \in Nat
<1>1. b \in BodyType
  BY ScreeningAssumption DEF ScreeningAssumption, BodyType
<1>2. /\ b.jd \in Texts /\ b.resumes \in Seq([id : Ids, text : Texts])
      /\ b.topN \in Nat
  BY <1>1 DEF BodyType
<1>3. Len(b.resumes) \in Nat /\ DOMAIN b.resumes = 1 .. Len(b.resumes)
  BY <1>2, LenProperties
<1>4. \A i \in DOMAIN b.resumes : b.resumes[i] \in [id : Ids, text : Texts]
  BY <1>2, <1>3, ElementOfSeq
<1>5. Wanted(b) \in Nat
  BY <1>2, <1>3 DEF Wanted
<1>6. QED
  BY <1>2, <1>3, <1>4, <1>5

\* The places to rank are places of the body.
LEMMA PlacesFinite ==
    ASSUME NEW b \in Bodies
    PROVE  /\ RankPlaces(b) \subseteq DOMAIN b.resumes /\ RankPlaces(b) \subseteq Nat
           /\ IsFiniteSet(RankPlaces(b)) /\ Cardinality(RankPlaces(b)) \in Nat
           /\ ~Validated(b) => Cardinality(RankPlaces(b)) = Len(b.resumes)
<1>1. Len(b.resumes) \in Nat /\ DOMAIN b.resumes = 1 .. Len(b.resumes)
  BY BodyTyped
<1>2. IsFiniteSet(DOMAIN b.resumes) /\ Cardinality(DOMAIN b.resumes) = Len(b.resumes)
  BY <1>1, FS_Interval
<1>3. RankPlaces(b) \in SUBSET DOMAIN b.resumes
  BY DEF RankPlaces
<1>4. IsFiniteSet(RankPlaces(b)) /\ Cardinality(RankPlaces(b)) \in Nat
  BY <1>2, <1>3, FS_Subset, FS_CardinalityType
<1>5. ~Validated(b) => RankPlaces(b) = DOMAIN b.resumes
  BY DEF RankPlaces
<1>6. QED
  BY <1>1, <1>2, <1>3, <1>4, <1>5

Resume == [pos : Nat, id : Ids, text : Texts]

\* What is passed to the pipeline: the places to rank, each of them once.
LEMMA ToRankKeeps ==
    ASSUME NEW b \in Bodies
    PROVE  /\ ToRank(b) \in Seq(Resume) /\ Len(ToRank(b)) = Cardinality(RankPlaces(b))
           /\ Distinct(ToRank(b)) /\ PlacesIn(ToRank(b)) \subseteq RankPlaces(b)
<1> DEFINE k == Len(b.resumes)
           placed == [i \in DOMAIN b.resumes |->
                         [pos |-> i, id |-> b.resumes[i].id, text |-> b.resumes[i].text]]
           t == ToRank(b)
           places == RankPlaces(b)
<1>1. /\ k \in Nat /\ DOMAIN b.resumes = 1 .. k
      /\ \A i \in DOMAIN b.resumes : b.resumes[i].id \in Ids /\ b.resumes[i].text \in Texts
  BY BodyTyped
<1>2. t = IF Validated(b) THEN Submitted(placed, Verdict(b)) ELSE placed
  BY DEF ToRank
<1>3. placed \in [1 .. k -> Resume]
  BY <1>1 DEF Resume
<1>4. \A i \in 1 .. k : placed[i].pos = i /\ placed[i].id = b.resumes[i].id
  BY <1>1
<1>5. places \in SUBSET (1 .. k) /\ Cardinality(places) \in Nat
      /\ (~Validated(b) => places = 1 .. k /\ Cardinality(places) = k)
  BY <1>1, PlacesFinite DEF RankPlaces
<1> HIDE DEF placed, t, k
<1>6. placed \in Seq(Resume) /\ Len(placed) = k /\ DOMAIN placed = 1 .. k
  BY <1>1, <1>3, ListOf
<1>7. CASE ~Validated(b)
  <2>1. t = placed
    BY <1>2, <1>7
  <2>2. Distinct(placed)
    BY <1>4, <1>6 DEF Distinct
  <2>3. PlacesIn(placed) \subseteq places
    BY <1>4, <1>5, <1>6, <1>7 DEF PlacesIn
  <2>4. QED
    BY <1>5, <1>6, <1>7, <2>1, <2>2, <2>3 DEF t
<1>8. CASE Validated(b)
  <2> DEFINE valid == {c.id : c \in ToSet(Verdict(b).cleaned)}
             chosen == {i \in DOMAIN placed : placed[i].id \in valid}
  <2>1. t = Kept(placed, chosen)
    BY <1>2, <1>8 DEF Submitted
  <2>2. valid = AcceptedIds(b)
    BY DEF AcceptedIds
  <2> HIDE DEF valid
  <2>3. chosen = places
    BY <1>1, <1>4, <1>6, <1>8, <2>2 DEF RankPlaces, SentAs
  <2> HIDE DEF chosen, places
  <2>4. places \in SUBSET (DOMAIN placed)
    BY <1>5, <1>6
  <2>5. t \in Seq(Resume) /\ Len(t) = Cardinality(places)
    BY <1>6, <2>1, <2>3, <2>4, KeptPlaces
  <2>6. PICK at : Keeps(placed, places, at, t)
    BY <1>6, <2>1, <2>3, <2>4, KeptPlaces
  <2>7. DOMAIN t = 1 .. Cardinality(places)
    BY <1>5, <2>5, LenProperties
  <2>8. \A p \in DOMAIN t : t[p].pos = at[p] /\ at[p] \in places
    BY <1>4, <1>5, <2>6, <2>7 DEF Keeps
  <2>9. Distinct(t)
    BY <2>6, <2>7, <2>8 DEF Distinct, Keeps
  <2>10. PlacesIn(t) \subseteq places
    BY <2>8 DEF PlacesIn
  <2>11. QED
    BY <2>5, <2>9, <2>10 DEF t, places
<1>9. QED
  BY <1>7, <1>8

\* Word overlap stays within the scale.
LEMMA SimilarityTyped ==
    ASSUME NEW jd \in Texts, NEW text \in Texts
    PROVE  /\ Similarity(jd, text) \in Int
           /\ ~deployed.faiss => Similarity(jd, text) \in 0 .. Unit
<1>1. CASE deployed.faiss
  BY <1>1, ScreeningAssumption DEF ScreeningAssumption, Similarity
<1>2. CASE ~deployed.faiss
  <2>1. Similarity(jd, text) \in 0 .. Unit
    BY <1>2, Overlap DEF Similarity
  <2>2. QED
    BY <1>2, <2>1, Scale
<1>3. QED
  BY <1>1, <1>2

\* The entries of the index, in the order of the body.
LEMMA EntriesOK ==
    ASSUME NEW b \in Bodies
    PROVE  /\ Entries(b) \in Seq(Candidate) /\ Distinct(Entries(b))
           /\ DOMAIN Entries(b) = DOMAIN ToRank(b)
           /\ Len(Entries(b)) = Cardinality(RankPlaces(b))
           /\ PlacesIn(Entries(b)) \subseteq RankPlaces(b)
           /\ ~deployed.faiss => InScale(Entries(b))
<1> DEFINE rs == ToRank(b)
           entry(r) == [pos |-> r.pos, id |-> r.id, text |-> r.text,
                        emb |-> Similarity(b.jd, r.text)]
           cs == [i \in DOMAIN rs |-> entry(rs[i])]
           k == Len(rs)
<1>1. /\ rs \in Seq(Resume) /\ k = Cardinality(RankPlaces(b))
      /\ Distinct(rs) /\ PlacesIn(rs) \subseteq RankPlaces(b)
  BY ToRankKeeps
<1>2. Entries(b) = cs
  BY DEF Entries
<1> HIDE DEF rs
<1>3. k \in Nat /\ DOMAIN rs = 1 .. k /\ \A i \in 1 .. k : rs[i] \in Resume
  BY <1>1, LenProperties, ElementOfSeq
<1>4. ASSUME NEW i \in 1 .. k
      PROVE  /\ entry(rs[i]) \in Candidate /\ entry(rs[i]).pos = rs[i].pos
             /\ ~deployed.faiss => entry(rs[i]).emb \in 0 .. Unit
  <2> DEFINE e == Similarity(b.jd, rs[i].text)
  <2>1. rs[i] \in Resume
    BY <1>3
  <2>2. b.jd \in Texts /\ rs[i].text \in Texts
    BY <2>1, BodyTyped DEF Resume
  <2>3. e \in Int /\ (~deployed.faiss => e \in 0 .. Unit)
    BY <2>2, SimilarityTyped
  <2> HIDE DEF e
  <2>4. /\ [pos |-> rs[i].pos, id |-> rs[i].id, text |-> rs[i].text, emb |-> e] \in Candidate
    BY <2>1, <2>3 DEF Resume, Candidate
  <2>5. QED
    BY <2>3, <2>4 DEF e
<1> HIDE DEF entry
<1>5. cs \in [1 .. k -> Candidate] /\ \A i \in 1 .. k : cs[i] = entry(rs[i])
  BY <1>3, <1>4
<1> HIDE DEF cs
<1>6. cs \in Seq(Candidate) /\ Len(cs) = k /\ DOMAIN cs = 1 .. k
  BY <1>3, <1>5, ListOf
<1>7. Distinct(cs)
  BY <1>1, <1>3, <1>4, <1>5, <1>6 DEF Distinct
<1>8. PlacesIn(cs) \subseteq PlacesIn(rs)
  BY <1>3, <1>4, <1>5, <1>6 DEF PlacesIn
<1>9. ~deployed.faiss => InScale(cs)
  BY <1>4, <1>5, <1>6 DEF InScale
<1>10. QED
  BY <1>1, <1>2, <1>3, <1>6, <1>7, <1>8, <1>9 DEF rs

\* What is kept of a list of candidates are candidates of it.
LEMMA KeptCandidates ==
    ASSUME NEW cs \in Seq(Candidate), Distinct(cs), NEW seen \in SUBSET (DOMAIN cs)
    PROVE  LET ks == Kept(cs, seen)
           IN  /\ ks \in Seq(Candidate) /\ Len(ks) = Cardinality(seen) /\ Distinct(ks)
               /\ PlacesIn(ks) \subseteq PlacesIn(cs) /\ (InScale(cs) => InScale(ks))
<1> DEFINE ks == Kept(cs, seen)
<1>1. Cardinality(seen) \in Nat /\ ks \in Seq(Candidate) /\ Len(ks) = Cardinality(seen)
  BY KeptPlaces
<1>2. PICK at : Keeps(cs, seen, at, ks)
  BY KeptPlaces
<1>3. DOMAIN ks = 1 .. Cardinality(seen)
  BY <1>1, LenProperties
<1> HIDE DEF ks
<1>4. /\ at \in [1 .. Cardinality(seen) -> seen] /\ \A p \in DOMAIN ks : ks[p] = cs[at[p]]
      /\ \A p, q \in DOMAIN ks : at[p] = at[q] => p = q
  BY <1>2, <1>3 DEF Keeps
<1>5. \A p \in DOMAIN ks : at[p] \in DOMAIN cs
  BY <1>3, <1>4
<1>6. Distinct(ks)
  BY <1>4, <1>5 DEF Distinct
<1>7. PlacesIn(ks) \subseteq PlacesIn(cs)
  BY <1>4, <1>5 DEF PlacesIn
<1>8. InScale(cs) => InScale(ks)
  BY <1>4, <1>5 DEF InScale
<1>9. QED
  BY <1>1, <1>6, <1>7, <1>8 DEF ks

\* The retriever's candidates, whichever entries the search has seen.
LEMMA RetrievedOK ==
    ASSUME NEW b \in Bodies, NEW cs \in Retrievals(b)
    PROVE  CandidatesOK(b, cs, deployed)
<1> DEFINE es == Entries(b)
<1>1. PICK seen \in Seen(b) : cs = FirstOf(ByEmbedding(Kept(es, seen)), TopK)
  BY DEF Retrievals
<1>2. /\ es \in Seq(Candidate) /\ Distinct(es) /\ DOMAIN es = DOMAIN ToRank(b)
      /\ Len(es) = Cardinality(RankPlaces(b)) /\ PlacesIn(es) \subseteq RankPlaces(b)
      /\ ~deployed.faiss => InScale(es)
  BY EntriesOK
<1>3. TopK \in Nat
  BY RerankingAssumption DEF RerankingAssumption
<1>4. seen \in SUBSET (DOMAIN es) /\ (Exact(b, deployed) => seen = DOMAIN es)
  <2>1. Len(ToRank(b)) \in Nat /\ FlatLimit \in Nat
    BY ToRankKeeps, PlacesFinite, ScreeningAssumption DEF ScreeningAssumption
  <2>2. Exact(b, deployed) => ~Approximate(b)
    BY <2>1 DEF Exact, Approximate
  <2>3. QED
    BY <1>2, <2>2 DEF Seen
<1>5. Len(es) \in Nat /\ Cardinality(DOMAIN es) = Len(es)
  BY <1>2, LenProperties, FS_Interval
<1> HIDE DEF es
<1> DEFINE ks == Kept(es, seen)
           s  == ByEmbedding(ks)
           f  == FirstOf(s, TopK)
<1>6. /\ ks \in Seq(Candidate) /\ Len(ks) = Cardinality(seen) /\ Distinct(ks)
      /\ PlacesIn(ks) \subseteq PlacesIn(es) /\ (InScale(es) => InScale(ks))
  BY <1>2, <1>4, KeptCandidates
<1> HIDE DEF ks
<1>7. /\ s \in Seq(Candidate) /\ Len(s) = Len(ks) /\ Distinct(s)
      /\ PlacesIn(s) \subseteq PlacesIn(ks) /\ (InScale(ks) => InScale(s))
  BY <1>6, ByEmbeddingKeeps
<1> HIDE DEF s
<1>8. /\ f \in Seq(Candidate) /\ Len(f) = Lesser(TopK, Len(s)) /\ Distinct(f)
      /\ PlacesIn(f) \subseteq PlacesIn(s) /\ (InScale(s) => InScale(f))
  BY <1>3, <1>7, FirstOfKeeps
<1>9. cs = f
  BY <1>1 DEF ks, s
<1> HIDE DEF f
<1>10. Len(f) <= TopK
  <2>1. Len(s) \in Nat
    BY <1>7, LenProperties
  <2>2. QED
    BY <1>3, <1>8, <2>1 DEF Lesser
<1>11. Exact(b, deployed) => Len(f) = Lesser(TopK, Cardinality(RankPlaces(b)))
  BY <1>2, <1>4, <1>5, <1>6, <1>7, <1>8
<1>12. PlacesIn(f) \subseteq RankPlaces(b)
  BY <1>2, <1>6, <1>7, <1>8
<1>13. ~deployed.faiss => InScale(f)
  BY <1>2, <1>6, <1>7, <1>8
<1>14. QED
  BY <1>8, <1>9, <1>10, <1>11, <1>12, <1>13 DEF CandidatesOK

\* A ranking of the candidates is a ranking of the body.
LEMMA RankingIsOK ==
    ASSUME NEW b \in Bodies, NEW d, NEW cs, CandidatesOK(b, cs, d),
           NEW rs, RankingOf(cs, Wanted(b), rs)
    PROVE  RankingOK(b, rs, d)
<1>1. Wanted(b) \in Nat /\ TopK \in Nat
  BY BodyTyped, RerankingAssumption DEF RerankingAssumption
<1>2. Len(cs) \in Nat /\ Len(cs) <= TopK /\ Len(rs) = Lesser(Wanted(b), Len(cs))
  BY LenProperties DEF CandidatesOK, RankingOf
<1>3. Len(rs) <= Lesser(Wanted(b), TopK)
  BY <1>1, <1>2 DEF Lesser
<1>4. QED
  BY <1>2, <1>3 DEF CandidatesOK, RankingOf, RankingOK, FullOf

----------------------------------------------------------------------------
(* The steps *)

\* A step of one call that leaves the invariant of the call and of the table.
LEMMA Moves ==
    ASSUME IInv, NEW r \in Calls, NEW c, call' = [call EXCEPT ![r] = c],
           CallOK(c, deployed), deployed' = deployed, TableOK'
    PROVE  IInv'
<1>1. call = [x \in Calls |-> call[x]] /\ deployed \in Deployments
      /\ \A x \in Calls : CallOK(call[x], deployed)
  BY DEF IInv
<1>2. call' = [x \in Calls |-> IF x = r THEN c ELSE call[x]]
  BY <1>1, Zenon
<1>3. call' = [x \in Calls |-> call'[x]]
  BY <1>2
<1>4. \A x \in Calls : CallOK(call'[x], deployed)
  BY <1>1, <1>2
<1>5. QED
  BY <1>1, <1>3, <1>4 DEF IInv

\* The table stays as it was.
LEMMA MovesOnly ==
    ASSUME IInv, NEW r \in Calls, NEW c, call' = [call EXCEPT ![r] = c],
           CallOK(c, deployed), UNCHANGED <<deployed, aiCache>>
    PROVE  IInv'
<1>1. TableOK'
  BY DEF IInv, TableOK
<1>2. QED
  BY <1>1, Moves

\* A call where its local variables are known.
LEMMA CallFacts ==
    ASSUME IInv, NEW r \in Calls
    PROVE  /\ CallOK(call[r], deployed)
           /\ call[r].pc = "accepted" => call[r] \in Accepted
           /\ call[r].pc \in {"retrieved", "asking"} =>
                  /\ call[r] \in Searching
                  /\ CandidatesOK(call[r].body, call[r].candidates, deployed)
                  /\ call[r].pc = "asking" => deployed.reranker = "hosted"
           /\ call[r].pc \in {"storing", "answered"} =>
                  /\ call[r] \in Told /\ deployed.reranker = "hosted"
                  /\ CandidatesOK(call[r].body, call[r].candidates, deployed)
                  /\ call[r].pc = "storing" => call[r].answer \in Answers /\ Storable(call[r].answer)
           /\ call[r].pc = "ranked" =>
                  /\ call[r] \in Sorted /\ RankingOK(call[r].body, call[r].ranking, deployed)
           /\ call[r].pc = "done" => EndOK(call[r], deployed)
<1> DEFINE c == call[r]
<1>1. CallOK(c, deployed)
  BY DEF IInv
<1> HIDE DEF c
<1>2. /\ c = Idle => c.pc = "new"
      /\ c \in Accepted => c.pc = "accepted"
      /\ c \in Searching => c.pc \in {"retrieved", "asking"}
      /\ c \in Told => c.pc \in {"storing", "answered"}
      /\ c \in Sorted => c.pc = "ranked"
  BY DEF Idle, Accepted, Searching, Told, Sorted
<1>3. /\ c.pc = "accepted" => c \in Accepted
      /\ c.pc \in {"retrieved", "asking"} =>
             /\ c \in Searching /\ CandidatesOK(c.body, c.candidates, deployed)
             /\ c.pc = "asking" => deployed.reranker = "hosted"
      /\ c.pc \in {"storing", "answered"} =>
             /\ c \in Told /\ CandidatesOK(c.body, c.candidates, deployed)
             /\ deployed.reranker = "hosted"
             /\ c.pc = "storing" => c.answer \in Answers /\ Storable(c.answer)
      /\ c.pc = "ranked" => c \in Sorted /\ RankingOK(c.body, c.ranking, deployed)
      /\ c.pc = "done" => EndOK(c, deployed)
  BY <1>1, <1>2 DEF CallOK
<1>4. QED
  BY <1>1, <1>3 DEF c

\* A refused call ends without results.
LEMMA RefuseStep ==
    ASSUME IInv, NEW r \in Calls, NEW b \in Bodies, Refuse(r, b)
    PROVE  IInv'
<1> DEFINE c == [pc |-> "done", body |-> b, status |-> "invalid",
                 results |-> <<>>, metrics |-> NoList]
<1>1. CallOK(c, deployed)
  BY DEF CallOK, EndOK
<1>2. call' = [call EXCEPT ![r] = c] /\ UNCHANGED <<deployed, aiCache>>
  BY DEF Refuse
<1> HIDE DEF c
<1>3. QED
  BY <1>1, <1>2, MovesOnly

\* An accepted call holds its body.
LEMMA AcceptStep ==
    ASSUME IInv, NEW r \in Calls, NEW b \in Bodies, Accept(r, b)
    PROVE  IInv'
<1> DEFINE c == [pc |-> "accepted", body |-> b]
<1>1. CallOK(c, deployed)
  BY DEF CallOK, Accepted
<1>2. call' = [call EXCEPT ![r] = c] /\ UNCHANGED <<deployed, aiCache>>
  BY DEF Accept
<1> HIDE DEF c
<1>3. QED
  BY <1>1, <1>2, MovesOnly

\* Nothing is left to rank: no place has an accepted id.
LEMMA FailEmptyStep ==
    ASSUME IInv, NEW r \in Calls, FailEmpty(r)
    PROVE  IInv'
<1> DEFINE b == call[r].body
           c == [pc |-> "done", body |-> b, status |-> "failed",
                 results |-> <<>>, metrics |-> NoList]
<1>1. b \in Bodies
  BY CallFacts DEF FailEmpty, Accepted
<1>2. ToRank(b) = <<>>
  BY DEF FailEmpty
<1>3. call' = [call EXCEPT ![r] = c] /\ UNCHANGED <<deployed, aiCache>>
  BY DEF FailEmpty, Ends
<1> HIDE DEF b
<1>4. RankPlaces(b) = {}
  <2>1. Cardinality(RankPlaces(b)) = 0
    BY <1>1, <1>2, ToRankKeeps, EmptySeq
  <2>2. QED
    BY <1>1, <2>1, PlacesFinite, FS_EmptySet
<1>5. CallOK(c, deployed)
  BY <1>1, <1>4 DEF CallOK, EndOK
<1> HIDE DEF c
<1>6. QED
  BY <1>3, <1>5, MovesOnly

\* The candidates are those of the call's body.
LEMMA RetrieveStep ==
    ASSUME IInv, NEW r \in Calls, Retrieve(r)
    PROVE  IInv'
<1> DEFINE b == call[r].body
<1>1. b \in Bodies
  BY CallFacts DEF Retrieve, Accepted
<1>2. PICK cs \in Retrievals(b) :
          call' = [call EXCEPT ![r] = [pc |-> "retrieved", body |-> @.body, candidates |-> cs]]
  BY DEF Retrieve
<1> DEFINE c == [pc |-> "retrieved", body |-> b, candidates |-> cs]
<1>3. call' = [call EXCEPT ![r] = c] /\ UNCHANGED <<deployed, aiCache>>
  BY <1>2 DEF Retrieve
<1> HIDE DEF b
<1>4. CandidatesOK(b, cs, deployed)
  BY <1>1, <1>2, RetrievedOK
<1>5. cs \in Seq(Candidate)
  BY <1>4 DEF CandidatesOK
<1>6. c \in Searching /\ c.body = b /\ c.candidates = cs /\ c.pc # "asking"
  BY <1>1, <1>5 DEF Searching
<1>7. CallOK(c, deployed)
  BY <1>4, <1>6 DEF CallOK
<1> HIDE DEF c
<1>8. QED
  BY <1>3, <1>7, MovesOnly

\* Only beside a local model can there be an index by FAISS.
LEMMA LexicalIndex ==
    ASSUME IInv, deployed.reranker \in {"hosted", "lexical"}
    PROVE  ~deployed.faiss
BY ScreeningAssumption DEF ScreeningAssumption, IInv

\* Whatever the reranker, its results are a ranking of the body.
LEMMA RanksStep ==
    ASSUME IInv, NEW r \in Calls, NEW results, call[r].body \in Bodies,
           CandidatesOK(call[r].body, call[r].candidates, deployed),
           RankingOf(call[r].candidates, Wanted(call[r].body), results), Ranks(r, results)
    PROVE  IInv'
<1> DEFINE b == call[r].body
           c == [pc |-> "ranked", body |-> b, ranking |-> results]
<1>1. RankingOK(b, results, deployed)
  BY RankingIsOK
<1>2. call' = [call EXCEPT ![r] = c] /\ UNCHANGED <<deployed, aiCache>>
  BY DEF Ranks
<1>3. b \in Bodies
  OBVIOUS
<1> HIDE DEF b
<1>4. results \in Seq(Ranked)
  BY <1>1 DEF RankingOK
<1>5. c \in Sorted /\ c.body = b /\ c.ranking = results
  BY <1>3, <1>4 DEF Sorted
<1>6. CallOK(c, deployed)
  BY <1>1, <1>5 DEF CallOK
<1> HIDE DEF c
<1>7. QED
  BY <1>2, <1>6, MovesOnly

\* The ranking of the lexical reranker.
LEMMA RerankLexicallyStep ==
    ASSUME IInv, NEW r \in Calls, RerankLexically(r)
    PROVE  IInv'
<1> DEFINE b  == call[r].body
           cs == call[r].candidates
<1>1. call[r].pc = "retrieved" /\ deployed.reranker = "lexical"
      /\ Ranks(r, LexicalRerank(cs, Wanted(b)))
  BY DEF RerankLexically
<1>2. b \in Bodies /\ CandidatesOK(b, cs, deployed)
  BY <1>1, CallFacts DEF Searching
<1>3. Wanted(b) \in Nat
  BY <1>2, BodyTyped
<1>4. cs \in Seq(Candidate) /\ Distinct(cs) /\ InScale(cs)
  BY <1>1, <1>2, LexicalIndex DEF CandidatesOK
<1>5. RankingOf(cs, Wanted(b), LexicalRerank(cs, Wanted(b)))
  BY <1>3, <1>4, LexicalRanks
<1>6. QED
  BY <1>1, <1>2, <1>5, RanksStep

\* The ranking of a local model, whatever it scores.
LEMMA RerankLocallyStep ==
    ASSUME IInv, NEW r \in Calls, RerankLocally(r)
    PROVE  IInv'
<1> DEFINE b  == call[r].body
           cs == call[r].candidates
           w  == IF deployed.reranker = "cross" THEN 3 ELSE 2
<1>1. call[r].pc = "retrieved"
  BY DEF RerankLocally
<1>2. PICK scores \in [DOMAIN cs -> LocalScores] :
          \E results \in LocalReranks(cs, Wanted(b), w, scores) : Ranks(r, results)
  BY DEF RerankLocally
<1>3. PICK results \in LocalReranks(cs, Wanted(b), w, scores) : Ranks(r, results)
  BY <1>2
<1>4. b \in Bodies /\ CandidatesOK(b, cs, deployed)
  BY <1>1, CallFacts DEF Searching
<1>5. Wanted(b) \in Nat
  BY <1>4, BodyTyped
<1>6. cs \in Seq(Candidate) /\ Distinct(cs) /\ Len(cs) <= TopK
  BY <1>4 DEF CandidatesOK
<1>7. w \in {2, 3}
  OBVIOUS
<1>8. scores \in [DOMAIN cs -> 0 .. Unit]
  BY ScreeningAssumption DEF ScreeningAssumption
<1> HIDE DEF w
<1>9. RankingOf(cs, Wanted(b), results)
  BY <1>3, <1>5, <1>6, <1>7, <1>8, LocalRanks
<1>10. QED
  BY <1>3, <1>4, <1>9, RanksStep

\* The answer is one the model may give; to be stored it must pass the test.
LEMMA ReceivesStep ==
    ASSUME IInv, NEW r \in Calls, call[r].pc \in {"retrieved", "asking"},
           deployed.reranker = "hosted",
           NEW answer \in Answers \cup {NoAnswer}, NEW replayed \in BOOLEAN,
           NEW place \in {"storing", "answered"},
           place = "storing" => answer \in Answers /\ Storable(answer),
           Receives(r, answer, replayed, place), UNCHANGED <<deployed, aiCache>>
    PROVE  IInv'
<1> DEFINE b  == call[r].body
           cs == call[r].candidates
           c  == [pc |-> place, body |-> b, candidates |-> cs,
                  answer |-> answer, replayed |-> replayed]
<1>1. call[r] \in Searching /\ CandidatesOK(b, cs, deployed)
  BY CallFacts
<1>2. b \in Bodies /\ cs \in Seq(Candidate)
  BY <1>1 DEF Searching
<1>3. call' = [call EXCEPT ![r] = c]
  BY DEF Receives
<1> HIDE DEF b, cs
<1>4. c \in Told /\ c.body = b /\ c.candidates = cs /\ c.answer = answer /\ c.pc = place
  BY <1>2 DEF Told
<1> HIDE DEF c
<1>5. CallOK(c, deployed)
  BY <1>1, <1>4 DEF CallOK, b, cs
<1>6. QED
  BY <1>3, <1>5, MovesOnly

\* What is in the table may be used.
LEMMA ReplayStep ==
    ASSUME IInv, NEW r \in Calls, Replay(r)
    PROVE  IInv'
<1> DEFINE a == aiCache[Prompt(r)]
<1>1. call[r].pc = "retrieved" /\ deployed.reranker = "hosted" /\ Prompt(r) \in DOMAIN aiCache
      /\ Receives(r, a, TRUE, "answered") /\ UNCHANGED <<deployed, aiCache>>
  BY DEF Replay
<1>2. a \in Answers
  BY <1>1 DEF IInv, TableOK
<1> HIDE DEF a
<1>3. QED
  BY <1>1, <1>2, ReceivesStep

\* Only an answer that may be stored goes to the table.
LEMMA ModelAnswersStep ==
    ASSUME IInv, NEW r \in Calls, NEW a \in Answers \cup {NoAnswer}, ModelAnswers(r, a)
    PROVE  IInv'
<1> DEFINE place == IF a # NoAnswer /\ deployed.database /\ Storable(a)
                    THEN "storing" ELSE "answered"
<1>1. call[r].pc = "asking" /\ Receives(r, a, FALSE, place) /\ UNCHANGED <<deployed, aiCache>>
  BY DEF ModelAnswers
<1>2. place \in {"storing", "answered"}
      /\ (place = "storing" => a \in Answers /\ Storable(a))
  OBVIOUS
<1> HIDE DEF place
<1>3. deployed.reranker = "hosted"
  BY <1>1, CallFacts
<1>4. QED
  BY <1>1, <1>2, <1>3, ReceivesStep

\* A call that asks keeps its candidates.
LEMMA AskStep ==
    ASSUME IInv, NEW r \in Calls, Ask(r)
    PROVE  IInv'
<1> DEFINE d == call[r]
           c == [d EXCEPT !.pc = "asking"]
<1>1. call[r].pc = "retrieved" /\ deployed.reranker = "hosted"
      /\ Goes(r, "asking") /\ UNCHANGED <<deployed, aiCache>>
  BY DEF Ask
<1>2. call' = [call EXCEPT ![r] = c]
  BY <1>1 DEF Goes
<1>3. d \in Searching /\ CandidatesOK(d.body, d.candidates, deployed)
  BY <1>1, CallFacts
<1> HIDE DEF d
<1>4. c \in Searching /\ c.body = d.body /\ c.candidates = d.candidates
  BY <1>3 DEF Searching
<1> HIDE DEF c
<1>5. CallOK(c, deployed)
  BY <1>1, <1>3, <1>4 DEF CallOK
<1>6. QED
  BY <1>1, <1>2, <1>5, MovesOnly

\* After the attempt to store, whether or not it has put the answer there.
LEMMA AfterStoring ==
    ASSUME IInv, NEW r \in Calls, call[r].pc = "storing", Goes(r, "answered"),
           deployed' = deployed, TableOK'
    PROVE  IInv'
<1> DEFINE d == call[r]
           c == [d EXCEPT !.pc = "answered"]
<1>1. call' = [call EXCEPT ![r] = c]
  BY DEF Goes
<1>2. /\ d \in Told /\ CandidatesOK(d.body, d.candidates, deployed)
      /\ deployed.reranker = "hosted"
  BY CallFacts
<1> HIDE DEF d
<1>3. c \in Told /\ c.body = d.body /\ c.candidates = d.candidates /\ c.pc = "answered"
  BY <1>2 DEF Told
<1> HIDE DEF c
<1>4. CallOK(c, deployed)
  BY <1>2, <1>3 DEF CallOK
<1>5. QED
  BY <1>1, <1>4, Moves

\* The table keeps what it has and takes the call's answer.
LEMMA StoreStep ==
    ASSUME IInv, NEW r \in Calls, StoreAnswer(r) \/ StoreFails(r)
    PROVE  IInv'
<1>1. call[r].pc = "storing" /\ Goes(r, "answered") /\ deployed' = deployed
  BY DEF StoreAnswer, StoreFails
<1>2. TableOK
  BY DEF IInv
<1>3. TableOK'
  <2>1. CASE StoreFails(r)
    BY <1>2, <2>1 DEF StoreFails, TableOK
  <2>2. CASE StoreAnswer(r)
    <3> DEFINE a == call[r].answer
               key == Prompt(r)
    <3>1. a \in Answers /\ Storable(a)
      BY <1>1, CallFacts
    <3>2. aiCache' = [k \in DOMAIN aiCache \cup {key} |->
                         IF k \in DOMAIN aiCache THEN aiCache[k] ELSE a]
      BY <2>2 DEF StoreAnswer
    <3> HIDE DEF a, key
    <3>3. QED
      BY <1>2, <3>1, <3>2 DEF TableOK
  <2>3. QED
    BY <2>1, <2>2
<1>4. QED
  BY <1>1, <1>3, AfterStoring

\* An answer of the model has the shape that the parser looks at.
LEMMA AnswerTyped == Answers \subseteq Answer
  BY ScreeningAssumption DEF ScreeningAssumption, Answer, Item

\* The ranking of the hosted model, whatever it answered.
LEMMA RerankHostedStep ==
    ASSUME IInv, NEW r \in Calls, RerankHosted(r)
    PROVE  IInv'
<1> DEFINE b  == call[r].body
           cs == call[r].candidates
           a  == call[r].answer
<1>1. call[r].pc = "answered" /\ Ranks(r, HostedRerank(cs, Wanted(b), a))
  BY DEF RerankHosted
<1>2. call[r] \in Told /\ CandidatesOK(b, cs, deployed)
  BY <1>1, CallFacts
<1>3. b \in Bodies /\ a \in Answers \cup {NoAnswer}
  BY <1>2 DEF Told
<1>4. Wanted(b) \in Nat /\ a \in Answer \cup {NoAnswer}
  BY <1>3, BodyTyped, AnswerTyped
<1>5. cs \in Seq(Candidate) /\ Distinct(cs) /\ InScale(cs)
  <2>1. ~deployed.faiss
    BY <1>1, CallFacts, LexicalIndex
  <2>2. QED
    BY <1>2, <2>1 DEF CandidatesOK
<1>6. RankingOf(cs, Wanted(b), HostedRerank(cs, Wanted(b), a))
  BY <1>4, <1>5, HostedRanks
<1>7. QED
  BY <1>1, <1>2, <1>3, <1>6, RanksStep

\* The answer of /rank: as many results, and what Score makes of them.
LEMMA RespondStep ==
    ASSUME IInv, NEW r \in Calls, Respond(r)
    PROVE  IInv'
<1> DEFINE b  == call[r].body
           rs == call[r].ranking
           out == Score(b.jd, rs)
           m  == Judged(b, out)
           c  == [pc |-> "done", body |-> b, status |-> "ok", results |-> out, metrics |-> m]
<1>1. /\ call[r].pc = "ranked"
      /\ call' = [call EXCEPT ![r] = c] /\ UNCHANGED <<deployed, aiCache>>
  BY DEF Respond, Ends
<1>2. call[r] \in Sorted /\ RankingOK(b, rs, deployed)
  BY <1>1, CallFacts
<1>3. b \in Bodies
  BY <1>2 DEF Sorted
<1> HIDE DEF b, rs, out, m
<1>4. b.jd \in Texts
  BY <1>3, BodyTyped
<1>5. rs \in Seq(Ranked) /\ FullOf(b, rs, deployed) /\ Distinct(rs) /\ Falling(rs)
  BY <1>2 DEF RankingOK, FullOf, b, rs
<1>6. /\ out \in Seq(Outcome) /\ Len(out) = Len(rs)
      /\ Distinct(out) /\ PlacesIn(out) \subseteq PlacesIn(rs)
      /\ \A p \in DOMAIN out : out[p].rank = p - 1
      /\ HighApart(out) /\ WinnerFirst(out)
  BY <1>4, <1>5, ScoreKeeps DEF out
<1>7. OutcomeOK(out)
  BY <1>6 DEF OutcomeOK
<1>8. FullOf(b, out, deployed)
  BY <1>5, <1>6 DEF FullOf
<1>9. /\ Len(out) \in Nat /\ DOMAIN out = 1 .. Len(out)
      /\ \A p \in DOMAIN out : out[p].pos \in Nat
  <2>1. Len(out) \in Nat /\ DOMAIN out = 1 .. Len(out)
    BY <1>6, LenProperties
  <2>2. \A p \in DOMAIN out : out[p] \in Outcome
    BY <1>6, <2>1, ElementOfSeq
  <2>3. QED
    BY <2>1, <2>2 DEF Outcome
<1>10. CallOK(c, deployed)
  <2>1. c.pc = "done" /\ c.body = b /\ c.status = "ok" /\ c.results = out /\ c.metrics = m
    OBVIOUS
  <2> HIDE DEF c
  <2>2. EndOK(c, deployed)
    BY <1>3, <1>7, <1>8, <1>9, <2>1 DEF EndOK, m
  <2>3. QED
    BY <2>1, <2>2 DEF CallOK
<1>11. call' = [call EXCEPT ![r] = c] /\ UNCHANGED <<deployed, aiCache>>
  BY <1>1 DEF b, rs, out, m
<1> HIDE DEF c
<1>12. QED
  BY <1>10, <1>11, MovesOnly

\* The answer of /evaluate: the ranking itself.
LEMMA RespondEvaluationStep ==
    ASSUME IInv, NEW r \in Calls, RespondEvaluation(r)
    PROVE  IInv'
<1> DEFINE b  == call[r].body
           rs == call[r].ranking
           m  == Judged(b, rs)
           c  == [pc |-> "done", body |-> b, status |-> "ok", results |-> rs, metrics |-> m]
<1>1. /\ call[r].pc = "ranked" /\ b.kind = "evaluate"
      /\ call' = [call EXCEPT ![r] = c] /\ UNCHANGED <<deployed, aiCache>>
  BY DEF RespondEvaluation, Ends
<1>2. call[r] \in Sorted /\ RankingOK(b, rs, deployed)
  BY <1>1, CallFacts
<1>3. b \in Bodies
  BY <1>2 DEF Sorted
<1>4. rs \in Seq(Ranked) /\ FullOf(b, rs, deployed)
  BY <1>2 DEF RankingOK
<1> HIDE DEF b, rs, m
<1>5. /\ Len(rs) \in Nat /\ DOMAIN rs = 1 .. Len(rs)
      /\ \A p \in DOMAIN rs : rs[p].pos \in Nat
  <2>1. Len(rs) \in Nat /\ DOMAIN rs = 1 .. Len(rs)
    BY <1>4, LenProperties
  <2>2. \A p \in DOMAIN rs : rs[p] \in Ranked
    BY <1>4, <2>1, ElementOfSeq
  <2>3. QED
    BY <2>1, <2>2 DEF Ranked
<1>6. CallOK(c, deployed)
  <2>1. c.pc = "done" /\ c.body = b /\ c.status = "ok" /\ c.results = rs /\ c.metrics = m
    OBVIOUS
  <2> HIDE DEF c
  <2>2. EndOK(c, deployed)
    BY <1>1, <1>3, <1>4, <1>5, <2>1 DEF EndOK, m
  <2>3. QED
    BY <2>1, <2>2 DEF CallOK
<1>7. call' = [call EXCEPT ![r] = c] /\ UNCHANGED <<deployed, aiCache>>
  BY <1>1 DEF b, rs, m
<1> HIDE DEF c
<1>8. QED
  BY <1>6, <1>7, MovesOnly

----------------------------------------------------------------------------
(* The theorems *)

\* No call has been sent and the table is empty.
LEMMA InvInit == Init => IInv
<1> SUFFICES ASSUME Init PROVE IInv
  OBVIOUS
<1>1. deployed \in Deployments /\ call = [r \in Calls |-> Idle]
  BY DEF Init
<1>2. TableOK
  BY DEF Init, TableOK
<1>3. call = [r \in Calls |-> call[r]] /\ \A r \in Calls : call[r] = Idle
  BY <1>1
<1>4. QED
  BY <1>1, <1>2, <1>3 DEF IInv, CallOK

\* Every step keeps the invariant.
LEMMA InvNext == IInv /\ [Next]_vars => IInv'
<1> SUFFICES ASSUME IInv, [Next]_vars PROVE IInv'
  OBVIOUS
<1>1. ASSUME NEW r \in Calls, NEW b \in Bodies, Refuse(r, b) \/ Accept(r, b)
      PROVE  IInv'
  BY <1>1, RefuseStep, AcceptStep
<1>2. ASSUME NEW r \in Calls, Step(r)
      PROVE  IInv'
  <2>1. CASE FailEmpty(r) \/ Retrieve(r)
    BY <2>1, FailEmptyStep, RetrieveStep
  <2>2. CASE RerankLexically(r) \/ RerankLocally(r) \/ RerankHosted(r)
    BY <2>2, RerankLexicallyStep, RerankLocallyStep, RerankHostedStep
  <2>3. CASE Replay(r) \/ Ask(r)
    BY <2>3, ReplayStep, AskStep
  <2>4. CASE \E a \in Answers \cup {NoAnswer} : ModelAnswers(r, a)
    BY <2>4, ModelAnswersStep
  <2>5. CASE StoreAnswer(r) \/ StoreFails(r)
    BY <2>5, StoreStep
  <2>6. CASE Respond(r) \/ RespondEvaluation(r)
    BY <2>6, RespondStep, RespondEvaluationStep
  <2>7. QED
    BY <1>2, <2>1, <2>2, <2>3, <2>4, <2>5, <2>6 DEF Step
<1>3. CASE UNCHANGED vars
  BY <1>3 DEF IInv, TableOK, vars
<1>4. QED
  BY <1>1, <1>2, <1>3 DEF Next, Rest

\* The inductive invariant holds in every reachable state.
THEOREM Invariant == Spec => []IInv
  BY InvInit, InvNext, PTL DEF Spec

\* A call that has ended with an answer.
LEMMA EndFacts ==
    ASSUME IInv, NEW r \in Calls, Done(r)
    PROVE  EndOK(call[r], deployed)
BY CallFacts DEF Done

\* The variables keep their types: the results of an answer are numbered from
\* 0 and scored within the scale, whatever the models have answered, and only
\* what may be stored is in the table.
THEOREM TypeCorrect == Spec => []TypeOK
<1>1. IInv => TypeOK
  <2> SUFFICES ASSUME IInv PROVE TypeOK
    OBVIOUS
  <2>1. deployed \in Deployments /\ \A key \in DOMAIN aiCache : Storable(aiCache[key])
    BY DEF IInv, TableOK
  <2>2. ASSUME NEW r \in Calls
        PROVE  /\ call[r].pc \in {"new", "accepted", "retrieved", "asking", "storing",
                                  "answered", "ranked", "done"}
               /\ call[r].pc # "new" => call[r].body \in Bodies
    <3> DEFINE c == call[r]
    <3>1. CallOK(c, deployed)
      BY CallFacts
    <3> HIDE DEF c
    <3>2. QED
      BY <3>1 DEF CallOK, Idle, Accepted, Searching, Told, Sorted, EndOK, c
  <2>3. ASSUME NEW r \in Calls, Answered(r), call[r].body.kind # "evaluate",
               NEW p \in DOMAIN call[r].results
        PROVE  call[r].results[p].rank = p - 1 /\ call[r].results[p].score \in 0 .. Unit
    <3> DEFINE out == call[r].results
    <3>1. EndOK(call[r], deployed) /\ call[r].status = "ok"
      BY <2>3, EndFacts DEF Answered
    <3>2. OutcomeOK(out) /\ DOMAIN out = 1 .. Len(out)
      BY <2>3, <3>1 DEF EndOK
    <3>3. p \in DOMAIN out
      OBVIOUS
    <3> HIDE DEF out
    <3>4. out[p].rank = p - 1 /\ out[p] \in Outcome
      BY <3>2, <3>3, ElementOfSeq DEF OutcomeOK
    <3>5. out[p].score \in 0 .. Unit
      BY <3>4 DEF Outcome
    <3>6. QED
      BY <3>4, <3>5 DEF out
  <2>4. QED
    BY <2>1, <2>2, <2>3 DEF TypeOK
<1>2. QED
  BY <1>1, Invariant, PTL

\* What the hosted model was asked about stands above the rest, and the rest
\* keeps retrieval order.
THEOREM CappedStayBelow == Spec => []CappedBelowScored
<1>1. IInv => CappedBelowScored
  <2> SUFFICES ASSUME IInv, NEW r \in Calls, call[r].pc = "ranked",
                      NEW p \in DOMAIN call[r].ranking, NEW q \in DOMAIN call[r].ranking, p < q
               PROVE  /\ call[r].ranking[q].scored => call[r].ranking[p].scored
                      /\ ~call[r].ranking[p].scored =>
                             call[r].ranking[p].emb >= call[r].ranking[q].emb
    BY DEF CappedBelowScored
  <2>1. RankingOK(call[r].body, call[r].ranking, deployed)
    BY CallFacts
  <2>2. JudgedFirst(call[r].ranking)
    BY <2>1 DEF RankingOK
  <2>3. QED
    BY <2>2 DEF JudgedFirst
<1>2. QED
  BY <1>1, Invariant, PTL

\* What is known of the results of /rank and of a job.
LEMMA AnswerFacts ==
    ASSUME IInv, NEW r \in Calls, Answered(r), call[r].body.kind # "evaluate"
    PROVE  /\ HighApart(call[r].results) /\ WinnerFirst(call[r].results)
           /\ DOMAIN call[r].results = 1 .. Len(call[r].results)
BY EndFacts DEF Answered, EndOK, OutcomeOK

\* A result called "high" is separated from every lower one that has kept its
\* own score, although the fallback has disturbed the order of the list.
THEOREM HighIsSeparated == Spec => []HighMeansSeparated
<1>1. IInv => HighMeansSeparated
  <2> SUFFICES ASSUME IInv, NEW r \in Calls, Answered(r), call[r].body.kind # "evaluate",
                      NEW x \in ToSet(call[r].results), NEW y \in ToSet(call[r].results),
                      x.level = "high", ~y.fallback, y.score < x.score
               PROVE  x.score - y.score >= Gap /\ x.score >= High
    BY DEF HighMeansSeparated
  <2> DEFINE out == call[r].results
  <2>1. HighApart(out)
    BY AnswerFacts
  <2>2. PICK p \in DOMAIN out : out[p] = x
    BY DEF ToSet
  <2>3. PICK q \in DOMAIN out : out[q] = y
    BY DEF ToSet
  <2> HIDE DEF out
  <2>4. QED
    BY <2>1, <2>2, <2>3 DEF HighApart
<1>2. QED
  BY <1>1, Invariant, PTL

\* The clear winner is the first of the answer, and has the best score.
THEOREM WinnerIsFirst == Spec => []ClearWinnerIsFirst
<1>1. IInv => ClearWinnerIsFirst
  <2> SUFFICES ASSUME IInv, NEW r \in Calls, Answered(r), call[r].body.kind # "evaluate"
               PROVE  \A p \in DOMAIN call[r].results : call[r].results[p].winner =>
                          /\ p = 1
                          /\ \A q \in DOMAIN call[r].results \ {1} :
                                 call[r].results[q].score < call[r].results[1].score
    BY DEF ClearWinnerIsFirst
  <2>1. WinnerFirst(call[r].results)
    BY AnswerFacts
  <2>2. QED
    BY <2>1 DEF WinnerFirst
<1>2. QED
  BY <1>1, Invariant, PTL

\* A search passes over entries only for /evaluate.
LEMMA ExactUnlessEvaluate ==
    ASSUME NEW b \in Bodies, b.kind # "evaluate" \/ ~Approximate(b)
    PROVE  Exact(b, deployed)
<1> DEFINE m == Len(ToRank(b))
<1>1. m = Cardinality(RankPlaces(b))
  BY ToRankKeeps
<1>2. Len(b.resumes) \in Nat /\ DOMAIN b.resumes = 1 .. Len(b.resumes)
      /\ RankPlaces(b) \in SUBSET DOMAIN b.resumes /\ FlatLimit \in Nat
  BY BodyTyped, PlacesFinite, ScreeningAssumption DEF ScreeningAssumption
<1>3. m \in Nat /\ m <= Len(b.resumes)
  <2>1. IsFiniteSet(1 .. Len(b.resumes)) /\ Cardinality(1 .. Len(b.resumes)) = Len(b.resumes)
    BY <1>2, FS_Interval
  <2>2. QED
    BY <1>1, <1>2, <2>1, FS_Subset, FS_CardinalityType
<1>4. b.kind # "evaluate" => Len(b.resumes) < FlatLimit
  BY ScreeningAssumption DEF ScreeningAssumption
<1> HIDE DEF m
<1>5. b.kind # "evaluate" => m < FlatLimit
  BY <1>2, <1>3, <1>4
<1>6. ~Approximate(b) /\ deployed.faiss => m < FlatLimit
  BY <1>2, <1>3 DEF Approximate, m
<1>7. QED
  BY <1>5, <1>6 DEF Exact, m

\* The filter by id neither loses nor invents resumes: an answer has no more
\* results than were asked for, no place of the body twice, none of a place
\* the validator did not let through; it has fewer only when every accepted id
\* sent without blanks is in it, or when /evaluate has searched an IVF index;
\* and a call fails for an empty list only when every accepted id was sent
\* with blanks around it.
THEOREM NoneLostOrInvented == Spec => []AcceptedAreRanked
<1>1. IInv => AcceptedAreRanked
  <2> DEFINE keptOf(b) == {i \in DOMAIN b.resumes : SentAs(b, i) \in AcceptedIds(b)}
             Full(b, n) ==
                 n < Lesser(Wanted(b), TopK) /\ (b.kind # "evaluate" \/ ~Approximate(b))
  <2> SUFFICES ASSUME IInv, NEW r \in Calls, Done(r)
               PROVE  LET b == call[r].body
                          n == Len(call[r].results)
                      IN  /\ Answered(r) =>
                              /\ n <= Lesser(Wanted(b), TopK)
                              /\ Cardinality(RankedAt(r)) = n
                              /\ Validated(b) => RankedAt(r) \subseteq keptOf(b)
                              /\ Full(b, n) =>
                                  IF Validated(b)
                                  THEN \A i \in keptOf(b) : \E j \in RankedAt(r) :
                                           SentAs(b, j) = SentAs(b, i)
                                  ELSE RankedAt(r) = DOMAIN b.resumes
                          /\ call[r].status = "failed" =>
                              \A i \in DOMAIN b.resumes :
                                  Strip[SentAs(b, i)] \in AcceptedIds(b) =>
                                      Strip[SentAs(b, i)] # SentAs(b, i)
    BY DEF AcceptedAreRanked
  <2> DEFINE b    == call[r].body
             out  == call[r].results
             n    == Len(out)
             P    == RankPlaces(b)
  <2>1. EndOK(call[r], deployed)
    BY EndFacts
  <2>2. b \in Bodies
    BY <2>1 DEF EndOK
  <2>3. RankedAt(r) = PlacesIn(out)
    BY DEF RankedAt, PlacesIn
  <2>4. P = IF Validated(b) THEN keptOf(b) ELSE DOMAIN b.resumes
    BY DEF RankPlaces
  <2>5. IsFiniteSet(P) /\ Cardinality(P) \in Nat
    BY <2>2, PlacesFinite
  <2>6. Wanted(b) \in Nat /\ TopK \in Nat
    BY <2>2, BodyTyped, RerankingAssumption DEF RerankingAssumption
  <2>7. ASSUME Answered(r)
        PROVE  /\ n <= Lesser(Wanted(b), TopK)
               /\ Cardinality(RankedAt(r)) = n
               /\ RankedAt(r) \subseteq P
               /\ Full(b, n) => RankedAt(r) = P
    <3>1. FullOf(b, out, deployed) /\ n \in Nat /\ DOMAIN out = 1 .. n
      BY <2>1, <2>7 DEF EndOK, Answered
    <3>2. Full(b, n) => Exact(b, deployed)
      BY <2>2, ExactUnlessEvaluate
    <3>3. Full(b, n) => n < Lesser(Wanted(b), TopK)
      OBVIOUS
    <3> DEFINE f == [p \in 1 .. n |-> out[p].pos]
    <3> HIDE DEF b, out, P, n, Full
    <3>4. PlacesIn(out) = {out[p].pos : p \in 1 .. n}
      BY <3>1 DEF PlacesIn
    <3>5. \A p, q \in 1 .. n : out[p].pos = out[q].pos => p = q
      BY <3>1 DEF FullOf, Distinct
    <3>6. f \in Injection(1 .. n, PlacesIn(out)) /\ f \in Surjection(1 .. n, PlacesIn(out))
      BY <3>4, <3>5 DEF Injection, IsInjective, Surjection
    <3>7. IsFiniteSet(1 .. n) /\ Cardinality(1 .. n) = n
      BY <3>1, FS_Interval
    <3> HIDE DEF f
    <3>8. Cardinality(PlacesIn(out)) = n
      BY <3>6, <3>7, FS_Surjection
    <3>9. PlacesIn(out) \subseteq P /\ n <= Lesser(Wanted(b), TopK)
      BY <3>1 DEF FullOf, P, n
    <3>10. ASSUME Full(b, n)
           PROVE  PlacesIn(out) = P
      <4>1. n = Lesser(Wanted(b), Lesser(TopK, Cardinality(P)))
        BY <3>1, <3>2, <3>10 DEF FullOf, P, n
      <4>2. n = Cardinality(P)
        BY <2>5, <2>6, <3>3, <3>10, <4>1 DEF Lesser
      <4>3. PlacesIn(out) \in SUBSET P
        BY <3>9
      <4>4. QED
        BY <2>5, <3>8, <4>2, <4>3, FS_Subset
    <3>11. QED
      BY <2>3, <3>8, <3>9, <3>10
  <2>8. ASSUME call[r].status = "failed", NEW i \in DOMAIN b.resumes,
               Strip[SentAs(b, i)] \in AcceptedIds(b)
        PROVE  Strip[SentAs(b, i)] # SentAs(b, i)
    <3>1. i \notin P
      BY <2>1, <2>8 DEF EndOK
    <3>2. SentAs(b, i) \notin AcceptedIds(b)
      BY <3>1 DEF RankPlaces
    <3>3. QED
      BY <2>8, <3>2
  <2> HIDE DEF P, n, Full, keptOf
  <2>9. QED
    BY <2>4, <2>7, <2>8 DEF n
<1>2. QED
  BY <1>1, Invariant, PTL

\* A list with as many elements as places has none twice.
LEMMA NoneTwice ==
    ASSUME NEW T, NEW s \in Seq(T), Cardinality(ToSet(s)) = Len(s)
    PROVE  \A i, j \in DOMAIN s : s[i] = s[j] => i = j
<1> DEFINE n == Len(s)
           S == ToSet(s)
<1>1. n \in Nat /\ DOMAIN s = 1 .. n /\ s \in [1 .. n -> T]
  BY LenProperties
<1>2. S = {s[i] : i \in 1 .. n}
  BY <1>1 DEF ToSet
<1>3. s \in Surjection(1 .. n, S)
  BY <1>1, <1>2 DEF Surjection
<1>4. Cardinality(S) = n
  OBVIOUS
<1> HIDE DEF S, n
<1>5. IsFiniteSet(1 .. n) /\ Cardinality(1 .. n) = n
  BY <1>1, FS_Interval
<1>6. s \in Injection(1 .. n, S)
  BY <1>3, <1>4, <1>5, FS_Surjection
<1>7. QED
  BY <1>1, <1>6 DEF Injection, IsInjective

\* The metrics of an answer without an id twice are shares; MRR and average
\* precision are perfect just when the answer is what they reward, NDCG only
\* when the relevant of the first k come first, and whenever average precision
\* is; recall grows with k.
THEOREM MetricsAreSound == Spec => []MetricsSound
<1>1. IInv => MetricsSound
  <2> DEFINE Sound(relevant, ids, metrics) ==
                 LET hit(p) == p \in DOMAIN ids /\ ids[p] \in relevant
                     top(k) == 1 .. Lesser(k, Len(ids))
                     at     == metrics.at
                 IN  /\ metrics.mrr = One <=> hit(1)
                     /\ \A k \in DOMAIN at :
                         /\ {at[k].precision, at[k].recall, at[k].ap, at[k].ndcg, at[k].f1} \subseteq 0 .. One
                         /\ at[k].ap = One <=> /\ k > 0
                                               /\ \A p \in 1 .. Lesser(k, Cardinality(relevant)) : hit(p)
                         /\ at[k].ap = One => at[k].ndcg = One
                         /\ at[k].ndcg = One => /\ \E p \in top(k) : hit(p)
                                                /\ \A p, q \in top(k) : p < q /\ hit(q) => hit(p)
                         /\ \A l \in DOMAIN at : k <= l => at[k].recall <= at[l].recall
  <2> SUFFICES ASSUME IInv, NEW r \in Calls, Answered(r), call[r].body.relevant # {}
               PROVE  LET relevant == call[r].body.relevant
                          ids == [p \in DOMAIN call[r].results |-> call[r].results[p].id]
                      IN  Cardinality(ToSet(ids)) = Len(ids) =>
                              Sound(relevant, ids, call[r].metrics.raw)
    BY DEF MetricsSound
  <2> DEFINE b   == call[r].body
             R   == b.relevant
             out == call[r].results
             n   == Len(out)
             ids == [p \in DOMAIN out |-> out[p].id]
             T   == {out[p].id : p \in DOMAIN out}
             m   == call[r].metrics.raw
  <2>1. EndOK(call[r], deployed) /\ call[r].status = "ok"
    BY EndFacts DEF Answered
  <2>2. b \in Bodies /\ n \in Nat /\ DOMAIN out = 1 .. n /\ FullOf(b, out, deployed)
        /\ call[r].metrics = Judged(b, out)
    BY <2>1 DEF EndOK
  <2>3. m = Evaluate(R, ids, b.ks)
    BY <2>2 DEF Judged, Report
  <2>4. IsFiniteSet(R) /\ R # {} /\ Cutoffs(b.ks) \in SUBSET Nat
    <3>1. b \in BodyType /\ IsFiniteSet(R)
      BY <2>2, ScreeningAssumption DEF ScreeningAssumption, BodyType
    <3>2. b.ks \in SUBSET Nat
      BY <3>1 DEF BodyType
    <3>3. QED
      BY <3>1, <3>2 DEF Cutoffs
  <2>5. n <= Len(Discount)
    <3>1. Wanted(b) \in Nat
      BY <2>2, BodyTyped
    <3>2. TopK \in Nat /\ TopK <= Len(Discount) /\ Len(Discount) \in Nat
      BY RerankingAssumption, ScreeningAssumption, MetricsAssumption, LenProperties
         DEF RerankingAssumption, ScreeningAssumption, MetricsAssumption
    <3>3. n <= Lesser(Wanted(b), TopK)
      BY <2>2 DEF FullOf
    <3>4. n <= TopK
      BY <3>1, <3>2, <3>3 DEF Lesser
    <3>5. QED
      BY <2>2, <3>2, <3>4
  <2> HIDE DEF out, b, n, m, R
  <2>6. ids \in Seq(T) /\ Len(ids) = n /\ DOMAIN ids = 1 .. n
    <3>1. ids \in [1 .. n -> T]
      BY <2>2
    <3>2. QED
      BY <2>2, <3>1, ListOf
  <2> HIDE DEF ids, T
  <2>7. ASSUME Cardinality(ToSet(ids)) = Len(ids)
        PROVE  Sound(R, ids, m)
    <3>1. \A i, j \in DOMAIN ids : ids[i] = ids[j] => i = j
      BY <2>6, <2>7, NoneTwice
    <3> DEFINE hit(p) == p \in DOMAIN ids /\ ids[p] \in R
               top(k) == 1 .. Lesser(k, Len(ids))
               at == m.at
    <3>2. m.mrr = MeanReciprocalRank(R, ids) /\ DOMAIN at = Cutoffs(b.ks)
          /\ \A k \in Cutoffs(b.ks) : /\ at[k].precision = PrecisionAt(R, ids, k)
                                    /\ at[k].recall = RecallAt(R, ids, k)
                                    /\ at[k].ap = AveragePrecisionAt(R, ids, k)
                                    /\ at[k].ndcg = NdcgAt(R, ids, k)
                                    /\ at[k].f1 = F1At(R, ids, k)
      BY <2>3 DEF Evaluate
    <3>3. m.mrr = One <=> hit(1)
      BY <2>6, <3>2, FirstHit
    <3> HIDE DEF at
    <3>4. ASSUME NEW k \in DOMAIN at
          PROVE  {at[k].precision, at[k].recall, at[k].ap, at[k].ndcg, at[k].f1} \subseteq 0 .. One
      <4>1. k \in Cutoffs(b.ks) /\ k \in Nat
        BY <2>4, <3>2
      <4>2. /\ PrecisionAt(R, ids, k) \in 0 .. One /\ RecallAt(R, ids, k) \in 0 .. One
            /\ F1At(R, ids, k) \in 0 .. One
        BY <2>4, <2>6, <3>1, <4>1, SharesSound
      <4>3. AveragePrecisionAt(R, ids, k) \in 0 .. One
        BY <2>4, <2>6, <3>1, <4>1, AveragePrecisionSound
      <4>4. NdcgAt(R, ids, k) \in 0 .. One
        BY <2>5, <2>6, <4>1, NdcgSound
      <4>5. QED
        BY <3>2, <4>1, <4>2, <4>3, <4>4
    <3>5. ASSUME NEW k \in DOMAIN at
          PROVE  at[k].ndcg = One => /\ \E p \in top(k) : hit(p)
                                     /\ \A p, q \in top(k) : p < q /\ hit(q) => hit(p)
      <4> DEFINE x == Places(ids, k)
      <4>1. k \in Cutoffs(b.ks) /\ k \in Nat
        BY <2>4, <3>2
      <4>2. NdcgAt(R, ids, k) = One <=> /\ \E p \in 1 .. x : ids[p] \in R
                                        /\ HitsFirst(R, ids, x)
        BY <2>5, <2>6, <4>1, NdcgSound
      <4>3. x \in 0 .. n
        BY <2>6, <4>1, HitsAre
      <4>4. top(k) = 1 .. x
        <5>1. Lesser(k, n) = x
          BY <2>2, <2>6, <4>1 DEF Lesser, Places
        <5>2. QED
          BY <2>6, <5>1
      <4> HIDE DEF x
      <4>5. \A p \in 1 .. x : hit(p) <=> ids[p] \in R
        BY <2>2, <2>6, <4>3
      <4>6. HitsFirst(R, ids, x) <=> \A p, q \in 1 .. x : p < q /\ ids[q] \in R => ids[p] \in R
        BY <2>2, <4>3 DEF HitsFirst
      <4>7. at[k].ndcg = NdcgAt(R, ids, k)
        BY <3>2, <4>1
      <4> HIDE DEF top, hit
      <4>8. QED
        BY <4>2, <4>4, <4>5, <4>6, <4>7
    <3>6. ASSUME NEW k \in DOMAIN at
          PROVE  at[k].ap = One <=> /\ k > 0
                                    /\ \A p \in 1 .. Lesser(k, Cardinality(R)) : hit(p)
      <4>1. k \in Cutoffs(b.ks) /\ k \in Nat
        BY <2>4, <3>2
      <4>2. Cardinality(R) \in Nat
        BY <2>4, FS_CardinalityType
      <4>3. Lesser(k, Cardinality(R)) = Attainable(R, k)
        BY <4>1, <4>2 DEF Lesser, Attainable
      <4>4. AveragePrecisionAt(R, ids, k) = One <=>
                /\ k > 0
                /\ \A p \in 1 .. Attainable(R, k) : p \in DOMAIN ids /\ ids[p] \in R
        BY <2>4, <2>6, <3>1, <4>1, AveragePrecisionSound
      <4>5. at[k].ap = AveragePrecisionAt(R, ids, k)
        BY <3>2, <4>1
      <4>6. QED
        BY <4>3, <4>4, <4>5
    <3>7. ASSUME NEW k \in DOMAIN at, NEW l \in DOMAIN at, k <= l
          PROVE  at[k].recall <= at[l].recall
      <4>1. {k, l} \subseteq Cutoffs(b.ks) /\ k \in Nat /\ l \in Nat
        BY <2>4, <3>2
      <4>2. RecallAt(R, ids, k) <= RecallAt(R, ids, l)
        BY <2>4, <2>6, <3>1, <3>7, <4>1, SharesSound
      <4>3. QED
        BY <3>2, <4>1, <4>2
    <3>8. ASSUME NEW k \in DOMAIN at, at[k].ap = One
          PROVE  at[k].ndcg = One
      <4>1. k \in Cutoffs(b.ks) /\ k \in Nat
        BY <2>4, <3>2
      <4>2. AveragePrecisionAt(R, ids, k) = One
        BY <3>2, <3>8, <4>1
      <4>3. NdcgAt(R, ids, k) = One
        BY <2>4, <2>5, <2>6, <3>1, <4>1, <4>2, BestPrecisionBestOrder
      <4>4. QED
        BY <3>2, <4>1, <4>3
    <3> HIDE DEF hit, top
    <3>9. QED
      BY <3>3, <3>4, <3>5, <3>6, <3>7, <3>8 DEF at, hit, top
  <2>8. QED
    BY <2>7 DEF b, R, out, ids, m
<1>2. QED
  BY <1>1, Invariant, PTL

=============================================================================
