--------------------------- MODULE RerankingProofs ---------------------------
(***************************************************************************)
(* What the operators of Validation, Reranking and Scoring return, for     *)
(* lists of any length: the filter behind the validator, the stable sorts, *)
(* the three rerankers, the fallback and the confidence levels.            *)
(***************************************************************************)
EXTENDS Scoring, SequenceTheorems, FiniteSetTheorems, TLAPS

----------------------------------------------------------------------------
(* Places in order *)

\* before lists for each place those that precede it, in a strict total order.
TotalOrder(before) ==
    LET S == DOMAIN before
    IN  /\ before \in [S -> SUBSET S]
        /\ \A i \in S : i \notin before[i]
        /\ \A i, j \in S : i # j => i \in before[j] \/ j \in before[i]
        /\ \A i, j, k \in S : i \in before[j] /\ j \in before[k] => i \in before[k]

\* InOrder lists every place once, and each after those that precede it.
LEMMA InOrderPlaces ==
    ASSUME NEW before, TotalOrder(before), IsFiniteSet(DOMAIN before)
    PROVE  LET S  == DOMAIN before
               n  == Cardinality(S)
               at == InOrder(before)
           IN  /\ n \in Nat /\ at \in [1 .. n -> S]
               /\ \A p, q \in 1 .. n : p < q => at[p] \in before[at[q]]
               /\ \A p, q \in 1 .. n : at[p] = at[q] => p = q
               /\ \A i \in S : \E p \in 1 .. n : at[p] = i
<1> DEFINE S  == DOMAIN before
           n  == Cardinality(S)
           at == InOrder(before)
           rank == [i \in S |-> Cardinality(before[i])]
<1>1. n \in Nat
  BY FS_CardinalityType
<1>2. /\ before \in [S -> SUBSET S]
      /\ \A i \in S : i \notin before[i]
      /\ \A i, j \in S : i # j => i \in before[j] \/ j \in before[i]
      /\ \A i, j, k \in S : i \in before[j] /\ j \in before[k] => i \in before[k]
  BY DEF TotalOrder
<1>3. ASSUME NEW i \in S
      PROVE  IsFiniteSet(before[i]) /\ Cardinality(before[i]) \in 0 .. n - 1
  <2>1. before[i] \in SUBSET (S \ {i})
    BY <1>2
  <2>2. IsFiniteSet(S \ {i}) /\ Cardinality(S \ {i}) = n - 1
    BY FS_RemoveElement
  <2>3. /\ IsFiniteSet(before[i]) /\ Cardinality(before[i]) <= n - 1
        /\ Cardinality(before[i]) \in Nat
    BY <2>1, <2>2, FS_Subset, FS_CardinalityType
  <2>4. QED
    BY <1>1, <2>3
<1>4. ASSUME NEW j \in S, NEW i \in before[j]
      PROVE  rank[i] < rank[j]
  <2>1. i \in S
    BY <1>2
  <2>2. before[i] \in SUBSET before[j] /\ before[i] # before[j]
    BY <1>2, <2>1
  <2>3. /\ Cardinality(before[i]) <= Cardinality(before[j])
        /\ Cardinality(before[i]) # Cardinality(before[j])
    BY <1>3, <2>2, FS_Subset
  <2>4. Cardinality(before[i]) \in Int /\ Cardinality(before[j]) \in Int
    BY <1>3, <2>1
  <2>5. QED
    BY <2>1, <2>3, <2>4
<1>5. rank \in Injection(S, 0 .. n - 1)
  <2>1. rank \in [S -> 0 .. n - 1]
    BY <1>3
  <2>2. ASSUME NEW i \in S, NEW j \in S, rank[i] = rank[j]
        PROVE  i = j
    <3>1. rank[i] \in Int /\ rank[j] \in Int
      BY <2>1
    <3> HIDE DEF rank
    <3>2. ~(rank[i] < rank[j]) /\ ~(rank[j] < rank[i])
      BY <2>2, <3>1
    <3>3. QED
      BY <1>2, <1>4, <3>2
  <2> HIDE DEF rank
  <2>3. QED
    BY <2>1, <2>2, Zenon DEF Injection, IsInjective
<1>6. rank \in Surjection(S, 0 .. n - 1)
  <2>1. IsFiniteSet(0 .. n - 1) /\ Cardinality(0 .. n - 1) = n
    <3>1. 0 \in Int /\ n - 1 \in Int
      BY <1>1
    <3>2. IsFiniteSet(0 .. n - 1) /\ Cardinality(0 .. n - 1) = IF 0 > n - 1 THEN 0 ELSE (n - 1) - 0 + 1
      BY <3>1, FS_Interval
    <3> HIDE DEF n
    <3>3. QED
      BY <1>1, <3>2
  <2> HIDE DEF rank
  <2>2. QED
    BY <1>5, <2>1, FS_Injection
<1>7. \A p \in 1 .. n : \E i \in S : Cardinality(before[i]) = p - 1
  <2> TAKE p \in 1 .. n
  <2>1. p - 1 \in 0 .. n - 1
    BY <1>1
  <2>2. \E i \in S : rank[i] = p - 1
    <3> HIDE DEF rank
    <3>1. QED
      BY <1>6, <2>1 DEF Surjection
  <2>3. QED
    BY <2>2
<1>8. \A p \in 1 .. n : at[p] \in S /\ rank[at[p]] = p - 1
  <2> TAKE p \in 1 .. n
  <2>1. at[p] = CHOOSE i \in S : Cardinality(before[i]) = p - 1
    BY DEF InOrder
  <2> HIDE DEF at
  <2>2. at[p] \in S /\ Cardinality(before[at[p]]) = p - 1
    BY <1>7, <2>1
  <2>3. QED
    BY <2>2
<1>9. at \in [1 .. n -> S]
  <2>1. at = [p \in 1 .. n |-> at[p]]
    BY DEF InOrder
  <2> HIDE DEF at
  <2>2. QED
    BY <1>8, <2>1
<1> HIDE DEF at
<1>10. \A p, q \in 1 .. n : at[p] = at[q] => p = q
  <2> HIDE DEF rank
  <2>1. QED
    BY <1>8
<1>11. \A p, q \in 1 .. n : p < q => at[p] \in before[at[q]]
  <2> TAKE p, q \in 1 .. n
  <2> HAVE p < q
  <2>1. at[p] # at[q] /\ at[p] \in S /\ at[q] \in S
    <3>1. p # q
      BY <1>1
    <3> HIDE DEF S, n, rank
    <3>2. QED
      BY <1>8, <1>10, <3>1
  <2>2. rank[at[p]] < rank[at[q]] /\ rank[at[p]] \in Int /\ rank[at[q]] \in Int
    <3> HIDE DEF rank
    <3>1. QED
      BY <1>8
  <2>3. at[q] \notin before[at[p]]
    <3> HIDE DEF rank
    <3>1. QED
      BY <1>4, <2>1, <2>2
  <2>4. QED
    BY <1>2, <2>1, <2>3
<1>12. \A i \in S : \E p \in 1 .. n : at[p] = i
  <2> TAKE i \in S
  <2>1. rank[i] \in 0 .. n - 1
    BY <1>3
  <2> DEFINE p == rank[i] + 1
  <2>2. p \in 1 .. n /\ p - 1 = rank[i]
    <3> HIDE DEF rank
    <3>1. QED
      BY <1>1, <2>1
  <2>3. at[p] \in S /\ rank[at[p]] = rank[i]
    <3> HIDE DEF rank
    <3>1. QED
      BY <1>8, <2>2
  <2>4. at[p] = i
    <3> HIDE DEF rank
    <3>1. QED
      BY <1>5, <2>3, Zenon DEF Injection, IsInjective
  <2>5. QED
    BY <2>2, <2>4
<1>13. QED
  BY <1>1, <1>9, <1>10, <1>11, <1>12 DEF at

----------------------------------------------------------------------------
(* Lists *)

\* A list written out is the list itself.
LEMMA ListedSame ==
    ASSUME NEW R, NEW s \in Seq(R)
    PROVE  Listed(s) = s
<1>1. Len(s) \in Nat
  BY LenProperties
<1>2. Listed(s) \in Seq(R) /\ Len(Listed(s)) = Len(s)
      /\ \A i \in 1 .. Len(s) : Listed(s)[i] = s[i]
  BY <1>1, SubSeqProperties DEF Listed
<1> HIDE DEF Listed
<1>3. QED
  BY <1>2, SeqEqual

\* A function on 1 .. n is a list of n elements.
LEMMA ListOf ==
    ASSUME NEW R, NEW n \in Nat, NEW s \in [1 .. n -> R]
    PROVE  s \in Seq(R) /\ Len(s) = n /\ DOMAIN s = 1 .. n
BY IsASeq, LenProperties

\* The slice [:n] is the list itself up to its n-th element.
LEMMA FirstElements ==
    ASSUME NEW R, NEW s \in Seq(R), NEW n \in Nat
    PROVE  /\ FirstOf(s, n) \in Seq(R)
           /\ Len(FirstOf(s, n)) = Lesser(n, Len(s))
           /\ Lesser(n, Len(s)) \in Nat /\ Lesser(n, Len(s)) <= Len(s)
           /\ \A i \in 1 .. Lesser(n, Len(s)) : FirstOf(s, n)[i] = s[i]
<1> DEFINE m == Lesser(n, Len(s))
<1>1. Len(s) \in Nat
  BY LenProperties
<1>2. m \in Nat /\ m <= Len(s)
  BY <1>1 DEF Lesser
<1> HIDE DEF m
<1>3. /\ SubSeq(s, 1, m) \in Seq(R) /\ Len(SubSeq(s, 1, m)) = m
      /\ \A i \in 1 .. m : SubSeq(s, 1, m)[i] = s[i]
  BY <1>1, <1>2, SubSeqProperties
<1>4. QED
  BY <1>2, <1>3 DEF FirstOf, m

\* kept has the elements of s at some places, each once and in their order.
Keeps(s, places, at, kept) ==
    /\ at \in [1 .. Cardinality(places) -> places]
    /\ \A p \in DOMAIN at : kept[p] = s[at[p]]
    /\ \A p, q \in DOMAIN at : p < q => at[p] < at[q]
    /\ \A p, q \in DOMAIN at : at[p] = at[q] => p = q
    /\ \A i \in places : \E p \in DOMAIN at : at[p] = i

\* What is kept of a list are its elements at those places, in their order.
LEMMA KeptPlaces ==
    ASSUME NEW R, NEW s \in Seq(R), NEW places \in SUBSET (DOMAIN s)
    PROVE  /\ Cardinality(places) \in Nat
           /\ Kept(s, places) \in Seq(R)
           /\ Len(Kept(s, places)) = Cardinality(places)
           /\ \E at : Keeps(s, places, at, Kept(s, places))
<1> DEFINE before == [i \in places |-> {j \in places : j < i}]
           n  == Cardinality(places)
           at == InOrder(before)
<1>1. Len(s) \in Nat /\ DOMAIN s = 1 .. Len(s)
  BY LenProperties
<1>2. places \in SUBSET Nat /\ IsFiniteSet(places)
  <2>1. IsFiniteSet(1 .. Len(s))
    BY <1>1, FS_Interval
  <2>2. places \in SUBSET (1 .. Len(s))
    BY <1>1
  <2>3. QED
    BY <2>1, <2>2, FS_Subset
<1>3. TotalOrder(before) /\ DOMAIN before = places
  BY <1>2 DEF TotalOrder
<1> HIDE DEF before
<1>4. /\ n \in Nat /\ at \in [1 .. n -> places]
      /\ \A p, q \in 1 .. n : p < q => at[p] \in before[at[q]]
      /\ \A p, q \in 1 .. n : at[p] = at[q] => p = q
      /\ \A i \in places : \E p \in 1 .. n : at[p] = i
  BY <1>2, <1>3, InOrderPlaces
<1>5. Kept(s, places) = [p \in DOMAIN at |-> s[at[p]]]
  BY DEF Kept, before
<1> HIDE DEF at, n
<1>6. DOMAIN at = 1 .. n
  BY <1>4
<1>7. \A p \in 1 .. n : s[at[p]] \in R
  BY <1>4, ElementOfSeq, <1>1
<1>8. Kept(s, places) \in [1 .. n -> R]
  BY <1>5, <1>6, <1>7
<1>9. Kept(s, places) \in Seq(R) /\ Len(Kept(s, places)) = n
  BY <1>4, <1>8, ListOf
<1>10. \A p, q \in 1 .. n : p < q => at[p] < at[q]
  BY <1>4 DEF before
<1>11. \A p \in DOMAIN at : Kept(s, places)[p] = s[at[p]]
  BY <1>5
<1>12. QED
  BY <1>4, <1>6, <1>9, <1>10, <1>11 DEF n, Keeps

\* sorted is the list s in the order at: every place of s comes once, the
\* largest key first, equal keys in the order of the list.
Sorts(s, keys, at, sorted) ==
    /\ at \in [DOMAIN s -> DOMAIN s]
    /\ \A p \in DOMAIN s : sorted[p] = s[at[p]]
    /\ \A p, q \in DOMAIN s : p < q =>
           \/ keys[at[p]] > keys[at[q]]
           \/ keys[at[p]] = keys[at[q]] /\ at[p] < at[q]
    /\ \A p, q \in DOMAIN s : at[p] = at[q] => p = q
    /\ \A i \in DOMAIN s : \E p \in DOMAIN s : at[p] = i

\* Sorting is stable, and loses and invents nothing.
LEMMA SortedPlaces ==
    ASSUME NEW R, NEW s \in Seq(R), NEW keys \in [DOMAIN s -> Int]
    PROVE  /\ SortedBy(s, keys) \in Seq(R)
           /\ Len(SortedBy(s, keys)) = Len(s)
           /\ \E at : Sorts(s, keys, at, SortedBy(s, keys))
<1> DEFINE ahead(i) == {j \in DOMAIN s : keys[j] > keys[i] \/ (keys[j] = keys[i] /\ j < i)}
           before == [i \in DOMAIN s |-> ahead(i)]
           n  == Len(s)
           at == InOrder(before)
           sorted == [p \in DOMAIN s |-> s[at[p]]]
<1>1. n \in Nat /\ DOMAIN s = 1 .. n
  BY LenProperties
<1>2. DOMAIN s \in SUBSET Nat /\ IsFiniteSet(DOMAIN s) /\ Cardinality(DOMAIN s) = n
  <2> HIDE DEF n
  <2>1. QED
    BY <1>1, FS_Interval
<1>3. TotalOrder(before) /\ DOMAIN before = DOMAIN s
  <2>1. \A i \in DOMAIN s : keys[i] \in Int /\ i \in Int
    BY <1>2
  <2>2. QED
    BY <2>1 DEF TotalOrder
<1> HIDE DEF before
<1>4. /\ at \in [1 .. n -> DOMAIN s]
      /\ \A p, q \in 1 .. n : p < q => at[p] \in before[at[q]]
      /\ \A p, q \in 1 .. n : at[p] = at[q] => p = q
      /\ \A i \in DOMAIN s : \E p \in 1 .. n : at[p] = i
  BY <1>2, <1>3, InOrderPlaces
<1>5. SortedBy(s, keys) = Listed(sorted)
  BY DEF SortedBy, before
<1> HIDE DEF at
<1>6. \A p \in 1 .. n : s[at[p]] \in R
  BY <1>1, <1>4, ElementOfSeq
<1>7. sorted \in [1 .. n -> R]
  BY <1>1, <1>6
<1>8. \A p \in DOMAIN s : sorted[p] = s[at[p]]
  OBVIOUS
<1> HIDE DEF sorted, n
<1>9. SortedBy(s, keys) = sorted /\ sorted \in Seq(R) /\ Len(sorted) = n
  BY <1>1, <1>5, <1>7, ListOf, ListedSame
<1>10. \A p, q \in 1 .. n : p < q =>
           \/ keys[at[p]] > keys[at[q]]
           \/ keys[at[p]] = keys[at[q]] /\ at[p] < at[q]
  BY <1>4 DEF before
<1>11. at \in [DOMAIN s -> DOMAIN s]
  BY <1>1, <1>4
<1>12. /\ \A p \in DOMAIN s : SortedBy(s, keys)[p] = s[at[p]]
       /\ \A p, q \in DOMAIN s : p < q =>
              \/ keys[at[p]] > keys[at[q]]
              \/ keys[at[p]] = keys[at[q]] /\ at[p] < at[q]
       /\ \A p, q \in DOMAIN s : at[p] = at[q] => p = q
       /\ \A i \in DOMAIN s : \E p \in DOMAIN s : at[p] = i
  BY <1>1, <1>4, <1>8, <1>9, <1>10
<1>13. SortedBy(s, keys) \in Seq(R) /\ Len(SortedBy(s, keys)) = Len(s)
  BY <1>9 DEF n
<1>14. QED
  BY <1>11, <1>12, <1>13 DEF Sorts

----------------------------------------------------------------------------
(* Scores stay within the scale *)

\* The scale of scores.
LEMMA Scale == \A x \in 0 .. Unit : x \in Int /\ 0 <= x /\ x <= 1000
BY DEF Unit

\* A finite set of integers that is not empty has a greatest and a least one.
LEMMA Extremes ==
    ASSUME NEW S \in SUBSET Int, IsFiniteSet(S), S # {}
    PROVE  /\ Greatest(S) \in S /\ \A y \in S : y <= Greatest(S)
           /\ Least(S) \in S /\ \A y \in S : Least(S) <= y
<1> DEFINE before == [i \in S |-> {j \in S : j < i}]
           n  == Cardinality(S)
           at == InOrder(before)
<1>1. TotalOrder(before) /\ DOMAIN before = S
  BY DEF TotalOrder
<1>2. \A i \in S : before[i] = {j \in S : j < i}
  OBVIOUS
<1> HIDE DEF before
<1>3. /\ n \in Nat /\ at \in [1 .. n -> S]
      /\ \A p, q \in 1 .. n : p < q => at[p] \in before[at[q]]
      /\ \A i \in S : \E p \in 1 .. n : at[p] = i
  BY <1>1, InOrderPlaces
<1> HIDE DEF n, at
<1>4. 1 <= n
  BY <1>3
<1>5. \A p, q \in 1 .. n : p < q => at[p] < at[q]
  BY <1>2, <1>3
<1>6. at[n] \in S /\ \A y \in S : y <= at[n]
  <2>1. n \in 1 .. n
    BY <1>3, <1>4
  <2>2. ASSUME NEW y \in S PROVE y <= at[n]
    <3>1. PICK p \in 1 .. n : at[p] = y
      BY <1>3
    <3>2. CASE p = n
      BY <3>1, <3>2
    <3>3. CASE p < n
      <4>1. at[p] < at[n]
        BY <1>5, <2>1, <3>3
      <4>2. at[p] \in Int /\ at[n] \in Int
        BY <1>3, <2>1
      <4>3. QED
        BY <3>1, <4>1, <4>2
    <3>4. QED
      BY <1>3, <3>2, <3>3
  <2>3. QED
    BY <1>3, <2>1, <2>2
<1>7. at[1] \in S /\ \A y \in S : at[1] <= y
  <2>1. 1 \in 1 .. n
    BY <1>3, <1>4
  <2>2. ASSUME NEW y \in S PROVE at[1] <= y
    <3>1. PICK p \in 1 .. n : at[p] = y
      BY <1>3
    <3>2. CASE p = 1
      BY <3>1, <3>2
    <3>3. CASE 1 < p
      <4>1. at[1] < at[p]
        BY <1>5, <2>1, <3>3
      <4>2. at[p] \in Int /\ at[1] \in Int
        BY <1>3, <2>1
      <4>3. QED
        BY <3>1, <4>1, <4>2
    <3>4. QED
      BY <1>3, <3>2, <3>3
  <2>3. QED
    BY <1>3, <2>1, <2>2
<1>8. Greatest(S) \in S /\ \A y \in S : y <= Greatest(S)
  BY <1>6 DEF Greatest
<1>9. Least(S) \in S /\ \A y \in S : Least(S) <= y
  BY <1>7 DEF Least
<1>10. QED
  BY <1>8, <1>9

\* A part of a whole, in thousandths.
LEMMA Share ==
    ASSUME NEW a \in Nat, NEW b \in Nat \ {0}, a <= b
    PROVE  (Unit * a) \div b \in 0 .. Unit
<1> DEFINE x == 1000 * a
           q == x \div b
<1>1. x \in Nat /\ x <= 1000 * b
  OBVIOUS
<1> HIDE DEF x
<1>2. q \in Int /\ b * q <= x /\ x < b * q + b
  <2>1. x \in Int /\ b \in Int /\ b > 0
    BY <1>1
  <2>2. x = b * (x \div b) + (x % b) /\ x % b \in 0 .. b - 1 /\ x \div b \in Int
    BY <2>1
  <2>3. b * (x \div b) \in Int
    BY <2>1, <2>2
  <2>4. QED
    BY <2>1, <2>2, <2>3
<1> HIDE DEF q
<1>3. q >= 0
  <2> SUFFICES ASSUME q <= -1 PROVE FALSE
    BY <1>2
  <2>1. b * q + b <= 0
    <3>1. b * q + b = b * (q + 1) /\ q + 1 <= 0
      BY <1>2
    <3>2. b * (q + 1) <= 0
      BY <1>2, <3>1
    <3>3. QED
      BY <3>1, <3>2
  <2>2. b * q \in Int
    BY <1>2
  <2>3. QED
    BY <1>1, <1>2, <2>1, <2>2
<1>4. q <= 1000
  <2> SUFFICES ASSUME q >= 1001 PROVE FALSE
    BY <1>2
  <2>1. b * q >= b * 1001
    BY <1>2
  <2>2. b * q \in Int /\ b * 1001 = 1000 * b + b /\ 1000 * b \in Int
    BY <1>2
  <2>3. QED
    BY <1>1, <1>2, <2>1, <2>2
<1>5. (Unit * a) \div b = q
  BY DEF Unit, q, x
<1>6. QED
  BY <1>2, <1>3, <1>4, <1>5 DEF Unit

\* Two texts have no more words in common than between them.
LEMMA Overlap ==
    ASSUME NEW a \in Texts, NEW b \in Texts
    PROVE  (Unit * Common(a, b)) \div (IF Either(a, b) = 0 THEN 1 ELSE Either(a, b)) \in 0 .. Unit
<1> DEFINE A == Tokens[a] \cap Tokens[b]
           B == Tokens[a] \cup Tokens[b]
<1>1. IsFiniteSet(Tokens[a]) /\ IsFiniteSet(Tokens[b])
  BY ValidationAssumption DEF ValidationAssumption
<1>2. IsFiniteSet(B)
  BY <1>1, FS_Union
<1>3. A \in SUBSET B
  OBVIOUS
<1> HIDE DEF A, B
<1>4. IsFiniteSet(A) /\ Cardinality(A) <= Cardinality(B)
  BY <1>2, <1>3, FS_Subset
<1>5. Cardinality(A) \in Nat /\ Cardinality(B) \in Nat
  BY <1>2, <1>4, FS_CardinalityType
<1>6. Common(a, b) = Cardinality(A) /\ Either(a, b) = Cardinality(B)
  BY DEF Common, Either, A, B
<1> DEFINE m == Common(a, b)
           d == IF Either(a, b) = 0 THEN 1 ELSE Either(a, b)
<1>7. m \in Nat /\ d \in Nat \ {0} /\ m <= d
  BY <1>4, <1>5, <1>6
<1> HIDE DEF m, d
<1>8. (Unit * m) \div d \in 0 .. Unit
  BY <1>7, Share
<1>9. QED
  BY <1>8 DEF m, d

\* Fewer keywords weigh less.
LEMMA WeightGrows ==
    ASSUME NEW B, IsFiniteSet(B), NEW A \in SUBSET B
    PROVE  /\ Weight(A) \in Nat /\ Weight(B) \in Nat /\ Weight(A) <= Weight(B)
           /\ B # {} => Weight(B) # 0
<1> DEFINE AH == A \cap HighValue
           BH == B \cap HighValue
<1>1. AH \in SUBSET BH /\ BH \in SUBSET B
  OBVIOUS
<1> HIDE DEF AH, BH
<1>2. /\ IsFiniteSet(A) /\ Cardinality(A) <= Cardinality(B)
      /\ IsFiniteSet(BH)
  BY <1>1, FS_Subset
<1>3. IsFiniteSet(AH) /\ Cardinality(AH) <= Cardinality(BH)
  BY <1>1, <1>2, FS_Subset
<1>4. /\ Cardinality(A) \in Nat /\ Cardinality(B) \in Nat
      /\ Cardinality(AH) \in Nat /\ Cardinality(BH) \in Nat
  BY <1>2, <1>3, FS_CardinalityType
<1>5. /\ Weight(A) = 2 * Cardinality(A) + 3 * Cardinality(AH)
      /\ Weight(B) = 2 * Cardinality(B) + 3 * Cardinality(BH)
  BY DEF Weight, AH, BH
<1>6. B # {} => Cardinality(B) # 0
  BY FS_EmptySet
<1>7. QED
  BY <1>2, <1>3, <1>4, <1>5, <1>6

\* The keyword score is a share of the weight of the keywords.
LEMMA KeywordScoreInScale ==
    ASSUME NEW jd \in Texts, NEW text \in Texts
    PROVE  KeywordScore(jd, text) \in 0 .. Unit
<1> DEFINE K == Keywords(jd)
           M == Matched(jd, text)
<1>1. IsFiniteSet(K)
  <2>1. IsFiniteSet(Tokens[jd])
    BY ValidationAssumption DEF ValidationAssumption
  <2>2. K \in SUBSET Tokens[jd]
    BY DEF Keywords
  <2> HIDE DEF K
  <2>3. QED
    BY <2>1, <2>2, FS_Subset
<1>2. M \in SUBSET K
  BY DEF Matched
<1> HIDE DEF K, M
<1>3. CASE K = {}
  BY <1>3 DEF KeywordScore, K, Unit
<1>4. CASE K # {}
  <2>1. Weight(M) \in Nat /\ Weight(K) \in Nat \ {0} /\ Weight(M) <= Weight(K)
    BY <1>1, <1>2, <1>4, WeightGrows
  <2>2. (Unit * Weight(M)) \div Weight(K) \in 0 .. Unit
    BY <2>1, Share
  <2>3. QED
    BY <1>4, <2>2 DEF KeywordScore, K, M
<1>5. QED
  BY <1>3, <1>4

\* The fallback keeps the scale, and cannot lift a weak result to "high".
LEMMA BlendInScale ==
    ASSUME NEW neural \in 0 .. Unit, NEW keyword \in 0 .. Unit
    PROVE  /\ Blend(neural, keyword) \in 0 .. Unit
           /\ NeedsFallback(neural) => Blend(neural, keyword) < High
BY DEF Blend, NeedsFallback, FallbackThreshold, High, Unit

\* A percentage of the model, whatever it is, becomes a score.
LEMMA ClampedInScale ==
    ASSUME NEW percent \in Int
    PROVE  Clamped(percent) \in 0 .. Unit
BY DEF Clamped, Unit

----------------------------------------------------------------------------
(* Candidates and rankings *)

Candidate == [pos : Nat, id : Ids, text : Texts, emb : Int]

Ranked == [pos : Nat, id : Ids, text : Texts, emb : Int, rerank : Int,
           final : 0 .. Unit, scored : BOOLEAN, rank : Nat]

\* No resume is in the list twice.
Distinct(s) == \A p, q \in DOMAIN s : s[p].pos = s[q].pos => p = q

PlacesIn(s) == {s[p].pos : p \in DOMAIN s}

InScale(candidates) == \A i \in DOMAIN candidates : candidates[i].emb \in 0 .. Unit

BestFirst(candidates) ==
    \A p, q \in DOMAIN candidates : p < q => candidates[p].emb >= candidates[q].emb

Falling(results) ==
    \A p, q \in DOMAIN results : p < q => results[p].final >= results[q].final

\* What the model has judged precedes the rest, which keeps retrieval order.
JudgedFirst(results) ==
    \A p, q \in DOMAIN results : p < q =>
        /\ results[q].scored => results[p].scored
        /\ ~results[p].scored => results[p].emb >= results[q].emb

\* What each reranker makes of a list of candidates when n are wanted.
RankingOf(candidates, n, results) ==
    /\ results \in Seq(Ranked)
    /\ Len(results) = Lesser(n, Len(candidates))
    /\ Distinct(results) /\ PlacesIn(results) \subseteq PlacesIn(candidates)
    /\ Falling(results) /\ JudgedFirst(results)

\* Sorted by embedding score the candidates are the same ones.
LEMMA ByEmbeddingKeeps ==
    ASSUME NEW cs \in Seq(Candidate), Distinct(cs)
    PROVE  LET s == ByEmbedding(cs)
           IN  /\ s \in Seq(Candidate) /\ Len(s) = Len(cs)
               /\ Distinct(s) /\ PlacesIn(s) \subseteq PlacesIn(cs)
               /\ BestFirst(s) /\ (InScale(cs) => InScale(s))
<1> DEFINE keys == [i \in DOMAIN cs |-> cs[i].emb]
           s == ByEmbedding(cs)
<1>1. DOMAIN cs = 1 .. Len(cs) /\ Len(cs) \in Nat
  BY LenProperties
<1>2. \A i \in DOMAIN cs : cs[i] \in Candidate
  BY <1>1, ElementOfSeq
<1>3. keys \in [DOMAIN cs -> Int]
  BY <1>2 DEF Candidate
<1>4. \A i \in DOMAIN cs : keys[i] = cs[i].emb
  OBVIOUS
<1>5. s = SortedBy(cs, keys)
  BY DEF ByEmbedding
<1> HIDE DEF keys, s
<1>6. s \in Seq(Candidate) /\ Len(s) = Len(cs)
  BY <1>3, <1>5, SortedPlaces
<1>7. PICK at : Sorts(cs, keys, at, s)
  BY <1>3, <1>5, SortedPlaces
<1>8. DOMAIN s = DOMAIN cs
  BY <1>1, <1>6, LenProperties
<1>9. Distinct(s)
  <2> SUFFICES ASSUME NEW p \in DOMAIN cs, NEW q \in DOMAIN cs, s[p].pos = s[q].pos
               PROVE  p = q
    BY <1>8 DEF Distinct
  <2>1. at[p] \in DOMAIN cs /\ at[q] \in DOMAIN cs /\ s[p] = cs[at[p]] /\ s[q] = cs[at[q]]
    BY <1>7 DEF Sorts
  <2>2. at[p] = at[q]
    BY <2>1 DEF Distinct
  <2>3. QED
    BY <1>7, <2>2 DEF Sorts
<1>10. PlacesIn(s) \subseteq PlacesIn(cs)
  BY <1>7, <1>8 DEF PlacesIn, Sorts
<1>11. BestFirst(s)
  <2> SUFFICES ASSUME NEW p \in DOMAIN cs, NEW q \in DOMAIN cs, p < q
               PROVE  s[p].emb >= s[q].emb
    BY <1>8 DEF BestFirst
  <2>1. s[p].emb = keys[at[p]] /\ s[q].emb = keys[at[q]]
    BY <1>4, <1>7 DEF Sorts
  <2>2. keys[at[p]] \in Int /\ keys[at[q]] \in Int
    BY <1>3, <1>7 DEF Sorts
  <2>3. keys[at[p]] > keys[at[q]] \/ keys[at[p]] = keys[at[q]]
    BY <1>7 DEF Sorts
  <2>4. QED
    BY <2>1, <2>2, <2>3
<1>12. InScale(cs) => InScale(s)
  BY <1>7, <1>8 DEF InScale, Sorts
<1>13. QED
  BY <1>6, <1>9, <1>10, <1>11, <1>12 DEF s

\* The first n of distinct candidates are distinct candidates.
LEMMA FirstOfKeeps ==
    ASSUME NEW cs \in Seq(Candidate), Distinct(cs), NEW n \in Nat
    PROVE  LET s == FirstOf(cs, n)
           IN  /\ s \in Seq(Candidate) /\ Len(s) = Lesser(n, Len(cs))
               /\ Distinct(s) /\ PlacesIn(s) \subseteq PlacesIn(cs)
               /\ (InScale(cs) => InScale(s))
<1> DEFINE m == Lesser(n, Len(cs))
           s == FirstOf(cs, n)
<1>1. DOMAIN cs = 1 .. Len(cs) /\ Len(cs) \in Nat
  BY LenProperties
<1>2. /\ s \in Seq(Candidate) /\ Len(s) = m
      /\ m \in Nat /\ m <= Len(cs)
      /\ \A i \in 1 .. m : s[i] = cs[i]
  BY FirstElements
<1> HIDE DEF m, s
<1>3. DOMAIN s = 1 .. m /\ \A i \in 1 .. m : i \in DOMAIN cs
  BY <1>1, <1>2, LenProperties
<1>4. Distinct(s)
  BY <1>2, <1>3 DEF Distinct
<1>5. PlacesIn(s) \subseteq PlacesIn(cs)
  BY <1>2, <1>3 DEF PlacesIn
<1>6. InScale(cs) => InScale(s)
  BY <1>2, <1>3 DEF InScale
<1>7. QED
  BY <1>2, <1>4, <1>5, <1>6 DEF m, s

\* Numbering a list changes nothing but its ranks.
LEMMA NumberedKeeps ==
    ASSUME NEW s \in Seq(Ranked)
    PROVE  /\ Numbered(s) \in Seq(Ranked) /\ Len(Numbered(s)) = Len(s)
           /\ DOMAIN Numbered(s) = DOMAIN s
           /\ \A p \in DOMAIN s :
                  /\ Numbered(s)[p].pos = s[p].pos /\ Numbered(s)[p].id = s[p].id
                  /\ Numbered(s)[p].emb = s[p].emb /\ Numbered(s)[p].final = s[p].final
                  /\ Numbered(s)[p].scored = s[p].scored
<1>1. DOMAIN s = 1 .. Len(s) /\ Len(s) \in Nat
  BY LenProperties
<1>2. \A p \in DOMAIN s : s[p] \in Ranked
  BY <1>1, ElementOfSeq
<1>3. ASSUME NEW p \in DOMAIN s
      PROVE  [s[p] EXCEPT !.rank = p - 1] \in Ranked
  <2> DEFINE x == s[p]
             k == p - 1
  <2>1. x \in Ranked /\ k \in Nat
    BY <1>1, <1>2
  <2> HIDE DEF x, k
  <2>2. [x EXCEPT !.rank = k] \in Ranked
    BY <2>1 DEF Ranked
  <2>3. QED
    BY <2>2 DEF x, k
<1>4. Numbered(s) \in [1 .. Len(s) -> Ranked]
  BY <1>1, <1>3 DEF Numbered
<1>5. Numbered(s) \in Seq(Ranked) /\ Len(Numbered(s)) = Len(s) /\ DOMAIN Numbered(s) = DOMAIN s
  BY <1>1, <1>4, ListOf
<1>6. \A p \in DOMAIN s : Numbered(s)[p] = [s[p] EXCEPT !.rank = p - 1]
  BY DEF Numbered
<1>7. ASSUME NEW p \in DOMAIN s
      PROVE  /\ Numbered(s)[p].pos = s[p].pos /\ Numbered(s)[p].id = s[p].id
             /\ Numbered(s)[p].emb = s[p].emb /\ Numbered(s)[p].final = s[p].final
             /\ Numbered(s)[p].scored = s[p].scored
  BY <1>2, <1>6 DEF Ranked
<1>8. QED
  BY <1>5, <1>7

\* Numbering a ranking leaves it one.
LEMMA NumberedRanks ==
    ASSUME NEW cs \in Seq(Candidate), NEW n \in Nat, NEW rs, RankingOf(cs, n, rs)
    PROVE  RankingOf(cs, n, Numbered(rs))
<1>1. rs \in Seq(Ranked)
  BY DEF RankingOf
<1> DEFINE ns == Numbered(rs)
<1>2. /\ ns \in Seq(Ranked) /\ Len(ns) = Len(rs) /\ DOMAIN ns = DOMAIN rs
      /\ \A p \in DOMAIN rs :
             /\ ns[p].pos = rs[p].pos /\ ns[p].emb = rs[p].emb
             /\ ns[p].final = rs[p].final /\ ns[p].scored = rs[p].scored
  BY <1>1, NumberedKeeps
<1> HIDE DEF ns
<1>3. Distinct(ns)
  BY <1>2 DEF RankingOf, Distinct
<1>4. PlacesIn(ns) \subseteq PlacesIn(cs)
  BY <1>2 DEF RankingOf, PlacesIn
<1>5. Falling(ns)
  BY <1>2 DEF RankingOf, Falling
<1>6. JudgedFirst(ns)
  BY <1>2 DEF RankingOf, JudgedFirst
<1>7. Len(ns) = Lesser(n, Len(cs))
  BY <1>2 DEF RankingOf
<1>8. QED
  BY <1>2, <1>3, <1>4, <1>5, <1>6, <1>7 DEF RankingOf, ns

\* Of a ranking of all candidates the first n are a ranking of n.
LEMMA FirstRanks ==
    ASSUME NEW cs \in Seq(Candidate), NEW n \in Nat, NEW rs, RankingOf(cs, Len(cs), rs)
    PROVE  RankingOf(cs, n, FirstOf(rs, n))
<1> DEFINE m  == Lesser(n, Len(rs))
           ns == FirstOf(rs, n)
<1>1. Len(cs) \in Nat
  BY LenProperties
<1>2. rs \in Seq(Ranked) /\ Len(rs) = Len(cs) /\ DOMAIN rs = 1 .. Len(cs)
  BY <1>1, LenProperties DEF RankingOf, Lesser
<1>3. /\ ns \in Seq(Ranked) /\ Len(ns) = m /\ m \in Nat /\ m <= Len(rs)
      /\ \A i \in 1 .. m : ns[i] = rs[i]
  BY <1>2, FirstElements
<1>4. m = Lesser(n, Len(cs))
  BY <1>2
<1> HIDE DEF m, ns
<1>5. DOMAIN ns = 1 .. m /\ \A i \in 1 .. m : i \in DOMAIN rs
  BY <1>1, <1>2, <1>3, LenProperties
<1>6. Distinct(ns)
  BY <1>3, <1>5 DEF RankingOf, Distinct
<1>7. PlacesIn(ns) \subseteq PlacesIn(cs)
  BY <1>3, <1>5 DEF RankingOf, PlacesIn
<1>8. Falling(ns)
  BY <1>3, <1>5 DEF RankingOf, Falling
<1>9. JudgedFirst(ns)
  BY <1>3, <1>5 DEF RankingOf, JudgedFirst
<1>10. QED
  BY <1>3, <1>4, <1>6, <1>7, <1>8, <1>9 DEF RankingOf, ns

\* A result has the fields of its candidate.
LEMMA ResultRanked ==
    ASSUME NEW c \in Candidate, NEW rerank \in Int, NEW final \in 0 .. Unit, NEW scored \in BOOLEAN
    PROVE  /\ Result(c, rerank, final, scored) \in Ranked
           /\ Result(c, rerank, final, scored).pos = c.pos
           /\ Result(c, rerank, final, scored).emb = c.emb
           /\ Result(c, rerank, final, scored).final = final
           /\ Result(c, rerank, final, scored).scored = scored
BY DEF Candidate, Ranked, Result

----------------------------------------------------------------------------
(* The rerankers *)

\* The ranking of candidates that are in order already.
LEMMA PassthroughRanks ==
    ASSUME NEW cs \in Seq(Candidate), Distinct(cs), InScale(cs), BestFirst(cs), NEW n \in Nat
    PROVE  RankingOf(cs, n, Passthrough(cs, n))
<1> DEFINE m  == Lesser(n, Len(cs))
           rs == [p \in DOMAIN FirstOf(cs, n) |-> Result(cs[p], cs[p].emb, cs[p].emb, FALSE)]
<1>1. DOMAIN cs = 1 .. Len(cs) /\ Len(cs) \in Nat
  BY LenProperties
<1>2. FirstOf(cs, n) \in Seq(Candidate) /\ Len(FirstOf(cs, n)) = m /\ m \in Nat /\ m <= Len(cs)
  BY FirstElements
<1>3. DOMAIN FirstOf(cs, n) = 1 .. m
  BY <1>2, LenProperties
<1> HIDE DEF m
<1>4. \A p \in 1 .. m : p \in DOMAIN cs /\ cs[p] \in Candidate /\ cs[p].emb \in 0 .. Unit
  BY <1>1, <1>2, ElementOfSeq DEF InScale
<1>5. ASSUME NEW p \in 1 .. m
      PROVE  /\ Result(cs[p], cs[p].emb, cs[p].emb, FALSE) \in Ranked
             /\ Result(cs[p], cs[p].emb, cs[p].emb, FALSE).pos = cs[p].pos
             /\ Result(cs[p], cs[p].emb, cs[p].emb, FALSE).emb = cs[p].emb
             /\ Result(cs[p], cs[p].emb, cs[p].emb, FALSE).final = cs[p].emb
             /\ Result(cs[p], cs[p].emb, cs[p].emb, FALSE).scored = FALSE
  <2>1. cs[p].emb \in Int /\ FALSE \in BOOLEAN
    BY <1>4
  <2>2. QED
    BY <1>4, <2>1, ResultRanked
<1>6. /\ rs \in [1 .. m -> Ranked]
      /\ \A p \in 1 .. m : /\ rs[p].pos = cs[p].pos /\ rs[p].emb = cs[p].emb
                           /\ rs[p].final = cs[p].emb /\ rs[p].scored = FALSE
  BY <1>3, <1>5
<1> HIDE DEF rs
<1>7. rs \in Seq(Ranked) /\ Len(rs) = m /\ DOMAIN rs = 1 .. m
  BY <1>2, <1>6, ListOf
<1>8. Distinct(rs)
  BY <1>4, <1>6, <1>7 DEF Distinct
<1>9. PlacesIn(rs) \subseteq PlacesIn(cs)
  BY <1>4, <1>6, <1>7 DEF PlacesIn
<1>10. Falling(rs)
  BY <1>4, <1>6, <1>7 DEF Falling, BestFirst
<1>11. JudgedFirst(rs)
  BY <1>4, <1>6, <1>7 DEF JudgedFirst, BestFirst
<1>12. RankingOf(cs, n, rs)
  BY <1>7, <1>8, <1>9, <1>10, <1>11 DEF RankingOf, m
<1>13. Passthrough(cs, n) = Numbered(rs)
  BY DEF Passthrough, rs
<1>14. QED
  BY <1>12, <1>13, NumberedRanks

\* A ranking of the sorted candidates is one of the candidates.
LEMMA SortedRanks ==
    ASSUME NEW cs \in Seq(Candidate), Distinct(cs), NEW n \in Nat,
           NEW rs, RankingOf(ByEmbedding(cs), n, rs)
    PROVE  RankingOf(cs, n, rs)
<1> DEFINE s == ByEmbedding(cs)
<1>1. Len(s) = Len(cs) /\ PlacesIn(s) \subseteq PlacesIn(cs)
  BY ByEmbeddingKeeps
<1> HIDE DEF s
<1>2. RankingOf(s, n, rs)
  BY DEF s
<1>3. QED
  BY <1>1, <1>2 DEF RankingOf

\* The lexical reranker sorts first.
LEMMA LexicalRanks ==
    ASSUME NEW cs \in Seq(Candidate), Distinct(cs), InScale(cs), NEW n \in Nat
    PROVE  RankingOf(cs, n, LexicalRerank(cs, n))
<1> DEFINE s == ByEmbedding(cs)
<1>1. s \in Seq(Candidate) /\ Distinct(s) /\ BestFirst(s) /\ InScale(s)
  BY ByEmbeddingKeeps
<1> HIDE DEF s
<1>2. RankingOf(s, n, Passthrough(s, n))
  BY <1>1, PassthroughRanks
<1>3. QED
  BY <1>2, SortedRanks DEF s, LexicalRerank

\* Stretching brings the embedding scores into the scale, whatever they are.
LEMMA StretchedInScale ==
    ASSUME NEW cs \in Seq(Candidate)
    PROVE  Stretched(cs) \in [DOMAIN cs -> 0 .. Unit]
<1> DEFINE embs == {cs[i].emb : i \in DOMAIN cs}
           keys == [i \in DOMAIN cs |-> cs[i].emb]
           span == Greatest(embs) - Least(embs)
           x(i) == IF span = 0 THEN 0 ELSE (Unit * (cs[i].emb - Least(embs))) \div span
           s == [i \in DOMAIN cs |-> x(i)]
<1>1. DOMAIN cs = 1 .. Len(cs) /\ Len(cs) \in Nat
  BY LenProperties
<1>2. \A i \in DOMAIN cs : cs[i].emb \in Int
  <2>1. \A i \in DOMAIN cs : cs[i] \in Candidate
    BY <1>1, ElementOfSeq
  <2>2. QED
    BY <2>1 DEF Candidate
<1>3. embs \in SUBSET Int
  BY <1>2
<1>4. IsFiniteSet(embs)
  <2>1. IsFiniteSet(DOMAIN cs)
    BY <1>1, FS_Interval
  <2>2. keys \in Surjection(DOMAIN cs, embs)
    BY DEF Surjection
  <2> HIDE DEF keys, embs
  <2>3. QED
    BY <2>1, <2>2, FS_Surjection
<1>5. ASSUME NEW i \in DOMAIN cs
      PROVE  x(i) \in 0 .. Unit
  <2> DEFINE e == cs[i].emb
             lo == Least(embs)
             hi == Greatest(embs)
             a == e - lo
             d == hi - lo
  <2>1. e \in embs
    OBVIOUS
  <2>2. x(i) = IF d = 0 THEN 0 ELSE (Unit * a) \div d
    OBVIOUS
  <2>3. e \in Int
    BY <1>2
  <2> HIDE DEF embs, e
  <2>4. hi \in embs /\ lo \in embs /\ e <= hi /\ lo <= e
    BY <1>3, <1>4, <2>1, Extremes
  <2>5. hi \in Int /\ lo \in Int
    BY <1>3, <2>4
  <2> HIDE DEF hi, lo
  <2>6. a \in Nat /\ d \in Nat /\ a <= d
    BY <2>3, <2>4, <2>5
  <2> HIDE DEF a, d, x
  <2>7. CASE d = 0
    BY <2>2, <2>7 DEF Unit
  <2>8. CASE d # 0
    <3>1. d \in Nat \ {0}
      BY <2>6, <2>8
    <3>2. (Unit * a) \div d \in 0 .. Unit
      BY <2>6, <3>1, Share
    <3>3. QED
      BY <2>2, <2>8, <3>2
  <2>9. QED
    BY <2>7, <2>8
<1>6. Stretched(cs) = Listed(s)
  BY DEF Stretched
<1> HIDE DEF x
<1>7. s \in [1 .. Len(cs) -> 0 .. Unit]
  BY <1>1, <1>5
<1> HIDE DEF s
<1>8. s \in Seq(0 .. Unit)
  BY <1>1, <1>7, ListOf
<1>9. Listed(s) = s
  BY <1>8, ListedSame
<1>10. QED
  BY <1>1, <1>6, <1>7, <1>9

\* The final score of a local model is a weighted mean of two in scale.
LEMMA MeanInScale ==
    ASSUME NEW weight \in {2, 3}, NEW a \in 0 .. Unit, NEW b \in 0 .. Unit
    PROVE  (weight * a + (10 - weight) * b) \div 10 \in 0 .. Unit
<1>1. CASE weight = 2
  BY <1>1 DEF Unit
<1>2. CASE weight = 3
  BY <1>2 DEF Unit
<1>3. QED
  BY <1>1, <1>2

\* The cross-encoder and the local language model, whatever they score.
LEMMA LocalRanks ==
    ASSUME NEW cs \in Seq(Candidate), Distinct(cs), Len(cs) <= TopK, NEW n \in Nat,
           NEW weight \in {2, 3}, NEW scores \in [DOMAIN cs -> 0 .. Unit],
           NEW rs \in LocalReranks(cs, n, weight, scores)
    PROVE  RankingOf(cs, n, rs)
<1> DEFINE embs  == Stretched(cs)
           final(i) == (weight * embs[i] + (10 - weight) * scores[i]) \div 10
           res(i) == Result(cs[i], scores[i], final(i), TRUE)
           all == [i \in DOMAIN cs |-> res(i)]
           combined == Listed(all)
           k == Len(cs)
<1>1. DOMAIN cs = 1 .. k /\ k \in Nat
  BY LenProperties
<1>2. \A i \in DOMAIN cs : cs[i] \in Candidate
  BY <1>1, ElementOfSeq
<1>3. embs \in [DOMAIN cs -> 0 .. Unit]
  BY StretchedInScale
<1> HIDE DEF embs
<1>4. ASSUME NEW i \in DOMAIN cs
      PROVE  /\ res(i) \in Ranked /\ res(i).pos = cs[i].pos /\ res(i).scored = TRUE
  <2>1. final(i) \in 0 .. Unit
    BY <1>3, MeanInScale
  <2>2. scores[i] \in Int
    <3>1. scores[i] \in 0 .. Unit
      OBVIOUS
    <3>2. 0 .. Unit \subseteq Int
      BY DEF Unit
    <3>3. QED
      BY <3>1, <3>2, Zenon
  <2> HIDE DEF final
  <2>3. QED
    BY <1>2, <2>1, <2>2, ResultRanked
<1> HIDE DEF res
<1>5. all \in [1 .. k -> Ranked]
  BY <1>1, <1>4
<1>6. \A i \in DOMAIN cs : all[i].pos = cs[i].pos /\ all[i].scored = TRUE
  BY <1>4
<1> HIDE DEF all
<1>7. combined = all
  BY <1>1, <1>5, ListOf, ListedSame
<1>8. PICK f \in Orders[k] :
          /\ \A p, q \in DOMAIN f : p < q => combined[f[p]].final >= combined[f[q]].final
          /\ rs = FirstOf(Numbered([p \in DOMAIN f |-> combined[f[p]]]), n)
  BY DEF LocalReranks, all, res, final, embs
<1> HIDE DEF combined, k
<1>9. k \in 0 .. TopK
  BY <1>1, RerankingAssumption DEF RerankingAssumption, k
<1>10. f \in [1 .. k -> 1 .. k] /\ \A i, j \in 1 .. k : f[i] = f[j] => i = j
  BY <1>9 DEF Orders
<1> DEFINE s == [p \in DOMAIN f |-> combined[f[p]]]
<1>11. /\ s \in [1 .. k -> Ranked] /\ \A p \in 1 .. k : s[p] = all[f[p]] /\ f[p] \in DOMAIN cs
  BY <1>1, <1>5, <1>7, <1>10
<1>12. \A p, q \in 1 .. k : p < q => s[p].final >= s[q].final
  BY <1>8, <1>10
<1>13. rs = FirstOf(Numbered(s), n)
  BY <1>8
<1> HIDE DEF s
<1>14. s \in Seq(Ranked) /\ Len(s) = k /\ DOMAIN s = 1 .. k
  BY <1>1, <1>11, ListOf
<1>15. Distinct(s)
  <2> SUFFICES ASSUME NEW p \in 1 .. k, NEW q \in 1 .. k, s[p].pos = s[q].pos
               PROVE  p = q
    BY <1>14 DEF Distinct
  <2>1. cs[f[p]].pos = cs[f[q]].pos /\ f[p] \in DOMAIN cs /\ f[q] \in DOMAIN cs
    BY <1>6, <1>11
  <2>2. f[p] = f[q]
    BY <2>1 DEF Distinct
  <2>3. QED
    BY <1>10, <2>2
<1>16. PlacesIn(s) \subseteq PlacesIn(cs)
  <2> SUFFICES ASSUME NEW p \in 1 .. k PROVE s[p].pos \in PlacesIn(cs)
    BY <1>14 DEF PlacesIn
  <2>1. s[p].pos = cs[f[p]].pos /\ f[p] \in DOMAIN cs
    BY <1>6, <1>11
  <2>2. QED
    BY <2>1 DEF PlacesIn
<1>17. Falling(s)
  BY <1>12, <1>14 DEF Falling
<1>18. JudgedFirst(s)
  BY <1>6, <1>11, <1>14 DEF JudgedFirst
<1>19. Lesser(k, Len(cs)) = k
  BY <1>1 DEF Lesser, k
<1>20. RankingOf(cs, k, s)
  BY <1>14, <1>15, <1>16, <1>17, <1>18, <1>19 DEF RankingOf
<1>21. RankingOf(cs, k, Numbered(s))
  BY <1>1, <1>20, NumberedRanks
<1>22. RankingOf(cs, n, FirstOf(Numbered(s), n))
  BY <1>21, FirstRanks DEF k
<1>23. QED
  BY <1>13, <1>22

Item == [index : Int \cup {Absent}, score : Int \cup {Absent}]

\* An answer of the hosted model, as far as the parser looks at it.
Answer == [form : {"list", "wrapped", "other"}, items : Seq(Item)]

\* Whatever the model answers, the candidates that get a score from it are
\* among those it was asked about, and the score is within the scale.
LEMMA ScoresOfInScale ==
    ASSUME NEW answer \in Answer \cup {NoAnswer}, NEW m \in Nat
    PROVE  /\ DOMAIN ScoresOf(answer, m) \subseteq 0 .. m - 1
           /\ \A i \in DOMAIN ScoresOf(answer, m) : ScoresOf(answer, m)[i] \in 0 .. Unit
<1> DEFINE items == IF answer = NoAnswer \/ ScoreList(answer) = NoList THEN <<>>
                    ELSE ScoreList(answer)
           judged == {i \in 0 .. m - 1 : ItemsFor(items, i) # {}}
           score(i) == Clamped(items[Greatest(ItemsFor(items, i))].score)
<1>1. items \in Seq(Item)
  <2>1. CASE answer = NoAnswer \/ ScoreList(answer) = NoList
    BY <2>1, EmptySeq
  <2>2. CASE answer # NoAnswer /\ ScoreList(answer) # NoList
    <3>1. ScoreList(answer) = answer.items
      BY <2>2 DEF ScoreList
    <3>2. answer \in Answer
      BY <2>2
    <3>3. answer.items \in Seq(Item)
      BY <3>2 DEF Answer
    <3>4. QED
      BY <2>2, <3>1, <3>3
  <2>3. QED
    BY <2>1, <2>2
<1>2. ScoresOf(answer, m) = [i \in judged |-> score(i)]
  BY DEF ScoresOf
<1> HIDE DEF items
<1>3. ASSUME NEW i \in judged
      PROVE  score(i) \in 0 .. Unit
  <2> DEFINE S == ItemsFor(items, i)
             p == Greatest(S)
  <2>1. S # {}
    OBVIOUS
  <2>2. DOMAIN items = 1 .. Len(items) /\ Len(items) \in Nat
    BY <1>1, LenProperties
  <2>3. S \in SUBSET (1 .. Len(items)) /\ \A x \in S : items[x].score # Absent
    BY <2>2 DEF ItemsFor
  <2> HIDE DEF S
  <2>4. IsFiniteSet(S)
    <3>1. IsFiniteSet(1 .. Len(items))
      BY <2>2, FS_Interval
    <3>2. QED
      BY <2>3, <3>1, FS_Subset
  <2>5. S \in SUBSET Int
    BY <2>2, <2>3
  <2>6. p \in S
    BY <2>1, <2>4, <2>5, Extremes
  <2> HIDE DEF p
  <2>7. items[p] \in Item
    BY <1>1, <2>2, <2>3, <2>6, ElementOfSeq
  <2>8. items[p].score \in Int
    BY <2>3, <2>6, <2>7 DEF Item
  <2>9. Clamped(items[p].score) \in 0 .. Unit
    BY <2>8, ClampedInScale
  <2>10. QED
    BY <2>9 DEF p, S
<1> HIDE DEF score
<1>4. judged \subseteq 0 .. m - 1
  OBVIOUS
<1> HIDE DEF judged
<1>5. QED
  BY <1>2, <1>3, <1>4

\* What the hosted reranker has made of each candidate when it sorts: what
\* the model was not asked about has 0, and keeps retrieval order.
LEMMA HostedRanks ==
    ASSUME NEW cs \in Seq(Candidate), Distinct(cs), InScale(cs), NEW n \in Nat,
           NEW answer \in Answer \cup {NoAnswer}
    PROVE  RankingOf(cs, n, HostedRerank(cs, n, answer))
<1> DEFINE s == ByEmbedding(cs)
           scores == ScoresOf(answer, Len(Subset20(cs)))
           res(p) == Result(s[p], HostedScore(scores, s, p), HostedScore(scores, s, p),
                            p <= MaxCandidates)
           all == [p \in DOMAIN s |-> res(p)]
           combined == Listed(all)
           k == Len(s)
<1>1. /\ s \in Seq(Candidate) /\ Len(s) = Len(cs) /\ Distinct(s)
      /\ BestFirst(s) /\ InScale(s)
  BY ByEmbeddingKeeps
<1>2. HostedRerank(cs, n, answer) =
          IF DOMAIN scores = {} THEN Passthrough(s, n)
          ELSE FirstOf(Numbered(ByFinal(combined)), n)
  BY DEF HostedRerank
<1>3. MaxCandidates \in Nat
  BY RerankingAssumption DEF RerankingAssumption
<1>4. /\ DOMAIN scores \subseteq 0 .. MaxCandidates - 1
      /\ \A i \in DOMAIN scores : scores[i] \in 0 .. Unit
  <2> DEFINE m == Len(Subset20(cs))
  <2>1. m = Lesser(MaxCandidates, Len(s)) /\ m \in Nat /\ Len(s) \in Nat
    <3>1. FirstOf(s, MaxCandidates) \in Seq(Candidate)
          /\ Len(FirstOf(s, MaxCandidates)) = Lesser(MaxCandidates, Len(s))
      BY <1>1, <1>3, FirstElements
    <3> HIDE DEF s
    <3>2. Subset20(cs) = FirstOf(s, MaxCandidates)
      BY DEF Subset20, s
    <3>3. QED
      BY <1>1, <3>1, <3>2, LenProperties
  <2>2. m <= MaxCandidates
    BY <1>3, <2>1 DEF Lesser
  <2> HIDE DEF m
  <2>3. /\ DOMAIN ScoresOf(answer, m) \subseteq 0 .. m - 1
        /\ \A i \in DOMAIN ScoresOf(answer, m) : ScoresOf(answer, m)[i] \in 0 .. Unit
    BY <2>1, ScoresOfInScale
  <2>4. 0 .. m - 1 \subseteq 0 .. MaxCandidates - 1
    BY <1>3, <2>1, <2>2
  <2>5. QED
    BY <2>3, <2>4 DEF m
<1> HIDE DEF scores, s
<1>5. k \in Nat /\ DOMAIN s = 1 .. k
  BY <1>1, LenProperties
<1>6. ASSUME NEW p \in DOMAIN s
      PROVE  /\ HostedScore(scores, s, p) \in 0 .. Unit
             /\ p > MaxCandidates => HostedScore(scores, s, p) = 0
  <2>1. s[p].emb \in 0 .. Unit
    BY <1>1 DEF InScale
  <2>2. p \in Nat
    BY <1>5
  <2>3. p - 1 \in DOMAIN scores => p <= MaxCandidates
    BY <1>3, <1>4, <2>2
  <2>4. 0 \in 0 .. Unit
    BY DEF Unit
  <2>5. p > MaxCandidates => ~(p <= MaxCandidates)
    BY <1>3, <2>2
  <2>6. QED
    BY <1>4, <2>1, <2>3, <2>4, <2>5, Zenon DEF HostedScore
<1>7. ASSUME NEW p \in DOMAIN s
      PROVE  /\ res(p) \in Ranked /\ res(p).pos = s[p].pos /\ res(p).emb = s[p].emb
             /\ res(p).final = HostedScore(scores, s, p)
             /\ res(p).scored = (p <= MaxCandidates)
  <2> DEFINE h == HostedScore(scores, s, p)
             w == p <= MaxCandidates
  <2>1. h \in 0 .. Unit /\ w \in BOOLEAN /\ s[p] \in Candidate
    BY <1>1, <1>5, <1>6, ElementOfSeq
  <2> HIDE DEF h, w
  <2>2. h \in Int
    BY <2>1 DEF Unit
  <2>3. /\ Result(s[p], h, h, w) \in Ranked
        /\ Result(s[p], h, h, w).pos = s[p].pos /\ Result(s[p], h, h, w).emb = s[p].emb
        /\ Result(s[p], h, h, w).final = h /\ Result(s[p], h, h, w).scored = w
    BY <2>1, <2>2, ResultRanked
  <2>4. QED
    BY <2>3 DEF h, w
<1> HIDE DEF res
<1>8. /\ all \in [1 .. k -> Ranked]
      /\ \A p \in DOMAIN s : /\ all[p].pos = s[p].pos /\ all[p].emb = s[p].emb
                             /\ all[p].final \in 0 .. Unit
                             /\ p > MaxCandidates => all[p].final = 0
                             /\ all[p].scored = (p <= MaxCandidates)
  BY <1>5, <1>6, <1>7
<1>9. combined = Listed(all)
  OBVIOUS
<1> HIDE DEF all, k
<1>10. all \in Seq(Ranked) /\ Len(all) = k /\ DOMAIN all = 1 .. k
  BY <1>5, <1>8, ListOf
<1>11. combined = all
  BY <1>9, <1>10, ListedSame
<1> HIDE DEF combined
<1> DEFINE keys == [i \in DOMAIN all |-> all[i].final]
           t == SortedBy(all, keys)
<1>12. keys \in [DOMAIN all -> Int] /\ \A i \in DOMAIN all : keys[i] = all[i].final
  <2>1. \A i \in DOMAIN all : all[i].final \in 0 .. Unit
    BY <1>5, <1>8, <1>10
  <2>2. QED
    <3>1. \A i \in DOMAIN all : all[i].final \in Int
      BY <2>1, Scale
    <3>2. QED
      BY <3>1
<1> HIDE DEF keys
<1>13. t \in Seq(Ranked) /\ Len(t) = k
  BY <1>10, <1>12, SortedPlaces
<1>14. PICK at : Sorts(all, keys, at, t)
  BY <1>10, <1>12, SortedPlaces
<1> HIDE DEF t
<1>15. DOMAIN t = 1 .. k
  BY <1>5, <1>13, LenProperties
<1>16. ASSUME NEW p \in 1 .. k
       PROVE  /\ t[p] = all[at[p]] /\ at[p] \in DOMAIN s
              /\ t[p].final = keys[at[p]] /\ keys[at[p]] \in 0 .. Unit
              /\ at[p] > MaxCandidates => keys[at[p]] = 0
              /\ t[p].pos = s[at[p]].pos /\ t[p].emb = s[at[p]].emb
              /\ t[p].scored = (at[p] <= MaxCandidates)
  <2>1. t[p] = all[at[p]] /\ at[p] \in DOMAIN all
    BY <1>10, <1>14 DEF Sorts
  <2>2. at[p] \in DOMAIN s
    BY <1>5, <1>10, <2>1
  <2>3. QED
    BY <1>8, <1>12, <2>1, <2>2
<1>17. ASSUME NEW p \in 1 .. k, NEW q \in 1 .. k, p < q
       PROVE  /\ keys[at[p]] >= keys[at[q]]
              /\ keys[at[p]] = keys[at[q]] => at[p] < at[q]
  <2>1. keys[at[p]] \in Int /\ keys[at[q]] \in Int
    BY <1>16, Scale
  <2>2. keys[at[p]] > keys[at[q]] \/ (keys[at[p]] = keys[at[q]] /\ at[p] < at[q])
    BY <1>10, <1>14, <1>17 DEF Sorts
  <2>3. QED
    BY <2>1, <2>2
<1>18. Distinct(t)
  <2> SUFFICES ASSUME NEW p \in 1 .. k, NEW q \in 1 .. k, t[p].pos = t[q].pos
               PROVE  p = q
    BY <1>15 DEF Distinct
  <2>1. at[p] = at[q]
    BY <1>1, <1>16 DEF Distinct
  <2>2. QED
    BY <1>10, <1>14, <2>1 DEF Sorts
<1>19. PlacesIn(t) \subseteq PlacesIn(s)
  BY <1>15, <1>16 DEF PlacesIn
<1>20. Falling(t)
  BY <1>15, <1>16, <1>17 DEF Falling
<1>21. JudgedFirst(t)
  <2> SUFFICES ASSUME NEW p \in 1 .. k, NEW q \in 1 .. k, p < q, ~t[p].scored
               PROVE  ~t[q].scored /\ t[p].emb >= t[q].emb
    BY <1>15 DEF JudgedFirst
  <2>1. at[p] \in Nat /\ at[q] \in Nat
    BY <1>5, <1>16
  <2>2. at[p] > MaxCandidates
    <3>1. ~(at[p] <= MaxCandidates)
      BY <1>16
    <3>2. QED
      BY <1>3, <2>1, <3>1
  <2>3. keys[at[p]] = 0
    BY <1>16, <2>2
  <2>4. keys[at[q]] = 0
    <3>1. keys[at[q]] \in 0 .. Unit /\ keys[at[p]] >= keys[at[q]]
      BY <1>16, <1>17
    <3>2. QED
      BY <2>3, <3>1, Scale
  <2>5. at[p] < at[q]
    BY <1>17, <2>3, <2>4
  <2>6. ~(at[q] <= MaxCandidates)
    BY <1>3, <2>1, <2>2, <2>5
  <2>7. s[at[p]].emb >= s[at[q]].emb
    BY <1>1, <1>16, <2>5 DEF BestFirst
  <2>8. QED
    BY <1>16, <2>6, <2>7
<1>22. Lesser(k, k) = k
  BY <1>5 DEF Lesser
<1>23. RankingOf(s, k, t)
  BY <1>13, <1>18, <1>19, <1>20, <1>21, <1>22 DEF RankingOf, k
<1>24. RankingOf(s, n, FirstOf(Numbered(t), n))
  <2>1. RankingOf(s, k, Numbered(t))
    BY <1>1, <1>5, <1>23, NumberedRanks
  <2>2. QED
    BY <1>1, <2>1, FirstRanks DEF k
<1>25. ByFinal(combined) = t
  BY <1>11 DEF ByFinal, t, keys
<1>26. RankingOf(s, n, Passthrough(s, n))
  BY <1>1, PassthroughRanks
<1>27. RankingOf(s, n, HostedRerank(cs, n, answer))
  BY <1>2, <1>24, <1>25, <1>26
<1>28. QED
  BY <1>27, SortedRanks DEF s

----------------------------------------------------------------------------
(* The fallback and the confidence levels *)

\* What the fallback makes of the final scores: a weak one may become any
\* score below High, every other one is kept.
Weakened(finals, scores) ==
    \A i \in DOMAIN finals :
        /\ NeedsFallback(finals[i]) => scores[i] < High
        /\ ~NeedsFallback(finals[i]) => scores[i] = finals[i]

\* A result called "high" is separated from every lower one that has kept its
\* own score: between the two none is weak, so the next one is no higher.
LEMMA HighSeparated ==
    ASSUME NEW k \in Nat, NEW finals \in [1 .. k -> 0 .. Unit],
           \A p, q \in 1 .. k : p < q => finals[p] >= finals[q],
           NEW s \in Seq(0 .. Unit), Len(s) = k, Weakened(finals, s),
           NEW i \in 1 .. k, NEW j \in 1 .. k, Level(s, i) = "high",
           ~NeedsFallback(finals[j]), s[j] < s[i]
    PROVE  s[i] - s[j] >= Gap /\ s[i] >= High
<1>1. s[i] >= High /\ GapAfter(s, i) >= Gap
  BY DEF Level
<1>2. \A p \in 1 .. k : finals[p] \in Int /\ s[p] \in Int
  <2>1. \A p \in 1 .. k : finals[p] \in 0 .. Unit /\ s[p] \in 0 .. Unit
    BY ElementOfSeq
  <2>2. QED
    BY <2>1, Scale
<1>3. \A p \in 1 .. k : /\ NeedsFallback(finals[p]) => s[p] < High
                        /\ ~NeedsFallback(finals[p]) => s[p] = finals[p]
  BY DEF Weakened
<1>4. finals[i] = s[i] /\ finals[j] = s[j] /\ finals[j] >= FallbackThreshold
  <2>1. ~(s[i] < High)
    BY <1>1, <1>2 DEF High
  <2>2. ~NeedsFallback(finals[i])
    BY <1>3, <2>1
  <2>3. finals[j] >= FallbackThreshold
    BY <1>2 DEF NeedsFallback, FallbackThreshold
  <2>4. QED
    BY <1>3, <2>2, <2>3
<1>5. i < j
  <2> SUFFICES ASSUME j < i \/ i = j PROVE FALSE
    OBVIOUS
  <2>1. finals[j] >= finals[i]
    BY <1>2
  <2>2. QED
    BY <1>2, <1>4, <2>1
<1>6. i + 1 \in 1 .. k /\ i < Len(s)
  BY <1>5
<1>7. finals[i + 1] >= finals[j]
  <2>1. CASE i + 1 = j
    BY <1>2, <2>1
  <2>2. CASE i + 1 < j
    BY <1>6, <2>2
  <2>3. QED
    BY <1>5, <2>1, <2>2
<1>8. s[i + 1] = finals[i + 1]
  <2>1. ~NeedsFallback(finals[i + 1])
    BY <1>2, <1>4, <1>6, <1>7 DEF NeedsFallback, FallbackThreshold
  <2>2. QED
    BY <1>3, <1>6, <2>1
<1>9. s[i] - s[i + 1] >= Gap
  BY <1>1, <1>6 DEF GapAfter
<1>10. s[i] - s[j] >= Gap
  BY <1>2, <1>4, <1>6, <1>7, <1>8, <1>9 DEF Gap
<1>11. QED
  BY <1>1, <1>10

\* The flag of score_confidence for a clear winner.
ClearWinner(s, i) == i = 1 /\ s[i] >= High /\ GapAfter(s, i) >= 2 * Gap

\* The clear winner has the best score and is in the best tier, whatever the
\* fallback has made of the others.
LEMMA WinnerLeads ==
    ASSUME NEW k \in Nat, NEW finals \in [1 .. k -> 0 .. Unit],
           \A p, q \in 1 .. k : p < q => finals[p] >= finals[q],
           NEW s \in Seq(0 .. Unit), Len(s) = k, Weakened(finals, s),
           NEW i \in 1 .. k, ClearWinner(s, i), NEW j \in 1 .. k, j # i
    PROVE  s[j] < s[i] /\ Tier(Level(s, i)) <= Tier(Level(s, j))
<1>1. i = 1 /\ s[1] >= High /\ GapAfter(s, 1) >= 2 * Gap /\ 1 \in 1 .. k
  BY DEF ClearWinner
<1>2. \A p \in 1 .. k : finals[p] \in Int /\ s[p] \in Int
  <2>1. \A p \in 1 .. k : finals[p] \in 0 .. Unit /\ s[p] \in 0 .. Unit
    BY ElementOfSeq
  <2>2. QED
    BY <2>1, Scale
<1>3. \A p \in 1 .. k : /\ NeedsFallback(finals[p]) => s[p] < High
                        /\ ~NeedsFallback(finals[p]) => s[p] = finals[p]
  BY DEF Weakened
<1>4. 1 < k /\ 2 \in 1 .. k /\ 1 < j
  BY <1>1
<1>5. s[1] - s[2] >= 2 * Gap
  BY <1>1, <1>4 DEF GapAfter
<1>6. s[j] < s[1]
  <2>1. CASE NeedsFallback(finals[j])
    BY <1>1, <1>2, <1>3, <2>1 DEF High
  <2>2. CASE ~NeedsFallback(finals[j])
    <3>1. s[j] = finals[j] /\ finals[j] >= FallbackThreshold
      BY <1>2, <1>3, <2>2 DEF NeedsFallback, FallbackThreshold
    <3>2. finals[2] >= finals[j]
      <4>1. CASE j = 2
        BY <1>2, <4>1
      <4>2. CASE 2 < j
        BY <1>4, <4>2
      <4>3. QED
        BY <1>4, <4>1, <4>2
    <3>3. ~NeedsFallback(finals[2])
      BY <1>2, <1>4, <3>1, <3>2 DEF NeedsFallback, FallbackThreshold
    <3>4. s[2] = finals[2]
      BY <1>3, <1>4, <3>3
    <3>5. QED
      BY <1>1, <1>2, <1>4, <1>5, <3>1, <3>2, <3>4 DEF Gap
  <2>3. QED
    BY <2>1, <2>2
<1>7. Tier(Level(s, 1)) <= Tier(Level(s, j))
  <2>1. CASE NarrowBand(s)
    <3>1. Level(s, 1) = "uncertain" /\ Level(s, j) = "uncertain"
      BY <2>1 DEF Level
    <3>2. QED
      BY <3>1 DEF Tier
  <2>2. CASE ~NarrowBand(s)
    <3>1. GapAfter(s, 1) >= Gap
      BY <1>1, <1>2, <1>4 DEF GapAfter, Gap
    <3>2. Level(s, 1) = "high"
      BY <1>1, <2>2, <3>1 DEF Level
    <3>3. Level(s, j) \in {"high", "medium", "low", "uncertain"}
      BY DEF Level
    <3>4. QED
      BY <3>2, <3>3 DEF Tier
  <2>3. QED
    BY <2>1, <2>2
<1>8. QED
  BY <1>1, <1>6, <1>7

Levels == {"high", "medium", "low", "uncertain"}

Outcome == [pos : Nat, id : Ids, scored : BOOLEAN, score : 0 .. Unit, fallback : BOOLEAN,
            level : Levels, winner : BOOLEAN, rank : Nat]

HighApart(out) ==
    \A p, q \in DOMAIN out :
        out[p].level = "high" /\ ~out[q].fallback /\ out[q].score < out[p].score =>
            out[p].score - out[q].score >= Gap /\ out[p].score >= High

WinnerFirst(out) ==
    \A p \in DOMAIN out : out[p].winner =>
        p = 1 /\ \A q \in DOMAIN out \ {1} : out[q].score < out[1].score

\* A result of the answer, by what is known of it before the sort by level.
OutcomeOf(r, score, fallback, level, winner) ==
    [pos |-> r.pos, id |-> r.id, scored |-> r.scored, score |-> score,
     fallback |-> fallback, level |-> level, winner |-> winner, rank |-> r.rank]

\* What becomes of a result.
LEMMA OutcomeTyped ==
    ASSUME NEW r \in Ranked, NEW score \in 0 .. Unit, NEW fallback \in BOOLEAN,
           NEW level \in Levels, NEW winner \in BOOLEAN
    PROVE  LET o == OutcomeOf(r, score, fallback, level, winner)
           IN  /\ o \in Outcome /\ o.pos = r.pos /\ o.score = score /\ o.fallback = fallback
               /\ o.level = level /\ o.winner = winner
BY DEF Ranked, Outcome, OutcomeOf

\* The list that is sorted by level: of each result its fields, its score
\* after the fallback, and what score_confidence says of the scores.
LEMMA BeforeTheSort ==
    ASSUME NEW jd \in Texts, NEW rs \in Seq(Ranked)
    PROVE  \E s \in Seq(0 .. Unit), all \in Seq(Outcome) :
               /\ Len(s) = Len(rs) /\ Len(all) = Len(rs)
               /\ Weakened([i \in 1 .. Len(rs) |-> rs[i].final], s)
               /\ \A i \in 1 .. Len(rs) :
                      /\ all[i].pos = rs[i].pos /\ all[i].score = s[i]
                      /\ all[i].fallback = NeedsFallback(rs[i].final)
                      /\ all[i].level = Level(s, i) /\ all[i].winner = ClearWinner(s, i)
               /\ Score(jd, rs) = Numbered(TierSort(all))
<1> DEFINE k == Len(rs)
           keyword(i) == KeywordScore(jd, rs[i].text)
           dict(i) == IF NeedsFallback(rs[i].final)
                      THEN [score |-> Blend(rs[i].final, keyword(i)), fallback |-> TRUE]
                      ELSE [score |-> rs[i].final, fallback |-> FALSE]
           raw    == [i \in DOMAIN rs |-> dict(i)]
           dicts  == Listed(raw)
           scores == [i \in DOMAIN dicts |-> dicts[i].score]
           s      == Listed(scores)
           levels == ScoreConfidence(s)
           one(i) == [pos |-> rs[i].pos, id |-> rs[i].id, scored |-> rs[i].scored,
                      score |-> dicts[i].score, fallback |-> dicts[i].fallback,
                      level |-> levels[i].level, winner |-> levels[i].winner,
                      rank |-> rs[i].rank]
           written == [i \in DOMAIN rs |-> one(i)]
           all     == Listed(written)
           Dict    == [score : 0 .. Unit, fallback : BOOLEAN]
<1>1. DOMAIN rs = 1 .. k /\ k \in Nat
  BY LenProperties
<1>2. ASSUME NEW i \in 1 .. k
      PROVE  rs[i] \in Ranked /\ rs[i].final \in 0 .. Unit /\ rs[i].text \in Texts
  <2>1. rs[i] \in Ranked
    BY <1>1, ElementOfSeq
  <2>2. QED
    BY <2>1 DEF Ranked
<1>3. Score(jd, rs) = Numbered(TierSort(all))
  BY DEF Score, ApplyFallback
<1>4. ASSUME NEW i \in 1 .. k
      PROVE  /\ dict(i) \in Dict
             /\ dict(i).fallback = NeedsFallback(rs[i].final)
             /\ NeedsFallback(rs[i].final) => dict(i).score < High
             /\ ~NeedsFallback(rs[i].final) => dict(i).score = rs[i].final
  <2> DEFINE f == rs[i].final
             w == keyword(i)
  <2>1. f \in 0 .. Unit /\ w \in 0 .. Unit
    BY <1>2, KeywordScoreInScale
  <2> HIDE DEF f, w
  <2>2. Blend(f, w) \in 0 .. Unit /\ (NeedsFallback(f) => Blend(f, w) < High)
    BY <2>1, BlendInScale
  <2> DEFINE d == IF NeedsFallback(f) THEN [score |-> Blend(f, w), fallback |-> TRUE]
                  ELSE [score |-> f, fallback |-> FALSE]
  <2>3. CASE NeedsFallback(f)
    <3>1. d = [score |-> Blend(f, w), fallback |-> TRUE]
      BY <2>3
    <3>2. d \in Dict /\ d.fallback = TRUE /\ d.score = Blend(f, w)
      BY <2>2, <3>1
    <3>3. QED
      BY <2>2, <2>3, <3>2 DEF f, w
  <2>4. CASE ~NeedsFallback(f)
    <3>1. d = [score |-> f, fallback |-> FALSE]
      BY <2>4
    <3>2. d \in Dict /\ d.fallback = FALSE /\ d.score = f
      BY <2>1, <3>1
    <3>3. NeedsFallback(f) = FALSE
      BY <2>1, <2>4, Scale DEF NeedsFallback, FallbackThreshold
    <3>4. d.fallback = NeedsFallback(f) /\ d.score = f
      BY <3>2, <3>3
    <3>5. QED
      BY <2>4, <3>2, <3>4 DEF f, w
  <2>5. QED
    BY <2>3, <2>4
<1> HIDE DEF dict
<1>5. raw \in [1 .. k -> Dict] /\ \A i \in 1 .. k : raw[i] = dict(i)
  BY <1>1, <1>4
<1> HIDE DEF raw, Dict
<1>6. raw \in Seq(Dict) /\ dicts = raw
  BY <1>1, <1>5, ListOf, ListedSame
<1> HIDE DEF dicts
<1>7. DOMAIN dicts = 1 .. k /\ \A i \in 1 .. k : dicts[i] = dict(i)
  BY <1>5, <1>6
<1>8. \A i \in 1 .. k : dicts[i].score \in 0 .. Unit /\ dicts[i].fallback \in BOOLEAN
  BY <1>4, <1>7 DEF Dict
<1>9. scores \in [1 .. k -> 0 .. Unit] /\ \A i \in 1 .. k : scores[i] = dicts[i].score
  BY <1>7, <1>8
<1> HIDE DEF scores
<1>10. scores \in Seq(0 .. Unit) /\ Len(scores) = k /\ s = scores
  BY <1>1, <1>9, ListOf, ListedSame
<1> HIDE DEF s
<1>11. s \in Seq(0 .. Unit) /\ Len(s) = k /\ DOMAIN s = 1 .. k
       /\ \A i \in 1 .. k : s[i] = dicts[i].score
  BY <1>1, <1>9, <1>10, LenProperties
<1>12. ASSUME NEW i \in 1 .. k
       PROVE  /\ levels[i].level = Level(s, i) /\ levels[i].winner = ClearWinner(s, i)
              /\ levels[i].level \in Levels /\ levels[i].winner \in BOOLEAN
  <2>1. levels[i] = [level |-> Level(s, i),
                     winner |-> i = 1 /\ s[i] >= High /\ GapAfter(s, i) >= 2 * Gap]
    BY <1>11 DEF ScoreConfidence
  <2>2. Level(s, i) \in Levels
    BY DEF Level, Levels
  <2> HIDE DEF levels
  <2>3. QED
    BY <2>1, <2>2 DEF ClearWinner
<1> HIDE DEF levels
<1>13. ASSUME NEW i \in 1 .. k
       PROVE  /\ one(i) \in Outcome /\ one(i).pos = rs[i].pos /\ one(i).score = s[i]
              /\ one(i).fallback = NeedsFallback(rs[i].final)
              /\ one(i).level = Level(s, i) /\ one(i).winner = ClearWinner(s, i)
  <2>1. one(i) = OutcomeOf(rs[i], dicts[i].score, dicts[i].fallback, levels[i].level, levels[i].winner)
    BY DEF OutcomeOf
  <2> HIDE DEF one
  <2>2. /\ one(i) \in Outcome /\ one(i).pos = rs[i].pos /\ one(i).score = dicts[i].score
        /\ one(i).fallback = dicts[i].fallback
        /\ one(i).level = levels[i].level /\ one(i).winner = levels[i].winner
    BY <1>2, <1>8, <1>12, <2>1, OutcomeTyped
  <2>3. QED
    BY <1>4, <1>7, <1>11, <1>12, <2>2
<1> HIDE DEF one
<1>14. written \in [1 .. k -> Outcome] /\ \A i \in 1 .. k : written[i] = one(i)
  BY <1>1, <1>13
<1> HIDE DEF written
<1>15. written \in Seq(Outcome) /\ Len(written) = k /\ all = written
  BY <1>1, <1>14, ListOf, ListedSame
<1> HIDE DEF all
<1>16. Weakened([i \in 1 .. k |-> rs[i].final], s)
  BY <1>4, <1>7, <1>11 DEF Weakened
<1>17. \A i \in 1 .. k :
           /\ all[i].pos = rs[i].pos /\ all[i].score = s[i]
           /\ all[i].fallback = NeedsFallback(rs[i].final)
           /\ all[i].level = Level(s, i) /\ all[i].winner = ClearWinner(s, i)
  BY <1>13, <1>14, <1>15
<1>18. all \in Seq(Outcome) /\ Len(all) = k
  BY <1>15
<1>19. QED
  BY <1>3, <1>11, <1>16, <1>17, <1>18

\* From the ranking to the answer: no result is lost or invented, they are
\* numbered from 0, their scores stay within the scale, what is called "high"
\* is apart from every lower one with its own score, and the clear winner is
\* the first.
LEMMA ScoreKeeps ==
    ASSUME NEW jd \in Texts, NEW rs \in Seq(Ranked), Distinct(rs), Falling(rs)
    PROVE  LET out == Score(jd, rs)
           IN  /\ out \in Seq(Outcome) /\ Len(out) = Len(rs)
               /\ Distinct(out) /\ PlacesIn(out) \subseteq PlacesIn(rs)
               /\ \A p \in DOMAIN out : out[p].rank = p - 1
               /\ HighApart(out) /\ WinnerFirst(out)
<1> DEFINE k == Len(rs)
           finals == [i \in 1 .. k |-> rs[i].final]
           out == Score(jd, rs)
<1>1. rs \in Seq(Ranked) /\ Distinct(rs) /\ Falling(rs)
  OBVIOUS
<1>2. DOMAIN rs = 1 .. k /\ k \in Nat
  BY <1>1, LenProperties
<1>3. PICK s \in Seq(0 .. Unit), all \in Seq(Outcome) :
          /\ Len(s) = k /\ Len(all) = k
          /\ Weakened(finals, s)
          /\ \A i \in 1 .. k :
                 /\ all[i].pos = rs[i].pos /\ all[i].score = s[i]
                 /\ all[i].fallback = NeedsFallback(rs[i].final)
                 /\ all[i].level = Level(s, i) /\ all[i].winner = ClearWinner(s, i)
          /\ out = Numbered(TierSort(all))
  BY <1>1, BeforeTheSort
<1>4. finals \in [1 .. k -> 0 .. Unit] /\ \A i \in 1 .. k : finals[i] = rs[i].final
  <2>1. \A i \in 1 .. k : rs[i] \in Ranked
    BY <1>1, <1>2, ElementOfSeq
  <2>2. \A i \in 1 .. k : rs[i].final \in 0 .. Unit
    BY <2>1 DEF Ranked
  <2>3. QED
    BY <2>2
<1>5. \A p, q \in 1 .. k : p < q => finals[p] >= finals[q]
  BY <1>1, <1>2, <1>4 DEF Falling
<1> HIDE DEF finals, out, k
<1>6. DOMAIN all = 1 .. k /\ \A i \in 1 .. k : all[i] \in Outcome /\ s[i] \in 0 .. Unit
  BY <1>2, <1>3, LenProperties, ElementOfSeq
<1> DEFINE key(i) == all[i].score - 2 * Unit * Tier(all[i].level)
           keys == [i \in DOMAIN all |-> key(i)]
           t == SortedBy(all, keys)
<1>7. ASSUME NEW i \in 1 .. k
      PROVE  /\ key(i) = s[i] - 2000 * Tier(Level(s, i)) /\ key(i) \in Int
             /\ s[i] \in Int /\ Tier(Level(s, i)) \in 0 .. 3
  <2>1. all[i].score = s[i] /\ all[i].level = Level(s, i) /\ s[i] \in Int
    BY <1>3, <1>6, Scale
  <2>2. all[i].level \in Levels
    BY <1>6 DEF Outcome
  <2>3. Tier(Level(s, i)) \in 0 .. 3
    BY <2>1, <2>2 DEF Levels, Tier
  <2>4. QED
    BY <2>1, <2>3 DEF Unit
<1> HIDE DEF key
<1>8. keys \in [DOMAIN all -> Int] /\ \A i \in 1 .. k : keys[i] = key(i)
  BY <1>6, <1>7
<1>9. TierSort(all) = t
  BY DEF TierSort, key
<1> HIDE DEF keys
<1>10. t \in Seq(Outcome) /\ Len(t) = k
  BY <1>3, <1>8, SortedPlaces
<1>11. PICK at : Sorts(all, keys, at, t)
  BY <1>8, SortedPlaces
<1> HIDE DEF t
<1>12. DOMAIN t = 1 .. k
  BY <1>2, <1>10, LenProperties
<1>13. /\ \A p \in 1 .. k : at[p] \in 1 .. k /\ t[p] = all[at[p]]
       /\ \A p, q \in 1 .. k : at[p] = at[q] => p = q
       /\ \A i \in 1 .. k : \E p \in 1 .. k : at[p] = i
  BY <1>6, <1>11 DEF Sorts
<1>14. ASSUME NEW p \in 1 .. k, NEW q \in 1 .. k, p < q
       PROVE  keys[at[p]] >= keys[at[q]]
  <2>1. keys[at[p]] > keys[at[q]] \/ keys[at[p]] = keys[at[q]]
    BY <1>6, <1>11, <1>14 DEF Sorts
  <2>2. keys[at[p]] \in Int /\ keys[at[q]] \in Int
    BY <1>6, <1>8, <1>13
  <2>3. QED
    BY <2>1, <2>2
<1>15. /\ out \in [1 .. k -> Outcome]
       /\ \A p \in 1 .. k : /\ out[p].pos = rs[at[p]].pos /\ out[p].score = s[at[p]]
                            /\ out[p].fallback = NeedsFallback(finals[at[p]])
                            /\ out[p].level = Level(s, at[p])
                            /\ out[p].winner = ClearWinner(s, at[p])
                            /\ out[p].rank = p - 1
  <2>1. out = [p \in 1 .. k |-> [t[p] EXCEPT !.rank = p - 1]]
    BY <1>3, <1>9, <1>12 DEF Numbered
  <2>2. ASSUME NEW p \in 1 .. k
        PROVE  /\ [t[p] EXCEPT !.rank = p - 1] \in Outcome
               /\ [t[p] EXCEPT !.rank = p - 1].pos = t[p].pos
               /\ [t[p] EXCEPT !.rank = p - 1].score = t[p].score
               /\ [t[p] EXCEPT !.rank = p - 1].fallback = t[p].fallback
               /\ [t[p] EXCEPT !.rank = p - 1].level = t[p].level
               /\ [t[p] EXCEPT !.rank = p - 1].winner = t[p].winner
               /\ [t[p] EXCEPT !.rank = p - 1].rank = p - 1
    <3> DEFINE x == t[p]
               m == p - 1
    <3>1. x \in Outcome /\ m \in Nat
      <4>1. t[p] = all[at[p]] /\ at[p] \in 1 .. k
        BY <1>13
      <4>2. p \in Nat /\ p >= 1
        BY <1>2 DEF k
      <4>3. QED
        BY <1>6, <4>1, <4>2
    <3> HIDE DEF x, m
    <3>2. /\ [x EXCEPT !.rank = m] \in Outcome /\ [x EXCEPT !.rank = m].pos = x.pos
          /\ [x EXCEPT !.rank = m].score = x.score /\ [x EXCEPT !.rank = m].fallback = x.fallback
          /\ [x EXCEPT !.rank = m].level = x.level /\ [x EXCEPT !.rank = m].winner = x.winner
          /\ [x EXCEPT !.rank = m].rank = m
      BY <3>1 DEF Outcome
    <3>3. QED
      BY <3>2 DEF x, m
  <2>3. out \in [1 .. k -> Outcome]
    BY <2>1, <2>2
  <2>4. ASSUME NEW p \in 1 .. k
        PROVE  /\ out[p].pos = rs[at[p]].pos /\ out[p].score = s[at[p]]
               /\ out[p].fallback = NeedsFallback(finals[at[p]])
               /\ out[p].level = Level(s, at[p]) /\ out[p].winner = ClearWinner(s, at[p])
               /\ out[p].rank = p - 1
    <3>1. out[p] = [t[p] EXCEPT !.rank = p - 1]
      BY <2>1
    <3>2. /\ out[p].pos = t[p].pos /\ out[p].score = t[p].score
          /\ out[p].fallback = t[p].fallback /\ out[p].level = t[p].level
          /\ out[p].winner = t[p].winner /\ out[p].rank = p - 1
      BY <2>2, <3>1
    <3>3. t[p] = all[at[p]] /\ at[p] \in 1 .. k
      BY <1>13
    <3>4. QED
      BY <1>3, <1>4, <3>2, <3>3
  <2>5. QED
    BY <2>3, <2>4
<1>16. out \in Seq(Outcome) /\ Len(out) = k /\ DOMAIN out = 1 .. k
  BY <1>2, <1>15, ListOf
<1>17. Distinct(out)
  <2> SUFFICES ASSUME NEW p \in 1 .. k, NEW q \in 1 .. k, out[p].pos = out[q].pos
               PROVE  p = q
    BY <1>16 DEF Distinct
  <2>1. rs[at[p]].pos = rs[at[q]].pos /\ at[p] \in DOMAIN rs /\ at[q] \in DOMAIN rs
    BY <1>2, <1>13, <1>15
  <2>2. at[p] = at[q]
    BY <1>1, <2>1 DEF Distinct
  <2>3. QED
    BY <1>13, <2>2
<1>18. PlacesIn(out) \subseteq PlacesIn(rs)
  <2> SUFFICES ASSUME NEW p \in 1 .. k
               PROVE  out[p].pos \in PlacesIn(rs)
    BY <1>16 DEF PlacesIn
  <2>1. out[p].pos = rs[at[p]].pos /\ at[p] \in DOMAIN rs
    BY <1>2, <1>13, <1>15
  <2>2. QED
    BY <2>1 DEF PlacesIn
<1>19. \A p \in DOMAIN out : out[p].rank = p - 1
  BY <1>15, <1>16
<1>20. HighApart(out)
  <2> SUFFICES ASSUME NEW p \in 1 .. k, NEW q \in 1 .. k, out[p].level = "high",
                      ~out[q].fallback, out[q].score < out[p].score
               PROVE  out[p].score - out[q].score >= Gap /\ out[p].score >= High
    BY <1>16 DEF HighApart
  <2> DEFINE i == at[p]
             j == at[q]
  <2>1. i \in 1 .. k /\ j \in 1 .. k
    BY <1>13
  <2>2. /\ Level(s, i) = "high" /\ ~NeedsFallback(finals[j])
        /\ out[p].score = s[i] /\ out[q].score = s[j]
    BY <1>15
  <2> HIDE DEF i, j
  <2>3. s[i] - s[j] >= Gap /\ s[i] >= High
    BY <1>2, <1>3, <1>4, <1>5, <2>1, <2>2, HighSeparated
  <2>4. QED
    BY <2>2, <2>3
<1>21. WinnerFirst(out)
  <2> SUFFICES ASSUME NEW p \in 1 .. k, out[p].winner
               PROVE  p = 1 /\ \A q \in 1 .. k \ {1} : out[q].score < out[1].score
    BY <1>16 DEF WinnerFirst
  <2> DEFINE i == at[p]
  <2>1. i \in 1 .. k /\ ClearWinner(s, i)
    BY <1>13, <1>15
  <2>2. ASSUME NEW j \in 1 .. k, j # i
        PROVE  s[j] < s[i] /\ keys[j] < keys[i]
    <3> HIDE DEF i
    <3>1. s[j] < s[i] /\ Tier(Level(s, i)) <= Tier(Level(s, j))
      BY <1>2, <1>3, <1>4, <1>5, <2>1, <2>2, WinnerLeads
    <3>2. /\ keys[i] = s[i] - 2000 * Tier(Level(s, i)) /\ Tier(Level(s, i)) \in 0 .. 3
          /\ keys[j] = s[j] - 2000 * Tier(Level(s, j)) /\ Tier(Level(s, j)) \in 0 .. 3
          /\ s[i] \in Int /\ s[j] \in Int
      BY <1>7, <1>8, <2>1
    <3>3. QED
      BY <3>1, <3>2
  <2>3. p = 1
    <3> SUFFICES ASSUME p # 1 PROVE FALSE
      OBVIOUS
    <3>1. 1 \in 1 .. k /\ 1 < p
      BY <1>2
    <3>2. at[1] # i /\ at[1] \in 1 .. k
      BY <1>13, <3>1
    <3>3. keys[at[1]] < keys[i] /\ keys[at[1]] >= keys[i]
      BY <1>14, <2>2, <3>1, <3>2
    <3>4. keys[at[1]] \in Int /\ keys[i] \in Int
      BY <1>6, <1>8, <2>1, <3>2
    <3>5. QED
      BY <3>3, <3>4
  <2>4. ASSUME NEW q \in 1 .. k \ {1}
        PROVE  out[q].score < out[1].score
    <3>1. at[q] # i /\ at[q] \in 1 .. k
      BY <1>13, <2>3
    <3>2. s[at[q]] < s[i]
      BY <2>2, <3>1
    <3>3. QED
      BY <1>15, <2>3, <3>2
  <2>5. QED
    BY <2>3, <2>4
<1>22. QED
  BY <1>16, <1>17, <1>18, <1>19, <1>20, <1>21 DEF out, k

=============================================================================
