--------------------------- MODULE IndexStoreProofs ---------------------------
(***************************************************************************)
(* Proofs about EmbedCache and IndexStore for any number of calls and any  *)
(* texts, cache size, batch size and expiry: the vectors that embedding    *)
(* returns, the size of the cache, when it fails a call, and what          *)
(* undisturbed calls leave in memory and in the files.                     *)
(***************************************************************************)
EXTENDS IndexStore, SequenceTheorems, FiniteSetTheorems, WellFoundedInduction, TLAPS

----------------------------------------------------------------------------
(* Sequences cut into chunks *)

\* A nonempty set of natural numbers has a least element.
LEMMA LeastNumber ==
    ASSUME NEW S \in SUBSET Nat, S # {}
    PROVE  \E n \in S : \A m \in S : n <= m
<1> DEFINE R == OpToRel(<, Nat)
<1>1. IsWellFoundedOn(R, Nat)
  BY NatLessThanWellFounded
<1>2. \E n \in S : \A m \in S : ~(<<m, n>> \in R)
  <2> HIDE DEF R
  <2>1. QED
    BY <1>1, WFMin, Zenon
<1>3. \A m, n \in Nat : m < n => <<m, n>> \in R
  BY DEF OpToRel
<1> HIDE DEF R
<1>4. PICK n \in S : \A m \in S : ~(<<m, n>> \in R)
  BY <1>2
<1>5. \A m \in S : m \in Nat /\ n \in Nat /\ ~(m < n)
  BY <1>3, <1>4
<1>6. QED
  BY <1>4, <1>5

\* Joining the pieces of a sequence gives a prefix of it, up to the end of the
\* last piece.
LEMMA PiecesJoin ==
    ASSUME NEW S, NEW s \in Seq(S), NEW ss, Len(ss) \in Nat \ {0},
           NEW end, end \in [0 .. Len(ss) -> 0 .. Len(s)], end[0] = 0,
           \A i \in 1 .. Len(ss) : /\ end[i - 1] <= end[i]
                                   /\ ss[i] = SubSeq(s, end[i - 1] + 1, end[i])
    PROVE  FlattenSeq(ss) = SubSeq(s, 1, end[Len(ss)])
<1> DEFINE I == 1 .. Len(ss)
           Joined(f) == f = [i \in I |-> IF i = 1 THEN ss[i] ELSE f[i - 1] \o ss[i]]
           prefix == [i \in I |-> SubSeq(s, 1, end[i])]
<1>1. \A i \in I \ {1} : SubSeq(s, 1, end[i - 1]) \o ss[i] = SubSeq(s, 1, end[i])
  <2> TAKE i \in I \ {1}
  <2>1. i \in 1 .. Len(ss) /\ i - 1 \in 0 .. Len(ss) /\ i \in 0 .. Len(ss)
    OBVIOUS
  <2>2. /\ end[i - 1] \in 0 .. Len(s) /\ end[i] \in 0 .. Len(s)
        /\ end[i - 1] <= end[i]
        /\ ss[i] = SubSeq(s, end[i - 1] + 1, end[i])
    BY <2>1
  <2>3. Len(s) \in Nat
    BY LenProperties
  <2> DEFINE k == end[i - 1]
             n == end[i]
  <2>4. 1 \in 1 .. Len(s) + 1 /\ k \in 1 - 1 .. Len(s) /\ n \in k .. Len(s)
    BY <2>2, <2>3
  <2> HIDE DEF k, n
  <2>5. SubSeq(s, 1, k) \o SubSeq(s, k + 1, n) = SubSeq(s, 1, n)
    BY <2>4, ConcatAdjacentSubSeq
  <2>6. QED
    BY <2>2, <2>5 DEF k, n
<1>2. Joined(prefix)
  <2>1. \A i \in I : prefix[i] = IF i = 1 THEN ss[i] ELSE prefix[i - 1] \o ss[i]
    <3> TAKE i \in I
    <3>1. CASE i = 1
      <4>1. 0 \in 0 .. Len(ss) /\ 1 \in 1 .. Len(ss) /\ 1 - 1 = 0
        OBVIOUS
      <4>2. ss[1] = SubSeq(s, 1, end[1])
        BY <4>1
      <4>3. QED
        BY <3>1, <4>2
    <3>2. CASE i # 1
      <4>1. i - 1 \in I
        BY <3>2
      <4>2. QED
        BY <1>1, <3>2, <4>1
    <3>3. QED
      BY <3>1, <3>2
  <2>2. QED
    BY <2>1
<1>3. ASSUME NEW f, Joined(f), NEW g, Joined(g)
      PROVE  f[Len(ss)] = g[Len(ss)]
  <2> DEFINE differ == {i \in I : f[i] # g[i]}
  <2>1. \A i \in I : /\ f[i] = IF i = 1 THEN ss[i] ELSE f[i - 1] \o ss[i]
                     /\ g[i] = IF i = 1 THEN ss[i] ELSE g[i - 1] \o ss[i]
    BY <1>3
  <2>2. CASE differ = {}
    BY <2>2
  <2>3. CASE differ # {}
    <3>1. PICK i \in differ : \A j \in differ : i <= j
      <4>1. differ \in SUBSET Nat
        OBVIOUS
      <4> HIDE DEF differ
      <4>2. QED
        BY <2>3, <4>1, LeastNumber
    <3>2. i \in I /\ i # 1
      BY <2>1
    <3>3. i - 1 \in I /\ f[i - 1] = g[i - 1]
      BY <3>1, <3>2
    <3>4. f[i] = g[i]
      BY <2>1, <3>2, <3>3
    <3>5. QED
      BY <3>4
  <2>4. QED
    BY <2>2, <2>3
<1>4. FlattenSeq(ss) = (CHOOSE f : Joined(f))[Len(ss)]
  BY Zenon DEF FlattenSeq
<1>5. Joined(CHOOSE f : Joined(f))
  <2> HIDE DEF Joined
  <2>1. QED
    BY <1>2
<1>6. FlattenSeq(ss) = prefix[Len(ss)]
  <2> HIDE DEF Joined, prefix
  <2>1. QED
    BY <1>2, <1>3, <1>4, <1>5, Zenon
<1>7. Len(ss) \in I
  OBVIOUS
<1>8. QED
  BY <1>6, <1>7

\* Integer division, by its two bounds.
LEMMA Division ==
    ASSUME NEW a \in Nat, NEW b \in Nat \ {0}
    PROVE  a \div b \in Nat /\ (a \div b) * b <= a /\ a < (a \div b) * b + b
OBVIOUS

\* embed() stacks the vectors of its batches: with the batches cut as chunks()
\* cuts them these are the vectors of all texts, in their order.
LEMMA ChunksJoin ==
    ASSUME NEW S, NEW s \in Seq(S), s # <<>>, NEW size \in Nat \ {0}
    PROVE  FlattenSeq(Chunks(s, size)) = s
<1> DEFINE count == (Len(s) + size - 1) \div size
           ss == Chunks(s, size)
           end == [i \in 0 .. count |-> IF i * size < Len(s) THEN i * size ELSE Len(s)]
<1>1. Len(s) \in Nat \ {0}
  BY EmptySeq
<1>2. /\ count \in Nat
      /\ count * size <= Len(s) + size - 1
      /\ Len(s) + size - 1 < count * size + size
  BY <1>1, Division
<1> HIDE DEF count
<1>3. count # 0
  BY <1>1, <1>2
<1>4. ss = [n \in 1 .. count |->
              SubSeq(s, (n - 1) * size + 1, IF n * size < Len(s) THEN n * size ELSE Len(s))]
  BY DEF Chunks, count
<1>5. Len(ss) = count
  BY <1>2, <1>4
<1>6. \A i \in 1 .. count : (i - 1) * size < Len(s)
  <2> TAKE i \in 1 .. count
  <2>1. i * size <= count * size
    BY <1>2
  <2>2. (i - 1) * size = i * size - size
    BY <1>2
  <2>3. i * size \in Int /\ count * size \in Int
    BY <1>2
  <2>4. QED
    BY <1>1, <1>2, <2>1, <2>2, <2>3
<1>7. end \in [0 .. count -> 0 .. Len(s)] /\ end[0] = 0
  <2>1. \A i \in 0 .. count : i * size \in Nat
    BY <1>2
  <2>2. 0 * size = 0
    OBVIOUS
  <2>3. QED
    BY <1>1, <1>2, <2>1, <2>2
<1>8. \A i \in 1 .. count : end[i - 1] <= end[i] /\ ss[i] = SubSeq(s, end[i - 1] + 1, end[i])
  <2> TAKE i \in 1 .. count
  <2>1. i \in 0 .. count /\ i - 1 \in 0 .. count
    BY <1>2
  <2>2. end[i - 1] = (i - 1) * size
    BY <1>6, <2>1
  <2>3. (i - 1) * size <= i * size /\ i * size \in Int /\ (i - 1) * size \in Int
    BY <1>2
  <2>4. end[i] = IF i * size < Len(s) THEN i * size ELSE Len(s)
    BY <2>1
  <2>5. (i - 1) * size < Len(s)
    BY <1>6
  <2> HIDE DEF ss, end
  <2>6. end[i - 1] <= end[i]
    BY <1>1, <2>2, <2>3, <2>4, <2>5
  <2>7. ss[i] = SubSeq(s, end[i - 1] + 1, end[i])
    BY <1>4, <2>2, <2>4
  <2>8. QED
    BY <2>6, <2>7
<1>9. end[count] = Len(s)
  BY <1>1, <1>2
<1> HIDE DEF ss, end
<1>10. FlattenSeq(ss) = SubSeq(s, 1, Len(s))
  <2>1. /\ Len(ss) \in Nat \ {0}
        /\ end \in [0 .. Len(ss) -> 0 .. Len(s)]
        /\ \A i \in 1 .. Len(ss) : /\ end[i - 1] <= end[i]
                                    /\ ss[i] = SubSeq(s, end[i - 1] + 1, end[i])
    BY <1>2, <1>3, <1>5, <1>7, <1>8
  <2>2. FlattenSeq(ss) = SubSeq(s, 1, end[Len(ss)])
    BY <1>7, <2>1, PiecesJoin
  <2>3. QED
    BY <1>5, <1>9, <2>2
<1>11. QED
  BY <1>10, SubSeqFull DEF ss

----------------------------------------------------------------------------
(* The ordered dictionary *)

CacheEntries == [key : Texts, vec : Texts, at : Nat]

\* A key occurs once, and the vector of an entry is one of a text with that key.
StoreOK(s) ==
    /\ s \in Seq(CacheEntries)
    /\ \A m, n \in DOMAIN s : s[m].key = s[n].key => m = n
    /\ \A n \in DOMAIN s : Prefix[s[n].vec] = s[n].key

\* A store is a finite list of entries.
LEMMA StoreType ==
    ASSUME NEW s, StoreOK(s)
    PROVE  /\ Len(s) \in Nat /\ DOMAIN s = 1 .. Len(s)
           /\ \A n \in 1 .. Len(s) : s[n] \in CacheEntries
           /\ Keys(s) \subseteq Texts
<1>1. s \in Seq(CacheEntries)
  BY DEF StoreOK
<1>2. Len(s) \in Nat /\ DOMAIN s = 1 .. Len(s) /\ \A n \in 1 .. Len(s) : s[n] \in CacheEntries
  BY <1>1, LenProperties, ElementOfSeq
<1>3. QED
  BY <1>2 DEF Keys, CacheEntries

\* The store of a new embedder.
LEMMA EmptyStore == StoreOK(<<>>)
BY EmptySeq DEF StoreOK

\* A key that a store has is found at its place.
LEMMA PlaceFound ==
    ASSUME NEW s, StoreOK(s), NEW key \in Keys(s)
    PROVE  Place(s, key) \in 1 .. Len(s) /\ s[Place(s, key)].key = key
<1>1. \E n \in DOMAIN s : s[n].key = key
  BY DEF Keys
<1>2. Place(s, key) \in DOMAIN s /\ s[Place(s, key)].key = key
  BY <1>1 DEF Place
<1>3. QED
  BY <1>2, StoreType

\* Keys differ, so that there are as many as there are entries.
LEMMA KeysCounted ==
    ASSUME NEW s, StoreOK(s)
    PROVE  Cardinality(Keys(s)) = Len(s)
<1> DEFINE f == [n \in 1 .. Len(s) |-> s[n].key]
<1>1. Len(s) \in Nat /\ DOMAIN s = 1 .. Len(s)
  BY StoreType
<1>2. f \in [1 .. Len(s) -> Keys(s)]
  BY <1>1 DEF Keys
<1>3. \A m, n \in 1 .. Len(s) : f[m] = f[n] => m = n
  BY <1>1 DEF StoreOK
<1>4. \A k \in Keys(s) : \E n \in 1 .. Len(s) : f[n] = k
  BY <1>1 DEF Keys
<1>5. f \in Bijection(1 .. Len(s), Keys(s))
  <2> HIDE DEF f
  <2>1. QED
    BY <1>2, <1>3, <1>4, Zenon DEF Bijection, Injection, Surjection, IsInjective
<1>6. ExistsBijection(1 .. Len(s), Keys(s))
  BY <1>5 DEF ExistsBijection
<1>7. QED
  BY <1>1, <1>6, FS_CountingElements

\* Removing a key keeps the other entries in their order.
LEMMA WithoutKey ==
    ASSUME NEW s, StoreOK(s), NEW key \in Keys(s)
    PROVE  /\ StoreOK(Without(s, key))
           /\ Len(Without(s, key)) = Len(s) - 1
           /\ Keys(Without(s, key)) = Keys(s) \ {key}
<1> DEFINE p == Place(s, key)
           w == Without(s, key)
<1>1. /\ Len(s) \in Nat /\ DOMAIN s = 1 .. Len(s)
      /\ \A n \in 1 .. Len(s) : s[n] \in CacheEntries
  BY StoreType
<1>2. p \in 1 .. Len(s) /\ s[p].key = key
  BY PlaceFound
<1>3. w = SubSeq(s, 1, p - 1) \o SubSeq(s, p + 1, Len(s))
  BY DEF Without, RemoveAt
<1> HIDE DEF p, w
<1> DEFINE a == SubSeq(s, 1, p - 1)
           b == SubSeq(s, p + 1, Len(s))
<1>4. /\ a \in Seq(CacheEntries) /\ Len(a) = p - 1
      /\ \A i \in 1 .. p - 1 : a[i] = s[i]
  <2>1. 1 \in Int /\ p - 1 \in Int /\ \A i \in 1 .. p - 1 : s[i] \in CacheEntries
    BY <1>1, <1>2
  <2>2. /\ a \in Seq(CacheEntries) /\ Len(a) = (IF 1 <= p - 1 THEN (p - 1) - 1 + 1 ELSE 0)
        /\ \A i \in 1 .. (p - 1) - 1 + 1 : a[i] = s[1 + i - 1]
    BY <2>1, SubSeqProperties
  <2> HIDE DEF a
  <2>3. QED
    BY <1>1, <1>2, <2>2
<1>5. /\ b \in Seq(CacheEntries) /\ Len(b) = Len(s) - p
      /\ \A i \in 1 .. Len(s) - p : b[i] = s[p + i]
  <2>1. p + 1 \in Int /\ Len(s) \in Int /\ \A i \in p + 1 .. Len(s) : s[i] \in CacheEntries
    BY <1>1, <1>2
  <2>2. /\ b \in Seq(CacheEntries)
        /\ Len(b) = (IF p + 1 <= Len(s) THEN Len(s) - (p + 1) + 1 ELSE 0)
        /\ \A i \in 1 .. Len(s) - (p + 1) + 1 : b[i] = s[(p + 1) + i - 1]
    BY <2>1, SubSeqProperties
  <2> HIDE DEF b
  <2>3. p \in Int /\ Len(s) \in Int /\ p <= Len(s)
    BY <1>1, <1>2
  <2>4. /\ Len(s) - (p + 1) + 1 = Len(s) - p
        /\ \A i \in Int : (p + 1) + i - 1 = p + i
        /\ ~(p + 1 <= Len(s)) => Len(s) - p = 0
    BY <2>3
  <2>5. Len(b) = Len(s) - p
    BY <2>2, <2>4
  <2>6. \A i \in 1 .. Len(s) - p : b[i] = s[p + i]
    <3> TAKE i \in 1 .. Len(s) - p
    <3>1. i \in Int /\ i \in 1 .. Len(s) - (p + 1) + 1
      BY <2>3
    <3>2. b[i] = s[(p + 1) + i - 1]
      BY <2>2, <3>1
    <3>3. (p + 1) + i - 1 = p + i
      BY <2>3, <3>1
    <3>4. QED
      BY <3>2, <3>3
  <2>7. QED
    BY <2>2, <2>5, <2>6
<1> HIDE DEF a, b
<1>6. /\ w \in Seq(CacheEntries) /\ Len(w) = Len(s) - 1
      /\ \A i \in 1 .. Len(s) - 1 : w[i] = IF i < p THEN s[i] ELSE s[i + 1]
  <2>1. w = a \o b
    BY <1>3 DEF a, b
  <2>2. /\ w \in Seq(CacheEntries) /\ Len(w) = Len(a) + Len(b)
        /\ \A i \in 1 .. Len(a) + Len(b) : w[i] = IF i <= Len(a) THEN a[i] ELSE b[i - Len(a)]
    BY <1>4, <1>5, <2>1, ConcatProperties
  <2>3. Len(a) + Len(b) = Len(s) - 1
    BY <1>1, <1>2, <1>4, <1>5
  <2>4. ASSUME NEW i \in 1 .. Len(s) - 1
        PROVE  w[i] = IF i < p THEN s[i] ELSE s[i + 1]
    <3>1. w[i] = IF i <= p - 1 THEN a[i] ELSE b[i - (p - 1)]
      BY <1>4, <2>2, <2>3
    <3>2. CASE i < p
      BY <1>1, <1>2, <1>4, <3>1, <3>2
    <3>3. CASE ~(i < p)
      <4>1. i - (p - 1) \in 1 .. Len(s) - p /\ p + (i - (p - 1)) = i + 1
        BY <1>1, <1>2, <3>3
      <4>2. QED
        BY <1>1, <1>2, <1>5, <3>1, <3>3, <4>1
    <3>4. QED
      BY <3>2, <3>3
  <2>5. QED
    BY <2>2, <2>3, <2>4
<1>7. DOMAIN w = 1 .. Len(s) - 1
  BY <1>6, LenProperties
<1>8. \A m, n \in 1 .. Len(s) : s[m].key = s[n].key => m = n
  BY <1>1 DEF StoreOK
<1>9. \A n \in 1 .. Len(s) : Prefix[s[n].vec] = s[n].key
  BY <1>1 DEF StoreOK
<1> DEFINE at(i) == IF i < p THEN i ELSE i + 1
<1>10. \A i \in 1 .. Len(s) - 1 : at(i) \in 1 .. Len(s) \ {p} /\ w[i] = s[at(i)]
  BY <1>1, <1>2, <1>6
<1>11. \A i, j \in 1 .. Len(s) - 1 : at(i) = at(j) => i = j
  BY <1>1, <1>2
<1>12. \A n \in 1 .. Len(s) \ {p} : \E i \in 1 .. Len(s) - 1 : at(i) = n
  <2> TAKE n \in 1 .. Len(s) \ {p}
  <2>1. CASE n < p
    BY <1>1, <1>2, <2>1
  <2>2. CASE n > p
    <3>1. n \in Int /\ p \in Int /\ n - 1 \in 1 .. Len(s) - 1 /\ ~(n - 1 < p) /\ (n - 1) + 1 = n
      BY <1>1, <1>2, <2>2
    <3>2. at(n - 1) = n
      BY <3>1
    <3>3. QED
      BY <3>1, <3>2
  <2>3. QED
    BY <1>1, <1>2, <2>1, <2>2
<1> HIDE DEF at
<1>13. StoreOK(w)
  BY <1>6, <1>7, <1>8, <1>9, <1>10, <1>11 DEF StoreOK
<1>14. Keys(w) \subseteq Keys(s) \ {key}
  <2>1. ASSUME NEW i \in 1 .. Len(s) - 1
        PROVE  w[i].key \in Keys(s) \ {key}
    BY <1>1, <1>2, <1>8, <1>10 DEF Keys
  <2>2. QED
    BY <1>7, <2>1 DEF Keys
<1>15. Keys(s) \ {key} \subseteq Keys(w)
  <2>1. ASSUME NEW n \in 1 .. Len(s), s[n].key # key
        PROVE  s[n].key \in Keys(w)
    <3>1. n \in 1 .. Len(s) \ {p}
      BY <1>2, <2>1
    <3>2. PICK i \in 1 .. Len(s) - 1 : at(i) = n
      BY <1>12, <3>1
    <3>3. QED
      BY <1>7, <1>10, <3>2 DEF Keys
  <2>2. QED
    BY <1>1, <2>1 DEF Keys
<1>16. QED
  BY <1>6, <1>13, <1>14, <1>15 DEF w

\* Moving a key to the end keeps the keys.
LEMMA MovedKey ==
    ASSUME NEW s, StoreOK(s), NEW key \in Keys(s)
    PROVE  /\ StoreOK(MovedToEnd(s, key))
           /\ Len(MovedToEnd(s, key)) = Len(s)
           /\ Keys(MovedToEnd(s, key)) = Keys(s)
<1> DEFINE w == Without(s, key)
           e == s[Place(s, key)]
           t == MovedToEnd(s, key)
<1>1. StoreOK(w) /\ Len(w) = Len(s) - 1 /\ Keys(w) = Keys(s) \ {key}
  BY WithoutKey
<1>2. e \in CacheEntries /\ e.key = key /\ Prefix[e.vec] = key
  BY PlaceFound, StoreType DEF StoreOK
<1>3. t = Append(w, e)
  BY DEF MovedToEnd
<1> HIDE DEF w, e, t
<1>4. Len(w) \in Nat /\ Len(s) \in Nat /\ DOMAIN w = 1 .. Len(w)
  BY <1>1, StoreType
<1>5. /\ t \in Seq(CacheEntries) /\ Len(t) = Len(w) + 1
      /\ \A i \in 1 .. Len(w) : t[i] = w[i]
      /\ t[Len(w) + 1] = e
  BY <1>1, <1>2, <1>3, AppendProperties DEF StoreOK
<1>6. DOMAIN t = 1 .. Len(w) + 1
  BY <1>5, LenProperties
<1>7. \A i \in 1 .. Len(w) : w[i].key # key
  BY <1>1, <1>4 DEF Keys
<1>8. StoreOK(t)
  BY <1>1, <1>2, <1>4, <1>5, <1>6, <1>7 DEF StoreOK
<1>9. Keys(t) = Keys(w) \cup {key}
  BY <1>2, <1>4, <1>5, <1>6 DEF Keys
<1>10. QED
  BY <1>1, <1>4, <1>5, <1>8, <1>9 DEF t

\* An assignment adds a key, if it is new.
LEMMA AssignedKey ==
    ASSUME NEW s, StoreOK(s), NEW entry \in CacheEntries, Prefix[entry.vec] = entry.key
    PROVE  /\ StoreOK(Assigned(s, entry.key, entry))
           /\ Len(Assigned(s, entry.key, entry)) <= Len(s) + 1
           /\ Keys(Assigned(s, entry.key, entry)) = Keys(s) \cup {entry.key}
<1> DEFINE key == entry.key
           t == Assigned(s, entry.key, entry)
           p == Place(s, entry.key)
<1>1. /\ Len(s) \in Nat /\ DOMAIN s = 1 .. Len(s) /\ s \in Seq(CacheEntries)
      /\ \A m, n \in 1 .. Len(s) : s[m].key = s[n].key => m = n
      /\ \A n \in 1 .. Len(s) : Prefix[s[n].vec] = s[n].key
  BY StoreType DEF StoreOK
<1>2. CASE key \in Keys(s)
  <2>1. p \in 1 .. Len(s) /\ s[p].key = key
    BY <1>2, PlaceFound
  <2>2. t = [s EXCEPT ![p] = entry]
    BY <1>2 DEF Assigned
  <2> HIDE DEF p, t
  <2>3. /\ t \in Seq(CacheEntries) /\ Len(t) = Len(s)
        /\ \A j \in 1 .. Len(s) : t[j] = IF j = p THEN entry ELSE s[j]
    BY <1>1, <2>1, <2>2, ExceptSeq
  <2>4. DOMAIN t = 1 .. Len(s)
    BY <2>3, LenProperties
  <2>5. \A j \in 1 .. Len(s) : t[j].key = s[j].key /\ Prefix[t[j].vec] = t[j].key
    BY <1>1, <2>1, <2>3
  <2>6. StoreOK(t)
    BY <1>1, <2>3, <2>4, <2>5 DEF StoreOK
  <2>7. Keys(t) = Keys(s)
    BY <1>1, <2>4, <2>5 DEF Keys
  <2>8. QED
    BY <1>1, <1>2, <2>3, <2>6, <2>7 DEF t
<1>3. CASE key \notin Keys(s)
  <2>1. t = Append(s, entry)
    BY <1>3 DEF Assigned
  <2> HIDE DEF t
  <2>2. /\ t \in Seq(CacheEntries) /\ Len(t) = Len(s) + 1
        /\ \A i \in 1 .. Len(s) : t[i] = s[i]
        /\ t[Len(s) + 1] = entry
    BY <1>1, <2>1, AppendProperties
  <2>3. DOMAIN t = 1 .. Len(s) + 1
    BY <2>2, LenProperties
  <2>4. \A i \in 1 .. Len(s) : s[i].key # key
    BY <1>1, <1>3 DEF Keys
  <2>5. StoreOK(t)
    BY <1>1, <2>2, <2>3, <2>4 DEF StoreOK
  <2>6. Keys(t) = Keys(s) \cup {key}
    BY <1>1, <2>2, <2>3 DEF Keys
  <2>7. QED
    BY <1>1, <2>2, <2>5, <2>6 DEF t
<1>4. QED
  BY <1>2, <1>3

\* popitem(last=False).
LEMMA TailOfStore ==
    ASSUME NEW s, StoreOK(s), s # <<>>
    PROVE  /\ StoreOK(Tail(s))
           /\ Len(Tail(s)) = Len(s) - 1
           /\ Keys(Tail(s)) \subseteq Keys(s)
<1> DEFINE t == Tail(s)
<1>1. /\ Len(s) \in Nat /\ DOMAIN s = 1 .. Len(s) /\ s \in Seq(CacheEntries)
      /\ \A m, n \in 1 .. Len(s) : s[m].key = s[n].key => m = n
      /\ \A n \in 1 .. Len(s) : Prefix[s[n].vec] = s[n].key
  BY StoreType DEF StoreOK
<1>2. /\ t \in Seq(CacheEntries) /\ Len(t) = Len(s) - 1
      /\ \A i \in 1 .. Len(t) : t[i] = s[i + 1]
  BY <1>1, HeadTailProperties
<1> HIDE DEF t
<1>3. DOMAIN t = 1 .. Len(s) - 1
  BY <1>2, LenProperties
<1>4. \A i \in 1 .. Len(s) - 1 : i + 1 \in 1 .. Len(s) /\ t[i] = s[i + 1]
  BY <1>1, <1>2
<1>5. StoreOK(t)
  <2>1. \A m, n \in 1 .. Len(s) - 1 : t[m].key = t[n].key => m = n
    <3> TAKE m, n \in 1 .. Len(s) - 1
    <3> HAVE t[m].key = t[n].key
    <3>1. m + 1 = n + 1
      BY <1>1, <1>4
    <3>2. QED
      BY <3>1
  <2>2. QED
    BY <1>1, <1>2, <1>3, <1>4, <2>1 DEF StoreOK
<1>6. Keys(t) \subseteq Keys(s)
  BY <1>1, <1>3, <1>4 DEF Keys
<1>7. QED
  BY <1>2, <1>5, <1>6 DEF t

----------------------------------------------------------------------------
(* The inductive invariant of EmbedCache *)

Searching == {"find", "read", "delete", "touch"}
Storing   == {"set", "move", "put", "check", "evict"}
Late      == {"check", "evict"}

Places == Searching \cup Storing \cup
    {"new", "building", "embed", "loading", "using", "embedded", "adding", "built", "opening",
     "writing", "pickling", "reading", "unpickling", "added", "loaded", "warmed", "saved",
     "failed", "crashed"}

Vectors == Texts \cup {NoVector}

Locals == [pc : Places, texts : Seq(Texts), goal : {"none", "build", "add", "warm"},
           mine : Nat, i : Nat, read : Vectors, result : Seq(Vectors),
           missing : Seq(Nat), vecs : Seq(Texts), lost : SUBSET Texts]

\* Position n of the result holds a vector that a text with the same first
\* characters has.
Good(l, n) == l.result[n] \in Texts /\ Prefix[l.result[n]] = Prefix[l.texts[n]]

\* Of the texts looked up so far each was found or is noted as missing.
SearchOK(l) ==
    /\ Len(l.result) = Len(l.texts)
    /\ l.i \in 1 .. Len(l.texts) + 1
    /\ \A m \in DOMAIN l.missing : l.missing[m] \in 1 .. l.i - 1
    /\ \A n \in 1 .. l.i - 1 : Good(l, n) \/ \E m \in DOMAIN l.missing : l.missing[m] = n
    /\ l.pc # "find" => l.i <= Len(l.texts)
    /\ l.pc \in {"delete", "touch"} => l.read \in Texts /\ Prefix[l.read] = Prefix[l.texts[l.i]]

\* The vectors are those of the texts noted as missing; what is not good yet
\* is still to come.
StoringOK(l) ==
    /\ Len(l.result) = Len(l.texts) /\ Len(l.vecs) = Len(l.missing)
    /\ l.i \in 1 .. Len(l.missing) + 1
    /\ \A m \in DOMAIN l.missing :
          l.missing[m] \in 1 .. Len(l.texts) /\ l.vecs[m] = l.texts[l.missing[m]]
    /\ \A n \in 1 .. Len(l.texts) :
          Good(l, n) \/ \E m \in DOMAIN l.missing :
                           l.missing[m] = n /\ (IF l.pc = "set" THEN m >= l.i ELSE m > l.i)
    /\ l.pc # "set" => l.i <= Len(l.missing)

LocalsOK(l) ==
    /\ l.pc \in Searching => SearchOK(l)
    /\ l.pc \in Storing => StoringOK(l)
    /\ l.pc = "embedded" => Len(l.result) = Len(l.texts) /\ \A n \in 1 .. Len(l.texts) : Good(l, n)
    /\ l.pc = "opening" => l.result \in Seq(Texts)

\* The key that a call relies on is in its store S[l.mine], or was removed by
\* another call.
MeetsOK(l, S) ==
    /\ l.pc \in Searching \cup Storing => l.mine \in 1 .. Len(S)
    /\ l.pc \in {"read", "delete", "touch"} =>
          Prefix[l.texts[l.i]] \in Keys(S[l.mine]) \cup l.lost
    /\ l.pc \in {"move", "check", "evict"} =>
          Prefix[l.texts[l.missing[l.i]]] \in Keys(S[l.mine]) \cup l.lost

\* The calls that are about to test the size of store e, or to reduce it.
LateAt(e) == {c \in Calls : call[c].mine = e /\ call[c].pc \in Late}

StoresInv ==
    /\ stores \in Seq(Seq(CacheEntries))
    /\ \A e \in 1 .. Len(stores) : StoreOK(stores[e])
    /\ embedder \in 0 .. Len(stores)
    /\ now \in Nat

CallsInv ==
    /\ call \in [Calls -> Locals]
    /\ \A c \in Calls : /\ LocalsOK(call[c]) /\ MeetsOK(call[c], stores)
                        /\ call[c].pc = "using" => embedder # 0

SizeInv ==
    \A e \in 1 .. Len(stores) : /\ IsFiniteSet(LateAt(e))
                                /\ Len(stores[e]) <= MaxSize + Cardinality(LateAt(e))

EmbedInv == StoresInv /\ CallsInv /\ SizeInv

----------------------------------------------------------------------------
(* The inductive invariant of IndexStore *)

\* A call that adds, or is about to save, finds an index; one that restores
\* finds both files.
IndexInv ==
    /\ job \in [Calls -> [kind : Kinds, texts : Seq(Texts)]]
    /\ entries \in Seq(Texts)
    /\ index \in Seq(Texts) \cup {Missing}
    /\ idxFile \in Seq(Texts) \cup {Missing, Torn}
    /\ metaFile \in Seq(Texts) \cup {Missing, Torn}
    /\ \A c \in Calls :
          /\ call[c].goal = "add" \/ call[c].pc = "built" => index # Missing
          /\ call[c].pc = "adding" => call[c].goal = "add"
          /\ call[c].pc \in {"new", "built", "reading", "saved"} => call[c].goal = "none"
          /\ call[c].pc \in {"reading", "unpickling"} => idxFile # Missing /\ metaFile # Missing

\* What an undisturbed call has done so far, at each place where it may stand.
UndisturbedSoFar(c) ==
    /\ call[c].goal = "build" => entries = call[c].texts
    /\ call[c].pc = "adding" => Fits(index, entries \o call[c].texts)
    /\ call[c].pc = "opening" => Fits(call[c].result, entries)
    /\ call[c].pc \in {"writing", "pickling"} => Fits(idxFile, entries)
    /\ call[c].pc = "unpickling" => Fits(index, metaFile)
    /\ call[c].pc \in {"built", "added", "loaded"} => Fits(index, entries)
    /\ call[c].pc = "saved" => Fits(idxFile, metaFile)

AloneInv ==
    /\ alone \subseteq Calls
    /\ \A c, d \in alone : c = d
    /\ \A c \in alone : UndisturbedSoFar(c)

IInv == EmbedInv /\ IndexInv /\ AloneInv

----------------------------------------------------------------------------
(* Steps of the cache *)

\* A step that changes a call's local variables only.  A call that leaves the
\* places where it counts as late leaves a store within its limit.
LEMMA LocalStep ==
    ASSUME EmbedInv, NEW c \in Calls, NEW l \in Locals,
           call' = [call EXCEPT ![c] = l], UNCHANGED <<stores, embedder, now>>,
           LocalsOK(l), MeetsOK(l, stores), l.pc = "using" => embedder # 0,
           l.pc \in Late => call[c].pc \in Late /\ l.mine = call[c].mine,
           call[c].pc \in Late /\ l.pc \notin Late => Len(stores[call[c].mine]) <= MaxSize
    PROVE  EmbedInv'
<1> USE DEF EmbedInv
<1>1. StoresInv'
  BY DEF StoresInv
<1>2. call' \in [Calls -> Locals] /\ call'[c] = l /\ \A d \in Calls \ {c} : call'[d] = call[d]
  BY DEF CallsInv
<1>3. CallsInv'
  <2>1. ASSUME NEW d \in Calls
        PROVE  /\ LocalsOK(call'[d]) /\ MeetsOK(call'[d], stores)
               /\ call'[d].pc = "using" => embedder # 0
    <3>1. CASE d = c
      BY <1>2, <3>1
    <3>2. CASE d # c
      BY <1>2, <3>2 DEF CallsInv
    <3>3. QED
      BY <3>1, <3>2
  <2>2. QED
    BY <1>2, <2>1 DEF CallsInv
<1>4. SizeInv'
  <2> SUFFICES ASSUME NEW e \in 1 .. Len(stores)
               PROVE  /\ IsFiniteSet(LateAt(e)')
                      /\ Len(stores[e]) <= MaxSize + Cardinality(LateAt(e)')
    BY DEF SizeInv
  <2>1. IsFiniteSet(LateAt(e)) /\ Len(stores[e]) <= MaxSize + Cardinality(LateAt(e))
    BY DEF SizeInv
  <2>2. CASE call[c].pc \in Late /\ l.pc \notin Late /\ call[c].mine = e
    <3>1. LateAt(e)' \subseteq LateAt(e)
      BY <1>2, <2>2 DEF LateAt
    <3>2. IsFiniteSet(LateAt(e)') /\ Cardinality(LateAt(e)') \in Nat
      BY <2>1, <3>1, FS_Subset, FS_CardinalityType
    <3>3. Len(stores[e]) \in Nat /\ MaxSize \in Nat
      BY EmbedAssumption, StoreType DEF StoresInv
    <3>4. QED
      BY <2>2, <3>2, <3>3
  <2>3. CASE ~(call[c].pc \in Late /\ l.pc \notin Late /\ call[c].mine = e)
    <3>1. LateAt(e)' = LateAt(e)
      BY <1>2, <2>3 DEF LateAt
    <3>2. QED
      BY <2>1, <3>1
  <2>4. QED
    BY <2>2, <2>3
<1>5. QED
  BY <1>1, <1>3, <1>4

\* A step that replaces a store by s.
LEMMA ReplaceStep ==
    ASSUME EmbedInv, NEW c \in Calls, NEW s, NEW l \in Locals, Replaces(c, s, l),
           call[c].pc \in Storing \cup Searching, StoreOK(s),
           LocalsOK(l), l.pc # "using", l.mine = call[c].mine,
           MeetsOK(l, [stores EXCEPT ![call[c].mine] = s]),
           \/ l.pc \in Late /\ call[c].pc \notin Late /\ Len(s) <= Len(Store(c)) + 1
           \/ (l.pc \in Late <=> call[c].pc \in Late) /\ Len(s) <= Len(Store(c))
           \/ l.pc \notin Late /\ call[c].pc \in Late /\ Len(s) <= Len(Store(c)) - 1
    PROVE  EmbedInv'
<1> USE DEF EmbedInv
<1> DEFINE e0 == call[c].mine
<1>1. e0 \in 1 .. Len(stores)
  BY DEF CallsInv, MeetsOK
<1>2. stores' = [stores EXCEPT ![e0] = s] /\ embedder' = embedder /\ now' = now
  BY DEF Replaces
<1>3. s \in Seq(CacheEntries)
  BY DEF StoreOK
<1>4. /\ stores' \in Seq(Seq(CacheEntries)) /\ Len(stores') = Len(stores)
      /\ \A e \in 1 .. Len(stores) : stores'[e] = IF e = e0 THEN s ELSE stores[e]
  BY <1>1, <1>2, <1>3, ExceptSeq DEF StoresInv
<1>5. StoresInv'
  BY <1>2, <1>4 DEF StoresInv
<1>6. /\ call'[c] = l
      /\ \A d \in Calls \ {c} :
            call'[d] = IF call[d].pc \in Inside /\ call[d].mine = e0
                       THEN [call[d] EXCEPT !.lost = @ \cup (Keys(Store(c)) \ Keys(s))]
                       ELSE call[d]
      /\ DOMAIN call' = Calls
      /\ call' = [d \in Calls |-> call'[d]]
  BY DEF Replaces
<1>7. Keys(Store(c)) \subseteq Texts
  BY <1>1, StoreType DEF StoresInv, Store
<1>8. ASSUME NEW d \in Calls, d # c
      PROVE  /\ call'[d] \in Locals /\ LocalsOK(call'[d]) /\ MeetsOK(call'[d], stores')
             /\ call'[d].pc = call[d].pc /\ call'[d].mine = call[d].mine
  <2>1. call[d] \in Locals /\ LocalsOK(call[d]) /\ MeetsOK(call[d], stores)
    BY DEF CallsInv
  <2>2. CASE call[d].pc \in Inside /\ call[d].mine = e0
    <3> DEFINE gone == Keys(Store(c)) \ Keys(s)
    <3>1. call'[d] = [call[d] EXCEPT !.lost = @ \cup gone]
      BY <1>6, <1>8, <2>2
    <3>2. gone \subseteq Texts /\ call[d].lost \subseteq Texts
      BY <1>7, <2>1 DEF Locals
    <3>3. /\ call'[d] \in Locals /\ call'[d].lost = call[d].lost \cup gone
          /\ call'[d].pc = call[d].pc /\ call'[d].texts = call[d].texts
          /\ call'[d].mine = call[d].mine /\ call'[d].i = call[d].i
          /\ call'[d].read = call[d].read /\ call'[d].result = call[d].result
          /\ call'[d].missing = call[d].missing /\ call'[d].vecs = call[d].vecs
      <4> HIDE DEF gone
      <4>1. QED
        BY <2>1, <3>1, <3>2 DEF Locals
    <3>4. LocalsOK(call'[d])
      BY <2>1, <3>3 DEF LocalsOK, SearchOK, StoringOK, Good
    <3>5. Keys(stores[e0]) \cup call[d].lost \subseteq Keys(stores'[e0]) \cup call'[d].lost
      BY <1>1, <1>4, <3>3 DEF Store
    <3>6. MeetsOK(call'[d], stores')
      BY <1>4, <2>1, <2>2, <3>3, <3>5 DEF MeetsOK
    <3>7. QED
      BY <3>3, <3>4, <3>6
  <2>3. CASE ~(call[d].pc \in Inside /\ call[d].mine = e0)
    <3>1. call'[d] = call[d]
      BY <1>6, <1>8, <2>3
    <3>2. MeetsOK(call[d], stores')
      BY <1>4, <2>1, <2>3 DEF MeetsOK, Inside, Searching, Storing
    <3>3. QED
      BY <2>1, <3>1, <3>2
  <2>4. QED
    BY <2>2, <2>3
<1>9. CallsInv'
  <2>1. call' \in [Calls -> Locals]
    BY <1>6, <1>8
  <2>2. ASSUME NEW d \in Calls
        PROVE  /\ LocalsOK(call'[d]) /\ MeetsOK(call'[d], stores')
               /\ call'[d].pc = "using" => embedder' # 0
    <3>1. CASE d = c
      BY <1>2, <1>6, <3>1
    <3>2. CASE d # c
      BY <1>2, <1>8, <3>2 DEF CallsInv
    <3>3. QED
      BY <3>1, <3>2
  <2>3. QED
    BY <2>1, <2>2 DEF CallsInv
<1>10. SizeInv'
  <2> SUFFICES ASSUME NEW e \in 1 .. Len(stores)
               PROVE  /\ IsFiniteSet(LateAt(e)')
                      /\ Len(stores'[e]) <= MaxSize + Cardinality(LateAt(e)')
    BY <1>4 DEF SizeInv
  <2>1. IsFiniteSet(LateAt(e)) /\ Len(stores[e]) <= MaxSize + Cardinality(LateAt(e))
    BY DEF SizeInv
  <2>2. \A d \in Calls \ {c} : call'[d].pc = call[d].pc /\ call'[d].mine = call[d].mine
    BY <1>8
  <2>3. CASE e # e0
    <3>1. LateAt(e)' = LateAt(e)
      BY <1>6, <2>2, <2>3 DEF LateAt
    <3>2. QED
      BY <1>4, <2>1, <2>3, <3>1
  <2>4. CASE e = e0
    <3>1. Len(s) \in Nat /\ Len(stores[e]) \in Nat /\ MaxSize \in Nat
          /\ Cardinality(LateAt(e)) \in Nat /\ Store(c) = stores[e] /\ stores'[e] = s
      BY <1>4, <2>1, <2>4, EmbedAssumption, StoreType, FS_CardinalityType DEF StoresInv, Store
    <3>2. CASE l.pc \in Late /\ call[c].pc \notin Late /\ Len(s) <= Len(Store(c)) + 1
      <4>1. LateAt(e)' = LateAt(e) \cup {c} /\ c \notin LateAt(e)
        BY <1>6, <2>2, <2>4, <3>2 DEF LateAt
      <4>2. IsFiniteSet(LateAt(e)') /\ Cardinality(LateAt(e)') = Cardinality(LateAt(e)) + 1
        BY <2>1, <4>1, FS_AddElement
      <4>3. QED
        BY <2>1, <3>1, <3>2, <4>2
    <3>3. CASE (l.pc \in Late <=> call[c].pc \in Late) /\ Len(s) <= Len(Store(c))
      <4>1. LateAt(e)' = LateAt(e)
        BY <1>6, <2>2, <2>4, <3>3 DEF LateAt
      <4>2. QED
        BY <2>1, <3>1, <3>3, <4>1
    <3>4. CASE l.pc \notin Late /\ call[c].pc \in Late /\ Len(s) <= Len(Store(c)) - 1
      <4>1. LateAt(e)' = LateAt(e) \ {c} /\ c \in LateAt(e)
        BY <1>6, <2>2, <2>4, <3>4 DEF LateAt
      <4>2. IsFiniteSet(LateAt(e)') /\ Cardinality(LateAt(e)') = Cardinality(LateAt(e)) - 1
        BY <2>1, <4>1, FS_RemoveElement
      <4>3. QED
        BY <2>1, <3>1, <3>4, <4>2
    <3>5. QED
      BY <3>2, <3>3, <3>4
  <2>5. QED
    BY <2>3, <2>4
<1>11. QED
  BY <1>5, <1>9, <1>10

\* The local variables of a call, and of one whose work is over.
LEMMA LocalsType ==
    ASSUME EmbedInv, NEW c \in Calls
    PROVE  /\ call \in [Calls -> Locals] /\ call[c] \in Locals
           /\ LocalsOK(call[c]) /\ MeetsOK(call[c], stores)
BY DEF EmbedInv, CallsInv

\* Every store of an embedder is one.
LEMMA StoreFound ==
    ASSUME EmbedInv, NEW e \in 1 .. Len(stores)
    PROVE  StoreOK(stores[e])
BY DEF EmbedInv, StoresInv

\* A call that is at no step of the cache has nothing to keep.
LEMMA FreshLocals ==
    ASSUME NEW p \in Places \ (Searching \cup Storing \cup {"using", "embedded", "opening"})
    PROVE  /\ LocalsAt(p) \in Locals
           /\ LocalsOK(LocalsAt(p)) /\ \A S : MeetsOK(LocalsAt(p), S)
           /\ LocalsAt(p).pc = p /\ LocalsAt(p).goal = "none" /\ p \notin Late
<1>1. LocalsAt(p) \in Locals
  BY EmptySeq DEF LocalsAt, Locals, Vectors
<1>2. LocalsAt(p).pc = p /\ LocalsAt(p).goal = "none"
  BY DEF LocalsAt
<1>3. p \notin Searching \cup Storing \cup Late \cup {"embedded", "opening"}
  BY DEF Late, Storing
<1>4. LocalsOK(LocalsAt(p))
  BY <1>2, <1>3 DEF LocalsOK
<1>5. \A S : MeetsOK(LocalsAt(p), S)
  BY <1>2, <1>3 DEF MeetsOK, Searching, Storing
<1>6. QED
  BY <1>1, <1>2, <1>3, <1>4, <1>5

\* A call that ends, wherever it is but where it counts as late.
LEMMA EndStep ==
    ASSUME EmbedInv, NEW c \in Calls, UNCHANGED <<stores, embedder, now>>,
           NEW p \in Places \ (Searching \cup Storing \cup {"using", "embedded", "opening"}),
           Ends(c, p), call[c].pc \in Late => Len(stores[call[c].mine]) <= MaxSize
    PROVE  EmbedInv'
<1>1. call' = [call EXCEPT ![c] = LocalsAt(p)]
  BY DEF Ends
<1>2. /\ LocalsAt(p) \in Locals /\ LocalsOK(LocalsAt(p)) /\ MeetsOK(LocalsAt(p), stores)
      /\ LocalsAt(p).pc \notin Late /\ LocalsAt(p).pc # "using"
  BY FreshLocals
<1>3. QED
  BY <1>1, <1>2, LocalStep

\* A KeyError: a call that counts as late finds its store empty.
LEMMA FailStep ==
    ASSUME EmbedInv, NEW c \in Calls, KeyFails(c),
           call[c].pc \in Late => Store(c) = <<>>
    PROVE  EmbedInv'
<1>1. call[c].pc \in Late => Len(stores[call[c].mine]) <= MaxSize
  BY EmptySeq, EmbedAssumption DEF Store
<1>2. "failed" \in Places \ (Searching \cup Storing \cup {"using", "embedded", "opening"})
  BY DEF Places, Searching, Storing
<1>3. QED
  BY <1>1, <1>2, EndStep DEF KeyFails

\* What a call goes on with after a text that it has not found.
MissOK(c) ==
    /\ Miss(c) \in Locals /\ LocalsOK(Miss(c)) /\ MeetsOK(Miss(c), stores)
    /\ Miss(c).pc = "find" /\ Miss(c).mine = call[c].mine

\* A text that was not found is noted as missing.
LEMMA MissKept ==
    ASSUME EmbedInv, NEW c \in Calls, call[c].pc \in {"find", "delete"},
           call[c].i <= Len(call[c].texts)
    PROVE  MissOK(c)
<1> DEFINE l == call[c]
           m == Miss(c)
           noted == Append(l.missing, l.i)
<1>1. l \in Locals /\ SearchOK(l) /\ l.mine \in 1 .. Len(stores)
  BY LocalsType DEF LocalsOK, MeetsOK, Searching
<1>2. /\ l.texts \in Seq(Texts) /\ l.missing \in Seq(Nat) /\ l.i \in Nat
      /\ Len(l.texts) \in Nat /\ Len(l.missing) \in Nat /\ DOMAIN l.missing = 1 .. Len(l.missing)
  BY <1>1, LenProperties DEF Locals
<1>3. /\ noted \in Seq(Nat) /\ Len(noted) = Len(l.missing) + 1
      /\ \A n \in 1 .. Len(l.missing) : noted[n] = l.missing[n]
      /\ noted[Len(l.missing) + 1] = l.i
  BY <1>2, AppendProperties
<1>4. DOMAIN noted = 1 .. Len(l.missing) + 1
  BY <1>3, LenProperties
<1> HIDE DEF noted
<1>5. /\ m \in Locals /\ m.pc = "find" /\ m.i = l.i + 1 /\ m.missing = noted
      /\ m.texts = l.texts /\ m.result = l.result /\ m.mine = l.mine
  <2>1. m = [l EXCEPT !.pc = "find", !.i = l.i + 1, !.read = NoVector, !.lost = {},
                      !.missing = noted]
    BY <1>1 DEF Miss, NextText, noted, Locals
  <2> HIDE DEF m, l
  <2>2. l.i + 1 \in Nat /\ NoVector \in Vectors /\ {} \in SUBSET Texts
    BY <1>2 DEF Vectors
  <2>3. QED
    BY <1>1, <1>3, <2>1, <2>2 DEF Locals, Places, Searching
<1> HIDE DEF m
<1>6. SearchOK(m)
  <2>1. \A n \in DOMAIN m.missing : m.missing[n] \in 1 .. m.i - 1
    <3> SUFFICES ASSUME NEW n \in 1 .. Len(l.missing) + 1
                 PROVE  noted[n] \in 1 .. l.i
      BY <1>2, <1>4, <1>5
    <3>1. CASE n \in 1 .. Len(l.missing)
      <4>1. noted[n] = l.missing[n] /\ l.missing[n] \in 1 .. l.i - 1
        BY <1>1, <1>2, <1>3, <3>1 DEF SearchOK
      <4>2. QED
        BY <1>2, <4>1
    <3>2. CASE n = Len(l.missing) + 1
      BY <1>1, <1>2, <1>3, <3>2 DEF SearchOK
    <3>3. QED
      BY <1>2, <3>1, <3>2
  <2>2. \A n \in 1 .. l.i : Good(m, n) \/ \E j \in 1 .. Len(l.missing) + 1 : noted[j] = n
    <3> TAKE n \in 1 .. l.i
    <3>1. CASE n = l.i
      BY <1>2, <1>3, <3>1
    <3>2. CASE n \in 1 .. l.i - 1
      <4>1. Good(l, n) \/ \E j \in 1 .. Len(l.missing) : l.missing[j] = n
        BY <1>1, <1>2, <3>2 DEF SearchOK
      <4>2. CASE Good(l, n)
        BY <1>5, <4>2 DEF Good
      <4>3. CASE \E j \in 1 .. Len(l.missing) : l.missing[j] = n
        <5>1. PICK j \in 1 .. Len(l.missing) : l.missing[j] = n
          BY <4>3
        <5>2. j \in 1 .. Len(l.missing) + 1
          BY <1>2
        <5>3. noted[j] = n
          BY <1>3, <5>1
        <5>4. QED
          BY <5>2, <5>3
      <4>4. QED
        BY <4>1, <4>2, <4>3
    <3>3. QED
      BY <1>2, <3>1, <3>2
  <2>3. \A n \in 1 .. m.i - 1 : Good(m, n) \/ \E j \in DOMAIN m.missing : m.missing[j] = n
    <3>1. m.i - 1 = l.i /\ DOMAIN m.missing = 1 .. Len(l.missing) + 1 /\ m.missing = noted
      BY <1>2, <1>4, <1>5
    <3>2. QED
      BY <2>2, <3>1
  <2>4. QED
    BY <1>1, <1>2, <1>5, <2>1, <2>3 DEF SearchOK
<1>7. LocalsOK(m) /\ MeetsOK(m, stores)
  BY <1>1, <1>5, <1>6 DEF LocalsOK, MeetsOK, Storing
<1>8. QED
  BY <1>5, <1>7 DEF m, MissOK

\* And after one that it has found.
LEMMA HitKept ==
    ASSUME EmbedInv, NEW c \in Calls, call[c].pc = "touch"
    PROVE  /\ Hit(c) \in Locals /\ LocalsOK(Hit(c))
           /\ Hit(c).pc = "find" /\ Hit(c).mine = call[c].mine
<1> DEFINE l == call[c]
           m == Hit(c)
           filled == [l.result EXCEPT ![l.i] = l.read]
<1>1. l \in Locals /\ SearchOK(l) /\ l.mine \in 1 .. Len(stores)
  BY LocalsType DEF LocalsOK, MeetsOK, Searching
<1>2. /\ l.texts \in Seq(Texts) /\ l.result \in Seq(Vectors) /\ l.read \in Vectors
      /\ Len(l.texts) \in Nat /\ l.i \in 1 .. Len(l.texts) /\ Len(l.result) = Len(l.texts)
  BY <1>1, LenProperties DEF Locals, SearchOK
<1>3. /\ filled \in Seq(Vectors) /\ Len(filled) = Len(l.texts)
      /\ \A n \in 1 .. Len(l.texts) : filled[n] = IF n = l.i THEN l.read ELSE l.result[n]
  BY <1>2, ExceptSeq
<1> HIDE DEF filled
<1>4. /\ m \in Locals /\ m.pc = "find" /\ m.i = l.i + 1 /\ m.missing = l.missing
      /\ m.texts = l.texts /\ m.result = filled /\ m.mine = l.mine
  <2>1. m = [l EXCEPT !.pc = "find", !.i = l.i + 1, !.read = NoVector, !.lost = {},
                      !.result = filled]
    BY <1>1 DEF Hit, NextText, filled, Locals
  <2> HIDE DEF m, l
  <2>2. l.i + 1 \in Nat /\ NoVector \in Vectors /\ {} \in SUBSET Texts
    BY <1>2 DEF Vectors
  <2>3. QED
    BY <1>1, <1>3, <2>1, <2>2 DEF Locals, Places, Searching
<1> HIDE DEF m
<1>5. \A n \in 1 .. l.i : Good(m, n) \/ \E j \in DOMAIN l.missing : l.missing[j] = n
  <2> SUFFICES ASSUME NEW n \in 1 .. l.i
               PROVE  Good(m, n) \/ \E j \in DOMAIN l.missing : l.missing[j] = n
    OBVIOUS
  <2>1. CASE n = l.i
    BY <1>1, <1>2, <1>3, <1>4, <2>1 DEF SearchOK, Good
  <2>2. CASE n \in 1 .. l.i - 1
    <3>1. Good(l, n) \/ \E j \in DOMAIN l.missing : l.missing[j] = n
      BY <1>1, <2>2 DEF SearchOK
    <3>2. n \in 1 .. Len(l.texts) /\ n # l.i
      BY <1>2, <2>2
    <3>3. m.result[n] = l.result[n] /\ m.texts[n] = l.texts[n]
      BY <1>3, <1>4, <3>2
    <3>4. QED
      BY <3>1, <3>3 DEF Good
  <2>3. QED
    BY <1>2, <2>1, <2>2
<1>6. SearchOK(m)
  <2>1. m.i - 1 = l.i /\ \A n \in 1 .. l.i - 1 : n \in 1 .. l.i
    BY <1>2, <1>4
  <2>2. QED
    BY <1>1, <1>2, <1>3, <1>4, <1>5, <2>1 DEF SearchOK
<1>7. LocalsOK(m)
  BY <1>4, <1>6 DEF LocalsOK, Storing
<1>8. QED
  BY <1>4, <1>7 DEF m

\* Making and choosing the embedder, and get().
LEMMA SearchSteps ==
    ASSUME EmbedInv, NEW c \in Calls,
           \/ CheckEmbedder(c) \/ PublishEmbedder(c) \/ LoadFails(c) \/ UseEmbedder(c)
           \/ Find(c) \/ Read(c) \/ Delete(c) \/ Touch(c)
    PROVE  EmbedInv'
<1> DEFINE l == call[c]
<1>1. /\ call \in [Calls -> Locals] /\ l \in Locals
      /\ LocalsOK(l) /\ MeetsOK(l, stores)
  BY LocalsType
<1>2. CASE CheckEmbedder(c)
  <2> DEFINE m == [l EXCEPT !.pc = IF embedder = 0 THEN "loading" ELSE "using"]
  <2>1. call' = [call EXCEPT ![c] = m] /\ UNCHANGED <<stores, embedder, now>> /\ l.pc = "embed"
    BY <1>2 DEF CheckEmbedder, Goes
  <2>2. m \in Locals /\ m.pc \in {"loading", "using"} /\ (m.pc = "using" => embedder # 0)
    BY <1>1 DEF Locals, Places
  <2>3. LocalsOK(m) /\ MeetsOK(m, stores)
    BY <2>2 DEF LocalsOK, MeetsOK, Searching, Storing
  <2>4. m.pc \notin Late /\ l.pc \notin Late
    BY <2>1, <2>2 DEF Late
  <2> HIDE DEF m, l
  <2>5. QED
    BY <2>1, <2>2, <2>3, <2>4, LocalStep DEF l
<1>3. CASE PublishEmbedder(c)
  <2> DEFINE m == [l EXCEPT !.pc = "using"]
  <2>1. /\ call' = [call EXCEPT ![c] = m] /\ l.pc = "loading"
        /\ stores' = Append(stores, <<>>) /\ embedder' = Len(stores') /\ now' = now
    BY <1>3 DEF PublishEmbedder, Goes
  <2>2. stores \in Seq(Seq(CacheEntries)) /\ Len(stores) \in Nat /\ <<>> \in Seq(CacheEntries)
    BY EmptySeq, LenProperties DEF EmbedInv, StoresInv
  <2>3. /\ stores' \in Seq(Seq(CacheEntries)) /\ Len(stores') = Len(stores) + 1
        /\ \A e \in 1 .. Len(stores) : stores'[e] = stores[e]
        /\ stores'[Len(stores) + 1] = <<>>
    BY <2>1, <2>2, AppendProperties
  <2>4. \A e \in 1 .. Len(stores') : e \in 1 .. Len(stores) \/ (e = Len(stores) + 1 /\ stores'[e] = <<>>)
    BY <2>2, <2>3
  <2>5. StoresInv'
    BY <2>1, <2>2, <2>3, <2>4, EmptyStore DEF EmbedInv, StoresInv
  <2>6. /\ m \in Locals /\ m.pc = "using" /\ m.mine = l.mine
    BY <1>1 DEF Locals, Places
  <2>7. LocalsOK(m) /\ MeetsOK(m, stores')
    BY <2>6 DEF LocalsOK, MeetsOK, Searching, Storing
  <2>8. call' \in [Calls -> Locals] /\ call'[c] = m /\ \A d \in Calls \ {c} : call'[d] = call[d]
    BY <1>1, <2>1, <2>6
  <2>9. embedder' # 0
    BY <2>1, <2>2, <2>3
  <2>10. CallsInv'
    <3>1. ASSUME NEW d \in Calls \ {c}
          PROVE  LocalsOK(call[d]) /\ MeetsOK(call[d], stores')
      <4>1. LocalsOK(call[d]) /\ MeetsOK(call[d], stores)
        BY LocalsType
      <4>2. \A n \in 1 .. Len(stores) : n \in 1 .. Len(stores')
        BY <2>2, <2>3
      <4>3. QED
        BY <2>3, <4>1, <4>2 DEF MeetsOK, Searching, Storing
    <3>2. QED
      BY <2>7, <2>8, <2>9, <3>1 DEF CallsInv
  <2>11. SizeInv'
    <3>1. ASSUME NEW e \in Nat PROVE LateAt(e)' = LateAt(e)
      BY <2>1, <2>6, <2>8 DEF LateAt, Late
    <3>2. Len(<<>>) = 0 /\ MaxSize \in Nat
      BY EmbedAssumption
    <3>3. ASSUME NEW e \in Nat, e > Len(stores) PROVE LateAt(e) = {}
      <4>1. ASSUME NEW d \in Calls, call[d].pc \in Late PROVE call[d].mine # e
        BY <2>2, <3>3, <4>1, LocalsType DEF MeetsOK, Late, Storing
      <4>2. QED
        BY <4>1 DEF LateAt
    <3>4. ASSUME NEW e \in 1 .. Len(stores')
          PROVE  IsFiniteSet(LateAt(e)') /\ Len(stores'[e]) <= MaxSize + Cardinality(LateAt(e)')
      <4>1. CASE e \in 1 .. Len(stores)
        <5>1. e \in Nat /\ stores'[e] = stores[e]
          BY <2>2, <2>3, <4>1
        <5>2. QED
          BY <3>1, <4>1, <5>1 DEF EmbedInv, SizeInv
      <4>2. CASE e = Len(stores) + 1 /\ stores'[e] = <<>>
        <5>1. LateAt(e)' = {}
          BY <2>2, <3>1, <3>3, <4>2
        <5>2. QED
          BY <3>2, <4>2, <5>1, FS_EmptySet
      <4>3. QED
        BY <2>4, <4>1, <4>2
    <3>5. QED
      BY <3>4 DEF SizeInv
  <2>12. QED
    BY <2>5, <2>10, <2>11 DEF EmbedInv
<1>4. CASE LoadFails(c)
  <2>1. "failed" \in Places \ (Searching \cup Storing \cup {"using", "embedded", "opening"})
    BY DEF Places, Searching, Storing
  <2>2. l.pc \notin Late
    BY <1>4 DEF LoadFails, Late
  <2>3. QED
    BY <1>4, <2>1, <2>2, EndStep DEF LoadFails
<1>5. CASE UseEmbedder(c)
  <2> DEFINE blank == [n \in DOMAIN l.texts |-> NoVector]
             m == [l EXCEPT !.pc = "find", !.mine = embedder, !.i = 1,
                            !.result = blank, !.missing = <<>>]
  <2>1. /\ call' = [call EXCEPT ![c] = m] /\ l.pc = "using"
        /\ UNCHANGED <<stores, embedder, now>>
    BY <1>5 DEF UseEmbedder
  <2>2. l.texts \in Seq(Texts) /\ Len(l.texts) \in Nat /\ DOMAIN l.texts = 1 .. Len(l.texts)
    BY <1>1, LenProperties DEF Locals
  <2>3. blank \in Seq(Vectors) /\ Len(blank) = Len(l.texts)
    BY <2>2, IsASeq DEF Vectors
  <2>4. embedder \in 1 .. Len(stores) /\ embedder \in Nat
    <3>1. Len(stores) \in Nat
      BY LenProperties DEF EmbedInv, StoresInv
    <3>2. QED
      BY <2>1, <3>1 DEF EmbedInv, CallsInv, StoresInv
  <2>5. <<>> \in Seq(Nat) /\ Len(<<>>) = 0 /\ DOMAIN <<>> = {}
    BY EmptySeq
  <2>6. /\ m \in Locals /\ m.pc = "find" /\ m.mine = embedder /\ m.i = 1
        /\ m.result = blank /\ m.missing = <<>> /\ m.texts = l.texts
    <3> HIDE DEF blank
    <3>1. QED
      BY <1>1, <2>3, <2>4, <2>5 DEF Locals, Places, Searching
  <2> HIDE DEF blank, m
  <2>7. SearchOK(m)
    BY <2>2, <2>3, <2>5, <2>6 DEF SearchOK
  <2>8. LocalsOK(m) /\ MeetsOK(m, stores)
    BY <2>4, <2>6, <2>7 DEF LocalsOK, MeetsOK, Storing
  <2>9. m.pc \notin Late /\ l.pc \notin Late /\ m.pc # "using"
    BY <2>1, <2>6 DEF Late
  <2> HIDE DEF l
  <2>10. QED
    BY <2>1, <2>6, <2>8, <2>9, LocalStep DEF l
<1>6. CASE Find(c)
  <2> DEFINE hit == [l EXCEPT !.pc = "read"]
  <2>1. /\ l.pc = "find" /\ l.i <= Len(l.texts) /\ UNCHANGED <<stores, embedder, now>>
        /\ call' = [call EXCEPT ![c] = IF Prefix[Text(c)] \in Keys(Store(c)) THEN hit ELSE Miss(c)]
        /\ l.pc \notin Late
    BY <1>6 DEF Find, Late
  <2>2. SearchOK(l) /\ l.mine \in 1 .. Len(stores) /\ Text(c) = l.texts[l.i] /\ Store(c) = stores[l.mine]
    BY <1>1, <2>1 DEF LocalsOK, MeetsOK, Searching, Text, Store
  <2>3. CASE Prefix[Text(c)] \in Keys(Store(c))
    <3>1. /\ hit \in Locals /\ hit.pc = "read" /\ hit.texts = l.texts /\ hit.i = l.i
          /\ hit.result = l.result /\ hit.missing = l.missing /\ hit.mine = l.mine
      BY <1>1 DEF Locals, Places, Searching
    <3>2. SearchOK(hit)
      BY <2>1, <2>2, <3>1 DEF SearchOK, Good
    <3>3. LocalsOK(hit) /\ MeetsOK(hit, stores)
      BY <2>2, <2>3, <3>1, <3>2 DEF LocalsOK, MeetsOK, Storing
    <3>4. hit.pc \notin Late /\ hit.pc # "using" /\ call' = [call EXCEPT ![c] = hit]
      BY <2>1, <2>3, <3>1 DEF Late
    <3> HIDE DEF l, hit
    <3>5. QED
      BY <2>1, <3>1, <3>3, <3>4, LocalStep DEF l
  <2>4. CASE Prefix[Text(c)] \notin Keys(Store(c))
    <3>1. call' = [call EXCEPT ![c] = Miss(c)]
      BY <2>1, <2>4
    <3>2. MissOK(c)
      BY <2>1, <2>2, MissKept, Zenon
    <3>3. QED
      BY <2>1, <3>1, <3>2, LocalStep DEF MissOK, Late
  <2>5. QED
    BY <2>3, <2>4
<1>7. CASE Read(c)
  <2> DEFINE key == Prefix[Text(c)]
             entry == Store(c)[Place(Store(c), key)]
             m == [l EXCEPT !.read = entry.vec,
                            !.pc = IF Expired(entry) THEN "delete" ELSE "touch"]
  <2>1. /\ l.pc = "read" /\ l.pc \notin Late /\ UNCHANGED <<stores, embedder, now>>
        /\ IF key \notin Keys(Store(c)) THEN Ends(c, "failed") ELSE call' = [call EXCEPT ![c] = m]
    BY <1>7 DEF Read, Late
  <2>2. SearchOK(l) /\ l.mine \in 1 .. Len(stores) /\ Text(c) = l.texts[l.i] /\ Store(c) = stores[l.mine]
    BY <1>1, <2>1 DEF LocalsOK, MeetsOK, Searching, Text, Store
  <2>3. CASE key \notin Keys(Store(c))
    <3>1. "failed" \in Places \ (Searching \cup Storing \cup {"using", "embedded", "opening"})
      BY DEF Places, Searching, Storing
    <3>2. QED
      BY <2>1, <2>3, <3>1, EndStep
  <2>4. CASE key \in Keys(Store(c))
    <3>1. StoreOK(Store(c))
      BY <2>2, StoreFound
    <3>2. Place(Store(c), key) \in 1 .. Len(Store(c)) /\ entry.key = key
      BY <2>4, <3>1, PlaceFound
    <3>3. entry \in CacheEntries /\ Prefix[entry.vec] = key
      BY <3>1, <3>2, StoreType DEF StoreOK
    <3>4. entry.vec \in Texts
      BY <3>3 DEF CacheEntries
    <3>5. /\ m \in Locals /\ m.pc \in {"delete", "touch"} /\ m.texts = l.texts /\ m.i = l.i
          /\ m.result = l.result /\ m.missing = l.missing /\ m.mine = l.mine
          /\ m.read = entry.vec
      <4> HIDE DEF entry, key
      <4>1. QED
        BY <1>1, <3>4 DEF Locals, Places, Searching, Vectors
    <3> HIDE DEF m, entry
    <3>6. SearchOK(m)
      BY <2>1, <2>2, <3>3, <3>4, <3>5 DEF SearchOK, Good
    <3>7. LocalsOK(m) /\ MeetsOK(m, stores)
      BY <2>2, <2>4, <3>5, <3>6 DEF LocalsOK, MeetsOK, Storing
    <3>8. m.pc \notin Late /\ m.pc # "using" /\ call' = [call EXCEPT ![c] = m]
      BY <2>1, <2>4, <3>5 DEF Late
    <3> HIDE DEF l, key
    <3>9. QED
      BY <2>1, <3>5, <3>7, <3>8, LocalStep DEF l
  <2>5. QED
    BY <2>3, <2>4
<1>8. CASE Delete(c)
  <2>1. l.pc = "delete" /\ l.pc \notin Late /\ l.pc \in Storing \cup Searching
    BY <1>8 DEF Delete, Late, Searching
  <2>2. SearchOK(l) /\ l.i <= Len(l.texts) /\ l.mine \in 1 .. Len(stores) /\ Store(c) = stores[l.mine]
    BY <1>1, <2>1 DEF LocalsOK, MeetsOK, Searching, SearchOK, Store
  <2>3. CASE KeyFails(c)
    BY <2>1, <2>3, FailStep
  <2>4. CASE /\ Prefix[Text(c)] \in Keys(Store(c))
             /\ Replaces(c, Without(Store(c), Prefix[Text(c)]), Miss(c))
    <3> DEFINE s == Without(Store(c), Prefix[Text(c)])
    <3>1. StoreOK(Store(c))
      BY <2>2, StoreFound
    <3>2. StoreOK(s) /\ Len(s) = Len(Store(c)) - 1 /\ Len(Store(c)) \in Nat
      BY <2>4, <3>1, WithoutKey, StoreType
    <3>3. MissOK(c)
      BY <2>1, <2>2, MissKept, Zenon
    <3>4. /\ Miss(c) \in Locals /\ LocalsOK(Miss(c)) /\ Miss(c).pc = "find" /\ Miss(c).mine = l.mine
          /\ MeetsOK(Miss(c), [stores EXCEPT ![l.mine] = s])
      <4>1. Len([stores EXCEPT ![l.mine] = s]) = Len(stores)
        BY <2>2, <3>2, ExceptSeq DEF EmbedInv, StoresInv, StoreOK
      <4>2. QED
        BY <2>2, <3>3, <4>1 DEF MissOK, MeetsOK, Storing
    <3>5. Miss(c).pc \notin Late /\ Miss(c).pc # "using" /\ Len(s) <= Len(Store(c))
      BY <3>2, <3>4 DEF Late
    <3> HIDE DEF s
    <3>6. Replaces(c, s, Miss(c))
      BY <2>4 DEF s
    <3>7. QED
      BY <2>1, <3>2, <3>4, <3>5, <3>6, ReplaceStep
  <2>5. QED
    BY <1>8, <2>3, <2>4 DEF Delete
<1>9. CASE Touch(c)
  <2>1. l.pc = "touch" /\ l.pc \notin Late /\ l.pc \in Storing \cup Searching
    BY <1>9 DEF Touch, Late, Searching
  <2>2. SearchOK(l) /\ l.mine \in 1 .. Len(stores) /\ Store(c) = stores[l.mine]
    BY <1>1, <2>1 DEF LocalsOK, MeetsOK, Searching, Store
  <2>3. CASE KeyFails(c)
    BY <2>1, <2>3, FailStep
  <2>4. CASE /\ Prefix[Text(c)] \in Keys(Store(c))
             /\ Replaces(c, MovedToEnd(Store(c), Prefix[Text(c)]), Hit(c))
    <3> DEFINE s == MovedToEnd(Store(c), Prefix[Text(c)])
    <3>1. StoreOK(Store(c))
      BY <2>2, StoreFound
    <3>2. StoreOK(s) /\ Len(s) = Len(Store(c)) /\ Len(Store(c)) \in Nat
      BY <2>4, <3>1, MovedKey, StoreType
    <3>3. /\ Hit(c) \in Locals /\ LocalsOK(Hit(c)) /\ Hit(c).pc = "find" /\ Hit(c).mine = l.mine
      BY <2>1, <2>2, HitKept
    <3>4. MeetsOK(Hit(c), [stores EXCEPT ![l.mine] = s])
      <4>1. Len([stores EXCEPT ![l.mine] = s]) = Len(stores)
        BY <2>2, <3>2, ExceptSeq DEF EmbedInv, StoresInv, StoreOK
      <4>2. QED
        BY <2>2, <3>3, <4>1 DEF MeetsOK, Storing
    <3>5. Hit(c).pc \notin Late /\ Hit(c).pc # "using" /\ Len(s) <= Len(Store(c))
      BY <3>2, <3>3 DEF Late
    <3> HIDE DEF s
    <3>6. Replaces(c, s, Hit(c))
      BY <2>4 DEF s
    <3>7. QED
      BY <2>1, <3>2, <3>3, <3>4, <3>5, <3>6, ReplaceStep
  <2>5. QED
    BY <1>9, <2>3, <2>4 DEF Touch
<1>10. QED
  BY <1>2, <1>3, <1>4, <1>5, <1>6, <1>7, <1>8, <1>9

\* The entry that a call puts for one of its misses.
LEMMA EntryKept ==
    ASSUME EmbedInv, NEW c \in Calls, call[c].pc \in Storing, call[c].i <= Len(call[c].missing)
    PROVE  /\ Position(c) \in 1 .. Len(call[c].texts)
           /\ call[c].vecs[call[c].i] = call[c].texts[Position(c)]
           /\ Entry(c) \in CacheEntries
           /\ Entry(c).key = KeyOf(c) /\ Prefix[Entry(c).vec] = KeyOf(c)
           /\ KeyOf(c) = Prefix[call[c].texts[call[c].missing[call[c].i]]]
<1> DEFINE l == call[c]
<1>1. l \in Locals /\ StoringOK(l)
  BY LocalsType DEF LocalsOK
<1>2. /\ l.texts \in Seq(Texts) /\ l.missing \in Seq(Nat)
      /\ DOMAIN l.missing = 1 .. Len(l.missing) /\ Len(l.missing) \in Nat /\ l.i \in Nat
  BY <1>1, LenProperties DEF Locals
<1>3. l.i \in 1 .. Len(l.missing)
  BY <1>1, <1>2 DEF StoringOK
<1>4. /\ l.missing[l.i] \in 1 .. Len(l.texts)
      /\ l.vecs[l.i] = l.texts[l.missing[l.i]]
  BY <1>1, <1>2, <1>3 DEF StoringOK
<1>5. l.texts[l.missing[l.i]] \in Texts
  BY <1>2, <1>4, ElementOfSeq
<1>6. now \in Nat /\ Prefix[l.texts[l.missing[l.i]]] \in Texts
  BY <1>5, EmbedAssumption DEF EmbedInv, StoresInv
<1>7. QED
  BY <1>4, <1>5, <1>6 DEF Position, KeyOf, Entry, CacheEntries

\* What a call goes on with after a miss that it has put.
LEMMA NextMissKept ==
    ASSUME EmbedInv, NEW c \in Calls, call[c].pc \in Late
    PROVE  /\ NextMiss(c) \in Locals /\ LocalsOK(NextMiss(c))
           /\ NextMiss(c).pc = "set" /\ NextMiss(c).mine = call[c].mine
           /\ \A S : Len(S) = Len(stores) => MeetsOK(NextMiss(c), S)
<1> DEFINE l == call[c]
           m == NextMiss(c)
<1>1. l \in Locals /\ StoringOK(l) /\ l.mine \in 1 .. Len(stores) /\ l.pc # "set"
  BY LocalsType DEF LocalsOK, MeetsOK, Storing, Late
<1>2. l.i \in Nat /\ l.missing \in Seq(Nat) /\ DOMAIN l.missing = 1 .. Len(l.missing) /\ Len(l.missing) \in Nat
  BY <1>1, LenProperties DEF Locals
<1>3. /\ m \in Locals /\ m.pc = "set" /\ m.i = l.i + 1 /\ m.missing = l.missing
      /\ m.texts = l.texts /\ m.result = l.result /\ m.mine = l.mine /\ m.vecs = l.vecs
  <2>1. m = [l EXCEPT !.pc = "set", !.i = l.i + 1, !.lost = {}]
    BY <1>1 DEF NextMiss, Locals
  <2> HIDE DEF m, l
  <2>2. l.i + 1 \in Nat /\ {} \in SUBSET Texts
    BY <1>2
  <2>3. QED
    BY <1>1, <2>1, <2>2 DEF Locals, Places, Storing
<1> HIDE DEF m
<1>4. l.i <= Len(l.missing) /\ l.i >= 1
  BY <1>1, <1>2 DEF StoringOK
<1>5. m.i \in 1 .. Len(m.missing) + 1
  BY <1>2, <1>3, <1>4
<1>6. ASSUME NEW n \in 1 .. Len(l.texts)
      PROVE  Good(m, n) \/ \E j \in DOMAIN m.missing : m.missing[j] = n /\ j >= m.i
  <2>1. Good(l, n) \/ \E j \in 1 .. Len(l.missing) : l.missing[j] = n /\ j > l.i
    BY <1>1, <1>2 DEF StoringOK
  <2>2. Good(l, n) => Good(m, n)
    BY <1>3 DEF Good
  <2>3. \A j \in 1 .. Len(l.missing) : j > l.i => j >= m.i
    BY <1>2, <1>3
  <2>4. QED
    BY <1>2, <1>3, <2>1, <2>2, <2>3
<1>7. StoringOK(m)
  BY <1>1, <1>3, <1>5, <1>6 DEF StoringOK
<1>8. LocalsOK(m)
  BY <1>3, <1>7 DEF LocalsOK, Searching
<1>9. \A S : Len(S) = Len(stores) => MeetsOK(m, S)
  BY <1>1, <1>3 DEF MeetsOK, Searching
<1>10. QED
  BY <1>3, <1>8, <1>9 DEF m

\* The vectors of the texts noted as missing, stacked batch by batch.
LEMMA MissesEmbedded ==
    ASSUME EmbedInv, NEW c \in Calls, call[c].pc = "find", call[c].missing # <<>>
    PROVE  /\ MissTexts(c) \in Seq(Texts) /\ Len(MissTexts(c)) = Len(call[c].missing)
           /\ \A m \in DOMAIN call[c].missing : MissTexts(c)[m] = call[c].texts[call[c].missing[m]]
           /\ FlattenSeq(Chunks(MissTexts(c), BatchSize)) = MissTexts(c)
<1> DEFINE l == call[c]
<1>1. l \in Locals /\ SearchOK(l)
  BY LocalsType DEF LocalsOK, Searching
<1>2. /\ l.texts \in Seq(Texts) /\ l.missing \in Seq(Nat) /\ l.i \in Nat
      /\ DOMAIN l.missing = 1 .. Len(l.missing) /\ Len(l.missing) \in Nat /\ Len(l.texts) \in Nat
  BY <1>1, LenProperties DEF Locals
<1>3. \A m \in 1 .. Len(l.missing) : l.missing[m] \in 1 .. Len(l.texts)
  <2>1. /\ \A m \in 1 .. Len(l.missing) : l.missing[m] \in 1 .. l.i - 1
        /\ l.i - 1 <= Len(l.texts)
    <3>1. l.i \in 1 .. Len(l.texts) + 1
      BY <1>1 DEF SearchOK
    <3>2. l.i - 1 <= Len(l.texts)
      BY <1>2, <3>1
    <3>3. QED
      BY <1>1, <1>2, <3>2 DEF SearchOK
  <2>2. \A k \in 1 .. l.i - 1 : k \in 1 .. Len(l.texts)
    BY <1>2, <2>1
  <2>3. QED
    BY <2>1, <2>2
<1>4. \A m \in 1 .. Len(l.missing) : l.texts[l.missing[m]] \in Texts
  BY <1>2, <1>3, ElementOfSeq
<1>5. MissTexts(c) = [m \in 1 .. Len(l.missing) |-> l.texts[l.missing[m]]]
  BY <1>2 DEF MissTexts
<1>6. MissTexts(c) \in Seq(Texts) /\ Len(MissTexts(c)) = Len(l.missing)
  BY <1>2, <1>4, <1>5, IsASeq
<1>7. MissTexts(c) # <<>>
  BY <1>2, <1>6, EmptySeq
<1>8. FlattenSeq(Chunks(MissTexts(c), BatchSize)) = MissTexts(c)
  BY <1>6, <1>7, ChunksJoin, EmbedAssumption
<1>9. QED
  BY <1>2, <1>5, <1>6, <1>8

\* Embedding what is missing, and set().
LEMMA StoringSteps ==
    ASSUME EmbedInv, NEW c \in Calls,
           \/ EmbedMisses(c) \/ EmbedFails(c) \/ Embedded(c)
           \/ SetFind(c) \/ Move(c) \/ Put(c) \/ Check(c) \/ Evict(c)
    PROVE  EmbedInv'
<1> DEFINE l == call[c]
<1>1. /\ call \in [Calls -> Locals] /\ l \in Locals
      /\ LocalsOK(l) /\ MeetsOK(l, stores)
  BY LocalsType
<1>2. /\ l.texts \in Seq(Texts) /\ l.missing \in Seq(Nat) /\ l.i \in Nat
      /\ l.result \in Seq(Vectors) /\ l.vecs \in Seq(Texts)
      /\ DOMAIN l.missing = 1 .. Len(l.missing) /\ Len(l.missing) \in Nat /\ Len(l.texts) \in Nat
  BY <1>1, LenProperties DEF Locals
<1>3. CASE EmbedMisses(c)
  <2> DEFINE m == [l EXCEPT !.pc = "set", !.i = 1, !.vecs = MissTexts(c)]
  <2>1. /\ l.pc = "find" /\ l.i > Len(l.texts) /\ l.missing # <<>>
        /\ UNCHANGED <<stores, embedder, now>>
    BY <1>3 DEF EmbedMisses
  <2>2. /\ MissTexts(c) \in Seq(Texts) /\ Len(MissTexts(c)) = Len(l.missing)
        /\ \A n \in DOMAIN l.missing : MissTexts(c)[n] = l.texts[l.missing[n]]
        /\ FlattenSeq(Chunks(MissTexts(c), BatchSize)) = MissTexts(c)
    BY <2>1, MissesEmbedded
  <2>3. call' = [call EXCEPT ![c] = m]
    BY <1>3, <2>2 DEF EmbedMisses
  <2>4. /\ m \in Locals /\ m.pc = "set" /\ m.i = 1 /\ m.vecs = MissTexts(c) /\ m.mine = l.mine
        /\ m.texts = l.texts /\ m.result = l.result /\ m.missing = l.missing
    BY <1>1, <2>2 DEF Locals, Places, Storing
  <2> HIDE DEF m
  <2>5. SearchOK(l) /\ l.mine \in 1 .. Len(stores) /\ l.i = Len(l.texts) + 1
    <3>1. SearchOK(l) /\ l.mine \in 1 .. Len(stores)
      BY <1>1, <2>1 DEF LocalsOK, MeetsOK, Searching
    <3>2. l.i \in 1 .. Len(l.texts) + 1
      BY <3>1 DEF SearchOK
    <3>3. QED
      BY <1>2, <2>1, <3>1, <3>2
  <2>6. StoringOK(m)
    <3>1. l.i - 1 = Len(l.texts)
      BY <1>2, <2>5
    <3>2. \A n \in 1 .. Len(l.texts) : Good(l, n) => Good(m, n)
      BY <2>4 DEF Good
    <3>3. \A n \in 1 .. Len(l.missing) : n >= 1
      OBVIOUS
    <3>4. m.i \in 1 .. Len(m.missing) + 1
      BY <1>2, <2>4
    <3>5. QED
      BY <1>2, <2>2, <2>4, <2>5, <3>1, <3>2, <3>3, <3>4 DEF SearchOK, StoringOK
  <2>7. LocalsOK(m) /\ MeetsOK(m, stores)
    BY <2>4, <2>5, <2>6 DEF LocalsOK, MeetsOK, Searching
  <2>8. m.pc \notin Late /\ m.pc # "using" /\ l.pc \notin Late
    BY <2>1, <2>4 DEF Late
  <2> HIDE DEF l
  <2>9. QED
    BY <2>1, <2>3, <2>4, <2>7, <2>8, LocalStep DEF l
<1>4. CASE EmbedFails(c)
  <2>1. "failed" \in Places \ (Searching \cup Storing \cup {"using", "embedded", "opening"})
    BY DEF Places, Searching, Storing
  <2>2. l.pc \notin Late
    BY <1>4 DEF EmbedFails, Late
  <2>3. QED
    BY <1>4, <2>1, <2>2, EndStep DEF EmbedFails
<1>5. CASE Embedded(c)
  <2> DEFINE m == [LocalsAt("embedded") EXCEPT !.texts = l.texts, !.goal = l.goal, !.result = l.result]
  <2>1. /\ call' = [call EXCEPT ![c] = m] /\ UNCHANGED <<stores, embedder, now>>
        /\ \/ l.pc = "find" /\ l.i > Len(l.texts) /\ l.missing = <<>>
           \/ l.pc = "set" /\ l.i > Len(l.missing)
    BY <1>5 DEF Embedded
  <2>2. LocalsAt("embedded") \in Locals
    BY EmptySeq DEF LocalsAt, Locals, Vectors, Places
  <2>3. /\ m \in Locals /\ m.pc = "embedded" /\ m.texts = l.texts /\ m.result = l.result
    BY <1>1, <2>2 DEF Locals, Places, LocalsAt
  <2>4. Len(l.result) = Len(l.texts) /\ \A n \in 1 .. Len(l.texts) : Good(l, n)
    <3>1. CASE l.pc = "find" /\ l.i > Len(l.texts) /\ l.missing = <<>>
      <4>1. SearchOK(l)
        BY <1>1, <3>1 DEF LocalsOK, Searching
      <4>2. l.i - 1 = Len(l.texts)
        BY <1>2, <3>1, <4>1 DEF SearchOK
      <4>3. DOMAIN l.missing = {}
        BY <3>1
      <4>4. QED
        BY <4>1, <4>2, <4>3 DEF SearchOK
    <3>2. CASE l.pc = "set" /\ l.i > Len(l.missing)
      <4>1. StoringOK(l)
        BY <1>1, <3>2 DEF LocalsOK, Storing
      <4>2. \A n \in 1 .. Len(l.missing) : ~(n >= l.i)
        BY <1>2, <3>2
      <4>3. QED
        BY <1>2, <3>2, <4>1, <4>2 DEF StoringOK
    <3>3. QED
      BY <2>1, <3>1, <3>2
  <2> HIDE DEF m
  <2>5. LocalsOK(m) /\ MeetsOK(m, stores)
    BY <2>3, <2>4 DEF LocalsOK, MeetsOK, Searching, Storing, Good
  <2>6. m.pc \notin Late /\ m.pc # "using" /\ l.pc \notin Late
    BY <2>1, <2>3 DEF Late
  <2> HIDE DEF l
  <2>7. QED
    BY <2>1, <2>3, <2>5, <2>6, LocalStep DEF l
<1>6. CASE SetFind(c)
  <2> DEFINE filled == [l.result EXCEPT ![Position(c)] = l.vecs[l.i]]
             there == KeyOf(c) \in Keys(Store(c))
             m == [l EXCEPT !.result = filled, !.pc = IF there THEN "move" ELSE "put"]
  <2>1. l.pc = "set" /\ l.i <= Len(l.missing) /\ UNCHANGED <<stores, embedder, now>>
    BY <1>6 DEF SetFind
  <2>2. call' = [call EXCEPT ![c] = m]
    BY <1>1, <1>6 DEF SetFind
  <2>3. StoringOK(l) /\ l.mine \in 1 .. Len(stores) /\ Store(c) = stores[l.mine]
    BY <1>1, <2>1 DEF LocalsOK, MeetsOK, Storing, Store
  <2>4. /\ Position(c) \in 1 .. Len(l.texts) /\ l.vecs[l.i] = l.texts[Position(c)]
        /\ Position(c) = l.missing[l.i] /\ KeyOf(c) = Prefix[l.texts[Position(c)]]
        /\ l.texts[Position(c)] \in Texts
    BY <1>2, <2>1, EntryKept, ElementOfSeq DEF Storing, Position, KeyOf
  <2>5. /\ filled \in Seq(Vectors) /\ Len(filled) = Len(l.texts)
        /\ \A n \in 1 .. Len(l.texts) :
              filled[n] = IF n = Position(c) THEN l.vecs[l.i] ELSE l.result[n]
    <3>1. Len(l.result) = Len(l.texts) /\ l.vecs[l.i] \in Vectors
      BY <2>3, <2>4 DEF StoringOK, Vectors
    <3>2. QED
      BY <1>2, <2>4, <3>1, ExceptSeq
  <2> HIDE DEF filled
  <2>6. /\ m \in Locals /\ m.pc = (IF there THEN "move" ELSE "put") /\ m.result = filled
        /\ m.texts = l.texts /\ m.i = l.i /\ m.missing = l.missing /\ m.mine = l.mine
        /\ m.vecs = l.vecs
    <3> HIDE DEF there
    <3>1. QED
      BY <1>1, <2>5 DEF Locals, Places, Storing
  <2> HIDE DEF m
  <2>7. ASSUME NEW n \in 1 .. Len(l.texts)
        PROVE  Good(m, n) \/ \E j \in DOMAIN l.missing : l.missing[j] = n /\ j > l.i
    <3>1. CASE n = Position(c)
      BY <2>4, <2>5, <2>6, <3>1 DEF Good
    <3>2. CASE n # Position(c)
      <4>1. Good(l, n) => Good(m, n)
        BY <2>5, <2>6, <3>2 DEF Good
      <4>2. Good(l, n) \/ \E j \in DOMAIN l.missing : l.missing[j] = n /\ j >= l.i
        BY <2>1, <2>3 DEF StoringOK
      <4>3. \A j \in DOMAIN l.missing : l.missing[j] = n /\ j >= l.i => j > l.i
        BY <1>2, <2>4, <3>2
      <4>4. QED
        BY <4>1, <4>2, <4>3
    <3>3. QED
      BY <3>1, <3>2
  <2>8. StoringOK(m)
    BY <2>1, <2>3, <2>5, <2>6, <2>7 DEF StoringOK
  <2>9. LocalsOK(m) /\ MeetsOK(m, stores)
    BY <2>3, <2>4, <2>6, <2>8 DEF LocalsOK, MeetsOK, Searching, Storing
  <2>10. m.pc \notin Late /\ m.pc # "using" /\ l.pc \notin Late
    BY <2>1, <2>6 DEF Late
  <2> HIDE DEF l
  <2>11. QED
    BY <2>1, <2>2, <2>6, <2>9, <2>10, LocalStep DEF l
<1>7. CASE Move(c)
  <2> DEFINE m == [l EXCEPT !.pc = "put"]
             s == MovedToEnd(Store(c), KeyOf(c))
  <2>1. l.pc = "move" /\ l.pc \notin Late /\ l.pc \in Storing \cup Searching
    BY <1>7 DEF Move, Late, Storing
  <2>2. StoringOK(l) /\ l.mine \in 1 .. Len(stores) /\ Store(c) = stores[l.mine]
    BY <1>1, <2>1 DEF LocalsOK, MeetsOK, Storing, Store
  <2>3. CASE KeyFails(c)
    BY <2>1, <2>3, FailStep
  <2>4. CASE KeyOf(c) \in Keys(Store(c)) /\ Replaces(c, s, m)
    <3>1. StoreOK(Store(c))
      BY <2>2, StoreFound
    <3>2. StoreOK(s) /\ Len(s) = Len(Store(c)) /\ Len(Store(c)) \in Nat
      BY <2>4, <3>1, MovedKey, StoreType
    <3>3. /\ m \in Locals /\ m.pc = "put" /\ m.mine = l.mine
          /\ m.texts = l.texts /\ m.i = l.i /\ m.missing = l.missing
          /\ m.vecs = l.vecs /\ m.result = l.result
      BY <1>1 DEF Locals, Places, Storing
    <3> HIDE DEF m, s
    <3>4. LocalsOK(m)
      BY <2>1, <2>2, <3>3 DEF LocalsOK, StoringOK, Good, Searching, Storing
    <3>5. MeetsOK(m, [stores EXCEPT ![l.mine] = s])
      <4>1. Len([stores EXCEPT ![l.mine] = s]) = Len(stores)
        BY <2>2, <3>2, ExceptSeq DEF EmbedInv, StoresInv, StoreOK
      <4>2. QED
        BY <2>2, <3>3, <4>1 DEF MeetsOK
    <3>6. m.pc \notin Late /\ m.pc # "using" /\ Len(s) <= Len(Store(c))
      BY <3>2, <3>3 DEF Late
    <3>7. QED
      BY <2>1, <2>4, <3>2, <3>3, <3>4, <3>5, <3>6, ReplaceStep
  <2>5. QED
    BY <1>7, <2>3, <2>4 DEF Move
<1>8. CASE Put(c)
  <2> DEFINE m == [l EXCEPT !.pc = "check"]
             s == Assigned(Store(c), KeyOf(c), Entry(c))
  <2>1. /\ l.pc = "put" /\ l.pc \notin Late /\ l.pc \in Storing \cup Searching
        /\ Replaces(c, s, m)
    BY <1>8 DEF Put, Late, Storing
  <2>2. /\ StoringOK(l) /\ l.mine \in 1 .. Len(stores) /\ Store(c) = stores[l.mine]
        /\ l.i <= Len(l.missing)
    BY <1>1, <2>1 DEF LocalsOK, MeetsOK, Storing, Store, StoringOK
  <2>3. StoreOK(Store(c))
    BY <2>2, StoreFound
  <2>4. /\ StoreOK(s) /\ Len(s) <= Len(Store(c)) + 1 /\ Len(Store(c)) \in Nat
        /\ Prefix[l.texts[l.missing[l.i]]] \in Keys(s)
    <3>1. /\ Entry(c) \in CacheEntries /\ Entry(c).key = KeyOf(c) /\ Prefix[Entry(c).vec] = KeyOf(c)
          /\ KeyOf(c) = Prefix[l.texts[l.missing[l.i]]]
      BY <2>1, <2>2, EntryKept DEF Storing
    <3>2. /\ StoreOK(s) /\ Len(s) <= Len(Store(c)) + 1 /\ Keys(s) = Keys(Store(c)) \cup {KeyOf(c)}
      BY <2>3, <3>1, AssignedKey
    <3>3. QED
      BY <2>3, <3>1, <3>2, StoreType
  <2>5. /\ m \in Locals /\ m.pc = "check" /\ m.mine = l.mine
        /\ m.texts = l.texts /\ m.i = l.i /\ m.missing = l.missing
        /\ m.vecs = l.vecs /\ m.result = l.result
    BY <1>1 DEF Locals, Places, Storing
  <2> HIDE DEF m, s
  <2>6. LocalsOK(m)
    BY <2>1, <2>2, <2>5 DEF LocalsOK, StoringOK, Good, Searching, Storing
  <2>7. MeetsOK(m, [stores EXCEPT ![l.mine] = s])
    <3>1. /\ Len([stores EXCEPT ![l.mine] = s]) = Len(stores)
          /\ [stores EXCEPT ![l.mine] = s][l.mine] = s
      BY <2>2, <2>4, ExceptSeq DEF EmbedInv, StoresInv, StoreOK
    <3>2. QED
      BY <2>2, <2>4, <2>5, <3>1 DEF MeetsOK
  <2>8. m.pc \in Late /\ m.pc # "using"
    BY <2>5 DEF Late
  <2>9. QED
    BY <2>1, <2>4, <2>5, <2>6, <2>7, <2>8, ReplaceStep
<1>9. CASE Check(c)
  <2> DEFINE m == [l EXCEPT !.pc = "evict"]
  <2>1. /\ l.pc = "check" /\ l.pc \in Late /\ UNCHANGED <<stores, embedder, now>>
        /\ call' = [call EXCEPT ![c] = IF Len(Store(c)) > MaxSize THEN m ELSE NextMiss(c)]
    BY <1>9 DEF Check, Late
  <2>2. StoringOK(l) /\ l.mine \in 1 .. Len(stores) /\ Store(c) = stores[l.mine]
    BY <1>1, <2>1 DEF LocalsOK, MeetsOK, Storing, Store
  <2>3. CASE Len(Store(c)) > MaxSize
    <3>1. call' = [call EXCEPT ![c] = m]
      BY <2>1, <2>3
    <3>2. /\ m \in Locals /\ m.pc = "evict" /\ m.mine = l.mine
          /\ m.texts = l.texts /\ m.i = l.i /\ m.missing = l.missing
          /\ m.vecs = l.vecs /\ m.result = l.result /\ m.lost = l.lost
      BY <1>1 DEF Locals, Places, Storing
    <3> HIDE DEF m
    <3>3. LocalsOK(m) /\ MeetsOK(m, stores)
      BY <1>1, <2>1, <2>2, <3>2 DEF LocalsOK, MeetsOK, StoringOK, Good, Searching, Storing
    <3>4. m.pc \in Late /\ m.pc # "using"
      BY <3>2 DEF Late
    <3> HIDE DEF l
    <3>5. QED
      BY <2>1, <3>1, <3>2, <3>3, <3>4, LocalStep DEF l
  <2>4. CASE ~(Len(Store(c)) > MaxSize)
    <3>1. call' = [call EXCEPT ![c] = NextMiss(c)]
      BY <2>1, <2>4
    <3>2. /\ NextMiss(c) \in Locals /\ LocalsOK(NextMiss(c)) /\ NextMiss(c).pc = "set"
          /\ MeetsOK(NextMiss(c), stores)
      BY <2>1, NextMissKept
    <3>3. Len(stores[l.mine]) <= MaxSize
      <4>1. StoreOK(Store(c))
        BY <2>2, StoreFound
      <4>2. Len(Store(c)) \in Nat /\ MaxSize \in Nat
        BY <4>1, StoreType, EmbedAssumption
      <4>3. QED
        BY <2>2, <2>4, <4>2
    <3>4. NextMiss(c).pc \notin Late /\ NextMiss(c).pc # "using"
      BY <3>2 DEF Late
    <3>5. QED
      BY <2>1, <3>1, <3>2, <3>3, <3>4, LocalStep
  <2>5. QED
    BY <2>3, <2>4
<1>10. CASE Evict(c)
  <2>1. l.pc = "evict" /\ l.pc \in Late /\ l.pc \in Storing \cup Searching
    BY <1>10 DEF Evict, Late, Storing
  <2>2. l.mine \in 1 .. Len(stores) /\ Store(c) = stores[l.mine]
    BY <1>1, <2>1 DEF MeetsOK, Store
  <2>3. CASE Store(c) = <<>> /\ KeyFails(c)
    BY <2>3, FailStep
  <2>4. CASE Store(c) # <<>> /\ Replaces(c, Tail(Store(c)), NextMiss(c))
    <3> DEFINE s == Tail(Store(c))
    <3>1. StoreOK(Store(c))
      BY <2>2, StoreFound
    <3>2. StoreOK(s) /\ Len(s) = Len(Store(c)) - 1 /\ Len(Store(c)) \in Nat
      BY <2>4, <3>1, TailOfStore, StoreType
    <3>3. Len([stores EXCEPT ![l.mine] = s]) = Len(stores)
      BY <2>2, <3>2, ExceptSeq DEF EmbedInv, StoresInv, StoreOK
    <3>4. /\ NextMiss(c) \in Locals /\ LocalsOK(NextMiss(c))
          /\ NextMiss(c).pc = "set" /\ NextMiss(c).mine = l.mine
          /\ MeetsOK(NextMiss(c), [stores EXCEPT ![l.mine] = s])
      BY <2>1, <3>3, NextMissKept
    <3>5. NextMiss(c).pc \notin Late /\ NextMiss(c).pc # "using" /\ Len(s) <= Len(Store(c)) - 1
      <4> HIDE DEF s
      <4>1. Len(s) <= Len(Store(c)) - 1
        BY <3>2
      <4>2. QED
        BY <3>4, <4>1 DEF Late
    <3>6. Replaces(c, s, NextMiss(c))
      BY <2>4
    <3> HIDE DEF s
    <3>7. QED
      BY <2>1, <3>2, <3>4, <3>5, <3>6, ReplaceStep
  <2>5. QED
    BY <1>10, <2>3, <2>4 DEF Evict
<1>11. QED
  BY <1>3, <1>4, <1>5, <1>6, <1>7, <1>8, <1>9, <1>10

----------------------------------------------------------------------------
(* Steps of the index *)

\* Where a call stands while it embeds.
Embedding == {"embed", "loading", "using", "embedded"} \cup Searching \cup Storing

\* What a step of the embedder leaves alone.
EmbedFrame(c) ==
    /\ call[c].pc \in Embedding
    /\ \A d \in Calls \ {c} :
          /\ call'[d].pc = call[d].pc /\ call'[d].goal = call[d].goal
          /\ call'[d].texts = call[d].texts /\ call'[d].result = call[d].result
    /\ \/ call'[c] = LocalsAt("failed")
       \/ /\ call'[c].pc \in Embedding
          /\ call'[c].goal = call[c].goal /\ call'[c].texts = call[c].texts

\* A step that replaces a store changes one call's local variables.
LEMMA ReplaceFrame ==
    ASSUME EmbedInv, NEW c \in Calls, NEW s, NEW l, Replaces(c, s, l),
           call[c].pc \in Embedding, l.pc \in Embedding,
           l.goal = call[c].goal, l.texts = call[c].texts
    PROVE  EmbedFrame(c)
<1>1. call'[c] = l
  BY DEF Replaces
<1>2. ASSUME NEW d \in Calls \ {c}
      PROVE  /\ call'[d].pc = call[d].pc /\ call'[d].goal = call[d].goal
             /\ call'[d].texts = call[d].texts /\ call'[d].result = call[d].result
  <2>1. call[d] \in Locals
    BY LocalsType
  <2>2. \/ call'[d] = call[d]
        \/ call'[d] = [call[d] EXCEPT !.lost = @ \cup (Keys(Store(c)) \ Keys(s))]
    BY DEF Replaces
  <2>3. QED
    BY <2>1, <2>2 DEF Locals
<1>3. QED
  BY <1>1, <1>2 DEF EmbedFrame

\* So does a step that leaves the stores alone.
LEMMA LocalFrame ==
    ASSUME EmbedInv, NEW c \in Calls, NEW l, call' = [call EXCEPT ![c] = l],
           call[c].pc \in Embedding,
           \/ l = LocalsAt("failed")
           \/ l.pc \in Embedding /\ l.goal = call[c].goal /\ l.texts = call[c].texts
    PROVE  EmbedFrame(c)
<1>1. call \in [Calls -> Locals]
  BY LocalsType
<1>2. call'[c] = l /\ \A d \in Calls \ {c} : call'[d] = call[d]
  BY <1>1
<1>3. QED
  BY <1>2 DEF EmbedFrame

\* Every step of the embedder is one of the two.
LEMMA EmbedFrames ==
    ASSUME EmbedInv, NEW c \in Calls, EmbedStep(c)
    PROVE  EmbedFrame(c)
<1> DEFINE l == call[c]
<1>1. l \in Locals
  BY LocalsType
<1>2. /\ Miss(c).pc = "find" /\ Miss(c).goal = l.goal /\ Miss(c).texts = l.texts
      /\ Hit(c).pc = "find" /\ Hit(c).goal = l.goal /\ Hit(c).texts = l.texts
      /\ NextMiss(c).pc = "set" /\ NextMiss(c).goal = l.goal /\ NextMiss(c).texts = l.texts
  BY <1>1 DEF Miss, Hit, NextMiss, NextText, Locals
<1>3. \A p \in {"loading", "using", "read", "move", "put", "evict", "check"} :
         LET m == [l EXCEPT !.pc = p] IN m.pc = p /\ m.goal = l.goal /\ m.texts = l.texts
  BY <1>1 DEF Locals
<1>4. ASSUME KeyFails(c), l.pc \in Embedding PROVE EmbedFrame(c)
  BY <1>4, LocalFrame DEF KeyFails, Ends
<1>5. CASE CheckEmbedder(c)
  <2>1. PICK p \in {"loading", "using"} : call' = [call EXCEPT ![c] = [l EXCEPT !.pc = p]]
    BY <1>5 DEF CheckEmbedder, Goes
  <2>2. l.pc \in Embedding /\ p \in Embedding
    BY <1>5 DEF CheckEmbedder, Embedding
  <2>3. QED
    BY <1>3, <2>1, <2>2, LocalFrame
<1>6. CASE PublishEmbedder(c)
  <2>1. call' = [call EXCEPT ![c] = [l EXCEPT !.pc = "using"]]
    BY <1>6 DEF PublishEmbedder, Goes
  <2>2. l.pc \in Embedding /\ "using" \in Embedding
    BY <1>6 DEF PublishEmbedder, Embedding
  <2>3. QED
    BY <1>3, <2>1, <2>2, LocalFrame
<1>7. CASE LoadFails(c)
  BY <1>7, LocalFrame DEF LoadFails, Ends, Embedding
<1>8. CASE UseEmbedder(c)
  <2> DEFINE m == [l EXCEPT !.pc = "find", !.mine = embedder, !.i = 1,
                            !.result = [n \in DOMAIN l.texts |-> NoVector], !.missing = <<>>]
  <2>1. call' = [call EXCEPT ![c] = m] /\ l.pc \in Embedding
    BY <1>8 DEF UseEmbedder, Embedding
  <2>2. m.pc \in Embedding /\ m.goal = l.goal /\ m.texts = l.texts
    BY <1>1 DEF Locals, Embedding, Searching
  <2> HIDE DEF m, l
  <2>3. QED
    BY <2>1, <2>2, LocalFrame DEF l
<1>9. CASE Find(c)
  <2>1. call' = [call EXCEPT ![c] = [l EXCEPT !.pc = "read"]] \/ call' = [call EXCEPT ![c] = Miss(c)]
    BY <1>9 DEF Find
  <2>2. l.pc \in Embedding /\ "read" \in Embedding /\ "find" \in Embedding
    BY <1>9 DEF Find, Embedding, Searching
  <2>3. CASE call' = [call EXCEPT ![c] = [l EXCEPT !.pc = "read"]]
    BY <1>3, <2>2, <2>3, LocalFrame
  <2>4. CASE call' = [call EXCEPT ![c] = Miss(c)]
    BY <1>2, <2>2, <2>4, LocalFrame
  <2>5. QED
    BY <2>1, <2>3, <2>4
<1>10. CASE Read(c)
  <2>1. l.pc \in Embedding
    BY <1>10 DEF Read, Embedding, Searching
  <2>2. CASE Ends(c, "failed")
    BY <2>1, <2>2, LocalFrame DEF Ends
  <2>3. CASE ~Ends(c, "failed")
    <3> DEFINE entry == Store(c)[Place(Store(c), Prefix[Text(c)])]
               m == [l EXCEPT !.read = entry.vec,
                              !.pc = IF Expired(entry) THEN "delete" ELSE "touch"]
    <3>1. call' = [call EXCEPT ![c] = m]
      BY <1>10, <2>3 DEF Read
    <3> HIDE DEF entry
    <3>2. m.pc \in Embedding /\ m.goal = l.goal /\ m.texts = l.texts
      BY <1>1 DEF Locals, Embedding, Searching
    <3> HIDE DEF m, l
    <3>3. QED
      BY <2>1, <3>1, <3>2, LocalFrame DEF l
  <2>4. QED
    BY <2>2, <2>3
<1>11. CASE Delete(c)
  <2>1. l.pc \in Embedding /\ "find" \in Embedding
    BY <1>11 DEF Delete, Embedding, Searching
  <2>2. KeyFails(c) \/ Replaces(c, Without(Store(c), Prefix[Text(c)]), Miss(c))
    BY <1>11 DEF Delete
  <2>3. QED
    BY <1>2, <1>4, <2>1, <2>2, ReplaceFrame
<1>12. CASE Touch(c)
  <2>1. l.pc \in Embedding /\ "find" \in Embedding
    BY <1>12 DEF Touch, Embedding, Searching
  <2>2. KeyFails(c) \/ Replaces(c, MovedToEnd(Store(c), Prefix[Text(c)]), Hit(c))
    BY <1>12 DEF Touch
  <2>3. QED
    BY <1>2, <1>4, <2>1, <2>2, ReplaceFrame
<1>13. CASE EmbedMisses(c)
  <2>1. l.pc \in Embedding
    BY <1>13 DEF EmbedMisses, Embedding, Searching
  <2>2. PICK v : call' = [call EXCEPT ![c] = [l EXCEPT !.pc = "set", !.i = 1, !.vecs = v]]
    BY <1>13 DEF EmbedMisses
  <2> DEFINE m == [l EXCEPT !.pc = "set", !.i = 1, !.vecs = v]
  <2>3. m.pc \in Embedding /\ m.goal = l.goal /\ m.texts = l.texts
    BY <1>1 DEF Locals, Embedding, Storing
  <2>4. call' = [call EXCEPT ![c] = m]
    BY <2>2
  <2> HIDE DEF m, l
  <2>5. QED
    BY <2>1, <2>3, <2>4, LocalFrame DEF l
<1>14. CASE EmbedFails(c)
  BY <1>14, LocalFrame DEF EmbedFails, Ends, Embedding, Searching
<1>15. CASE Embedded(c)
  <2>1. l.pc \in Embedding
    BY <1>15 DEF Embedded, Embedding, Searching, Storing
  <2> DEFINE m == [LocalsAt("embedded") EXCEPT !.texts = l.texts, !.goal = l.goal, !.result = l.result]
  <2>2. call' = [call EXCEPT ![c] = m]
    BY <1>15 DEF Embedded
  <2>3. m.pc \in Embedding /\ m.goal = l.goal /\ m.texts = l.texts
    BY DEF LocalsAt, Embedding
  <2> HIDE DEF m, l
  <2>4. QED
    BY <2>1, <2>2, <2>3, LocalFrame DEF l
<1>16. CASE SetFind(c)
  <2>1. l.pc \in Embedding
    BY <1>16 DEF SetFind, Embedding, Storing
  <2> DEFINE filled == [l.result EXCEPT ![Position(c)] = l.vecs[l.i]]
  <2>2. PICK p \in {"move", "put"} : call' = [call EXCEPT ![c] = [l EXCEPT !.result = filled, !.pc = p]]
    BY <1>1, <1>16 DEF SetFind
  <2> HIDE DEF filled
  <2> DEFINE m == [l EXCEPT !.result = filled, !.pc = p]
  <2>3. m.pc \in Embedding /\ m.goal = l.goal /\ m.texts = l.texts
    BY <1>1 DEF Locals, Embedding, Storing
  <2>4. call' = [call EXCEPT ![c] = m]
    BY <2>2
  <2> HIDE DEF m, l
  <2>5. QED
    BY <2>1, <2>3, <2>4, LocalFrame DEF l
<1>17. CASE Move(c)
  <2>1. l.pc \in Embedding /\ "put" \in Embedding
    BY <1>17 DEF Move, Embedding, Storing
  <2>2. KeyFails(c) \/ Replaces(c, MovedToEnd(Store(c), KeyOf(c)), [l EXCEPT !.pc = "put"])
    BY <1>17 DEF Move
  <2>3. QED
    BY <1>3, <1>4, <2>1, <2>2, ReplaceFrame
<1>18. CASE Put(c)
  <2>1. l.pc \in Embedding /\ "check" \in Embedding
    BY <1>18 DEF Put, Embedding, Storing
  <2>2. Replaces(c, Assigned(Store(c), KeyOf(c), Entry(c)), [l EXCEPT !.pc = "check"])
    BY <1>18 DEF Put
  <2>3. QED
    BY <1>3, <2>1, <2>2, ReplaceFrame
<1>19. CASE Check(c)
  <2>1. l.pc \in Embedding /\ "evict" \in Embedding /\ "set" \in Embedding
    BY <1>19 DEF Check, Embedding, Storing
  <2>2. \/ call' = [call EXCEPT ![c] = [l EXCEPT !.pc = "evict"]]
        \/ call' = [call EXCEPT ![c] = NextMiss(c)]
    BY <1>19 DEF Check
  <2>3. CASE call' = [call EXCEPT ![c] = [l EXCEPT !.pc = "evict"]]
    BY <1>3, <2>1, <2>3, LocalFrame
  <2>4. CASE call' = [call EXCEPT ![c] = NextMiss(c)]
    BY <1>2, <2>1, <2>4, LocalFrame
  <2>5. QED
    BY <2>2, <2>3, <2>4
<1>20. CASE Evict(c)
  <2>1. l.pc \in Embedding /\ "set" \in Embedding
    BY <1>20 DEF Evict, Embedding, Storing
  <2>2. KeyFails(c) \/ Replaces(c, Tail(Store(c)), NextMiss(c))
    BY <1>20 DEF Evict
  <2>3. QED
    BY <1>2, <1>4, <2>1, <2>2, ReplaceFrame
<1>21. QED
  BY <1>5, <1>6, <1>7, <1>8, <1>9, <1>10, <1>11, <1>12, <1>13, <1>14, <1>15, <1>16, <1>17,
     <1>18, <1>19, <1>20 DEF EmbedStep

\* A call that holds a result: a vector for each of its texts.
LEMMA ResultFits ==
    ASSUME EmbedInv, NEW c \in Calls, call[c].pc = "embedded"
    PROVE  call[c].result \in Seq(Texts) /\ Fits(call[c].result, call[c].texts)
<1> DEFINE l == call[c]
<1>1. l \in Locals /\ Len(l.result) = Len(l.texts) /\ \A n \in 1 .. Len(l.texts) : Good(l, n)
  BY LocalsType DEF LocalsOK
<1>2. /\ l.texts \in Seq(Texts) /\ l.result \in Seq(Vectors) /\ Len(l.texts) \in Nat
      /\ DOMAIN l.texts = 1 .. Len(l.texts)
      /\ l.result = [n \in 1 .. Len(l.texts) |-> l.result[n]]
  BY <1>1, LenProperties DEF Locals
<1>3. l.result \in Seq(Texts)
  <2> DEFINE r == [n \in 1 .. Len(l.texts) |-> l.result[n]]
  <2>1. r \in Seq(Texts)
    BY <1>1, <1>2, IsASeq DEF Good
  <2>2. QED
    BY <1>2, <2>1
<1>4. QED
  BY <1>1, <1>2, <1>3, IndexAssumption DEF Fits, Good

\* Vectors and texts that fit, one after the other.
LEMMA FitsJoined ==
    ASSUME NEW v \in Seq(Texts), NEW t \in Seq(Texts), Fits(v, t),
           NEW w \in Seq(Texts), NEW u \in Seq(Texts), Fits(w, u)
    PROVE  Fits(v \o w, t \o u)
<1>1. Len(v) \in Nat /\ Len(w) \in Nat /\ Len(v) = Len(t) /\ Len(w) = Len(u)
  BY LenProperties DEF Fits
<1>2. /\ v \o w \in Seq(Texts) /\ Len(v \o w) = Len(v) + Len(w)
      /\ \A i \in 1 .. Len(v) + Len(w) : (v \o w)[i] = IF i <= Len(v) THEN v[i] ELSE w[i - Len(v)]
  BY ConcatProperties
<1>3. /\ t \o u \in Seq(Texts) /\ Len(t \o u) = Len(t) + Len(u)
      /\ \A i \in 1 .. Len(t) + Len(u) : (t \o u)[i] = IF i <= Len(t) THEN t[i] ELSE u[i - Len(t)]
  BY ConcatProperties
<1> DEFINE a == v \o w
           b == t \o u
<1> HIDE DEF a, b
<1>4. \A i \in 1 .. Len(v) + Len(w) : Prefix[a[i]] = Prefix[b[i]]
  <2> TAKE i \in 1 .. Len(v) + Len(w)
  <2>1. CASE i <= Len(v)
    <3>1. a[i] = v[i] /\ b[i] = t[i] /\ i \in DOMAIN t
      BY <1>1, <1>2, <1>3, <2>1, LenProperties DEF a, b
    <3>2. QED
      BY <3>1 DEF Fits
  <2>2. CASE ~(i <= Len(v))
    <3>1. a[i] = w[i - Len(v)] /\ b[i] = u[i - Len(v)] /\ i - Len(v) \in DOMAIN u
      BY <1>1, <1>2, <1>3, <2>2, LenProperties DEF a, b
    <3>2. QED
      BY <3>1 DEF Fits
  <2>3. QED
    BY <2>1, <2>2
<1>5. DOMAIN b = 1 .. Len(v) + Len(w)
  BY <1>1, <1>3, LenProperties DEF b
<1>6. QED
  BY <1>1, <1>2, <1>3, <1>4, <1>5, IndexAssumption DEF Fits, a, b

\* The places of a call outside the cache.
Outside == Places \ (Searching \cup Storing \cup {"using", "embedded"})

\* A step outside the cache.
LEMMA OutsideStep ==
    ASSUME EmbedInv, NEW c \in Calls, NEW l \in Locals,
           call' = [call EXCEPT ![c] = l], UNCHANGED cache,
           call[c].pc \notin Late, l.pc \in Outside, l.pc = "opening" => l.result \in Seq(Texts)
    PROVE  EmbedInv'
<1>1. LocalsOK(l) /\ MeetsOK(l, stores)
  BY DEF LocalsOK, MeetsOK, Outside, Searching, Storing
<1>2. l.pc \notin Late /\ l.pc # "using" /\ UNCHANGED <<stores, embedder, now>>
  BY DEF Outside, Late, Storing, cache
<1>3. QED
  BY <1>1, <1>2, LocalStep

\* A step of c that keeps what the other calls rely on.
KeepsIndex(c) ==
    /\ job' = job
    /\ entries' \in Seq(Texts)
    /\ index' \in Seq(Texts) \/ index' = index
    /\ idxFile' \in Seq(Texts) \cup {Torn} \/ idxFile' = idxFile
    /\ metaFile' \in Seq(Texts) \cup {Torn} \/ metaFile' = metaFile
    /\ \A d \in Calls \ {c} : call'[d].pc = call[d].pc /\ call'[d].goal = call[d].goal

\* What a step must show of its own call.
LEMMA IndexStep ==
    ASSUME IndexInv, NEW c \in Calls, KeepsIndex(c),
           call'[c].goal = "add" \/ call'[c].pc = "built" => index' # Missing,
           call'[c].pc = "adding" => call'[c].goal = "add",
           call'[c].pc \in {"new", "built", "reading", "saved"} => call'[c].goal = "none",
           call'[c].pc \in {"reading", "unpickling"} => idxFile # Missing /\ metaFile # Missing
    PROVE  IndexInv'
<1>1. /\ job' \in [Calls -> [kind : Kinds, texts : Seq(Texts)]]
      /\ entries' \in Seq(Texts) /\ index' \in Seq(Texts) \cup {Missing}
      /\ idxFile' \in Seq(Texts) \cup {Missing, Torn}
      /\ metaFile' \in Seq(Texts) \cup {Missing, Torn}
      /\ index # Missing => index' # Missing
      /\ idxFile # Missing => idxFile' # Missing
      /\ metaFile # Missing => metaFile' # Missing
  BY IndexAssumption DEF IndexInv, KeepsIndex
<1>2. ASSUME NEW d \in Calls
      PROVE  /\ call'[d].goal = "add" \/ call'[d].pc = "built" => index' # Missing
             /\ call'[d].pc = "adding" => call'[d].goal = "add"
             /\ call'[d].pc \in {"new", "built", "reading", "saved"} => call'[d].goal = "none"
             /\ call'[d].pc \in {"reading", "unpickling"} => idxFile' # Missing /\ metaFile' # Missing
  <2>1. CASE d = c
    BY <1>1, <2>1
  <2>2. CASE d # c
    <3>1. call'[d].pc = call[d].pc /\ call'[d].goal = call[d].goal
      BY <2>2 DEF KeepsIndex
    <3>2. /\ call[d].goal = "add" \/ call[d].pc = "built" => index # Missing
          /\ call[d].pc = "adding" => call[d].goal = "add"
          /\ call[d].pc \in {"new", "built", "reading", "saved"} => call[d].goal = "none"
          /\ call[d].pc \in {"reading", "unpickling"} => idxFile # Missing /\ metaFile # Missing
      BY DEF IndexInv
    <3>3. QED
      BY <1>1, <3>1, <3>2
  <2>3. QED
    BY <2>1, <2>2
<1>3. QED
  BY <1>1, <1>2 DEF IndexInv

\* A step that writes the retriever or a file leaves only its own call alone.
LEMMA WriteStep ==
    ASSUME NEW c \in Calls, alone' \subseteq {c}, c \in alone' => UndisturbedSoFar(c)'
    PROVE  AloneInv'
BY DEF AloneInv

\* A step that does not write keeps the history of all calls.
LEMMA QuietStep ==
    ASSUME AloneInv, NEW c \in Calls, UNCHANGED <<retriever, files, alone>>,
           \A d \in Calls \ {c} :
              /\ call'[d].pc = call[d].pc /\ call'[d].goal = call[d].goal
              /\ call'[d].texts = call[d].texts /\ call'[d].result = call[d].result,
           c \in alone => UndisturbedSoFar(c)'
    PROVE  AloneInv'
<1>1. UNCHANGED <<entries, index, idxFile, metaFile, alone>>
  BY DEF retriever, files
<1>2. ASSUME NEW d \in alone PROVE UndisturbedSoFar(d)'
  <2>1. CASE d = c
    BY <2>1
  <2>2. CASE d # c
    <3>1. d \in Calls \ {c} /\ UndisturbedSoFar(d)
      BY <2>2 DEF AloneInv
    <3>2. QED
      BY <1>1, <3>1 DEF UndisturbedSoFar
  <2>3. QED
    BY <2>1, <2>2
<1>3. QED
  BY <1>1, <1>2 DEF AloneInv

\* The calls begin.
LEMMA BeginSteps ==
    ASSUME IInv, NEW c \in Calls,
           BuildIndex(c) \/ AddToIndex(c) \/ WarmCache(c) \/ FindFiles(c)
    PROVE  IInv'
<1> DEFINE l == call[c]
<1>1. EmbedInv /\ IndexInv /\ AloneInv
  BY DEF IInv
<1>2. /\ call \in [Calls -> Locals] /\ l \in Locals
      /\ job[c].texts \in Seq(Texts) /\ entries \in Seq(Texts)
  BY <1>1, LocalsType DEF IndexInv
<1>3. CASE BuildIndex(c)
  <2> DEFINE m == [l EXCEPT !.pc = "embed", !.goal = "build", !.texts = job[c].texts]
  <2>1. /\ call' = [call EXCEPT ![c] = m] /\ l.pc \in {"new", "building"}
        /\ entries' = job[c].texts /\ alone' = {c}
        /\ UNCHANGED cache /\ job' = job /\ index' = index /\ idxFile' = idxFile /\ metaFile' = metaFile
    BY <1>3 DEF BuildIndex, StartsOn, files
  <2>2. m \in Locals /\ m.pc = "embed" /\ m.goal = "build" /\ m.texts = job[c].texts
    BY <1>2 DEF Locals, Places
  <2> HIDE DEF m
  <2>3. call'[c] = m /\ \A d \in Calls \ {c} : call'[d] = call[d]
    BY <1>2, <2>1
  <2>4. EmbedInv'
    <3>1. m.pc \in Outside /\ m.pc # "opening" /\ l.pc \notin Late
      BY <2>1, <2>2 DEF Outside, Places, Searching, Storing, Late
    <3>2. QED
      BY <1>1, <2>1, <2>2, <3>1, OutsideStep
  <2>5. KeepsIndex(c)
    BY <1>2, <2>1, <2>3 DEF KeepsIndex
  <2>6. IndexInv'
    BY <1>1, <2>2, <2>3, <2>5, IndexStep
  <2>7. UndisturbedSoFar(c)'
    BY <2>1, <2>2, <2>3 DEF UndisturbedSoFar
  <2>8. AloneInv'
    BY <2>1, <2>7, WriteStep
  <2>9. QED
    BY <2>4, <2>6, <2>8 DEF IInv
<1>4. CASE AddToIndex(c) \/ WarmCache(c)
  <2>1. PICK g \in {"add", "warm"} :
           /\ call' = [call EXCEPT ![c].pc = "embed", ![c].goal = g, ![c].texts = job[c].texts]
           /\ g = "add" => index # Missing
    BY <1>4 DEF AddToIndex, WarmCache
  <2> DEFINE m == [l EXCEPT !.pc = "embed", !.goal = g, !.texts = job[c].texts]
  <2>2. /\ call' = [call EXCEPT ![c] = m] /\ l.pc = "new"
        /\ UNCHANGED <<cache, job, retriever, files, alone>>
    BY <1>4, <2>1 DEF AddToIndex, WarmCache
  <2>3. m \in Locals /\ m.pc = "embed" /\ m.goal = g
    BY <1>2 DEF Locals, Places
  <2> HIDE DEF m
  <2>4. call'[c] = m /\ \A d \in Calls \ {c} : call'[d] = call[d]
    BY <1>2, <2>2
  <2>5. EmbedInv'
    <3>1. m.pc \in Outside /\ m.pc # "opening" /\ l.pc \notin Late
      BY <2>2, <2>3 DEF Outside, Places, Searching, Storing, Late
    <3>2. QED
      BY <1>1, <2>2, <2>3, <3>1, OutsideStep
  <2>6. KeepsIndex(c)
    BY <1>2, <2>2, <2>4 DEF KeepsIndex, retriever, files
  <2>7. IndexInv'
    BY <1>1, <2>1, <2>2, <2>3, <2>4, <2>6, IndexStep DEF retriever
  <2>8. UndisturbedSoFar(c)'
    BY <2>3, <2>4 DEF UndisturbedSoFar
  <2>9. AloneInv'
    BY <1>1, <2>2, <2>4, <2>8, QuietStep
  <2>10. QED
    BY <2>5, <2>7, <2>9 DEF IInv
<1>5. CASE FindFiles(c)
  <2>1. PICK p \in {"building", "reading"} :
           /\ call' = [call EXCEPT ![c].pc = p]
           /\ p = "reading" => idxFile # Missing /\ metaFile # Missing
    BY <1>5 DEF FindFiles, Goes
  <2> DEFINE m == [l EXCEPT !.pc = p]
  <2>2. /\ call' = [call EXCEPT ![c] = m] /\ l.pc = "new"
        /\ UNCHANGED <<cache, job, retriever, files, alone>>
    BY <1>5, <2>1 DEF FindFiles
  <2>3. m \in Locals /\ m.pc = p /\ m.goal = l.goal /\ l.goal = "none"
    BY <1>1, <1>2, <2>2 DEF Locals, Places, IndexInv
  <2> HIDE DEF m
  <2>4. call'[c] = m /\ \A d \in Calls \ {c} : call'[d] = call[d]
    BY <1>2, <2>2
  <2>5. EmbedInv'
    <3>1. m.pc \in Outside /\ m.pc # "opening" /\ l.pc \notin Late
      BY <2>2, <2>3 DEF Outside, Places, Searching, Storing, Late
    <3>2. QED
      BY <1>1, <2>2, <2>3, <3>1, OutsideStep
  <2>6. KeepsIndex(c)
    BY <1>2, <2>2, <2>4 DEF KeepsIndex, retriever, files
  <2>7. IndexInv'
    BY <1>1, <2>1, <2>3, <2>4, <2>6, IndexStep
  <2>8. UndisturbedSoFar(c)'
    BY <2>3, <2>4 DEF UndisturbedSoFar
  <2>9. AloneInv'
    BY <1>1, <2>2, <2>4, <2>8, QuietStep
  <2>10. QED
    BY <2>5, <2>7, <2>9 DEF IInv
<1>6. QED
  BY <1>3, <1>4, <1>5

\* The calls go on.
LEMMA EmbedKeeps ==
    ASSUME IInv, NEW c \in Calls, Embed(c)
    PROVE  IInv'
<1>1. EmbedInv /\ IndexInv /\ AloneInv
  BY DEF IInv
<1>2. /\ EmbedStep(c) /\ job' = job /\ entries' = entries /\ index' = index /\ alone' = alone
      /\ idxFile' = idxFile /\ metaFile' = metaFile
      /\ UNCHANGED <<retriever, files, alone>>
  BY DEF Embed, retriever, files
<1>3. EmbedFrame(c)
  BY <1>1, <1>2, EmbedFrames
<1>4. EmbedInv'
  BY <1>1, <1>2, SearchSteps, StoringSteps DEF EmbedStep
<1>5. KeepsIndex(c)
  BY <1>1, <1>2, <1>3 DEF KeepsIndex, EmbedFrame, IndexInv
<1>6. \/ call'[c].pc = "failed" /\ call'[c].goal = "none"
      \/ /\ call'[c].goal = call[c].goal /\ call'[c].texts = call[c].texts
         /\ call'[c].pc \notin {"new", "built", "reading", "saved", "adding", "unpickling", "opening",
                                "writing", "pickling", "added", "loaded"}
  BY <1>3 DEF EmbedFrame, Embedding, Searching, Storing, LocalsAt
<1>7. IndexInv'
  <2>1. call'[c].goal = "add" => index # Missing
    BY <1>1, <1>6 DEF IndexInv
  <2>2. QED
    BY <1>1, <1>2, <1>5, <1>6, <2>1, IndexStep
<1>8. c \in alone => UndisturbedSoFar(c)'
  <2> HAVE c \in alone
  <2>1. call[c].goal = "build" => entries = call[c].texts
    BY <1>1 DEF AloneInv, UndisturbedSoFar
  <2>2. QED
    BY <1>2, <1>6, <2>1 DEF UndisturbedSoFar
<1>9. AloneInv'
  <2>1. \A d \in Calls \ {c} :
           /\ call'[d].pc = call[d].pc /\ call'[d].goal = call[d].goal
           /\ call'[d].texts = call[d].texts /\ call'[d].result = call[d].result
    BY <1>3 DEF EmbedFrame
  <2>2. QED
    BY <1>1, <1>2, <1>8, <2>1, QuietStep
<1>10. QED
  BY <1>4, <1>7, <1>9 DEF IInv

\* A call that ends, or goes on with nothing of what it did, outside the cache.
LEMMA EndOutside ==
    ASSUME EmbedInv, NEW c \in Calls, call[c].pc \notin Late, UNCHANGED cache,
           NEW p \in Ended \cup {"writing"}, Ends(c, p)
    PROVE  /\ EmbedInv'
           /\ call'[c].pc = p /\ call'[c].goal = "none"
           /\ \A d \in Calls \ {c} : call'[d] = call[d]
<1>1. p \in Places \ (Searching \cup Storing \cup {"using", "embedded", "opening"})
  BY DEF Ended, Places, Searching, Storing
<1>2. EmbedInv'
  BY <1>1, EndStep DEF cache
<1>3. LocalsAt(p).pc = p /\ LocalsAt(p).goal = "none"
  BY <1>1, FreshLocals
<1>4. call \in [Calls -> Locals] /\ call' = [call EXCEPT ![c] = LocalsAt(p)]
  BY LocalsType DEF Ends
<1>5. QED
  BY <1>2, <1>3, <1>4

\* The steps that write the index and the entries.
LEMMA RetrieverSteps ==
    ASSUME IInv, NEW c \in Calls,
           PublishIndex(c) \/ AddVectors(c) \/ ExtendEntries(c) \/ Warmed(c)
    PROVE  IInv'
<1> DEFINE l == call[c]
<1>1. EmbedInv /\ IndexInv /\ AloneInv
  BY DEF IInv
<1>2. /\ call \in [Calls -> Locals] /\ l \in Locals /\ l.texts \in Seq(Texts)
      /\ entries \in Seq(Texts) /\ index \in Seq(Texts) \cup {Missing}
  BY <1>1, LocalsType DEF IndexInv, Locals
<1>3. CASE PublishIndex(c)
  <2>1. /\ l.pc = "embedded" /\ l.goal = "build" /\ Ends(c, "built") /\ UNCHANGED cache
        /\ index' = l.result /\ alone' = alone \cap {c} /\ job' = job /\ entries' = entries
        /\ idxFile' = idxFile /\ metaFile' = metaFile /\ l.pc \notin Late
    BY <1>3 DEF PublishIndex, Writes, files, Late
  <2>2. /\ EmbedInv' /\ call'[c].pc = "built" /\ call'[c].goal = "none"
        /\ \A d \in Calls \ {c} : call'[d] = call[d]
    BY <1>1, <2>1, EndOutside DEF Ended
  <2>3. l.result \in Seq(Texts) /\ Fits(l.result, l.texts)
    BY <1>1, <2>1, ResultFits
  <2>4. KeepsIndex(c)
    BY <1>2, <2>1, <2>2, <2>3 DEF KeepsIndex
  <2>5. IndexInv'
    BY <1>1, <2>1, <2>2, <2>3, <2>4, IndexStep, IndexAssumption
  <2>6. c \in alone' => UndisturbedSoFar(c)'
    <3> HAVE c \in alone'
    <3>1. entries = l.texts
      BY <1>1, <2>1 DEF AloneInv, UndisturbedSoFar
    <3>2. QED
      BY <2>1, <2>2, <2>3, <3>1 DEF UndisturbedSoFar
  <2>7. AloneInv'
    BY <2>1, <2>6, WriteStep
  <2>8. QED
    BY <2>2, <2>5, <2>7 DEF IInv
<1>4. CASE AddVectors(c)
  <2> DEFINE m == [l EXCEPT !.pc = "adding"]
  <2>1. /\ l.pc = "embedded" /\ l.goal = "add" /\ call' = [call EXCEPT ![c] = m] /\ UNCHANGED cache
        /\ index' = index \o l.result /\ job' = job /\ entries' = entries
        /\ alone' = (IF Fits(index, entries) THEN {c} ELSE {})
        /\ idxFile' = idxFile /\ metaFile' = metaFile /\ l.pc \notin Late
    BY <1>4 DEF AddVectors, StartsOn, Goes, files, Late
  <2>2. m \in Locals /\ m.pc = "adding" /\ m.goal = "add" /\ m.texts = l.texts
    BY <1>2, <2>1 DEF Locals, Places
  <2> HIDE DEF m
  <2>3. call'[c] = m /\ \A d \in Calls \ {c} : call'[d] = call[d]
    BY <1>2, <2>1
  <2>4. EmbedInv'
    <3>1. m.pc \in Outside /\ m.pc # "opening"
      BY <2>2 DEF Outside, Places, Searching, Storing
    <3>2. QED
      BY <1>1, <2>1, <2>2, <3>1, OutsideStep
  <2>5. l.result \in Seq(Texts) /\ Fits(l.result, l.texts)
    BY <1>1, <2>1, ResultFits
  <2>6. index \in Seq(Texts)
    BY <1>1, <1>2, <2>1 DEF IndexInv
  <2>7. index' \in Seq(Texts)
    BY <2>1, <2>5, <2>6, ConcatProperties
  <2>8. KeepsIndex(c)
    BY <1>2, <2>1, <2>3, <2>7 DEF KeepsIndex
  <2>9. IndexInv'
    BY <1>1, <2>2, <2>3, <2>7, <2>8, IndexStep, IndexAssumption
  <2>10. c \in alone' => UndisturbedSoFar(c)'
    <3> HAVE c \in alone'
    <3>1. Fits(index, entries)
      BY <2>1
    <3>2. Fits(index', entries' \o l.texts)
      BY <1>2, <2>1, <2>5, <2>6, <3>1, FitsJoined
    <3>3. QED
      BY <2>2, <2>3, <3>2 DEF UndisturbedSoFar
  <2>11. AloneInv'
    BY <2>1, <2>10, WriteStep
  <2>12. QED
    BY <2>4, <2>9, <2>11 DEF IInv
<1>5. CASE ExtendEntries(c)
  <2>1. /\ l.pc = "adding" /\ Ends(c, "added") /\ UNCHANGED cache
        /\ entries' = entries \o l.texts /\ alone' = alone \cap {c} /\ job' = job /\ index' = index
        /\ idxFile' = idxFile /\ metaFile' = metaFile /\ l.pc \notin Late
    BY <1>5 DEF ExtendEntries, Writes, files, Late
  <2>2. /\ EmbedInv' /\ call'[c].pc = "added" /\ call'[c].goal = "none"
        /\ \A d \in Calls \ {c} : call'[d] = call[d]
    BY <1>1, <2>1, EndOutside DEF Ended
  <2>3. entries' \in Seq(Texts)
    BY <1>2, <2>1, ConcatProperties
  <2>4. KeepsIndex(c)
    BY <2>1, <2>2, <2>3 DEF KeepsIndex
  <2>5. IndexInv'
    BY <1>1, <2>2, <2>4, IndexStep
  <2>6. c \in alone' => UndisturbedSoFar(c)'
    <3> HAVE c \in alone'
    <3>1. Fits(index, entries \o l.texts)
      BY <1>1, <2>1 DEF AloneInv, UndisturbedSoFar
    <3>2. QED
      BY <2>1, <2>2, <3>1 DEF UndisturbedSoFar
  <2>7. AloneInv'
    BY <2>1, <2>6, WriteStep
  <2>8. QED
    BY <2>2, <2>5, <2>7 DEF IInv
<1>6. CASE Warmed(c)
  <2>1. /\ Ends(c, "warmed") /\ UNCHANGED <<cache, job, retriever, files, alone>>
        /\ l.pc \notin Late
    BY <1>6 DEF Warmed, Late
  <2>2. /\ EmbedInv' /\ call'[c].pc = "warmed" /\ call'[c].goal = "none"
        /\ \A d \in Calls \ {c} : call'[d] = call[d]
    BY <1>1, <2>1, EndOutside DEF Ended
  <2>3. KeepsIndex(c)
    BY <1>2, <2>1, <2>2 DEF KeepsIndex, retriever, files
  <2>4. IndexInv'
    BY <1>1, <2>2, <2>3, IndexStep
  <2>5. UndisturbedSoFar(c)'
    BY <2>2 DEF UndisturbedSoFar
  <2>6. AloneInv'
    BY <1>1, <2>1, <2>2, <2>5, QuietStep
  <2>7. QED
    BY <2>2, <2>4, <2>6 DEF IInv
<1>7. QED
  BY <1>3, <1>4, <1>5, <1>6

\* save_index: the two files are opened and written.
LEMMA SaveSteps ==
    ASSUME IInv, NEW c \in Calls,
           OpenIndexFile(c) \/ WriteIndexFile(c) \/ OpenMetaFile(c) \/ WriteMetaFile(c)
    PROVE  IInv'
<1> DEFINE l == call[c]
<1>1. EmbedInv /\ IndexInv /\ AloneInv
  BY DEF IInv
<1>2. /\ call \in [Calls -> Locals] /\ l \in Locals
      /\ entries \in Seq(Texts) /\ index \in Seq(Texts) \cup {Missing}
  BY <1>1, LocalsType DEF IndexInv
<1>3. CASE OpenIndexFile(c)
  <2> DEFINE m == [l EXCEPT !.pc = "opening", !.result = index]
  <2>1. /\ l.pc = "built" /\ call' = [call EXCEPT ![c] = m] /\ UNCHANGED cache
        /\ idxFile' = Torn /\ alone' = (IF Fits(index, entries) THEN {c} ELSE {})
        /\ job' = job /\ entries' = entries /\ index' = index /\ metaFile' = metaFile
        /\ l.pc \notin Late
    BY <1>3 DEF OpenIndexFile, StartsOn, retriever, Late
  <2>2. index \in Seq(Texts) /\ l.goal = "none"
    BY <1>1, <1>2, <2>1 DEF IndexInv
  <2>3. m \in Locals /\ m.pc = "opening" /\ m.goal = "none" /\ m.result = index
    <3>1. index \in Seq(Vectors)
      BY <2>2, SeqMonotonic DEF Vectors
    <3>2. QED
      BY <1>2, <2>2, <3>1 DEF Locals, Places
  <2> HIDE DEF m
  <2>4. call'[c] = m /\ \A d \in Calls \ {c} : call'[d] = call[d]
    BY <1>2, <2>1
  <2>5. EmbedInv'
    <3>1. m.pc \in Outside
      BY <2>3 DEF Outside, Places, Searching, Storing
    <3>2. QED
      BY <1>1, <2>1, <2>2, <2>3, <3>1, OutsideStep
  <2>6. KeepsIndex(c)
    BY <1>2, <2>1, <2>4 DEF KeepsIndex
  <2>7. IndexInv'
    BY <1>1, <2>3, <2>4, <2>6, IndexStep
  <2>8. c \in alone' => UndisturbedSoFar(c)'
    BY <2>1, <2>3, <2>4 DEF UndisturbedSoFar
  <2>9. AloneInv'
    BY <2>1, <2>8, WriteStep
  <2>10. QED
    BY <2>5, <2>7, <2>9 DEF IInv
<1>4. CASE WriteIndexFile(c)
  <2>1. /\ l.pc = "opening" /\ Ends(c, "writing") /\ UNCHANGED cache
        /\ idxFile' = l.result /\ alone' = alone \cap {c}
        /\ job' = job /\ entries' = entries /\ index' = index /\ metaFile' = metaFile
        /\ l.pc \notin Late
    BY <1>4 DEF WriteIndexFile, Writes, retriever, Late
  <2>2. /\ EmbedInv' /\ call'[c].pc = "writing" /\ call'[c].goal = "none"
        /\ \A d \in Calls \ {c} : call'[d] = call[d]
    BY <1>1, <2>1, EndOutside
  <2>3. l.result \in Seq(Texts)
    BY <1>1, <2>1, LocalsType DEF LocalsOK
  <2>4. KeepsIndex(c)
    BY <1>2, <2>1, <2>2, <2>3 DEF KeepsIndex
  <2>5. IndexInv'
    BY <1>1, <2>2, <2>4, IndexStep
  <2>6. c \in alone' => UndisturbedSoFar(c)'
    <3> HAVE c \in alone'
    <3>1. Fits(l.result, entries)
      BY <1>1, <2>1 DEF AloneInv, UndisturbedSoFar
    <3>2. QED
      BY <2>1, <2>2, <3>1 DEF UndisturbedSoFar
  <2>7. AloneInv'
    BY <2>1, <2>6, WriteStep
  <2>8. QED
    BY <2>2, <2>5, <2>7 DEF IInv
<1>5. CASE OpenMetaFile(c)
  <2> DEFINE m == [l EXCEPT !.pc = "pickling"]
  <2>1. /\ l.pc = "writing" /\ call' = [call EXCEPT ![c] = m] /\ UNCHANGED cache
        /\ metaFile' = Torn /\ alone' = alone \cap {c}
        /\ job' = job /\ entries' = entries /\ index' = index /\ idxFile' = idxFile
        /\ l.pc \notin Late
    BY <1>5 DEF OpenMetaFile, Writes, Goes, retriever, Late
  <2>2. m \in Locals /\ m.pc = "pickling" /\ m.goal = l.goal /\ m.texts = l.texts
    BY <1>2 DEF Locals, Places
  <2> HIDE DEF m
  <2>3. call'[c] = m /\ \A d \in Calls \ {c} : call'[d] = call[d]
    BY <1>2, <2>1
  <2>4. EmbedInv'
    <3>1. m.pc \in Outside /\ m.pc # "opening"
      BY <2>2 DEF Outside, Places, Searching, Storing
    <3>2. QED
      BY <1>1, <2>1, <2>2, <3>1, OutsideStep
  <2>5. KeepsIndex(c)
    BY <1>2, <2>1, <2>3 DEF KeepsIndex
  <2>6. IndexInv'
    <3>1. m.goal = "add" => index' # Missing
      BY <1>1, <2>1, <2>2 DEF IndexInv
    <3>2. QED
      BY <1>1, <2>2, <2>3, <2>5, <3>1, IndexStep
  <2>7. c \in alone' => UndisturbedSoFar(c)'
    <3> HAVE c \in alone'
    <3>1. /\ l.goal = "build" => entries = l.texts
          /\ Fits(idxFile, entries)
      BY <1>1, <2>1 DEF AloneInv, UndisturbedSoFar
    <3>2. QED
      BY <2>1, <2>2, <2>3, <3>1 DEF UndisturbedSoFar
  <2>8. AloneInv'
    BY <2>1, <2>7, WriteStep
  <2>9. QED
    BY <2>4, <2>6, <2>8 DEF IInv
<1>6. CASE WriteMetaFile(c)
  <2>1. /\ l.pc = "pickling" /\ Ends(c, "saved") /\ UNCHANGED cache
        /\ metaFile' = entries /\ alone' = alone \cap {c}
        /\ job' = job /\ entries' = entries /\ index' = index /\ idxFile' = idxFile
        /\ l.pc \notin Late
    BY <1>6 DEF WriteMetaFile, Writes, retriever, Late
  <2>2. /\ EmbedInv' /\ call'[c].pc = "saved" /\ call'[c].goal = "none"
        /\ \A d \in Calls \ {c} : call'[d] = call[d]
    BY <1>1, <2>1, EndOutside DEF Ended
  <2>3. KeepsIndex(c)
    BY <1>2, <2>1, <2>2 DEF KeepsIndex
  <2>4. IndexInv'
    BY <1>1, <2>2, <2>3, IndexStep
  <2>5. c \in alone' => UndisturbedSoFar(c)'
    <3> HAVE c \in alone'
    <3>1. Fits(idxFile, entries)
      BY <1>1, <2>1 DEF AloneInv, UndisturbedSoFar
    <3>2. QED
      BY <2>1, <2>2, <3>1 DEF UndisturbedSoFar
  <2>6. AloneInv'
    BY <2>1, <2>5, WriteStep
  <2>7. QED
    BY <2>2, <2>4, <2>6 DEF IInv
<1>7. QED
  BY <1>3, <1>4, <1>5, <1>6

\* load_index: the two files are read.
LEMMA RestoreSteps ==
    ASSUME IInv, NEW c \in Calls, ReadIndexFile(c) \/ ReadMetaFile(c)
    PROVE  IInv'
<1> DEFINE l == call[c]
<1>1. EmbedInv /\ IndexInv /\ AloneInv
  BY DEF IInv
<1>2. /\ call \in [Calls -> Locals] /\ l \in Locals
      /\ entries \in Seq(Texts)
      /\ idxFile \in Seq(Texts) \cup {Missing, Torn}
      /\ metaFile \in Seq(Texts) \cup {Missing, Torn}
  BY <1>1, LocalsType DEF IndexInv
<1>3. ASSUME l.pc \in {"reading", "unpickling"}, Ends(c, "failed"),
             UNCHANGED <<cache, job, retriever, files, alone>>
      PROVE  IInv'
  <2>1. l.pc \notin Late
    BY <1>3 DEF Late
  <2>2. /\ EmbedInv' /\ call'[c].pc = "failed" /\ call'[c].goal = "none"
        /\ \A d \in Calls \ {c} : call'[d] = call[d]
    BY <1>1, <1>3, <2>1, EndOutside DEF Ended
  <2>3. KeepsIndex(c)
    BY <1>2, <1>3, <2>2 DEF KeepsIndex, retriever, files
  <2>4. IndexInv'
    BY <1>1, <2>2, <2>3, IndexStep
  <2>5. UndisturbedSoFar(c)'
    BY <2>2 DEF UndisturbedSoFar
  <2>6. AloneInv'
    BY <1>1, <1>3, <2>2, <2>5, QuietStep
  <2>7. QED
    BY <2>2, <2>4, <2>6 DEF IInv
<1>4. CASE ReadIndexFile(c)
  <2>1. CASE idxFile = Torn
    BY <1>3, <1>4, <2>1 DEF ReadIndexFile, retriever
  <2>2. CASE idxFile # Torn
    <3> DEFINE m == [l EXCEPT !.pc = "unpickling"]
    <3>1. /\ l.pc = "reading" /\ call' = [call EXCEPT ![c] = m] /\ UNCHANGED cache
          /\ index' = idxFile /\ alone' = (IF Fits(idxFile, metaFile) THEN {c} ELSE {})
          /\ job' = job /\ entries' = entries /\ idxFile' = idxFile /\ metaFile' = metaFile
          /\ l.pc \notin Late
      BY <1>4, <2>2 DEF ReadIndexFile, StartsOn, Goes, files, Late
    <3>2. l.goal = "none" /\ idxFile # Missing /\ metaFile # Missing
      BY <1>1, <3>1 DEF IndexInv
    <3>3. m \in Locals /\ m.pc = "unpickling" /\ m.goal = "none"
      BY <1>2, <3>2 DEF Locals, Places
    <3> HIDE DEF m
    <3>4. call'[c] = m /\ \A d \in Calls \ {c} : call'[d] = call[d]
      BY <1>2, <3>1
    <3>5. EmbedInv'
      <4>1. m.pc \in Outside /\ m.pc # "opening"
        BY <3>3 DEF Outside, Places, Searching, Storing
      <4>2. QED
        BY <1>1, <3>1, <3>3, <4>1, OutsideStep
    <3>6. KeepsIndex(c)
      BY <1>2, <2>2, <3>1, <3>2, <3>4 DEF KeepsIndex
    <3>7. IndexInv'
      BY <1>1, <3>2, <3>3, <3>4, <3>6, IndexStep
    <3>8. c \in alone' => UndisturbedSoFar(c)'
      BY <3>1, <3>3, <3>4 DEF UndisturbedSoFar
    <3>9. AloneInv'
      BY <3>1, <3>8, WriteStep
    <3>10. QED
      BY <3>5, <3>7, <3>9 DEF IInv
  <2>3. QED
    BY <2>1, <2>2
<1>5. CASE ReadMetaFile(c)
  <2>1. CASE metaFile = Torn
    BY <1>3, <1>5, <2>1 DEF ReadMetaFile, retriever
  <2>2. CASE metaFile # Torn
    <3>1. /\ l.pc = "unpickling" /\ Ends(c, "loaded") /\ UNCHANGED cache
          /\ entries' = metaFile /\ alone' = alone \cap {c}
          /\ job' = job /\ index' = index /\ idxFile' = idxFile /\ metaFile' = metaFile
          /\ l.pc \notin Late
      BY <1>5, <2>2 DEF ReadMetaFile, Writes, files, Late
    <3>2. /\ EmbedInv' /\ call'[c].pc = "loaded" /\ call'[c].goal = "none"
          /\ \A d \in Calls \ {c} : call'[d] = call[d]
      BY <1>1, <3>1, EndOutside DEF Ended
    <3>3. metaFile \in Seq(Texts)
      BY <1>1, <1>2, <2>2, <3>1 DEF IndexInv
    <3>4. KeepsIndex(c)
      BY <3>1, <3>2, <3>3 DEF KeepsIndex
    <3>5. IndexInv'
      BY <1>1, <3>2, <3>4, IndexStep
    <3>6. c \in alone' => UndisturbedSoFar(c)'
      <4> HAVE c \in alone'
      <4>1. Fits(index, metaFile)
        BY <1>1, <3>1 DEF AloneInv, UndisturbedSoFar
      <4>2. QED
        BY <3>1, <3>2, <4>1 DEF UndisturbedSoFar
    <3>7. AloneInv'
      BY <3>1, <3>6, WriteStep
    <3>8. QED
      BY <3>2, <3>5, <3>7 DEF IInv
  <2>3. QED
    BY <2>1, <2>2
<1>6. QED
  BY <1>4, <1>5

\* The clock, and a crash of the process.
LEMMA TickKeeps ==
    ASSUME IInv, Tick, UNCHANGED <<job, retriever, files, alone, crashes>>
    PROVE  IInv'
<1>1. /\ stores' = stores /\ embedder' = embedder /\ call' = call /\ now' \in Nat
      /\ job' = job /\ entries' = entries /\ index' = index
      /\ idxFile' = idxFile /\ metaFile' = metaFile /\ alone' = alone
  BY DEF IInv, EmbedInv, StoresInv, Tick, retriever, files
<1>2. EmbedInv'
  BY <1>1 DEF IInv, EmbedInv, StoresInv, CallsInv, SizeInv, LateAt
<1>3. IndexInv' /\ AloneInv'
  BY <1>1 DEF IInv, IndexInv, AloneInv, UndisturbedSoFar
<1>4. QED
  BY <1>2, <1>3 DEF IInv

\* A crash leaves the files, and the calls that had saved.
LEMMA CrashKeeps ==
    ASSUME IInv, Crash
    PROVE  IInv'
<1>1. EmbedInv /\ IndexInv /\ AloneInv
  BY DEF IInv
<1>2. /\ stores' = <<>> /\ embedder' = 0 /\ now' = now /\ job' = job
      /\ entries' = <<>> /\ index' = Missing /\ idxFile' = idxFile /\ metaFile' = metaFile
      /\ alone' = {c \in alone : call[c].pc = "saved"}
      /\ call' = [c \in Calls |-> IF call[c].pc \in {"new", "saved"} THEN call[c]
                                  ELSE LocalsAt("crashed")]
  BY DEF Crash, files
<1>3. ASSUME NEW c \in Calls
      PROVE  /\ call'[c] \in Locals /\ LocalsOK(call'[c]) /\ MeetsOK(call'[c], <<>>)
             /\ call'[c].pc \in {"new", "saved", "crashed"} /\ call'[c].goal = "none"
             /\ call'[c].pc = "saved" <=> call[c].pc = "saved"
  <2>1. CASE call[c].pc \in {"new", "saved"}
    <3>1. call'[c] = call[c] /\ call[c] \in Locals /\ LocalsOK(call[c])
      BY <1>1, <1>2, <2>1, LocalsType
    <3>2. MeetsOK(call[c], <<>>)
      BY <2>1 DEF MeetsOK, Searching, Storing
    <3>3. call[c].goal = "none"
      BY <1>1, <2>1 DEF IndexInv
    <3>4. QED
      BY <2>1, <3>1, <3>2, <3>3
  <2>2. CASE call[c].pc \notin {"new", "saved"}
    <3>1. call'[c] = LocalsAt("crashed")
      BY <1>2, <2>2
    <3>2. "crashed" \in Places \ (Searching \cup Storing \cup {"using", "embedded", "opening"})
      BY DEF Places, Searching, Storing
    <3>3. QED
      BY <2>2, <3>1, <3>2, FreshLocals
  <2>3. QED
    BY <2>1, <2>2
<1>4. EmbedInv'
  <2>1. stores' \in Seq(Seq(CacheEntries)) /\ Len(stores') = 0
    BY <1>2, EmptySeq
  <2>2. StoresInv'
    BY <1>1, <1>2, <2>1 DEF EmbedInv, StoresInv
  <2>3. CallsInv'
    <3>1. call' \in [Calls -> Locals]
      BY <1>2, <1>3
    <3>2. QED
      BY <1>2, <1>3, <3>1 DEF CallsInv
  <2>4. SizeInv'
    BY <2>1 DEF SizeInv
  <2>5. QED
    BY <2>2, <2>3, <2>4 DEF EmbedInv
<1>5. IndexInv'
  BY <1>1, <1>2, <1>3, EmptySeq DEF IndexInv
<1>6. AloneInv'
  <2>1. ASSUME NEW c \in alone' PROVE UndisturbedSoFar(c)'
    <3>1. c \in Calls /\ c \in alone /\ call[c].pc = "saved"
      BY <1>1, <1>2 DEF AloneInv
    <3>2. call'[c].pc = "saved" /\ call'[c].goal = "none"
      BY <1>3, <3>1
    <3>3. Fits(idxFile, metaFile)
      BY <1>1, <3>1 DEF AloneInv, UndisturbedSoFar
    <3>4. QED
      BY <1>2, <3>2, <3>3 DEF UndisturbedSoFar
  <2>2. QED
    BY <1>1, <1>2, <2>1 DEF AloneInv
<1>7. QED
  BY <1>4, <1>5, <1>6 DEF IInv

\* A step that changes nothing.
LEMMA StutterKeeps ==
    ASSUME IInv, UNCHANGED vars
    PROVE  IInv'
BY DEF vars, IInv, EmbedInv, StoresInv, CallsInv, SizeInv, LateAt, IndexInv, AloneInv,
       UndisturbedSoFar

\* Nothing has been made or called.
LEMMA InitKeeps == Init => IInv
<1> SUFFICES ASSUME Init PROVE IInv
  OBVIOUS
<1>1. "new" \in Places \ (Searching \cup Storing \cup {"using", "embedded", "opening"})
  BY DEF Places, Searching, Storing
<1>2. /\ LocalsAt("new") \in Locals /\ LocalsOK(LocalsAt("new")) /\ MeetsOK(LocalsAt("new"), <<>>)
      /\ LocalsAt("new").pc = "new" /\ LocalsAt("new").goal = "none"
  BY <1>1, FreshLocals
<1>3. EmbedInv
  <2>1. stores \in Seq(Seq(CacheEntries)) /\ Len(stores) = 0
    BY EmptySeq DEF Init
  <2>2. QED
    BY <1>2, <2>1 DEF Init, EmbedInv, StoresInv, CallsInv, SizeInv
<1>4. IndexInv
  BY <1>2, EmptySeq, IndexAssumption DEF Init, IndexInv
<1>5. AloneInv
  BY DEF Init, AloneInv
<1>6. QED
  BY <1>3, <1>4, <1>5 DEF IInv

----------------------------------------------------------------------------
(* The theorems *)

\* IInv is inductive: it holds at first, and every step of the calls, of the
\* clock and of a crash keeps it.
THEOREM Invariant == Spec => []IInv
<1>1. Init => IInv
  BY InitKeeps
<1>2. IInv /\ [Next]_vars => IInv'
  <2> SUFFICES ASSUME IInv, [Next]_vars PROVE IInv'
    OBVIOUS
  <2>1. ASSUME NEW c \in Calls, Step(c) PROVE IInv'
    BY <2>1, BeginSteps, EmbedKeeps, RetrieverSteps, SaveSteps, RestoreSteps DEF Step
  <2>2. CASE Tick /\ UNCHANGED <<job, retriever, files, alone, crashes>>
    BY <2>2, TickKeeps
  <2>3. CASE Crash
    BY <2>3, CrashKeeps
  <2>4. CASE Rest \/ UNCHANGED vars
    BY <2>4, StutterKeeps DEF Rest
  <2>5. QED
    BY <2>1, <2>2, <2>3, <2>4 DEF Next
<1>3. QED
  BY <1>1, <1>2, PTL DEF Spec

\* embed() returns for each text, at its position, the vector of a text with
\* the same first characters, whatever the threads do to the cache meanwhile
\* (BatchEmbedder.embed, LRUCache.get and set without a lock).
THEOREM VectorsInOrder == Spec => []OwnVectorInOrder
<1>1. IInv => OwnVectorInOrder
  <2> SUFFICES ASSUME IInv, NEW c \in Calls, call[c].pc = "embedded",
                      NEW n \in DOMAIN call[c].texts
               PROVE  /\ call[c].result[n] # NoVector
                      /\ Prefix[call[c].result[n]] = Prefix[call[c].texts[n]]
    BY DEF OwnVectorInOrder
  <2>1. call[c] \in Locals /\ LocalsOK(call[c])
    BY LocalsType DEF IInv
  <2>2. n \in 1 .. Len(call[c].texts)
    BY <2>1, LenProperties DEF Locals
  <2>3. Good(call[c], n)
    BY <2>1, <2>2 DEF LocalsOK
  <2>4. QED
    BY <2>3, EmbedAssumption DEF Good
<1>2. QED
  BY <1>1, Invariant, PTL

\* A key occurs once in a cache, and the cache exceeds its limit by no more
\* than the calls that have put an entry and not yet tested the limit, or are
\* about to evict (LRUCache.set).
THEOREM CacheBounded == Spec => []SizeBounded
<1>1. IInv => SizeBounded
  <2> SUFFICES ASSUME IInv, NEW e \in DOMAIN stores
               PROVE  /\ Cardinality(Keys(stores[e])) = Len(stores[e])
                      /\ Len(stores[e]) <= MaxSize + Cardinality(LateAt(e))
    BY DEF SizeBounded, LateAt, Late
  <2>1. stores \in Seq(Seq(CacheEntries))
    BY DEF IInv, EmbedInv, StoresInv
  <2>2. e \in 1 .. Len(stores)
    BY <2>1, LenProperties
  <2>3. StoreOK(stores[e]) /\ Len(stores[e]) <= MaxSize + Cardinality(LateAt(e))
    BY <2>2 DEF IInv, EmbedInv, StoresInv, SizeInv
  <2>4. QED
    BY <2>3, KeysCounted
<1>2. QED
  BY <1>1, Invariant, PTL

\* LRUCache.get and set raise KeyError only where another thread has removed
\* the very key since this one's test of it, or has emptied the cache.
THEOREM FailsOnlyWhenRaced == Spec => []RaisesOnlyWhenRaced
<1>1. IInv => RaisesOnlyWhenRaced
  <2> SUFFICES ASSUME IInv, NEW c \in Calls
               PROVE  /\ call[c].pc \in {"read", "delete", "touch"} =>
                             Prefix[Text(c)] \in Keys(Store(c)) \cup call[c].lost
                      /\ call[c].pc = "move" => KeyOf(c) \in Keys(Store(c)) \cup call[c].lost
                      /\ call[c].pc = "evict" /\ Store(c) = <<>> => KeyOf(c) \in call[c].lost
    BY DEF RaisesOnlyWhenRaced
  <2>1. MeetsOK(call[c], stores)
    BY LocalsType DEF IInv
  <2>2. Keys(<<>>) = {}
    BY DEF Keys
  <2>3. QED
    BY <2>1, <2>2 DEF MeetsOK, Text, Store, KeyOf, Position
<1>2. QED
  BY <1>1, Invariant, PTL

\* A call that nobody interferes with leaves an index with a vector for each
\* entry, in order; what it saves are two complete files that fit, also after a
\* crash, and restoring from such files does not fail (build_index,
\* add_to_index, save_index, load_index).
THEOREM SavesAndRestores == Spec => []UndisturbedSaveRestores
<1>1. IInv => UndisturbedSaveRestores
  BY DEF IInv, AloneInv, UndisturbedSoFar, UndisturbedSaveRestores, Fits
<1>2. QED
  BY <1>1, Invariant, PTL

=============================================================================
