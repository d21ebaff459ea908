----------------------------- MODULE EmbedCache -----------------------------
(***************************************************************************)
(* The embedder of the retriever and its cache: the lazy construction      *)
(* (Retriever._get_embedder in app/retriever.py), BatchEmbedder.embed and  *)
(* EmbeddingCache.warm (app/batch_manager.py), and the LRU cache with an   *)
(* expiry behind them (utils/cache.py), used by several threads without a  *)
(* lock.  A step of a call is one access to a shared object.               *)
(*                                                                         *)
(* Data abstraction.  The vector of a text is the text it was computed     *)
(* from.  An entry of the cache is keyed by the first 2000 characters of a *)
(* text: Prefix[t] stands for them.  The second tier (Redis) is never      *)
(* enabled, and the counters of hits and misses are left out.              *)
(***************************************************************************)
EXTENDS Integers, Sequences, FiniteSets, SequencesExt

CONSTANTS
    Calls,     \* calls on the retriever
    Texts,     \* texts of resumes
    Prefix,    \* Prefix[t]: what the cache key is made of
    MaxSize,   \* entries an LRU cache keeps
    TTL,       \* after more than this time an entry has expired; never if it is 0
    MaxTime,   \* bound of the model: the clock stops there
    BatchSize, \* texts the model embeds at once
    NoVector   \* an element of the result that is not known yet

ASSUME EmbedAssumption ==
    /\ Prefix \in [Texts -> Texts]
    /\ \A t \in Texts : Prefix[Prefix[t]] = Prefix[t]
    /\ MaxSize \in Nat \ {0} /\ BatchSize \in Nat \ {0}
    /\ TTL \in Nat /\ MaxTime \in Nat
    /\ NoVector \notin Texts

VARIABLES
    stores,   \* the LRU caches of the embedders made so far, eldest entry first
    embedder, \* Retriever._embedder: which of them is published, 0 if none
    now,      \* time.monotonic()
    call      \* of each call where it stands, and its local variables

embedVars == <<stores, embedder, now, call>>

\* The local variables: the texts to embed, the goal of it, the embedder in
\* use, a position, the entry read, the result, the positions that missed,
\* their vectors; and the keys other calls have removed since it tested its own.
LocalsAt(place) ==
    [pc |-> place, texts |-> <<>>, goal |-> "none", mine |-> 0, i |-> 1, read |-> NoVector,
     result |-> <<>>, missing |-> <<>>, vecs |-> <<>>, lost |-> {}]

Goes(c, place) == call' = [call EXCEPT ![c].pc = place]

\* The call is over, its local variables are gone.
Ends(c, place) == call' = [call EXCEPT ![c] = LocalsAt(place)]

----------------------------------------------------------------------------
(* The cache as an ordered dictionary *)

Store(c) == stores[call[c].mine]

Keys(s) == {s[n].key : n \in DOMAIN s}

Place(s, key) == CHOOSE n \in DOMAIN s : s[n].key = key

Without(s, key) == RemoveAt(s, Place(s, key))

MovedToEnd(s, key) == Append(Without(s, key), s[Place(s, key)])

\* An assignment keeps the place of a key that is there.
Assigned(s, key, entry) ==
    IF key \in Keys(s) THEN [s EXCEPT ![Place(s, key)] = entry] ELSE Append(s, entry)

\* The places between a test of a key, or of the length, and its last use.
Inside == {"read", "delete", "touch", "move", "put", "check", "evict"}

\* c replaces its store; calls that rely on a key it removes take note.
Replaces(c, s, locals) ==
    /\ stores' = [stores EXCEPT ![call[c].mine] = s]
    /\ call' = [d \in Calls |->
                  IF d = c THEN locals
                  ELSE IF call[d].pc \in Inside /\ call[d].mine = call[c].mine
                  THEN [call[d] EXCEPT !.lost = @ \cup (Keys(Store(c)) \ Keys(s))]
                  ELSE call[d]]
    /\ UNCHANGED <<embedder, now>>

\* A KeyError ends the call.
KeyFails(c) == Ends(c, "failed") /\ UNCHANGED <<stores, embedder, now>>

----------------------------------------------------------------------------
(* Retriever._get_embedder *)

CheckEmbedder(c) ==
    /\ call[c].pc = "embed"
    /\ Goes(c, IF embedder = 0 THEN "loading" ELSE "using")
    /\ UNCHANGED <<stores, embedder, now>>

\* The model has been loaded; another thread may have done the same.
PublishEmbedder(c) ==
    /\ call[c].pc = "loading"
    /\ stores' = Append(stores, <<>>)
    /\ embedder' = Len(stores')
    /\ Goes(c, "using")
    /\ UNCHANGED now

LoadFails(c) ==
    /\ call[c].pc = "loading"
    /\ Ends(c, "failed")
    /\ UNCHANGED <<stores, embedder, now>>

UseEmbedder(c) ==
    /\ call[c].pc = "using"
    /\ call' = [call EXCEPT ![c].pc = "find", ![c].mine = embedder, ![c].i = 1,
                            ![c].result = [n \in DOMAIN call[c].texts |-> NoVector],
                            ![c].missing = <<>>]
    /\ UNCHANGED <<stores, embedder, now>>

----------------------------------------------------------------------------
(* LRUCache.get, for each text in turn *)

Text(c) == call[c].texts[call[c].i]

NextText(c) == [call[c] EXCEPT !.pc = "find", !.i = @ + 1, !.read = NoVector, !.lost = {}]
Hit(c)      == [NextText(c) EXCEPT !.result[call[c].i] = call[c].read]
Miss(c)     == [NextText(c) EXCEPT !.missing = Append(@, call[c].i)]

\* key not in self._store
Find(c) ==
    /\ call[c].pc = "find" /\ call[c].i <= Len(call[c].texts)
    /\ call' = [call EXCEPT ![c] = IF Prefix[Text(c)] \in Keys(Store(c))
                                   THEN [@ EXCEPT !.pc = "read"]
                                   ELSE Miss(c)]
    /\ UNCHANGED <<stores, embedder, now>>

Expired(entry) == TTL # 0 /\ now - entry.at > TTL

\* value, ts = self._store[key], and the test of the time.
Read(c) ==
    LET key   == Prefix[Text(c)]
        entry == Store(c)[Place(Store(c), key)]
    IN  /\ call[c].pc = "read"
        /\ IF key \notin Keys(Store(c)) THEN Ends(c, "failed")
           ELSE call' = [call EXCEPT ![c].read = entry.vec,
                                     ![c].pc = IF Expired(entry) THEN "delete" ELSE "touch"]
        /\ UNCHANGED <<stores, embedder, now>>

\* A mutant of Delete: the method goes on to move_to_end.
DeleteAndTouch(c) ==
    /\ call[c].pc = "delete"
    /\ IF Prefix[Text(c)] \notin Keys(Store(c)) THEN KeyFails(c)
       ELSE Replaces(c, Without(Store(c), Prefix[Text(c)]), [call[c] EXCEPT !.pc = "touch"])

\* del self._store[key], of an expired entry.
Delete(c) ==
    /\ call[c].pc = "delete"
    /\ IF Prefix[Text(c)] \notin Keys(Store(c)) THEN KeyFails(c)
       ELSE Replaces(c, Without(Store(c), Prefix[Text(c)]), Miss(c))

\* self._store.move_to_end(key), and the value is returned.
Touch(c) ==
    /\ call[c].pc = "touch"
    /\ IF Prefix[Text(c)] \notin Keys(Store(c)) THEN KeyFails(c)
       ELSE Replaces(c, MovedToEnd(Store(c), Prefix[Text(c)]), Hit(c))

----------------------------------------------------------------------------
(* Embedding the misses, and LRUCache.set for each of them *)

\* The batches of the loop over miss_texts, which warm() does without.
Chunks(texts, size) ==
    [n \in 1 .. (Len(texts) + size - 1) \div size |->
        SubSeq(texts, (n - 1) * size + 1, IF n * size < Len(texts) THEN n * size ELSE Len(texts))]

MissTexts(c) == [n \in DOMAIN call[c].missing |-> call[c].texts[call[c].missing[n]]]

\* The vectors of all batches, stacked.
EmbedMisses(c) ==
    /\ call[c].pc = "find" /\ call[c].i > Len(call[c].texts) /\ call[c].missing # <<>>
    /\ call' = [call EXCEPT ![c].pc = "set", ![c].i = 1,
                            ![c].vecs = IF call[c].goal = "warm" THEN MissTexts(c)
                                        ELSE FlattenSeq(Chunks(MissTexts(c), BatchSize))]
    /\ UNCHANGED <<stores, embedder, now>>

\* The model raises: nothing of the misses has been cached.
EmbedFails(c) ==
    /\ call[c].pc = "find" /\ call[c].i > Len(call[c].texts) /\ call[c].missing # <<>>
    /\ Ends(c, "failed")
    /\ UNCHANGED <<stores, embedder, now>>

\* Everything is found, or has been put into the cache.
Embedded(c) ==
    /\ \/ call[c].pc = "find" /\ call[c].i > Len(call[c].texts) /\ call[c].missing = <<>>
       \/ call[c].pc = "set" /\ call[c].i > Len(call[c].missing)
    /\ call' = [call EXCEPT ![c] = [LocalsAt("embedded") EXCEPT
                                       !.texts = call[c].texts, !.goal = call[c].goal,
                                       !.result = call[c].result]]
    /\ UNCHANGED <<stores, embedder, now>>

\* The miss that is being put, its key and its entry.
Position(c) == call[c].missing[call[c].i]
KeyOf(c)    == Prefix[call[c].texts[Position(c)]]
Entry(c)    == [key |-> KeyOf(c), vec |-> call[c].vecs[call[c].i], at |-> now]

NextMiss(c) == [call[c] EXCEPT !.pc = "set", !.i = @ + 1, !.lost = {}]

\* A mutant of SetFind: the vectors are taken to be in the order of the texts.
SetFindByPlace(c) ==
    /\ call[c].pc = "set" /\ call[c].i <= Len(call[c].missing)
    /\ call' = [call EXCEPT ![c].result[call[c].i] = call[c].vecs[call[c].i],
                            ![c].pc = IF KeyOf(c) \in Keys(Store(c)) THEN "move" ELSE "put"]
    /\ UNCHANGED <<stores, embedder, now>>

\* result[idx] = vec; if key in self._store
SetFind(c) ==
    /\ call[c].pc = "set" /\ call[c].i <= Len(call[c].missing)
    /\ call' = [call EXCEPT ![c].result[Position(c)] = call[c].vecs[call[c].i],
                            ![c].pc = IF KeyOf(c) \in Keys(Store(c)) THEN "move" ELSE "put"]
    /\ UNCHANGED <<stores, embedder, now>>

\* self._store.move_to_end(key)
Move(c) ==
    /\ call[c].pc = "move"
    /\ IF KeyOf(c) \notin Keys(Store(c)) THEN KeyFails(c)
       ELSE Replaces(c, MovedToEnd(Store(c), KeyOf(c)), [call[c] EXCEPT !.pc = "put"])

\* self._store[key] = (value, time.monotonic())
Put(c) ==
    /\ call[c].pc = "put"
    /\ Replaces(c, Assigned(Store(c), KeyOf(c), Entry(c)), [call[c] EXCEPT !.pc = "check"])

\* A mutant of Check: the limit is let pass once more.
CheckLate(c) ==
    /\ call[c].pc = "check"
    /\ call' = [call EXCEPT ![c] = IF Len(Store(c)) > MaxSize + 1
                                   THEN [@ EXCEPT !.pc = "evict"] ELSE NextMiss(c)]
    /\ UNCHANGED <<stores, embedder, now>>

\* len(self._store) > self.max_size
Check(c) ==
    /\ call[c].pc = "check"
    /\ call' = [call EXCEPT ![c] = IF Len(Store(c)) > MaxSize
                                   THEN [@ EXCEPT !.pc = "evict"] ELSE NextMiss(c)]
    /\ UNCHANGED <<stores, embedder, now>>

\* self._store.popitem(last=False)
Evict(c) ==
    /\ call[c].pc = "evict"
    /\ IF Store(c) = <<>> THEN KeyFails(c) ELSE Replaces(c, Tail(Store(c)), NextMiss(c))

----------------------------------------------------------------------------
Tick ==
    /\ now < MaxTime
    /\ now' = now + 1
    /\ UNCHANGED <<stores, embedder, call>>

EmbedStep(c) ==
    \/ CheckEmbedder(c) \/ PublishEmbedder(c) \/ LoadFails(c) \/ UseEmbedder(c)
    \/ Find(c) \/ Read(c) \/ Delete(c) \/ Touch(c)
    \/ EmbedMisses(c) \/ EmbedFails(c) \/ Embedded(c)
    \/ SetFind(c) \/ Move(c) \/ Put(c) \/ Check(c) \/ Evict(c)

----------------------------------------------------------------------------
(* Properties *)

\* Whatever the threads do to the cache meanwhile, embed() returns for every
\* text, at its position, the vector of a text with the same first characters.
OwnVectorInOrder ==
    \A c \in Calls : call[c].pc = "embedded" /\ call[c].goal # "warm" =>
        \A n \in DOMAIN call[c].texts :
            /\ call[c].result[n] # NoVector
            /\ Prefix[call[c].result[n]] = Prefix[call[c].texts[n]]

\* A key occurs once, and a cache exceeds its limit by no more than the calls
\* that are about to test it, or have found that it is exceeded.
SizeBounded ==
    \A e \in DOMAIN stores :
        /\ Cardinality(Keys(stores[e])) = Len(stores[e])
        /\ Len(stores[e]) <=
               MaxSize + Cardinality({c \in Calls : call[c].mine = e /\ call[c].pc \in {"check", "evict"}})

\* The cache fails a call only where another call has removed the very key in
\* between this one's test of it and its use, or has emptied the cache: a
\* single thread never sees it fail.
RaisesOnlyWhenRaced ==
    \A c \in Calls :
        /\ call[c].pc \in {"read", "delete", "touch"} =>
               Prefix[Text(c)] \in Keys(Store(c)) \cup call[c].lost
        /\ call[c].pc = "move" => KeyOf(c) \in Keys(Store(c)) \cup call[c].lost
        /\ call[c].pc = "evict" /\ Store(c) = <<>> => KeyOf(c) \in call[c].lost
=============================================================================
