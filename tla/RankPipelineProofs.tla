------------------------- MODULE RankPipelineProofs -------------------------
(***************************************************************************)
(* Proofs about RankPipeline for any number of requests, any lists, any    *)
(* number of workers.                                                      *)
(***************************************************************************)
EXTENDS RankPipeline, FiniteSetTheorems, TLAPS

\* min() of two naturals is one of them and bounded by both.
LEMMA Min2Nat ==
    \A a, b \in Nat : Min2(a, b) \in Nat /\ Min2(a, b) <= a /\ Min2(a, b) <= b
BY DEF Min2

\* len(self._entries) is a natural, also before the first build.
LEMMA ListSizeNat ==
    ASSUME NEW o \in Requests \cup {NoList}
    PROVE  ListSize(o) \in Nat
BY PipelineAssumption DEF ListSize

\* Noting a writer keeps the type of the history.
LEMMA NoteWriteType ==
    ASSUME overwrites \in [Requests -> SUBSET Requests],
           NEW w \in Requests, NoteWrite(w)
    PROVE  overwrites' \in [Requests -> SUBSET Requests]
BY DEF NoteWrite

\* Dropping the locals of a call keeps their types.
LEMMA DropLocalsType ==
    ASSUME Types, NEW r \in Ranks, DropLocals(r)
    PROVE  /\ k' \in [Ranks -> 0 .. TopK]
           /\ hits' \in [Ranks -> SUBSET (Nat \ {0})]
           /\ found' \in [Ranks -> SUBSET (Requests \X (Nat \ {0}))]
BY PipelineAssumption DEF Types, DropLocals

\* A call leaves its worker when it ends; only Start takes one, a free one.
LEMMA OnlyStartRuns ==
    ASSUME Types, [Next]_vars
    PROVE  \/ Running' \subseteq Running
           \/ /\ Cardinality(Running) < Workers
              /\ \E r \in Ranks : Running' \subseteq Running \cup {r}
<1> DEFINE Fewer == Running' \subseteq Running
<1> USE PipelineAssumption DEF Types, Requests, Steps, Running
<1>1. ASSUME NEW r \in Ranks, Start(r)
      PROVE  /\ Cardinality(Running) < Workers
             /\ Running' \subseteq Running \cup {r}
  BY <1>1 DEF Start
<1>2. ASSUME NEW r \in Ranks, Submit(r) \/ Respond(r) PROVE Fewer
  BY <1>2 DEF Submit, Respond
<1>3. ASSUME NEW b \in Builds, StartBuild(b) PROVE Fewer
  BY <1>3 DEF StartBuild
<1>4. ASSUME NEW r \in Requests, RejectEmpty(r) \/ WriteEntries(r)
                                   \/ WriteIndex(r) \/ EmbedFails(r)
      PROVE  Fewer
  BY <1>4 DEF RejectEmpty, WriteEntries, WriteIndex, EmbedFails
<1>5. ASSUME NEW r \in Ranks, ReadSize(r) \/ ScanEntries(r) \/ Search(r) \/ MapHit(r)
      PROVE  Fewer
  BY <1>5 DEF ReadSize, ScanEntries, Search, MapHit
<1>6. ASSUME NEW r \in Ranks, QueryFails(r) \/ MapHitOutOfRange(r)
                                \/ Rerank(r) \/ RerankFails(r)
      PROVE  Fewer
  BY <1>6 DEF QueryFails, MapHitOutOfRange, Rerank, RerankFails
<1>7. ASSUME Idle \/ UNCHANGED vars PROVE Fewer
  BY <1>7 DEF Idle, vars
<1> HIDE DEF Types, Requests, Steps, Running, Fewer
<1>8. QED
  <2>1. CASE \E r \in Ranks : Start(r)
    BY <1>1, <2>1
  <2>2. CASE ~ \E r \in Ranks : Start(r)
    <3>1. ASSUME NEW r \in Ranks, Worker(r) PROVE Fewer
      <4>1. r \in Requests
        BY DEF Requests
      <4>2. QED
        BY <1>4, <1>5, <1>6, <2>2, <3>1, <4>1 DEF Worker
    <3>2. ASSUME NEW b \in Builds, Build(b) PROVE Fewer
      BY <1>4, <3>2 DEF Build, Requests
    <3>3. Fewer
      BY <1>2, <1>3, <1>7, <3>1, <3>2 DEF Next
    <3>4. QED BY <3>3 DEF Fewer
  <2>3. QED BY <2>1, <2>2

\* The calls that run are finitely many, which their number being a number
\* rests on.
PoolOK == IsFiniteSet(Running) /\ Cardinality(Running) <= Workers

\* A step keeps the running calls within the executor's threads.
LEMMA PoolKept ==
    ASSUME Types, PoolOK, [Next]_vars
    PROVE  PoolOK'
<1> DEFINE R == Running
           Q == Running'
<1>1. IsFiniteSet(R) /\ Cardinality(R) \in Nat /\ Cardinality(R) <= Workers
  BY FS_CardinalityType DEF PoolOK
<1>2. \/ Q \subseteq R
      \/ Cardinality(R) < Workers /\ \E r \in Ranks : Q \subseteq R \cup {r}
  BY OnlyStartRuns
<1> SUFFICES IsFiniteSet(Q) /\ Cardinality(Q) <= Workers
  BY DEF PoolOK
<1> HIDE DEF R, Q
<1>3. CASE Q \subseteq R
  <2>1. IsFiniteSet(Q) /\ Cardinality(Q) <= Cardinality(R) /\ Cardinality(Q) \in Nat
    BY <1>1, <1>3, FS_Subset, FS_CardinalityType
  <2>2. QED
    BY <1>1, <2>1, PipelineAssumption
<1>4. ASSUME Cardinality(R) < Workers, NEW r \in Ranks, Q \subseteq R \cup {r}
      PROVE  IsFiniteSet(Q) /\ Cardinality(Q) <= Workers
  <2> DEFINE A == R \cup {r}
  <2>1. IsFiniteSet(A) /\ Cardinality(A) <= Cardinality(R) + 1 /\ Cardinality(A) \in Nat
    BY <1>1, FS_AddElement, FS_CardinalityType
  <2> HIDE DEF A
  <2>2. IsFiniteSet(Q) /\ Cardinality(Q) <= Cardinality(A) /\ Cardinality(Q) \in Nat
    BY <1>4, <2>1, FS_Subset, FS_CardinalityType DEF A
  <2>3. QED
    BY <1>1, <1>4, <2>1, <2>2, PipelineAssumption
<1>5. QED
  BY <1>2, <1>3, <1>4

\* Every variable keeps its type and no more calls run than the executor has
\* threads, for every instance (the type invariant the run RankPipeline
\* checks).
THEOREM TypeCorrect == Spec => []TypeOK
<1>1. Init => Types /\ PoolOK
  <2>1. ASSUME Init PROVE Types
    BY <2>1, PipelineAssumption DEF Init, Types, Requests, Steps
  <2>2. ASSUME Init PROVE Running = {}
    BY <2>2 DEF Init, Running, Requests
  <2>3. QED
    BY <2>1, <2>2, FS_EmptySet, PipelineAssumption DEF PoolOK
<1>2. Types /\ [Next]_vars => Types'
  <2> SUFFICES ASSUME Types, [Next]_vars PROVE Types'
    OBVIOUS
  <2> USE PipelineAssumption DEF Types, Requests, Steps, locals
  <2>1. ASSUME NEW r \in Ranks, Submit(r) PROVE Types'
    BY <2>1 DEF Submit
  <2>2. ASSUME NEW r \in Ranks, Start(r) PROVE Types'
    BY <2>2 DEF Start
  <2>3. ASSUME NEW b \in Builds, StartBuild(b) PROVE Types'
    BY <2>3 DEF StartBuild
  <2>4. ASSUME NEW r \in Requests, RejectEmpty(r) PROVE Types'
    BY <2>4 DEF RejectEmpty
  <2>5. ASSUME NEW r \in Requests, WriteEntries(r) PROVE Types'
    BY <2>5, NoteWriteType DEF WriteEntries
  <2>6. ASSUME NEW r \in Requests, WriteIndex(r) PROVE Types'
    BY <2>6, NoteWriteType DEF WriteIndex
  <2>7. ASSUME NEW r \in Requests, EmbedFails(r) PROVE Types'
    BY <2>7 DEF EmbedFails
  <2>8. ASSUME NEW r \in Ranks, ReadSize(r) PROVE Types'
    <3>1. ListSize(entries) \in Nat
      BY ListSizeNat
    <3>2. Size[r] \in Nat
      OBVIOUS
    <3>3. Min2(Min2(TopK, Size[r]), ListSize(entries)) \in 0 .. TopK
      BY <3>1, <3>2 DEF Min2
    <3>4. QED BY <2>8, <3>3 DEF ReadSize
  <2>9. ASSUME NEW r \in Ranks, ScanEntries(r) PROVE Types'
    <3>1. ListSize(entries) \in Nat
      BY ListSizeNat
    <3>2. PICK best \in SUBSET (1 .. ListSize(entries)) :
             found' = [found EXCEPT ![r] = {<<entries, p>> : p \in best}]
      BY <2>9 DEF ScanEntries
    <3>3. entries \in Requests \/ best = {}
      BY <3>1 DEF ListSize
    <3>4. {<<entries, p>> : p \in best} \subseteq Requests \X (Nat \ {0})
      BY <3>1, <3>3
    <3>5. QED BY <2>9, <3>2, <3>4 DEF ScanEntries
  <2>10. ASSUME NEW r \in Ranks, Search(r) PROVE Types'
    <3>1. ListSize(index) \in Nat
      BY ListSizeNat
    <3>2. PICK h \in SearchHits(index, k[r]) : hits' = [hits EXCEPT ![r] = h]
      BY <2>10 DEF Search
    <3>3. h \subseteq Nat \ {0}
      BY <3>1 DEF SearchHits
    <3>4. QED BY <2>10, <3>2, <3>3 DEF Search
  <2>11. ASSUME NEW r \in Ranks, QueryFails(r) PROVE Types'
    BY <2>11, DropLocalsType DEF QueryFails
  <2>12. ASSUME NEW r \in Ranks, MapHit(r) PROVE Types'
    <3>1. PICK p \in hits[r] :
            /\ p <= ListSize(entries)
            /\ found' = [found EXCEPT ![r] = @ \cup {<<entries, p>>}]
            /\ hits' = [hits EXCEPT ![r] = @ \ {p}]
      BY <2>12 DEF MapHit
    <3>2. p \in Nat \ {0}
      OBVIOUS
    <3>3. entries \in Requests
      BY <3>1, <3>2 DEF ListSize
    <3>4. QED BY <2>12, <3>1, <3>2, <3>3 DEF MapHit
  <2>13. ASSUME NEW r \in Ranks, MapHitOutOfRange(r) PROVE Types'
    BY <2>13, DropLocalsType DEF MapHitOutOfRange
  <2>14. ASSUME NEW r \in Ranks, Rerank(r) PROVE Types'
    BY <2>14, DropLocalsType DEF Rerank
  <2>15. ASSUME NEW r \in Ranks, RerankFails(r) PROVE Types'
    BY <2>15, DropLocalsType DEF RerankFails
  <2>16. ASSUME NEW r \in Ranks, Respond(r) PROVE Types'
    BY <2>16 DEF Respond
  <2>17. CASE Idle \/ UNCHANGED vars
    BY <2>17 DEF Idle, vars
  <2>18. QED
    BY <2>1, <2>2, <2>3, <2>4, <2>5, <2>6, <2>7, <2>8, <2>9, <2>10, <2>11,
       <2>12, <2>13, <2>14, <2>15, <2>16, <2>17 DEF Next, Worker, Build
<1>3. Types /\ PoolOK /\ [Next]_vars => (Types /\ PoolOK)'
  BY <1>2, PoolKept
<1>4. Types /\ PoolOK => TypeOK
  BY DEF TypeOK, PoolOK
<1>5. QED BY <1>1, <1>3, <1>4, PTL DEF Spec

----------------------------------------------------------------------------
\* A step that writes neither shared attribute opens no window and takes
\* nobody back to the state between the two writes.
Quiet ==
    /\ UNCHANGED <<entries, index, overwrites>>
    /\ \A r \in Requests :
         Window(r)' => Window(r) /\ (pc[r] = "listed" => pc'[r] = "listed")

\* Only the two assignments of build_index touch what others can see.
LEMMA OtherStepsAreQuiet ==
    ASSUME TypeOK, [Next]_vars,
           \A r \in Requests : ~WriteEntries(r) /\ ~WriteIndex(r)
    PROVE  Quiet
<1> USE PipelineAssumption DEF TypeOK, Types, Requests, Steps, locals, Quiet, Window
<1>1. ASSUME NEW r \in Ranks, Submit(r) PROVE Quiet
  BY <1>1 DEF Submit
<1>2. ASSUME NEW r \in Ranks, Start(r) PROVE Quiet
  BY <1>2 DEF Start
<1>3. ASSUME NEW b \in Builds, StartBuild(b) PROVE Quiet
  BY <1>3 DEF StartBuild
<1>4. ASSUME NEW r \in Requests, RejectEmpty(r) PROVE Quiet
  BY <1>4 DEF RejectEmpty
<1>5. ASSUME NEW r \in Requests, EmbedFails(r) PROVE Quiet
  BY <1>5 DEF EmbedFails
<1>6. ASSUME NEW r \in Ranks, ReadSize(r) PROVE Quiet
  BY <1>6 DEF ReadSize
<1>7. ASSUME NEW r \in Ranks, ScanEntries(r) PROVE Quiet
  BY <1>7 DEF ScanEntries
<1>8. ASSUME NEW r \in Ranks, Search(r) PROVE Quiet
  BY <1>8 DEF Search
<1>9. ASSUME NEW r \in Ranks, QueryFails(r) PROVE Quiet
  BY <1>9 DEF QueryFails, DropLocals
<1>10. ASSUME NEW r \in Ranks, MapHit(r) PROVE Quiet
  BY <1>10 DEF MapHit
<1>11. ASSUME NEW r \in Ranks, MapHitOutOfRange(r) PROVE Quiet
  BY <1>11 DEF MapHitOutOfRange, DropLocals
<1>12. ASSUME NEW r \in Ranks, Rerank(r) PROVE Quiet
  BY <1>12 DEF Rerank, DropLocals
<1>13. ASSUME NEW r \in Ranks, RerankFails(r) PROVE Quiet
  BY <1>13 DEF RerankFails, DropLocals
<1>14. ASSUME NEW r \in Ranks, Respond(r) PROVE Quiet
  BY <1>14 DEF Respond
<1>15. CASE Idle \/ UNCHANGED vars
  BY <1>15 DEF Idle, vars
<1>16. QED
  BY <1>1, <1>2, <1>3, <1>4, <1>5, <1>6, <1>7, <1>8, <1>9, <1>10, <1>11,
     <1>12, <1>13, <1>14, <1>15 DEF Next, Worker, Build

\* While the window of an undisturbed request is open, _entries is its list.
OwnList ==
    \A r \in Requests : Window(r) /\ overwrites[r] = {} => entries = r

IndexInv == OwnList /\ IndexMatchesEntries

\* A writer is noted by every open window but its own.
LEMMA WriterIsNoted ==
    ASSUME TypeOK, NEW w \in Requests, NoteWrite(w)
    PROVE  /\ overwrites'[w] = overwrites[w]
           /\ \A r \in Requests \ {w} :
                overwrites'[r] = IF Window(r) THEN overwrites[r] \cup {w}
                                             ELSE overwrites[r]
BY DEF TypeOK, Types, NoteWrite

\* The list and the index of an undisturbed build agree at every moment.
LEMMA IndexInvAlways == Spec => []IndexInv
<1>1. Init => IndexInv
  BY PipelineAssumption
  DEF Init, IndexInv, OwnList, IndexMatchesEntries, Window, Requests
<1>2. TypeOK /\ IndexInv /\ [Next]_vars => IndexInv'
  <2> SUFFICES ASSUME TypeOK, IndexInv, [Next]_vars PROVE IndexInv'
    OBVIOUS
  <2>1. ASSUME NEW w \in Requests, WriteEntries(w) PROVE IndexInv'
    <3>1. NoteWrite(w) /\ entries' = w /\ pc' = [pc EXCEPT ![w] = "listed"]
            /\ UNCHANGED hits
      BY <2>1 DEF WriteEntries, locals
    <3>2. \A r \in Requests \ {w} :
            /\ Window(r)' <=> Window(r)
            /\ Window(r) => overwrites'[r] # {}
      BY <3>1, WriterIsNoted DEF TypeOK, Types, Window
    <3>3. pc'[w] = "listed"
      BY <3>1 DEF TypeOK, Types
    <3>4. QED
      BY <3>1, <3>2, <3>3 DEF IndexInv, OwnList, IndexMatchesEntries
  <2>2. ASSUME NEW w \in Requests, WriteIndex(w) PROVE IndexInv'
    <3>1. NoteWrite(w) /\ index' = (IF faissMode THEN w ELSE entries)
            /\ pc[w] = "listed" /\ pc' = [pc EXCEPT ![w] = "indexed"]
            /\ UNCHANGED <<entries, hits>>
      BY <2>2 DEF WriteIndex, locals
    <3>2. \A r \in Requests \ {w} :
            /\ Window(r)' <=> Window(r)
            /\ Window(r) => overwrites'[r] # {}
      BY <3>1, WriterIsNoted DEF TypeOK, Types, Window
    <3>3. overwrites'[w] = {} => entries' = w /\ index' = w
      BY <3>1, WriterIsNoted DEF IndexInv, OwnList, Window
    <3>4. QED
      BY <3>2, <3>3 DEF IndexInv, OwnList, IndexMatchesEntries
  <2>3. CASE \A r \in Requests : ~WriteEntries(r) /\ ~WriteIndex(r)
    <3>1. Quiet
      BY <2>3, OtherStepsAreQuiet
    <3>2. QED
      BY <3>1 DEF Quiet, IndexInv, OwnList, IndexMatchesEntries
  <2>4. QED
    BY <2>1, <2>2, <2>3
<1>3. QED
  BY <1>1, <1>2, TypeCorrect, PTL DEF Spec

\* _entries[i] is the text of vector i from the end of a build until another
\* request writes, however many requests are in flight.
THEOREM BuildsAgree == Spec => []IndexMatchesEntries
<1>1. IndexInv => IndexMatchesEntries
  BY DEF IndexInv
<1>2. QED
  BY <1>1, IndexInvAlways, PTL

----------------------------------------------------------------------------
\* A request whose window is open reads from its own list or from a list
\* written since the window opened.
FreshList ==
    \A r \in Requests : Window(r) => entries \in {r} \cup overwrites[r]

FreshInv == FreshList /\ NoStaleResumes

\* A write replaces the list under others, and all of them note it.
LEMMA WritesKeepFreshInv ==
    ASSUME TypeOK, FreshInv, NEW w \in Requests,
           WriteEntries(w) \/ WriteIndex(w)
    PROVE  FreshInv'
<1>1. NoteWrite(w) /\ UNCHANGED <<hits, found, results>>
  BY DEF WriteEntries, WriteIndex, locals
<1>2. \A r \in Ranks : overwrites[r] \subseteq overwrites'[r]
  BY <1>1, WriterIsNoted DEF Requests
<1>3. NoStaleResumes'
  BY <1>1, <1>2 DEF FreshInv, NoStaleResumes
<1>4. ASSUME WriteEntries(w) PROVE FreshList'
  <2>1. entries' = w /\ \A r \in Requests \ {w} : Window(r)' <=> Window(r)
    BY <1>1, <1>4 DEF TypeOK, Types, Window, WriteEntries
  <2>2. QED
    BY <1>1, <2>1, WriterIsNoted DEF FreshList
<1>5. ASSUME WriteIndex(w) PROVE FreshList'
  <2>1. entries' = entries /\ Window(w)
    BY <1>5 DEF WriteIndex, Window
  <2>2. \A r \in Requests \ {w} : Window(r)' <=> Window(r)
    BY <1>1, <1>5 DEF TypeOK, Types, Window, WriteIndex
  <2>3. QED
    BY <1>1, <2>1, <2>2, WriterIsNoted DEF FreshInv, FreshList
<1>6. QED
  BY <1>3, <1>4, <1>5 DEF FreshInv

\* Only three steps put anything into the candidates or the results.
LEMMA NextKeepsFound ==
    ASSUME TypeOK, [Next]_vars,
           \A r \in Ranks : ~ScanEntries(r) /\ ~MapHit(r) /\ ~Rerank(r)
    PROVE  /\ results' = results
           /\ \A q \in Ranks : found'[q] \in {found[q], {}}
<1> DEFINE Goal == /\ results' = results
                   /\ \A q \in Ranks : found'[q] \in {found[q], {}}
<1> SUFFICES Goal
  OBVIOUS
<1> USE DEF TypeOK, Types, locals
<1>1. ASSUME NEW r \in Ranks, QueryFails(r) \/ MapHitOutOfRange(r)
                                \/ RerankFails(r)
      PROVE  Goal
  BY <1>1 DEF QueryFails, MapHitOutOfRange, RerankFails, DropLocals
<1>2. ASSUME NEW r \in Ranks, Submit(r) \/ Start(r) \/ ReadSize(r)
                                \/ Search(r) \/ Respond(r)
      PROVE  Goal
  BY <1>2 DEF Submit, Start, ReadSize, Search, Respond
<1>3. ASSUME NEW r \in Requests, RejectEmpty(r) \/ WriteEntries(r)
                                   \/ WriteIndex(r) \/ EmbedFails(r)
      PROVE  Goal
  BY <1>3 DEF RejectEmpty, WriteEntries, WriteIndex, EmbedFails
<1>4. ASSUME NEW b \in Builds, StartBuild(b) PROVE Goal
  BY <1>4 DEF StartBuild
<1>5. CASE Idle \/ UNCHANGED vars
  BY <1>5 DEF Idle, vars
<1>6. QED
  BY <1>1, <1>2, <1>3, <1>4, <1>5 DEF Next, Worker, Build, Requests

\* No answer ever holds a resume of a request that did not write the
\* retriever while this one was using it.
THEOREM NothingStale == Spec => []NoStaleResumes
<1>1. Init => FreshInv
  BY PipelineAssumption
  DEF Init, FreshInv, FreshList, NoStaleResumes, Window, Requests
<1>2. TypeOK /\ FreshInv /\ [Next]_vars => FreshInv'
  <2> SUFFICES ASSUME TypeOK, FreshInv, [Next]_vars PROVE FreshInv'
    OBVIOUS
  <2>1. ASSUME NEW w \in Requests, WriteEntries(w) \/ WriteIndex(w)
        PROVE  FreshInv'
    BY <2>1, WritesKeepFreshInv
  <2>2. CASE \A r \in Requests : ~WriteEntries(r) /\ ~WriteIndex(r)
    <3>1. Quiet
      BY <2>2, OtherStepsAreQuiet
    <3>2. FreshList'
      BY <3>1 DEF Quiet, FreshInv, FreshList
    <3>3. ASSUME NEW r \in Ranks, ScanEntries(r) PROVE NoStaleResumes'
      <4>1. entries \in {r} \cup overwrites[r]
        BY <3>3, PipelineAssumption
        DEF ScanEntries, Window, FreshInv, FreshList, Requests
      <4>2. /\ \A e \in found'[r] : e[1] = entries
            /\ \A q \in Ranks \ {r} : found'[q] = found[q]
            /\ UNCHANGED <<results, overwrites>>
        BY <3>3 DEF ScanEntries, TypeOK, Types
      <4>3. QED
        BY <4>1, <4>2 DEF FreshInv, NoStaleResumes
    <3>4. ASSUME NEW r \in Ranks, MapHit(r) PROVE NoStaleResumes'
      <4>1. entries \in {r} \cup overwrites[r]
        BY <3>4, PipelineAssumption
        DEF MapHit, Window, FreshInv, FreshList, Requests
      <4>2. /\ \A e \in found'[r] : e \in found[r] \/ e[1] = entries
            /\ \A q \in Ranks \ {r} : found'[q] = found[q]
            /\ UNCHANGED <<results, overwrites>>
        BY <3>4 DEF MapHit, TypeOK, Types
      <4>3. QED
        BY <4>1, <4>2 DEF FreshInv, NoStaleResumes
    <3>5. ASSUME NEW r \in Ranks, Rerank(r) PROVE NoStaleResumes'
      <4>1. /\ results'[r] \subseteq found[r] /\ found'[r] = {}
            /\ \A q \in Ranks \ {r} :
                 found'[q] = found[q] /\ results'[q] = results[q]
            /\ UNCHANGED overwrites
        BY <3>5 DEF Rerank, DropLocals, TypeOK, Types
      <4>2. QED
        BY <4>1 DEF FreshInv, NoStaleResumes
    <3>6. ASSUME \A r \in Ranks : ~ScanEntries(r) /\ ~MapHit(r) /\ ~Rerank(r)
          PROVE  NoStaleResumes'
      <4>1. /\ UNCHANGED <<results, overwrites>>
            /\ \A q \in Ranks : found'[q] \in {found[q], {}}
        BY <3>1, <3>6, NextKeepsFound DEF Quiet
      <4>2. QED
        BY <4>1 DEF FreshInv, NoStaleResumes
    <3>7. QED
      BY <3>2, <3>3, <3>4, <3>5, <3>6 DEF FreshInv
  <2>3. QED
    BY <2>1, <2>2
<1>3. FreshInv => NoStaleResumes
  BY DEF FreshInv
<1>4. QED
  BY <1>1, <1>2, <1>3, TypeCorrect, PTL DEF Spec

----------------------------------------------------------------------------
Bound(r) == Min2(TopK, Size[r])

\* What holds of the counts of a request under any interference.
CountOK(r) ==
    /\ IsFiniteSet(hits[r]) /\ IsFiniteSet(found[r])
    /\ pc[r] # "mapping" => hits[r] = {} /\ found[r] = {}
    /\ pc[r] = "sized" => k[r] <= Bound(r)
    /\ Cardinality(hits[r]) + Cardinality(found[r]) <= Bound(r)
    /\ Cardinality(results[r]) <= Min2(TopN, Size[r])

\* What holds of a request nobody has disturbed.
IsolatedOK(r) ==
    overwrites[r] = {} =>
        /\ pc[r] # "indexError"
        /\ pc[r] = "sized" => k[r] = Bound(r)
        /\ hits[r] \subseteq 1 .. Size[r]
        /\ found[r] \cup results[r] \subseteq {r} \X (1 .. Size[r])
        /\ \A p \in hits[r] : <<r, p>> \notin found[r]
        /\ pc[r] = "mapping" /\ Exact(r) =>
              Cardinality(hits[r]) + Cardinality(found[r]) = Bound(r)
        /\ pc[r] \in {"ranked", "ok"} /\ Exact(r) =>
              Cardinality(results[r]) = Expected(r)

\* What holds of a request served by the lexical fallback.
LexicalOK(r) ==
    ~faissMode =>
        /\ pc[r] # "indexError"
        /\ hits[r] = {}
        /\ \A d, e \in found[r] \cup results[r] : d[1] = e[1]
        /\ pc[r] \notin {"ranked", "ok"} => results[r] = {}

CallOK(r) == CountOK(r) /\ IsolatedOK(r) /\ LexicalOK(r)

CallInv == \A r \in Ranks : CallOK(r)

\* How the sizes of a request bound each other.
LEMMA BoundNat ==
    ASSUME NEW r \in Ranks
    PROVE  /\ Size[r] \in Nat /\ Bound(r) \in Nat /\ Expected(r) \in Nat
           /\ Bound(r) <= TopK /\ Bound(r) <= Size[r]
           /\ Expected(r) = Min2(TopN, Bound(r))
           /\ Expected(r) <= Min2(TopN, Size[r])
BY PipelineAssumption DEF Bound, Expected, Min2, Requests

\* A set of positions of a list is finite and no larger than the list.
LEMMA SubintervalFinite ==
    ASSUME NEW n \in Nat, NEW S \in SUBSET (1 .. n)
    PROVE  IsFiniteSet(S) /\ Cardinality(S) \in Nat /\ Cardinality(S) <= n
<1>1. IsFiniteSet(1 .. n) /\ Cardinality(1 .. n) = n
  BY FS_Interval
<1>2. QED
  BY <1>1, FS_Subset, FS_CardinalityType

\* Tagging the members of a set with an owner keeps their number.
LEMMA TaggedCardinality ==
    ASSUME NEW o, NEW S, IsFiniteSet(S)
    PROVE  /\ IsFiniteSet({<<o, p>> : p \in S})
           /\ Cardinality({<<o, p>> : p \in S}) = Cardinality(S)
<1> DEFINE T == {<<o, p>> : p \in S}
           f == [p \in S |-> <<o, p>>]
<1>1. f \in [S -> T] /\ \A a, b \in S : f[a] = f[b] => a = b
  OBVIOUS
<1>2. \A t \in T : \E p \in S : f[p] = t
  OBVIOUS
<1>3. f \in Bijection(S, T)
  BY <1>1, <1>2 DEF Bijection, Injection, Surjection, IsInjective
<1>4. ExistsBijection(S, T)
  BY <1>3 DEF ExistsBijection
<1> HIDE DEF T
<1>5. IsFiniteSet(T) /\ Cardinality(T) = Cardinality(S)
  BY <1>4, FS_Bijection
<1>6. QED
  BY <1>5 DEF T

\* A call whose own variables do not change stays in order when others write.
LEMMA CallFrame ==
    ASSUME TypeOK, NEW r \in Ranks, CallOK(r),
           UNCHANGED <<pc[r], k[r], hits[r], found[r], results[r], faissMode>>,
           overwrites[r] \subseteq overwrites'[r]
    PROVE  CallOK(r)'
BY DEF CallOK, CountOK, IsolatedOK, LexicalOK, Exact

\* The same when the call only moves on between steps that have no counts.
LEMMA CallMoves ==
    ASSUME TypeOK, NEW r \in Ranks, CallOK(r),
           UNCHANGED <<k[r], hits[r], found[r], results[r], faissMode>>,
           overwrites[r] \subseteq overwrites'[r],
           pc[r] \notin {"mapping", "ranked", "ok"},
           pc'[r] \notin {"mapping", "sized", "ranked", "ok", "indexError"}
    PROVE  CallOK(r)'
BY DEF CallOK, CountOK, IsolatedOK, LexicalOK, Exact

\* A call that fails drops its candidates and answers with no results.
LEMMA CallFails ==
    ASSUME TypeOK, NEW r \in Ranks, CallOK(r), DropLocals(r),
           UNCHANGED <<results, faissMode, overwrites>>,
           pc[r] \notin {"ranked", "ok"}, pc'[r] = "failed"
    PROVE  CallOK(r)'
<1>1. hits'[r] = {} /\ found'[r] = {}
  BY DEF DropLocals, TypeOK, Types
<1>2. QED
  BY <1>1, FS_EmptySet, BoundNat
  DEF CallOK, CountOK, IsolatedOK, LexicalOK, Exact

\* While r is undisturbed between its build and its last read, both shared
\* attributes are its own.
LEMMA OwnRetriever ==
    ASSUME TypeOK, IndexInv, NEW r \in Ranks, overwrites[r] = {},
           Window(r), pc[r] # "listed"
    PROVE  /\ entries = r /\ index = r
           /\ ListSize(entries) = Size[r] /\ ListSize(index) = Size[r]
BY PipelineAssumption
DEF IndexInv, IndexMatchesEntries, ListSize, Requests

\* Reading len(_entries) bounds k by the request's own list.
LEMMA ReadSizeKeepsCall ==
    ASSUME TypeOK, IndexInv, NEW r \in Ranks, CallOK(r), ReadSize(r)
    PROVE  CallOK(r)'
<1>1. /\ pc[r] = "indexed" /\ pc'[r] = "sized"
      /\ k'[r] = Min2(Bound(r), ListSize(entries))
      /\ UNCHANGED <<hits, found, results, faissMode, overwrites>>
  BY PipelineAssumption DEF ReadSize, TypeOK, Types, Bound, Requests
<1>2. ListSize(entries) \in Nat /\ Bound(r) \in Nat /\ Bound(r) <= Size[r]
      /\ Size[r] \in Nat
  BY ListSizeNat, BoundNat DEF TypeOK, Types
<1>3. k'[r] <= Bound(r)
  BY <1>1, <1>2 DEF Min2
<1>4. overwrites[r] = {} => k'[r] = Bound(r)
  BY <1>1, <1>2, OwnRetriever DEF Min2, Window
<1>5. QED
  BY <1>1, <1>3, <1>4 DEF CallOK, CountOK, IsolatedOK, LexicalOK, Exact

\* The lexical scan collects k entries of one list.
LEMMA ScanEntriesKeepsCall ==
    ASSUME TypeOK, IndexInv, NEW r \in Ranks, CallOK(r), ScanEntries(r)
    PROVE  CallOK(r)'
<1>1. PICK best \in SUBSET (1 .. ListSize(entries)) :
        /\ Cardinality(best) = Min2(k[r], ListSize(entries))
        /\ found' = [found EXCEPT ![r] = {<<entries, p>> : p \in best}]
  BY DEF ScanEntries
<1>2. /\ pc[r] = "sized" /\ pc'[r] = "mapping" /\ ~faissMode
      /\ found'[r] = {<<entries, p>> : p \in best}
      /\ UNCHANGED <<hits, k, results, faissMode, overwrites>>
  BY <1>1 DEF ScanEntries, TypeOK, Types, Requests
<1>3. ListSize(entries) \in Nat /\ k[r] \in Nat /\ Bound(r) \in Nat
      /\ Size[r] \in Nat /\ Bound(r) <= Size[r] /\ k[r] <= Bound(r)
  BY <1>2, ListSizeNat, BoundNat, PipelineAssumption
  DEF TypeOK, Types, CallOK, CountOK
<1>4. IsFiniteSet(best) /\ Cardinality(best) <= Bound(r)
      /\ Cardinality(best) \in Nat
  <2>1. IsFiniteSet(best) /\ Cardinality(best) \in Nat
    BY <1>3, SubintervalFinite
  <2>2. Cardinality(best) <= k[r]
    BY <1>1, <1>3 DEF Min2
  <2>3. QED
    BY <1>3, <2>1, <2>2
<1>5. IsFiniteSet(found'[r]) /\ Cardinality(found'[r]) = Cardinality(best)
  <2>1. /\ IsFiniteSet({<<entries, p>> : p \in best})
        /\ Cardinality({<<entries, p>> : p \in best}) = Cardinality(best)
    BY <1>4, TaggedCardinality, Zenon
  <2>2. QED
    BY <1>2, <2>1, Zenon
<1>6. hits'[r] = {} /\ results'[r] = {} /\ Cardinality({}) = 0
  BY <1>2, FS_EmptySet DEF CallOK, LexicalOK
<1>7. CountOK(r)'
  BY <1>2, <1>3, <1>4, <1>5, <1>6 DEF CallOK, CountOK, Bound
<1>8. ASSUME overwrites[r] = {} PROVE IsolatedOK(r)'
  <2>1. entries = r /\ ListSize(entries) = Size[r] /\ k[r] = Bound(r)
    BY <1>2, <1>8, OwnRetriever DEF Window, CallOK, IsolatedOK
  <2>2. Cardinality(best) = Bound(r)
    BY <1>1, <1>3, <2>1 DEF Min2
  <2>3. found'[r] \subseteq {r} \X (1 .. Size[r])
    BY <1>2, <2>1
  <2>4. QED
    BY <1>2, <1>5, <1>4, <1>6, <2>2, <2>3 DEF IsolatedOK, Bound
<1>9. LexicalOK(r)'
  BY <1>2, <1>6 DEF LexicalOK
<1>10. QED
  BY <1>2, <1>7, <1>8, <1>9 DEF CallOK, IsolatedOK

\* The search finds no more than k positions of the index of the moment.
LEMMA SearchKeepsCall ==
    ASSUME TypeOK, IndexInv, NEW r \in Ranks, CallOK(r), Search(r)
    PROVE  CallOK(r)'
<1>1. PICK h \in SearchHits(index, k[r]) : hits' = [hits EXCEPT ![r] = h]
  BY DEF Search
<1>2. /\ pc[r] = "sized" /\ pc'[r] = "mapping" /\ faissMode /\ hits'[r] = h
      /\ UNCHANGED <<found, k, results, faissMode, overwrites>>
  BY <1>1 DEF Search, TypeOK, Types, Requests
<1>3. ListSize(index) \in Nat /\ k[r] \in Nat /\ Bound(r) \in Nat
      /\ Size[r] \in Nat /\ Bound(r) <= Size[r] /\ k[r] <= Bound(r)
  BY <1>2, ListSizeNat, BoundNat, PipelineAssumption
  DEF TypeOK, Types, CallOK, CountOK
<1>4. h \in SUBSET (1 .. ListSize(index))
  BY DEF SearchHits
<1>5. IsFiniteSet(h) /\ Cardinality(h) \in Nat
  BY <1>3, <1>4, SubintervalFinite
<1>6. Cardinality(h) <= Bound(r)
  BY <1>3, <1>5 DEF SearchHits, Min2
<1>7. found'[r] = {} /\ IsFiniteSet({}) /\ Cardinality({}) = 0
  BY <1>2, FS_EmptySet DEF CallOK, CountOK
<1>8. CountOK(r)'
  BY <1>2, <1>3, <1>5, <1>6, <1>7 DEF CallOK, CountOK, Bound
<1>9. ASSUME overwrites[r] = {} PROVE IsolatedOK(r)'
  <2>1. ListSize(index) = Size[r] /\ k[r] = Bound(r)
    BY <1>2, <1>9, OwnRetriever DEF Window, CallOK, IsolatedOK
  <2>2. Size[r] < FlatLimit => Cardinality(h) = Bound(r)
    BY <1>3, <2>1 DEF SearchHits, Min2
  <2>3. h \subseteq 1 .. Size[r]
    BY <1>4, <2>1
  <2>4. Exact(r)' => Cardinality(h) + 0 = Bound(r)
    BY <1>2, <1>3, <1>5, <2>2 DEF Exact
  <2>5. QED
    BY <1>2, <1>7, <1>9, <2>3, <2>4 DEF IsolatedOK, Bound, CallOK
<1>10. QED
  BY <1>2, <1>8, <1>9 DEF CallOK, IsolatedOK, LexicalOK

\* Each position that is looked up becomes one candidate.
LEMMA MapHitKeepsCall ==
    ASSUME TypeOK, IndexInv, NEW r \in Ranks, CallOK(r), MapHit(r)
    PROVE  CallOK(r)'
<1>1. PICK p \in hits[r] :
        /\ p <= ListSize(entries)
        /\ found' = [found EXCEPT ![r] = @ \cup {<<entries, p>>}]
        /\ hits' = [hits EXCEPT ![r] = @ \ {p}]
  BY DEF MapHit
<1>2. /\ pc[r] = "mapping" /\ pc' = pc
      /\ hits'[r] = hits[r] \ {p}
      /\ found'[r] = found[r] \cup {<<entries, p>>}
      /\ UNCHANGED <<k, results, faissMode, overwrites>>
  BY <1>1 DEF MapHit, TypeOK, Types
<1>3. faissMode
  BY <1>1 DEF CallOK, LexicalOK
<1>4. /\ IsFiniteSet(hits'[r]) /\ Cardinality(hits'[r]) = Cardinality(hits[r]) - 1
      /\ Cardinality(hits[r]) \in Nat
  BY <1>1, <1>2, FS_RemoveElement, FS_CardinalityType DEF CallOK, CountOK
<1>5. /\ IsFiniteSet(found'[r]) /\ Cardinality(found[r]) \in Nat
      /\ Cardinality(found'[r]) = IF <<entries, p>> \in found[r]
                                  THEN Cardinality(found[r])
                                  ELSE Cardinality(found[r]) + 1
  BY <1>2, FS_AddElement, FS_CardinalityType DEF CallOK, CountOK
<1>6. CountOK(r)'
  <2>1. Bound(r)' = Bound(r) /\ Bound(r) \in Nat
    BY BoundNat DEF Bound
  <2>2. Cardinality(hits'[r]) + Cardinality(found'[r]) <= Bound(r)
    BY <1>4, <1>5, <2>1 DEF CallOK, CountOK
  <2>3. QED
    BY <1>2, <1>4, <1>5, <2>1, <2>2 DEF CallOK, CountOK
<1>7. ASSUME overwrites[r] = {} PROVE IsolatedOK(r)'
  <2>1. entries = r
    BY <1>1, <1>2, <1>7, OwnRetriever DEF Window
  <2>2. <<r, p>> \notin found[r] /\ p \in 1 .. Size[r]
    BY <1>1, <1>7 DEF CallOK, IsolatedOK
  <2>3. Exact(r) => Cardinality(hits'[r]) + Cardinality(found'[r]) = Bound(r)
    BY <1>2, <1>4, <1>5, <1>7, <2>1, <2>2 DEF CallOK, IsolatedOK
  <2>4. found'[r] \cup results'[r] \subseteq {r} \X (1 .. Size[r])
    BY <1>2, <1>7, <2>1, <2>2 DEF CallOK, IsolatedOK
  <2>5. \A q \in hits'[r] : <<r, q>> \notin found'[r]
    BY <1>2, <1>7, <2>1 DEF CallOK, IsolatedOK
  <2>6. QED
    BY <1>2, <1>7, <2>3, <2>4, <2>5
    DEF CallOK, IsolatedOK, Exact, Bound
<1>8. QED
  BY <1>2, <1>3, <1>6, <1>7 DEF CallOK, IsolatedOK, LexicalOK

\* An IndexError needs a list that somebody else has replaced.
LEMMA MapHitOutOfRangeKeepsCall ==
    ASSUME TypeOK, IndexInv, NEW r \in Ranks, CallOK(r), MapHitOutOfRange(r)
    PROVE  CallOK(r)'
<1>1. PICK p \in hits[r] : p > ListSize(entries)
  BY DEF MapHitOutOfRange
<1>2. /\ pc[r] = "mapping" /\ pc'[r] = "indexError"
      /\ hits'[r] = {} /\ found'[r] = {}
      /\ UNCHANGED <<results, faissMode, overwrites>>
  BY DEF MapHitOutOfRange, DropLocals, TypeOK, Types, Requests
<1>3. faissMode
  BY <1>1 DEF CallOK, LexicalOK
<1>4. overwrites[r] # {}
  <2>1. SUFFICES ASSUME overwrites[r] = {} PROVE FALSE
    OBVIOUS
  <2>2. ListSize(entries) = Size[r] /\ Size[r] \in Nat
    BY <1>1, <1>2, <2>1, OwnRetriever, BoundNat DEF Window
  <2>3. p \in 1 .. Size[r]
    BY <2>1 DEF CallOK, IsolatedOK
  <2>4. QED
    BY <1>1, <2>2, <2>3
<1>5. QED
  BY <1>2, <1>3, <1>4, FS_EmptySet, BoundNat
  DEF CallOK, CountOK, IsolatedOK, LexicalOK

\* The reranker keeps the best TopN of the candidates.
LEMMA RerankKeepsCall ==
    ASSUME TypeOK, NEW r \in Ranks, CallOK(r), Rerank(r)
    PROVE  CallOK(r)'
<1>1. PICK best \in SUBSET found[r] :
        /\ Cardinality(best) = Min2(TopN, Cardinality(found[r]))
        /\ results' = [results EXCEPT ![r] = best]
  BY DEF Rerank
<1>2. /\ pc[r] = "mapping" /\ pc'[r] = "ranked"
      /\ hits[r] = {} /\ hits'[r] = {} /\ found'[r] = {} /\ results'[r] = best
      /\ UNCHANGED <<faissMode, overwrites>>
  BY <1>1 DEF Rerank, DropLocals, TypeOK, Types, Requests
<1>3. /\ Cardinality({}) = 0 /\ IsFiniteSet({})
      /\ Cardinality(found[r]) \in Nat /\ Cardinality(found[r]) <= Bound(r)
      /\ Bound(r) \in Nat /\ Size[r] \in Nat /\ Bound(r) <= Size[r]
      /\ TopN \in Nat
  BY <1>2, FS_EmptySet, FS_CardinalityType, BoundNat, PipelineAssumption
  DEF CallOK, CountOK
<1>4. CountOK(r)'
  <2>1. Cardinality(best) <= Min2(TopN, Size[r])
    BY <1>1, <1>3 DEF Min2
  <2>2. QED
    BY <1>2, <1>3, <2>1 DEF CountOK, Bound
<1>5. ASSUME overwrites[r] = {} PROVE IsolatedOK(r)'
  <2>1. Exact(r) => Cardinality(found[r]) = Bound(r)
    BY <1>2, <1>3, <1>5 DEF CallOK, IsolatedOK
  <2>2. Exact(r) => Cardinality(best) = Expected(r)
    BY <1>1, <2>1, BoundNat
  <2>3. QED
    BY <1>2, <1>5, <2>2 DEF CallOK, IsolatedOK, Exact, Expected
<1>6. QED
  BY <1>2, <1>4, <1>5 DEF CallOK, IsolatedOK, LexicalOK

\* Answering changes nothing but where the call stands.
LEMMA RespondKeepsCall ==
    ASSUME TypeOK, NEW r \in Ranks, CallOK(r), Respond(r)
    PROVE  CallOK(r)'
<1>1. /\ \/ pc[r] = "ranked" /\ pc'[r] = "ok"
         \/ pc[r] \in {"failed", "indexError"} /\ pc'[r] = "serverError"
      /\ UNCHANGED <<k, hits, found, results, faissMode, overwrites>>
  BY DEF Respond, TypeOK, Types, Requests, locals
<1>2. QED
  BY <1>1 DEF CallOK, CountOK, IsolatedOK, LexicalOK, Exact

\* The step of a request w leaves the calls of all others in order.
LEMMA OthersKeepCall ==
    ASSUME TypeOK, CallInv, NEW w \in Requests,
           \A q \in Ranks \ {w} :
             /\ UNCHANGED <<pc[q], k[q], hits[q], found[q], results[q]>>
             /\ overwrites[q] \subseteq overwrites'[q],
           faissMode' = faissMode,
           w \in Ranks => CallOK(w)'
    PROVE  CallInv'
<1>1. ASSUME NEW q \in Ranks, q # w PROVE CallOK(q)'
  BY <1>1, CallFrame DEF CallInv
<1>2. QED
  BY <1>1 DEF CallInv

\* Every step of the system keeps every call in order.
LEMMA NextKeepsCalls ==
    ASSUME TypeOK, IndexInv, CallInv, [Next]_vars
    PROVE  CallInv'
<1> USE DEF TypeOK, Types, Requests, locals
<1>1. ASSUME NEW w \in Requests, WriteEntries(w) \/ WriteIndex(w)
      PROVE  CallInv'
  <2>1. /\ NoteWrite(w) /\ faissMode' = faissMode
        /\ UNCHANGED <<k, hits, found, results>>
        /\ \A q \in Ranks \ {w} : pc'[q] = pc[q]
        /\ pc[w] \in {"started", "listed"} /\ pc'[w] \in {"listed", "indexed"}
    BY <1>1 DEF WriteEntries, WriteIndex
  <2>2. \A q \in Ranks : overwrites[q] \subseteq overwrites'[q]
    BY <2>1, WriterIsNoted
  <2>3. ASSUME w \in Ranks PROVE CallOK(w)'
    BY <2>1, <2>2, <2>3, CallMoves DEF CallInv
  <2>4. QED
    BY <2>1, <2>2, <2>3, OthersKeepCall
<1>2. ASSUME NEW w \in Requests, RejectEmpty(w) \/ EmbedFails(w)
      PROVE  CallInv'
  <2>1. /\ UNCHANGED <<k, hits, found, results, faissMode, overwrites>>
        /\ \A q \in Ranks \ {w} : pc'[q] = pc[q]
        /\ pc[w] \in {"started", "listed"} /\ pc'[w] = "failed"
    BY <1>2 DEF RejectEmpty, EmbedFails
  <2>2. ASSUME w \in Ranks PROVE CallOK(w)'
    BY <2>1, <2>2, CallMoves DEF CallInv
  <2>3. QED
    BY <2>1, <2>2, OthersKeepCall
<1>3. ASSUME NEW b \in Builds, StartBuild(b) PROVE CallInv'
  <2>1. b \notin Ranks
    BY PipelineAssumption
  <2>2. /\ UNCHANGED <<k, hits, found, results, faissMode, overwrites>>
        /\ \A q \in Ranks \ {b} : pc'[q] = pc[q]
    BY <1>3 DEF StartBuild
  <2>3. QED
    BY <2>1, <2>2, OthersKeepCall
<1>4. ASSUME NEW w \in Ranks, Submit(w) PROVE CallInv'
  <2>1. /\ UNCHANGED <<k, hits, found, results, faissMode, overwrites>>
        /\ \A q \in Ranks \ {w} : pc'[q] = pc[q]
        /\ pc[w] = "new" /\ pc'[w] = "queued"
    BY <1>4 DEF Submit
  <2>2. CallOK(w)'
    BY <2>1, CallMoves DEF CallInv
  <2>3. QED
    BY <2>1, <2>2, OthersKeepCall
<1>5. ASSUME NEW w \in Ranks, Start(w) PROVE CallInv'
  <2>1. /\ UNCHANGED <<k, hits, found, results, faissMode, overwrites>>
        /\ \A q \in Ranks \ {w} : pc'[q] = pc[q]
        /\ pc[w] = "queued" /\ pc'[w] = "started"
    BY <1>5 DEF Start
  <2>2. CallOK(w)'
    BY <2>1, CallMoves DEF CallInv
  <2>3. QED
    BY <2>1, <2>2, OthersKeepCall
<1>6. ASSUME NEW w \in Ranks,
             QueryFails(w) \/ MapHitOutOfRange(w) \/ RerankFails(w)
      PROVE  CallInv'
  <2>1. /\ DropLocals(w)
        /\ UNCHANGED <<results, faissMode, overwrites>>
        /\ \A q \in Ranks \ {w} : pc'[q] = pc[q]
        /\ pc[w] \in {"sized", "mapping"}
        /\ QueryFails(w) \/ RerankFails(w) => pc'[w] = "failed"
    BY <1>6 DEF QueryFails, MapHitOutOfRange, RerankFails
  <2>2. \A q \in Ranks \ {w} : UNCHANGED <<k[q], hits[q], found[q]>>
    BY <2>1 DEF DropLocals
  <2>3. CallOK(w)'
    BY <1>6, <2>1, CallFails, MapHitOutOfRangeKeepsCall DEF CallInv
  <2>4. QED
    BY <2>1, <2>2, <2>3, OthersKeepCall
<1>7. ASSUME NEW w \in Ranks, ReadSize(w) \/ ScanEntries(w) \/ Search(w)
                                \/ MapHit(w)
      PROVE  CallInv'
  <2>1. /\ UNCHANGED <<results, faissMode, overwrites>>
        /\ \A q \in Ranks \ {w} :
             UNCHANGED <<pc[q], k[q], hits[q], found[q]>>
    BY <1>7 DEF ReadSize, ScanEntries, Search, MapHit
  <2>2. CallOK(w)'
    BY <1>7, ReadSizeKeepsCall, ScanEntriesKeepsCall, SearchKeepsCall,
       MapHitKeepsCall DEF CallInv
  <2>3. QED
    BY <2>1, <2>2, OthersKeepCall
<1>8. ASSUME NEW w \in Ranks, Rerank(w) PROVE CallInv'
  <2>1. /\ UNCHANGED <<faissMode, overwrites>>
        /\ \A q \in Ranks \ {w} :
             UNCHANGED <<pc[q], k[q], hits[q], found[q], results[q]>>
    BY <1>8 DEF Rerank, DropLocals
  <2>2. CallOK(w)'
    BY <1>8, RerankKeepsCall DEF CallInv
  <2>3. QED
    BY <2>1, <2>2, OthersKeepCall
<1>9. ASSUME NEW w \in Ranks, Respond(w) PROVE CallInv'
  <2>1. /\ UNCHANGED <<k, hits, found, results, faissMode, overwrites>>
        /\ \A q \in Ranks \ {w} : pc'[q] = pc[q]
    BY <1>9 DEF Respond
  <2>2. CallOK(w)'
    BY <1>9, RespondKeepsCall DEF CallInv
  <2>3. QED
    BY <2>1, <2>2, OthersKeepCall
<1>10. CASE Idle \/ UNCHANGED vars
  <2>1. UNCHANGED vars
    BY <1>10 DEF Idle
  <2>2. \A q \in Ranks : CallOK(q)'
    BY <2>1, CallFrame DEF vars, CallInv
  <2>3. QED
    BY <2>2 DEF CallInv
<1>11. QED
  BY <1>1, <1>2, <1>3, <1>4, <1>5, <1>6, <1>7, <1>8, <1>9, <1>10
  DEF Next, Worker, Build

\* Every call is in order at every moment.
LEMMA CallInvAlways == Spec => [](TypeOK /\ IndexInv /\ CallInv)
<1>1. Init => CallInv
  <2> SUFFICES ASSUME Init, NEW r \in Ranks PROVE CallOK(r)
    BY DEF CallInv
  <2>1. /\ pc[r] = "new" /\ hits[r] = {} /\ found[r] = {} /\ results[r] = {}
    BY DEF Init, Requests
  <2>2. QED
    BY <2>1, FS_EmptySet, BoundNat, PipelineAssumption
    DEF CallOK, CountOK, IsolatedOK, LexicalOK, Min2
<1>2. TypeOK /\ IndexInv /\ CallInv /\ [Next]_vars => CallInv'
  BY NextKeepsCalls
<1>3. QED
  BY <1>1, <1>2, TypeCorrect, IndexInvAlways, PTL DEF Spec

\* A ranking nobody disturbs between its build and its last read sees its own
\* resumes only, never fails with an IndexError, and returns as many results
\* as were asked for: the race is the only way to a wrong answer.
THEOREM Isolation == Spec => []IsolatedWhenUndisturbed
<1>1. CallInv => IsolatedWhenUndisturbed
  BY DEF CallInv, CallOK, IsolatedOK, IsolatedWhenUndisturbed
<1>2. QED
  BY <1>1, CallInvAlways, PTL

\* Without FAISS even a disturbed answer comes from a single list.
THEOREM LexicalIsAtomic == Spec => []LexicalReadsOneList
<1>1. CallInv => LexicalReadsOneList
  BY DEF CallInv, CallOK, LexicalOK, LexicalReadsOneList
<1>2. QED
  BY <1>1, CallInvAlways, PTL

\* An answer is never longer than the request's own list, under any
\* interference.
THEOREM NeverTooMany == Spec => []NoMoreThanSubmitted
<1>1. CallInv => NoMoreThanSubmitted
  BY DEF CallInv, CallOK, CountOK, NoMoreThanSubmitted
<1>2. QED
  BY <1>1, CallInvAlways, PTL
=============================================================================
