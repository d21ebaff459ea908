----------------------------- MODULE IndexStore -----------------------------
(***************************************************************************)
(* The index of the retriever and its two files (app/retriever.py,         *)
(* app/pipeline.py): building, extending, saving and restoring it, with    *)
(* the embeddings that EmbedCache provides.  Only the mode with FAISS is   *)
(* modelled, the lexical one persists nothing; what concurrent rankings    *)
(* make of the index in memory is the subject of RankPipeline.             *)
(*                                                                         *)
(* An index is the sequence of its vectors, the entries are the sequence   *)
(* of their texts.  A call is a ranking ("rank", as far as it builds the   *)
(* index), POST /index/build with persist ("publish"), POST /cache/warm    *)
(* ("warm"), or a call of the library: Retriever.add_to_index ("add") or   *)
(* Pipeline.load_or_build ("restore").                                     *)
(***************************************************************************)
EXTENDS EmbedCache

CONSTANTS
    Scenarios, \* what the calls are: sets of [kind, texts] for each
    Missing,   \* no index in memory; no such file
    Torn,      \* a file that was opened for writing and not completed
    MaxCrashes \* bound of the model: crashes of the process

VARIABLES
    job,      \* the kind and the texts of each call
    entries,  \* Retriever._entries
    index,    \* Retriever._index
    idxFile,  \* the file at faiss_index_path
    metaFile, \* the file at faiss_meta_path
    alone,    \* history: calls whose work nobody else has interfered with
    crashes   \* crashes so far

vars == <<stores, embedder, now, call, job, entries, index, idxFile, metaFile, alone, crashes>>

files     == <<idxFile, metaFile>>
retriever == <<entries, index>>
cache     == <<stores, embedder, now>>

Kinds == {"rank", "publish", "warm", "add", "restore"}

ASSUME IndexAssumption ==
    /\ Scenarios \subseteq [Calls -> [kind : Kinds, texts : Seq(Texts)]]
    /\ Missing \notin Seq(Texts) /\ Torn \notin Seq(Texts) /\ Missing # Torn
    /\ MaxCrashes \in Nat

Init ==
    /\ job \in Scenarios
    /\ stores = <<>> /\ embedder = 0 /\ now = 0
    /\ call = [c \in Calls |-> LocalsAt("new")]
    /\ entries = <<>> /\ index = Missing
    /\ idxFile = Missing /\ metaFile = Missing
    /\ alone = {} /\ crashes = 0

\* A vector for each of the texts, in their order.
Fits(vectors, texts) ==
    /\ vectors \notin {Missing, Torn} /\ texts \notin {Missing, Torn}
    /\ Len(vectors) = Len(texts)
    /\ \A n \in DOMAIN texts : Prefix[vectors[n]] = Prefix[texts[n]]

\* c has written the retriever or a file: nobody else's work is undisturbed,
\* and c's own is while it started on parts that fit.
Writes(c)         == alone' = alone \cap {c}
StartsOn(c, fits) == alone' = IF fits THEN {c} ELSE {}

----------------------------------------------------------------------------
(* Calls begin *)

\* /index/build and /cache/warm run on the event loop and do not await.
OnLoop(c) == job[c].kind \in {"publish", "warm"}
LoopFree  == \A c \in Calls : OnLoop(c) => call[c].pc \in {"new", "built", "opening", "writing",
                                                          "pickling", "saved", "warmed", "failed", "crashed"}

\* self._entries = list(entries)
BuildIndex(c) ==
    /\ \/ /\ call[c].pc = "new" /\ job[c].kind \in {"rank", "publish"}
          /\ OnLoop(c) => LoopFree
       \/ call[c].pc = "new" /\ job[c].kind = "add" /\ index = Missing
       \/ call[c].pc = "building"
    /\ job[c].texts # <<>>
    /\ entries' = job[c].texts
    /\ call' = [call EXCEPT ![c].pc = "embed", ![c].goal = "build", ![c].texts = job[c].texts]
    /\ StartsOn(c, TRUE)
    /\ UNCHANGED <<cache, job, index, files, crashes>>

\* add_to_index, when there is an index.
AddToIndex(c) ==
    /\ call[c].pc = "new" /\ job[c].kind = "add" /\ index # Missing
    /\ call' = [call EXCEPT ![c].pc = "embed", ![c].goal = "add", ![c].texts = job[c].texts]
    /\ UNCHANGED <<cache, job, retriever, files, alone, crashes>>

WarmCache(c) ==
    /\ call[c].pc = "new" /\ job[c].kind = "warm" /\ LoopFree
    /\ call' = [call EXCEPT ![c].pc = "embed", ![c].goal = "warm", ![c].texts = job[c].texts]
    /\ UNCHANGED <<cache, job, retriever, files, alone, crashes>>

\* load_index needs both files; load_or_build builds without them.
FindFiles(c) ==
    /\ call[c].pc = "new" /\ job[c].kind = "restore"
    /\ Goes(c, IF Missing \in {idxFile, metaFile} THEN "building" ELSE "reading")
    /\ UNCHANGED <<cache, job, retriever, files, alone, crashes>>

----------------------------------------------------------------------------
(* Calls go on *)

Embed(c) == EmbedStep(c) /\ UNCHANGED <<job, retriever, files, alone, crashes>>

\* The new index is published; some calls save it.
PublishIndex(c) ==
    /\ call[c].pc = "embedded" /\ call[c].goal = "build"
    /\ index' = call[c].result
    /\ Ends(c, "built")
    /\ Writes(c)
    /\ UNCHANGED <<cache, job, entries, files, crashes>>

\* self._index.add(embeddings)
AddVectors(c) ==
    /\ call[c].pc = "embedded" /\ call[c].goal = "add"
    /\ index' = index \o call[c].result
    /\ Goes(c, "adding")
    /\ StartsOn(c, Fits(index, entries))
    /\ UNCHANGED <<cache, job, entries, files, crashes>>

\* self._entries.extend(entries)
ExtendEntries(c) ==
    /\ call[c].pc = "adding"
    /\ entries' = entries \o call[c].texts
    /\ Ends(c, "added")
    /\ Writes(c)
    /\ UNCHANGED <<cache, job, index, files, crashes>>

Warmed(c) ==
    /\ call[c].pc = "embedded" /\ call[c].goal = "warm"
    /\ Ends(c, "warmed")
    /\ UNCHANGED <<cache, job, retriever, files, alone, crashes>>

\* save_index, as a background task or at the end of load_or_build: write_index
\* opens its file, and then writes the index it was called with.
OpenIndexFile(c) ==
    /\ call[c].pc = "built" /\ job[c].kind \in {"publish", "restore"}
    /\ idxFile' = Torn
    /\ call' = [call EXCEPT ![c].pc = "opening", ![c].result = index]
    /\ StartsOn(c, Fits(index, entries))
    /\ UNCHANGED <<cache, job, retriever, metaFile, crashes>>

WriteIndexFile(c) ==
    /\ call[c].pc = "opening"
    /\ idxFile' = call[c].result
    /\ Ends(c, "writing")
    /\ Writes(c)
    /\ UNCHANGED <<cache, job, retriever, metaFile, crashes>>

\* A mutant of OpenMetaFile: the entries are taken to be saved already.
KeepMetaFile(c) ==
    /\ call[c].pc = "writing"
    /\ metaFile' = IF metaFile = Missing THEN Torn ELSE metaFile
    /\ Goes(c, IF metaFile = Missing THEN "pickling" ELSE "saved")
    /\ Writes(c)
    /\ UNCHANGED <<cache, job, retriever, idxFile, crashes>>

OpenMetaFile(c) ==
    /\ call[c].pc = "writing"
    /\ metaFile' = Torn
    /\ Goes(c, "pickling")
    /\ Writes(c)
    /\ UNCHANGED <<cache, job, retriever, idxFile, crashes>>

\* The entries are read only now.
WriteMetaFile(c) ==
    /\ call[c].pc = "pickling"
    /\ metaFile' = entries
    /\ Ends(c, "saved")
    /\ Writes(c)
    /\ UNCHANGED <<cache, job, retriever, idxFile, crashes>>

\* load_index: the index is replaced before the entries are read.
ReadIndexFile(c) ==
    /\ call[c].pc = "reading"
    /\ IF idxFile = Torn
       THEN Ends(c, "failed") /\ UNCHANGED <<index, alone>>
       ELSE /\ index' = idxFile
            /\ Goes(c, "unpickling")
            /\ StartsOn(c, Fits(idxFile, metaFile))
    /\ UNCHANGED <<cache, job, entries, files, crashes>>

ReadMetaFile(c) ==
    /\ call[c].pc = "unpickling"
    /\ IF metaFile = Torn
       THEN Ends(c, "failed") /\ UNCHANGED <<entries, alone>>
       ELSE /\ entries' = metaFile
            /\ Ends(c, "loaded")
            /\ Writes(c)
    /\ UNCHANGED <<cache, job, index, files, crashes>>

Ended == {"built", "added", "warmed", "saved", "loaded", "failed", "crashed"}

\* The process ends and starts anew; only the files remain.
Crash ==
    /\ crashes < MaxCrashes
    /\ crashes' = crashes + 1
    /\ stores' = <<>> /\ embedder' = 0
    /\ entries' = <<>> /\ index' = Missing
    /\ call' = [c \in Calls |-> IF call[c].pc \in {"new", "saved"} THEN call[c]
                                ELSE LocalsAt("crashed")]
    /\ alone' = {c \in alone : call[c].pc = "saved"}
    /\ UNCHANGED <<now, job, files>>

Step(c) ==
    \/ BuildIndex(c) \/ AddToIndex(c) \/ WarmCache(c) \/ FindFiles(c) \/ Embed(c)
    \/ PublishIndex(c) \/ AddVectors(c) \/ ExtendEntries(c) \/ Warmed(c)
    \/ OpenIndexFile(c) \/ WriteIndexFile(c) \/ OpenMetaFile(c) \/ WriteMetaFile(c)
    \/ ReadIndexFile(c) \/ ReadMetaFile(c)

Rest == (\A c \in Calls : call[c].pc \in Ended) /\ UNCHANGED vars

Next ==
    \/ \E c \in Calls : Step(c)
    \/ Tick /\ UNCHANGED <<job, retriever, files, alone, crashes>>
    \/ Crash
    \/ Rest

Spec == Init /\ [][Next]_vars

----------------------------------------------------------------------------
(* Properties *)

\* Nothing checks that the two files, or the index and the entries, belong
\* together.  They do after any call that nobody has interfered with: a build
\* or an addition leaves an index with a vector for each entry, in order, a
\* save leaves complete files that fit, also after a crash, and restoring from
\* such files does not fail and brings back an index that fits its entries.
UndisturbedSaveRestores ==
    \A c \in alone :
        /\ call[c].pc \in {"built", "added", "loaded"} => Fits(index, entries)
        /\ call[c].pc = "saved" => Fits(idxFile, metaFile)
        /\ call[c].pc = "unpickling" => metaFile # Torn
=============================================================================
