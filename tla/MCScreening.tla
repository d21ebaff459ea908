----------------------------- MODULE MCScreening -----------------------------
(***************************************************************************)
(* A small instance of Screening for TLC: texts that the word overlap, the *)
(* keywords and the model judge differently, bodies with every kind of id, *)
(* and answers of the model with every kind of item.                       *)
(***************************************************************************)
EXTENDS Screening

Deployed(reranker, database, faiss) ==
    [reranker |-> reranker, database |-> database, faiss |-> faiss]

\* Only the hosted model makes use of the database, and only beside the local
\* ones can there be an index by FAISS.
MCHosted == {Deployed("hosted", TRUE, FALSE)}
MCLocal  == {Deployed(model, FALSE, faiss) : model \in {"cross", "llama"}, faiss \in BOOLEAN}
MCDeployments == MCHosted \cup MCLocal \cup
                 {Deployed("hosted", FALSE, FALSE), Deployed("lexical", FALSE, FALSE)}

MCSymmetry == Permutations(Calls)

\* Calls meet in the answer cache only: without it one of them shows everything.
OneUnlessShared ==
    deployed.database \/ \E r \in Calls : \A s \in Calls \ {r} : call[s] = Idle

\* A matching resume, a long one with all the keywords, an irrelevant one, a
\* near duplicate of the long one, one of three words; two descriptions.
MCTokens == [good |-> {1, 2, 3, 5}, long |-> {1, 2, 3} \cup 10 .. 12, bad |-> {4, 33},
             twin |-> {1, 2, 3} \cup 10 .. 13, stub |-> {1, 2},
             jd |-> {1, 2, 3, 4}, blank |-> {}]
MCTexts == DOMAIN MCTokens
MCWordCount == [good |-> 60, long |-> 40, bad |-> 50, twin |-> 70, stub |-> 3,
                jd |-> 4, blank |-> 0]
MCLongTexts == {"twin"}

MCIds == {"a", "b", "c", "d", "e", " a", " ", ""}
MCStrip == [id \in MCIds |-> CASE id = " a" -> "a" [] id = " " -> "" [] OTHER -> id]

\* Words 1 and 2 are technical terms, 4 is a stop word, 3 is part of 33.
MCPartOf == {<<3, 33>>}
MCCosine == [pair \in MCTexts \X MCTexts |->
                CASE pair[2] = "good" -> 800 [] pair[2] = "long" -> 700
                  [] pair[2] = "bad" -> 300 [] OTHER -> 650]
MCDiscount == <<1000, 631, 500, 431>>

Of(ids, texts) == [i \in DOMAIN ids |-> [id |-> ids[i], text |-> texts[i]]]
Body(kind, jd, resumes, topN, skip, relevant) ==
    [kind |-> kind, jd |-> jd, resumes |-> resumes, topN |-> topN, skip |-> skip,
     relevant |-> relevant, ks |-> IF kind = "evaluate" THEN {} ELSE {0, 1, 2, 4}]

Four == Of(<<"a", "b", "c", "d">>, <<"bad", "good", "long", "twin">>)

MCBodies == {
    Body("rank", "jd", Four, 4, FALSE, {"b", "c"}),
    Body("batch", "jd", Of(<<"a", "a", "b">>, <<"stub", "long", "good">>), 3, FALSE, {"a"}),
    Body("rank", "jd", Of(<<"a", "b", "a">>, <<"good", "bad", "long">>), 2, FALSE, {"a"}),
    Body("rank", "jd", Of(<<" a", "b">>, <<"good", "long">>), 2, FALSE, {}),
    Body("rank", "jd", Of(<<" a">>, <<"good">>), 1, FALSE, {}),
    Body("batch", "jd", Of(<<" ", "b">>, <<"good", "stub">>), 2, FALSE, {}),
    Body("rank", "blank", Of(<<"a">>, <<"good">>), 1, FALSE, {}),
    Body("rank", "jd", Of(<<" ", "b">>, <<"stub", "good">>), 1, TRUE, {"b"}),
    Body("evaluate", "jd", Of(<<"a", "b", "c">>, <<"bad", "good", "long">>), 1, FALSE, {"a", "b"}),
    Body("evaluate", "jd", Of(<<"a", "b", "c", "d", "e">>, <<"bad", "good", "long", "twin", "stub">>),
         1, FALSE, {"b", "e"})}

Item(index, score) == [index |-> index, score |-> score]
List(items) == [form |-> "list", items |-> items]

\* Complete; without indexes and cut off; wrapped, with an index twice, one
\* out of range and scores outside the scale; with a narrow top; without any
\* usable item; empty; not a list.
MCAnswers == {
    List(<<Item(0, 90), Item(1, 50), Item(2, 10)>>),
    List(<<Item(Absent, 20), Item(Absent, 95), Item(Absent, Absent)>>),
    [form |-> "wrapped", items |-> <<Item(2, 85), Item(0, 70), Item(0, 120), Item(7, 50), Item(1, -5)>>],
    List(<<Item(0, 72), Item(1, 5), Item(2, 71)>>),
    List(<<Item(Absent, Absent), Item(9, 40)>>),
    List(<<>>),
    [form |-> "other", items |-> <<>>]}

MCLocalScores == {150, 600, 900}
=============================================================================
