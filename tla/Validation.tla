----------------------------- MODULE Validation -----------------------------
(***************************************************************************)
(* The input validator (app/validator.py) and the filter that the ranking  *)
(* handlers of app/main.py put behind it.                                  *)
(*                                                                         *)
(* Data abstraction.  A text is a name with what the program looks at: its *)
(* words as a set, their number, and whether it has more than the 10000    *)
(* characters that are embedded.  A resume id is a name with the id that   *)
(* strip() makes of it.                                                    *)
(***************************************************************************)
EXTENDS Integers, Sequences, FiniteSets, SequencesExt

CONSTANTS
    Texts,     \* job descriptions and resumes
    Tokens,    \* Tokens[t]: the set of words of the text t
    WordCount, \* WordCount[t]: how many words it has, repetitions included
    LongTexts, \* the texts longer than MAX_CHARS_WARNING
    Ids,       \* resume ids as clients send them
    Strip,     \* Strip[id]: the id without surrounding blanks
    NoId       \* the empty id, what strip() leaves of blanks

ASSUME ValidationAssumption ==
    /\ WordCount \in [Texts -> Nat]
    /\ LongTexts \subseteq Texts
    /\ NoId \in Ids
    /\ Strip \in [Ids -> Ids]
    /\ \A id \in Ids : Strip[Strip[id]] = Strip[id]
    /\ \A t \in Texts : IsFiniteSet(Tokens[t])

MinWordsError == 5
MinJdWords    == 20
ShortTexts    == {t \in Texts : WordCount[t] < 50}  \* MIN_WORDS_WARNING

\* The places of before in their order: before[i] are those that precede i.
InOrder(before) ==
    [p \in 1 .. Cardinality(DOMAIN before) |->
        CHOOSE i \in DOMAIN before : Cardinality(before[i]) = p - 1]

\* The elements of a list at some of its places, as a comprehension keeps them.
Kept(s, places) ==
    LET at == InOrder([i \in places |-> {j \in places : j < i}])
    IN  [p \in DOMAIN at |-> s[at[p]]]

Issue(id, code, severity) == [id |-> id, code |-> code, severity |-> severity]

\* |A /\ B| / |A \/ B| as a pair of numbers.
Common(a, b) == Cardinality(Tokens[a] \cap Tokens[b])
Either(a, b) == Cardinality(Tokens[a] \cup Tokens[b])

\* The Jaccard similarity of two texts reaches 0.85.
NearDuplicate(a, b) ==
    /\ Tokens[a] # {} /\ Tokens[b] # {}
    /\ 100 * Common(a, b) >= 85 * Either(a, b)

JdIssues(jd) ==
    IF WordCount[jd] = 0 THEN {Issue(NoId, "JD_EMPTY", "error")}
    ELSE IF WordCount[jd] < MinJdWords THEN {Issue(NoId, "JD_TOO_SHORT", "warning")}
    ELSE {}

\* The reason to reject a resume, the first that applies; "" if there is none.
RejectCode(rid, text, seen) ==
    IF rid = NoId THEN "MISSING_ID"
    ELSE IF rid \in seen THEN "DUPLICATE_ID"
    ELSE IF WordCount[text] = 0 THEN "EMPTY_TEXT"
    ELSE IF WordCount[text] < MinWordsError THEN "TOO_SHORT_REJECT"
    ELSE ""

\* What is only remarked about a resume that is kept.
Remarks(rid, text) ==
    {Issue(rid, "LOW_CONTENT", "warning") : t \in {text} \cap ShortTexts}
    \cup {Issue(rid, "TRUNCATED", "info") : t \in {text} \cap LongTexts}

\* The loop over the resumes: accepted ones are seen by those that follow.
Examine(acc, resume) ==
    LET rid  == Strip[resume.id]
        code == RejectCode(rid, resume.text, {c.id : c \in ToSet(acc.cleaned)})
    IN  IF code # ""
        THEN [acc EXCEPT !.issues = @ \cup {Issue(rid, code, "error")},
                         !.rejected = Append(@, rid)]
        ELSE [acc EXCEPT !.issues = @ \cup Remarks(rid, resume.text),
                         !.cleaned = Append(@, [id |-> rid, text |-> resume.text])]

\* A warning for each pair of accepted texts that are nearly the same.
DuplicateIssues(cleaned) ==
    {Issue(cleaned[i].id, "NEAR_DUPLICATE", "warning") :
        i \in {n \in DOMAIN cleaned : \E j \in DOMAIN cleaned :
                  n < j /\ NearDuplicate(cleaned[n].text, cleaned[j].text)}}

\* InputValidator.validate: a job description without words ends it.
Validate(jd, resumes) ==
    LET start == [issues |-> JdIssues(jd), cleaned |-> <<>>, rejected |-> <<>>]
        all   == IF WordCount[jd] = 0 THEN start ELSE FoldLeft(Examine, start, resumes)
    IN  [issues   |-> all.issues \cup DuplicateIssues(all.cleaned),
         cleaned  |-> all.cleaned,
         rejected |-> all.rejected,
         valid    |-> all.cleaned # <<>>]

\* A mutant of Submitted: without those whose id was rejected.
NotRejected(resumes, verdict) ==
    Kept(resumes, {i \in DOMAIN resumes : resumes[i].id \notin ToSet(verdict.rejected)})

\* The handlers do not rank the cleaned list: they keep those of the resumes
\* they were sent whose id, as it was sent, is among the accepted ones.
Submitted(resumes, verdict) ==
    LET valid == {c.id : c \in ToSet(verdict.cleaned)}
    IN  Kept(resumes, {i \in DOMAIN resumes : resumes[i].id \in valid})
=============================================================================
