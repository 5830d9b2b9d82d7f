---------------------------- MODULE ResearchLoops ----------------------------
(* Three ways to search more than once for one question: the agentic loop    *)
(* (app/agent/retrieval_loop.py: search, grade, rewrite, answer or refuse),  *)
(* deep research (app/agent/deep_research.py: several queries fused into a   *)
(* scratchpad with a token budget) and the corrective retrieval of the bench *)
(* (app/agent/corrective.py, applied by app/eval/harness.py).  What a search *)
(* finds is any list of chunks.                                              *)
EXTENDS Naturals, Sequences, FiniteSets, SequencesExt, FiniteSetsExt, Lists

CONSTANTS
    Chunks,
    Resolves,     \* chunks with a path and a byte range that is one
    Cost,         \* tokens of each chunk
    Newer,        \* the current version of each chunk's file, as a chunk
    MaxIters, MinRelevant,
    MaxCited,     \* hits that are cited (8)
    MaxQuoted,    \* hits whose text the built-in generators use (4, or 8 for a model)
    NQueries, Budget,
    RrfScale,     \* a common multiple of RrfK + rank
    RrfK

LoopsAssumption ==
    /\ Resolves \subseteq Chunks
    /\ Cost \in [Chunks -> Nat \ {0}] /\ Newer \in [Chunks -> Chunks]
    /\ {MaxIters, MinRelevant, MaxCited, MaxQuoted, NQueries, RrfScale, RrfK} \subseteq Nat \ {0}
    /\ Budget \in Nat /\ MaxQuoted <= MaxCited
    /\ \A r \in 1 .. Cardinality(Chunks) : RrfScale % (RrfK + r) = 0

VARIABLES
    way,        \* "none" yet, "loop", "deep" or "corrective"
    relevant,   \* the chunks whose grade for the question passes
    label,      \* what classify_chunk makes of each chunk
    complex,    \* the question splits into sub-questions
    pc, lists,  \* the searches made so far
    hits,       \* the hits of the answer, best first
    strategy,   \* of determine_correction
    answer

loopVars == <<way, relevant, label, complex, pc, lists, hits, strategy, answer>>
question == <<way, relevant, label, complex>>

Labels == {"correct", "ambiguous", "incorrect"}
Found == UNION {SetToSeqs(S) : S \in SUBSET Chunks}
NoAnswer == [failed |-> "", confidence |-> "", citations |-> <<>>, quoted |-> <<>>, weighed |-> <<>>]
Only(list, S) == Without(list, ToSet(list) \ S)
Last1(s) == s[Len(s)]

LoopInit ==
    /\ way = "none" /\ relevant = {} /\ label = [c \in Chunks |-> "correct"]
    /\ complex = FALSE /\ pc = "ask" /\ lists = <<>> /\ hits = <<>> /\ strategy = ""
    /\ answer = NoAnswer

(* A question, with what the graders will say of each chunk for it.          *)
Ask ==
    /\ pc = "ask" /\ pc' = "search"
    /\ \/ way' \in {"loop", "deep"} /\ relevant' \in SUBSET Chunks
          /\ UNCHANGED <<label, complex>>
       \/ way' = "corrective" /\ label' \in [Chunks -> Labels] /\ complex' \in BOOLEAN
          /\ UNCHANGED relevant
    /\ UNCHANGED <<lists, hits, strategy, answer>>

Refuse(reason, confidence, cited) ==
    answer' = [failed |-> reason, confidence |-> confidence, citations |-> cited,
               quoted |-> <<>>, weighed |-> <<>>]
(* The generator is handed all the sources: extractive_answer quotes the     *)
(* first few and weighs all of them for conflicts.                           *)
Reply(confidence, cited, sources) ==
    answer' = [failed |-> "", confidence |-> confidence, citations |-> cited,
               quoted |-> FirstOf(sources, MaxQuoted), weighed |-> sources]

----------------------------------------------------------------------------
(* RetrievalAgent._execute: the grades are for the question as it was asked, *)
(* whatever it was rewritten to, and those of the last search count.         *)
Enough(list) == Len(Only(list, relevant)) >= MinRelevant
LoopSearch(list) ==
    /\ way = "loop" /\ pc = "search"
    /\ lists' = Append(lists, list)
    /\ pc' = IF Enough(list) \/ Len(lists') = MaxIters THEN "answer" ELSE "search"
    /\ UNCHANGED <<question, hits, strategy, answer>>

RelevantFirst(list) == IF Only(list, relevant) # <<>> THEN Only(list, relevant) ELSE list
LoopAnswer ==
    /\ way = "loop" /\ pc = "answer" /\ pc' = "done"
    /\ LET chosen == RelevantFirst(Last1(lists))
           cited == FirstOf(chosen, MaxCited)
       IN /\ hits' = chosen
          /\ CASE chosen = <<>> -> Refuse("empty_retrieval", "empty", <<>>)
               [] ToSet(cited) \ Resolves # {} ->
                     Refuse("unresolvable_citation", "unsupported", cited)
               [] OTHER -> Reply(IF ToSet(chosen) \subseteq relevant THEN "high" ELSE "low",
                                 cited, chosen)
    /\ UNCHANGED <<question, lists, strategy>>

----------------------------------------------------------------------------
(* DeepResearchAgent.run: expand_queries pads with the question itself when  *)
(* it finds too few alternatives, and a list may then count twice.           *)
DeepSearch(list) ==
    /\ way = "deep" /\ pc = "search"
    /\ lists' = Append(lists, list)
    /\ pc' = IF Len(lists') = NQueries THEN "answer" ELSE "search"
    /\ UNCHANGED <<question, hits, strategy, answer>>

RankIn(list, c) == CHOOSE i \in DOMAIN list : list[i] = c
Share(list, c) == IF c \in ToSet(list) THEN RrfScale \div (RrfK + RankIn(list, c)) ELSE 0
Score(ls, c) == Total([i \in DOMAIN ls |-> Share(ls[i], c)])
Seen(ls) ==
    LET seen[i \in 0 .. Len(ls)] ==
            IF i = 0 THEN <<>> ELSE seen[i - 1] \o Without(ls[i], ToSet(seen[i - 1]))
    IN seen
FirstSeen(ls) == Seen(ls)[Len(ls)]
RrfUnion(ls) ==
    LET all == FirstSeen(ls)
        score == [i \in DOMAIN all |-> Score(ls, all[i])]
        ahead == [i \in DOMAIN all |-> {j \in DOMAIN all :
                     score[j] > score[i] \/ (score[j] = score[i] /\ j < i)}]
        order == Sorted(DOMAIN all, ahead)
    IN [n \in DOMAIN order |-> all[order[n]]]

(* prefer_current, for a question that does not compare versions.            *)
PreferCurrent(list) ==
    Without(list, {c \in ToSet(list) : Newer[c] # c /\ Newer[c] \in ToSet(list)})

(* Scratchpad.add_hits: a chunk that does not fit is passed over.            *)
Used(pad) == Total([i \in DOMAIN pad |-> Cost[pad[i]]])
Fits(used, c) == used < Budget /\ used + Cost[c] <= Budget
Added(pad, c) == IF Fits(Used(pad), c) /\ c \notin ToSet(pad) THEN Append(pad, c) ELSE pad
Pads(list) ==
    LET pad[i \in 0 .. Len(list)] == IF i = 0 THEN <<>> ELSE Added(pad[i - 1], list[i])
    IN pad
AddHits(list) == Pads(list)[Len(list)]
CanRespond(pad) == pad # <<>> /\ ToSet(pad) \subseteq Resolves

DeepAnswer ==
    /\ way = "deep" /\ pc = "answer" /\ pc' = "done"
    /\ \E fused \in {PreferCurrent(RrfUnion(lists))} :
       \E pad \in {AddHits(RelevantFirst(fused))} :
          /\ hits' = fused
          /\ \/ CanRespond(pad) /\ Reply("high", pad, pad)
             \/ ~CanRespond(pad) /\ Refuse("empty_scratchpad", "empty", <<>>)
    /\ UNCHANGED <<question, lists, strategy>>

----------------------------------------------------------------------------
(* determine_correction, over the labels of the hits that would be shown.    *)
Labelled(list, l) == Cardinality({i \in DOMAIN list : label[list[i]] = l})
CorrectEnough(list) == 10 * Labelled(list, "correct") >= 3 * Len(list)
DetermineCorrection(list) ==
    CASE list = <<>> -> "none"   \* the harness corrects only what was found
      [] list # <<>> /\ CorrectEnough(list) -> "none"
      [] list # <<>> /\ ~CorrectEnough(list)
         /\ Labelled(list, "ambiguous") > Labelled(list, "incorrect") -> "refine"
      [] OTHER -> IF complex THEN "decompose" ELSE "rewrite"

FirstRetrieval(list) ==
    /\ way = "corrective" /\ pc = "search" /\ lists = <<>>
    /\ lists' = <<list>> /\ hits' = list
    /\ strategy' = DetermineCorrection(FirstOf(list, MaxCited))
    /\ pc' = IF strategy' \in {"rewrite", "decompose"} THEN "search" ELSE "answer"
    /\ UNCHANGED <<question, answer>>

(* Mutant: hits that are there already are appended again.                  *)
AppendAll(list) == hits \o list

AppendNew(list) == hits \o Without(list, ToSet(hits))
(* One more search for the rewritten question, one for each of two parts.    *)
Correct(list) ==
    /\ way = "corrective" /\ pc = "search" /\ lists # <<>>
    /\ lists' = Append(lists, list) /\ hits' = AppendNew(list)
    /\ pc' = IF strategy = "decompose" /\ Len(lists') = 2 THEN "search" ELSE "answer"
    /\ UNCHANGED <<question, strategy, answer>>

CorrectedAnswer ==
    /\ way = "corrective" /\ pc = "answer" /\ pc' = "done"
    /\ hits' = PreferCurrent(hits)
    /\ UNCHANGED <<question, lists, strategy, answer>>

Searches == \E list \in Found : LoopSearch(list) \/ DeepSearch(list)
                                \/ FirstRetrieval(list) \/ Correct(list)
Answers == LoopAnswer \/ DeepAnswer \/ CorrectedAnswer
LoopNext == Ask \/ Searches \/ Answers
LoopSpec == LoopInit /\ [][LoopNext]_loopVars

----------------------------------------------------------------------------
Answered == pc = "done" /\ way # "corrective" /\ answer.failed = ""
FoundAtAll == UNION {ToSet(l) : l \in ToSet(lists)}

(* Nothing is answered without evidence: an answer cites chunks that were    *)
(* found, each resolvable and once, and quotes none that it does not cite;   *)
(* deep research keeps to its token budget, and weighs what it cites.  The   *)
(* loop cites the head of what it weighs, so that a conflict may be noted    *)
(* with a file that is not cited; but no chunk that fails its grade in the   *)
(* last search is weighed beside one that passes, every one that passes is   *)
(* weighed, and confidence is high only when the cited chunks passed.        *)
AnswersGrounded ==
    Answered =>
        /\ answer.citations # <<>> /\ IsInjective(answer.citations)
        /\ ToSet(answer.citations) \subseteq Resolves \intersect FoundAtAll
        /\ ToSet(answer.quoted) \subseteq ToSet(answer.citations)
        /\ way = "deep" => Used(answer.citations) <= Budget /\ answer.weighed = answer.citations
        /\ way = "loop" =>
              LET passing == ToSet(Last1(lists)) \intersect relevant
              IN /\ passing # {} => ToSet(answer.weighed) = passing
                 /\ passing = {} => answer.weighed = Last1(lists)
                 /\ answer.citations = FirstOf(answer.weighed, MaxCited)
                 /\ answer.confidence = "high" <=> passing # {}

(* Searching again loses nothing and keeps every hit once: a hit is missing  *)
(* from the corrected list only when the current version of its file is in   *)
(* it.                                                                       *)
CorrectionKeepsHits ==
    pc = "done" /\ way = "corrective" =>
        /\ IsInjective(hits)
        /\ \A c \in FoundAtAll \ ToSet(hits) :
              Newer[c] # c /\ Newer[c] \in FoundAtAll
=============================================================================
