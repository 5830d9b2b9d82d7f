------------------------------ MODULE Evidence ------------------------------
(* What an answer may claim from what it cites: the byte ranges of citations *)
(* (app/agent/citation_verify.py, generate.py), explicit structured facts    *)
(* (app/agent/evidence_checks.py) and conflicts in the retrieved set         *)
(* (app/graph/conflicts.py).                                                 *)
(*                                                                           *)
(* A text is a sequence of bytes, each a character of one byte or the first  *)
(* of a character whose other byte is SecondByte; numbers and words are      *)
(* texts, so that a cited range may end inside of one.  A list that the code *)
(* only asks for its members is a set.                                       *)
EXTENDS Integers, Sequences, FiniteSets, SequencesExt, Lists

CONSTANTS SecondByte, None,
          Separators,       \* bytes that are part of no word and no number
          NegationPairs     \* phrases that contradict each other

(* _literal_found: no part of a longer word or number, as far as text goes.  *)
LiteralFound(value, text) ==
    \E i \in DOMAIN text :
       /\ Stands(text, i, value)
       /\ i > 1 => text[i - 1] \in Separators
       /\ i + Len(value) - 1 < Len(text) => text[i + Len(value)] \in Separators

WholeCharacters(text, from, to) ==     \* bytes from+1 .. to decode as UTF-8
    /\ text[from + 1] # SecondByte
    /\ to < Len(text) => text[to + 1] # SecondByte

----------------------------------------------------------------------------
(* cited_chunks: a chunk is [path, lo, hi, raw, verbatim], its raw text None *)
(* when the chunk was rewritten for the search and kept no source span.      *)
Source(chunk) == IF chunk.verbatim THEN chunk.raw ELSE None

Ranged(cite) == cite.start # None \/ cite.end # None
WellFormed(cite) ==
    Ranged(cite) => /\ cite.start # None /\ cite.end # None
                    /\ 0 <= cite.start /\ cite.start < cite.end

Covers(chunk, cite) ==
    /\ Len(chunk.raw) = chunk.hi - chunk.lo
    /\ chunk.lo <= cite.start /\ cite.end <= chunk.hi
    /\ WholeCharacters(chunk.raw, cite.start - chunk.lo, cite.end - chunk.lo)

Sliced(chunk, cite) ==
    IF Ranged(cite)
    THEN [path |-> chunk.path, lo |-> cite.start, hi |-> cite.end,
          text |-> SubSeq(chunk.raw, cite.start - chunk.lo + 1, cite.end - chunk.lo)]
    ELSE [path |-> chunk.path, lo |-> chunk.lo, hi |-> chunk.hi, text |-> chunk.raw]

CitedChunks(evidence, citations) ==
    {Sliced(p[1], p[2]) : p \in {p \in evidence \X citations :
        LET chunk == p[1] cite == p[2]
        IN /\ WellFormed(cite) /\ chunk.path = cite.path /\ Source(chunk) # None
           /\ Ranged(cite) => Covers(chunk, cite)}}

(* verify_claims with cited_only: a claim is [value, path, words], value and *)
(* path None when the sentence has none.                                     *)
ScopeOf(claim, scope) ==
    IF claim.path = None THEN scope ELSE {c \in scope : c.path = claim.path}
Supports(scope, value) == \E c \in scope : LiteralFound(value, c.text)
FuzzyMatch(claim, scope) ==
    10 * Cardinality({w \in claim.words : \E c \in scope : Holds(c.text, w)})
        >= 6 * Cardinality(claim.words)

Verdict(claim, evidence, citations) ==
    LET scope == ScopeOf(claim, CitedChunks(evidence, citations))
        cited == {c.path : c \in scope}
    IN IF claim.path # None /\ claim.path \notin {c.path : c \in evidence}
       THEN "missing_citation"
       ELSE IF claim.value # None
            THEN IF Supports(scope, claim.value) THEN "verified" ELSE "hallucinated"
            ELSE IF claim.path \in cited \/ FuzzyMatch(claim, scope) THEN "verified"
                 ELSE "unverified"

(* extract_claims, verify_claims: a sentence is [short, values, paths,       *)
(* asserts, words]; each of its numbers is a claim of the file it names      *)
(* first, and one without numbers is a claim if it names a file or asserts.  *)
ExtractClaims(sentences) ==
    LET ClaimsOf(i) ==
            LET said == sentences[i]
                path == IF said.paths = <<>> THEN None ELSE said.paths[1]
                values == IF said.values # {} THEN said.values
                          ELSE IF path # None \/ said.asserts THEN {None} ELSE {}
            IN IF said.short THEN {}
               ELSE {[at |-> i, value |-> v, path |-> path, words |-> said.words] : v \in values}
    IN UNION {ClaimsOf(i) : i \in DOMAIN sentences}
VerifyAnswer(sentences, evidence, citations) ==
    LET claims == ExtractClaims(sentences)
        verified == {c \in claims : Verdict(c, evidence, citations) = "verified"}
    IN [claims |-> claims, verified |-> verified,
        passes |-> 2 * Cardinality(verified) >= Cardinality(claims)]

(* cited_answer: the tags of a model's reply against the retrieved chunks.   *)
Tag(chunk) == <<chunk.path, chunk.lo, chunk.hi>>
CitedAnswer(tags, abstained, hits) ==
    LET valid == tags \intersect {Tag(h) : h \in hits}
    IN [citations |-> valid, unknown |-> tags \ valid,
        uncited |-> valid = {} /\ ~abstained]

----------------------------------------------------------------------------
(* compare_fact: a fact is [field, value, unit, negated, current], its field *)
(* standing for subject and field; a quantity is a dimension and a number,   *)
(* and None for a unit that is unknown.                                      *)
Quantity(fact) ==
    CASE fact.unit = "" -> <<"scalar", fact.value>>
      [] fact.unit = "m" -> <<"length", 10 * fact.value>>
      [] fact.unit = "dm" -> <<"length", fact.value>>
      [] OTHER -> None

(* Mutant: what is current or what is a number is not told apart.           *)
CompareIgnoringCurrency(claim, fact) ==
    LET l == Quantity(claim) r == Quantity(fact)
    IN CASE None \in {l, r} -> "unknown"
         [] None \notin {l, r} /\ l # r -> "conflict"
         [] OTHER -> IF claim.negated # fact.negated THEN "conflict" ELSE "supported"

CompareFact(claim, fact) ==
    LET l == Quantity(claim) r == Quantity(fact)
    IN IF claim.current = "yes" /\ fact.current # "yes"
       THEN IF fact.current = "no" THEN "conflict" ELSE "unknown"
       ELSE IF None \in {l, r} THEN "unknown"
       ELSE IF l[1] # r[1] THEN "conflict"
       ELSE IF l # r
            THEN IF claim.negated \/ fact.negated THEN "unknown" ELSE "conflict"
       ELSE IF claim.negated # fact.negated THEN "conflict" ELSE "supported"

(* verify_structured_claim, over the facts of the cited JSON documents.      *)
VerifyStructuredClaim(claim, facts) ==
    LET labels == {CompareFact(claim, f) : f \in {f \in facts : f.field = claim.field}}
    IN CASE labels = {} -> "unknown"
         [] "conflict" \in labels -> "conflict"
         [] labels = {"supported"} -> "supported"
         [] OTHER -> "unknown"

----------------------------------------------------------------------------
(* detect_structural_conflicts: one conflict for each field of an entity     *)
(* that several values are given for, with every file that gives one.        *)
DetectStructuralConflicts(hits) ==
    LET facts == UNION {{[of |-> h.entity, field |-> f[1], value |-> f[2], path |-> h.path] :
                         f \in h.facts} : h \in hits}
        slots == {[of |-> f.of, field |-> f.field] : f \in facts}
        In(slot) == {f \in facts : f.of = slot.of /\ f.field = slot.field}
    IN {[slot |-> s, values |-> {f.value : f \in In(s)}, paths |-> {f.path : f \in In(s)}] :
        s \in {s \in slots : Cardinality({f.value : f \in In(s)}) > 1}}

(* detect_semantic_conflicts: two files of which one says a phrase and the   *)
(* other its opposite, and what a model says of the hits together.           *)
Contradict(g, h) ==
    \E pair \in NegationPairs : \/ pair[1] \in g.claims /\ pair[2] \in h.claims
                                \/ pair[1] \in h.claims /\ pair[2] \in g.claims
DetectSemanticConflicts(hits, verdict) ==
    {[field |-> "conclusion", paths |-> {p[1].path, p[2].path}] :
        p \in {p \in hits \X hits : p[1].path # p[2].path /\ Contradict(p[1], p[2])}}
    \union (IF verdict = "conflict" /\ Cardinality(hits) > 1
            THEN {[field |-> "judge", paths |-> {h.path : h \in hits}]} ELSE {})
AnnotateForGenerator(hits, verdict) ==
    LET structural == DetectStructuralConflicts(hits)
        semantic == DetectSemanticConflicts(hits, verdict)
    IN [structural |-> structural, semantic |-> semantic, note |-> structural # {} \/ semantic # {}]
=============================================================================
