------------------------------ MODULE RankStages ------------------------------
(* The stages of a search in memory (app/retrieval): the route of a query    *)
(* (router.py, adaptive.py), its parts (app/agent/decompose.py), the words   *)
(* and paths that match (bm25.py, hybrid.py), the fused hits, and the        *)
(* rerankers (rerank.py, rankgpt.py, distill.py).  A query is                *)
(*   [signs, words, named, parts, short, asks]:                              *)
(* what the patterns of the router and of decompose find in it, its tokens,  *)
(* which of name, path and stem of each file it contains, and the fragments  *)
(* it may be cut into.  A chunk is [id, path, words], words a sequence.      *)
EXTENDS Scoring

CONSTANTS
    Idf,         \* weight of a term by the number of chunks it is in
    Sigmoid,     \* probability of each logit
    Weights,     \* the student's weight of each feature
    Window       \* the passages that RankGPT shows the model

ASSUME SigmoidAssumption ==
    \A i, j \in DOMAIN Sigmoid : i < j => Sigmoid[i] < Sigmoid[j]

(* QueryRouter.route: the first pattern that matches.                        *)
RouteOrder == <<"lexical_path", "aggregation_query", "research_artifact", "code_production">>
Route(query) ==
    LET found == {i \in DOMAIN RouteOrder : RouteOrder[i] \in query.signs}
    IN IF found = {} THEN "semantic" ELSE RouteOrder[Min(found)]
SkipsEmbed(route) == route = "lexical_path"
SkipsRerank(route) == route \in {"lexical_path", "aggregation_query"}

(* should_retrieve: an opening decides before any sign of the corpus.        *)
ShouldRetrieve(query) ==
    IF query.words = <<>> \/ "opening" \in query.signs THEN "skip"
    ELSE IF "corpus" \notin query.signs /\ query.short /\ ~query.asks THEN "uncertain"
    ELSE "retrieve"

(* should_decompose, heuristic_decompose and llm_decompose: the parts of a   *)
(* query, each once.  A part is a name; TooShort are lines of the model that *)
(* are five characters at most.                                              *)
ShouldDecompose(query) ==
    /\ Route(query) \notin {"lexical_path", "code_production"}
    /\ \/ query.signs \intersect {"compares", "superlative", "chain", "also"} # {}
       \/ Route(query) \in {"aggregation_query", "research_artifact"}
HeuristicDecompose(query) ==
    IF "compares" \in query.signs THEN Distinct(query.parts)
    ELSE IF "also" \in query.signs /\ Len(query.parts) > 1 THEN Distinct(query.parts)
    ELSE IF "superlative" \in query.signs THEN <<"list all", "whole">>
    ELSE IF "chain" \in query.signs THEN Distinct(query.parts)
    ELSE <<"whole">>
LlmDecompose(query, lines, maxSubs) ==
    LET kept == TopK(SelectSeq(lines, LAMBDA l : l # "short"), maxSubs)
    IN IF lines = <<>> THEN HeuristicDecompose(query)
       ELSE IF kept = <<>> THEN <<"whole">> ELSE Distinct(kept)

----------------------------------------------------------------------------
(* BM25Index, k1 = 3/2 and b = 3/4: a score is a sum, in hundredths, of      *)
(*   idf * 20 f T / (8 f T + 3 T + 9 l n)                                    *)
(* for f occurrences in a chunk of l of the T words of n chunks.             *)
TermCount(words, w) == Cardinality({i \in DOMAIN words : words[i] = w})
DocFrequency(chunks, w) == Cardinality({c \in chunks : w \in ToSet(c.words)})
TotalWords(chunks) == MapThenSumSet(LAMBDA c : Len(c.words), chunks)
TermScore(chunks, c, w) ==
    LET f == TermCount(c.words, w) total == TotalWords(chunks)
    IN IF f = 0 THEN 0
       ELSE (Idf[DocFrequency(chunks, w)] * 2000 * f * total)
            \div (8 * f * total + 3 * total + 9 * Len(c.words) * Cardinality(chunks))
ScoreDoc(chunks, words, c) == FoldSeq(LAMBDA w, s : TermScore(chunks, c, w) + s, 0, words)
InIndexOrder(chunks) == SetToSortSeq(chunks, LAMBDA c, d : c.id < d.id)
SearchBm25(chunks, words, k) ==
    LET score == [c \in chunks |-> ScoreDoc(chunks, words, c)]
    IN SelectSeq(TopK(SortedBy(InIndexOrder(chunks), LAMBDA c : score[c]), k), LAMBDA c : score[c] > 0)

(* search_path                                                               *)
PathScore(query, c) ==
    LET found == query.named[c.path]
    IN (IF "name" \in found THEN 5 ELSE 0) + (IF "path" \in found THEN 3 ELSE 0)
       + (IF "stem" \in found THEN 2 ELSE 0)
SearchPath(chunks, query, k) ==
    TopK(SortedBy(SelectSeq(InIndexOrder(chunks), LAMBDA c : PathScore(query, c) > 0),
                  LAMBDA c : PathScore(query, c)), k)

(* InMemoryHybridIndex.retrieve: the hits, each with the scores that the     *)
(* stages it passed gave it.                                                 *)
SearchLists(chunks, query, dense, router, k) ==
    LET route == IF router THEN Route(query) ELSE "semantic"
        words == SearchBm25(chunks, query.words, k)
    IN IF route = "lexical_path" THEN <<SearchPath(chunks, query, k), words>>
       ELSE <<words, TopK(dense, k)>>
FusedPairs(lists, k) ==
    LET ids == RrfFuse(lists, k)
    IN [i \in DOMAIN ids |-> [chunk |-> ids[i], score |-> RrfScore(lists, ids[i])]]
Chunks(pairs) == [i \in DOMAIN pairs |-> pairs[i].chunk]
----------------------------------------------------------------------------
(* The rerankers, from pairs [chunk, score] to pairs.                        *)
PairsBy(pairs, Score(_)) ==
    LET sorted == SortedBy(pairs, Score)
    IN [i \in DOMAIN sorted |-> [chunk |-> sorted[i].chunk, score |-> Score(sorted[i])]]

(* exact_token_hits and jaccard_overlap, in twelfths: exact for four words.  *)
WordOverlap(query, c) ==
    LET asked == ToSet(query.words) told == ToSet(c.words)
    IN IF asked = {} \/ told = {} THEN 0
       ELSE (12 * Cardinality({i \in DOMAIN query.words : query.words[i] \in told}))
                \div Len(query.words)
            + (12 * Cardinality(asked \intersect told)) \div Cardinality(asked \union told)
OverlapReranker(query, pairs) ==
    PairsBy(pairs, LAMBDA p :
        1000 * (WordOverlap(query, p.chunk) + (IF "name" \in query.named[p.chunk.path] THEN 3 ELSE 0))
        + p.score)

(* cross_encoder_scores: the library's own number, and the one on the scale. *)
Library(api, activation, logit) ==
    CASE api = "fn" -> IF activation = "activation_fn" THEN logit ELSE "TypeError"
      [] api = "fct" -> IF activation = "activation_fct" THEN logit ELSE "TypeError"
      [] api = "plain" -> IF activation = "none" THEN Sigmoid[logit] ELSE "TypeError"
      [] api = "normalize" -> Sigmoid[logit]
      [] api = "raw" -> logit
Raises(api, activation) ==
    \/ api = "fn" /\ activation = "activation_fct"
    \/ api = "fct" /\ activation = "activation_fn"
    \/ api = "plain" /\ activation # "none"
ScaledScore(api, logit) ==
    IF api \in {"fn", "fct", "plain"}
    THEN LET asked == {a \in {"activation_fn", "activation_fct"} : ~Raises(api, a)}
         IN IF asked = {} THEN Library(api, "none", logit)
            ELSE Sigmoid[Library(api, CHOOSE a \in asked : TRUE, logit)]
    ELSE IF api = "normalize" THEN Library(api, "none", logit)
    ELSE Sigmoid[Library(api, "none", logit)]
CrossEncoderReranker(api, logits, query, pairs) ==
    IF api = "unloaded" THEN OverlapReranker(query, pairs)
    ELSE PairsBy(pairs, LAMBDA p : ScaledScore(api, logits[p.chunk.id]))

(* RankGPTReranker: the model names passages by number, any numbers; without *)
(* a model the overlap decides, and the later of equal passages comes first. *)
ParsePermutation(nums, n) ==
    LET named == Distinct(SelectSeq(nums, LAMBDA i : i \in 1 .. n))
    IN named \o SetToSortSeq(1 .. n \ ToSet(named), <)
HeuristicPermutation(query, pairs) ==
    LET score(i) == 1000 * WordOverlap(query, pairs[i].chunk) + pairs[i].score
    IN SetToSortSeq(DOMAIN pairs, LAMBDA i, j : score(i) > score(j) \/ (score(i) = score(j) /\ i > j))
RankGpt(reply, query, pairs) ==
    LET window == TopK(pairs, Window)
        order == IF reply = Missing THEN HeuristicPermutation(query, window)
                 ELSE ParsePermutation(reply, Len(window))
        Unit == 1000   \* above every fused score
    IN [r \in DOMAIN order |-> [chunk |-> window[order[r]].chunk, score |-> Unit * (Len(order) - r + 1)]]
       \o SubSeq(pairs, Len(window) + 1, Len(pairs))

(* DistilledReranker.__call__: a linear student of what is known of a pair;  *)
(* the scores of the two searches are features that it is not given.         *)
Features(query, pair, rank) ==
    [dense |-> 0, bm25 |-> 0, rrf |-> pair.score, rank |-> rank, overlap |-> WordOverlap(query, pair.chunk)]
StudentScore(f) == MapThenSumSet(LAMBDA n : Weights[n] * f[n], DOMAIN Weights)
DistilledReranker(query, pairs) ==
    PairsBy(pairs, LAMBDA p : StudentScore(Features(query, p, RankOf(pairs, p))))

----------------------------------------------------------------------------
(* The stages together.                                                     *)
RerankWith(reranker, query, pairs) ==
    CASE reranker.name = "overlap" -> OverlapReranker(query, pairs)
      [] reranker.name = "model" -> CrossEncoderReranker(reranker.api, reranker.logits, query, pairs)
      [] reranker.name = "listwise" -> RankGpt(reranker.reply, query, pairs)
      [] reranker.name = "student" -> DistilledReranker(query, pairs)
RetrieveInMemory(chunks, query, dense, router, reranker, k) ==
    LET route == IF router THEN Route(query) ELSE "semantic"
        lists == SearchLists(chunks, query, dense, router, k)
        fused == FusedPairs(lists, k)
        pairs == IF SkipsRerank(route) \/ fused = <<>> THEN fused ELSE RerankWith(reranker, query, fused)
        given(list, c) == RankOf(list, c) # 0
    IN [hits |-> [i \in DOMAIN pairs |->
                    [chunk |-> pairs[i].chunk, score |-> pairs[i].score,
                     bm25 |-> given(IF SkipsEmbed(route) THEN lists[2] ELSE lists[1], pairs[i].chunk),
                     dense |-> ~SkipsEmbed(route) /\ given(lists[2], pairs[i].chunk),
                     reranked |-> ~SkipsRerank(route)]],
        skipped |-> SkipsEmbed(route)]
=============================================================================
