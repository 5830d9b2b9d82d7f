------------------------------- MODULE Scoring -------------------------------
(* How the bench scores a ranked list (app/eval/metrics.py), a jury of       *)
(* judges an answer (judge.py, jury.py), and a result is compared with the   *)
(* baseline (compare.py).  A score is a fraction <<numerator, denominator>>; *)
(* 1 / log2(rank + 1) is any decreasing Discount.                            *)
EXTENDS Integers, Sequences, FiniteSets, SequencesExt, FiniteSetsExt, Lists

CONSTANTS Discount,       \* weight of each rank, an integer
          JudgeLabels,    \* correct, partial, wrong
          Space,          \* between the words of a text
          Missing,
          NewerPath,        \* the path that supersedes a path, for the superseded
          RerankDepth       \* how many results are reranked

ASSUME DiscountAssumption ==
    /\ \A i \in DOMAIN Discount : Discount[i] \in Nat \ {0}
    /\ \A i, j \in DOMAIN Discount : i < j => Discount[i] > Discount[j]

TopK(list, k) == SubSeq(list, 1, IF k < Len(list) THEN k ELSE Len(list))
AtMost(x, y) == x[1] * y[2] <= y[1] * x[2]
Zero == <<0, 1>>

RecallAt(list, rel, k) ==
    IF rel = {} THEN Zero
    ELSE <<Cardinality(ToSet(TopK(list, k)) \intersect rel), Cardinality(rel)>>

MrrAt(list, rel, k) ==
    LET ranks == {i \in DOMAIN TopK(list, k) : list[i] \in rel}
    IN IF ranks = {} THEN Zero ELSE <<1, Min(ranks)>>

Dcg(gains) == Total([i \in DOMAIN gains |-> gains[i] * Discount[i]])
Gains(list, rel, k) == [i \in DOMAIN TopK(list, k) |-> IF list[i] \in rel THEN 1 ELSE 0]
IdealGains(rel, k) == [i \in 1 .. Min({k, Cardinality(rel)}) |-> 1]
NdcgAt(list, rel, k) ==
    IF rel = {} THEN Zero ELSE <<Dcg(Gains(list, rel, k)), Dcg(IdealGains(rel, k))>>

UniqueCountAt(list, k) == Cardinality(ToSet(TopK(list, k)))
RandomRecallAt(unique, files, k) ==
    IF files <= 0 THEN Zero ELSE <<Min({k, unique}), files>>

(* score_query, aggregate_retrieval: a row is [list, rel, category]; a mean  *)
(* is a fraction too.                                                        *)
Plus(a, b) == <<a[1] * b[2] + b[1] * a[2], a[2] * b[2]>>
MeanOf(scores) ==
    IF scores = <<>> THEN Zero
    ELSE LET sum == FoldLeft(Plus, Zero, scores) IN <<sum[1], sum[2] * Len(scores)>>
ScoreQuery(list, rel, files) ==
    [recall |-> [k \in 1 .. 3 |-> RecallAt(list, rel, k)],
     mrr |-> MrrAt(list, rel, 3), ndcg |-> NdcgAt(list, rel, 3),
     random |-> RandomRecallAt(UniqueCountAt(list, 3), files, 3)]
AggregateRetrieval(rows, files) ==
    LET Recall(r) == ScoreQuery(r.list, r.rel, files).recall[3]
        In(c) == SelectSeq(rows, LAMBDA r : r.category = c)
        Mean(some) == MeanOf([i \in DOMAIN some |-> Recall(some[i])])
    IN [recall |-> Mean(rows), n |-> Len(rows),
        by_category |-> [c \in {rows[i].category : i \in DOMAIN rows} \ {Missing} |->
                            [recall |-> Mean(In(c)), n |-> Len(In(c))]]]

----------------------------------------------------------------------------
Votes(labels, l) == Cardinality({i \in DOMAIN labels : labels[i] = l})

(* Jury.vote: a tie at the top is partial.                                   *)
FirstOfTop(labels) ==
    LET top == Max({Votes(labels, l) : l \in ToSet(labels)})
    IN labels[Min({i \in DOMAIN labels : Votes(labels, labels[i]) = top})]
Vote(labels) ==
    LET top == Max({Votes(labels, l) : l \in ToSet(labels)})
        leaders == {l \in ToSet(labels) : Votes(labels, l) = top}
    IN IF Cardinality(leaders) = 1 THEN CHOOSE l \in leaders : TRUE ELSE "partial"

(* A judge's reply: [form, score, words], its score in hundredths; a JSON    *)
(* score is on 0..1, one in the text may be on 0..10 (judge.py).             *)
ParseLabel(words) ==
    CASE "correct" \in words -> "correct"
      [] "correct" \notin words /\ "partial" \in words -> "partial"
      [] words \intersect {"correct", "partial"} = {} /\ "wrong" \in words -> "wrong"
      [] OTHER -> IF words \intersect {"yes", "faithful", "unfaithful"} # {} THEN "correct"
                  ELSE IF "no" \in words THEN "wrong" ELSE "partial"
LabelToScore(label) == CASE label = "correct" -> 100 [] label = "wrong" -> 0 [] OTHER -> 50
ScoreToLabel(score, of) ==
    IF 100 * score >= 75 * of THEN "correct" ELSE IF 100 * score >= 35 * of THEN "partial" ELSE "wrong"
Clamped(score) == Max({0, Min({100, score})})
ParseScore(reply) ==
    CASE reply.form = "json" -> Clamped(reply.score)
      [] reply.form = "text" -> Clamped(IF reply.score <= 100 THEN reply.score ELSE reply.score \div 10)
      [] OTHER -> LabelToScore(ParseLabel(reply.words))
JudgeAnswer(replies) ==
    ScoreToLabel(ParseScore(replies[1]) + ParseScore(replies[2]) + ParseScore(replies[3]), 300)
SelfConsistencyVote(replies) ==
    LET labels == [i \in DOMAIN replies |-> ParseLabel(replies[i].words)]
    IN [label |-> FirstOfTop(labels), labels |-> labels]

(* exact_match_label: a text is a sequence of lower-case characters, numbers *)
(* the value of each sequence that reads as a number; the gold may stand in  *)
(* the middle of a word of the answer.                                       *)
Stretches(text, among) ==       \* as long as they can be
    LET ends == {r \in (DOMAIN text) \X (DOMAIN text) :
                    /\ r[1] <= r[2] /\ \A k \in r[1] .. r[2] : text[k] \in among
                    /\ r[1] > 1 => text[r[1] - 1] \notin among
                    /\ r[2] < Len(text) => text[r[2] + 1] \notin among}
    IN {SubSeq(text, r[1], r[2]) : r \in ends}
WordsIn(text) == Stretches(text, ToSet(text) \ {Space})
Trimmed(text) ==
    LET said == {i \in DOMAIN text : text[i] # Space}
    IN IF said = {} THEN <<>> ELSE SubSeq(text, Min(said), Max(said))
NumbersIn(text, numbers) ==
    {numbers[n] : n \in (DOMAIN numbers) \intersect Stretches(text, UNION {ToSet(m) : m \in DOMAIN numbers})}
SameNumber(answer, gold, numbers) ==
    Trimmed(gold) \in DOMAIN numbers /\ numbers[Trimmed(gold)] \in NumbersIn(answer, numbers)
ExactMatchLabel(answer, gold, numbers) ==
    CASE Trimmed(gold) = <<>> -> "partial"
      [] OTHER -> IF \/ Holds(answer, gold) \/ Trimmed(answer) = Trimmed(gold)
                     \/ SameNumber(answer, gold, numbers) THEN "correct"
                  ELSE IF WordsIn(gold) \intersect WordsIn(answer) # {} THEN "partial" ELSE "wrong"

(* cohens_kappa of two equally long lists of labels.                         *)
Agreements(truth, judged) == Cardinality({i \in DOMAIN truth : truth[i] = judged[i]})
ByChance(truth, judged) ==
    LET product(l) == Votes(truth, l) * Votes(judged, l)
    IN MapThenSumSet(product, JudgeLabels)
Kappa(truth, judged) ==
    LET n == Len(truth)
        spare == n * n - ByChance(truth, judged)
    IN IF n = 0 THEN Zero
       ELSE IF spare = 0 THEN IF Agreements(truth, judged) = n THEN <<1, 1>> ELSE Zero
       ELSE <<n * Agreements(truth, judged) - ByChance(truth, judged), spare>>
KappaGate == <<6, 10>>
Published(truth, judged) == AtMost(KappaGate, Kappa(truth, judged))

(* pairwise_ab_ba: preferences 0, 1/2, 1 for the answer listed first, here   *)
(* in halves; P(A) in quarters.                                              *)
PairwiseAbBa(ab, ba) == ab + (2 - ba)

(* select_best_of_n: most gold citations, then fewest searches, then first.  *)
SelectBestOfN(traces, gold) ==
    LET overlap(t) == Cardinality(t.paths \intersect gold)
        Better(t, u) == \/ overlap(t) > overlap(u)
                        \/ overlap(t) = overlap(u) /\ t.searches < u.searches
    IN traces[Min({i \in DOMAIN traces : ~\E j \in DOMAIN traces : Better(traces[j], traces[i])})]

----------------------------------------------------------------------------
(* Mutant: a configuration that is gone is no regression.                   *)
OnlySharedRows(current, baseline, threshold) ==
    {p \in UNION {{c} \X DOMAIN baseline[c] : c \in DOMAIN baseline \intersect DOMAIN current} :
        current[p[1]][p[2]] # Missing /\ baseline[p[1]][p[2]] - current[p[1]][p[2]] > threshold}

(* regressions: rows are functions from configurations to functions from     *)
(* metrics to values; the reasons the gate fails, as pairs.                  *)
Regressions(current, baseline, threshold) ==
    LET gated == UNION {{<<c, m>> : m \in {m \in DOMAIN baseline[c] : baseline[c][m] # Missing}} :
                        c \in DOMAIN baseline}
    IN {<<c, Missing>> : c \in DOMAIN baseline \ DOMAIN current} \union
       {p \in gated : /\ p[1] \in DOMAIN current
                      /\ \/ current[p[1]][p[2]] = Missing
                         \/ baseline[p[1]][p[2]] - current[p[1]][p[2]] > threshold}

----------------------------------------------------------------------------
(* What the bench computes for a configuration (app/eval/harness.py): the    *)
(* ranked paths of a question, the row a result is compared with; for the    *)
(* external datasets (beir.py, beir_rescore.py) the reranked list, the       *)
(* graded score and the preserved run; and the summary of the judges         *)
(* (llm_eval.py).  A chunk is [id, path]; a search result is a sequence of   *)
(* chunks, and each reciprocal rank is a Discount.                           *)
Distinct(seq) ==
    LET first == {i \in DOMAIN seq : \A j \in 1 .. i - 1 : seq[j] # seq[i]}
        order == Sorted(first, [i \in first |-> {j \in first : j < i}])
    IN [n \in DOMAIN order |-> seq[order[n]]]
Paths(hits) == Distinct([i \in DOMAIN hits |-> hits[i].path])

RankOf(list, x) == IF \E i \in DOMAIN list : list[i] = x
                   THEN CHOOSE i \in DOMAIN list : list[i] = x ELSE 0
Reciprocal(rank) == IF rank = 0 THEN 0 ELSE Discount[rank]
RrfScore(lists, x) ==
    MapThenSumSet(LAMBDA i : Reciprocal(RankOf(lists[i], x)), DOMAIN lists)
(* sorted() is stable: equal scores keep their order.                        *)
SortedBy(list, Score(_)) ==
    SetToSortSeq(ToSet(list), LAMBDA x, y :
        \/ Score(x) > Score(y)
        \/ Score(x) = Score(y) /\ RankOf(list, x) < RankOf(list, y))
RrfFuse(lists, k) == TopK(SortedBy(Distinct(FlattenSeq(lists)), LAMBDA x : RrfScore(lists, x)), k)

(* _retrieve: a search of the question, or of its parts; the hypothetical    *)
(* document's ranking; the correction's searches; then the version filter,   *)
(* unless the question compares versions.                                    *)
Merged(parts) ==
    LET best(x) == Max({Reciprocal(RankOf(parts[i], x)) : i \in DOMAIN parts})
    IN SortedBy(Distinct(FlattenSeq(parts)), best)
WithHyde(hits, hyde) == SortedBy(hits, LAMBDA x : RrfScore(<<hits, hyde>>, x))
Corrected(hits, retries) == Distinct(hits \o FlattenSeq(retries))
CurrentOnly(hits) ==
    LET paths == {hits[i].path : i \in DOMAIN hits}
    IN SelectSeq(hits, LAMBDA h : ~(h.path \in DOMAIN NewerPath /\ NewerPath[h.path] \in paths))

HarnessRetrieve(cfg, search) ==
    LET base == IF "decompose" \in cfg /\ Len(search.parts) > 1 THEN Merged(search.parts)
                ELSE IF "hyde" \in cfg THEN WithHyde(search.first, search.hyde)
                ELSE search.first
        more == IF "corrective" \in cfg /\ base # <<>> THEN Corrected(base, search.retries) ELSE base
    IN IF "staleness" \in cfg /\ ~search.past THEN CurrentOnly(more) ELSE more

(* attach_confidence: the row that a row's paired delta is taken against,    *)
(* Missing when there is none.                                               *)
DeltaReference(names, parent, i) ==
    LET other == IF parent[names[i]] \in ToSet(names) THEN parent[names[i]]
                 ELSE IF i > 1 /\ parent[names[i]] = Missing THEN names[i - 1] ELSE Missing
    IN IF other = names[i] THEN Missing ELSE other

----------------------------------------------------------------------------
(* retrieve of the external datasets: the head of the list is reranked by    *)
(* the model's scores of its documents.                                      *)
BeirRetrieve(lexical, dense, scores, k) ==
    LET ids == RrfFuse(<<lexical, dense>>, k)
        head == TopK(ids, RerankDepth)
    IN SortedBy(head, LAMBDA d : scores[d]) \o SubSeq(ids, Len(head) + 1, Len(ids))

(* graded_ndcg_at_k: grades are a function from documents to naturals.       *)
GradeOf(grades, d) == IF d \in DOMAIN grades THEN grades[d] ELSE 0
GradedNdcgAt(list, grades, k) ==
    LET positive == {d \in DOMAIN grades : grades[d] > 0}
        above == [d \in positive |-> {e \in positive :
                     grades[e] > grades[d] \/ (grades[e] = grades[d] /\ e < d)}]
        Gained(l) == Dcg([i \in DOMAIN l |-> GradeOf(grades, l[i])])
    IN IF positive = {} THEN Zero ELSE <<Gained(TopK(list, k)), Gained(TopK(Sorted(positive, above), k))>>

(* write_trec_outputs and beir_rescore: the run file has a line per result,  *)
(* the order of the queries is kept beside it.                               *)
WriteTrec(order, rankings) ==
    [run |-> UNION {{[query |-> q, rank |-> i, doc |-> rankings[q][i]] : i \in DOMAIN rankings[q]} :
                    q \in ToSet(order)},
     order |-> order]
(* Mutant: a run that lacks queries is scored as it is.                     *)
RescoreWithRunOrder(trec, expected) ==
    LET order == SelectSeq(trec.order, LAMBDA q : \E l \in trec.run : l.query = q)
    IN [q \in ToSet(order) |->
           LET lines == {l \in trec.run : l.query = q}
           IN [i \in 1 .. Cardinality(lines) |-> (CHOOSE l \in lines : l.rank = i).doc]]

RescoreTrec(trec, expected) ==
    IF Len(trec.order) # expected \/ Cardinality(ToSet(trec.order)) # Len(trec.order)
    THEN Missing
    ELSE [q \in ToSet(trec.order) |->
             LET lines == {l \in trec.run : l.query = q}
             IN [i \in 1 .. Cardinality(lines) |-> (CHOOSE l \in lines : l.rank = i).doc]]

----------------------------------------------------------------------------
(* summarize: a row is [gold, labels], the label of the exact match and the  *)
(* judges' labels; which judges may be published, and the majority's labels. *)
GateEvaluable(rows) == Cardinality({rows[i].gold : i \in DOMAIN rows}) > 1
Column(rows, judge) == [i \in DOMAIN rows |-> rows[i].labels[judge]]
Gold(rows) == [i \in DOMAIN rows |-> rows[i].gold]
PublishableJudges(rows, judges) ==
    {j \in judges : GateEvaluable(rows) /\ Published(Gold(rows), Column(rows, j))}
MajorityLabels(rows, order) ==
    [i \in DOMAIN rows |-> Vote([n \in DOMAIN order |-> rows[i].labels[order[n]]])]
=============================================================================
