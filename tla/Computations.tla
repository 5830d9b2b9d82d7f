----------------------------- MODULE Computations -----------------------------
(* The computations that end before anything else of their process runs:     *)
(* checks of an answer, scores, charts, artifacts, graphs and chunks, each   *)
(* an action from the task it is given to its result; and, beside them, what *)
(* outlives its writer: the bench's result files and the pooled database.    *)
EXTENDS BenchFiles, PooledDatabase, LoadTest, RankStages, Transcripts, Evidence,
        ToolServer, FileGraph, Chunking, Readiness

CONSTANTS
    HomeCommit, HomeModel,
    CiteTasks, FactTasks, ConflictTasks, ClaimTasks, AverageTasks, JudgeTasks, NumberWords,
    RankTasks, VoteTasks, PreferenceTasks, RerankTasks, DeltaTasks, RetrieveTasks, RunFileTasks,
    ChartTasks, ArtifactTasks, Runs, TreeTasks, BoostTasks, ChunkTasks,
    SearchTasks, SplitTasks,
    TalkTasks, RolloutTasks, ReadTasks, SessionTasks, Deployments

ASSUME DeploymentsAssumption == \A d \in Deployments : d.nodes \in Nat
ASSUME GeneratedAssumption ==
    /\ \A t \in ChartTasks : t.sheet \in Seq(ToSet(t.sheet))
    /\ \A t \in ArtifactTasks : t.base \in Seq(Corpus)
(* Chunks have text, in whole characters; a field's value is a number.       *)
ASSUME EvidenceAssumption ==
    /\ None \notin Int
    /\ \A t \in CiteTasks :
          /\ \A c \in t.evidence :
                /\ c.lo \in Nat /\ c.hi \in Int /\ c.raw \in Seq(ToSet(c.raw))
                /\ c.raw \notin {<<>>, None} /\ c.raw[1] # SecondByte
          /\ \A c \in t.citations : {c.start, c.end} \subseteq Int \union {None}
          /\ t.claim.value # None => t.claim.value \in Seq(ToSet(t.claim.value)) \ {<<>>}
    /\ \A t \in FactTasks : t.claim.value \in Int /\ \A f \in t.facts : f.value \in Int
    /\ \A t \in ConflictTasks : IsFiniteSet(t) /\ \A h \in t : IsFiniteSet(h.facts)
    /\ \A t \in ClaimTasks :
          /\ t.sentences \in Seq(ToSet(t.sentences))
          /\ \A i \in DOMAIN t.sentences :
                IsFiniteSet(t.sentences[i].values) /\ None \notin t.sentences[i].values
(* A conversation has a turn; a policy writes as itself; a file is found     *)
(* once, whatever its words; a jury scores on 0..1; and a client uses an id  *)
(* for one request.                                                          *)
ASSUME TalkAssumption ==
    /\ \A messages \in TalkTasks :
          /\ messages # <<>> /\ messages \in Seq(ToSet(messages))
          /\ \A m \in ToSet(messages) :
                /\ m.notes \in Seq(ToSet(m.notes))
                /\ \A n \in ToSet(m.notes) : n.type = "document_file" => n.names \in Seq(ToSet(n.names))
ASSUME RolloutAssumption ==
    /\ MaxSearches \in Nat /\ 1 .. 10 \subseteq DOMAIN Discount
    /\ \A t \in RolloutTasks :
          /\ t.policy # Missing =>
                t.policy \in Seq([is : {t.policy[i].is : i \in DOMAIN t.policy}, from : {"policy"}])
          /\ t.answer \in Seq(ToSet(t.answer))
          /\ \A w \in DOMAIN t.found :
                /\ t.found[w].words \in Seq(ToSet(t.found[w].words))
                /\ t.found[w].paths \in Seq(ToSet(t.found[w].paths)) /\ IsInjective(t.found[w].paths)
          /\ IsFiniteSet(t.goldPaths) /\ t.jury.score \in 0 .. 1
ASSUME ToolsAssumption ==
    /\ \A t \in ReadTasks :
          /\ t.path.parts \in Seq(ToSet(t.path.parts)) /\ t.hits \in Seq(ToSet(t.hits))
          /\ t.range # NoRange => t.range \in Int \X Int
          /\ t.source.nodes \subseteq {"Import", "ImportFrom", "Attribute"}
    /\ \A lines \in SessionTasks :
          /\ lines \in Seq(ToSet(lines))
          /\ \A i, j \in DOMAIN lines :
                {lines[i].is, lines[j].is} = {"object"} /\ lines[i].id = lines[j].id /\ lines[i].id # NoId
                    => i = j

(* A tree has each file once and an order of names, and a chunk an id; what  *)
(* is reordered are different hits; and a line of a text has an end.         *)
ASSUME FilesAssumption ==
    /\ \A t \in TreeTasks :
          /\ IsFiniteSet(t.files) /\ \A f \in t.files : IsFiniteSet(f.says)
          /\ \A m \in GraphNodes(t.files) : NodeRank[m] \in Int
          /\ \A m, n \in GraphNodes(t.files) : NodeRank[m] = NodeRank[n] => m = n
          /\ t.seeds \in Seq(GraphNodes(t.files)) /\ t.hops \in Nat
          /\ \A c, d \in t.chunks : c.id = d.id => c = d
    /\ \A t \in BoostTasks :
          /\ t.hits \in Seq(ToSet(t.hits)) /\ IsInjective(t.hits)
          /\ \A i \in 1 .. 1 + Len(t.hits) : RankWeight[i] \in Nat
    /\ \A t \in ChunkTasks :
          /\ t.text \in Seq(ToSet(t.text))
          /\ \A l \in ToSet(t.text) : {l.len, ByteWidth[l.kind]} \subseteq Nat \ {0}
          /\ t.parses \in BOOLEAN

VARIABLES kind, task, result

computeVars == <<kind, task, result>>
Nowhere == "none"

Init ==
    /\ BenchInit /\ BeirInit /\ PoolInit /\ LoadInit
    /\ task = Nowhere /\ result = Nowhere
    /\ kind \in {"start", "files", "beir", "pool", "load"}
    /\ kind # "files" => head = HomeCommit
    /\ kind # "beir" => model = HomeModel
    /\ kind # "pool" => db = {}

(* A task that is given, and what the code makes of it.                      *)
Computed(name, t, r) ==
    /\ kind' = name /\ task' = t /\ result' = r
    /\ UNCHANGED <<benchVars, beirVars, poolVars, loadVars>>

CiteAnswer ==
    \E t \in CiteTasks :
        Computed("cite", t,
            [verdict |-> Verdict(t.claim, t.evidence, t.citations),
             reply |-> CitedAnswer({<<c.path, c.start, c.end>> : c \in t.citations}, FALSE, t.evidence)])
CheckFact ==
    \E t \in FactTasks : Computed("fact", t, VerifyStructuredClaim(t.claim, t.facts))
FindConflicts ==
    \E t \in ConflictTasks, verdict \in {"conflict", "ok"} :
        Computed("conflict", t, AnnotateForGenerator(t, verdict))
CheckClaims ==
    \E t \in ClaimTasks : Computed("claims", t, VerifyAnswer(t.sentences, t.evidence, t.citations))

ScoreList ==
    \E t \in RankTasks :
        Computed("rank", t,
            [own |-> ScoreQuery(t.list, t.rel, t.files),
             graded |-> GradedNdcgAt(t.list, [d \in t.rel |-> 1], 3)])
AverageRows ==
    \E t \in AverageTasks : Computed("average", t, AggregateRetrieval(t, 9))
JudgeReplies ==
    \E t \in JudgeTasks :
        Computed("judge", t,
            [label |-> JudgeAnswer(t.replies), voted |-> SelfConsistencyVote(t.replies),
             exact |-> ExactMatchLabel(t.answer, t.gold, NumberWords)])
CountVotes ==
    \E t \in VoteTasks :
        Computed("vote", t,
            [labels |-> MajorityLabels(t.rows, t.order), reversed |-> MajorityLabels(t.rows, Reverse(t.order)),
             published |-> PublishableJudges(t.rows, ToSet(t.order))])
CompareAnswers ==
    \E t \in PreferenceTasks :
        Computed("prefer", t, [p_a |-> PairwiseAbBa(t.ab, t.ba), p_b |-> PairwiseAbBa(t.ba, t.ab),
                               best |-> SelectBestOfN(t.traces, t.gold)])
RankDocuments ==
    \E t \in RerankTasks :
        Computed("rerank", t,
            BeirRetrieve(t.lexical, t.dense, t.scores, 3))
PairRows ==
    \E t \in DeltaTasks :
        Computed("delta", t, [i \in DOMAIN t.names |-> DeltaReference(t.names, t.parent, i)])
SearchForRow ==
    \E t \in RetrieveTasks :
        Computed("retrieve", t, Paths(HarnessRetrieve(t.cfg, t.search)))
RescoreRun ==
    \E t \in RunFileTasks :
        Computed("trec", t, RescoreTrec(WriteTrec(t.order, t.rankings), Len(t.order)))

ProposeChart ==
    \E t \in ChartTasks :
        Computed("chart", t,
            ProposeVisualization(t.sheet, 2, t.question, t.asked))
MakeArtifact ==
    \E t \in ArtifactTasks : Computed("artifact", t, Produce(t.query, t.base))
BundleRun ==
    \E run \in Runs, t \in ArtifactTasks :
        /\ t.query.words = {}
        /\ Computed("bundle", run, CollectRun(run, t.base))

ExpandSeeds ==
    \E t \in TreeTasks :
        \E edges \in {GraphEdges(t.files)} :
            Computed("graph", t,
                [edges |-> edges, expanded |-> ExpandWithGraph(t.seeds, edges, t.hops),
                 groups |-> Communities(UNION {ExtractTriples(f) : f \in t.files}),
                 levels |-> BuildHierarchy(t.chunks, t.files)])
ReorderHits ==
    \E t \in BoostTasks :
        Computed("boost", t,
            ApplyHipporag(t.hits, {"triple"}, t.category, FALSE, t.ppr, t.intent))
SplitQuestion ==
    \E t \in SplitTasks :
        Computed("split", t,
            [parts |-> LlmDecompose(t.query, t.lines, 2), wanted |-> ShouldDecompose(t.query),
             retrieve |-> ShouldRetrieve(t.query)])
SearchInMemory ==
    \E t \in SearchTasks :
        Computed("search", t,
            [words |-> SearchBm25(t.chunks, t.query.words, 3),
             found |-> RetrieveInMemory(t.chunks, t.query, t.dense, t.router, t.reranker, 3)])
CutFile ==
    \E t \in ChunkTasks :
        Computed("chunks", t, LoadChunks(t.text, t.suffix, t.parses))

ReadTheChat ==
    \E messages \in TalkTasks :
        Computed("talk", messages,
            [last |-> LastMessage(messages), history |-> HistoryMessages(messages, TRUE, TRUE),
             ids |-> DocumentIds(messages)])
FillRollout ==
    \E t \in RolloutTasks :
        \E filled \in {IF t.policy = Missing THEN HeuristicRollout("w1", Search(t.found, "w1"), t.answer)
                       ELSE Rollout(t.policy, t.found)} :
            Computed("rollout", t, [filled |-> filled, reward |-> Reward(filled, t.gold, t.goldPaths, t.jury)])
ReadATree ==
    \E t \in ReadTasks :
        Computed("read", t,
            [read |-> ReadFile(t.path, t.range), listed |-> ListDir(t.path),
             stat |-> Stat(<<t.path, t.other>>), kept |-> FilteredHits(t.hits, 2, t.filetype),
             ran |-> ExecSandboxed(t.source)])
CheckService == \E d \in Deployments : Computed("service", d, Service(d))
AnswerLines ==
    \E lines \in SessionTasks : Computed("session", lines, Serve(lines))

IsGiven == kind = "start"

Next ==
    \/ IsGiven /\ CiteAnswer
    \/ IsGiven /\ CheckFact
    \/ IsGiven /\ FindConflicts
    \/ IsGiven /\ CheckClaims
    \/ IsGiven /\ ScoreList
    \/ IsGiven /\ AverageRows
    \/ IsGiven /\ JudgeReplies
    \/ IsGiven /\ CountVotes
    \/ IsGiven /\ CompareAnswers
    \/ IsGiven /\ RankDocuments
    \/ IsGiven /\ PairRows
    \/ IsGiven /\ SearchForRow
    \/ IsGiven /\ RescoreRun
    \/ IsGiven /\ ProposeChart
    \/ IsGiven /\ MakeArtifact
    \/ IsGiven /\ BundleRun
    \/ IsGiven /\ ExpandSeeds
    \/ IsGiven /\ ReorderHits
    \/ IsGiven /\ CutFile
    \/ IsGiven /\ SplitQuestion
    \/ IsGiven /\ SearchInMemory
    \/ IsGiven /\ ReadTheChat
    \/ IsGiven /\ FillRollout
    \/ IsGiven /\ ReadATree
    \/ IsGiven /\ AnswerLines
    \/ IsGiven /\ CheckService
    \/ kind = "files" /\ BenchNext /\ UNCHANGED <<beirVars, poolVars, loadVars, computeVars>>
    \/ kind = "beir" /\ BeirNext /\ UNCHANGED <<benchVars, poolVars, loadVars, computeVars>>
    \/ kind = "pool" /\ PoolNext /\ UNCHANGED <<benchVars, beirVars, loadVars, computeVars>>
    \/ kind = "load" /\ LoadNext /\ UNCHANGED <<benchVars, beirVars, poolVars, computeVars>>
Spec == Init /\ [][Next]_<<benchVars, beirVars, poolVars, loadVars, computeVars>>

----------------------------------------------------------------------------
(* The bytes of a chunk's text that a citation points at are from+1 .. to.   *)
CitedFrom(chunk, cite) == IF Ranged(cite) THEN cite.start - chunk.lo ELSE 0
CitedTo(chunk, cite) == IF Ranged(cite) THEN cite.end - chunk.lo ELSE Len(chunk.raw)

(* value stands there, and its neighbours there are no part of a word.       *)
StandsCited(chunk, cite, value) ==
    LET from == CitedFrom(chunk, cite)
        to == CitedTo(chunk, cite)
    IN /\ 0 <= from /\ to <= Len(chunk.raw)
       /\ to < Len(chunk.raw) => chunk.raw[to + 1] # SecondByte
       /\ \E i \in from + 1 .. to :
             /\ i + Len(value) - 1 <= to
             /\ Stands(chunk.raw, i, value)
             /\ i > from + 1 => chunk.raw[i - 1] \in Separators
             /\ i + Len(value) - 1 < to => chunk.raw[i + Len(value)] \in Separators

VerifiedStands(t, verdict) ==
    t.claim.value # None /\ verdict = "verified" =>
        \E chunk \in t.evidence, cite \in t.citations :
           /\ chunk.verbatim /\ chunk.path = cite.path
           /\ t.claim.path \in {None, chunk.path}
           /\ StandsCited(chunk, cite, t.claim.value)
TagsReadBack(t, tags) ==
    \A tag \in tags : \A chunk \in {h \in t.evidence : Tag(h) = tag} :
       chunk.verbatim /\ Len(chunk.raw) = chunk.hi - chunk.lo
          => chunk.raw \in {c.text : c \in CitedChunks(t.evidence, t.citations)}
SupportedByAll(t, label) ==
    label = "supported" =>
        \A f \in {f \in t.facts : f.field = t.claim.field} :
           /\ f.negated = t.claim.negated
           /\ t.claim.current = "yes" => f.current = "yes"
           /\ f.unit = t.claim.unit => f.value = t.claim.value
ConflictsNamed(hits, found) ==
    /\ \A g, h \in hits : \A f \in g.facts, e \in h.facts :
          g.entity = h.entity /\ f[1] = e[1] /\ f[2] # e[2] =>
             \E c \in found.structural : {f[2], e[2]} \subseteq c.values /\ {g.path, h.path} \subseteq c.paths
    /\ \A g, h \in hits : g.path # h.path /\ Contradict(g, h) =>
          found.note /\ \E c \in found.semantic : {g.path, h.path} = c.paths
    /\ found.note => Cardinality(hits) > 1 \/ \E h \in hits : Cardinality(h.facts) > 1
NumbersOf(sentences) ==
    UNION {{<<i, v>> : v \in sentences[i].values} : i \in {i \in DOMAIN sentences : ~sentences[i].short}}
FewInvented(t, claims) ==
    LET numbers == NumbersOf(t.sentences)
        invented == {n \in numbers : ~Supports(CitedChunks(t.evidence, t.citations), n[2])}
    IN /\ 2 * Cardinality(invented) <= Cardinality(claims)
       /\ numbers \subseteq {<<c.at, c.value>> : c \in claims}

(* A number is verified only when it stands in the bytes that were cited of  *)
(* an unchanged file, and is no part of a longer word in these bytes (beyond *)
(* them it may be: CitedNumberIsWhole); a tag of a reply that is accepted is *)
(* one whose bytes can be read back; a fact that is no longer current, or    *)
(* another value for the same field, keeps a claim from being supported; two *)
(* files that give a field different values, or contradict each other in     *)
(* words, are both named as in conflict; and at most half of the claims of   *)
(* an answer that passes are numbers that nothing cited contains.            *)
AnswerKeepsToCitations ==
    /\ kind = "cite" => VerifiedStands(task, result.verdict) /\ TagsReadBack(task, result.reply.citations)
    /\ kind = "fact" => SupportedByAll(task, result)
    /\ kind = "conflict" => ConflictsNamed(task, result)
    /\ kind = "claims" /\ result.passes => FewInvented(task, result.claims)

(* What the comment on _literal_found says: a cited 0.0559 must not support  *)
(* the literal 0.055, that is, a number is verified only by evidence that    *)
(* has it whole.  The text is cut to the cited range first, so this fails.   *)
CitedNumberIsWhole ==
    kind = "cite" /\ task.claim.value # None /\ result.verdict = "verified" =>
        \E chunk \in task.evidence : chunk.verbatim /\ LiteralFound(task.claim.value, chunk.raw)

(* A score never exceeds one and does not fall with a longer list; both      *)
(* forms of nDCG agree; a verdict does not depend on the order of the judges *)
(* and a majority prevails; a judge is published only where it agrees with   *)
(* the exact matches more often than not, and never on one label alone; two  *)
(* answers compared in both orders share the win, and a judge that prefers   *)
(* the first place gives neither more; reranking moves the head only; a      *)
(* delta is against the row's own parent; a ranking names a file once, not   *)
(* its older version; a rescored run has all of its queries, as ranked; the  *)
(* average over all queries lies among those of their categories; an answer  *)
(* that is worth nothing in one respect is not judged correct, and one is an *)
(* exact match when the gold stands in it, be it inside of a word, or is a   *)
(* number that it states, in whatever form.                                  *)
MetricsAreFair ==
    /\ kind = "rank" =>
          LET own == result.own
          IN /\ AtMost(own.ndcg, <<1, 1>>) /\ AtMost(own.recall[3], <<1, 1>>)
             /\ \A k \in 1 .. 2 : AtMost(own.recall[k], own.recall[k + 1])
             /\ (own.mrr[1] = 0) <=> (own.recall[3][1] = 0)
             /\ own.ndcg[1] * result.graded[2] = result.graded[1] * own.ndcg[2]
             /\ task.files >= UniqueCountAt(task.list, 3) => AtMost(own.random, <<1, 1>>)
    /\ kind = "average" =>
          LET shares == DOMAIN result.by_category
          IN shares # {} /\ (\A i \in DOMAIN task : task[i].category # Missing) =>
                /\ \E c \in shares : AtMost(result.by_category[c].recall, result.recall)
                /\ \E c \in shares : AtMost(result.recall, result.by_category[c].recall)
                /\ MapThenSumSet(LAMBDA c : result.by_category[c].n, shares) = result.n
    /\ kind = "judge" =>
          LET scores == [i \in DOMAIN task.replies |-> ParseScore(task.replies[i])]
          IN /\ result.label = "correct" => \A i \in DOMAIN scores : scores[i] > 0
             /\ result.label = "wrong" => \E i \in DOMAIN scores : scores[i] < 50
             /\ \A l \in JudgeLabels :
                   2 * Votes(result.voted.labels, l) > Len(task.replies) => result.voted.label = l
             /\ result.exact = "wrong" <=>
                   /\ WordsIn(task.gold) # {} /\ WordsIn(task.gold) \intersect WordsIn(task.answer) = {}
                   /\ ~Holds(task.answer, task.gold) /\ ~SameNumber(task.answer, task.gold, NumberWords)
             /\ result.exact = "correct" /\ ~SameNumber(task.answer, task.gold, NumberWords)
                   => Holds(task.answer, Trimmed(task.gold))
    /\ kind = "vote" =>
          /\ result.labels = result.reversed
          /\ \A i \in DOMAIN task.rows : \A l \in JudgeLabels :
                2 * Votes([n \in DOMAIN task.order |-> task.rows[i].labels[task.order[n]]], l)
                    > Len(task.order) => result.labels[i] = l
          /\ \A j \in result.published :
                /\ 2 * Agreements(Gold(task.rows), Column(task.rows, j)) > Len(task.rows)
                /\ Cardinality(ToSet(Column(task.rows, j))) > 1
    /\ kind = "prefer" =>
          /\ result.p_a + result.p_b = 4 /\ (task.ab = task.ba => result.p_a = 2)
          /\ \A i \in DOMAIN task.traces :
                Cardinality(task.traces[i].paths \intersect task.gold)
                    <= Cardinality(result.best.paths \intersect task.gold)
    /\ kind = "rerank" =>
          /\ IsInjective(result) /\ ToSet(result) \subseteq ToSet(task.lexical \o task.dense)
          /\ \A i \in DOMAIN result : i > RerankDepth =>
                result[i] = RrfFuse(<<task.lexical, task.dense>>, 3)[i]
    /\ kind = "delta" =>
          \A i \in DOMAIN task.names :
             result[i] # Missing /\ task.parent[task.names[i]] # Missing
                => result[i] = task.parent[task.names[i]] /\ result[i] # task.names[i]
    /\ kind = "retrieve" =>
          /\ IsInjective(result)
          /\ "staleness" \in task.cfg /\ ~task.search.past
                => \A f \in DOMAIN NewerPath : ~({f, NewerPath[f]} \subseteq ToSet(result))
          /\ task.cfg \subseteq {"corrective"} => IsPrefix(Paths(task.search.first), result)
    /\ kind = "trec" =>
          result = [query \in ToSet(task.order) |-> task.rankings[query]]

(* What is drawn is what was reviewed, for a group column that the script    *)
(* can read: without a gap among the values, a chart of groups has the       *)
(* table's results, and no other; a histogram, which draws the values and    *)
(* not the groups, has those values that the table's results are made of.    *)
(* The table counts every number once, and a column of numbers is the group  *)
(* only when there is no other or it was asked for.                          *)
DrawsTheTable(t, chart) ==
    IF chart.chart.chart = "histogram"
    THEN \A g \in DOMAIN chart.table :
            LET drawn == {i \in DOMAIN t.sheet : t.sheet[i][chart.group] = g /\ chart.script[i] # NaN}
            IN chart.table[g].result = Aggregated([i \in drawn |-> chart.script[i][1]], chart.operation)
    ELSE (\A i \in DOMAIN t.sheet : IsNumber(t.sheet[i][chart.value]))
            => chart.script = [g \in DOMAIN chart.table |-> chart.table[g].result]
TellsTheTable(t, chart) ==
    LET missing == {i \in DOMAIN t.sheet : ~IsNumber(t.sheet[i][chart.value])}
        counts == [g \in DOMAIN chart.table |-> chart.table[g].n]
    IN /\ chart.kinds[chart.group] # "numeric" => DrawsTheTable(t, chart)
       /\ Cardinality(UNION {{g} \X (1 .. counts[g]) : g \in DOMAIN counts})
             = Len(t.sheet) - Cardinality(missing)
       /\ t.asked.group_by = NotGiven /\ chart.kinds[chart.group] = "numeric"
             => \A c \in DOMAIN chart.kinds : chart.kinds[c] = "numeric"
ChartTellsTheTable == kind = "chart" /\ result # NotGiven => TellsTheTable(task, result)

(* An artifact speaks from its evidence, and a badge is earned.              *)
ArtifactsSpeakFromEvidence ==
    /\ kind = "artifact" => SpeaksFromEvidence(task.query, result)
    /\ kind = "bundle" => BadgesEarned(result)

(* What is generated, chart or artifact, tells the table or the evidence it  *)
(* was made from (app/artifacts).                                            *)
GeneratedTellsItsSource == ChartTellsTheTable /\ ArtifactsSpeakFromEvidence

(* Expanding with the graph lists the seeds and the files that so many steps *)
(* reach from them, in either direction, each once.  The files of one seed   *)
(* stand before those of the next: nothing stands before a seed that none of *)
(* the seeds before it reaches, and nothing that only a later seed reaches   *)
(* stands before a file of an earlier one.  So the first seed is first, but  *)
(* a seed may stand behind the neighbours, or a later seed, that an earlier  *)
(* seed reaches.  The communities share no member and own each triple once;  *)
(* the levels above the chunks hold each once; and reordering neither adds   *)
(* nor drops a hit.                                                          *)
OfFirstSeeds(t, edges, k, n) == \E s \in 1 .. k : Reaches(edges, t.seeds[s], n, t.hops)
InOrderOfSeeds(t, edges, expanded) ==
    \A i, j \in DOMAIN expanded, k \in DOMAIN t.seeds : i < j =>
       /\ expanded[j] = t.seeds[k] => OfFirstSeeds(t, edges, k - 1, expanded[i])
       /\ OfFirstSeeds(t, edges, k, expanded[j]) => OfFirstSeeds(t, edges, k, expanded[i])
GraphKeepsTheHits ==
    /\ kind = "graph" =>
          /\ IsInjective(result.expanded)
          /\ InOrderOfSeeds(task, result.edges, result.expanded)
          /\ ToSet(result.expanded) = {n \in GraphNodes(task.files) :
                \E i \in DOMAIN task.seeds : Reaches(result.edges, task.seeds[i], n, task.hops)}
          /\ \A g, h \in result.groups : g # h =>
                g.members \intersect h.members = {} /\ g.triples \intersect h.triples = {}
          /\ \A c \in task.chunks :
                Cardinality({f \in DOMAIN result.levels.file : c.id \in result.levels.file[f]}) = 1
    /\ kind = "boost" => IsInjective(result) /\ ToSet(result) = ToSet(task.hits)

(* No line is lost between the chunks of a file: every line with text is in  *)
(* a span, whole unless it is cut by length; only a Python file that parses  *)
(* loses lines, and none of a definition or before the first one.            *)
(* Neighbouring windows overlap, so that nothing falls between two.          *)
ChunksCoverTheFile ==
    kind = "chunks" =>
        /\ \A i \in {i \in DOMAIN task.text : task.text[i].kind # "blank"} :
              \/ task.suffix = ".py" /\ task.parses /\ MayLose(task.text, i)
              \/ \A at \in LineStart(task.text, i) + 1 .. LineEnd(task.text, i) :
                    \E c \in result : at \in Positions(c.span)
        /\ \A c, d \in result :
              c.span.from < d.span.from => c.start_byte < d.start_byte /\ c.end_byte <= d.end_byte
        /\ \A c \in result :
              /\ c.verbatim => c.end_byte > c.start_byte
              /\ TokenSpan(task.text, c.span)[1] < TokenSpan(task.text, c.span)[2]

(* Neither the graph nor the chunks lose what was read of a tree.            *)
FilesKeptWhole == GraphKeepsTheHits /\ ChunksCoverTheFile

(* A search in memory returns what its lists found, each once, whatever a    *)
(* reranker or its model says; where a model names passages, the first named *)
(* is first; a score on the scale does not depend on the library and no      *)
(* score rises down the list; a chunk with more of every word of the query   *)
(* and no more words is not behind; and a question has at least one part,    *)
(* none twice.                                                               *)
SearchKeepsTheHits ==
    /\ kind = "split" =>
          /\ result.parts # <<>> /\ IsInjective(result.parts)
          /\ task.lines # <<>> => Len(result.parts) <= 2
          /\ result.retrieve # "retrieve" => task.query.words = <<>> \/ "opening" \in task.query.signs
                                              \/ "corpus" \notin task.query.signs
    /\ kind = "search" =>
          LET hits == result.found.hits
              lists == SearchLists(task.chunks, task.query, task.dense, task.router, 3)
              fused == FusedPairs(lists, 3)
          IN /\ IsInjective(Chunks(hits)) /\ ToSet(Chunks(hits)) = ToSet(Chunks(fused))
             /\ \A i, j \in DOMAIN hits : i < j => hits[i].score >= hits[j].score
             /\ result.found.skipped => \A i \in DOMAIN hits : ~hits[i].dense /\ ~hits[i].reranked
             /\ \A i \in DOMAIN hits : hits[i].reranked =>
                   /\ task.reranker.name = "model" /\ task.reranker.api # "unloaded" =>
                         hits[i].score = Sigmoid[task.reranker.logits[hits[i].chunk.id]]
                   /\ task.reranker.name = "listwise" /\ task.reranker.reply # Missing =>
                         LET named == SelectSeq(task.reranker.reply,
                                         LAMBDA n : n \in DOMAIN TopK(fused, Window))
                         IN named # <<>> => hits[1].chunk = fused[named[1]].chunk
             /\ \A c, d \in ToSet(result.words) :
                   /\ Len(c.words) <= Len(d.words)
                   /\ \A w \in ToSet(task.query.words) : TermCount(c.words, w) > TermCount(d.words, w)
                   => RankOf(result.words, c) < RankOf(result.words, d)

(* What a score is worth: those of the bench and of the judges, and those a  *)
(* search orders its hits by.                                                *)
ScoresAreFair == MetricsAreFair /\ SearchKeepsTheHits

(* What a conversation or a client's session was, is what is read of it.     *)
ConversationsKeepTheirTurns ==
    /\ kind = "talk" => HistoryKeepsTheTurns(task, result.last, result.history, result.ids)
    /\ kind = "rollout" => TrainsOnItsOwnWords(result.filled, task.gold, result.reward)
    /\ kind = "read" =>
          /\ ReadsAreExact(task.path, task.range, result.read)
          /\ ~result.stat.refused <=> Present(Safe(task.path)) /\ Present(Safe(task.other))
          /\ ~result.listed.refused => IsInjective(result.listed.entries)
          /\ task.filetype # "any" => \A h \in ToSet(result.kept) : h.type = task.filetype
          /\ result.ran => task.source.nodes = {}
    /\ kind = "session" => RequestsAnsweredOnce(task, result)

(* What the history of a chat says that the agents said is the last five of  *)
(* their events (get_history_messages' docstring).  The code stops after the *)
(* first five, so this fails.                                                *)
HistoryHasTheLastAgents == kind = "talk" => HasTheLastAgents(task, result.history)

(* A comparison has something to compare: the latest results, once whole,    *)
(* are also kept under their commit, and a gate that passes has a value, not *)
(* far below, for each row of the baseline; rescored answers still name the  *)
(* commit that their run recorded, and its files; a score of an external     *)
(* dataset is of its own documents; the report of a load tells its run, and  *)
(* a load is measured only of a service that has what the load requires.     *)
ResultFilesTellTheirSource ==
    /\ latest \notin {NoFile, Torn} => archive[latest.sha] # NoFile
    /\ gate # NoFile /\ gate.exit = 0 =>
          \A c \in DOMAIN gate.baseline.rows :
             /\ c \in DOMAIN gate.current.rows
             /\ gate.baseline.rows[c] - gate.current.rows[c] <= Threshold
    /\ jury \notin {NoFile, Torn} =>
          /\ jury.answers = IF jury.rowsSha = NoFile THEN jury.sha ELSE jury.rowsSha
          /\ PathsAt[jury.sha] = PathsAt[jury.answers]
    /\ BeirReportTellsItsSource
    /\ LoadReportTellsTheRun
    /\ kind = "service" => ReadyMeansVerified(task, result)
=============================================================================
