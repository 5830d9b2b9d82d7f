---------------------------- MODULE MCComputations ----------------------------
EXTENDS Computations
CONSTANTS x, y, lead, s, gap, p, q

UpTo2(S) == {{c, d} : c \in S, d \in S}
UpTo3(S) == {{c, d, e} : c \in S, d \in S, e \in S}

(* Two files, ranges inside and outside of them, and a rewritten chunk: a    *)
(* number of two digits, one behind a letter of two bytes, and two apart.    *)
Raw == {<<x, y>>, <<lead, s, x>>, <<y, gap, x>>}
EvidenceChunk == {[path |-> f, lo |-> l, hi |-> l + Len(r), raw |-> r, verbatim |-> TRUE] :
                  f \in {p, q}, l \in {0}, r \in Raw} \union
                 {[path |-> p, lo |-> 1, hi |-> 4, raw |-> <<y, x>>, verbatim |-> v] : v \in BOOLEAN}
CitationOf == {[path |-> f, start |-> None, end |-> None] : f \in {p, q}} \union
              {[path |-> f, start |-> i, end |-> j] : f \in {p, q}, i \in 0 .. 2, j \in 1 .. 3} \union
              {[path |-> p, start |-> 0, end |-> None]}
MCCiteTasks ==
    [evidence : UpTo2(EvidenceChunk),
     citations : {{c} : c \in CitationOf},
     claim : [value : {None, <<x>>, <<x, y>>}, path : {None, p, q}, words : {{}, {<<lead, s>>, <<y>>}}]]

FactOf(fields, currents) ==
    [field : fields, value : {1, 10}, unit : {"m", "dm", "?"}, negated : BOOLEAN, current : currents]
MCFactTasks ==
    [claim : FactOf({"f"}, {"yes", "unknown"}),
     facts : UpTo2(FactOf({"f"}, {"yes", "no", "unknown"}))]
ConflictHit == [entity : {"e", "d"}, path : {p, q}, facts : SUBSET ({"f"} \X {1, 2}), claims : {{}}] \union
               [entity : {"e"}, path : {p, q}, facts : {{}}, claims : SUBSET {"helps", "does not"}]
MCNegationPairs == {<<"helps", "does not">>}
SentenceOf == [short : BOOLEAN, values : SUBSET {<<x>>, <<x, y>>}, paths : {<<>>, <<p>>}, asserts : BOOLEAN,
               words : {{<<x>>}}]
MCClaimTasks ==
    [sentences : {<<a, b>> : a \in SentenceOf, b \in {c \in SentenceOf : ~c.short}},
     evidence : {{c} : c \in EvidenceChunk}, citations : {{c} : c \in {d \in CitationOf : d.path = p}}]
MCConflictTasks == UpTo3(ConflictHit)

MCDiscount == [i \in 1 .. 10 |-> <<60, 38, 30, 26, 23, 21, 20, 19, 18, 17>>[i]]
Lists(S, n) == UNION {{l \in [1 .. k -> S] : \A i, j \in 1 .. k : i # j => l[i] # l[j]} : k \in 0 .. n}
MCRankTasks == [list : Lists(1 .. 4, 3), rel : SUBSET (1 .. 4), files : {0, 2, 9}]
MCAverageTasks ==
    LET row == [list : Lists(1 .. 3, 2), rel : {{1}, {1, 2}}, category : {Missing, "a", "b"}]
    IN {<<a>> : a \in row} \union (row \X row)
(* Answers of up to four characters, and numbers that 0 may stand before.    *)
Spelled(S, n) == UNION {[1 .. k -> S] : k \in 0 .. n}
MCNumberWords ==
    [n \in Spelled({"0", "7"}, 4) \ {<<>>} |-> FoldLeft(LAMBDA v, d : 10 * v + (IF d = "7" THEN 7 ELSE 0), 0, n)]
MCJudgeTasks ==
    LET reply == [form : {"json", "text"}, score : {0, 40, 80, 700}, words : {{}}] \union
                 [form : {"words"}, score : {0}, words : {{"wrong"}, {"unfaithful"}, {"no", "partial"}}]
    IN [replies : {<<a, b, c>> : a \in reply, b \in reply, c \in reply},
        answer : {<<"a">>}, gold : {<<>>}] \union
       [replies : {<<r, r, r>> : r \in {r \in reply : r.form = "words"}},
        answer : Spelled({"0", "7", "a", gap}, 4),
        gold : {<<>>, <<gap>>, <<"7">>, <<"0", "7">>, <<gap, "0">>, <<"a", gap, "7">>, <<"a", "7">>}]
MCLabels == {"correct", "partial", "wrong"}
VoteRow == [gold : {"correct", "wrong"}, labels : [{"j", "k"} -> MCLabels]]
MCVoteTasks == [rows : {<<r>> : r \in VoteRow} \union (VoteRow \X VoteRow), order : {<<"j", "k">>}]
MCPreferenceTasks ==
    [ab : 0 .. 2, ba : 0 .. 2, gold : {{1, 2}},
     traces : {<<[paths |-> {1}, searches |-> 1], [paths |-> {1, 2}, searches |-> 3]>>,
               <<[paths |-> {3}, searches |-> 2], [paths |-> {}, searches |-> 1]>>}]
MCRerankTasks == [lexical : Lists(1 .. 3, 3), dense : Lists(1 .. 4, 2), scores : {<<1, 2, 3, 4>>, <<2, 1, 2, 1>>}]
Names == {<<"a", "b">>, <<"a", "b", "c">>, <<"b", "a", "c">>}
MCDeltaTasks == [names : Names, parent : [{"a", "b", "c"} -> {Missing, "a", "b", "z"}]]
Hit == {[id |-> i, path |-> <<"old", "new", "new", "other">>[i]] : i \in 1 .. 4}
MCNewerPath == ("old" :> "new")
MCRetrieveTasks ==
    [cfg : SUBSET {"decompose", "hyde", "corrective", "staleness"},
     search : [first : Lists(Hit, 3) , parts : {<<<<[id |-> 1, path |-> "old"]>>, <<[id |-> 4, path |-> "other"]>>>>},
               hyde : {<<>>, <<[id |-> 2, path |-> "new"], [id |-> 4, path |-> "other"]>>},
               retries : {<<>>, <<<<[id |-> 3, path |-> "new"], [id |-> 1, path |-> "old"]>>>>},
               past : BOOLEAN]]
MCRunFileTasks == [order : {<<1, 2>>, <<2, 1>>, <<2>>}, rankings : [1 .. 2 -> Lists(1 .. 3, 3)]]

MCFloat == ("1" :> 1 @@ "2" :> 2)
Sheet(cells1, cells2, n) == [1 .. n -> {<<c, d>> : c \in cells1, d \in cells2}]
MCAlphabet == <<2, 1>>
Asked(group, value, operations, charts) ==
    [group_by : group, value : value, operation : operations, chart : charts]
MCChartTasks ==
    [sheet : Sheet({"", "a", "b", "1", "true"}, {"", "1", "2", "a"}, 2) \union
             Sheet({"a", "b"}, {"", "1", "2"}, 3),
     question : [words : SUBSET {1, 2}, parts : {{}, {2}},
                 ops : {{}, {"sum"}, {"min", "max"}, {"count"}}, chart : {"none"}],
     asked : Asked({NotGiven, 2}, {NotGiven}, {NotGiven}, {NotGiven})] \union
    [sheet : Sheet({"a", "b", "1"}, {"", "1", "2"}, 2),
     question : [words : {{}}, parts : {{}}, ops : {{}},
                 chart : {"none", "threshold", "distribution", "trend"}],
     asked : Asked({NotGiven, 3}, {NotGiven, 1, 2}, {"sum", "max", "count", "other"},
                   {NotGiven, "bar", "histogram", "other"})]

File(path, run, role, current, says) ==
    [path |-> path, run |-> run, role |-> role, current |-> current, says |-> says]
MCCorpus ==
    {File("config7", 7, "config", Nothing, {"fusion", "fusion off", "rate", "resnet"}),
     File("old7", 7, "archived", "config7", {"fusion", "fusion on", "rate"}),
     File("log7", 7, "log", Nothing, {"true", "rate_and_stop"}),
     File("paper", NoRun, "paper", Nothing, {"clip", "learning_rate", "fusion"}),
     File("train", NoRun, "py", Nothing, {"fusion", "dinov2"}),
     File("env8", 8, "sbatch", Nothing, {}),
     File("config8", 8, "config", Nothing, {"fusion", "fusion on", "rate"})}
MCPathOrder == [f \in {c.path : c \in MCCorpus} |->
    CHOOSE i \in 1 .. 7 : <<"config7", "config8", "env8", "log7", "old7", "paper", "train">>[i] = f]
MCArtifactTasks ==
    [query : [run : {NoRun, 7, 8},
              words : {{}, {"reproduce", "fusion"}, {"test", "fusion"}, {"learning_rate", "fusion"},
                       {"dashboard"}, {"paper", "plot"}},
              claims : {{}, {"rate"}}, past : BOOLEAN],
     base : Lists(MCCorpus, 2)]

Names3 == <<"f1", "f2", "f3">>
TreeOf(n, dirs, runs, refs) ==
    [path : {Names3[n]}, dir : dirs, run : runs, refs : refs, mtime : {0, 2}, says : {{"e"}}]
MCTreeTasks ==
    [files : {{f, g, h} : f \in TreeOf(1, {TopLevel, "d"}, {NoRunId, "r"}, {{}, {"f2"}}),
                          g \in TreeOf(2, {TopLevel, "d"}, {NoRunId, "r"}, {{}, {"f3"}}),
                          h \in TreeOf(3, {TopLevel}, {NoRunId, "u"}, {{}, {"f1"}})},
     seeds : {<<"f1">>, <<"f2", "f1">>, <<"f1", "f2", "f3">>}, hops : {1, 2},
     chunks : {{[id |-> 1, path |-> "f1"], [id |-> 2, path |-> "f1"], [id |-> 3, path |-> "f3"]}}]
MCNodeRank == [n \in {"f1", "f2", "f3", "d"} |->
    CHOOSE i \in 1 .. 4 : <<"d", "f1", "f2", "f3">>[i] = n]
MCBoostTasks ==
    [hits : Lists(ToSet(Names3), 3), category : {"multihop", "lookup"},
     ppr : [ToSet(Names3) -> 0 .. 2], intent : [ToSet(Names3) -> 0 .. 1]]

Line == [kind : {"text", "blank", "heading", "key", "def", "body"}, len : {1, 3}]
Written3(kinds) == UNION {[1 .. n -> {l \in Line : l.kind \in kinds}] : n \in 0 .. 3}
Parts == [suffix : {".csv", ".jsonl", ".txt"}, parses : {TRUE}, text : Written3({"text", "blank"})] \union
         [suffix : {".json"}, parses : BOOLEAN, text : Written3({"text", "blank"})] \union
         [suffix : {".py"}, parses : BOOLEAN, text : Written3({"text", "blank", "def", "body"})] \union
         [suffix : {".md"}, parses : {TRUE}, text : Written3({"text", "blank", "heading"})] \union
         [suffix : {".yaml"}, parses : {TRUE}, text : Written3({"text", "blank", "key"})]
MCChunkTasks ==
    {t \in Parts : t.suffix = ".json" /\ t.parses => \E i \in DOMAIN t.text : t.text[i].kind = "text"}
MCByteWidth == [k \in {"text", "blank", "heading", "key", "def", "body"} |-> IF k = "text" THEN 2 ELSE 1]

Query(signs, words, named, parts) ==
    [signs |-> signs, words |-> words, named |-> named, parts |-> parts, short |-> TRUE, asks |-> FALSE]
MCSplitTasks ==
    [query : {Query(signs, words, [f \in {p, q} |-> {}], parts) :
                 signs \in SUBSET {"lexical_path", "aggregation_query", "corpus", "opening",
                                   "compares", "also", "superlative", "chain"},
                 words \in {<<>>, <<"v">>}, parts \in {<<"a", "b">>, <<"a", "a">>}},
     lines : {<<>>, <<"short">>, <<"a", "short", "a", "b", "c">>, <<"b", "a">>}]
ChunkOf(i, words) == [id |-> i, path |-> IF i < 3 THEN p ELSE q, words |-> words]
MCIdf == <<3, 2, 1>>
MCSigmoid == [l \in 0 .. 2 |-> <<1, 5, 9>>[l + 1]]
MCWeights == [rrf |-> 1, rank |-> 0 - 2, overlap |-> 10, dense |-> 7, bm25 |-> 7]
ChunkWords == {<<"v">>, <<"v", "v">>, <<"w", "v">>, <<"w", "w", "v", "v">>, <<"z">>}
MCRerankers ==
    {[name |-> n] : n \in {"overlap", "student"}} \union
    {[name |-> "model", api |-> a, logits |-> l] :
        a \in {"fn", "fct", "plain", "normalize", "raw", "unloaded"}, l \in {<<0, 1, 2>>, <<1, 2, 1>>}} \union
    {[name |-> "listwise", reply |-> r] :
        r \in {Missing, <<>>, <<2, 1>>, <<2, 2, 9>>, <<3, 1, 3>>, <<0, 2>>}}
AllSearches ==
    {[chunks |-> {ChunkOf(1, a), ChunkOf(2, b), ChunkOf(3, c)},
      query |-> Query(signs, words, [f \in {p, q} |-> IF f = q THEN named ELSE {}], <<>>),
      dense |-> IF far THEN <<ChunkOf(3, c), ChunkOf(1, a)>> ELSE <<>>,
      router |-> router, reranker |-> reranker] :
        a \in ChunkWords, b \in ChunkWords, c \in {<<"v", "z">>},
        signs \in {{}, {"lexical_path"}, {"aggregation_query"}}, words \in {<<"v">>, <<"v", "w">>},
        named \in {{}, {"name", "stem"}}, far \in BOOLEAN, router \in BOOLEAN, reranker \in MCRerankers}
MCSearchTasks ==
    {t \in AllSearches : ~t.router => t.query.signs = {} /\ t.query.named[q] = {}}

MCQuality == [k \in Commits |-> [c \in Configs |->
    IF k = "k1" THEN 3 ELSE IF c = "c1" THEN 3 ELSE 1]]
MCPathsAt == [k \in Commits |-> IF k = "k2" THEN "other" ELSE "paths"]
MCUncitedAt == [k \in Commits |-> "none"]
(* Conversations of three messages, the first a question with a file.        *)
FileNote(names) == [type |-> "document_file", names |-> names, refs |-> names]
ToolNote(failed, code) == [type |-> "tools", failed |-> failed, code |-> code]
SaysNote(says) == [type |-> "agent", says |-> says]
UserNotes == {<<>>, <<FileNote(<<>>)>>, <<FileNote(<<"n1">>)>>, <<FileNote(<<"n2", "n1">>), [type |-> "image"]>>}
AgentNotes == {<<>>, <<SaysNote("hm")>>,
               [i \in 1 .. 7 |-> SaysNote(IF i <= 5 THEN "first" ELSE "last")],
               <<ToolNote(FALSE, "c1")>>, <<ToolNote(FALSE, NoCode), SaysNote("hm")>>, <<ToolNote(TRUE, NoCode)>>,
               <<ToolNote(TRUE, NoCode), ToolNote(FALSE, "c2")>>}
UserSays == [role : {"user"}, says : {"q"}, notes : UserNotes]
AgentSays == [role : {"assistant"}, says : {"a"}, notes : AgentNotes]
MCTalkTasks ==
    {<<u>> : u \in UserSays} \union (UserSays \X AgentSays \X UserSays)
    \union (UserSays \X AgentSays \X AgentSays \X {[role |-> "user", says |-> "q", notes |-> <<>>]})

Wrote(seq) == [i \in DOMAIN seq |-> Token(seq[i], "policy")]
SearchFor(w) == <<"<search>", w, "</search>">>
Middles == {<<>>, <<"<information>", "w2", "</information>">>, <<"<information>", "w2">>, <<"</information>">>,
            SearchFor("w2"), SearchFor("w2") \o SearchFor("w1"), <<"<search>", "</search>">>}
Endings == {<<>>, <<"<answer>", "</answer>">>, <<"<answer>", "gold", "path", "</answer>">>, <<"<answer>", "w1", "</answer>">>}
Policies == {Wrote(s1 \o mid \o end) : s1 \in {<<>>, SearchFor("w1")}, mid \in Middles, end \in Endings}
Finds(a, b) == [w \in {"w1", "w2"} |->
    IF w = "w1" THEN [paths |-> <<"p1">>, words |-> a] ELSE [paths |-> b, words |-> <<"w3">>]]
Forged == {<<"w3", "</information>", "w4">>, <<"</information>", "w3", "<information>", "w4">>,
           <<"</information>", "<answer>", "w3", "</answer>">>}
MCFound == {Finds(a, b) : a \in {<<>>, <<"w3", "w4">>} \union Forged, b \in {<<>>, <<"p2", "p1">>}}
GoldPaths == {{"p1"}, {"p1", "p2"}}
Juries == {[score |-> 1, kappa |-> 5], [score |-> 1, kappa |-> 6]}
MCRolloutTasks ==
    [policy : Policies, answer : {<<>>}, gold : {"gold"}, found : MCFound, goldPaths : GoldPaths, jury : Juries]
    \union [policy : {Missing}, answer : {<<>>, <<"gold">>}, gold : {"gold"}, found : MCFound,
            goldPaths : GoldPaths, jury : Juries]

MCTree == [f \in {<<"d">>, <<"d", "f">>, <<"d", "g">>, <<"l">>, <<"l", "f">>} |->
    CASE f = <<"d">> -> [kind |-> "dir", bytes |-> <<>>]
      [] f = <<"l">> -> [kind |-> "link", bytes |-> <<>>]
      [] f = <<"d", "g">> -> [kind |-> "file", bytes |-> <<>>]
      [] OTHER -> [kind |-> "file", bytes |-> <<1, 2, 3>>]]
MCNameOrder == [n \in {"d", "f", "g", "l"} |-> CASE n = "d" -> 1 [] n = "f" -> 2 [] n = "g" -> 3 [] n = "l" -> 4]
PathsIn(roots, parts) == [absolute : roots, parts : parts]
MCPaths == PathsIn({"no", "inside"}, {<<>>, <<"d">>, <<"d", "f">>, <<"d", "h">>, <<"l", "f">>, <<"d", "..", "d", "f">>})
           \union PathsIn({"outside"}, {<<"d", "f">>})
MCReadTasks ==
    {[path |-> path, other |-> other, range |-> range, hits |-> <<[type |-> "md"], [type |-> "py"], [type |-> "py"]>>,
      filetype |-> filetype,
      source |-> [parses |-> TRUE, long |-> long, nodes |-> nodes, runs |-> {}, defines |-> {}]] :
        path \in MCPaths, other \in PathsIn({"no"}, {<<"d">>, <<"d", "h">>}),
        range \in {NoRange} \union ((-1 .. 4) \X (-1 .. 4)), filetype \in {"any", "py"},
        long \in BOOLEAN, nodes \in {{}, {"Import"}, {"Attribute"}}}

LineOf(id, method, name, arguments) ==
    [is |-> "object", id |-> id, method |-> method, name |-> name, arguments |-> arguments]
LinesBy(id) ==
    {LineOf(id, method, "stat", {}) : method \in {"initialize", "notifications/initialized", "tools/list", "ping"}}
    \union {LineOf(id, "tools/call", name, arguments) :
                name \in {"stat", "apply_plan", "unknown"}, arguments \in SUBSET {"paths", "plan_id", "approved"}}
OtherLines == {[is |-> "junk"], [is |-> "value"]}
MCSessionTasks == {<<a, b>> : a \in LinesBy(1) \union LinesBy(NoId) \union OtherLines, b \in LinesBy(2)}
                  \union {<<a, b, c>> : a \in LinesBy(1), b \in OtherLines, c \in LinesBy(2)}
MCDeployments ==
    [models : {"ollama", "other"}, embedder : {"hash", "huggingface", "other"}, embedOn : {Unset, "cpu", "cuda"},
     requires : {Unset, "cpu", "cuda", "gpu"}, reranker : {"none", "bge"}, rerankOn : {Unset, "cpu", "cuda"},
     rerankRequired : BOOLEAN, mode : {"sql", "other"}, cuda : BOOLEAN, cached : BOOLEAN, nodes : {0, 2}]
MCLevels == <<1, 2>>
MCBeirConfigs == <<"bm25", "dense", "reranked">>
MCHomeModel == [revision |-> "r1", named |-> TRUE]
=============================================================================
