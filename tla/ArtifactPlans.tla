---------------------------- MODULE ArtifactPlans ----------------------------
(* Artifacts generated from retrieved files (app/artifacts): the evidence of *)
(* a reproduction (pipeline.py), the spec card (spec.py), the code that a    *)
(* template gives (templates.py, paper2code.py), its trial run (sandbox.py)  *)
(* and the badges of a run's bundle (manifest.py); and the chart of a        *)
(* spreadsheet (visualization.py): how the plan chooses columns, operation   *)
(* and chart from a question, the table it shows for review, and what the    *)
(* generated script computes when it is run.                                 *)
(*                                                                           *)
(* A chunk is [path, run, role, current, says]: the run it belongs to, the   *)
(* words the code looks for in it, and the path that supersedes it, if any.  *)
(* A query is [run, words, claims, past]: the run and the words it names,    *)
(* the fields it gives a value for, and whether it compares versions.        *)
(* A sheet is a sequence of rows, a row a sequence of cells; columns are     *)
(* known by position.  A question is what the code looks for in it: the      *)
(* columns it names and the words of the operations and charts.              *)
EXTENDS Integers, Sequences, FiniteSets, SequencesExt, FiniteSetsExt, Lists

CONSTANTS
    Corpus,           \* the indexed chunks, one per path
    PathOrder,        \* rank of each path among the paths
    Evidences,        \* hits kept as evidence (12)
    Citations,        \* hits a spec card cites (4)
    NoRun,            \* the query names no run
    Nothing,          \* no value, or no newer version
    Float,            \* the cells that read as a number, and the number
    Booleans,         \* the cells that read as true or false
    EmptyCell,
    Alphabet,         \* rank of each column's name
    IdColumns,        \* columns named id or run_id
    FewValues,        \* a column with more values is free text (20)
    NotGiven

RESEARCH_SOURCE_TERMS == {"fusion", "dinov2"}
Roles == <<"paper", "py", "log", "sbatch", "checkpoint", "archived", "config">>

(* A path has one chunk and a rank of its own.  The role "config" is of the  *)
(* files configs/run_NNN.yaml, whose path is made of the number of the run:  *)
(* every run has at most one.                                                *)
ASSUME CorpusAssumption ==
    /\ Nothing \notin BOOLEAN
    /\ IsFiniteSet(Corpus) /\ Citations \in Nat \ {0} /\ Evidences \in Nat \ {0}
    /\ \A c \in Corpus :
          /\ c.role \in ToSet(Roles) /\ IsFiniteSet(c.says) /\ PathOrder[c.path] \in Int
          /\ c.role = "config" => c.run # NoRun
    /\ \A c, d \in Corpus :
          /\ PathOrder[c.path] = PathOrder[d.path] => c = d
          /\ c.role = "config" /\ d.role = "config" /\ c.run = d.run => c = d

Says(hits, word) == \E i \in DOMAIN hits : word \in hits[i].says

(* retrieve_research_evidence: the roles in the order of preference, after   *)
(* the configuration that the run itself was started with.                   *)
RoleRank(query, chunk) ==
    IF query.run # NoRun /\ chunk.role = "config" /\ chunk.run = query.run THEN 0
    ELSE Min({6, CHOOSE i \in DOMAIN Roles : Roles[i] = chunk.role})
BaseRank(base, chunk) ==
    IF \E i \in DOMAIN base : base[i] = chunk
    THEN CHOOSE i \in DOMAIN base : base[i] = chunk ELSE 10000
EvidenceKey(query, base, terms, chunk) ==
    <<RoleRank(query, chunk), -Cardinality(terms \intersect chunk.says),
      -Cardinality(query.words \intersect chunk.says), BaseRank(base, chunk),
      PathOrder[chunk.path]>>
KeyBefore(k, l) ==
    \E i \in 1 .. 5 : k[i] < l[i] /\ \A j \in 1 .. i - 1 : k[j] = l[j]

PreferNewest(query, chunks) ==
    IF query.past THEN chunks
    ELSE {c \in chunks : c.current = Nothing \/ c.current \notin {d.path : d \in chunks}}

RetrieveResearchEvidence(query, base) ==
    LET ofRun == {c \in Corpus : query.run # NoRun /\ c.run = query.run}
        found == ToSet(base) \union ofRun
        terms == {t \in RESEARCH_SOURCE_TERMS : \E c \in found : t \in c.says}
        sources == {c \in Corpus : c.role = "py" /\ c.says \intersect terms # {}}
        newest == PreferNewest(query, found \union sources)
        key == [c \in newest |-> EvidenceKey(query, base, terms, c)]
    IN FirstOf(Sorted(newest, [c \in newest |-> {d \in newest : KeyBefore(key[d], key[c])}]), Evidences)

----------------------------------------------------------------------------
(* spec_from_query, _pick_template.                                          *)
PickTemplate(query) ==
    CASE "dashboard" \in query.words -> "streamlit"
      [] "dashboard" \notin query.words /\ "plot" \in query.words -> "jupyter-analysis"
      [] query.words \intersect {"dashboard", "plot"} = {} /\ "test" \in query.words -> "pytest"
      [] OTHER -> IF "reproduce" \in query.words THEN "research-repro" ELSE "python-lib"
SpecFromQuery(query, hits) ==
    [template |-> PickTemplate(query),
     citations |-> {hits[i].path : i \in 1 .. Min({Citations, Len(hits)})},
     tests |-> {w \in {"fusion", "learning_rate"} : w \in query.words}]

(* render: what the code of a template defines and what its tests use.       *)
Render(spec, query, hits) ==
    LET fusion == "fusion" \in query.words \/ Says(hits, "fusion")
    IN CASE spec.template = "python-lib" ->
              [defines |-> IF fusion THEN {"fusion"} ELSE {}, runs |-> spec.tests, parses |-> TRUE]
         [] spec.template = "pytest" ->
              [defines |-> spec.tests, runs |-> spec.tests, parses |-> TRUE]
         [] OTHER -> [defines |-> {}, runs |-> {}, parses |-> TRUE]

(* _repro: the first rate found, the first encoder known, and the fusion.    *)
Rates == {"rate", "rate_and_stop"}      \* the second is cut with its full stop
FirstRate(hits) ==
    LET with == {i \in DOMAIN hits : hits[i].says \intersect Rates # {}}
    IN IF with = {} THEN Nothing
       ELSE CHOOSE r \in hits[Min(with)].says \intersect Rates : TRUE
Encoder(hits) ==
    CASE Says(hits, "dinov2") -> "dinov2"
      [] ~Says(hits, "dinov2") /\ (Says(hits, "resnet") \/ Says(hits, "resnet50")) -> "resnet50"
      [] OTHER -> IF Says(hits, "clip") THEN "clip" ELSE "unknown"
FusionKnown(hits) ==
    CASE Says(hits, "fusion on") -> "True"
      [] ~Says(hits, "fusion on") /\ Says(hits, "fusion off") -> "False"
      [] OTHER -> "True"
Repro(hits) ==
    [lr |-> FirstRate(hits), encoder |-> Encoder(hits), fusion |-> FusionKnown(hits),
     parses |-> FirstRate(hits) # "rate_and_stop"]

(* claim_support: the claims of the generated code that no hit supports.     *)
(* The goal of the query stands in the code's header, so its claims count.   *)
ClaimSupport(query, code, hits) ==
    {w \in query.claims : ~Says(hits, w)} \union
    {w \in {"fusion"} : ~Says(hits, w) /\ ~(code.fusion = "True" /\ Says(hits, "true"))} \union
    {e \in {code.encoder} \ {"unknown"} : ~Says(hits, e)}

(* run_sandboxed.  A template imports nothing and calls nothing that is      *)
(* banned, so that ast_safe refuses only what does not parse; the tests that *)
(* run use names that must be defined.                                       *)
AstSafe(source) == source.parses
RunSandboxed(source) == AstSafe(source) /\ source.runs \subseteq source.defines

(* paper2code, and the trial of its code; ArtifactAgent.produce.             *)
Paper2Code(query, hits) ==
    LET code == Repro(hits)
    IN [kind |-> "research", hits |-> hits,
        spec |-> [SpecFromQuery(query, hits) EXCEPT !.template = "research-repro"],
        code |-> code, unsupported |-> ClaimSupport(query, code, hits),
        ok |-> RunSandboxed([parses |-> code.parses, runs |-> {"fusion"},
                             defines |-> {"fusion"}])]
IsResearch(query) == query.words \intersect {"paper", "reproduce"} # {}
Produce(query, base) ==
    IF IsResearch(query) THEN Paper2Code(query, RetrieveResearchEvidence(query, base))
    ELSE LET spec == SpecFromQuery(query, base)
             code == Render(spec, query, base)
         IN [kind |-> "code", hits |-> base, spec |-> spec, code |-> code, unsupported |-> {},
             ok |-> RunSandboxed(code)]

----------------------------------------------------------------------------
BundleRole(chunk) ==
    CASE chunk.role = "archived" -> "config"
      [] chunk.role = "py" -> "code"
      [] chunk.role = "sbatch" -> "env"
      [] OTHER -> chunk.role

(* score_badges of a bundle [roles, claims, citations]; tested is Nothing    *)
(* before the reproduction was tried.                                        *)
ScoreBadges(bundle, tested) ==
    LET available == bundle.roles # {}
        functional == available /\ bundle.roles \intersect {"code", "test"} # {}
                      /\ "config" \in bundle.roles /\ tested \in {Nothing, TRUE}
        reusable == functional /\ bundle.roles \intersect {"env", "paper"} # {}
                    /\ (bundle.citations # {} \/ bundle.claims # {})
    IN {b \in {"available", "functional", "reusable"} :
           CASE b = "available" -> available
             [] b = "functional" -> functional
             [] b = "reusable" -> reusable}

(* collect_run: the run's files, then the trial of a reproduction, whose     *)
(* evidence is searched for in more words than its code is asked for in.     *)
CollectRun(run, base) ==
    LET files == {c \in Corpus : c.run = run}
        papers == {c.path : c \in {c \in files : c.role = "paper"}}
        bundle == [roles |-> {BundleRole(c) : c \in files}, claims |-> papers, citations |-> papers]
        Asked(words) == [run |-> run, claims |-> {}, past |-> FALSE, words |-> words]
        hits == RetrieveResearchEvidence(Asked({"reproduce", "learning_rate", "fusion", "paper"}), base)
        tried == Paper2Code(Asked({"reproduce", "paper"}), hits)
    IN [badges |-> ScoreBadges(bundle, tried.ok), roles |-> bundle.roles, tried |-> tried,
        citations |-> tried.spec.citations]

----------------------------------------------------------------------------
(* The chart of a spreadsheet.                                               *)

SUPPORTED_OPERATIONS == <<"count", "sum", "min", "max", "mean">>
SUPPORTED_CHARTS == <<"bar", "line", "dot", "histogram">>

Values(sheet, column) == [i \in DOMAIN sheet |-> sheet[i][column]]
IsNumber(cell) == cell \in DOMAIN Float

(* inspect_spreadsheet: the kind of a column.                                *)
Kind(sheet, column) ==
    LET present == SelectSeq(Values(sheet, column), LAMBDA c : c # EmptyCell)
        distinct == ToSet(present)
    IN CASE present # <<>> /\ distinct \subseteq Booleans -> "boolean"
         [] present # <<>> /\ distinct \subseteq DOMAIN Float -> "numeric"
         [] OTHER -> IF Cardinality(distinct) <= Max({FewValues, Len(present) \div 2})
                     THEN "categorical" ELSE "text"

(* _mentioned_column: whole words count more than parts of words, and a tie  *)
(* goes to the last name of the alphabet.                                    *)
MentionedColumn(question) ==
    LET best == IF question.words # {} THEN question.words ELSE question.parts
    IN IF best = {} THEN NotGiven
       ELSE CHOOSE c \in best : \A d \in best : Alphabet[d] <= Alphabet[c]

FirstColumn(columns) == Min(columns)

(* Mutant: a column of any kind may group.                                  *)
ChooseGroupAny(kinds, question, asked) ==
    IF asked # NotGiven THEN asked
    ELSE IF MentionedColumn(question) # NotGiven THEN MentionedColumn(question) ELSE 1

(* _choose_fields; NotGiven for a choice that is refused.                    *)
ChooseGroup(kinds, question, asked) ==
    LET mentioned == MentionedColumn(question)
        categorical == {c \in DOMAIN kinds : kinds[c] # "numeric"}
        named == categorical \intersect (question.words \union question.parts)
    IN CASE asked # NotGiven -> asked
         [] asked = NotGiven /\ mentioned # NotGiven /\ mentioned \in categorical -> mentioned
         [] OTHER -> IF named # {} THEN FirstColumn(named)
                     ELSE IF categorical # {} THEN FirstColumn(categorical) ELSE 1
ChooseValue(kinds, question, asked) ==
    LET numeric == {c \in DOMAIN kinds : kinds[c] = "numeric"}
        offered == numeric \ IdColumns
        named == offered \intersect (question.words \union question.parts)
    IN CASE asked # NotGiven -> IF asked \in numeric THEN asked ELSE NotGiven
         [] OTHER -> IF named # {} THEN FirstColumn(named)
                     ELSE IF offered # {} THEN FirstColumn(offered) ELSE NotGiven

(* _operation and _chart_choice: an explicit choice, else the first kind of  *)
(* word the question has, in the order of the code's tests.                  *)
Operation(question, explicit) ==
    IF explicit # NotGiven THEN explicit
    ELSE LET asked == {i \in 1 .. 4 : SUPPORTED_OPERATIONS[i] \in question.ops}
         IN IF asked = {} THEN "mean" ELSE SUPPORTED_OPERATIONS[Min(asked)]
ChartChoice(question, explicit) ==
    IF explicit # NotGiven
    THEN [chart |-> explicit,
          others |-> SubSeq(SelectSeq(SUPPORTED_CHARTS, LAMBDA c : c # explicit), 1, 2)]
    ELSE CASE question.chart = "threshold" -> [chart |-> "dot", others |-> <<"bar", "line">>]
           [] question.chart = "distribution" -> [chart |-> "histogram", others |-> <<"bar", "dot">>]
           [] question.chart = "trend" -> [chart |-> "line", others |-> <<"dot", "bar">>]
           [] OTHER -> [chart |-> "bar", others |-> <<"dot", "line">>]

----------------------------------------------------------------------------
Numbers(sheet, rows, value) == [i \in rows |-> Float[sheet[i][value]]]
SumOf(numbers) == FoldSet(LAMBDA i, sum : numbers[i] + sum, 0, DOMAIN numbers)
Picked(numbers) == {numbers[i] : i \in DOMAIN numbers}

(* A result is a fraction.                                                   *)
Aggregated(numbers, operation) ==
    CASE operation = "count" -> <<Cardinality(DOMAIN numbers), 1>>
      [] operation = "sum" -> <<SumOf(numbers), 1>>
      [] operation = "min" -> <<Min(Picked(numbers)), 1>>
      [] operation = "max" -> <<Max(Picked(numbers)), 1>>
      [] operation = "mean" -> <<SumOf(numbers), Cardinality(DOMAIN numbers)>>

(* _aggregate: the table for review, from group to result and n.             *)
Aggregate(sheet, group, value, operation) ==
    LET counted(g) == {i \in DOMAIN sheet : sheet[i][group] = g /\ IsNumber(sheet[i][value])}
        groups == {g \in ToSet(Values(sheet, group)) : operation = "count" \/ counted(g) # {}}
    IN [g \in groups |->
           [result |-> Aggregated(Numbers(sheet, counted(g), value), operation),
            n |-> Cardinality(counted(g))]]

(* generate_matlab, by what the script draws: the file is read again, an     *)
(* empty number is NaN, the groups are compared as text, which a numeric     *)
(* group column stops.  A histogram is of the column of values, row by row;  *)
(* every other chart has one result for each group.                          *)
NaN == <<0, 0>>
Script(sheet, kinds, group, value, operation, chart) ==
    LET cell(i) == IF IsNumber(sheet[i][value]) THEN <<Float[sheet[i][value]], 1>> ELSE NaN
        rows(g) == {i \in DOMAIN sheet : sheet[i][group] = g}
        read(g) == {i \in rows(g) : IsNumber(sheet[i][value])}
        drawn(g) ==
            IF operation = "count" THEN <<Cardinality(rows(g)), 1>>
            ELSE IF operation \in {"sum", "mean"} /\ read(g) # rows(g) THEN NaN
            ELSE IF read(g) = {} THEN NaN
            ELSE Aggregated(Numbers(sheet, read(g), value), operation)
    IN CASE kinds[group] = "numeric" -> NotGiven
         [] kinds[group] # "numeric" /\ chart = "histogram" -> [i \in DOMAIN sheet |-> cell(i)]
         [] OTHER -> [g \in ToSet(Values(sheet, group)) |-> drawn(g)]

(* propose_visualization: what is asked for explicitly, [group_by, value,    *)
(* operation, chart], is refused where there is no such thing.               *)
ProposeVisualization(sheet, columns, question, asked) ==
    LET kinds == [c \in 1 .. columns |-> Kind(sheet, c)]
        group == ChooseGroup(kinds, question, asked.group_by)
        value == ChooseValue(kinds, question, asked.value)
        op == Operation(question, asked.operation)
        choice == ChartChoice(question, asked.chart)
    IN IF \/ group \notin DOMAIN kinds \/ value = NotGiven
          \/ op \notin ToSet(SUPPORTED_OPERATIONS) \/ choice.chart \notin ToSet(SUPPORTED_CHARTS)
       THEN NotGiven
       ELSE [kinds |-> kinds, group |-> group, value |-> value, operation |-> op, chart |-> choice,
             table |-> Aggregate(sheet, group, value, op),
             script |-> Script(sheet, kinds, group, value, op, choice.chart)]

----------------------------------------------------------------------------
(* An artifact says only what its evidence says: a reproduction of a run     *)
(* cites the configuration it was started with, names an encoder that its    *)
(* evidence names or reports the claim as unsupported, and switches fusion   *)
(* off only where a file does; and code that passed its trial ran the tests  *)
(* of its card, when the template has a place for them.                      *)
SpeaksFromEvidence(query, plan) ==
    /\ plan.kind = "research" =>
          /\ \A c \in Corpus :
                c.role = "config" /\ c.run = query.run /\ c.current = Nothing
                    => c.path \in plan.spec.citations
          /\ plan.code.encoder # "unknown" =>
                Says(plan.hits, plan.code.encoder) \/ plan.code.encoder \in plan.unsupported
          /\ plan.code.fusion = "False" => Says(plan.hits, "fusion off")
    /\ plan.ok /\ plan.spec.template \in {"python-lib", "pytest"}
          => plan.spec.tests \subseteq plan.code.defines

(* A badge is earned by what was found and tried: each badge includes the    *)
(* one before, and "functional" means that the reproduction ran.             *)
BadgesEarned(bundle) ==
    /\ "reusable" \in bundle.badges => "functional" \in bundle.badges
    /\ "functional" \in bundle.badges =>
          "available" \in bundle.badges /\ bundle.tried.ok /\ "config" \in bundle.roles
=============================================================================
