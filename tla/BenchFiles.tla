------------------------------ MODULE BenchFiles -----------------------------
(* The bench and its result files (app/eval/harness.py run_bench, compare.py *)
(* and the targets of the Makefile), the answers of the jury and their       *)
(* rescoring (llm_eval.py), and the external datasets (beir.py) with their   *)
(* archives, documents and cached embeddings, on a developer's machine where *)
(* commits, edits of the corpus, updates of the model and kills happen at    *)
(* any time.                                                                 *)
(*                                                                           *)
(* A result file is NoFile, Torn when its writer was killed, or              *)
(* [sha, code, rows]: the commit it is named after, the commit whose code    *)
(* scored it, and the value of each configuration.                           *)
EXTENDS Scoring

CONSTANTS
    Commits, Configs, BaselineOnly,
    Quality,          \* what each commit's code scores in each configuration
    PathsAt,          \* the retrieved paths of the gold questions, by commit
    UncitedAt,        \* the answers without a citation, by commit
    Threshold,        \* largest drop that passes
    MaxMoves,         \* commits and edits of the corpus
    MaxStarts,        \* runs of the bench and the jury, and of beir
    Datasets,         \* external datasets with as many documents each
    BeirConfigs,      \* the configurations of a run of beir, in order
    Embeds, Reranks,  \* those that need the embedding model, the reranker
    Revisions,        \* of the embedding model
    NoFile, Torn

Results ==
    [sha : Commits, code : Commits, rows : UNION {[configs -> Int] : configs \in SUBSET Configs}]
ASSUME BenchAssumption ==
    /\ NoFile # Torn /\ NoFile \notin Commits /\ NoFile \notin Results /\ Torn \notin Results
    /\ BaselineOnly \subseteq Configs /\ Threshold \in Int /\ Missing \notin Int
    /\ \A c \in Commits : Quality[c] \in [Configs -> Int]
    /\ BeirConfigs \in Seq(ToSet(BeirConfigs)) /\ Embeds \subseteq ToSet(BeirConfigs)
    /\ NoFile \notin Revisions

VARIABLES
    head, corpus, budget,
    archive, latest, main, apart,   \* <sha>.json, latest.json, main.json, --out
    bench,                          \* the process that scores
    gate,                           \* the last verdict and what it was about
    jury,                           \* jury.json
    disk,                           \* bench/external: zip, documents, identity
    matrices,                       \* bench/external/cache: the embedded documents
    model,                          \* the embedding model in the hub's cache
    beir,                           \* the process that scores a dataset
    beirOut,                        \* what it wrote
    spent                           \* of the bounds of this part

benchVars == <<head, corpus, budget, archive, latest, main, apart, bench, gate, jury>>
beirVars == <<disk, matrices, model, beir, beirOut, spent>>
resultFiles == <<archive, latest, main, apart>>

Idle == [pc |-> "idle"]
(* f, with v for k.                                                          *)
Put(f, k, v) == [x \in DOMAIN f \union {k} |-> IF x = k THEN v ELSE f[x]]

BenchInit ==
    /\ head \in Commits /\ corpus = "listed"
    /\ budget = [moves |-> 0, starts |-> 0]
    /\ archive = [c \in Commits |-> NoFile]
    /\ latest = NoFile /\ main = NoFile /\ apart = NoFile
    /\ bench = Idle /\ gate = NoFile /\ jury = NoFile

Moving == budget.moves < MaxMoves /\ budget' = [budget EXCEPT !.moves = @ + 1]
Starting == budget.starts < MaxStarts /\ budget' = [budget EXCEPT !.starts = @ + 1]

(* The developer.                                                            *)
Checkout(c) ==
    /\ Moving /\ head # c /\ head' = c
    /\ UNCHANGED <<corpus, resultFiles, bench, gate, jury>>
EditCorpus ==
    /\ Moving /\ corpus' = IF corpus = "listed" THEN "edited" ELSE "listed"
    /\ UNCHANGED <<head, resultFiles, bench, gate, jury>>

----------------------------------------------------------------------------
(* run_bench: the manifest is checked once, every row is scored by the code  *)
(* that was started, the sha is read when all rows are done.                 *)
StartBench(configs, out) ==
    /\ bench.pc = "idle" /\ Starting
    /\ IF corpus = "listed"
       THEN bench' = [pc |-> "score", code |-> head, left |-> configs, rows |-> <<>>, out |-> out]
       ELSE UNCHANGED bench
    /\ UNCHANGED <<head, corpus, resultFiles, gate, jury>>

ScoreRow ==
    /\ bench.pc = "score" /\ bench.left # {}
    /\ \E c \in bench.left :
          bench' = [bench EXCEPT !.left = @ \ {c},
                                 !.rows = Put(@, c, Quality[bench.code][c])]
    /\ UNCHANGED <<head, corpus, budget, resultFiles, gate, jury>>

ReadSha ==
    /\ bench.pc = "score" /\ bench.left = {}
    /\ bench' = [pc |-> IF bench.out THEN "out" ELSE "archive",
                 result |-> [sha |-> head, code |-> bench.code, rows |-> bench.rows]]
    /\ UNCHANGED <<head, corpus, budget, resultFiles, gate, jury>>

(* write_text: the file is emptied and then filled.                          *)
Written(whole) == IF whole THEN bench.result ELSE Torn
WriteArchive(whole) ==
    /\ bench.pc = "archive"
    /\ archive' = [archive EXCEPT ![bench.result.sha] = Written(whole)]
    /\ bench' = IF whole THEN [bench EXCEPT !.pc = "latest"] ELSE Idle
    /\ UNCHANGED <<head, corpus, budget, latest, main, apart, gate, jury>>
WriteLatest(whole) ==
    /\ bench.pc = "latest"
    /\ latest' = Written(whole) /\ bench' = Idle
    /\ UNCHANGED <<head, corpus, budget, archive, main, apart, gate, jury>>
WriteOut(whole) ==
    /\ bench.pc = "out"
    /\ apart' = Written(whole) /\ bench' = Idle
    /\ UNCHANGED <<head, corpus, budget, archive, latest, main, gate, jury>>
Kill ==
    /\ bench.pc # "idle" /\ bench' = Idle
    /\ UNCHANGED <<head, corpus, budget, resultFiles, gate, jury>>

(* make bench-baseline; make bench-gate, whose exit status is the verdict.   *)
Promote ==
    /\ latest # NoFile /\ main' = latest
    /\ UNCHANGED <<head, corpus, budget, archive, latest, apart, bench, gate, jury>>
MetricsOf(rows) == [c \in DOMAIN rows |-> [ndcg |-> rows[c]]]
Gate ==
    /\ gate' = [exit |-> IF latest = NoFile \/ main = NoFile THEN 2
                         ELSE IF Torn \in {latest, main} THEN 1
                         ELSE IF Regressions(MetricsOf(latest.rows), MetricsOf(main.rows),
                                             Threshold) = {} THEN 0 ELSE 1,
                current |-> latest, baseline |-> main]
    /\ UNCHANGED <<head, corpus, budget, resultFiles, bench, jury>>

----------------------------------------------------------------------------
(* llm_eval.run writes the answers of a commit; rescore recomputes their     *)
(* checks and keeps the commit that the answers come from.                   *)
JudgeAnswers ==
    /\ Starting /\ corpus = "listed"
    /\ jury' = [sha |-> head, rowsSha |-> NoFile, answers |-> head,
                paths |-> PathsAt[head], uncited |-> UncitedAt[head]]
    /\ UNCHANGED <<head, corpus, resultFiles, bench, gate>>
RowsSha == IF jury.rowsSha = NoFile THEN jury.sha ELSE jury.rowsSha
Rescorable ==
    /\ jury \notin {NoFile, Torn} /\ corpus = "listed"
    /\ PathsAt[head] = jury.paths /\ UncitedAt[head] = jury.uncited
Rescore(whole) ==
    /\ Rescorable
    /\ jury' = IF whole THEN [jury EXCEPT !.rowsSha = RowsSha, !.sha = head] ELSE Torn
    /\ UNCHANGED <<head, corpus, budget, resultFiles, bench, gate>>

----------------------------------------------------------------------------
(* beir.run.  download_dataset: the archive comes under a temporary name, its*)
(* hash must be the pinned one and the one recorded, and the documents are   *)
(* extracted unless their first file is there already.                       *)
BeirInit ==
    /\ disk = [d \in Datasets |-> [zip |-> NoFile, docs |-> NoFile, identity |-> NoFile]]
    /\ matrices = <<>>
    /\ model \in [revision : Revisions, named : BOOLEAN]
    /\ beir = Idle /\ beirOut = NoFile
    /\ spent = [moves |-> 0, starts |-> 0]

Goto(pc) == beir' = [beir EXCEPT !.pc = pc]
Fetch(d, archived) ==
    /\ beir.pc = "idle" /\ spent.starts < MaxStarts
    /\ spent' = [spent EXCEPT !.starts = @ + 1]
    /\ disk' = [disk EXCEPT ![d].zip = IF @ = NoFile THEN archived ELSE @]
    /\ beir' = [pc |-> "verify", dataset |-> d]
    /\ UNCHANGED <<matrices, model, beirOut>>
Here == disk[beir.dataset]
Accept == Here.zip = "pinned" /\ Here.identity \in {NoFile, Here.zip}
Verify ==
    /\ beir.pc = "verify"
    /\ IF ~Accept THEN beir' = Idle ELSE Goto(IF Here.docs = NoFile THEN "extract" ELSE "identify")
    /\ UNCHANGED <<disk, matrices, model, beirOut, spent>>
Extract(whole) ==
    /\ beir.pc = "extract"
    /\ disk' = [disk EXCEPT ![beir.dataset].docs = [of |-> beir.dataset, from |-> Here.zip, whole |-> whole]]
    /\ IF whole THEN Goto("identify") ELSE beir' = Idle
    /\ UNCHANGED <<matrices, model, beirOut, spent>>
Identify ==
    /\ beir.pc = "identify"
    /\ disk' = [disk EXCEPT ![beir.dataset].identity = Here.zip]
    /\ Goto("load")
    /\ UNCHANGED <<matrices, model, beirOut, spent>>

(* load_beir, and the check that every judged document is there: of files    *)
(* that were not extracted whole it reads nothing, or what there is.         *)
ReadsAll == Here.docs.whole
LoadBeir(read) ==
    /\ beir.pc = "load"
    /\ ReadsAll => read
    /\ beir' = IF read THEN [pc |-> "build", dataset |-> beir.dataset, docs |-> Here.docs,
                             left |-> BeirConfigs, by |-> NoFile, matrix |-> NoFile, rows |-> <<>>]
               ELSE Idle
    /\ UNCHANGED <<disk, matrices, model, beirOut, spent>>

(* Engine.doc_matrix, once in a process: the embedder is loaded, and the file*)
(* named after the documents' hash and the model's revision is read, or the  *)
(* documents are embedded and it is written.  A file that was cut off ends   *)
(* the run, this one and every later one.                                    *)
MatrixName(docs, revision) == <<docs, revision>>
Wants(c) == c \in Embeds /\ beir.matrix = NoFile
DocMatrix ==
    /\ beir.pc = "build" /\ beir.left # <<>> /\ Wants(Head(beir.left))
    /\ LET name == MatrixName(beir.docs, IF model.named THEN model.revision ELSE NoFile)
           Cached == name \in DOMAIN matrices
       IN beir' = IF Cached /\ matrices[name] = Torn THEN Idle
                  ELSE [beir EXCEPT !.pc = IF Cached THEN "build" ELSE "save",
                                    !.by = [revision |-> model.revision, named |-> model.named],
                                    !.matrix = IF Cached THEN matrices[name]
                                               ELSE [of |-> beir.docs, by |-> model.revision]]
    /\ UNCHANGED <<disk, matrices, model, beirOut, spent>>
SaveMatrix(whole) ==
    /\ beir.pc = "save"
    /\ LET name == MatrixName(beir.docs, IF beir.by.named THEN beir.by.revision ELSE NoFile)
       IN matrices' = Put(matrices, name, IF whole THEN beir.matrix ELSE Torn)
    /\ IF whole THEN Goto("build") ELSE beir' = Idle
    /\ UNCHANGED <<disk, model, beirOut, spent>>

(* run_config: everything it needs is built before the first query; without  *)
(* the reranker, or the device for it, the run ends with no report.          *)
RerankerReady(c, loaded) == c \in Reranks => loaded
RunConfig(loaded) ==
    /\ beir.pc = "build" /\ beir.left # <<>> /\ ~Wants(Head(beir.left))
    /\ LET c == Head(beir.left)
       IN beir' = IF ~RerankerReady(c, loaded) THEN Idle
                  ELSE [beir EXCEPT !.left = Tail(@),
                                    !.rows = Put(@, c, IF c \in Embeds THEN beir.matrix ELSE NoFile)]
    /\ UNCHANGED <<disk, matrices, model, beirOut, spent>>
WriteBeir(whole) ==
    /\ beir.pc = "build" /\ beir.left = <<>>
    /\ beirOut' = IF whole THEN [dataset |-> beir.dataset, zip |-> Here.zip, docs |-> beir.docs,
                                 by |-> beir.by, rows |-> beir.rows]
                  ELSE Torn
    /\ beir' = Idle
    /\ UNCHANGED <<disk, matrices, model, spent>>

KillBeir == beir.pc # "idle" /\ beir' = Idle /\ UNCHANGED <<disk, matrices, model, beirOut, spent>>
(* Between downloads.                                                        *)
Touching ==
    /\ beir.pc \in {"idle", "build"}
    /\ spent.moves < MaxMoves /\ spent' = [spent EXCEPT !.moves = @ + 1]
    /\ UNCHANGED <<matrices, beir, beirOut>>
RemoveArchive(d) ==
    /\ Touching /\ disk[d].zip # NoFile
    /\ disk' = [disk EXCEPT ![d].zip = NoFile]
    /\ UNCHANGED model
UpdateModel(revision) ==
    /\ Touching /\ revision # model.revision
    /\ model' = [model EXCEPT !.revision = revision]
    /\ UNCHANGED disk

BeirNext ==
    \/ \E d \in Datasets, archived \in {"pinned", "other"} : Fetch(d, archived)
    \/ Verify \/ Identify \/ DocMatrix \/ KillBeir
    \/ \E whole \in BOOLEAN : Extract(whole) \/ SaveMatrix(whole) \/ WriteBeir(whole)
    \/ \E read \in BOOLEAN : LoadBeir(read)
    \/ \E loaded \in BOOLEAN : RunConfig(loaded)
    \/ \E d \in Datasets : RemoveArchive(d)
    \/ \E revision \in Revisions : UpdateModel(revision)

----------------------------------------------------------------------------
BenchNext ==
    \/ \E c \in Commits : Checkout(c)
    \/ EditCorpus
    \/ \E configs \in {Configs, BaselineOnly}, out \in BOOLEAN : StartBench(configs, out)
    \/ ScoreRow \/ ReadSha
    \/ \E whole \in BOOLEAN : WriteArchive(whole) \/ WriteLatest(whole) \/ WriteOut(whole)
    \/ Kill \/ Promote \/ Gate
    \/ JudgeAnswers
    \/ \E whole \in BOOLEAN : Rescore(whole)

----------------------------------------------------------------------------
(* A report of an external dataset is of documents whose archive had the     *)
(* pinned hash, has a row for every configuration, and every embedded row    *)
(* was scored with the embeddings of just these documents, whatever datasets *)
(* of the same size were embedded before, and by the model it names.         *)
BeirReportTellsItsSource ==
    beirOut \notin {NoFile, Torn} =>
        /\ beirOut.docs.of = beirOut.dataset /\ beirOut.docs.from = "pinned"
        /\ DOMAIN beirOut.rows = ToSet(BeirConfigs)
        /\ \A c \in Embeds :
              /\ beirOut.rows[c].of = beirOut.docs
              /\ beirOut.by.named => beirOut.rows[c].by = beirOut.by.revision
=============================================================================
