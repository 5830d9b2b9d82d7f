------------------------------ MODULE FileGraph ------------------------------
(* The graph of a file tree (app/graph/file_graph.py), the communities of    *)
(* its entities (graphrag.py), the summaries above the chunks (hierarchy.py) *)
(* and the reordering of hits by graph and intent (hipporag.py).             *)
(*                                                                           *)
(* A file is [path, dir, run, refs, mtime]: its directory (TopLevel for      *)
(* none), the run it belongs to (NoRunId for none), the files that its text  *)
(* names, and its time in hours.                                             *)
EXTENDS Integers, Sequences, FiniteSets, SequencesExt, FiniteSetsExt, Lists

CONSTANTS
    TopLevel, NoRunId,
    NodeRank,         \* order of the names of files and directories
    RankWeight,       \* reciprocal rank, decreasing
    PprCategories     \* question categories that the graph is used for

Edge(from, to, kind) == [from |-> from, to |-> to, kind |-> kind]
FileAt(files, path) == CHOOSE f \in files : f.path = path

(* build_file_graph: containment, references among the files that are there, *)
(* runs, and files of a directory changed within the hour.                   *)
GraphNodes(files) == {f.path : f \in files} \union ({f.dir : f \in files} \ {TopLevel})
GraphEdges(files) ==
    {Edge(f.dir, f.path, "contains") : f \in {f \in files : f.dir # TopLevel}} \union
    (UNION {{Edge(f.path, g.path, "references") :
                g \in {g \in files : g.path \in f.refs /\ g # f}} : f \in files}) \union
    {Edge(p[1].path, p[2].path, "same_run") :
        p \in {p \in files \X files : /\ NodeRank[p[1].path] < NodeRank[p[2].path]
                                      /\ p[1].run = p[2].run /\ p[1].run # NoRunId}} \union
    {Edge(p[1].path, p[2].path, "co_modified") :
        p \in {p \in files \X files : /\ p[1] # p[2] /\ p[1].dir = p[2].dir
                                      /\ p[1].mtime <= p[2].mtime /\ p[2].mtime - p[1].mtime <= 1
                                      /\ p[1].mtime = p[2].mtime =>
                                            NodeRank[p[1].path] < NodeRank[p[2].path]}}

(* neighbors: breadth first, edges taken both ways.                          *)
Adjacent(edges, n) ==
    {e.to : e \in {e \in edges : e.from = n}} \union {e.from : e \in {e \in edges : e.to = n}}
Reached(edges, node, hops) ==
    LET Reach[h \in 0 .. hops] ==
            IF h = 0 THEN {node}
            ELSE Reach[h - 1] \union UNION {Adjacent(edges, n) : n \in Reach[h - 1]}
    IN Reach
NeighborsWithin(edges, node, hops) == Reached(edges, node, hops)[hops]
Neighbors(edges, node, hops) == NeighborsWithin(edges, node, hops) \ {node}

(* expand_with_graph: each seed, then its neighbours that are new, by name.  *)
AppendNew(list, more) == list \o Without(more, ToSet(list))
ByName(nodes) == Sorted(nodes, [n \in nodes |-> {m \in nodes : NodeRank[m] < NodeRank[n]}])
Expanded(seeds, edges, hops) ==
    LET Grown[i \in 0 .. Len(seeds)] ==
            IF i = 0 THEN <<>>
            ELSE AppendNew(AppendNew(Grown[i - 1], <<seeds[i]>>),
                           ByName(Neighbors(edges, seeds[i], hops)))
    IN Grown
ExpandWithGraph(seeds, edges, hops) == Expanded(seeds, edges, hops)[Len(seeds)]

----------------------------------------------------------------------------
(* build_graphrag: the entities of each run and file, and the communities of *)
(* at least two.  A triple is [src, dst, evidence].                          *)
ExtractTriples(file) ==
    IF file.run = NoRunId THEN {}
    ELSE {[src |-> file.run, dst |-> d, evidence |-> file.path] : d \in {file.path} \union file.says}
Communities(triples) ==
    LET nodes == {t.src : t \in triples} \union {t.dst : t \in triples}
        edges == {Edge(t.src, t.dst, "triple") : t \in triples}
        Together(n) == NeighborsWithin(edges, n, Cardinality(nodes))
    IN {[members |-> m, triples |-> {t \in triples : t.src \in m \/ t.dst \in m}] :
        m \in {m \in {Together(n) : n \in nodes} : Cardinality(m) >= 2}}

(* build_hierarchy: chunks [id, path] under files, files under folders, the  *)
(* folders under the corpus.                                                 *)
BuildHierarchy(chunks, files) ==
    LET paths == {c.path : c \in chunks}
        FolderOf(p) == FileAt(files, p).dir
    IN [file |-> [p \in paths |-> {c.id : c \in {c \in chunks : c.path = p}}],
        folder |-> [d \in {FolderOf(p) : p \in paths} |-> {p \in paths : FolderOf(p) = d}],
        corpus |-> {FolderOf(p) : p \in paths}]

----------------------------------------------------------------------------
(* boost_hits: the base rank of a hit, and the rank of its path among the    *)
(* paths with graph mass and among those of the kind the query asks for,     *)
(* which weighs more: in tenths, as alpha is 1.0 and intent_alpha 1.1.       *)
WeightAfter(before) == RankWeight[1 + Cardinality(before)]
Boosted(hits, ppr, intent, i) ==
    LET paths == ToSet(hits) path == hits[i]
        massed == {p \in paths : ppr[p] > 0}
        asked == {p \in paths : intent[p] > 0}
        LaterName(p) == NodeRank[p] > NodeRank[path]
    IN 10 * RankWeight[i]
       + (IF path \notin massed THEN 0
          ELSE 10 * WeightAfter({p \in massed :
                   \/ intent[p] > intent[path]
                   \/ intent[p] = intent[path] /\ ppr[p] > ppr[path]
                   \/ intent[p] = intent[path] /\ ppr[p] = ppr[path] /\ LaterName(p)}))
       + (IF path \notin asked THEN 0
          ELSE 11 * WeightAfter({p \in asked :
                   intent[p] > intent[path] \/ (intent[p] = intent[path] /\ LaterName(p))}))
BoostHits(hits, ppr, intent) ==
    LET score == [i \in DOMAIN hits |-> Boosted(hits, ppr, intent, i)]
        order == Sorted(DOMAIN hits, [i \in DOMAIN hits |->
                     {j \in DOMAIN hits : score[j] > score[i] \/ (score[j] = score[i] /\ j < i)}])
    IN [n \in DOMAIN order |-> hits[order[n]]]
ApplyHipporag(hits, triples, category, aggregation, ppr, intent) ==
    IF hits = <<>> \/ triples = {} \/ ~(category \in PprCategories \/ aggregation)
    THEN hits ELSE BoostHits(hits, ppr, intent)

----------------------------------------------------------------------------
(* What an expansion is measured by: a path of at most so many references    *)
(* leads from one file to another, whichever way they point.                 *)
Reaches(edges, from, to, hops) ==
    \E n \in 0 .. hops : \E between \in [1 .. n - 1 -> UNION {{e.from, e.to} : e \in edges}] :
        LET At(i) == IF i = 0 THEN from ELSE IF i = n THEN to ELSE between[i]
        IN /\ n = 0 => from = to
           /\ \A i \in 1 .. n : \E e \in edges : {e.from, e.to} = {At(i - 1), At(i)}
=============================================================================
