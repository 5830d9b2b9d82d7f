----------------------------- MODULE Retrieval -----------------------------
(***************************************************************************)
(* POST /api/retrieve: requests in worker threads that share one           *)
(* HybridRetriever (app/engine/retriever.py) and one VectorStoreManager.   *)
(* A request searches by words and by vectors, fuses the two lists, drops  *)
(* superseded versions of files (app/graph/staleness.py) and reranks.      *)
(*                                                                         *)
(* What a search returns is any list.  The calls of one search that touch  *)
(* no shared attribute are one step; retriever._bm25_degraded is left out, *)
(* since search_bm25 catches every exception a query that is not blank can *)
(* meet and the attribute stays empty.                                     *)
(***************************************************************************)
EXTENDS Naturals, FiniteSets, SequencesExt, Lists

CONSTANTS
    Requests,
    Chunks,       \* node ids, ordered, since SQL breaks ties by id
    Paths,        \* the indexed files
    PathOf,       \* the file of each chunk
    KeyOf,        \* normalized_key of each file: versions share it
    Archived,     \* files below a directory named archive, old or superseded
    PgSearch,     \* the pg_search extension is installed
    RrfK,         \* 60 in the code
    Depth,        \* RETRIEVE_K: the length of each list
    RerankDepth,  \* RERANK_DEPTH: the hits that are reranked
    MaxHits,      \* bound: hits a client asks for
    MaxMtime      \* bound: modification times

ASSUME RetrievalAssumption ==
    /\ Chunks \subseteq Nat /\ IsFiniteSet(Chunks)
    /\ PathOf \in [Chunks -> Paths]
    /\ DOMAIN KeyOf = Paths
    /\ Archived \subseteq Paths
    /\ PgSearch \in BOOLEAN
    /\ {RrfK, Depth, RerankDepth, MaxHits} \subseteq Nat \ {0}
    /\ MaxMtime \in Nat

VARIABLES
    mtime,     \* the files' modification times when they were indexed
    mode,      \* RETRIEVAL_MODE
    reranker,  \* off, missing (configured but not loaded) or loaded
    backend,   \* VectorStoreManager.last_bm25_backend
    hybrid,    \* VectorStoreManager._hybrid_backend
    req,       \* the local state of each request
    met        \* history: the requests that ran beside another one

routeVars == <<mtime, mode, reranker, backend, hybrid, req, met>>
setup == <<mtime, mode, reranker>>

Backends == {"unset", "paradedb", "ts_rank_cd", "ilike", "none"}
Routes == {"lexical_path", "aggregation_query", "semantic"}

\* Lists without repetitions.
Rankings == UNION {SetToSeqs(S) : S \in {T \in SUBSET Chunks : Cardinality(T) <= Depth}}

RouteInit ==
    /\ mtime \in [Paths -> 0..MaxMtime]
    /\ mode \in {"sql", "python"}
    /\ reranker \in {"off", "missing", "loaded"}
    /\ backend = "unset"
    /\ hybrid = "unset"
    /\ req = [r \in Requests |->
                [pc |-> "new",
                 route |-> "semantic",
                 comparative |-> FALSE,   \* the query asks for several versions
                 k |-> 1,
                 lexical |-> <<>>, dense |-> <<>>, fused |-> <<>>,
                 before |-> "unset",      \* history: last_bm25_backend when it was asked
                 own |-> "unset",         \* history: the backend this search used
                 label |-> "unset",       \* RetrievalOutcome.bm25_backend
                 kept |-> <<>>,           \* the current versions
                 nodes |-> <<>>,          \* RetrievalOutcome.nodes
                 ranked |-> "no",         \* history: what became of the rerank
                 degraded |-> {},         \* RetrievalOutcome.degraded
                 reply |-> "none"]]
    /\ met = {}

At(r, here) == req[r].pc = here
Running(r) == req[r].pc \notin {"new", "done"}
SkipEmbed(r) == req[r].route = "lexical_path"
SkipRerank(r) == req[r].route \in {"lexical_path", "aggregation_query"}

----------------------------------------------------------------------------
(* Fusion: the sum of 1 / (k + rank) over the lists a chunk is in, as a    *)
(* fraction <<numerator, denominator>>.                                    *)

RankIn(list, c) == CHOOSE i \in DOMAIN list : list[i] = c

\* Mutant: the rank is counted from the end.
ShareFromEnd(list, c) ==
    IF c \in ToSet(list) THEN <<1, RrfK + Len(list) - RankIn(list, c)>> ELSE <<0, 1>>
Share(list, c) ==
    IF c \in ToSet(list) THEN <<1, RrfK + RankIn(list, c)>> ELSE <<0, 1>>

Plus(x, y) == <<x[1] * y[2] + y[1] * x[2], x[2] * y[2]>>
Greater(x, y) == x[1] * y[2] > y[1] * x[2]
Score(dense, lexical, c) == Plus(Share(dense, c), Share(lexical, c))

\* The better scores first, and among equal ones the smaller number.
BestFirst(S, dense, lexical, number) ==
    LET score(c) == Score(dense, lexical, c)
    IN Sorted(S, [c \in S |-> {d \in S :
           \/ Greater(score(d), score(c))
           \/ ~Greater(score(c), score(d)) /\ number[d] < number[c]}])

\* reciprocal_rank_fusion sorts a dict by score; ties stay in the order of
\* first occurrence.
FusedByDict(dense, lexical) ==
    LET all == dense \o Without(lexical, ToSet(dense))
    IN BestFirst(ToSet(all), dense, lexical, [c \in ToSet(all) |-> RankIn(all, c)])

\* _fuse_python: a list alone is served as it is.
FusedInPython(dense, lexical) ==
    IF lexical = <<>> THEN dense
    ELSE IF dense = <<>> THEN lexical
    ELSE FusedByDict(dense, lexical)


\* hybrid_*.sql: a full outer join, ORDER BY rrf_score DESC, node_id LIMIT k.
FusedInSql(dense, lexical) ==
    LET all == ToSet(dense) \union ToSet(lexical)
    IN FirstOf(BestFirst(all, dense, lexical, [c \in all |-> c]), Depth)

----------------------------------------------------------------------------
(* Versions.                                                               *)

Versions(p) == {q \in Paths : KeyOf[q] = KeyOf[p]}
Newest(files) == {p \in files : \A q \in files : mtime[q] <= mtime[p]}

\* cluster_versions and current_member: the newest file, and among several
\* of them one that is not archived.
CurrentOf(p) ==
    LET live == Newest(Versions(p)) \ Archived
    IN CHOOSE q \in (IF live # {} THEN live ELSE Newest(Versions(p))) : TRUE

Superseded(c) == PathOf[c] # CurrentOf(PathOf[c])
PathsIn(hits) == {PathOf[c] : c \in ToSet(hits)}

\* Mutant: superseded hits are dropped whether or not the current one is there.
DropSuperseded(hits, comparative) ==
    IF comparative THEN hits ELSE Without(hits, {c \in ToSet(hits) : Superseded(c)})
\* prefer_current
PreferCurrent(hits, comparative) ==
    IF comparative THEN hits ELSE Without(hits,
        {c \in ToSet(hits) : Superseded(c) /\ CurrentOf(PathOf[c]) \in PathsIn(hits)})

----------------------------------------------------------------------------
(* One request.                                                            *)

Ask(r, route, comparative, k) ==
    /\ At(r, "new")
    /\ req' = [req EXCEPT ![r].pc = IF mode = "sql" THEN "backend" ELSE "search",
                          ![r].route = route, ![r].comparative = comparative, ![r].k = k,
                          ![r].before = backend]
    /\ LET others == {q \in Requests : Running(q)}
       IN met' = IF others = {} THEN met ELSE met \union others \union {r}
    /\ UNCHANGED <<setup, backend, hybrid>>

\* Mutant: a search that finds nothing leaves the name of the one before.
SearchWordsSilent(r, list) ==
    /\ At(r, "search")
    /\ \E found \in Backends \ {"unset"} :
          /\ IF list = <<>> THEN found = "none" /\ UNCHANGED backend
             ELSE found # "none" /\ backend' = found
          /\ req' = [req EXCEPT ![r].pc = "dense", ![r].lexical = list, ![r].own = found]
    /\ UNCHANGED <<setup, met, hybrid>>

\* search_bm25: the backend of the first search that finds something; none
\* when all of them find nothing; and when they fail, no hits and no word.
SearchWords(r, list) ==
    /\ At(r, "search")
    /\ \E found \in Backends :
          /\ \/ list # <<>> /\ found \in {"paradedb", "ts_rank_cd", "ilike"}
                /\ (found = "paradedb" => PgSearch)
                /\ backend' = found
             \/ list = <<>> /\ found = "none" /\ backend' = "none"
             \/ list = <<>> /\ found = "unset" /\ UNCHANGED backend
          /\ req' = [req EXCEPT ![r].pc = "dense", ![r].lexical = list, ![r].own = found]
    /\ UNCHANGED <<setup, met, hybrid>>

\* _fuse_python: the vector search, unless the query is a path, and the fusion.
SearchVectors(r, list) ==
    /\ At(r, "dense")
    /\ SkipEmbed(r) => list = <<>>
    /\ req' = [req EXCEPT ![r].pc = "label", ![r].dense = list,
                          ![r].fused = FusedInPython(list, req[r].lexical)]
    /\ UNCHANGED <<setup, met, backend, hybrid>>

\* hybrid_backend: which lexical search there is, found out once ...
ReadBackend(r) ==
    /\ At(r, "backend")
    /\ req' = [req EXCEPT ![r].pc = IF hybrid = "unset" THEN "probe" ELSE "query",
                          ![r].own = hybrid]
    /\ UNCHANGED <<setup, met, backend, hybrid>>

\* ... by a query that counts as a no when it fails.
ProbeBackend(r) ==
    /\ At(r, "probe")
    /\ \E found \in {"paradedb", "ts_rank_cd"} :
          /\ found = "paradedb" => PgSearch
          /\ hybrid' = found
          /\ req' = [req EXCEPT ![r].pc = "query", ![r].own = found]
    /\ UNCHANGED <<setup, met, backend>>

\* hybrid_search: both lists and the fusion in one query.
QueryHybrid(r, dense, lexical) ==
    /\ At(r, "query")
    /\ SkipEmbed(r) => dense = <<>>
    /\ LET fused == FusedInSql(dense, lexical)
           found == IF ToSet(fused) \intersect ToSet(lexical) # {} THEN req[r].own ELSE "none"
       IN /\ backend' = found
          /\ req' = [req EXCEPT ![r].pc = "label", ![r].dense = dense, ![r].lexical = lexical,
                                ![r].fused = fused, ![r].own = found]
    /\ UNCHANGED <<setup, met, hybrid>>

\* The embedding model or the database raises: the client is answered 503.
Fails(r) ==
    /\ req[r].pc \in {"dense", "backend", "query"}
    /\ SkipEmbed(r) => At(r, "query")
    /\ req' = [req EXCEPT ![r].pc = "done", ![r].reply = "503"]
    /\ UNCHANGED <<setup, met, backend, hybrid>>

\* getattr(self._vsm, "last_bm25_backend"), when both lists are fused.
Label(r) ==
    /\ At(r, "label")
    /\ req' = [req EXCEPT ![r].pc = "rank", ![r].label = backend,
                          ![r].dense = <<>>, ![r].lexical = <<>>]
    /\ UNCHANGED <<setup, met, backend, hybrid>>

\* What the cross-encoder may make of a list: its head in any order.
Reranked(list) ==
    LET head == FirstOf(list, RerankDepth)
    IN {s \o SubSeq(list, Len(head) + 1, Len(list)) : s \in SetToSeqs(ToSet(head))}

\* Mutant: a reranker that was not loaded is logged only.
MissingUnreported == {}
Missing == IF reranker = "missing" THEN {"rerank"} ELSE {}

Respond(r, kept, order, ranked, degraded) ==
    req' = [req EXCEPT ![r].pc = "done", ![r].reply = "200", ![r].kept = kept,
                       ![r].nodes = FirstOf(order, req[r].k), ![r].ranked = ranked,
                       ![r].degraded = degraded \union Missing]

\* The rest of retrieve_detailed.
Rank(r) ==
    /\ At(r, "rank")
    /\ LET kept == PreferCurrent(req[r].fused, req[r].comparative)
           wanted == reranker = "loaded" /\ kept # <<>> /\ ~SkipRerank(r)
       IN \/ ~wanted /\ Respond(r, kept, kept, "no", {})
          \/ wanted /\ \E order \in Reranked(kept) : Respond(r, kept, order, "yes", {})
          \/ wanted /\ Respond(r, kept, kept, "failed", {"rerank"})
    /\ UNCHANGED <<setup, met, backend, hybrid>>

\* Every request is answered.
Quiet ==
    /\ \A r \in Requests : At(r, "done")
    /\ UNCHANGED routeVars

RouteNext ==
    \/ \E r \in Requests, route \in Routes, comparative \in BOOLEAN, k \in 1..MaxHits :
          Ask(r, route, comparative, k)
    \/ \E r \in Requests, list \in Rankings : SearchWords(r, list) \/ SearchVectors(r, list)
    \/ \E r \in Requests, dense, lexical \in Rankings : QueryHybrid(r, dense, lexical)
    \/ \E r \in Requests :
          ReadBackend(r) \/ ProbeBackend(r) \/ Fails(r) \/ Label(r) \/ Rank(r)
    \/ Quiet

RouteSpec == RouteInit /\ [][RouteNext]_routeVars

----------------------------------------------------------------------------
(* Properties                                                              *)

Answered(r) == req[r].reply = "200"
Before(list, c, d) ==
    c \in ToSet(list) /\ (d \in ToSet(list) => RankIn(list, c) < RankIn(list, d))

\* When one chunk comes before another in both searches, or in the one that
\* finds either of them, it does so in the fused list, in SQL and in Python,
\* whatever the ties, the limit and the fallbacks to a single list.
FusionRespectsAgreement ==
    \A r \in Requests : At(r, "label") =>
        \A c, d \in Chunks :
            LET lists == {l \in {req[r].dense, req[r].lexical} : {c, d} \intersect ToSet(l) # {}}
            IN lists # {} /\ (\A l \in lists : Before(l, c, d)) /\ d \in ToSet(req[r].fused) =>
                  Before(req[r].fused, c, d)

\* A file in the answer is not an old version of one that was found, unless
\* the query compares versions.
SupersededGivesWay ==
    \A r \in Requests : Answered(r) /\ ~req[r].comparative =>
        \A c \in ToSet(req[r].nodes) :
            Superseded(c) => CurrentOf(PathOf[c]) \notin PathsIn(req[r].fused)

\* A hit is dropped only in favour of a version at least as new that stays,
\* and on a tie a live file is not dropped for an archived one: no document
\* that was found is left without a version.
DroppedForNewer ==
    \A r \in Requests : Answered(r) =>
        \A c \in ToSet(req[r].fused) \ ToSet(req[r].kept) :
            ~req[r].comparative /\ \E d \in ToSet(req[r].kept) :
                /\ KeyOf[PathOf[d]] = KeyOf[PathOf[c]]
                /\ mtime[PathOf[d]] >= mtime[PathOf[c]]
                /\ mtime[PathOf[d]] = mtime[PathOf[c]] /\ PathOf[d] \in Archived =>
                      PathOf[c] \in Archived

\* Of several versions found the newest is shown, and only for its sake is
\* another one held back.
VersionsGiveWay == SupersededGivesWay /\ DroppedForNewer

\* Hits in the order of the fusion where a rerank was configured and due are
\* reported as degraded.
RerankNeverSilent ==
    \A r \in Requests : Answered(r) /\ reranker # "off" /\ ~SkipRerank(r)
                        /\ req[r].nodes # <<>> /\ "rerank" \notin req[r].degraded =>
        req[r].ranked = "yes"

\* The lexical backend a response names is one that searched, for it or for
\* another request, or none was ever named.  If no other request ran beside it
\* the name is that of its own search; or, when all its lexical searches
\* failed (search_bm25 returns no hits and sets nothing), the one that an
\* earlier request left behind.
NamesASearch ==
    \A r \in Requests : Answered(r) =>
        /\ req[r].label = "unset" \/ \E q \in Requests : req[q].own = req[r].label
        /\ r \notin met =>
              req[r].label = IF req[r].own = "unset" THEN req[r].before ELSE req[r].own

\* The response tells how its hits were ranked, and as much of how they were
\* found as the attribute that all requests share allows.
OutcomeTellsHow == RerankNeverSilent /\ NamesASearch

\* What retrieve.py says of the outcome, that it is the request's and no state
\* is shared: the backend it names is the one of its own search.  It is that
\* of NamesASearch, so this fails.
NamesItsOwnBackend ==
    \A r \in Requests : Answered(r) => req[r].label = req[r].own
============================================================================
