------------------------------ MODULE Startup ------------------------------
(***************************************************************************)
(* First start of the API: main.py's lifespan, app/engine/bootstrap.py,    *)
(* the vector store manager's probe, and the ingestion script              *)
(* app/engine/generate.py, as processes over one Postgres database.        *)
(*                                                                         *)
(* Left out: creating the text and HNSW indexes, whose errors are          *)
(* swallowed and which change no row, and the script's persist.            *)
(*                                                                         *)
(* Every SQL call is a step of its own, so that processes interleave       *)
(* between calls, the process may die between any two of them, and a call  *)
(* may raise before or after its effect.                                   *)
(***************************************************************************)
EXTENDS Naturals, FiniteSets

CONSTANTS
    Servers,          \* API processes
    Scripts,          \* processes that run generate_datasource
    IndexOnStart,     \* INDEX_ON_START
    EnableStaleness,  \* ENABLE_STALENESS
    MaxStarts,        \* bound: starts of each process
    MaxFaults         \* bound: calls that raise

ASSUME StartupAssumption ==
    /\ Servers \intersect Scripts = {}
    /\ IndexOnStart \in BOOLEAN
    /\ EnableStaleness \in BOOLEAN
    /\ MaxStarts \in [Servers \union Scripts -> Nat]
    /\ MaxFaults \in Nat

Procs == Servers \union Scripts

\* One start of one process.  What a start writes is known by the start.
Runs == UNION {{p} \X (1..MaxStarts[p]) : p \in Procs}

VARIABLES
    made,       \* which of the database DB_NAME and its data table exist
    chunks,     \* the runs whose pipeline wrote a copy of the corpus
    probes,     \* the runs whose probe row is in the table
    pc,         \* the call each process makes next
    starts,     \* how often each process was started
    store,      \* the processes whose VectorStoreManager.vector_store is set
    retrieval,  \* ... whose app.state.retrieval is set
    plans,      \* ... whose app.state.plans is set
    failed,     \* ... whose app.state.startup_error is set
    indexing,   \* RetrievalState.indexing
    faults,     \* calls that raised so far
    counted,    \* history: the rows count_nodes found in the current run
    blind,      \* history: the runs whose count_nodes failed
    raced       \* history: pairs of runs, the second counted while the first indexed

database == <<made, chunks, probes>>
inProcess == <<store, retrieval, plans, failed, indexing>>
history == <<counted, blind, raced>>
vars == <<database, pc, starts, inProcess, faults, history>>

Calls == {"check", "create", "connect", "count", "load", "probe", "unprobe",
          "index", "clusters", "retriever", "plans"}

Run(p) == <<p, starts[p]>>

At(p, call) == pc[p] = call
Goto(p, call) == pc' = [pc EXCEPT ![p] = call]

\* Types; and a server past lifespan has both stores or says why not, so that
\* the routes answer 503 with a reason.
TypeOK ==
    /\ made \subseteq {"database", "table"}
    /\ chunks \subseteq Runs
    /\ probes \subseteq Runs
    /\ pc \in [Procs -> Calls \union {"down", "up", "exited"}]
    /\ starts \in [Procs -> Nat]
    /\ \A p \in Procs : starts[p] <= MaxStarts[p]
    /\ store \subseteq Procs
    /\ indexing \in [Procs -> {"none", "off", "populated", "indexed"}]
    /\ retrieval \subseteq Procs
    /\ plans \subseteq Procs
    /\ failed \subseteq Procs
    /\ faults \in 0..MaxFaults
    /\ counted \in [Procs -> SUBSET Runs]
    /\ blind \subseteq Runs
    /\ raced \subseteq Runs \X Runs
    /\ \A p \in Procs :
          At(p, "up") => p \in (retrieval \intersect plans) \union failed

StartupInit ==
    /\ made \in {{}, {"database"}}
    /\ chunks = {}
    /\ probes = {}
    /\ pc = [p \in Procs |-> "down"]
    /\ starts = [p \in Procs |-> 0]
    /\ store = {}
    /\ indexing = [p \in Procs |-> "none"]
    /\ retrieval = {}
    /\ plans = {}
    /\ failed = {}
    /\ faults = 0
    /\ counted = [p \in Procs |-> {}]
    /\ blind = {}
    /\ raced = {}

\* An exception reaches lifespan, which records it and lets the process live,
\* or the top of the script, which exits.
Abort(p) ==
    \/ p \in Servers
       /\ Goto(p, "up")
       /\ failed' = failed \union {p}
    \/ p \in Scripts
       /\ Goto(p, "exited")
       /\ UNCHANGED failed

\* A process begins.  The script reads its documents before it connects.
Start(p) ==
    /\ pc[p] \in {"down", "exited"}
    /\ starts[p] < MaxStarts[p]
    /\ starts' = [starts EXCEPT ![p] = @ + 1]
    /\ Goto(p, IF p \in Servers THEN "check" ELSE "load")
    /\ counted' = [counted EXCEPT ![p] = {}]
    /\ UNCHANGED <<database, inProcess, faults, blind, raced>>

\* The process dies: its memory is lost, the database stays.
Stop(p) ==
    /\ pc[p] \notin {"down", "exited"}
    /\ Goto(p, "down")
    /\ store' = store \ {p}
    /\ indexing' = [indexing EXCEPT ![p] = "none"]
    /\ retrieval' = retrieval \ {p}
    /\ plans' = plans \ {p}
    /\ failed' = failed \ {p}
    /\ UNCHANGED <<database, starts, faults, history>>

----------------------------------------------------------------------------
(* VectorStoreManager.__init__                                             *)

\* _ensure_database_exists reads the catalogue ...
CheckDatabase(p) ==
    /\ At(p, "check")
    /\ Goto(p, IF "database" \in made THEN "connect" ELSE "create")
    /\ UNCHANGED <<database, starts, inProcess, faults, history>>

\* ... and creates the database; CREATE DATABASE raises when another process
\* was faster.
CreateDatabase(p) ==
    /\ At(p, "create")
    /\ \/ "database" \in made /\ Abort(p)
       \/ "database" \notin made /\ Goto(p, "connect") /\ UNCHANGED failed
    /\ made' = made \union {"database"}
    /\ UNCHANGED <<chunks, probes, starts, store, indexing, retrieval,
                   plans, faults, history>>

\* The pool, the dimension, the extensions.
Connect(p) ==
    /\ At(p, "connect")
    /\ Goto(p, CASE p \in Scripts -> "probe"
                 [] p \in Servers /\ IndexOnStart -> "count"
                 [] OTHER -> "clusters")
    /\ indexing' = [indexing EXCEPT ![p] =
                      IF p \in Servers /\ ~IndexOnStart THEN "off" ELSE @]
    /\ UNCHANGED <<database, starts, store, retrieval, plans, failed, faults,
                   history>>

----------------------------------------------------------------------------
(* index_directory_if_empty                                                *)

\* A server has counted no rows and has not yet written its copy.
Indexing(p) ==
    /\ p \in Servers
    /\ pc[p] \in {"load", "probe", "unprobe", "index"}
    /\ indexing[p] = "none"

\* The servers whose copy is under way when p counts no rows.
MeetsIndexing(p) ==
    raced' = raced \union
        {<<Run(q), Run(p)>> :
            q \in {q \in Servers \ {p} : Indexing(q) /\ counted'[p] = {}}}

\* Mutant: the count is filtered by the current run.
CountOwnNodes(p) ==
    /\ At(p, "count")
    /\ counted' = [counted EXCEPT ![p] = {r \in chunks \union probes : r = Run(p)}]
    /\ \/ counted'[p] # {}
          /\ indexing' = [indexing EXCEPT ![p] = "populated"]
          /\ Goto(p, "clusters")
       \/ counted'[p] = {}
          /\ UNCHANGED indexing
          /\ Goto(p, "load")
    /\ MeetsIndexing(p)
    /\ UNCHANGED <<database, starts, store, retrieval, plans, failed, faults, blind>>

\* count_nodes: any row counts, and a table that cannot be read counts as
\* empty.
CountNodes(p) ==
    /\ At(p, "count")
    /\ \/ counted' = [counted EXCEPT ![p] = chunks \union probes]
          /\ UNCHANGED <<blind, faults>>
       \/ faults < MaxFaults
          /\ faults' = faults + 1
          /\ counted' = [counted EXCEPT ![p] = {}]
          /\ blind' = blind \union {Run(p)}
    /\ \/ counted'[p] # {}
          /\ indexing' = [indexing EXCEPT ![p] = "populated"]
          /\ Goto(p, "clusters")
       \/ counted'[p] = {}
          /\ UNCHANGED indexing
          /\ Goto(p, "load")
    /\ MeetsIndexing(p)
    /\ UNCHANGED <<database, starts, store, retrieval, plans, failed>>

\* Mutant: a missing directory is taken for one without documents.
LoadDirectoryOrNothing(p) ==
    /\ At(p, "load")
    /\ \/ Goto(p, IF p \in Servers THEN "probe" ELSE "check")
          /\ UNCHANGED indexing
       \/ p \in Servers
          /\ Goto(p, "clusters")
          /\ indexing' = [indexing EXCEPT ![p] = "off"]
    /\ UNCHANGED <<database, starts, store, retrieval, plans, failed, faults, history>>

\* load_directory, or the script's get_documents.
LoadDirectory(p) ==
    /\ At(p, "load")
    /\ Goto(p, IF p \in Servers THEN "probe" ELSE "check")
    /\ UNCHANGED <<database, starts, inProcess, faults, history>>

\* get_vector_store sets the attribute, then adds a row to see that it can ...
ProbeAdd(p) ==
    /\ At(p, "probe")
    /\ store' = store \union {p}
    /\ made' = made \union {"table"}
    /\ probes' = probes \union {Run(p)}
    /\ Goto(p, "unprobe")
    /\ UNCHANGED <<chunks, starts, indexing, retrieval, plans, failed,
                   faults, history>>

\* Mutant: the probe node does not name itself as its source.
ProbeDeleteNothing(p) ==
    /\ At(p, "unprobe")
    /\ Goto(p, IF p \in Scripts \/ indexing[p] = "none" THEN "index"
                                                        ELSE "retriever")
    /\ UNCHANGED <<database, starts, inProcess, faults, history>>

\* ... and deletes it.  The caller is the pipeline or get_index.
ProbeDelete(p) ==
    /\ At(p, "unprobe")
    /\ probes' = probes \ {Run(p)}
    /\ Goto(p, IF p \in Scripts \/ indexing[p] = "none" THEN "index"
                                                        ELSE "retriever")
    /\ UNCHANGED <<made, chunks, starts, inProcess, faults, history>>

\* pipeline.run splits, embeds and adds all nodes in one transaction.
RunPipeline(p) ==
    /\ At(p, "index")
    /\ chunks' = chunks \union {Run(p)}
    /\ \/ p \in Servers
          /\ indexing' = [indexing EXCEPT ![p] = "indexed"]
          /\ Goto(p, "clusters")
          /\ UNCHANGED store
       \/ p \in Scripts
          /\ Goto(p, "exited")
          /\ store' = store \ {p}
          /\ UNCHANGED indexing
    /\ UNCHANGED <<made, probes, starts, retrieval, plans, failed,
                   faults, history>>

----------------------------------------------------------------------------
(* The rest of build_retrieval_state, and lifespan                         *)

\* build_clusters reads every chunk, unless staleness is off, and raises when
\* there is no table.  get_index probes unless the store is set already.
BuildClusters(p) ==
    /\ At(p, "clusters")
    /\ \/ EnableStaleness /\ "table" \notin made
          /\ Abort(p)
       \/ (EnableStaleness => "table" \in made)
          /\ Goto(p, IF p \in store THEN "retriever" ELSE "probe")
          /\ UNCHANGED failed
    /\ UNCHANGED <<database, starts, store, indexing, retrieval, plans, faults,
                   history>>

\* create_hybrid_retriever; lifespan sets app.state.retrieval.
CreateRetriever(p) ==
    /\ At(p, "retriever")
    /\ retrieval' = retrieval \union {p}
    /\ Goto(p, "plans")
    /\ UNCHANGED <<database, starts, store, indexing, plans, failed, faults,
                   history>>

\* build_plan_store; lifespan sets app.state.plans and yields.
BuildPlanStore(p) ==
    /\ At(p, "plans")
    /\ plans' = plans \union {p}
    /\ Goto(p, "up")
    /\ UNCHANGED <<database, starts, store, indexing, retrieval, failed, faults,
                   history>>

\* What a call that raises may have done to the database before.
MayHaveHappened(p) ==
    \/ UNCHANGED database
    \/ At(p, "create") /\ made' = made \union {"database"}
       /\ UNCHANGED <<chunks, probes>>
    \/ At(p, "probe") /\ made' = made \union {"table"}
       /\ probes' = probes \union {Run(p)}
       /\ UNCHANGED chunks
    \/ At(p, "unprobe") /\ probes' = probes \ {Run(p)}
       /\ UNCHANGED <<made, chunks>>
    \/ At(p, "index") /\ chunks' = chunks \union {Run(p)}
       /\ UNCHANGED <<made, probes>>

\* Any call but count_nodes raises to its caller.  The vector store stays set
\* when its probe raises; the script's memory ends with it.
CallRaises(p) ==
    /\ pc[p] \in Calls \ {"count"}
    /\ faults < MaxFaults
    /\ faults' = faults + 1
    /\ Abort(p)
    /\ MayHaveHappened(p)
    /\ \/ p \in Servers /\ At(p, "probe")
          /\ store' = store \union {p}
       \/ p \in Servers /\ ~At(p, "probe") /\ UNCHANGED store
       \/ p \in Scripts /\ store' = store \ {p}
    /\ UNCHANGED <<starts, indexing, retrieval, plans, history>>

StartupNext == \E p \in Procs :
    \/ Start(p) \/ Stop(p)
    \/ CheckDatabase(p) \/ CreateDatabase(p) \/ Connect(p)
    \/ CountNodes(p) \/ LoadDirectory(p) \/ ProbeAdd(p) \/ ProbeDelete(p)
    \/ RunPipeline(p)
    \/ BuildClusters(p) \/ CreateRetriever(p) \/ BuildPlanStore(p)
    \/ CallRaises(p)

StartupSpec == StartupInit /\ [][StartupNext]_vars

----------------------------------------------------------------------------
(* Properties                                                              *)

\* A server that serves retrieval has removed its own probe row, which would
\* otherwise be served as a document (the reason the probe node is its own
\* source in get_vector_store).
ReadyLeavesNoProbe ==
    \A p \in Servers : p \in retrieval => Run(p) \notin probes

\* A server that was told to index and serves an empty corpus has counted
\* probe rows, its predecessor's or another process's, as an index.  There is
\* no other way to be ready without documents.
EmptyServerCountedAProbe ==
    \A p \in Servers :
        p \in retrieval /\ IndexOnStart /\ chunks = {} => counted[p] # {}

\* Across stops, restarts and failed calls, servers write a second copy of
\* the corpus for one of two reasons only: two different servers were between
\* count_nodes and pipeline.run at the same time (nothing locks the table), or
\* the count_nodes of one of them failed and was taken for zero.  Ingestion
\* scripts do not count, and their copies are not spoken of.
IndexedOnce ==
    \A r, other \in {c \in chunks : c[1] \in Servers} :
        \/ r = other
        \/ r[1] # other[1] /\ {<<r, other>>, <<other, r>>} \intersect raced # {}
        \/ {r, other} \intersect blind # {}
============================================================================
