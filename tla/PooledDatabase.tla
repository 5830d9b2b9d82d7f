---------------------------- MODULE PooledDatabase ----------------------------
(* The helpers of the database managers (app/database), called by several    *)
(* threads over one pool of connections.  Each helper is one transaction:    *)
(* the statements in its order, some of them with an exception handler of    *)
(* their own.  A statement that the server refuses aborts the transaction,   *)
(* and the commit of an aborted transaction rolls it back.                   *)
EXTENDS Integers, FiniteSets, Sequences, SequencesExt

CONSTANTS
    Threads,
    MaxConn,       \* maxconn of the pool; minconn is 1
    Helpers,       \* the helpers that are called, from DOMAIN Statements
    NoCall,
    MaxCalls       \* bound: calls until nothing is called any more

VARIABLES
    db,            \* effects of committed statements
    idle,          \* session settings of each idle connection
    running,       \* the transaction of each thread
    answers,       \* what the last call of each thread answered, and whether the words were indexed before it
    calls          \* calls begun

poolVars == <<db, idle, running, answers, calls>>
MinConn == 1

(* The statements of each helper that change something, by their effect: of  *)
(* the start, of the indexes that are built for a search, of the tables of   *)
(* the file index, and of what is read.                                      *)
StartStatements ==
    [ensure_vector_extension |-> <<"vector">>,
     ensure_pg_search_extension |-> <<"schema", "pg_search">>,
     create_bm25_index |-> <<"drop_bm25", "bm25", "analyze">>]
VectorStatements ==
    [ensure_hnsw |-> <<"hnsw">>,
     ensure_halfvec |-> <<"half_column", "half_values">>,
     ensure_binary |-> <<"bit_column", "bit_values", "bit_index">>,
     set_ef_search |-> <<"ef_search", "iterative_scan">>]
TextStatements == [ensure_text_index |-> <<"gin">>, count_nodes |-> <<"count">>]
TableStatements == [create_tables |-> <<"indexed_files", "content_hash", "directory_results">>]
BatchStatements == [batch_insert |-> <<"rows">>]
SearchStatements == [search_bm25 |-> <<"search_path", "search">>]
EitherOf(f, g) == [h \in DOMAIN f \union DOMAIN g |-> IF h \in DOMAIN f THEN f[h] ELSE g[h]]
Statements ==
    EitherOf(EitherOf(StartStatements, VectorStatements),
             EitherOf(EitherOf(TextStatements, TableStatements),
                      EitherOf(BatchStatements, SearchStatements)))

ASSUME PoolAssumption == Helpers \subseteq DOMAIN Statements

Settings == {"ef_search", "iterative_scan", "search_path"}   \* of the session
Reads == {"count", "search", "analyze"}
Guarded == {"pg_search", "iterative_scan"}    \* a handler of their own
TellsSuccess == {"create_bm25_index", "ensure_hnsw", "ensure_text_index", "ensure_halfvec", "ensure_binary"}
Swallows == TellsSuccess \union {"ensure_pg_search_extension", "count_nodes", "search_bm25"}

PoolInit ==
    /\ idle = <<{}>>                      \* SimpleConnectionPool(1, 10)
    /\ db \in {{}, {"bm25"}}              \* the index of an earlier start
    /\ running = [t \in Threads |-> NoCall]
    /\ answers = [t \in Threads |-> NoCall]
    /\ calls = 0

(* A call that fails answers False, a default, or raises.                    *)
Failed(helper) ==
    CASE helper \in TellsSuccess -> "false"
      [] helper \in Swallows -> "default"
      [] OTHER -> "raised"
Answer(t, helper, value, had) ==
    answers' = [answers EXCEPT ![t] = [helper |-> helper, value |-> value, had |-> had]]
Indexed == "bm25" \in db

(* getconn: an idle connection, a new one, or PoolError; the error reaches   *)
(* the handler around the block, if there is one.                            *)
UsedConnections == Cardinality({t \in Threads : running[t] # NoCall})
Begin(t, helper, session) ==
    /\ running' = [running EXCEPT ![t] =
        [helper |-> helper, at |-> 1, aborted |-> FALSE, did |-> {}, dropped |-> {},
         had |-> Indexed, session |-> session, set |-> {}]]
    /\ answers' = [answers EXCEPT ![t] = NoCall]
GetConn(t, helper) ==
    /\ running[t] = NoCall /\ calls < MaxCalls
    /\ calls' = calls + 1
    /\ IF idle # <<>>
       THEN Begin(t, helper, Last(idle)) /\ idle' = Front(idle)
       ELSE IF UsedConnections < MaxConn
       THEN Begin(t, helper, {}) /\ UNCHANGED idle
       ELSE Answer(t, helper, Failed(helper), Indexed) /\ UNCHANGED <<idle, running>>
    /\ UNCHANGED db

(* cur.execute                                                               *)
Now(t) == Statements[running[t].helper][running[t].at]
HasStatement(t) == running[t] # NoCall /\ running[t].at <= Len(Statements[running[t].helper])
(* Mutant: each statement commits by itself.                                *)
ExecuteAutocommit(t) ==
    /\ HasStatement(t) /\ ~running[t].aborted
    /\ running' = [running EXCEPT ![t].at = @ + 1]
    /\ db' = IF Now(t) = "drop_bm25" THEN db \ {"bm25"}
             ELSE IF Now(t) \in Settings \union Reads THEN db ELSE db \union {Now(t)}
    /\ UNCHANGED <<idle, answers, calls>>

Execute(t) ==
    /\ HasStatement(t) /\ ~running[t].aborted
    /\ LET call == running[t] effect == Now(t)
       IN running' = [running EXCEPT ![t] =
            [call EXCEPT !.at = @ + 1,
                !.did = IF effect \in Settings \union Reads \union {"drop_bm25"} THEN @ ELSE @ \union {effect},
                !.dropped = IF effect = "drop_bm25" THEN {"bm25"} ELSE @,
                !.set = IF effect \in Settings THEN @ \union {effect} ELSE @]]
    /\ UNCHANGED <<db, idle, answers, calls>>

(* The server refuses a statement.  Without a handler of its own the call is *)
(* over: rollback, or, for the BM25 index, whose handler is inside the       *)
(* block, the commit of a transaction that is aborted.                       *)
PutConn(session) == idle' = IF Len(idle) < MinConn THEN Append(idle, session) ELSE idle
Finish(t) == running' = [running EXCEPT ![t] = NoCall]
Refuse(t) ==
    /\ HasStatement(t) /\ ~running[t].aborted
    /\ LET call == running[t]
       IN IF Now(t) \in Guarded
          THEN /\ running' = [running EXCEPT ![t] = [call EXCEPT !.at = @ + 1, !.aborted = TRUE]]
               /\ UNCHANGED <<idle, answers>>
          ELSE /\ Finish(t) /\ PutConn(call.session)
               /\ Answer(t, call.helper, Failed(call.helper), call.had)
    /\ UNCHANGED <<db, calls>>

(* The end of the block: commit, and the connection goes back.               *)
Commit(t) ==
    /\ running[t] # NoCall /\ ~HasStatement(t)
    /\ LET call == running[t]
       IN /\ db' = IF call.aborted THEN db ELSE (db \ call.dropped) \union call.did
          /\ PutConn(IF call.aborted THEN call.session ELSE call.session \union call.set)
          /\ Answer(t, call.helper, IF call.helper \in TellsSuccess THEN "true" ELSE "done", call.had)
    /\ Finish(t) /\ UNCHANGED calls

(* commit raises: the server rolls back, and the call fails.                 *)
CommitFails(t) ==
    /\ running[t] # NoCall /\ ~HasStatement(t)
    /\ Finish(t) /\ PutConn(running[t].session)
    /\ Answer(t, running[t].helper, Failed(running[t].helper), running[t].had)
    /\ UNCHANGED <<db, calls>>

PoolNext ==
    \E t \in Threads :
        \/ \E helper \in Helpers : GetConn(t, helper)
        \/ Execute(t) \/ Refuse(t) \/ Commit(t) \/ CommitFails(t)

PoolSpec == PoolInit /\ [][PoolNext]_poolVars

----------------------------------------------------------------------------
Effects(helper) == ToSet(Statements[helper]) \ (Reads \union {"drop_bm25"})

(* A helper that answers True left all it is for; none leaves a part of it   *)
(* behind, whichever statement was refused, also when no connection was free *)
(* or the commit failed, and whatever other threads do; and a refresh of the *)
(* index of the words that fails keeps the index it was to replace.          *)
HelpersTellWhatTheyLeft ==
    /\ \A h \in Helpers : Effects(h) \subseteq db \union Settings \/ Effects(h) \intersect db = {}
    /\ \A t \in Threads : answers[t] # NoCall =>
          /\ answers[t].value = "true" => Effects(answers[t].helper) \subseteq db
          /\ answers[t].had => Indexed
=============================================================================
