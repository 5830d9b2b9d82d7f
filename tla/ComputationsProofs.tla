------------------------ MODULE ComputationsProofs ------------------------
(***************************************************************************)
(* Proofs about the computations.  What outlives its writer, for any       *)
(* commits, configurations, datasets, loads, threads and helpers: what the *)
(* helpers of the database managers leave behind, and what the result      *)
(* files of the bench, of its external datasets and of a load tell of      *)
(* their source, and the health of a service of what is loaded.  For the   *)
(* pool two things carry the proof: no statement belongs to two helpers,   *)
(* so that what a transaction commits is of its helper alone               *)
(* (StatementsApart), and a transaction that was not aborted has done all  *)
(* of what it went through (CallsInv).  What is computed of a task: what   *)
(* an answer may claim, for any files whose chunks are of whole characters *)
(* (EvidenceAssumption), what a chart draws of any sheet, what an          *)
(* artifact says of any corpus (CorpusAssumption), and what is read back   *)
(* of any conversation, rollout or session of a tool server: there loops   *)
(* over lists carry the proof, each an induction over its length, and of a *)
(* rollout that every token of a result lies between the environment's own *)
(* tags (Filled).  What is read of a tree, reordered and cut into chunks   *)
(* rests on the lemmas of FilesProofs.                                     *)
(***************************************************************************)
EXTENDS Computations, FilesProofs

----------------------------------------------------------------------------
(* The statements.                                                           *)

Tables == {"vector", "schema", "pg_search", "drop_bm25", "bm25", "analyze", "hnsw", "half_column",
           "half_values", "bit_column", "bit_values", "bit_index", "ef_search", "iterative_scan",
           "gin", "count", "indexed_files", "content_hash", "directory_results", "rows",
           "search_path", "search"}

\* The helper that a statement is of.
HelperOf ==
    [e \in Tables |->
        CASE e \in {"vector"} -> "ensure_vector_extension"
          [] e \in {"schema", "pg_search"} -> "ensure_pg_search_extension"
          [] e \in {"drop_bm25", "bm25", "analyze"} -> "create_bm25_index"
          [] e \in {"hnsw"} -> "ensure_hnsw"
          [] e \in {"half_column", "half_values"} -> "ensure_halfvec"
          [] e \in {"bit_column", "bit_values", "bit_index"} -> "ensure_binary"
          [] e \in {"ef_search", "iterative_scan"} -> "set_ef_search"
          [] e \in {"gin"} -> "ensure_text_index"
          [] e \in {"count"} -> "count_nodes"
          [] e \in {"indexed_files", "content_hash", "directory_results"} -> "create_tables"
          [] e \in {"rows"} -> "batch_insert"
          [] OTHER -> "search_bm25"]

\* The tables of statements, helper by helper.
LEMMA StatementsAre ==
    /\ Statements["ensure_vector_extension"] = <<"vector">>
    /\ Statements["ensure_pg_search_extension"] = <<"schema", "pg_search">>
    /\ Statements["create_bm25_index"] = <<"drop_bm25", "bm25", "analyze">>
    /\ Statements["ensure_hnsw"] = <<"hnsw">>
    /\ Statements["ensure_halfvec"] = <<"half_column", "half_values">>
    /\ Statements["ensure_binary"] = <<"bit_column", "bit_values", "bit_index">>
    /\ Statements["set_ef_search"] = <<"ef_search", "iterative_scan">>
    /\ Statements["ensure_text_index"] = <<"gin">>
    /\ Statements["count_nodes"] = <<"count">>
    /\ Statements["create_tables"] = <<"indexed_files", "content_hash", "directory_results">>
    /\ Statements["batch_insert"] = <<"rows">>
    /\ Statements["search_bm25"] = <<"search_path", "search">>
BY DEF Statements, StartStatements, VectorStatements, TextStatements, TableStatements,
       BatchStatements, SearchStatements, EitherOf

LEMMA HelperNames ==
    \A h \in Helpers : h \in {"ensure_vector_extension", "ensure_pg_search_extension", "create_bm25_index", "ensure_hnsw", "ensure_halfvec", "ensure_binary", "set_ef_search", "ensure_text_index", "count_nodes", "create_tables", "batch_insert", "search_bm25"}
BY PoolAssumption DEF Statements, StartStatements, VectorStatements, TextStatements, TableStatements,
       BatchStatements, SearchStatements, EitherOf

LEMMA HelpersAre ==
    /\ HelperOf["vector"] = "ensure_vector_extension"
    /\ HelperOf["schema"] = "ensure_pg_search_extension"
    /\ HelperOf["pg_search"] = "ensure_pg_search_extension"
    /\ HelperOf["drop_bm25"] = "create_bm25_index"
    /\ HelperOf["bm25"] = "create_bm25_index"
    /\ HelperOf["analyze"] = "create_bm25_index"
    /\ HelperOf["hnsw"] = "ensure_hnsw"
    /\ HelperOf["half_column"] = "ensure_halfvec"
    /\ HelperOf["half_values"] = "ensure_halfvec"
    /\ HelperOf["bit_column"] = "ensure_binary"
    /\ HelperOf["bit_values"] = "ensure_binary"
    /\ HelperOf["bit_index"] = "ensure_binary"
    /\ HelperOf["ef_search"] = "set_ef_search"
    /\ HelperOf["iterative_scan"] = "set_ef_search"
    /\ HelperOf["gin"] = "ensure_text_index"
    /\ HelperOf["count"] = "count_nodes"
    /\ HelperOf["indexed_files"] = "create_tables"
    /\ HelperOf["content_hash"] = "create_tables"
    /\ HelperOf["directory_results"] = "create_tables"
    /\ HelperOf["rows"] = "batch_insert"
    /\ HelperOf["search_path"] = "search_bm25"
    /\ HelperOf["search"] = "search_bm25"
BY DEF HelperOf, Tables

\* Short lists: their elements and no other.
LEMMA Listed1 ==
    ASSUME NEW S, NEW a \in S PROVE <<a>> \in Seq(S) /\ \A k \in DOMAIN <<a>> : <<a>>[k] \in {a}
OBVIOUS

LEMMA Listed2 ==
    ASSUME NEW S, NEW a \in S, NEW b \in S
    PROVE  <<a, b>> \in Seq(S) /\ \A k \in DOMAIN <<a, b>> : <<a, b>>[k] \in {a, b}
OBVIOUS

LEMMA Listed3 ==
    ASSUME NEW S, NEW a \in S, NEW b \in S, NEW c \in S
    PROVE  <<a, b, c>> \in Seq(S) /\ \A k \in DOMAIN <<a, b, c>> : <<a, b, c>>[k] \in {a, b, c}
OBVIOUS

\* No statement is of two helpers.
LEMMA StatementsApart ==
    ASSUME NEW h \in Helpers
    PROVE  /\ Statements[h] \in Seq(Tables)
           /\ \A k \in DOMAIN Statements[h] : HelperOf[Statements[h][k]] = h
<1>1. CASE h = "ensure_vector_extension"
  <2>1. Statements[h] = <<"vector">>
    BY <1>1, StatementsAre
  <2>2. \A e \in {"vector"} : HelperOf[e] = h /\ e \in Tables
    BY <1>1, HelpersAre DEF Tables
  <2> QED
    BY <2>1, <2>2, Listed1
<1>2. CASE h = "ensure_pg_search_extension"
  <2>1. Statements[h] = <<"schema", "pg_search">>
    BY <1>2, StatementsAre
  <2>2. \A e \in {"schema", "pg_search"} : HelperOf[e] = h /\ e \in Tables
    BY <1>2, HelpersAre DEF Tables
  <2> QED
    BY <2>1, <2>2, Listed2
<1>3. CASE h = "create_bm25_index"
  <2>1. Statements[h] = <<"drop_bm25", "bm25", "analyze">>
    BY <1>3, StatementsAre
  <2>2. \A e \in {"drop_bm25", "bm25", "analyze"} : HelperOf[e] = h /\ e \in Tables
    BY <1>3, HelpersAre DEF Tables
  <2> QED
    BY <2>1, <2>2, Listed3
<1>4. CASE h = "ensure_hnsw"
  <2>1. Statements[h] = <<"hnsw">>
    BY <1>4, StatementsAre
  <2>2. \A e \in {"hnsw"} : HelperOf[e] = h /\ e \in Tables
    BY <1>4, HelpersAre DEF Tables
  <2> QED
    BY <2>1, <2>2, Listed1
<1>5. CASE h = "ensure_halfvec"
  <2>1. Statements[h] = <<"half_column", "half_values">>
    BY <1>5, StatementsAre
  <2>2. \A e \in {"half_column", "half_values"} : HelperOf[e] = h /\ e \in Tables
    BY <1>5, HelpersAre DEF Tables
  <2> QED
    BY <2>1, <2>2, Listed2
<1>6. CASE h = "ensure_binary"
  <2>1. Statements[h] = <<"bit_column", "bit_values", "bit_index">>
    BY <1>6, StatementsAre
  <2>2. \A e \in {"bit_column", "bit_values", "bit_index"} : HelperOf[e] = h /\ e \in Tables
    BY <1>6, HelpersAre DEF Tables
  <2> QED
    BY <2>1, <2>2, Listed3
<1>7. CASE h = "set_ef_search"
  <2>1. Statements[h] = <<"ef_search", "iterative_scan">>
    BY <1>7, StatementsAre
  <2>2. \A e \in {"ef_search", "iterative_scan"} : HelperOf[e] = h /\ e \in Tables
    BY <1>7, HelpersAre DEF Tables
  <2> QED
    BY <2>1, <2>2, Listed2
<1>8. CASE h = "ensure_text_index"
  <2>1. Statements[h] = <<"gin">>
    BY <1>8, StatementsAre
  <2>2. \A e \in {"gin"} : HelperOf[e] = h /\ e \in Tables
    BY <1>8, HelpersAre DEF Tables
  <2> QED
    BY <2>1, <2>2, Listed1
<1>9. CASE h = "count_nodes"
  <2>1. Statements[h] = <<"count">>
    BY <1>9, StatementsAre
  <2>2. \A e \in {"count"} : HelperOf[e] = h /\ e \in Tables
    BY <1>9, HelpersAre DEF Tables
  <2> QED
    BY <2>1, <2>2, Listed1
<1>10. CASE h = "create_tables"
  <2>1. Statements[h] = <<"indexed_files", "content_hash", "directory_results">>
    BY <1>10, StatementsAre
  <2>2. \A e \in {"indexed_files", "content_hash", "directory_results"} : HelperOf[e] = h /\ e \in Tables
    BY <1>10, HelpersAre DEF Tables
  <2> QED
    BY <2>1, <2>2, Listed3
<1>11. CASE h = "batch_insert"
  <2>1. Statements[h] = <<"rows">>
    BY <1>11, StatementsAre
  <2>2. \A e \in {"rows"} : HelperOf[e] = h /\ e \in Tables
    BY <1>11, HelpersAre DEF Tables
  <2> QED
    BY <2>1, <2>2, Listed1
<1>12. CASE h = "search_bm25"
  <2>1. Statements[h] = <<"search_path", "search">>
    BY <1>12, StatementsAre
  <2>2. \A e \in {"search_path", "search"} : HelperOf[e] = h /\ e \in Tables
    BY <1>12, HelpersAre DEF Tables
  <2> QED
    BY <2>1, <2>2, Listed2
<1> QED
  BY HelperNames, <1>1, <1>2, <1>3, <1>4, <1>5, <1>6, <1>7, <1>8, <1>9, <1>10, <1>11, <1>12

\* What the tables say of the helpers that tell of their success: they set
\* nothing of the session, and all of their statements count.  Only the
\* refresh of the index of the words drops anything, and it builds it again.
LEMMA SuccessCounts ==
    ASSUME NEW h \in Helpers, NEW k \in DOMAIN Statements[h]
    PROVE  /\ Statements[h][k] \in Settings \union Guarded => h \notin TellsSuccess
           /\ Statements[h][k] = "drop_bm25" => h = "create_bm25_index"
<1>1. HelperOf[Statements[h][k]] = h
  BY StatementsApart
<1>2. \A e \in Settings \union Guarded : HelperOf[e] \notin TellsSuccess
  BY HelpersAre DEF Settings, Guarded, TellsSuccess
<1> QED
  BY <1>1, <1>2, HelpersAre

LEMMA EffectsAre ==
    ASSUME NEW h \in Helpers
    PROVE  /\ Effects(h) = {Statements[h][k] : k \in DOMAIN Statements[h]} \ (Reads \union {"drop_bm25"})
           /\ \A e \in Effects(h) : HelperOf[e] = h
           /\ h \in TellsSuccess => Effects(h) \intersect Settings = {}
           /\ h = "create_bm25_index" => "bm25" \in Effects(h)
<1>1. Effects(h) = {Statements[h][k] : k \in DOMAIN Statements[h]} \ (Reads \union {"drop_bm25"})
  BY DEF Effects, ToSet
<1>2. ASSUME h = "create_bm25_index" PROVE "bm25" \in Effects(h)
  <2>1. Statements[h] = <<"drop_bm25", "bm25", "analyze">>
    BY <1>2, StatementsAre
  <2>2. 2 \in DOMAIN Statements[h] /\ Statements[h][2] = "bm25"
    BY <2>1
  <2> QED
    BY <1>1, <2>2 DEF Reads
<1> QED
  BY <1>1, <1>2, StatementsApart, SuccessCounts
----------------------------------------------------------------------------
(* The calls.                                                                *)

Transactions ==
    [helper : Helpers, at : Nat \ {0}, aborted : BOOLEAN, did : SUBSET Tables, dropped : SUBSET {"bm25"},
     had : BOOLEAN, session : SUBSET Settings, set : SUBSET Settings]

PoolTypes ==
    /\ idle \in Seq(SUBSET Settings)
    /\ running \in [Threads -> Transactions \union {NoCall}]
    /\ DOMAIN answers = Threads

\* A transaction has done nothing that is not of its helper, and unless it was
\* aborted, all that it went through; one that was aborted is of a helper that
\* does not tell of success.
CallOK(call) ==
    /\ call.at <= Len(Statements[call.helper]) + 1
    /\ call.did \subseteq Effects(call.helper)
    /\ call.dropped # {} => call.helper = "create_bm25_index"
    /\ call.aborted => call.helper \notin TellsSuccess
    /\ ~call.aborted =>
          \A k \in 1 .. call.at - 1 :
              Statements[call.helper][k] \in Effects(call.helper) \ Settings
                  => Statements[call.helper][k] \in call.did
    /\ call.had => Indexed

CallsInv == \A t \in Threads : running[t] # NoCall => CallOK(running[t])

AnswerOK(answer) ==
    /\ answer.value = "true" => Effects(answer.helper) \subseteq db
    /\ answer.had => Indexed

\* What is committed is committed of whole helpers.
WholeInv == \A h \in Helpers : Effects(h) \subseteq db \union Settings \/ Effects(h) \intersect db = {}

AnswersInv == \A t \in Threads : answers[t] # NoCall => AnswerOK(answers[t])

PoolInv == PoolTypes /\ CallsInv /\ WholeInv /\ AnswersInv

LEMMA PoolStart == PoolInit => PoolInv
<1> SUFFICES ASSUME PoolInit PROVE PoolInv
  OBVIOUS
<1>1. PoolTypes /\ CallsInv /\ AnswersInv
  BY DEF PoolInit, PoolTypes, CallsInv, AnswersInv
<1>2. WholeInv
  <2> SUFFICES ASSUME NEW h \in Helpers, "bm25" \in Effects(h), db = {"bm25"}
               PROVE  Effects(h) \subseteq {"bm25"}
    BY DEF WholeInv, PoolInit
  <2>1. h = "create_bm25_index"
    BY EffectsAre, HelpersAre
  <2>2. Statements[h] = <<"drop_bm25", "bm25", "analyze">>
    BY <2>1, StatementsAre
  <2>3. \A k \in DOMAIN Statements[h] : Statements[h][k] \in {"drop_bm25", "bm25", "analyze"}
    BY <2>2
  <2> QED
    BY <2>3, EffectsAre DEF Reads
<1> QED
  BY <1>1, <1>2 DEF PoolInv

\* A connection goes back with its settings, or is closed.
LEMMA PutBack ==
    ASSUME PoolTypes, NEW session \in SUBSET Settings, PutConn(session)
    PROVE  idle' \in Seq(SUBSET Settings)
BY DEF PutConn, PoolTypes

\* A call begins with nothing done.
LEMMA GetConnKeeps ==
    ASSUME PoolInv, NEW t \in Threads, NEW h \in Helpers, GetConn(t, h)
    PROVE  PoolInv'
<1> USE DEF PoolInv, PoolTypes
<1>1. UNCHANGED db /\ (Indexed <=> Indexed') /\ Indexed \in BOOLEAN
  BY DEF GetConn, Indexed
<1>2. WholeInv'
  BY <1>1 DEF WholeInv
<1>3. ASSUME NEW session \in SUBSET Settings, Begin(t, h, session), idle' \in Seq(SUBSET Settings)
      PROVE  PoolInv'
  <2> DEFINE new == [helper |-> h, at |-> 1, aborted |-> FALSE, did |-> {}, dropped |-> {},
                     had |-> Indexed, session |-> session, set |-> {}]
  <2>1. running' = [running EXCEPT ![t] = new] /\ answers' = [answers EXCEPT ![t] = NoCall]
    BY <1>3 DEF Begin
  <2>2. new \in Transactions
    BY <1>1 DEF Transactions
  <2>3. Len(Statements[h]) \in Nat
    BY StatementsApart
  <2>8. new' = new
    <3>1. Indexed' = Indexed
      BY <1>1 DEF Indexed
    <3> QED
      BY <3>1
  <2>4. CallOK(new)'
    BY <1>1, <2>3 DEF CallOK
  <2> HIDE DEF new
  <2>5. PoolTypes'
    BY <1>3, <2>1, <2>2
  <2>6. CallsInv'
    BY <1>1, <2>1, <2>4, <2>8 DEF CallsInv, CallOK
  <2>7. AnswersInv'
    BY <1>1, <2>1 DEF AnswersInv, AnswerOK
  <2> QED
    BY <1>2, <2>5, <2>6, <2>7
<1>4. CASE Answer(t, h, Failed(h), Indexed) /\ UNCHANGED <<idle, running>>
  <2>1. Failed(h) # "true"
    BY DEF Failed
  <2>2. CallsInv'
    BY <1>1, <1>4 DEF CallsInv, CallOK
  <2>3. AnswersInv'
    BY <1>1, <1>4, <2>1 DEF AnswersInv, AnswerOK, Answer
  <2> QED
    BY <1>2, <1>4, <2>2, <2>3 DEF Answer
<1>5. ASSUME idle # <<>>
      PROVE  Last(idle) \in SUBSET Settings /\ Front(idle) \in Seq(SUBSET Settings)
  BY <1>5 DEF Last, Front
<1> QED
  BY <1>3, <1>4, <1>5 DEF GetConn

\* A statement that is executed.
LEMMA ExecuteKeeps ==
    ASSUME PoolInv, NEW t \in Threads, Execute(t)
    PROVE  PoolInv'
<1> USE DEF PoolInv, PoolTypes
<1> DEFINE call == running[t]
           h == call.helper
           e == Statements[h][call.at]
           next == [call EXCEPT !.at = @ + 1,
                        !.did = IF e \in Settings \union Reads \union {"drop_bm25"} THEN @ ELSE @ \union {e},
                        !.dropped = IF e = "drop_bm25" THEN {"bm25"} ELSE @,
                        !.set = IF e \in Settings THEN @ \union {e} ELSE @]
<1>1. /\ call # NoCall /\ call \in Transactions /\ h \in Helpers /\ ~call.aborted
      /\ call.at <= Len(Statements[h]) /\ CallOK(call)
      /\ UNCHANGED <<db, idle, answers>>
  BY DEF Execute, HasStatement, CallsInv, Transactions
<1>2. running' = [running EXCEPT ![t] = next]
  BY DEF Execute, Now
<1>3. call.at \in Nat \ {0} /\ Statements[h] \in Seq(Tables) /\ call.at \in DOMAIN Statements[h]
      /\ Len(Statements[h]) \in Nat /\ e \in Tables
  BY <1>1, StatementsApart DEF Transactions
<1>4. /\ next.helper = h /\ next.at = call.at + 1 /\ next.aborted = call.aborted /\ next.had = call.had
      /\ next.did = (IF e \in Settings \union Reads \union {"drop_bm25"} THEN call.did ELSE call.did \union {e})
      /\ next.dropped = (IF e = "drop_bm25" THEN {"bm25"} ELSE call.dropped)
  BY <1>1 DEF Transactions
<1>5. next \in Transactions
  <2>1. call.at + 1 \in Nat \ {0}
    BY <1>3
  <2>2. e \in Settings => call.set \union {e} \in SUBSET Settings
    BY <1>1 DEF Transactions
  <2>3. call.did \union {e} \in SUBSET Tables
    BY <1>1, <1>3 DEF Transactions
  <2> HIDE DEF e
  <2> QED
    BY <1>1, <2>1, <2>2, <2>3 DEF Transactions
<1>6. e \in Settings \union Reads \union {"drop_bm25"} \/ e \in Effects(h)
  BY <1>1, <1>3, EffectsAre
<1>7. e = "drop_bm25" => h = "create_bm25_index"
  BY <1>1, <1>3, SuccessCounts
<1>8. e \in Effects(h) \ Settings => e \in next.did
  BY <1>1, <1>4, EffectsAre
<1> HIDE DEF next, e, h
<1>9. CallOK(next)
  <2>1. ASSUME NEW k \in 1 .. next.at - 1, Statements[h][k] \in Effects(h) \ Settings
        PROVE  Statements[h][k] \in next.did
    <3>1. CASE k = call.at
      BY <1>8, <2>1, <3>1 DEF e
    <3>2. CASE k # call.at
      <4>1. k \in 1 .. call.at - 1
        BY <1>3, <1>4, <3>2
      <4>2. Statements[h][k] \in call.did
        BY <1>1, <2>1, <4>1 DEF CallOK, h
      <4> QED
        BY <1>4, <4>2
    <3> QED
      BY <3>1, <3>2
  <2>2. next.at <= Len(Statements[h]) + 1
    BY <1>1, <1>3, <1>4
  <2>3. next.did \subseteq Effects(h)
    BY <1>1, <1>4, <1>6 DEF CallOK, h
  <2>4. /\ next.dropped # {} => h = "create_bm25_index"
        /\ next.aborted => h \notin TellsSuccess
        /\ next.had => Indexed
    BY <1>1, <1>4, <1>7 DEF CallOK, h
  <2> QED
    BY <1>1, <1>4, <2>1, <2>2, <2>3, <2>4 DEF CallOK
<1>10. CallsInv'
  <2> SUFFICES ASSUME NEW u \in Threads, running'[u] # NoCall PROVE CallOK(running[u])'
    BY DEF CallsInv
  <2>1. running'[u] = next \/ running'[u] = running[u]
    BY <1>2
  <2>2. CallOK(running'[u])
    BY <1>2, <1>9, <2>1 DEF CallsInv
  <2> QED
    BY <1>1, <2>2 DEF CallOK, Indexed
<1> QED
  BY <1>1, <1>2, <1>5, <1>10 DEF WholeInv, AnswersInv, AnswerOK, Indexed

\* A call that ends: its connection goes back, and its answer is one the
\* database bears out.
LEMMA CallEnds ==
    ASSUME PoolInv, NEW t \in Threads, NEW session \in SUBSET Settings, PutConn(session), Finish(t),
           NEW h \in Helpers, NEW value, NEW had, Answer(t, h, value, had),
           db \subseteq db', WholeInv',
           value = "true" => Effects(h) \subseteq db', had => Indexed'
    PROVE  PoolInv'
<1> USE DEF PoolInv, PoolTypes
<1>1. Indexed => Indexed'
  BY DEF Indexed
<1>2. PoolTypes'
  BY PutBack DEF Finish, Answer
<1>3. CallsInv'
  <2> SUFFICES ASSUME NEW u \in Threads, running'[u] # NoCall PROVE CallOK(running[u])'
    BY DEF CallsInv
  <2>1. running'[u] = running[u] /\ CallOK(running[u])
    BY DEF Finish, CallsInv
  <2> QED
    BY <1>1, <2>1 DEF CallOK
<1>4. AnswersInv'
  <2> SUFFICES ASSUME NEW u \in Threads, answers'[u] # NoCall PROVE AnswerOK(answers[u])'
    BY DEF AnswersInv
  <2>1. CASE u # t
    <3>1. answers'[u] = answers[u] /\ AnswerOK(answers[u])
      BY <2>1 DEF Answer, AnswersInv
    <3> QED
      BY <1>1, <3>1 DEF AnswerOK
  <2>2. CASE u = t
    <3>1. /\ answers'[u].value = value /\ answers'[u].helper = h /\ answers'[u].had = had
      BY <2>2 DEF Answer
    <3> QED
      BY <3>1 DEF AnswerOK
  <2> QED
    BY <2>1, <2>2
<1> QED
  BY <1>2, <1>3, <1>4

\* A call that ends without a commit.
LEMMA FailureKeeps ==
    ASSUME PoolInv, NEW t \in Threads, running[t] # NoCall, UNCHANGED db,
           PutConn(running[t].session), Finish(t),
           Answer(t, running[t].helper, Failed(running[t].helper), running[t].had)
    PROVE  PoolInv'
<1>1. /\ running[t].helper \in Helpers /\ running[t].session \in SUBSET Settings
      /\ running[t].had => Indexed
  BY DEF PoolInv, PoolTypes, Transactions, CallsInv, CallOK
<1>2. Failed(running[t].helper) # "true"
  BY DEF Failed
<1>3. WholeInv' /\ (Indexed => Indexed')
  BY DEF PoolInv, WholeInv, Indexed
<1> QED
  BY <1>1, <1>2, <1>3, CallEnds

\* A statement that is refused.
LEMMA RefuseKeeps ==
    ASSUME PoolInv, NEW t \in Threads, Refuse(t)
    PROVE  PoolInv'
<1> USE DEF PoolInv, PoolTypes
<1> DEFINE call == running[t]
           next == [call EXCEPT !.at = @ + 1, !.aborted = TRUE]
<1>1. /\ call # NoCall /\ call \in Transactions /\ call.helper \in Helpers
      /\ call.at <= Len(Statements[call.helper]) /\ CallOK(call)
      /\ UNCHANGED db
  BY DEF Refuse, HasStatement, CallsInv, Transactions
<1>2. call.at \in Nat \ {0} /\ call.at \in DOMAIN Statements[call.helper]
      /\ Len(Statements[call.helper]) \in Nat
  BY <1>1, StatementsApart DEF Transactions
<1>3. CASE Now(t) \in Guarded /\ running' = [running EXCEPT ![t] = next] /\ UNCHANGED <<idle, answers>>
  <2>1. next \in Transactions /\ next.helper = call.helper /\ next.at = call.at + 1 /\ next.aborted
        /\ next.did = call.did /\ next.dropped = call.dropped /\ next.had = call.had
    <3>1. call.at + 1 \in Nat \ {0}
      BY <1>2
    <3> QED
      BY <1>1, <3>1 DEF Transactions
  <2>2. call.helper \notin TellsSuccess
    BY <1>1, <1>2, <1>3, SuccessCounts DEF Now
  <2> HIDE DEF next
  <2>3. CallOK(next)
    BY <1>1, <1>2, <2>1, <2>2 DEF CallOK
  <2>4. CallsInv'
    <3> SUFFICES ASSUME NEW u \in Threads, running'[u] # NoCall PROVE CallOK(running[u])'
      BY DEF CallsInv
    <3>1. running'[u] = next \/ running'[u] = running[u]
      BY <1>3
    <3>2. CallOK(running'[u])
      BY <1>3, <2>3, <3>1 DEF CallsInv
    <3> QED
      BY <1>1, <3>2 DEF CallOK, Indexed
  <2> QED
    BY <1>1, <1>3, <2>1, <2>4 DEF WholeInv, AnswersInv, AnswerOK, Indexed
<1>4. CASE Finish(t) /\ PutConn(call.session) /\ Answer(t, call.helper, Failed(call.helper), call.had)
  BY <1>1, <1>4, FailureKeeps
<1> QED
  BY <1>3, <1>4 DEF Refuse

\* The commit: of one helper, and of the whole of it unless it was aborted.
LEMMA CommitKeeps ==
    ASSUME PoolInv, NEW t \in Threads, Commit(t)
    PROVE  PoolInv'
<1> USE DEF PoolInv, PoolTypes
<1> DEFINE call == running[t]
           h == call.helper
<1>1. /\ call # NoCall /\ call \in Transactions /\ h \in Helpers /\ CallOK(call)
      /\ ~(call.at <= Len(Statements[h]))
  BY DEF Commit, HasStatement, CallsInv, Transactions
<1>2. PICK session \in SUBSET Settings : PutConn(session)
  BY <1>1 DEF Commit, Transactions
<1>3. /\ Finish(t)
      /\ Answer(t, h, IF h \in TellsSuccess THEN "true" ELSE "done", call.had)
      /\ db' = IF call.aborted THEN db ELSE (db \ call.dropped) \union call.did
  BY DEF Commit
<1>4. CASE call.aborted
  <2>1. h \notin TellsSuccess /\ UNCHANGED db
    BY <1>1, <1>3, <1>4 DEF CallOK
  <2>2. WholeInv' /\ (Indexed => Indexed')
    BY <2>1 DEF WholeInv, Indexed
  <2> QED
    BY <1>1, <1>2, <1>3, <2>1, <2>2, CallEnds DEF CallOK
<1>5. CASE ~call.aborted
  <2>1. Effects(h) \ Settings \subseteq call.did /\ call.did \subseteq Effects(h)
    <3>1. Statements[h] \in Seq(Tables) /\ call.at = Len(Statements[h]) + 1 /\ Len(Statements[h]) \in Nat
      BY <1>1, StatementsApart DEF Transactions, CallOK
    <3>2. 1 .. call.at - 1 = DOMAIN Statements[h]
      BY <3>1
    <3>3. \A k \in DOMAIN Statements[h] : Statements[h][k] \in Effects(h) \ Settings => Statements[h][k] \in call.did
      BY <1>1, <1>5, <3>2 DEF CallOK
    <3>4. Effects(h) \subseteq {Statements[h][k] : k \in DOMAIN Statements[h]}
      BY <1>1, EffectsAre
    <3> HIDE DEF h
    <3>5. Effects(h) \ Settings \subseteq call.did
      BY <3>3, <3>4
    <3> QED
      BY <1>1, <3>5 DEF CallOK, h
  <2>2. db' = (db \ call.dropped) \union call.did
    BY <1>3, <1>5
  <2>3. /\ call.dropped \subseteq {"bm25"}
        /\ call.dropped # {} => h = "create_bm25_index" /\ "bm25" \in call.did
    <3>1. "bm25" \notin Settings
      BY DEF Settings
    <3> QED
      BY <1>1, <2>1, <3>1, EffectsAre DEF CallOK, Transactions
  <2>4. db \subseteq db'
    BY <2>2, <2>3
  <2>5. WholeInv'
    <3> SUFFICES ASSUME NEW g \in Helpers
                 PROVE  Effects(g) \subseteq db' \union Settings \/ Effects(g) \intersect db' = {}
      BY DEF WholeInv
    <3>1. CASE g = h
      BY <2>1, <2>2, <3>1
    <3>2. CASE g # h
      <4>1. Effects(g) \intersect Effects(h) = {}
        BY <1>1, <3>2, EffectsAre
      <4> QED
        BY <2>1, <2>2, <2>4, <4>1 DEF WholeInv
    <3> QED
      BY <3>1, <3>2
  <2>6. h \in TellsSuccess => Effects(h) \subseteq db'
    BY <1>1, <2>1, <2>2, EffectsAre
  <2>7. call.had => Indexed'
    BY <1>1, <2>4 DEF CallOK, Indexed
  <2> QED
    BY <1>1, <1>2, <1>3, <2>4, <2>5, <2>6, <2>7, CallEnds
<1> QED
  BY <1>4, <1>5 DEF Transactions

LEMMA PoolStep == PoolInv /\ [PoolNext]_poolVars => PoolInv'
<1> SUFFICES ASSUME PoolInv, [PoolNext]_poolVars PROVE PoolInv'
  OBVIOUS
<1>1. ASSUME NEW t \in Threads, NEW h \in Helpers, GetConn(t, h) PROVE PoolInv'
  BY <1>1, GetConnKeeps
<1>2. ASSUME NEW t \in Threads, Execute(t) PROVE PoolInv'
  BY <1>2, ExecuteKeeps
<1>3. ASSUME NEW t \in Threads, Refuse(t) PROVE PoolInv'
  BY <1>3, RefuseKeeps
<1>4. ASSUME NEW t \in Threads, Commit(t) PROVE PoolInv'
  BY <1>4, CommitKeeps
<1>5. ASSUME NEW t \in Threads, CommitFails(t) PROVE PoolInv'
  BY <1>5, FailureKeeps DEF CommitFails
<1>6. CASE UNCHANGED poolVars
  BY <1>6 DEF poolVars, PoolInv, PoolTypes, CallsInv, CallOK, WholeInv, AnswersInv, AnswerOK, Indexed
<1> QED
  BY <1>1, <1>2, <1>3, <1>4, <1>5, <1>6 DEF PoolNext

\* However the calls of the threads interleave, whichever statements the
\* server refuses and whenever a commit fails or no connection is free: a
\* helper that answers True left all it is for, none leaves a part, and a
\* failed refresh keeps the index of the words (app/database).
THEOREM HelpersAreWhole == PoolSpec => []HelpersTellWhatTheyLeft
<1>1. PoolInv => HelpersTellWhatTheyLeft
  BY DEF PoolInv, WholeInv, AnswersInv, AnswerOK, HelpersTellWhatTheyLeft
<1> QED
  BY <1>1, PoolStart, PoolStep, PTL DEF PoolSpec
----------------------------------------------------------------------------
(* The load: how many rows there are at each stage, and what the report of   *)
(* them counts.                                                              *)

Row == [stage : Stages, state : {"in_flight", "completed"}, success : BOOLEAN, lost : BOOLEAN]

Open == {i \in InFlight : ~records[i].lost}

\* The rows that come before a stage.
Before(n) == IF n = Cold THEN 0 ELSE IF n = WarmUp THEN 1 ELSE 1 + Warmups + PerLevel * (n - 3)

\* What a row is like at stage n of a run that is ending or not.
RowOK(row, n, ending) ==
    /\ row.success => row.state = "completed"
    /\ row.lost => row.state = "in_flight" /\ ending
    /\ n # Done => row.stage <= n
    /\ row.state = "in_flight" /\ ~row.lost /\ n # Done => row.stage = n

Adds(c) == c.attempted = c.completed + c.in_flight /\ c.completed = c.succeeded + c.failed

Succeeded(rows) == {i \in DOMAIN rows : rows[i].success}

ReportInv ==
    report # NoReport =>
        /\ Adds(report.counts)
        /\ report.outcome \in {"ok", "requests_failed"} =>
              /\ stage = Done /\ report.counts.attempted = Planned
              /\ \A i \in DOMAIN records : records[i].state = "completed"
              /\ report.outcome = "ok" <=> \A i \in DOMAIN records : records[i].success
        /\ report.outcome = "in_progress" =>
              /\ report.counts.attempted = Len(records)
              /\ report.counts.succeeded = Cardinality(Succeeded(records))

LoadInv ==
    /\ stage \in 0 .. Done /\ leaving \in BOOLEAN /\ records \in Seq(Row)
    /\ \A i \in DOMAIN records : RowOK(records[i], stage, leaving)
    /\ stage = BeforeHealth => records = <<>>
    /\ stage \in Stages => /\ Len(records) = Before(stage) + Cardinality(RowsOf(stage))
                           /\ Cardinality(Open) <= AtOnce(stage)
    /\ ReportInv

LEMMA StagesAre ==
    /\ Len(Levels) \in Nat /\ Done \in Nat /\ Done = 3 + Len(Levels)
    /\ \A n : n \in Stages <=> n \in Nat /\ 1 <= n /\ n < Done
    /\ \A n \in Stages : PlannedOf(n) \in Nat /\ AtOnce(n) \in Nat
BY LoadAssumption DEF Done, Stages, PlannedOf, AtOnce, Cold, WarmUp

LEMMA BeforeIs ==
    /\ Before(1) = 0 /\ Before(Done) = Planned
    /\ \A n \in Stages : Before(n + 1) = Before(n) + PlannedOf(n)
<1>1. Before(1) = 0 /\ Before(Done) = Planned
  BY StagesAre, LoadAssumption DEF Before, Planned, Cold, WarmUp
<1>2. ASSUME NEW n \in Stages PROVE Before(n + 1) = Before(n) + PlannedOf(n)
  <2>1. CASE n = 1
    BY <2>1, LoadAssumption DEF Before, PlannedOf, Cold, WarmUp
  <2>2. CASE n = 2
    BY <2>2, LoadAssumption DEF Before, PlannedOf, Cold, WarmUp
  <2>3. CASE n # 1 /\ n # 2
    <3>1. n \in Nat /\ n >= 3
      BY <2>3, StagesAre
    <3>2. PerLevel * (n + 1 - 3) = PerLevel * (n - 3) + PerLevel /\ PerLevel * (n - 3) \in Int
      BY <3>1, LoadAssumption
    <3>3. Before(n) = 1 + Warmups + PerLevel * (n - 3) /\ PlannedOf(n) = PerLevel
      BY <3>1 DEF Before, PlannedOf, Cold, WarmUp
    <3>4. Before(n + 1) = 1 + Warmups + PerLevel * (n + 1 - 3)
      BY <3>1 DEF Before, Cold, WarmUp
    <3> HIDE DEF Before, PlannedOf
    <3> QED
      BY <3>2, <3>3, <3>4, LoadAssumption
  <2> QED
    BY <2>1, <2>2, <2>3
<1> QED
  BY <1>1, <1>2

LEMMA IndicesFinite ==
    ASSUME NEW rows \in Seq(Row), NEW S \in SUBSET (DOMAIN rows)
    PROVE  IsFiniteSet(S) /\ Cardinality(S) \in Nat
<1>1. IsFiniteSet(DOMAIN rows)
  <2>1. DOMAIN rows = 1 .. Len(rows) /\ Len(rows) \in Nat
    OBVIOUS
  <2> QED
    BY <2>1, FS_Interval
<1> QED
  BY <1>1, FS_Subset, FS_CardinalityType

\* Of two sets that share nothing.
LEMMA InTwo ==
    ASSUME NEW rows \in Seq(Row), NEW S \in SUBSET (DOMAIN rows), NEW T, T \subseteq S
    PROVE  Cardinality(S) = Cardinality(T) + Cardinality(S \ T)
<1>1. IsFiniteSet(T) /\ IsFiniteSet(S \ T) /\ Cardinality(T) \in Nat /\ Cardinality(S \ T) \in Nat
  <2>1. T \in SUBSET (DOMAIN rows) /\ S \ T \in SUBSET (DOMAIN rows)
    OBVIOUS
  <2> QED
    BY <2>1, IndicesFinite
<1>2. Cardinality(T \union (S \ T)) = Cardinality(T) + Cardinality(S \ T) - Cardinality(T \intersect (S \ T))
  BY <1>1, FS_Union
<1>3. T \union (S \ T) = S /\ T \intersect (S \ T) = {}
  OBVIOUS
<1>4. Cardinality({}) = 0
  BY FS_EmptySet
<1>5. Cardinality(S) = Cardinality(T) + Cardinality(S \ T) - Cardinality({})
  BY <1>2, <1>3, Zenon
<1> QED
  BY <1>1, <1>4, <1>5

LEMMA IndicesAre == ASSUME NEW rows \in Seq(Row) PROVE Cardinality(DOMAIN rows) = Len(rows)
<1>1. DOMAIN rows = 1 .. Len(rows) /\ Len(rows) \in Nat
  OBVIOUS
<1> QED
  BY <1>1, FS_Interval

LEMMA CountsAdd ==
    ASSUME NEW rows \in Seq(Row), \A i \in DOMAIN rows : rows[i].success => rows[i].state = "completed"
    PROVE  /\ Adds(Counts(rows)) /\ Counts(rows).attempted = Len(rows)
           /\ Counts(rows).succeeded = Cardinality(Succeeded(rows))
<1> DEFINE all == DOMAIN rows
           ended == {i \in all : rows[i].state = "completed"}
           well == {i \in all : rows[i].state = "completed" /\ rows[i].success}
<1>1. Counts(rows).attempted = Len(rows) /\ Counts(rows).completed = Cardinality(ended)
      /\ Counts(rows).succeeded = Cardinality(well)
  BY DEF Counts, RowsWhere
<1>2. Counts(rows).in_flight = Cardinality(all \ ended)
  <2>1. all \ ended = {i \in all : rows[i].state # "completed"}
    OBVIOUS
  <2> QED
    BY <2>1 DEF Counts, RowsWhere
<1>3. Counts(rows).failed = Cardinality(ended \ well)
  <2>1. ended \ well = {i \in all : rows[i].state = "completed" /\ ~rows[i].success}
    OBVIOUS
  <2> QED
    BY <2>1 DEF Counts, RowsWhere
<1>4. Cardinality(Succeeded(rows)) = Cardinality(well)
  <2>1. well = {i \in all : rows[i].success}
    OBVIOUS
  <2> QED
    BY <2>1 DEF Succeeded
<1>5. Len(rows) = Cardinality(ended) + Cardinality(all \ ended)
  BY InTwo, IndicesAre
<1>6. Cardinality(ended) = Cardinality(well) + Cardinality(ended \ well)
  <2>1. ended \in SUBSET (DOMAIN rows) /\ well \subseteq ended
    OBVIOUS
  <2> HIDE DEF ended, well
  <2> QED
    BY <2>1, InTwo
<1> QED
  BY <1>1, <1>2, <1>3, <1>4, <1>5, <1>6 DEF Adds

LEMMA FinalCountsAdd ==
    ASSUME NEW rows \in Seq(Row)
    PROVE  /\ Adds(FinalCounts(rows)) /\ FinalCounts(rows).attempted = Len(rows)
           /\ FinalCounts(rows).failed = 0 <=> \A i \in DOMAIN rows : rows[i].success
<1> DEFINE all == DOMAIN rows
           well == {i \in all : rows[i].success}
<1>1. FinalCounts(rows).attempted = Len(rows) /\ FinalCounts(rows).completed = Len(rows)
      /\ FinalCounts(rows).in_flight = 0 /\ FinalCounts(rows).succeeded = Cardinality(well)
  BY DEF FinalCounts, RowsWhere
<1>2. FinalCounts(rows).failed = Cardinality(all \ well)
  <2>1. all \ well = {i \in all : ~rows[i].success}
    OBVIOUS
  <2> QED
    BY <2>1 DEF FinalCounts, RowsWhere
<1>3. Len(rows) = Cardinality(well) + Cardinality(all \ well)
  BY InTwo, IndicesAre
<1>4. Cardinality(all \ well) = 0 <=> all \ well = {}
  <2>1. IsFiniteSet(all \ well)
    BY IndicesFinite
  <2> QED
    BY <2>1, FS_EmptySet
<1> QED
  BY <1>1, <1>2, <1>3, <1>4 DEF Adds

LEMMA LoadStart == LoadInit => LoadInv
<1> SUFFICES ASSUME LoadInit PROVE LoadInv
  OBVIOUS
<1>1. records \in Seq(Row) /\ DOMAIN records = {} /\ stage = 0 /\ stage \notin Stages
  BY StagesAre DEF LoadInit, BeforeHealth
<1>2. ReportInv
  BY DEF LoadInit, ReportInv
<1>3. stage \in 0 .. Done
  BY <1>1, StagesAre
<1>4. leaving \in BOOLEAN /\ records = <<>>
  BY Zenon DEF LoadInit
<1> QED
  BY <1>1, <1>2, <1>3, <1>4, Zenon DEF LoadInv

LEMMA CheckHealthKeeps == LoadInv /\ CheckHealth => LoadInv'
<1> SUFFICES ASSUME LoadInv, CheckHealth PROVE LoadInv'
  OBVIOUS
<1>1. records = <<>> /\ records' = <<>> /\ RowsOf(1)' = {} /\ Open' = {} /\ leaving' = leaving
  BY DEF CheckHealth, LoadInv, RowsOf, Open, InFlight
<1>2. stage' \in {Cold, Done} /\ Cold = 1 /\ stage' \in 0 .. Done /\ stage' # BeforeHealth
  BY StagesAre DEF CheckHealth, Cold, BeforeHealth
<1>3. stage' \in Stages => Len(records') = Before(stage') + Cardinality(RowsOf(stage)') /\ Cardinality(Open') <= AtOnce(stage')
  <2>1. stage' \in Stages => stage' = 1
    BY <1>2, StagesAre
  <2> QED
    BY <1>1, <2>1, BeforeIs, StagesAre, FS_EmptySet DEF RowsOf
<1>4. ReportInv'
  <2>1. CASE UNCHANGED report
    <3>1. report # NoReport => report.outcome \notin {"ok", "requests_failed"}
      BY StagesAre DEF LoadInv, ReportInv, CheckHealth, BeforeHealth
    <3> QED
      BY <1>1, <2>1, <3>1 DEF LoadInv, ReportInv
  <2>2. CASE report' = [outcome |-> "readiness_failed", counts |-> FinalCounts(<<>>)]
    <3>1. Adds(FinalCounts(<<>>))
      <4>1. <<>> \in Seq(Row)
        OBVIOUS
      <4> QED
        BY <4>1, FinalCountsAdd
    <3> QED
      BY <2>2, <3>1 DEF ReportInv
  <2> QED
    BY <2>1, <2>2 DEF CheckHealth
<1> QED
  BY <1>1, <1>2, <1>3, <1>4 DEF LoadInv, RowOK

LEMMA SendKeeps == LoadInv /\ Send => LoadInv'
<1> SUFFICES ASSUME LoadInv, Send PROVE LoadInv'
  OBVIOUS
<1> DEFINE row == [stage |-> stage, state |-> "in_flight", success |-> FALSE, lost |-> FALSE]
           n == Len(records) + 1
<1>1. /\ stage \in Stages /\ stage' = stage /\ leaving' = leaving /\ row \in Row
      /\ records \in Seq(Row) /\ records' = Append(records, row) /\ stage # Done /\ stage # BeforeHealth
      /\ Cardinality(Open) < AtOnce(stage)
  BY StagesAre DEF LoadInv, Send, Row, BeforeHealth, Open
<1>2. /\ records' \in Seq(Row) /\ Len(records') = n /\ DOMAIN records' = DOMAIN records \union {n}
      /\ n \notin DOMAIN records /\ records'[n] = row /\ \A i \in DOMAIN records : records'[i] = records[i]
  <2> HIDE DEF row
  <2> QED
    BY <1>1
<1>3. row.stage = stage /\ row.state = "in_flight" /\ row.success = FALSE /\ row.lost = FALSE
  OBVIOUS
<1> HIDE DEF row, n
<1>4. \A i \in DOMAIN records' : RowOK(records'[i], stage', leaving')
  <2>1. RowOK(row, stage', leaving')
    BY <1>1, <1>3, StagesAre DEF RowOK
  <2>2. ASSUME NEW i \in DOMAIN records PROVE RowOK(records[i], stage', leaving')
    BY <1>1 DEF LoadInv, RowOK
  <2> QED
    BY <1>2, <2>1, <2>2
<1>5. RowsOf(stage)' = RowsOf(stage) \union {n} /\ Open' = Open \union {n}
  BY <1>1, <1>2, <1>3 DEF RowsOf, Open, InFlight
<1>6. Cardinality(RowsOf(stage)') = Cardinality(RowsOf(stage)) + 1 /\ Cardinality(Open') = Cardinality(Open) + 1
      /\ Cardinality(RowsOf(stage)) \in Nat /\ Cardinality(Open) \in Nat
  <2>1. RowsOf(stage) \in SUBSET (DOMAIN records) /\ Open \in SUBSET (DOMAIN records)
    BY DEF RowsOf, Open, InFlight
  <2>2. IsFiniteSet(RowsOf(stage)) /\ IsFiniteSet(Open)
        /\ Cardinality(RowsOf(stage)) \in Nat /\ Cardinality(Open) \in Nat
    BY <1>1, <2>1, IndicesFinite
  <2>3. n \notin RowsOf(stage) /\ n \notin Open
    BY <1>2, <2>1
  <2> QED
    BY <1>5, <2>2, <2>3, FS_AddElement
<1>7. ReportInv'
  <2>1. \A i \in DOMAIN records' : records'[i].success => records'[i].state = "completed"
    BY <1>4 DEF RowOK
  <2>2. report' = [outcome |-> "in_progress", counts |-> Counts(records')]
    BY DEF Send, SaveProgress
  <2> QED
    BY <1>2, <2>1, <2>2, CountsAdd DEF ReportInv
<1>8. Len(records) = Before(stage) + Cardinality(RowsOf(stage)) /\ Len(records) \in Nat /\ Before(stage) \in Int
  <2>1. Before(stage) \in Int
    BY <1>1, StagesAre, LoadAssumption DEF Before
  <2> QED
    BY <1>1, <2>1 DEF LoadInv
<1>9. Len(records') = Before(stage) + Cardinality(RowsOf(stage)')
  BY <1>2, <1>6, <1>8 DEF n
<1>10. Cardinality(Open') <= AtOnce(stage')
  BY <1>1, <1>6, StagesAre
<1>11. stage' \in 0 .. Done /\ leaving' \in BOOLEAN
  BY <1>1 DEF LoadInv
<1>12. Before(stage') = Before(stage)
  BY <1>1
<1> QED
  BY <1>1, <1>2, <1>4, <1>7, <1>9, <1>10, <1>11, <1>12 DEF LoadInv

\* A row that was under way settles, or is lost, and the rest stays.
LEMMA RowSettles ==
    ASSUME LoadInv, stage # Done, NEW i \in InFlight, ~records[i].lost, NEW row \in Row,
           records' = [records EXCEPT ![i] = row], stage' = stage, leaving' \in BOOLEAN, leaving => leaving',
           row.stage = records[i].stage, row.state = "completed" \/ row.lost,
           RowOK(row, stage, leaving'), ReportInv'
    PROVE  LoadInv'
<1>1. /\ records \in Seq(Row) /\ i \in DOMAIN records /\ stage \in Stages /\ stage # BeforeHealth
      /\ stage' \in 0 .. Done
  BY StagesAre DEF LoadInv, InFlight, BeforeHealth
<1>2. /\ records' \in Seq(Row) /\ Len(records') = Len(records) /\ DOMAIN records' = DOMAIN records
      /\ records'[i] = row /\ \A j \in DOMAIN records : j # i => records'[j] = records[j]
  BY <1>1
<1>3. \A j \in DOMAIN records' : RowOK(records'[j], stage', leaving')
  <2>1. ASSUME NEW j \in DOMAIN records PROVE RowOK(records[j], stage', leaving')
    BY DEF LoadInv, RowOK
  <2> QED
    BY <1>2, <2>1
<1>4. RowsOf(stage)' = RowsOf(stage)
  BY <1>2 DEF RowsOf
<1>5. Open' \subseteq Open
  BY <1>2 DEF Open, InFlight
<1>6. Cardinality(Open') <= AtOnce(stage')
  <2>1. Open \in SUBSET (DOMAIN records)
    BY DEF Open, InFlight
  <2>2. IsFiniteSet(Open) /\ Cardinality(Open) \in Nat
    BY <1>1, <2>1, IndicesFinite
  <2>3. Cardinality(Open') \in Nat /\ Cardinality(Open') <= Cardinality(Open)
    BY <1>5, <2>2, FS_Subset, FS_CardinalityType
  <2>4. Cardinality(Open) <= AtOnce(stage) /\ AtOnce(stage) \in Nat
    BY <1>1, StagesAre DEF LoadInv
  <2> QED
    BY <2>2, <2>3, <2>4
<1>7. Len(records') = Before(stage') + Cardinality(RowsOf(stage)')
  BY <1>1, <1>2, <1>4 DEF LoadInv
<1> QED
  BY <1>1, <1>2, <1>3, <1>6, <1>7 DEF LoadInv

\* What is saved while a load runs.
LEMMA ProgressIsTold ==
    ASSUME NEW rows \in Seq(Row), records' = rows, report' = [outcome |-> "in_progress", counts |-> Counts(rows)],
           \A i \in DOMAIN rows : rows[i].success => rows[i].state = "completed"
    PROVE  ReportInv'
BY CountsAdd DEF ReportInv

LEMMA ReceiveKeeps ==
    ASSUME LoadInv, stage # Done, NEW i \in InFlight, NEW reply, Receive(i, reply)
    PROVE  LoadInv'
<1>1. /\ records \in Seq(Row) /\ i \in DOMAIN records /\ records[i] \in Row /\ stage' = stage
      /\ ~records[i].lost /\ RowOK(records[i], stage, leaving) /\ records[i].state = "in_flight"
      /\ \A j \in DOMAIN records : records[j].success => records[j].state = "completed"
  BY DEF LoadInv, InFlight, Receive, RowOK
<1>2. CASE Attempt(reply) = "raises"
  <2> DEFINE row == [records[i] EXCEPT !.lost = TRUE]
  <2>1. row \in Row /\ row.stage = records[i].stage /\ row.lost /\ row.success = records[i].success
        /\ row.state = "in_flight"
    BY <1>1 DEF Row
  <2>2. records' = [records EXCEPT ![i] = row] /\ leaving' = TRUE /\ UNCHANGED report
    BY <1>1, <1>2 DEF Receive
  <2> HIDE DEF row
  <2>3. RowOK(row, stage, leaving')
    BY <1>1, <2>1, <2>2 DEF RowOK
  <2>4. /\ records' \in Seq(Row) /\ Len(records') = Len(records) /\ DOMAIN records' = DOMAIN records
        /\ Succeeded(records') = Succeeded(records)
    BY <1>1, <2>1, <2>2 DEF Succeeded
  <2>5. ReportInv'
    BY <1>1, <2>2, <2>4 DEF LoadInv, ReportInv
  <2> QED
    BY <1>1, <2>1, <2>2, <2>3, <2>5, RowSettles
<1>3. CASE Attempt(reply) # "raises"
  <2> DEFINE ok == Attempt(reply) = "success"
             row == [records[i] EXCEPT !.state = "completed", !.success = ok]
  <2>1. row \in Row /\ row.stage = records[i].stage /\ row.state = "completed" /\ ~row.lost
    BY <1>1 DEF Row
  <2>2. records' = [records EXCEPT ![i] = row] /\ leaving' = leaving
        /\ report' = [outcome |-> "in_progress", counts |-> Counts(records')]
    BY <1>1, <1>3 DEF Receive, SaveProgress
  <2> HIDE DEF row, ok
  <2>3. RowOK(row, stage, leaving')
    BY <1>1, <2>1, <2>2 DEF RowOK
  <2>4. records' \in Seq(Row) /\ \A j \in DOMAIN records' : records'[j].success => records'[j].state = "completed"
    BY <1>1, <2>1, <2>2
  <2>5. ReportInv'
    BY <2>2, <2>4, ProgressIsTold
  <2>6. leaving' \in BOOLEAN
    BY <2>2 DEF LoadInv
  <2> QED
    BY <1>1, <2>1, <2>2, <2>3, <2>5, <2>6, RowSettles
<1> QED
  BY <1>2, <1>3

LEMMA CancelKeeps == ASSUME LoadInv, stage # Done, NEW i \in InFlight, Cancel(i) PROVE LoadInv'
<1> DEFINE row == [records[i] EXCEPT !.state = "completed"]
<1>1. /\ records \in Seq(Row) /\ i \in DOMAIN records /\ records[i] \in Row /\ stage' = stage /\ leaving' = leaving
      /\ ~records[i].lost /\ RowOK(records[i], stage, leaving) /\ leaving \in BOOLEAN
      /\ \A j \in DOMAIN records : records[j].success => records[j].state = "completed"
  BY DEF LoadInv, InFlight, Cancel, RowOK
<1>2. row \in Row /\ row.stage = records[i].stage /\ row.state = "completed" /\ ~row.lost
  BY <1>1 DEF Row
<1>3. records' = [records EXCEPT ![i] = row]
      /\ report' = [outcome |-> "in_progress", counts |-> Counts(records')]
  BY <1>1 DEF Cancel, SaveProgress
<1> HIDE DEF row
<1>4. RowOK(row, stage, leaving')
  BY <1>1, <1>2 DEF RowOK
<1>5. records' \in Seq(Row) /\ \A j \in DOMAIN records' : records'[j].success => records'[j].state = "completed"
  BY <1>1, <1>2, <1>3
<1>6. ReportInv'
  BY <1>3, <1>5, ProgressIsTold
<1> QED
  BY <1>1, <1>2, <1>3, <1>4, <1>6, RowSettles

\* An interrupt, a kill, and the end of a run that was interrupted.
LEMMA EndingKeeps ==
    ASSUME LoadInv, UNCHANGED <<records, report>>, stage' \in {stage, Done}, leaving' \in BOOLEAN,
           leaving => leaving', stage # Done
    PROVE  LoadInv'
<1>1. Done \notin Stages /\ Done # BeforeHealth /\ Done \in 0 .. Done
  BY StagesAre DEF BeforeHealth
<1>2. \A i \in DOMAIN records : RowOK(records[i], stage', leaving')
  BY DEF LoadInv, RowOK
<1>3. ReportInv'
  BY DEF LoadInv, ReportInv
<1>4. stage' = stage => RowsOf(stage)' = RowsOf(stage) /\ Open' = Open
  BY DEF RowsOf, Open, InFlight
<1> QED
  BY <1>1, <1>2, <1>3, <1>4 DEF LoadInv

LEMMA AdvanceKeeps == LoadInv /\ Advance => LoadInv'
<1> SUFFICES ASSUME LoadInv, Advance PROVE LoadInv'
  OBVIOUS
<1>1. /\ records' = records /\ leaving' = leaving /\ stage \in Stages /\ stage' = stage + 1
      /\ stage # BeforeHealth /\ stage' # BeforeHealth /\ stage # Done
  BY StagesAre DEF Advance, BeforeHealth
<1>2. records \in Seq(Row) /\ InFlight = {} /\ Len(records) = Before(stage') /\ stage' \in 0 .. Done
  <2>1. Len(records) = Before(stage) + PlannedOf(stage) /\ InFlight = {} /\ records \in Seq(Row)
    BY <1>1 DEF LoadInv, Advance, Begun
  <2> QED
    BY <1>1, <2>1, BeforeIs, StagesAre
<1>3. \A i \in DOMAIN records : records[i] \in Row /\ RowOK(records[i], stage, leaving) /\ records[i].state = "completed"
  <2> SUFFICES ASSUME NEW i \in DOMAIN records
               PROVE  records[i] \in Row /\ RowOK(records[i], stage, leaving) /\ records[i].state = "completed"
    OBVIOUS
  <2>1. records[i] \in Row /\ RowOK(records[i], stage, leaving)
    BY <1>2 DEF LoadInv
  <2>2. records[i].state # "in_flight"
    BY <1>2 DEF InFlight
  <2> QED
    BY <2>1, <2>2 DEF Row
<1>4. \A i \in DOMAIN records : records[i].stage <= stage /\ records[i].stage \in Nat /\ records[i].lost = FALSE
  BY <1>1, <1>3, StagesAre DEF RowOK, Row
<1>5. \A i \in DOMAIN records' : RowOK(records'[i], stage', leaving')
  BY <1>1, <1>3, <1>4, StagesAre DEF RowOK
<1>6. RowsOf(stage)' = {} /\ Open' = {}
  BY <1>1, <1>3, <1>4, StagesAre DEF RowsOf, Open, InFlight
<1>7. stage' \in Stages => Len(records') = Before(stage') + Cardinality(RowsOf(stage)') /\ Cardinality(Open') <= AtOnce(stage')
  <2>1. Len(records) \in Nat /\ Cardinality({}) = 0
    BY <1>2, FS_EmptySet
  <2>2. Cardinality(RowsOf(stage)') = 0 /\ Cardinality(Open') = 0
    BY <1>6, <2>1, Zenon
  <2> QED
    BY <1>1, <1>2, <2>1, <2>2, StagesAre
<1>8. ReportInv'
  <2>1. CASE stage + 1 \in Stages
    BY <1>1, <2>1 DEF LoadInv, ReportInv, Advance
  <2>2. CASE stage + 1 \notin Stages
    <3>1. stage' = Done /\ report' = [outcome |-> IF FinalCounts(records).failed = 0 THEN "ok" ELSE "requests_failed",
                                      counts |-> FinalCounts(records)]
      BY <2>2 DEF Advance, SaveFinal
    <3>2. Len(records) = Planned
      BY <1>2, <3>1, BeforeIs
    <3> QED
      BY <1>1, <1>2, <1>3, <3>1, <3>2, FinalCountsAdd DEF ReportInv
  <2> QED
    BY <2>1, <2>2
<1>9. leaving' \in BOOLEAN
  BY <1>1 DEF LoadInv
<1> QED
  BY <1>1, <1>2, <1>5, <1>7, <1>8, <1>9 DEF LoadInv

LEMMA LoadStep == LoadInv /\ [LoadNext]_loadVars => LoadInv'
<1> SUFFICES ASSUME LoadInv, [LoadNext]_loadVars PROVE LoadInv'
  OBVIOUS
<1>1. CASE CheckHealth
  BY <1>1, CheckHealthKeeps
<1>2. CASE Send
  BY <1>2, SendKeeps
<1>3. ASSUME stage # Done, Interrupt \/ Leave \/ KillLoad PROVE LoadInv'
  <2>1. leaving \in BOOLEAN
    BY DEF LoadInv
  <2>2. UNCHANGED <<records, report>> /\ stage' \in {stage, Done}
    BY <1>3 DEF Interrupt, Leave, KillLoad
  <2>3. leaving' = TRUE \/ leaving' = leaving
    BY <1>3 DEF Interrupt, Leave, KillLoad
  <2>4. leaving' \in BOOLEAN /\ (leaving => leaving')
    BY <2>1, <2>3
  <2> QED
    BY <1>3, <2>2, <2>4, EndingKeeps
<1>4. CASE Advance
  BY <1>4, AdvanceKeeps
<1>5. ASSUME stage # Done, NEW i \in InFlight, Cancel(i) PROVE LoadInv'
  BY <1>5, CancelKeeps
<1>6. ASSUME stage # Done, NEW i \in InFlight, NEW reply \in Replies, Receive(i, reply) PROVE LoadInv'
  BY <1>6, ReceiveKeeps
<1>7. CASE UNCHANGED loadVars
  BY <1>7 DEF loadVars, LoadInv, RowsOf, Open, InFlight, ReportInv
<1> QED
  BY <1>1, <1>2, <1>3, <1>4, <1>5, <1>6, <1>7 DEF LoadNext

LEMMA LoadTells == LoadInv => LoadReportTellsTheRun
<1> SUFFICES ASSUME LoadInv PROVE LoadReportTellsTheRun
  OBVIOUS
<1>1. RowsWhere(records, LAMBDA r : r.success) = Cardinality(Succeeded(records))
  BY DEF RowsWhere, Succeeded
<1>2. \A i \in InFlight : ~records[i].lost /\ stage # Done => records[i].stage = stage
  BY DEF LoadInv, RowOK, InFlight
<1>3. stage \in Stages => Cardinality({i \in InFlight : ~records[i].lost}) <= AtOnce(stage)
  BY DEF LoadInv, Open
<1>4. ReportInv
  BY DEF LoadInv
<1> QED
  BY <1>1, <1>2, <1>3, <1>4 DEF LoadReportTellsTheRun, ReportInv, Adds
----------------------------------------------------------------------------
(* The external datasets: what is on the disk, what a matrix is named after, *)
(* and what a run has read and scored so far.                                *)

Zips == {"pinned", "other", NoFile}

Docs == [of : Datasets, from : {"pinned"}, whole : BOOLEAN]

Matrix == [of : Docs, by : Revisions]

Models == [revision : Revisions, named : BOOLEAN]

Ways == [pc : {"verify", "extract", "identify", "load"}, dataset : Datasets]

MayRead == Docs \union {NoFile}

DiskInv ==
    disk \in [Datasets -> [zip : Zips, docs : MayRead, identity : Zips]]
    /\ \A d \in Datasets : disk[d].docs # NoFile => disk[d].docs.of = d

MatricesInv ==
    \A docs \in Docs, revision \in Revisions \union {NoFile} :
        <<docs, revision>> \in DOMAIN matrices =>
            LET m == matrices[<<docs, revision>>]
            IN m = Torn \/ (m \in Matrix /\ m.of = docs /\ (revision # NoFile => m.by = revision))

\* What a run scores with is of its documents, and by the model it names.
Fits(m, docs, by) == m \in Matrix /\ m.of = docs /\ by \in Models /\ (by.named => m.by = by.revision)

Scored(b) ==
    /\ b.docs \in Docs /\ b.docs.of = b.dataset
    /\ b.left \in Seq(ToSet(BeirConfigs)) /\ DOMAIN b.rows \union ToSet(b.left) = ToSet(BeirConfigs)
    /\ b.matrix # NoFile => Fits(b.matrix, b.docs, b.by)
    /\ \A c \in Embeds \intersect DOMAIN b.rows : b.rows[c] = b.matrix /\ b.matrix # NoFile
    /\ b.pc = "save" => Fits(b.matrix, b.docs, b.by) /\ b.matrix.by = b.by.revision

Fields(b) ==
    b = [pc |-> b.pc, dataset |-> b.dataset, docs |-> b.docs, left |-> b.left,
         by |-> b.by, matrix |-> b.matrix, rows |-> b.rows]

RunInv ==
    \/ beir = Idle
    \/ /\ beir \in Ways
       /\ beir.pc = "extract" => Here.zip = "pinned"
       /\ beir.pc \in {"identify", "load"} => Here.docs \in Docs /\ Here.docs.of = beir.dataset
    \/ beir.pc \in {"build", "save"} /\ beir.dataset \in Datasets /\ Fields(beir) /\ Scored(beir)

BeirInv ==
    DiskInv /\ MatricesInv /\ model \in Models /\ RunInv /\ BeirReportTellsItsSource

LEMMA PutIs ==
    ASSUME NEW f, NEW k, NEW v
    PROVE  /\ DOMAIN Put(f, k, v) = DOMAIN f \union {k} /\ Put(f, k, v)[k] = v
           /\ \A x \in DOMAIN f : x # k => Put(f, k, v)[x] = f[x]
BY DEF Put

LEMMA BeirStart == BeirInit => BeirInv
BY DEF BeirInit, BeirInv, DiskInv, MatricesInv, RunInv, BeirReportTellsItsSource, Zips, MayRead, Models, Idle

LEMMA FetchKeeps == ASSUME BeirInv, NEW d \in Datasets, NEW archived \in {"pinned", "other"}, Fetch(d, archived) PROVE BeirInv'
<1>1. UNCHANGED <<matrices, model, beirOut>> /\ beir' \in Ways /\ beir'.pc = "verify"
  BY DEF Fetch, Ways
<1>2. DiskInv'
  BY DEF BeirInv, DiskInv, Fetch, Zips
<1> QED
  BY <1>1, <1>2 DEF BeirInv, MatricesInv, RunInv, BeirReportTellsItsSource

LEMMA VerifyKeeps == BeirInv /\ Verify => BeirInv'
<1> SUFFICES ASSUME BeirInv, Verify PROVE BeirInv'
  OBVIOUS
<1>1. UNCHANGED <<disk, matrices, model, beirOut>> /\ beir.pc = "verify" /\ beir \in Ways
  BY DEF BeirInv, RunInv, Verify, Idle, Fields
<1>2. CASE beir' = Idle
  BY <1>1, <1>2 DEF BeirInv, DiskInv, MatricesInv, RunInv, BeirReportTellsItsSource
<1>3. CASE beir' # Idle
  <2>1. Accept /\ Goto(IF Here.docs = NoFile THEN "extract" ELSE "identify")
    BY <1>1, <1>3 DEF Verify
  <2>2. beir' \in Ways /\ beir'.dataset = beir.dataset
        /\ beir'.pc = IF Here.docs = NoFile THEN "extract" ELSE "identify"
    BY <1>1, <2>1 DEF Goto, Ways
  <2>3. Here' = Here /\ Here.zip = "pinned" /\ (Here.docs # NoFile => Here.docs \in Docs /\ Here.docs.of = beir.dataset)
    BY <1>1, <2>1, <2>2 DEF Here, Accept, BeirInv, DiskInv, Ways, MayRead
  <2>4. RunInv'
    BY <2>2, <2>3 DEF RunInv
  <2> QED
    BY <1>1, <2>4 DEF BeirInv, DiskInv, MatricesInv, BeirReportTellsItsSource
<1> QED
  BY <1>2, <1>3

LEMMA ExtractKeeps == ASSUME BeirInv, NEW whole \in BOOLEAN, Extract(whole) PROVE BeirInv'
<1>1. UNCHANGED <<matrices, model, beirOut>> /\ beir.pc = "extract" /\ beir \in Ways /\ Here.zip = "pinned"
  BY DEF BeirInv, RunInv, Extract, Idle, Fields
<1> DEFINE d == beir.dataset
           docs == [of |-> d, from |-> "pinned", whole |-> whole]
<1>2. d \in Datasets /\ docs \in Docs /\ docs.of = d
  BY <1>1 DEF Ways, Docs
<1>3. disk' = [disk EXCEPT ![d].docs = docs]
  BY <1>1 DEF Extract
<1> HIDE DEF d, docs
<1>4. DiskInv' /\ disk'[d].docs = docs
  BY <1>2, <1>3 DEF BeirInv, DiskInv, MayRead
<1>5. RunInv'
  <2>1. CASE whole
    <3>1. beir' \in Ways /\ beir'.dataset = d /\ beir'.pc = "identify"
      BY <1>1, <2>1 DEF Extract, Goto, Ways, d
    <3> QED
      BY <1>2, <1>4, <3>1 DEF RunInv, Here
  <2>2. CASE ~whole
    BY <2>2 DEF Extract, RunInv
  <2> QED
    BY <2>1, <2>2
<1> QED
  BY <1>1, <1>4, <1>5 DEF BeirInv, MatricesInv, BeirReportTellsItsSource

LEMMA IdentifyKeeps == BeirInv /\ Identify => BeirInv'
<1> SUFFICES ASSUME BeirInv, Identify PROVE BeirInv'
  OBVIOUS
<1> DEFINE d == beir.dataset
<1>1. UNCHANGED <<matrices, model, beirOut>> /\ beir.pc = "identify" /\ beir \in Ways
      /\ Here.docs \in Docs /\ Here.docs.of = beir.dataset
  BY DEF BeirInv, RunInv, Identify, Idle, Fields
<1>2. d \in Datasets /\ beir' \in Ways /\ beir'.dataset = d /\ beir'.pc = "load"
  BY <1>1 DEF Ways, Identify, Goto
<1>3. DiskInv' /\ disk'[d].docs = disk[d].docs
  BY <1>2 DEF BeirInv, DiskInv, Identify, Here
<1>4. RunInv'
  BY <1>1, <1>2, <1>3 DEF RunInv, Here
<1> QED
  BY <1>1, <1>3, <1>4 DEF BeirInv, MatricesInv, BeirReportTellsItsSource

LEMMA LoadBeirKeeps == ASSUME BeirInv, NEW read \in BOOLEAN, LoadBeir(read) PROVE BeirInv'
<1>1. UNCHANGED <<disk, matrices, model, beirOut>> /\ beir.pc = "load" /\ beir \in Ways
      /\ Here.docs \in Docs /\ Here.docs.of = beir.dataset
  BY DEF BeirInv, RunInv, LoadBeir, Idle, Fields
<1>2. CASE ~read
  BY <1>1, <1>2 DEF LoadBeir, BeirInv, DiskInv, MatricesInv, RunInv, BeirReportTellsItsSource
<1>3. CASE read
  <2> DEFINE d == beir.dataset
             b == [pc |-> "build", dataset |-> d, docs |-> Here.docs,
                   left |-> BeirConfigs, by |-> NoFile, matrix |-> NoFile, rows |-> <<>>]
  <2>1. beir' = b
    BY <1>3 DEF LoadBeir
  <2>2. d \in Datasets /\ Here.docs.of = d
    BY <1>1 DEF Ways
  <2>3. b.pc = "build" /\ b.dataset = d /\ b.docs = Here.docs /\ b.left = BeirConfigs /\ b.matrix = NoFile /\ b.rows = <<>>
    OBVIOUS
  <2>4. Fields(b)
    BY DEF Fields
  <2>5. BeirConfigs \in Seq(ToSet(BeirConfigs)) /\ DOMAIN <<>> = {}
    BY BenchAssumption
  <2> HIDE DEF b, d
  <2>6. Scored(b)
    BY <1>1, <2>2, <2>3, <2>5 DEF Scored
  <2> QED
    BY <1>1, <2>1, <2>2, <2>3, <2>4, <2>6 DEF BeirInv, DiskInv, MatricesInv, RunInv, BeirReportTellsItsSource
<1> QED
  BY <1>2, <1>3

\* A run that scores, and what it may become: all but pc, left, by, matrix and
\* rows stays.
LEMMA ScoringIs ==
    ASSUME BeirInv, beir.pc \in {"build", "save"}
    PROVE  beir.dataset \in Datasets /\ Fields(beir) /\ Scored(beir)
BY DEF BeirInv, RunInv, Ways, Idle

LEMMA DocMatrixKeeps == BeirInv /\ DocMatrix => BeirInv'
<1> SUFFICES ASSUME BeirInv, DocMatrix PROVE BeirInv'
  OBVIOUS
<1>1. UNCHANGED <<disk, matrices, model, beirOut>> /\ beir.pc = "build" /\ beir.matrix = NoFile /\ model \in Models
  BY DEF DocMatrix, Wants, BeirInv
<1>2. beir.dataset \in Datasets /\ Fields(beir) /\ Scored(beir)
  BY <1>1, ScoringIs
<1> DEFINE revision == IF model.named THEN model.revision ELSE NoFile
           name == <<beir.docs, revision>>
           Cached == name \in DOMAIN matrices
           by == [revision |-> model.revision, named |-> model.named]
           matrix == IF Cached THEN matrices[name] ELSE [of |-> beir.docs, by |-> model.revision]
           b == [pc |-> IF Cached THEN "build" ELSE "save", dataset |-> beir.dataset, docs |-> beir.docs,
                 left |-> beir.left, by |-> by, matrix |-> matrix, rows |-> beir.rows]
<1>3. beir' = Idle \/ (beir' = b /\ ~(Cached /\ matrices[name] = Torn))
  BY <1>2 DEF DocMatrix, MatrixName, Fields
<1>4. CASE beir' = Idle
  BY <1>1, <1>4 DEF BeirInv, DiskInv, MatricesInv, RunInv, BeirReportTellsItsSource
<1>5. CASE beir' = b /\ ~(Cached /\ matrices[name] = Torn)
  <2>1. by = model /\ by \in Models /\ by.revision \in Revisions /\ revision \in Revisions \union {NoFile}
        /\ (by.named => revision = by.revision /\ revision # NoFile) /\ beir.docs \in Docs
    BY <1>1, <1>2, BenchAssumption DEF Models, Scored
  <2>2. Fits(matrix, beir.docs, by) /\ (~Cached => matrix.by = by.revision)
    <3>1. CASE Cached
      <4>1. matrices[name] \in Matrix /\ matrices[name].of = beir.docs
            /\ (revision # NoFile => matrices[name].by = revision)
        BY <1>5, <2>1, <3>1 DEF BeirInv, MatricesInv
      <4> HIDE DEF by, revision, name
      <4> QED
        BY <2>1, <3>1, <4>1 DEF Fits
    <3>2. CASE ~Cached
      <4> HIDE DEF Cached, revision, name
      <4> QED
        BY <2>1, <3>2 DEF Fits, Matrix
    <3> QED
      BY <3>1, <3>2
  <2>3. b.pc = (IF Cached THEN "build" ELSE "save") /\ b.dataset = beir.dataset /\ b.docs = beir.docs
        /\ b.left = beir.left /\ b.by = by /\ b.matrix = matrix /\ b.rows = beir.rows
    OBVIOUS
  <2>4. Fields(b)
    BY DEF Fields
  <2> HIDE DEF b, by, matrix, Cached, revision, name
  <2>5. Scored(b)
    BY <1>1, <1>2, <2>2, <2>3 DEF Scored
  <2> QED
    BY <1>1, <1>2, <1>5, <2>3, <2>4, <2>5 DEF BeirInv, DiskInv, MatricesInv, RunInv, BeirReportTellsItsSource
<1> QED
  BY <1>3, <1>4, <1>5

LEMMA SaveMatrixKeeps == ASSUME BeirInv, NEW whole \in BOOLEAN, SaveMatrix(whole) PROVE BeirInv'
<1>1. UNCHANGED <<disk, model, beirOut>> /\ beir.pc = "save"
  BY DEF SaveMatrix
<1>2. beir.dataset \in Datasets /\ Fields(beir) /\ Scored(beir)
  BY <1>1, ScoringIs
<1>3. Fits(beir.matrix, beir.docs, beir.by) /\ beir.matrix.by = beir.by.revision
  BY <1>1, <1>2 DEF Scored
<1> DEFINE revision == IF beir.by.named THEN beir.by.revision ELSE NoFile
           m == IF whole THEN beir.matrix ELSE Torn
<1>4. matrices' = Put(matrices, <<beir.docs, revision>>, m)
  BY DEF SaveMatrix, MatrixName
<1>5. m = Torn \/ (m \in Matrix /\ m.of = beir.docs /\ (revision # NoFile => m.by = revision))
  BY <1>3 DEF Fits
<1> HIDE DEF revision, m
<1>6. MatricesInv'
  <2> SUFFICES ASSUME NEW docs \in Docs, NEW r \in Revisions \union {NoFile}, <<docs, r>> \in DOMAIN matrices'
               PROVE  \/ matrices'[<<docs, r>>] = Torn
                      \/ /\ matrices'[<<docs, r>>] \in Matrix /\ matrices'[<<docs, r>>].of = docs
                         /\ r # NoFile => matrices'[<<docs, r>>].by = r
    BY DEF MatricesInv
  <2> DEFINE name == <<beir.docs, revision>>
             other == <<docs, r>>
  <2>2. other = name => docs = beir.docs /\ r = revision
    OBVIOUS
  <2>3. /\ DOMAIN matrices' = DOMAIN matrices \union {name} /\ matrices'[name] = m
        /\ \A x \in DOMAIN matrices : x # name => matrices'[x] = matrices[x]
    <3>1. matrices' = Put(matrices, name, m)
      BY <1>4
    <3> HIDE DEF name
    <3> QED
      BY <3>1 DEF Put
  <2>4. CASE other = name
    BY <1>5, <2>2, <2>3, <2>4, Zenon
  <2>5. CASE other # name
    <3>1. other \in DOMAIN matrices /\ matrices'[other] = matrices[other]
      <4>1. other \in DOMAIN matrices'
        OBVIOUS
      <4> HIDE DEF name, other
      <4> QED
        BY <2>3, <2>5, <4>1
    <3> QED
      BY <3>1 DEF BeirInv, MatricesInv
  <2> QED
    BY <2>4, <2>5
<1>7. RunInv'
  <2>1. CASE whole
    <3>1. beir' = [pc |-> "build", dataset |-> beir.dataset, docs |-> beir.docs, left |-> beir.left,
                   by |-> beir.by, matrix |-> beir.matrix, rows |-> beir.rows]
      BY <1>2, <2>1 DEF SaveMatrix, Goto, Fields
    <3>2. beir'.pc = "build" /\ beir'.dataset = beir.dataset /\ beir'.docs = beir.docs /\ beir'.left = beir.left
          /\ beir'.by = beir.by /\ beir'.matrix = beir.matrix /\ beir'.rows = beir.rows
      BY <3>1
    <3> QED
      BY <1>2, <3>1, <3>2 DEF RunInv, Fields, Scored
  <2>2. CASE ~whole
    BY <2>2 DEF SaveMatrix, RunInv
  <2> QED
    BY <2>1, <2>2
<1> QED
  BY <1>1, <1>6, <1>7 DEF BeirInv, DiskInv, BeirReportTellsItsSource

LEMMA HeadAndTail ==
    ASSUME NEW S, NEW s \in Seq(S), s # <<>>
    PROVE  Tail(s) \in Seq(S) /\ ToSet(s) = ToSet(Tail(s)) \union {Head(s)}
<1>1. Len(s) \in Nat /\ Len(s) >= 1 /\ DOMAIN s = 1 .. Len(s)
  OBVIOUS
<1>2. Tail(s) \in Seq(S) /\ DOMAIN Tail(s) = 1 .. Len(s) - 1 /\ \A i \in 1 .. Len(s) - 1 : Tail(s)[i] = s[i + 1]
  BY <1>1
<1>3. ASSUME NEW i \in DOMAIN s PROVE s[i] \in ToSet(Tail(s)) \union {Head(s)}
  <2>1. CASE i = 1
    BY <2>1
  <2>2. CASE i # 1
    <3>1. i - 1 \in DOMAIN Tail(s) /\ Tail(s)[i - 1] = s[i]
      BY <1>1, <1>2, <2>2
    <3> QED
      BY <3>1 DEF ToSet
  <2> QED
    BY <2>1, <2>2
<1>4. ASSUME NEW i \in DOMAIN Tail(s) PROVE Tail(s)[i] \in ToSet(s)
  <2>1. i + 1 \in DOMAIN s /\ Tail(s)[i] = s[i + 1]
    BY <1>1, <1>2
  <2> QED
    BY <2>1 DEF ToSet
<1>5. Head(s) \in ToSet(s)
  <2>1. 1 \in DOMAIN s /\ Head(s) = s[1]
    BY <1>1
  <2> QED
    BY <2>1 DEF ToSet
<1> QED
  BY <1>2, <1>3, <1>4, <1>5 DEF ToSet

LEMMA RunConfigKeeps == ASSUME BeirInv, NEW loaded \in BOOLEAN, RunConfig(loaded) PROVE BeirInv'
<1> DEFINE c == Head(beir.left)
           v == IF c \in Embeds THEN beir.matrix ELSE NoFile
<1>1. UNCHANGED <<disk, matrices, model, beirOut>> /\ beir.pc = "build" /\ beir.left # <<>> /\ ~Wants(c)
  BY DEF RunConfig
<1>2. beir.dataset \in Datasets /\ Fields(beir) /\ Scored(beir)
  BY <1>1, ScoringIs
<1>3. beir' = Idle \/ beir' = [beir EXCEPT !.left = Tail(@), !.rows = Put(@, c, v)]
  BY DEF RunConfig
<1>4. CASE beir' = Idle
  BY <1>1, <1>4 DEF BeirInv, DiskInv, MatricesInv, RunInv, BeirReportTellsItsSource
<1>5. CASE beir' = [beir EXCEPT !.left = Tail(@), !.rows = Put(@, c, v)]
  <2>1. beir' = [pc |-> "build", dataset |-> beir.dataset, docs |-> beir.docs, left |-> Tail(beir.left),
                 by |-> beir.by, matrix |-> beir.matrix, rows |-> Put(beir.rows, c, v)]
    BY <1>1, <1>2, <1>5 DEF Fields
  <2> HIDE DEF v
  <2>2. beir'.pc = "build" /\ beir'.dataset = beir.dataset /\ beir'.docs = beir.docs /\ beir'.left = Tail(beir.left)
        /\ beir'.by = beir.by /\ beir'.matrix = beir.matrix /\ beir'.rows = Put(beir.rows, c, v)
    BY <2>1
  <2>3. beir.left \in Seq(ToSet(BeirConfigs)) /\ Tail(beir.left) \in Seq(ToSet(BeirConfigs))
        /\ ToSet(beir.left) = ToSet(Tail(beir.left)) \union {c}
    <3>1. beir.left \in Seq(ToSet(BeirConfigs)) /\ beir.left # <<>>
      BY <1>1, <1>2 DEF Scored
    <3> HIDE DEF c
    <3> QED
      BY <3>1, HeadAndTail DEF c
  <2>4. \A e \in Embeds \intersect DOMAIN Put(beir.rows, c, v) : Put(beir.rows, c, v)[e] = beir.matrix /\ beir.matrix # NoFile
    <3> DEFINE rows == Put(beir.rows, c, v)
    <3>1. DOMAIN rows = DOMAIN beir.rows \union {c} /\ rows[c] = v
          /\ \A e \in DOMAIN beir.rows : e # c => rows[e] = beir.rows[e]
      <4> HIDE DEF c
      <4> QED
        BY DEF Put
    <3>2. c \in Embeds => v = beir.matrix /\ beir.matrix # NoFile
      BY <1>1 DEF Wants, v
    <3>3. \A e \in Embeds \intersect DOMAIN beir.rows : beir.rows[e] = beir.matrix /\ beir.matrix # NoFile
      BY <1>2 DEF Scored
    <3> HIDE DEF rows, c
    <3>4. \A e \in Embeds \intersect DOMAIN rows : rows[e] = beir.matrix /\ beir.matrix # NoFile
      BY <3>1, <3>2, <3>3
    <3> QED
      BY <3>4 DEF rows
  <2>5. DOMAIN Put(beir.rows, c, v) \union ToSet(Tail(beir.left)) = ToSet(BeirConfigs)
    <3>1. DOMAIN Put(beir.rows, c, v) = DOMAIN beir.rows \union {c}
      BY PutIs
    <3>2. DOMAIN beir.rows \union ToSet(beir.left) = ToSet(BeirConfigs)
      BY <1>2 DEF Scored
    <3> HIDE DEF c
    <3> QED
      BY <2>3, <3>1, <3>2
  <2>6. RunInv'
    BY <1>2, <2>1, <2>2, <2>3, <2>4, <2>5 DEF RunInv, Fields, Scored
  <2> QED
    BY <1>1, <2>6 DEF BeirInv, DiskInv, MatricesInv, BeirReportTellsItsSource
<1> QED
  BY <1>3, <1>4, <1>5

LEMMA WriteBeirKeeps == ASSUME BeirInv, NEW whole \in BOOLEAN, WriteBeir(whole) PROVE BeirInv'
<1>1. UNCHANGED <<disk, matrices, model>> /\ beir.pc = "build" /\ beir.left = <<>> /\ beir' = Idle
  BY DEF WriteBeir
<1>2. beir.dataset \in Datasets /\ Scored(beir)
  BY <1>1, ScoringIs
<1>3. ToSet(beir.left) = {}
  BY <1>1 DEF ToSet
<1>4. BeirReportTellsItsSource'
  <2>1. CASE whole
    <3> DEFINE out == [dataset |-> beir.dataset, zip |-> Here.zip, docs |-> beir.docs, by |-> beir.by, rows |-> beir.rows]
    <3>1. beirOut' = out
      BY <2>1 DEF WriteBeir
    <3>2. out.dataset = beir.dataset /\ out.docs = beir.docs /\ out.by = beir.by /\ out.rows = beir.rows
      OBVIOUS
    <3> HIDE DEF out
    <3>3. DOMAIN beir.rows = ToSet(BeirConfigs) /\ beir.docs.from = "pinned"
      BY <1>2, <1>3 DEF Scored, Docs
    <3>4. \A c \in Embeds : beir.rows[c].of = beir.docs /\ (beir.by.named => beir.rows[c].by = beir.by.revision)
      BY <1>2, <3>3, BenchAssumption DEF Scored, Fits
    <3> QED
      BY <1>2, <3>1, <3>2, <3>3, <3>4 DEF BeirReportTellsItsSource, Scored
  <2>2. CASE ~whole
    BY <2>2 DEF WriteBeir, BeirReportTellsItsSource
  <2> QED
    BY <2>1, <2>2
<1> QED
  BY <1>1, <1>4 DEF BeirInv, DiskInv, MatricesInv, RunInv

LEMMA TouchingKeeps ==
    ASSUME BeirInv, Touching, DiskInv', model' \in Models PROVE BeirInv'
BY DEF BeirInv, MatricesInv, RunInv, BeirReportTellsItsSource, Touching, Ways, Idle, Fields, Scored, Fits

LEMMA BeirStep == BeirInv /\ [BeirNext]_beirVars => BeirInv'
<1> SUFFICES ASSUME BeirInv, [BeirNext]_beirVars PROVE BeirInv'
  OBVIOUS
<1>1. ASSUME NEW d \in Datasets, NEW archived \in {"pinned", "other"}, Fetch(d, archived) PROVE BeirInv'
  BY <1>1, FetchKeeps
<1>2. CASE Verify
  BY <1>2, VerifyKeeps
<1>3. CASE Identify
  BY <1>3, IdentifyKeeps
<1>4. CASE DocMatrix
  BY <1>4, DocMatrixKeeps
<1>5. CASE KillBeir
  BY <1>5 DEF KillBeir, BeirInv, DiskInv, MatricesInv, RunInv, BeirReportTellsItsSource
<1>6. ASSUME NEW whole \in BOOLEAN, Extract(whole) PROVE BeirInv'
  BY <1>6, ExtractKeeps
<1>7. ASSUME NEW whole \in BOOLEAN, SaveMatrix(whole) PROVE BeirInv'
  BY <1>7, SaveMatrixKeeps
<1>8. ASSUME NEW whole \in BOOLEAN, WriteBeir(whole) PROVE BeirInv'
  BY <1>8, WriteBeirKeeps
<1>9. ASSUME NEW read \in BOOLEAN, LoadBeir(read) PROVE BeirInv'
  BY <1>9, LoadBeirKeeps
<1>10. ASSUME NEW loaded \in BOOLEAN, RunConfig(loaded) PROVE BeirInv'
  BY <1>10, RunConfigKeeps
<1>11. ASSUME NEW d \in Datasets, RemoveArchive(d) PROVE BeirInv'
  <2>1. Touching /\ model' = model /\ disk' = [disk EXCEPT ![d].zip = NoFile]
    BY <1>11 DEF RemoveArchive
  <2>2. DiskInv'
    BY <2>1 DEF BeirInv, DiskInv, Zips
  <2> QED
    BY <2>1, <2>2, TouchingKeeps DEF BeirInv
<1>12. ASSUME NEW revision \in Revisions, UpdateModel(revision) PROVE BeirInv'
  <2>1. Touching /\ disk' = disk /\ model' = [model EXCEPT !.revision = revision]
    BY <1>12 DEF UpdateModel
  <2>2. DiskInv' /\ model' \in Models
    BY <2>1 DEF BeirInv, DiskInv, Models
  <2> QED
    BY <2>1, <2>2, TouchingKeeps
<1>13. CASE UNCHANGED beirVars
  BY <1>13 DEF beirVars, BeirInv, DiskInv, MatricesInv, RunInv, Here, BeirReportTellsItsSource
<1> QED
  BY <1>1, <1>2, <1>3, <1>4, <1>5, <1>6, <1>7, <1>8, <1>9, <1>10, <1>11, <1>12, <1>13 DEF BeirNext
----------------------------------------------------------------------------
(* The bench: what its files and its process hold, and what the jury's file  *)
(* says of the answers in it.                                                *)

Rows == UNION {[configs -> Int] : configs \in SUBSET Configs}

Files == Results \union {NoFile, Torn}

Scorings == [pc : {"score"}, code : Commits, left : SUBSET Configs, rows : Rows, out : BOOLEAN]

Writings == [pc : {"archive", "latest", "out"}, result : Results]

Judged == [sha : Commits, rowsSha : Commits \union {NoFile}, answers : Commits,
           paths : {PathsAt[c] : c \in Commits}, uncited : {UncitedAt[c] : c \in Commits}]

ProcessInv ==
    /\ bench \in {Idle} \union Scorings \union Writings
    /\ bench.pc = "latest" => archive[bench.result.sha] # NoFile

ArchivedInv == latest \notin {NoFile, Torn} => archive[latest.sha] # NoFile

GateInv ==
    gate # NoFile /\ gate.exit = 0 =>
        \A c \in DOMAIN gate.baseline.rows :
            /\ c \in DOMAIN gate.current.rows
            /\ gate.baseline.rows[c] - gate.current.rows[c] <= Threshold

JuryInv ==
    jury \notin {NoFile, Torn} =>
        /\ jury \in Judged /\ jury.answers = RowsSha
        /\ jury.paths = PathsAt[jury.answers] /\ PathsAt[jury.sha] = PathsAt[jury.answers]

BenchInv ==
    /\ head \in Commits /\ archive \in [Commits -> Files] /\ latest \in Files /\ main \in Files
    /\ ProcessInv /\ ArchivedInv /\ GateInv /\ JuryInv

\* A gate that has no reason to fail compared every row of the baseline.
LEMMA NoRegression ==
    ASSUME NEW current \in Rows, NEW baseline \in Rows,
           Regressions(MetricsOf(current), MetricsOf(baseline), Threshold) = {}
    PROVE  \A c \in DOMAIN baseline : c \in DOMAIN current /\ baseline[c] - current[c] <= Threshold
<1> DEFINE cm == MetricsOf(current)
           bm == MetricsOf(baseline)
           gated == UNION {{<<c, m>> : m \in {m \in DOMAIN bm[c] : bm[c][m] # Missing}} : c \in DOMAIN bm}
<1>1. DOMAIN bm = DOMAIN baseline /\ DOMAIN cm = DOMAIN current
      /\ (\A c \in DOMAIN baseline : bm[c] = [ndcg |-> baseline[c]] /\ baseline[c] \in Int)
      /\ (\A c \in DOMAIN current : cm[c] = [ndcg |-> current[c]] /\ current[c] \in Int)
  BY DEF MetricsOf, Rows
<1> HIDE DEF cm, bm
<1>2. {<<c, Missing>> : c \in DOMAIN bm \ DOMAIN cm} = {}
  BY DEF Regressions, cm, bm
<1>3. {p \in gated : /\ p[1] \in DOMAIN cm
                     /\ \/ cm[p[1]][p[2]] = Missing
                        \/ bm[p[1]][p[2]] - cm[p[1]][p[2]] > Threshold} = {}
  BY DEF Regressions, cm, bm
<1> SUFFICES ASSUME NEW c \in DOMAIN baseline
             PROVE  c \in DOMAIN current /\ baseline[c] - current[c] <= Threshold
  OBVIOUS
<1>4. c \in DOMAIN current
  <2>1. <<c, Missing>> \notin {<<x, Missing>> : x \in DOMAIN bm \ DOMAIN cm}
    BY <1>2
  <2> QED
    BY <1>1, <2>1
<1>5. "ndcg" \in DOMAIN bm[c] /\ bm[c]["ndcg"] = baseline[c] /\ cm[c]["ndcg"] = current[c]
  BY <1>1, <1>4
<1>6. <<c, "ndcg">> \in gated
  BY <1>1, <1>5, BenchAssumption
<1> HIDE DEF gated
<1>7. ~(bm[c]["ndcg"] - cm[c]["ndcg"] > Threshold)
  <2> DEFINE p == <<c, "ndcg">>
  <2>1. p[1] = c /\ p[2] = "ndcg" /\ p \in gated
    BY <1>6
  <2> HIDE DEF p
  <2> QED
    BY <1>1, <1>3, <1>4, <2>1
<1> QED
  BY <1>1, <1>4, <1>5, <1>7, BenchAssumption

LEMMA BenchStart == BenchInit => BenchInv
BY BenchAssumption DEF BenchInit, BenchInv, ProcessInv, ArchivedInv, GateInv, JuryInv, Files, Idle

\* What leaves the files and the jury alone.
LEMMA ProcessMoves ==
    ASSUME BenchInv, UNCHANGED <<resultFiles, gate, jury>>, head' \in Commits, ProcessInv'
    PROVE  BenchInv'
BY DEF BenchInv, resultFiles, ArchivedInv, GateInv, JuryInv, RowsSha

LEMMA StartBenchKeeps ==
    ASSUME BenchInv, NEW configs \in {Configs, BaselineOnly}, NEW out \in BOOLEAN, StartBench(configs, out)
    PROVE  BenchInv'
<1>1. UNCHANGED <<head, resultFiles, gate, jury>> /\ head \in Commits /\ configs \in SUBSET Configs
  BY BenchAssumption DEF StartBench, BenchInv
<1>2. bench' = bench \/ bench' = [pc |-> "score", code |-> head, left |-> configs, rows |-> <<>>, out |-> out]
  BY DEF StartBench
<1>3. <<>> \in Rows
  <2>1. <<>> \in [{} -> Int] /\ {} \in SUBSET Configs
    OBVIOUS
  <2> QED
    BY <2>1 DEF Rows
<1>4. ProcessInv'
  <2>1. CASE bench' = bench
    BY <1>1, <2>1 DEF BenchInv, ProcessInv, resultFiles
  <2>2. CASE bench' # bench
    <3>1. bench' \in Scorings /\ bench'.pc = "score"
      BY <1>1, <1>2, <1>3, <2>2 DEF Scorings
    <3> QED
      BY <3>1 DEF ProcessInv
  <2> QED
    BY <2>1, <2>2
<1> QED
  BY <1>1, <1>4, ProcessMoves

LEMMA ScoringBench == ASSUME BenchInv, bench.pc = "score" PROVE bench \in Scorings
BY DEF BenchInv, ProcessInv, Idle, Writings

LEMMA WritingBench ==
    ASSUME BenchInv, bench.pc \in {"archive", "latest", "out"} PROVE bench \in Writings /\ bench.result \in Results
BY DEF BenchInv, ProcessInv, Idle, Scorings, Writings

LEMMA ScoreRowKeeps == BenchInv /\ ScoreRow => BenchInv'
<1> SUFFICES ASSUME BenchInv, ScoreRow PROVE BenchInv'
  OBVIOUS
<1>1. PICK c \in bench.left : bench' = [bench EXCEPT !.left = @ \ {c}, !.rows = Put(@, c, Quality[bench.code][c])]
  BY DEF ScoreRow
<1>2. bench \in Scorings /\ UNCHANGED <<head, resultFiles, gate, jury>> /\ head \in Commits
  BY ScoringBench DEF ScoreRow, BenchInv
<1>3. c \in Configs /\ Quality[bench.code][c] \in Int
  BY <1>2, BenchAssumption DEF Scorings
<1>4. Put(bench.rows, c, Quality[bench.code][c]) \in Rows
  <2>1. PICK configs \in SUBSET Configs : bench.rows \in [configs -> Int]
    BY <1>2 DEF Scorings, Rows
  <2>2. configs \union {c} \in SUBSET Configs
    BY <1>3
  <2>3. Put(bench.rows, c, Quality[bench.code][c]) \in [configs \union {c} -> Int]
    BY <1>3, <2>1 DEF Put
  <2> QED
    BY <2>2, <2>3 DEF Rows
<1>5. bench' \in Scorings /\ bench'.pc = "score"
  BY <1>1, <1>2, <1>4 DEF Scorings
<1> QED
  BY <1>2, <1>5, ProcessMoves DEF ProcessInv

LEMMA ReadShaKeeps == BenchInv /\ ReadSha => BenchInv'
<1> SUFFICES ASSUME BenchInv, ReadSha PROVE BenchInv'
  OBVIOUS
<1>1. bench \in Scorings /\ UNCHANGED <<head, resultFiles, gate, jury>> /\ head \in Commits
  BY ScoringBench DEF ReadSha, BenchInv
<1>2. [sha |-> head, code |-> bench.code, rows |-> bench.rows] \in Results
  BY <1>1 DEF Scorings, Results, Rows
<1>3. bench' \in Writings /\ bench'.pc # "latest"
  BY <1>2 DEF ReadSha, Writings
<1> QED
  BY <1>1, <1>3, ProcessMoves DEF ProcessInv

LEMMA WriteArchiveKeeps == ASSUME BenchInv, NEW whole \in BOOLEAN, WriteArchive(whole) PROVE BenchInv'
<1>1. /\ bench \in Writings /\ bench.result \in Results /\ UNCHANGED <<head, latest, main, gate, jury>>
      /\ archive' = [archive EXCEPT ![bench.result.sha] = Written(whole)]
      /\ bench' = IF whole THEN [bench EXCEPT !.pc = "latest"] ELSE Idle
  BY WritingBench DEF WriteArchive
<1>2. Written(whole) \in Files /\ Written(whole) # NoFile /\ bench.result.sha \in Commits
  BY <1>1, BenchAssumption DEF Written, Files, Results
<1>3. archive' \in [Commits -> Files] /\ archive'[bench.result.sha] # NoFile
      /\ \A c \in Commits : archive[c] # NoFile => archive'[c] # NoFile
  BY <1>1, <1>2 DEF BenchInv
<1>4. ProcessInv'
  <2>1. CASE whole
    <3>1. bench' \in Writings /\ bench'.result = bench.result
      BY <1>1, <2>1 DEF Writings
    <3> QED
      BY <1>3, <3>1 DEF ProcessInv
  <2>2. CASE ~whole
    BY <1>1, <2>2 DEF ProcessInv, Idle
  <2> QED
    BY <2>1, <2>2
<1>5. ArchivedInv'
  <2>1. latest \notin {NoFile, Torn} => latest.sha \in Commits
    BY DEF BenchInv, Files, Results
  <2> QED
    BY <1>1, <1>3, <2>1 DEF BenchInv, ArchivedInv
<1> QED
  BY <1>1, <1>3, <1>4, <1>5 DEF BenchInv, GateInv, JuryInv, RowsSha

LEMMA WriteLatestKeeps == ASSUME BenchInv, NEW whole \in BOOLEAN, WriteLatest(whole) PROVE BenchInv'
<1>1. /\ bench.result \in Results /\ UNCHANGED <<head, archive, main, gate, jury>> /\ bench' = Idle
      /\ latest' = Written(whole) /\ archive[bench.result.sha] # NoFile
  BY WritingBench DEF WriteLatest, BenchInv, ProcessInv
<1>2. latest' \in Files
  BY <1>1 DEF Written, Files
<1>3. ArchivedInv'
  BY <1>1 DEF ArchivedInv, Written
<1> QED
  BY <1>1, <1>2, <1>3 DEF BenchInv, ProcessInv, GateInv, JuryInv, RowsSha, Idle

LEMMA GateKeeps == BenchInv /\ Gate => BenchInv'
<1> SUFFICES ASSUME BenchInv, Gate PROVE BenchInv'
  OBVIOUS
<1>1. UNCHANGED <<head, resultFiles, bench, jury>>
  BY DEF Gate
<1>2. /\ gate'.current = latest /\ gate'.baseline = main
      /\ gate'.exit = 0 => /\ latest \notin {NoFile, Torn} /\ main \notin {NoFile, Torn}
                           /\ Regressions(MetricsOf(latest.rows), MetricsOf(main.rows), Threshold) = {}
  BY DEF Gate
<1>3. GateInv'
  <2> SUFFICES ASSUME gate'.exit = 0
               PROVE  \A c \in DOMAIN main.rows : c \in DOMAIN latest.rows /\ main.rows[c] - latest.rows[c] <= Threshold
    BY <1>2 DEF GateInv
  <2>1. latest.rows \in Rows /\ main.rows \in Rows
    BY <1>2 DEF BenchInv, Files, Results, Rows
  <2> QED
    BY <1>2, <2>1, NoRegression
<1> QED
  BY <1>1, <1>3 DEF BenchInv, ProcessInv, ArchivedInv, JuryInv, RowsSha, resultFiles

LEMMA JudgeAnswersKeeps == BenchInv /\ JudgeAnswers => BenchInv'
<1> SUFFICES ASSUME BenchInv, JudgeAnswers PROVE BenchInv'
  OBVIOUS
<1>1. UNCHANGED <<head, resultFiles, bench, gate>> /\ head \in Commits
  BY DEF JudgeAnswers, BenchInv
<1>2. jury' = [sha |-> head, rowsSha |-> NoFile, answers |-> head, paths |-> PathsAt[head], uncited |-> UncitedAt[head]]
  BY DEF JudgeAnswers
<1>3. jury' \in Judged /\ jury'.answers = head /\ jury'.sha = head /\ jury'.rowsSha = NoFile /\ jury'.paths = PathsAt[head]
  BY <1>1, <1>2 DEF Judged
<1>4. JuryInv'
  BY <1>3 DEF JuryInv, RowsSha
<1> QED
  BY <1>1, <1>4 DEF BenchInv, ProcessInv, ArchivedInv, GateInv, resultFiles

LEMMA RescoreKeeps == ASSUME BenchInv, NEW whole \in BOOLEAN, Rescore(whole) PROVE BenchInv'
<1>1. UNCHANGED <<head, resultFiles, bench, gate>> /\ head \in Commits /\ Rescorable
  BY DEF Rescore, BenchInv
<1>2. /\ jury \in Judged /\ jury.answers = RowsSha /\ jury.paths = PathsAt[jury.answers]
      /\ PathsAt[head] = jury.paths
  BY <1>1 DEF Rescorable, BenchInv, JuryInv
<1>3. JuryInv'
  <2>1. CASE whole
    <3>1. jury' = [jury EXCEPT !.rowsSha = RowsSha, !.sha = head]
      BY <2>1 DEF Rescore
    <3>2. RowsSha = jury.answers /\ jury.answers \in Commits /\ jury.answers # NoFile
      BY <1>2, BenchAssumption DEF Judged
    <3>3. jury' \in Judged /\ jury'.answers = jury.answers /\ jury'.rowsSha = jury.answers
          /\ jury'.sha = head /\ jury'.paths = jury.paths
      BY <1>1, <1>2, <3>1, <3>2 DEF Judged
    <3> QED
      BY <1>2, <3>2, <3>3 DEF JuryInv, RowsSha
  <2>2. CASE ~whole
    BY <2>2 DEF Rescore, JuryInv
  <2> QED
    BY <2>1, <2>2
<1> QED
  BY <1>1, <1>3 DEF BenchInv, ProcessInv, ArchivedInv, GateInv, resultFiles

LEMMA BenchStep == BenchInv /\ [BenchNext]_benchVars => BenchInv'
<1> SUFFICES ASSUME BenchInv, [BenchNext]_benchVars PROVE BenchInv'
  OBVIOUS
<1>0. head \in Commits
  BY DEF BenchInv
<1>1. ASSUME UNCHANGED <<resultFiles, bench, gate, jury>>, head' \in Commits PROVE BenchInv'
  <2>1. ProcessInv'
    BY <1>1 DEF BenchInv, ProcessInv, resultFiles
  <2> QED
    BY <1>1, <2>1, ProcessMoves
<1>2. ASSUME NEW c \in Commits, Checkout(c) PROVE BenchInv'
  BY <1>1, <1>2 DEF Checkout
<1>3. CASE EditCorpus
  BY <1>0, <1>1, <1>3 DEF EditCorpus
<1>4. ASSUME NEW configs \in {Configs, BaselineOnly}, NEW out \in BOOLEAN, StartBench(configs, out) PROVE BenchInv'
  BY <1>4, StartBenchKeeps
<1>5. CASE ScoreRow
  BY <1>5, ScoreRowKeeps
<1>6. CASE ReadSha
  BY <1>6, ReadShaKeeps
<1>7. ASSUME NEW whole \in BOOLEAN, WriteArchive(whole) PROVE BenchInv'
  BY <1>7, WriteArchiveKeeps
<1>8. ASSUME NEW whole \in BOOLEAN, WriteLatest(whole) PROVE BenchInv'
  BY <1>8, WriteLatestKeeps
<1>9. ASSUME NEW whole \in BOOLEAN, WriteOut(whole) PROVE BenchInv'
  BY <1>9 DEF WriteOut, BenchInv, ProcessInv, ArchivedInv, GateInv, JuryInv, RowsSha, Idle
<1>10. CASE Kill
  BY <1>10 DEF Kill, BenchInv, ProcessInv, ArchivedInv, GateInv, JuryInv, RowsSha, Idle, resultFiles
<1>11. CASE Promote
  BY <1>11 DEF Promote, BenchInv, ProcessInv, ArchivedInv, GateInv, JuryInv, RowsSha
<1>12. CASE Gate
  BY <1>12, GateKeeps
<1>13. CASE JudgeAnswers
  BY <1>13, JudgeAnswersKeeps
<1>14. ASSUME NEW whole \in BOOLEAN, Rescore(whole) PROVE BenchInv'
  BY <1>14, RescoreKeeps
<1>15. CASE UNCHANGED benchVars
  BY <1>0, <1>1, <1>15 DEF benchVars, resultFiles
<1> QED
  BY <1>2, <1>3, <1>4, <1>5, <1>6, <1>7, <1>8, <1>9, <1>10, <1>11, <1>12, <1>13, <1>14, <1>15 DEF BenchNext
----------------------------------------------------------------------------
(* A service that says it is ready.                                          *)

EmbeddingOf(d) == IF d.embedder = "hash" THEN "cpu" ELSE EmbedderOn(d)

RerankerOf(d) ==
    LET on == IF d.reranker # "none" THEN RerankerOn(d) ELSE Unset
    IN [configured |-> d.reranker # "none", loaded |-> on # Unset, device |-> on]

LEMMA RerankerIs ==
    ASSUME NEW d
    PROVE  /\ RerankerOf(d).loaded <=> (d.reranker # "none" /\ RerankerOn(d) # Unset)
           /\ d.reranker # "none" => RerankerOf(d).device = RerankerOn(d)
<1>1. CASE d.reranker = "none"
  BY <1>1 DEF RerankerOf
<1>2. CASE d.reranker # "none"
  BY <1>2 DEF RerankerOf
<1> QED
  BY <1>1, <1>2

\* A process that is up has the embedder and the reranker where they were put.
LEMMA StateIs ==
    ASSUME NEW d
    PROVE  \/ Lifespan(d).up = FALSE
           \/ Lifespan(d) = [up |-> TRUE, embeddingOn |-> EmbeddingOf(d), reranker |-> RerankerOf(d), nodes |-> d.nodes]
<1>1. InitEmbedModel(d).up = FALSE \/ InitEmbedModel(d) = [up |-> TRUE, on |-> EmbeddingOf(d)]
  BY DEF InitEmbedModel, NoStart, EmbeddingOf
<1>2. Retriever(d).up = FALSE \/ Retriever(d) = [up |-> TRUE, info |-> RerankerOf(d)]
  <2>1. LoadReranker(d).up = FALSE \/ LoadReranker(d) = [up |-> TRUE, info |-> RerankerOf(d)]
    BY DEF LoadReranker, NoStart, RerankerOf
  <2> QED
    BY <2>1 DEF Retriever, NoStart
<1> DEFINE E == InitEmbedModel(d)
           R == Retriever(d)
<1>3. Lifespan(d) = IF ~E.up THEN E ELSE IF ~R.up THEN R
                    ELSE [up |-> TRUE, embeddingOn |-> E.on, reranker |-> R.info, nodes |-> d.nodes]
  BY DEF Lifespan
<1> HIDE DEF E, R
<1>4. CASE E.up = FALSE
  BY <1>3, <1>4
<1>5. CASE R.up = FALSE
  <2>1. CASE E.up
    BY <1>3, <1>5, <2>1
  <2>2. CASE ~E.up
    <3>1. E.up = FALSE
      BY <1>1, <2>2 DEF E
    <3> QED
      BY <1>4, <3>1
  <2> QED
    BY <2>1, <2>2
<1>6. CASE E = [up |-> TRUE, on |-> EmbeddingOf(d)] /\ R = [up |-> TRUE, info |-> RerankerOf(d)]
  BY <1>3, <1>6
<1> QED
  BY <1>1, <1>2, <1>4, <1>5, <1>6 DEF E, R

\* What health says of it.
LEMMA HealthIs ==
    ASSUME NEW d, NEW state,
           state = [up |-> TRUE, embeddingOn |-> EmbeddingOf(d), reranker |-> RerankerOf(d), nodes |-> d.nodes]
    PROVE  LET health == Health(d, state)
               missing == d.reranker # "none" /\ RerankerOn(d) = Unset
               placed == d.requires = Unset \/
                         (EmbeddingOf(d) = d.requires /\ (d.reranker # "none" => RerankerOn(d) = d.requires))
           IN /\ health.nodes = d.nodes /\ health.embeddingOn = EmbeddingOf(d) /\ health.reranker = RerankerOf(d)
              /\ health.code = 200 <=> placed
              /\ health.degraded = {} <=> (~missing /\ placed)
              /\ health.status = IF ~missing /\ placed THEN "ok" ELSE "degraded"
<1> DEFINE errors == DeviceErrors(d, state)
           lacking == IF state.reranker.configured /\ ~state.reranker.loaded THEN {"rerank"} ELSE {}
           missing == d.reranker # "none" /\ RerankerOn(d) = Unset
           placed == d.requires = Unset \/
                     (EmbeddingOf(d) = d.requires /\ (d.reranker # "none" => RerankerOn(d) = d.requires))
<1>1. state.up /\ state.embeddingOn = EmbeddingOf(d) /\ state.reranker = RerankerOf(d) /\ state.nodes = d.nodes
  OBVIOUS
<1>2. /\ state.reranker.configured <=> d.reranker # "none"
      /\ d.reranker # "none" => /\ state.reranker.device = RerankerOn(d)
                                /\ state.reranker.loaded <=> RerankerOn(d) # Unset
  BY <1>1 DEF RerankerOf
<1>3. errors = {} <=> placed
  BY <1>1, <1>2 DEF DeviceErrors
<1>4. lacking = {} <=> ~missing
  BY <1>2
<1> DEFINE degraded == lacking \union errors
           health == Health(d, state)
<1>5. health = [code |-> IF errors = {} THEN 200 ELSE 503, status |-> IF degraded = {} THEN "ok" ELSE "degraded",
                nodes |-> state.nodes, degraded |-> degraded,
                embeddingOn |-> state.embeddingOn, reranker |-> state.reranker]
  BY <1>1 DEF Health
<1>6. degraded = {} <=> (lacking = {} /\ errors = {})
  OBVIOUS
<1> HIDE DEF errors, lacking, degraded, missing, placed, health
<1>7. /\ health.nodes = d.nodes /\ health.embeddingOn = EmbeddingOf(d) /\ health.reranker = RerankerOf(d)
      /\ health.code = 200 <=> placed
      /\ health.degraded = {} <=> (~missing /\ placed)
      /\ health.status = IF ~missing /\ placed THEN "ok" ELSE "degraded"
  BY <1>1, <1>3, <1>4, <1>5, <1>6
<1> QED
  BY <1>7, Zenon DEF health, missing, placed

\* What a load test would object to.
LEMMA ProblemsAre ==
    ASSUME NEW health, NEW r \in BOOLEAN, NEW on
    PROVE  ReadinessProblems(health, r, on) = {} <=>
              LET known == health.status # "unavailable"
              IN /\ health.status = "ok" /\ known /\ ~(health.nodes < 1) /\ health.degraded = {}
                 /\ r => health.reranker.loaded
                 /\ on # Unset => health.embeddingOn = on /\ (r => health.reranker.device = on)
BY DEF ReadinessProblems

LEMMA ReadyIs ==
    ASSUME NEW d, d.nodes \in Nat
    PROVE  ReadyMeansVerified(d, Service(d))
<1> DEFINE state == Lifespan(d)
           health == Health(d, state)
<1>1. Service(d).state = state /\ Service(d).health = health
      /\ \A r \in BOOLEAN, on \in Devices \union {Unset} :
            Service(d).problems[r][on] = ReadinessProblems(health, r, on)
  BY DEF Service
<1>2. CASE state.up = FALSE
  <2>1. health.code = 503 /\ health.status = "unavailable"
    BY <1>2 DEF Health
  <2> HIDE DEF health, state
  <2>2. \A r \in BOOLEAN, on \in Devices \union {Unset} : Service(d).problems[r][on] # {}
    BY <1>1, <2>1, ProblemsAre
  <2>3. Service(d).health.code # 200 /\ Service(d).health.status # "ok" /\ ~Service(d).state.up
    BY <1>1, <1>2, <2>1
  <2> QED
    BY <2>2, <2>3 DEF ReadyMeansVerified
<1>3. CASE state = [up |-> TRUE, embeddingOn |-> EmbeddingOf(d), reranker |-> RerankerOf(d), nodes |-> d.nodes]
  <2> DEFINE missing == d.reranker # "none" /\ RerankerOn(d) = Unset
             placed == d.requires = Unset \/
                       (EmbeddingOf(d) = d.requires /\ (d.reranker # "none" => RerankerOn(d) = d.requires))
  <2>1. /\ health.nodes = d.nodes /\ health.embeddingOn = EmbeddingOf(d) /\ health.reranker = RerankerOf(d)
        /\ health.code = 200 <=> placed
        /\ health.degraded = {} <=> (~missing /\ placed)
        /\ health.status = IF ~missing /\ placed THEN "ok" ELSE "degraded"
    <3> HIDE DEF state
    <3> QED
      BY <1>3, HealthIs
  <2>2. /\ health.reranker.loaded <=> (d.reranker # "none" /\ RerankerOn(d) # Unset)
        /\ d.reranker # "none" => health.reranker.device = RerankerOn(d)
    <3> HIDE DEF health, placed, missing
    <3> QED
      BY <2>1, RerankerIs
  <2>3. state.up
    BY <1>3
  <2> HIDE DEF health, state, missing, placed
  <2>4. ASSUME NEW r \in BOOLEAN, NEW on \in Devices \union {Unset}
        PROVE  Service(d).problems[r][on] = {} <=>
                  /\ ~missing /\ placed /\ d.nodes > 0 /\ (r => health.reranker.loaded)
                  /\ on # Unset => EmbeddingOf(d) = on /\ (r => health.reranker.device = on)
    <3>1. ~(d.nodes < 1) <=> d.nodes > 0
      OBVIOUS
    <3> QED
      BY <1>1, <2>1, <3>1, ProblemsAre
  <2>5. ASSUME NEW r \in BOOLEAN, NEW on \in Devices \union {Unset}, Service(d).problems[r][on] = {}
        PROVE  /\ d.nodes > 0
               /\ r => d.reranker # "none" /\ RerankerOn(d) # Unset
               /\ on # Unset => on = EmbeddingOf(d) /\ (r => on = RerankerOn(d))
    BY <2>2, <2>4, <2>5
  <2>6. health.code = 200 /\ d.requires # Unset =>
          d.requires = EmbeddingOf(d) /\ (d.reranker # "none" => RerankerOn(d) = d.requires)
    BY <2>1 DEF placed
  <2>7. health.status = "ok" /\ d.reranker # "none" => RerankerOn(d) # Unset
    BY <2>1 DEF missing
  <2>8. d.nodes > 0 /\ d.requires = Unset /\ RerankerOn(d) # Unset => Service(d).problems[FALSE][Unset] = {}
    BY <2>4 DEF missing, placed
  <2> QED
    BY <1>1, <2>5, <2>6, <2>7, <2>8 DEF ReadyMeansVerified, EmbeddingOf
<1> QED
  BY <1>2, <1>3, StateIs
----------------------------------------------------------------------------
(* A step is of one part, or computes something and leaves all of them alone.*)

LEMMA StepsOfParts ==
    Next =>
        \/ BenchNext /\ UNCHANGED <<beirVars, poolVars, loadVars>>
        \/ BeirNext /\ UNCHANGED <<benchVars, poolVars, loadVars>>
        \/ PoolNext /\ UNCHANGED <<benchVars, beirVars, loadVars>>
        \/ LoadNext /\ UNCHANGED <<benchVars, beirVars, poolVars>>
        \/ UNCHANGED <<benchVars, beirVars, poolVars, loadVars>>
<1> DEFINE Still == UNCHANGED <<benchVars, beirVars, poolVars, loadVars>>
<1>1. ASSUME NEW name, NEW t, NEW r, Computed(name, t, r) PROVE Still
  BY <1>1 DEF Computed
<1> HIDE DEF Still
<1>2. CiteAnswer \/ CheckFact \/ FindConflicts \/ CheckClaims => Still
  BY <1>1 DEF CiteAnswer, CheckFact, FindConflicts, CheckClaims
<1>3. ScoreList \/ AverageRows \/ JudgeReplies \/ CountVotes \/ CompareAnswers \/ RankDocuments => Still
  BY <1>1 DEF ScoreList, AverageRows, JudgeReplies, CountVotes, CompareAnswers, RankDocuments
<1>4. PairRows \/ SearchForRow \/ RescoreRun \/ ProposeChart \/ MakeArtifact \/ BundleRun => Still
  BY <1>1 DEF PairRows, SearchForRow, RescoreRun, ProposeChart, MakeArtifact, BundleRun
<1>5. ExpandSeeds \/ ReorderHits \/ CutFile \/ SplitQuestion \/ SearchInMemory => Still
  BY <1>1 DEF ExpandSeeds, ReorderHits, CutFile, SplitQuestion, SearchInMemory
<1>6. ReadTheChat \/ FillRollout \/ ReadATree \/ AnswerLines \/ CheckService => Still
  BY <1>1 DEF ReadTheChat, FillRollout, ReadATree, AnswerLines, CheckService
<1> QED
  BY <1>2, <1>3, <1>4, <1>5, <1>6, Zenon DEF Next, Still

\* What a step computes of an answer or of a service.
LEMMA ChecksAre ==
    Next =>
        \/ UNCHANGED <<kind, task, result>>
        \/ kind' \notin {"cite", "fact", "conflict", "claims", "service"}
        \/ CiteAnswer \/ CheckFact \/ FindConflicts \/ CheckClaims \/ CheckService
<1> DEFINE Checks == {"cite", "fact", "conflict", "claims", "service"}
           Other == kind' \notin Checks
<1>1. ASSUME NEW name, name \notin Checks, NEW t, NEW r, Computed(name, t, r) PROVE Other
  BY <1>1 DEF Computed
<1> HIDE DEF Other
<1>3. ScoreList \/ AverageRows \/ JudgeReplies \/ CountVotes \/ CompareAnswers \/ RankDocuments => Other
  BY <1>1 DEF ScoreList, AverageRows, JudgeReplies, CountVotes, CompareAnswers, RankDocuments
<1>4. PairRows \/ SearchForRow \/ RescoreRun \/ ProposeChart \/ MakeArtifact \/ BundleRun => Other
  BY <1>1 DEF PairRows, SearchForRow, RescoreRun, ProposeChart, MakeArtifact, BundleRun
<1>5. ExpandSeeds \/ ReorderHits \/ CutFile \/ SplitQuestion \/ SearchInMemory => Other
  BY <1>1 DEF ExpandSeeds, ReorderHits, CutFile, SplitQuestion, SearchInMemory
<1>6. ReadTheChat \/ FillRollout \/ ReadATree \/ AnswerLines => Other
  BY <1>1 DEF ReadTheChat, FillRollout, ReadATree, AnswerLines
<1>7. UNCHANGED computeVars => UNCHANGED <<kind, task, result>>
  BY DEF computeVars
<1> QED
  BY <1>3, <1>4, <1>5, <1>6, <1>7, Zenon DEF Next, Other, Checks

\* Only CheckService computes what a service says of itself.
LEMMA ServiceIs ==
    Next /\ kind' = "service" =>
        UNCHANGED <<kind, task, result>> \/ (task' \in Deployments /\ result' = Service(task'))
<1> SUFFICES ASSUME Next, kind' = "service"
             PROVE  UNCHANGED <<kind, task, result>> \/ (task' \in Deployments /\ result' = Service(task'))
  OBVIOUS
<1>1. ASSUME NEW name, name # "service", NEW t, NEW r PROVE ~Computed(name, t, r)
  BY <1>1 DEF Computed
<1>2. ~CiteAnswer /\ ~CheckFact /\ ~FindConflicts /\ ~CheckClaims
  BY <1>1 DEF CiteAnswer, CheckFact, FindConflicts, CheckClaims
<1>3. CheckService => task' \in Deployments /\ result' = Service(task')
  BY DEF CheckService, Computed
<1>4. kind' \in {"cite", "fact", "conflict", "claims", "service"}
  OBVIOUS
<1> QED
  BY <1>2, <1>3, <1>4, ChecksAre, Zenon

\* The bench and its results in one invariant.
ServiceInv == kind = "service" => ReadyMeansVerified(task, result)

ResultInv == BenchInv /\ BeirInv /\ LoadInv /\ ServiceInv

LEMMA ResultStep ==
    ResultInv /\ [Next]_<<benchVars, beirVars, poolVars, loadVars, computeVars>> => ResultInv'
<1> SUFFICES ASSUME ResultInv, [Next]_<<benchVars, beirVars, poolVars, loadVars, computeVars>>
             PROVE  ResultInv'
  OBVIOUS
<1>1. [BenchNext]_benchVars /\ [BeirNext]_beirVars /\ [LoadNext]_loadVars
  BY StepsOfParts
<1>2. ServiceInv'
  <2>1. CASE UNCHANGED <<kind, task, result>>
    BY <2>1 DEF ResultInv, ServiceInv
  <2>2. CASE task' \in Deployments /\ result' = Service(task')
    BY <2>2, ReadyIs, DeploymentsAssumption DEF ServiceInv
  <2>3. UNCHANGED computeVars => UNCHANGED <<kind, task, result>>
    BY DEF computeVars
  <2>4. Next \/ UNCHANGED computeVars
    OBVIOUS
  <2> QED
    BY <2>1, <2>2, <2>3, <2>4, ServiceIs, Zenon DEF ServiceInv
<1> QED
  BY <1>1, <1>2, BenchStep, BeirStep, LoadStep DEF ResultInv

\* The files that outlive their writer tell where they come from, whenever
\* somebody commits, edits, updates the model or kills a process, and however
\* the workers of a load interleave (app/eval, Makefile).
THEOREM ResultsTellTheirSource == Spec => []ResultFilesTellTheirSource
<1>1. Init => ResultInv
  BY BenchStart, BeirStart, LoadStart DEF Init, ResultInv, ServiceInv
<1>2. ResultInv => ResultFilesTellTheirSource
  <2> SUFFICES ASSUME ResultInv PROVE ResultFilesTellTheirSource
    OBVIOUS
  <2>1. BeirReportTellsItsSource /\ LoadReportTellsTheRun
    BY LoadTells DEF ResultInv, BeirInv
  <2>2. ArchivedInv /\ GateInv /\ JuryInv
    BY DEF ResultInv, BenchInv
  <2>3. jury \notin {NoFile, Torn} =>
          /\ jury.answers = IF jury.rowsSha = NoFile THEN jury.sha ELSE jury.rowsSha
          /\ PathsAt[jury.sha] = PathsAt[jury.answers]
    BY <2>2 DEF JuryInv, RowsSha
  <2>4. latest \notin {NoFile, Torn} => archive[latest.sha] # NoFile
    BY <2>2 DEF ArchivedInv
  <2>5. gate # NoFile /\ gate.exit = 0 =>
          \A c \in DOMAIN gate.baseline.rows :
             /\ c \in DOMAIN gate.current.rows
             /\ gate.baseline.rows[c] - gate.current.rows[c] <= Threshold
    BY <2>2 DEF GateInv
  <2>6. kind = "service" => ReadyMeansVerified(task, result)
    BY DEF ResultInv, ServiceInv
  <2> QED
    BY <2>1, <2>3, <2>4, <2>5, <2>6, Zenon DEF ResultFilesTellTheirSource
<1> QED
  BY <1>1, <1>2, ResultStep, PTL DEF Spec
----------------------------------------------------------------------------
(* What an answer may claim.                                                *)

\* A slice of a list, member by member.
LEMMA SliceIs ==
    ASSUME NEW S, NEW list \in Seq(S), NEW m \in Nat \ {0}, NEW n \in Nat, m <= n, n <= Len(list)
    PROVE  /\ DOMAIN SubSeq(list, m, n) = 1 .. n - m + 1
           /\ \A i \in 1 .. n - m + 1 : SubSeq(list, m, n)[i] = list[m + i - 1]
OBVIOUS

\* What a verified number stands in: text that was cited, of an unchanged file.
LEMMA CitedText ==
    ASSUME NEW evidence, NEW citations, NEW text \in CitedChunks(evidence, citations)
    PROVE  \E chunk \in evidence, cite \in citations :
              /\ text = Sliced(chunk, cite) /\ chunk.verbatim
              /\ WellFormed(cite) /\ chunk.path = cite.path
              /\ Ranged(cite) => Covers(chunk, cite)
<1>1. PICK p \in evidence \X citations :
          /\ text = Sliced(p[1], p[2])
          /\ WellFormed(p[2]) /\ p[1].path = p[2].path /\ Source(p[1]) # None
          /\ Ranged(p[2]) => Covers(p[1], p[2])
  BY DEF CitedChunks
<1>2. p[1] \in evidence /\ p[2] \in citations
  OBVIOUS
<1>3. p[1].verbatim
  BY <1>1 DEF Source
<1> QED
  BY <1>1, <1>2, <1>3

\* What stands apart in a slice of a text stands there in the text.
LEMMA FoundInSlice ==
    ASSUME NEW S, NEW raw \in Seq(S), NEW from \in Nat, NEW to \in Nat, from < to, to <= Len(raw),
           NEW V, NEW value \in Seq(V), value # <<>>, LiteralFound(value, SubSeq(raw, from + 1, to))
    PROVE  \E i \in from + 1 .. to :
              /\ i + Len(value) - 1 <= to
              /\ Stands(raw, i, value)
              /\ i > from + 1 => raw[i - 1] \in Separators
              /\ i + Len(value) - 1 < to => raw[i + Len(value)] \in Separators
<1> DEFINE slice == SubSeq(raw, from + 1, to)
<1>1. /\ DOMAIN slice = 1 .. to - from
      /\ \A j \in 1 .. to - from : slice[j] = raw[from + j]
  <2>1. /\ DOMAIN slice = 1 .. to - (from + 1) + 1
        /\ \A j \in 1 .. to - (from + 1) + 1 : slice[j] = raw[(from + 1) + j - 1]
    <3>1. from + 1 \in Nat \ {0} /\ from + 1 <= to
      OBVIOUS
    <3> QED
      BY <3>1, SliceIs
  <2>2. to - (from + 1) + 1 = to - from /\ \A j \in 1 .. to - from : (from + 1) + j - 1 = from + j
    OBVIOUS
  <2> HIDE DEF slice
  <2> QED
    BY <2>1, <2>2
<1>2. Len(slice) = to - from
  BY SMTT(30)
<1> HIDE DEF slice
<1>3. PICK i \in DOMAIN slice :
          /\ Stands(slice, i, value)
          /\ i > 1 => slice[i - 1] \in Separators
          /\ i + Len(value) - 1 < Len(slice) => slice[i + Len(value)] \in Separators
  BY DEF LiteralFound, slice
<1>4. i \in 1 .. to - from /\ Len(value) \in Nat \ {0} /\ DOMAIN value = 1 .. Len(value)
  BY <1>1, <1>3
<1>5. i + Len(value) - 1 <= to - from /\ \A k \in DOMAIN value : slice[i + k - 1] = value[k]
  BY <1>2, <1>3 DEF Stands
<1> DEFINE at == from + i
<1>6. at \in from + 1 .. to /\ at + Len(value) - 1 <= to
  BY <1>4, <1>5
<1>7. Stands(raw, at, value)
  <2>1. at + Len(value) - 1 <= Len(raw)
    BY <1>4, <1>6
  <2>2. ASSUME NEW k \in DOMAIN value PROVE raw[at + k - 1] = value[k]
    <3>1. i + k - 1 \in 1 .. to - from /\ from + (i + k - 1) = at + k - 1
      BY <1>4, <1>5
    <3>2. slice[i + k - 1] = raw[from + (i + k - 1)]
      BY <1>1, <3>1
    <3> QED
      BY <1>5, <3>1, <3>2
  <2> QED
    BY <2>1, <2>2 DEF Stands
<1>8. at > from + 1 => raw[at - 1] \in Separators
  <2> SUFFICES ASSUME at > from + 1 PROVE raw[at - 1] \in Separators
    OBVIOUS
  <2>1. i > 1 /\ i - 1 \in 1 .. to - from /\ from + (i - 1) = at - 1
    BY <1>4
  <2>2. slice[i - 1] = raw[from + (i - 1)]
    BY <1>1, <2>1
  <2> QED
    BY <1>3, <2>1, <2>2
<1>9. at + Len(value) - 1 < to => raw[at + Len(value)] \in Separators
  <2> SUFFICES ASSUME at + Len(value) - 1 < to PROVE raw[at + Len(value)] \in Separators
    OBVIOUS
  <2>1. /\ i + Len(value) - 1 < to - from /\ i + Len(value) \in 1 .. to - from
        /\ from + (i + Len(value)) = at + Len(value)
    BY <1>4
  <2>2. slice[i + Len(value)] = raw[from + (i + Len(value))]
    BY <1>1, <2>1
  <2> QED
    BY <1>2, <1>3, <2>1, <2>2
<1> HIDE DEF at
<1> QED
  BY <1>6, <1>7, <1>8, <1>9

LEMMA NumbersStand ==
    ASSUME NEW t \in CiteTasks
    PROVE  VerifiedStands(t, Verdict(t.claim, t.evidence, t.citations))
<1> SUFFICES ASSUME t.claim.value # None, Verdict(t.claim, t.evidence, t.citations) = "verified"
             PROVE  \E chunk \in t.evidence, cite \in t.citations :
                       /\ chunk.verbatim /\ chunk.path = cite.path
                       /\ t.claim.path \in {None, chunk.path}
                       /\ StandsCited(chunk, cite, t.claim.value)
  BY DEF VerifiedStands
<1> DEFINE value == t.claim.value
<1>1. PICK text \in CitedChunks(t.evidence, t.citations) :
          LiteralFound(value, text.text) /\ (t.claim.path # None => text.path = t.claim.path)
  BY DEF Verdict, ScopeOf, Supports
<1>2. PICK chunk \in t.evidence, cite \in t.citations :
          /\ text = Sliced(chunk, cite) /\ chunk.verbatim
          /\ WellFormed(cite) /\ chunk.path = cite.path
          /\ Ranged(cite) => Covers(chunk, cite)
  BY <1>1, CitedText
<1> DEFINE raw == chunk.raw
           from == CitedFrom(chunk, cite)
           to == CitedTo(chunk, cite)
<1>3. /\ chunk.lo \in Int /\ chunk.hi \in Int /\ raw \in Seq(ToSet(raw)) /\ raw # <<>>
      /\ {cite.start, cite.end} \subseteq Int \union {None} /\ None \notin Int
      /\ value \in Seq(ToSet(value)) /\ value # <<>>
  BY EvidenceAssumption
<1>4. Len(raw) \in Nat \ {0} /\ SubSeq(raw, 1, Len(raw)) = raw
  BY <1>3
<1>5. t.claim.path \in {None, chunk.path}
  BY <1>1, <1>2 DEF Sliced
<1>6. /\ from \in Nat /\ to \in Nat /\ from < to /\ to <= Len(raw)
      /\ to < Len(raw) => raw[to + 1] # SecondByte
      /\ text.text = SubSeq(raw, from + 1, to)
  <2>1. CASE Ranged(cite)
    <3>1. from = cite.start - chunk.lo /\ to = cite.end - chunk.lo
      BY <2>1 DEF CitedFrom, CitedTo
    <3>2. /\ cite.start \in Int /\ cite.end \in Int /\ cite.start < cite.end
          /\ chunk.lo <= cite.start /\ cite.end <= chunk.hi /\ Len(raw) = chunk.hi - chunk.lo
          /\ to < Len(raw) => raw[to + 1] # SecondByte
      BY <2>1, <3>1, <1>2, <1>3 DEF WellFormed, Covers, WholeCharacters
    <3>3. text.text = SubSeq(raw, from + 1, to)
      BY <2>1, <3>1, <1>2 DEF Sliced
    <3> HIDE DEF from, to
    <3>4. from \in Nat /\ to \in Nat /\ from < to /\ to <= Len(raw)
      BY <3>1, <3>2, <1>3
    <3> QED
      BY <3>2, <3>3, <3>4
  <2>2. CASE ~Ranged(cite)
    <3>1. from = 0 /\ to = Len(raw) /\ text.text = raw
      BY <2>2, <1>2 DEF CitedFrom, CitedTo, Sliced
    <3> QED
      BY <3>1, <1>4
  <2> QED
    BY <2>1, <2>2
<1>7. StandsCited(chunk, cite, value)
  <2> HIDE DEF from, to, raw, value
  <2>1. \E i \in from + 1 .. to :
              /\ i + Len(value) - 1 <= to
              /\ Stands(raw, i, value)
              /\ i > from + 1 => raw[i - 1] \in Separators
              /\ i + Len(value) - 1 < to => raw[i + Len(value)] \in Separators
    BY <1>1, <1>3, <1>6, FoundInSlice
  <2>2. 0 <= from
    BY <1>6
  <2> QED
    BY <1>6, <2>1, <2>2, Zenon DEF StandsCited, from, to, raw
<1> QED
  BY <1>2, <1>5, <1>7

\* The bytes of a tag that is accepted are among those that the tag cites.
LEMMA TagIsReadBack ==
    ASSUME NEW t \in CiteTasks,
           NEW tag \in CitedAnswer({<<c.path, c.start, c.end>> : c \in t.citations}, FALSE, t.evidence).citations,
           NEW chunk \in t.evidence, Tag(chunk) = tag,
           chunk.verbatim, Len(chunk.raw) = chunk.hi - chunk.lo
    PROVE  chunk.raw \in {c.text : c \in CitedChunks(t.evidence, t.citations)}
<1>1. PICK cite \in t.citations : tag = <<cite.path, cite.start, cite.end>>
  BY DEF CitedAnswer
<1>2. cite.path = chunk.path /\ cite.start = chunk.lo /\ cite.end = chunk.hi
  BY <1>1 DEF Tag
<1>3. /\ chunk.lo \in Int /\ chunk.hi \in Int /\ chunk.raw \in Seq(ToSet(chunk.raw)) /\ None \notin Int
      /\ chunk.raw # <<>> /\ chunk.raw # None /\ chunk.raw[1] # SecondByte
  BY EvidenceAssumption
<1> DEFINE size == chunk.hi - chunk.lo
<1>4. size \in Nat /\ size > 0 /\ Len(chunk.raw) = size
  BY <1>3
<1>5. Ranged(cite)
  BY <1>2, <1>3 DEF Ranged
<1>6. 0 <= chunk.lo
  BY <1>3, EvidenceAssumption
<1>7. WellFormed(cite) /\ chunk.path = cite.path /\ Source(chunk) # None /\ Covers(chunk, cite)
  BY <1>2, <1>3, <1>4, <1>6 DEF WellFormed, Source, Covers, WholeCharacters
<1>8. Sliced(chunk, cite) \in CitedChunks(t.evidence, t.citations)
  <2>1. <<chunk, cite>> \in t.evidence \X t.citations
    OBVIOUS
  <2> QED
    BY <2>1, <1>7 DEF CitedChunks
<1>9. Sliced(chunk, cite).text = chunk.raw
  <2>1. Sliced(chunk, cite).text = SubSeq(chunk.raw, 1, Len(chunk.raw))
    <3>1. cite.start - chunk.lo + 1 = 1 /\ cite.end - chunk.lo = Len(chunk.raw)
      BY <1>2, <1>3, <1>4
    <3> QED
      BY <3>1, <1>5 DEF Sliced
  <2> QED
    BY <2>1, <1>3
<1> QED
  BY <1>8, <1>9

\* Every fact of the claimed field bears out a claim that is supported.
LEMMA FactsBearOut ==
    ASSUME NEW t \in FactTasks, VerifyStructuredClaim(t.claim, t.facts) = "supported",
           NEW f \in t.facts, f.field = t.claim.field
    PROVE  /\ f.negated = t.claim.negated
           /\ t.claim.current = "yes" => f.current = "yes"
           /\ f.unit = t.claim.unit => f.value = t.claim.value
<1>1. CompareFact(t.claim, f) = "supported"
  <2> DEFINE labels == {CompareFact(t.claim, e) : e \in {e \in t.facts : e.field = t.claim.field}}
  <2>1. CompareFact(t.claim, f) \in labels
    OBVIOUS
  <2> HIDE DEF labels
  <2>2. VerifyStructuredClaim(t.claim, t.facts) =
            CASE labels = {} -> "unknown"
              [] "conflict" \in labels -> "conflict"
              [] labels = {"supported"} -> "supported"
              [] OTHER -> "unknown"
    BY Zenon DEF VerifyStructuredClaim, labels
  <2>3. labels = {"supported"}
    BY <2>1, <2>2
  <2> QED
    BY <2>1, <2>3
<1>2. t.claim.value \in Int /\ f.value \in Int
  BY EvidenceAssumption
<1> DEFINE l == Quantity(t.claim)
           r == Quantity(f)
<1>3. /\ t.claim.current = "yes" => f.current = "yes"
      /\ l = r /\ None \notin {l, r} /\ t.claim.negated = f.negated
  BY <1>1, Zenon DEF CompareFact
<1>4. f.unit = t.claim.unit => f.value = t.claim.value
  <2>1. CASE f.unit = ""
    BY <2>1, <1>2, <1>3 DEF Quantity
  <2>2. CASE f.unit = "m"
    <3> SUFFICES ASSUME t.claim.unit = "m" PROVE f.value = t.claim.value
      BY <2>2
    <3>1. r = <<"length", 10 * f.value>> /\ l = <<"length", 10 * t.claim.value>>
      BY <2>2 DEF Quantity
    <3>2. 10 * f.value = 10 * t.claim.value
      <4>1. l[2] = r[2]
        BY <1>3
      <4>2. r[2] = 10 * f.value /\ l[2] = 10 * t.claim.value
        BY <3>1
      <4> QED
        BY <4>1, <4>2
    <3> QED
      BY <3>2, <1>2
  <2>3. CASE f.unit = "dm"
    BY <2>3, <1>2, <1>3 DEF Quantity
  <2>4. CASE f.unit \notin {"", "m", "dm"}
    BY <2>4, <1>3 DEF Quantity
  <2> QED
    BY <2>1, <2>2, <2>3, <2>4
<1> QED
  BY <1>3, <1>4

\* A finite set has more than one member if and only if it has two.
LEMMA SeveralAre ==
    ASSUME NEW S, IsFiniteSet(S)
    PROVE  Cardinality(S) > 1 <=> \E x, y \in S : x # y
<1>1. Cardinality(S) \in Nat /\ (Cardinality(S) = 0 <=> S = {}) /\ (Cardinality(S) = 1 <=> \E x : S = {x})
  BY FS_CardinalityType, FS_EmptySet, FS_Singleton
<1>2. (\E x, y \in S : x # y) <=> S # {} /\ ~\E x : S = {x}
  OBVIOUS
<1> QED
  BY <1>1, <1>2

\* What the files give, each fact with its entity and its file.
FactsOf(hits) ==
    UNION {{[of |-> h.entity, field |-> f[1], value |-> f[2], path |-> h.path] : f \in h.facts} : h \in hits}

LEMMA FactsAreFinite == \A t \in ConflictTasks : IsFiniteSet(FactsOf(t))
<1> SUFFICES ASSUME NEW t \in ConflictTasks PROVE IsFiniteSet(FactsOf(t))
  OBVIOUS
<1> DEFINE Stated(h) == {[of |-> h.entity, field |-> f[1], value |-> f[2], path |-> h.path] : f \in h.facts}
<1>1. IsFiniteSet(t) /\ \A h \in t : IsFiniteSet(h.facts)
  BY EvidenceAssumption
<1>2. ASSUME NEW h \in t PROVE IsFiniteSet(Stated(h))
  <2> DEFINE record == [f \in h.facts |-> [of |-> h.entity, field |-> f[1], value |-> f[2], path |-> h.path]]
  <2>1. IsFiniteSet({record[f] : f \in h.facts})
    <3>1. DOMAIN record = h.facts
      OBVIOUS
    <3> HIDE DEF record
    <3> QED
      BY <1>1, <3>1, ImageIsFinite
  <2>2. {record[f] : f \in h.facts} = Stated(h)
    OBVIOUS
  <2> QED
    BY <2>1, <2>2
<1>3. IsFiniteSet({Stated(h) : h \in t})
  <2> DEFINE given == [h \in t |-> Stated(h)]
  <2> HIDE DEF Stated
  <2>1. IsFiniteSet({given[h] : h \in t})
    <3>1. DOMAIN given = t
      OBVIOUS
    <3> HIDE DEF given
    <3> QED
      BY <1>1, <3>1, ImageIsFinite
  <2>2. {given[h] : h \in t} = {Stated(h) : h \in t}
    OBVIOUS
  <2> QED
    BY <2>1, <2>2
<1>4. IsFiniteSet(UNION {Stated(h) : h \in t})
  BY <1>2, <1>3, FS_UNION
<1> QED
  BY <1>4 DEF FactsOf

\* Two files that give a field of an entity different values are named.
LEMMA ConflictsAreNamed ==
    ASSUME NEW t \in ConflictTasks, NEW g \in t, NEW h \in t, NEW f \in g.facts, NEW e \in h.facts,
           g.entity = h.entity, f[1] = e[1], f[2] # e[2]
    PROVE  \E c \in DetectStructuralConflicts(t) :
              {f[2], e[2]} \subseteq c.values /\ {g.path, h.path} \subseteq c.paths
<1> DEFINE slot == [of |-> g.entity, field |-> f[1]]
           In == {k \in FactsOf(t) : k.of = slot.of /\ k.field = slot.field}
           one == [of |-> g.entity, field |-> f[1], value |-> f[2], path |-> g.path]
           two == [of |-> h.entity, field |-> e[1], value |-> e[2], path |-> h.path]
           c == [slot |-> slot, values |-> {k.value : k \in In}, paths |-> {k.path : k \in In}]
<1>1. one \in In /\ two \in In
  <2> DEFINE Stated(k) == {[of |-> k.entity, field |-> d[1], value |-> d[2], path |-> k.path] : d \in k.facts}
  <2>1. one \in Stated(g) /\ two \in Stated(h)
    OBVIOUS
  <2>2. Stated(g) \subseteq FactsOf(t) /\ Stated(h) \subseteq FactsOf(t)
    BY Zenon DEF FactsOf
  <2>3. one.of = slot.of /\ one.field = slot.field /\ two.of = slot.of /\ two.field = slot.field
    OBVIOUS
  <2> HIDE DEF one, two, slot
  <2> QED
    BY <2>1, <2>2, <2>3
<1>2. IsFiniteSet(In)
  BY FactsAreFinite, FS_Subset, EvidenceAssumption
<1>3. slot \in {[of |-> k.of, field |-> k.field] : k \in FactsOf(t)}
  BY <1>1
<1> HIDE DEF slot, In
<1>4. {f[2], e[2]} \subseteq {k.value : k \in In} /\ {g.path, h.path} \subseteq {k.path : k \in In}
  BY <1>1
<1>5. IsFiniteSet({k.value : k \in In})
  <2> DEFINE value == [k \in In |-> k.value]
  <2>1. IsFiniteSet({value[k] : k \in In})
    <3>1. DOMAIN value = In
      OBVIOUS
    <3> HIDE DEF value
    <3> QED
      BY <1>2, <3>1, ImageIsFinite
  <2>2. {value[k] : k \in In} = {k.value : k \in In}
    OBVIOUS
  <2> QED
    BY <2>1, <2>2
<1>6. Cardinality({k.value : k \in In}) > 1
  BY <1>4, <1>5, SeveralAre
<1>7. c \in DetectStructuralConflicts(t)
  BY <1>3, <1>6 DEF DetectStructuralConflicts, FactsOf, In
<1> QED
  BY <1>4, <1>7

\* So are two that contradict each other in words.
LEMMA ContradictionsAreNamed ==
    ASSUME NEW hits, NEW verdict, NEW g \in hits, NEW h \in hits, g.path # h.path, Contradict(g, h)
    PROVE  [field |-> "conclusion", paths |-> {g.path, h.path}] \in DetectSemanticConflicts(hits, verdict)
<1> DEFINE p == <<g, h>>
           c == [field |-> "conclusion", paths |-> {p[1].path, p[2].path}]
<1>1. p \in hits \X hits /\ p[1].path # p[2].path /\ Contradict(p[1], p[2])
  OBVIOUS
<1> HIDE DEF p
<1>2. c \in DetectSemanticConflicts(hits, verdict)
  BY <1>1 DEF DetectSemanticConflicts
<1>3. c = [field |-> "conclusion", paths |-> {g.path, h.path}]
  BY DEF p
<1> QED
  BY <1>2, <1>3, Zenon

\* A note is made only of files, or of facts, that are several.
LEMMA NotesAreOfSeveral ==
    ASSUME NEW t \in ConflictTasks, NEW verdict, AnnotateForGenerator(t, verdict).note
    PROVE  Cardinality(t) > 1 \/ \E h \in t : Cardinality(h.facts) > 1
<1>1. IsFiniteSet(t) /\ \A h \in t : IsFiniteSet(h.facts)
  BY EvidenceAssumption
<1>2. ASSUME NEW g \in t, NEW h \in t, g # h PROVE Cardinality(t) > 1
  BY <1>1, <1>2, SeveralAre
<1>3. DetectStructuralConflicts(t) # {} \/ DetectSemanticConflicts(t, verdict) # {}
  BY DEF AnnotateForGenerator
<1>4. CASE DetectSemanticConflicts(t, verdict) # {}
  <2>1. (\E p \in t \X t : p[1].path # p[2].path) \/ Cardinality(t) > 1
    BY <1>4 DEF DetectSemanticConflicts
  <2>2. ASSUME NEW p \in t \X t, p[1].path # p[2].path PROVE p[1] \in t /\ p[2] \in t /\ p[1] # p[2]
    BY <2>2
  <2> QED
    BY <1>2, <2>1, <2>2
<1>5. CASE DetectStructuralConflicts(t) # {}
  <2> DEFINE In(s) == {f \in FactsOf(t) : f.of = s.of /\ f.field = s.field}
  <2>1. PICK s : Cardinality({f.value : f \in In(s)}) > 1
    BY <1>5, Zenon DEF DetectStructuralConflicts, FactsOf
  <2>2. IsFiniteSet({f.value : f \in In(s)})
    <3> DEFINE S == In(s)
               value == [k \in S |-> k.value]
    <3>1. IsFiniteSet(S)
      BY FactsAreFinite, FS_Subset
    <3>2. IsFiniteSet({value[k] : k \in S})
      <4>1. DOMAIN value = S
        OBVIOUS
      <4> HIDE DEF value, S
      <4> QED
        BY <3>1, <4>1, ImageIsFinite
    <3>3. {value[k] : k \in S} = {f.value : f \in S}
      OBVIOUS
    <3> QED
      BY <3>2, <3>3
  <2>3. PICK x, y \in {f.value : f \in In(s)} : x # y
    BY <2>1, <2>2, SeveralAre
  <2>4. PICK k, l \in FactsOf(t) : k.value = x /\ l.value = y /\ k.field = l.field
    BY <2>3
  <2>5. ASSUME NEW m \in FactsOf(t)
        PROVE  \E h \in t : \E f \in h.facts : m = [of |-> h.entity, field |-> f[1], value |-> f[2], path |-> h.path]
    BY DEF FactsOf
  <2>6. PICK g \in t : \E f \in g.facts : k = [of |-> g.entity, field |-> f[1], value |-> f[2], path |-> g.path]
    BY <2>5
  <2>7. PICK h \in t : \E f \in h.facts : l = [of |-> h.entity, field |-> f[1], value |-> f[2], path |-> h.path]
    BY <2>5
  <2>8. PICK f \in g.facts : k = [of |-> g.entity, field |-> f[1], value |-> f[2], path |-> g.path]
    BY <2>6
  <2>9. PICK e \in h.facts : l = [of |-> h.entity, field |-> e[1], value |-> e[2], path |-> h.path]
    BY <2>7
  <2>10. f # e
    BY <2>3, <2>4, <2>8, <2>9
  <2>11. CASE g = h
    BY <1>1, <2>10, <2>11, SeveralAre
  <2> QED
    BY <1>2, <2>11
<1> QED
  BY <1>3, <1>4, <1>5

----------------------------------------------------------------------------
(* The numbers of an answer, each a claim.                                   *)
PathOf(said) == IF said.paths = <<>> THEN None ELSE said.paths[1]

ClaimOf(sentences, n) ==
    [at |-> n[1], value |-> n[2], path |-> PathOf(sentences[n[1]]), words |-> sentences[n[1]].words]

LEMMA NumbersAreClaimed ==
    ASSUME NEW sentences, NEW n \in NumbersOf(sentences)
    PROVE  /\ n = <<n[1], n[2]>> /\ n[1] \in DOMAIN sentences
           /\ n[2] \in sentences[n[1]].values
           /\ ClaimOf(sentences, n) \in ExtractClaims(sentences)
<1>1. PICK i \in DOMAIN sentences : ~sentences[i].short /\ n \in {<<i, v>> : v \in sentences[i].values}
  BY DEF NumbersOf
<1>2. PICK v \in sentences[i].values : n = <<i, v>>
  BY <1>1
<1> DEFINE ClaimsOf(j) ==
              LET said == sentences[j]
                  path == IF said.paths = <<>> THEN None ELSE said.paths[1]
                  values == IF said.values # {} THEN said.values
                            ELSE IF path # None \/ said.asserts THEN {None} ELSE {}
              IN IF said.short THEN {}
                 ELSE {[at |-> j, value |-> w, path |-> path, words |-> said.words] : w \in values}
<1>3. ExtractClaims(sentences) = UNION {ClaimsOf(j) : j \in DOMAIN sentences}
  BY DEF ExtractClaims
<1>4. ClaimOf(sentences, n) \in ClaimsOf(i)
  BY <1>1, <1>2 DEF ClaimOf, PathOf
<1> HIDE DEF ClaimsOf
<1> QED
  BY <1>1, <1>2, <1>3, <1>4

LEMMA ClaimsAreFinite ==
    ASSUME NEW t \in ClaimTasks
    PROVE  IsFiniteSet(ExtractClaims(t.sentences))
<1> DEFINE sentences == t.sentences
           ValuesOf(j) == IF sentences[j].values # {} THEN sentences[j].values
                          ELSE IF PathOf(sentences[j]) # None \/ sentences[j].asserts THEN {None} ELSE {}
           ClaimsOf(j) == IF sentences[j].short THEN {}
                          ELSE {[at |-> j, value |-> w, path |-> PathOf(sentences[j]),
                                 words |-> sentences[j].words] : w \in ValuesOf(j)}
<1>1. ExtractClaims(sentences) = UNION {ClaimsOf(j) : j \in DOMAIN sentences}
  BY DEF ExtractClaims, PathOf
<1>2. sentences \in Seq(ToSet(sentences)) /\ \A j \in DOMAIN sentences : IsFiniteSet(sentences[j].values)
  BY EvidenceAssumption
<1>3. IsFiniteSet(DOMAIN sentences)
  <2>1. \A all : \A list \in Seq(all) : DOMAIN list = 1 .. Len(list) /\ Len(list) \in Nat
    OBVIOUS
  <2>2. DOMAIN sentences = 1 .. Len(sentences) /\ Len(sentences) \in Nat
    BY <1>2, <2>1, ZenonT(60)
  <2> QED
    BY <2>2, FirstNumbers
<1>4. ASSUME NEW j \in DOMAIN sentences PROVE IsFiniteSet(ClaimsOf(j))
  <2>1. IsFiniteSet(ValuesOf(j))
    BY <1>2, FS_EmptySet, FS_Singleton
  <2> DEFINE S == ValuesOf(j)
             claim == [w \in S |-> [at |-> j, value |-> w, path |-> PathOf(sentences[j]),
                                    words |-> sentences[j].words]]
  <2>2. IsFiniteSet({claim[w] : w \in S})
    <3>1. DOMAIN claim = S
      OBVIOUS
    <3> HIDE DEF claim, S
    <3> QED
      BY <2>1, <3>1, ImageIsFinite DEF S
  <2>3. ClaimsOf(j) = {claim[w] : w \in S} \/ ClaimsOf(j) = {}
    OBVIOUS
  <2> QED
    BY <2>2, <2>3, FS_EmptySet
<1>5. IsFiniteSet({ClaimsOf(j) : j \in DOMAIN sentences})
  <2> HIDE DEF ClaimsOf
  <2> DEFINE S == DOMAIN sentences
             claims == [j \in S |-> ClaimsOf(j)]
  <2>1. IsFiniteSet({claims[j] : j \in S})
    <3>1. DOMAIN claims = S
      OBVIOUS
    <3> HIDE DEF claims, S
    <3> QED
      BY <1>3, <3>1, ImageIsFinite DEF S
  <2>2. {claims[j] : j \in S} = {ClaimsOf(j) : j \in DOMAIN sentences}
    OBVIOUS
  <2> QED
    BY <2>1, <2>2
<1> HIDE DEF ClaimsOf
<1>6. IsFiniteSet(UNION {ClaimsOf(j) : j \in DOMAIN sentences})
  BY <1>4, <1>5, FS_UNION
<1> QED
  BY <1>1, <1>6

\* A number that nothing cited contains is a claim that is not verified.
LEMMA InventedIsNotVerified ==
    ASSUME NEW claim, NEW evidence, NEW citations, claim.value # None,
           ~Supports(CitedChunks(evidence, citations), claim.value)
    PROVE  Verdict(claim, evidence, citations) # "verified"
<1>1. ~Supports(ScopeOf(claim, CitedChunks(evidence, citations)), claim.value)
  BY DEF Supports, ScopeOf
<1> QED
  BY <1>1 DEF Verdict

LEMMA InventedAreFew ==
    ASSUME NEW t \in ClaimTasks, VerifyAnswer(t.sentences, t.evidence, t.citations).passes
    PROVE  FewInvented(t, VerifyAnswer(t.sentences, t.evidence, t.citations).claims)
<1> DEFINE claims == ExtractClaims(t.sentences)
           verified == {c \in claims : Verdict(c, t.evidence, t.citations) = "verified"}
           numbers == NumbersOf(t.sentences)
           invented == {n \in numbers : ~Supports(CitedChunks(t.evidence, t.citations), n[2])}
           claim == [n \in invented |-> ClaimOf(t.sentences, n)]
<1>1. /\ VerifyAnswer(t.sentences, t.evidence, t.citations).claims = claims
      /\ 2 * Cardinality(verified) >= Cardinality(claims)
  BY DEF VerifyAnswer
<1>2. IsFiniteSet(claims)
  BY ClaimsAreFinite
<1>3. ASSUME NEW n \in invented PROVE ClaimOf(t.sentences, n) \in claims \ verified
  <2>1. ClaimOf(t.sentences, n) \in claims /\ n[2] # None
    BY NumbersAreClaimed, EvidenceAssumption
  <2>2. ClaimOf(t.sentences, n).value = n[2]
    BY DEF ClaimOf
  <2> QED
    BY <2>1, <2>2, InventedIsNotVerified
<1>4. claim \in Injection(invented, claims \ verified)
  <2>1. ASSUME NEW m \in invented, NEW n \in invented, claim[m] = claim[n] PROVE m = n
    <3>1. ClaimOf(t.sentences, m).at = ClaimOf(t.sentences, n).at /\ ClaimOf(t.sentences, m).value = ClaimOf(t.sentences, n).value
      BY <2>1
    <3>2. m[1] = n[1] /\ m[2] = n[2]
      BY <3>1 DEF ClaimOf
    <3>3. m = <<m[1], m[2]>> /\ n = <<n[1], n[2]>>
      BY NumbersAreClaimed
    <3> QED
      BY <3>2, <3>3, Zenon
  <2>2. claim \in [invented -> claims \ verified]
    BY <1>3
  <2> HIDE DEF claim, invented, claims, verified
  <2> QED
    BY <2>1, <2>2 DEF Injection, IsInjective
<1>5. Cardinality(invented) <= Cardinality(claims \ verified) /\ Cardinality(invented) \in Nat
  <2>1. IsFiniteSet(claims \ verified)
    BY <1>2, FS_Difference
  <2> HIDE DEF claim, invented, claims, verified
  <2> QED
    BY <1>4, <2>1, FS_Injection, FS_CardinalityType
<1>6. /\ Cardinality(claims \ verified) = Cardinality(claims) - Cardinality(verified)
      /\ Cardinality(claims) \in Nat /\ Cardinality(verified) \in Nat
  <2>1. claims \intersect verified = verified
    OBVIOUS
  <2>2. IsFiniteSet(verified)
    BY <1>2, FS_Subset
  <2> HIDE DEF claims, verified
  <2> QED
    BY <1>2, <2>1, <2>2, FS_Difference, FS_CardinalityType
<1>7. 2 * Cardinality(invented) <= Cardinality(claims)
  <2> HIDE DEF claims, verified, invented
  <2> QED
    BY <1>1, <1>5, <1>6
<1>8. numbers \subseteq {<<c.at, c.value>> : c \in claims}
  <2> SUFFICES ASSUME NEW n \in numbers PROVE n \in {<<c.at, c.value>> : c \in claims}
    OBVIOUS
  <2>1. n = <<n[1], n[2]>> /\ ClaimOf(t.sentences, n) \in claims
    BY NumbersAreClaimed
  <2>2. ClaimOf(t.sentences, n).at = n[1] /\ ClaimOf(t.sentences, n).value = n[2]
    BY DEF ClaimOf
  <2> HIDE DEF claims, numbers
  <2> QED
    BY <2>1, <2>2
<1> HIDE DEF claims, numbers, invented
<1>9. VerifyAnswer(t.sentences, t.evidence, t.citations).claims = claims
  BY <1>1
<1> QED
  BY <1>7, <1>8, <1>9 DEF FewInvented, numbers, invented
----------------------------------------------------------------------------
(* The checks of an answer, one by one.                                      *)

\* No check of an answer is computed before it is given.
LEMMA AnswersStart == Init => AnswerKeepsToCitations
<1> SUFFICES ASSUME Init PROVE AnswerKeepsToCitations
  OBVIOUS
<1>1. kind \notin {"cite", "fact", "conflict", "claims"}
  BY DEF Init
<1> QED
  BY <1>1, Zenon DEF AnswerKeepsToCitations

LEMMA CitationsKeep == CiteAnswer => AnswerKeepsToCitations'
<1> SUFFICES ASSUME CiteAnswer PROVE AnswerKeepsToCitations'
  OBVIOUS
<1>1. PICK t \in CiteTasks :
          /\ kind' = "cite" /\ task' = t
          /\ result' = [verdict |-> Verdict(t.claim, t.evidence, t.citations),
                        reply |-> CitedAnswer({<<c.path, c.start, c.end>> : c \in t.citations}, FALSE, t.evidence)]
  BY Zenon DEF CiteAnswer, Computed
<1>2. /\ result'.verdict = Verdict(t.claim, t.evidence, t.citations)
      /\ result'.reply = CitedAnswer({<<c.path, c.start, c.end>> : c \in t.citations}, FALSE, t.evidence)
  BY <1>1
<1>3. VerifiedStands(t, result'.verdict)
  BY <1>2, NumbersStand, Zenon
<1>4. TagsReadBack(t, result'.reply.citations)
  BY <1>2, TagIsReadBack, Zenon DEF TagsReadBack
<1>5. kind' \notin {"fact", "conflict", "claims"}
  BY <1>1
<1> QED
  BY <1>1, <1>3, <1>4, <1>5, Zenon DEF AnswerKeepsToCitations

LEMMA FactsKeep == CheckFact => AnswerKeepsToCitations'
<1> SUFFICES ASSUME CheckFact PROVE AnswerKeepsToCitations'
  OBVIOUS
<1>1. PICK t \in FactTasks :
          kind' = "fact" /\ task' = t /\ result' = VerifyStructuredClaim(t.claim, t.facts)
  BY Zenon DEF CheckFact, Computed
<1>2. SupportedByAll(t, result')
  BY <1>1, FactsBearOut, Zenon DEF SupportedByAll
<1>3. kind' \notin {"cite", "conflict", "claims"}
  BY <1>1
<1> QED
  BY <1>1, <1>2, <1>3, Zenon DEF AnswerKeepsToCitations

LEMMA ConflictsKeep == FindConflicts => AnswerKeepsToCitations'
<1> SUFFICES ASSUME FindConflicts PROVE AnswerKeepsToCitations'
  OBVIOUS
<1>1. PICK t \in ConflictTasks, verdict \in {"conflict", "ok"} :
          kind' = "conflict" /\ task' = t /\ result' = AnnotateForGenerator(t, verdict)
  BY Zenon DEF FindConflicts, Computed
<1>2. /\ result'.structural = DetectStructuralConflicts(t)
      /\ result'.semantic = DetectSemanticConflicts(t, verdict)
      /\ result'.note <=> result'.structural # {} \/ result'.semantic # {}
  BY <1>1 DEF AnnotateForGenerator
<1>3. \A g, h \in t : \A f \in g.facts, e \in h.facts :
         g.entity = h.entity /\ f[1] = e[1] /\ f[2] # e[2] =>
            \E c \in result'.structural : {f[2], e[2]} \subseteq c.values /\ {g.path, h.path} \subseteq c.paths
  <2> SUFFICES ASSUME NEW g \in t, NEW h \in t, NEW f \in g.facts, NEW e \in h.facts,
                      g.entity = h.entity, f[1] = e[1], f[2] # e[2]
               PROVE  \E c \in result'.structural : {f[2], e[2]} \subseteq c.values /\ {g.path, h.path} \subseteq c.paths
    BY ZenonT(60)
  <2>1. \E c \in DetectStructuralConflicts(t) : {f[2], e[2]} \subseteq c.values /\ {g.path, h.path} \subseteq c.paths
    BY ConflictsAreNamed
  <2> QED
    BY <2>1, <1>2, Zenon
<1>4. \A g, h \in t : g.path # h.path /\ Contradict(g, h) =>
         result'.note /\ \E c \in result'.semantic : {g.path, h.path} = c.paths
  <2> SUFFICES ASSUME NEW g \in t, NEW h \in t, g.path # h.path, Contradict(g, h)
               PROVE  result'.note /\ \E c \in result'.semantic : {g.path, h.path} = c.paths
    BY Zenon
  <2> DEFINE c == [field |-> "conclusion", paths |-> {g.path, h.path}]
  <2>1. c \in DetectSemanticConflicts(t, verdict) /\ c.paths = {g.path, h.path}
    BY ContradictionsAreNamed
  <2> HIDE DEF c
  <2> QED
    BY <1>2, <2>1, ZenonT(60)
<1>5. result'.note => Cardinality(t) > 1 \/ \E h \in t : Cardinality(h.facts) > 1
  BY <1>1, NotesAreOfSeveral, Zenon
<1>6. kind' \notin {"cite", "fact", "claims"}
  BY <1>1
<1>7. ConflictsNamed(t, result')
  BY <1>3, <1>4, <1>5, Zenon DEF ConflictsNamed
<1> QED
  BY <1>1, <1>6, <1>7, Zenon DEF AnswerKeepsToCitations

LEMMA ClaimsKeep == CheckClaims => AnswerKeepsToCitations'
<1> SUFFICES ASSUME CheckClaims PROVE AnswerKeepsToCitations'
  OBVIOUS
<1>1. PICK t \in ClaimTasks :
          kind' = "claims" /\ task' = t /\ result' = VerifyAnswer(t.sentences, t.evidence, t.citations)
  BY Zenon DEF CheckClaims, Computed
<1>2. result'.passes => FewInvented(t, result'.claims)
  BY <1>1, InventedAreFew, Zenon
<1>3. kind' \notin {"cite", "fact", "conflict"}
  BY <1>1
<1> QED
  BY <1>1, <1>2, <1>3, Zenon DEF AnswerKeepsToCitations

LEMMA AnswersStep ==
    AnswerKeepsToCitations /\ [Next]_<<benchVars, beirVars, poolVars, loadVars, computeVars>>
        => AnswerKeepsToCitations'
<1> SUFFICES ASSUME AnswerKeepsToCitations,
                    [Next]_<<benchVars, beirVars, poolVars, loadVars, computeVars>>
             PROVE  AnswerKeepsToCitations'
  OBVIOUS
<1>1. CASE UNCHANGED <<kind, task, result>>
  <2>1. kind' = kind /\ task' = task /\ result' = result
    BY <1>1
  <2> QED
    BY <2>1, Zenon DEF AnswerKeepsToCitations
<1>2. CASE kind' \notin {"cite", "fact", "conflict", "claims"}
  BY <1>2, Zenon DEF AnswerKeepsToCitations
<1>3. CheckService => kind' \notin {"cite", "fact", "conflict", "claims"}
  BY DEF CheckService, Computed
<1>4. kind' \notin {"cite", "fact", "conflict", "claims", "service"} => kind' \notin {"cite", "fact", "conflict", "claims"}
  OBVIOUS
<1>5. Next \/ UNCHANGED <<kind, task, result>>
  BY DEF computeVars
<1> QED
  BY <1>1, <1>2, <1>3, <1>4, <1>5, ChecksAre, CitationsKeep, FactsKeep, ConflictsKeep, ClaimsKeep, Zenon

\* Whatever an answer cites and claims, and whatever the files say: a number
\* is verified only where it stands, a claim is supported only by every fact
\* of its field, a conflict names both of its files, and few of the numbers
\* of an answer that passes are invented (app/agent, app/graph/conflicts.py).
THEOREM AnswersKeepToCitations == Spec => []AnswerKeepsToCitations
BY AnswersStart, AnswersStep, PTL DEF Spec
----------------------------------------------------------------------------
(* Charts and artifacts.                                                     *)

LEMMA MinOfTwo == \A i, j \in Int : Min({i, j}) \in {i, j} /\ Min({i, j}) <= i /\ Min({i, j}) <= j
<1> SUFFICES ASSUME NEW i \in Int, NEW j \in Int
             PROVE  Min({i, j}) \in {i, j} /\ Min({i, j}) <= i /\ Min({i, j}) <= j
  OBVIOUS
<1>1. \E x \in {i, j} : \A y \in {i, j} : x <= y
  OBVIOUS
<1> QED
  BY <1>1, Zenon DEF Min

\* Keys are ordered: none before itself, one of two that differ in the last
\* place before the other, and what is before a key also before what follows.
Keys == [1 .. 5 -> Int]

LEMMA KeyBeforeIs ==
    ASSUME NEW k \in Keys, NEW l \in Keys
    PROVE  KeyBefore(k, l) <=>
              \/ k[1] < l[1]
              \/ k[1] = l[1] /\ k[2] < l[2]
              \/ k[1] = l[1] /\ k[2] = l[2] /\ k[3] < l[3]
              \/ k[1] = l[1] /\ k[2] = l[2] /\ k[3] = l[3] /\ k[4] < l[4]
              \/ k[1] = l[1] /\ k[2] = l[2] /\ k[3] = l[3] /\ k[4] = l[4] /\ k[5] < l[5]
<1>1. KeyBefore(k, l) <=> \E i \in 1 .. 5 : k[i] < l[i] /\ \A j \in 1 .. i - 1 : k[j] = l[j]
  BY DEF KeyBefore
<1>2. 1 .. 5 = {1, 2, 3, 4, 5}
  OBVIOUS
<1>3. 1 .. 1 - 1 = {} /\ 1 .. 2 - 1 = {1} /\ 1 .. 3 - 1 = {1, 2} /\ 1 .. 4 - 1 = {1, 2, 3} /\ 1 .. 5 - 1 = {1, 2, 3, 4}
  OBVIOUS
<1> QED
  BY <1>1, <1>2, <1>3

LEMMA KeysAreOrdered ==
    /\ \A k \in Keys : ~KeyBefore(k, k)
    /\ \A k, l \in Keys : k[5] # l[5] => KeyBefore(k, l) \/ KeyBefore(l, k)
    /\ \A k, l, m \in Keys : KeyBefore(k, l) /\ KeyBefore(l, m) => KeyBefore(k, m)
    /\ \A k, l \in Keys : KeyBefore(k, l) => k[1] <= l[1]
<1>1. \A k \in Keys : \A i \in 1 .. 5 : k[i] \in Int
  BY DEF Keys
<1>2. \A k \in Keys : k[1] \in Int /\ k[2] \in Int /\ k[3] \in Int /\ k[4] \in Int /\ k[5] \in Int
  BY <1>1
<1>3. ASSUME NEW k \in Keys PROVE ~KeyBefore(k, k)
  BY <1>2, KeyBeforeIs
<1>4. ASSUME NEW k \in Keys, NEW l \in Keys, k[5] # l[5] PROVE KeyBefore(k, l) \/ KeyBefore(l, k)
  BY <1>2, <1>4, KeyBeforeIs
<1>5. ASSUME NEW k \in Keys, NEW l \in Keys, NEW m \in Keys, KeyBefore(k, l), KeyBefore(l, m) PROVE KeyBefore(k, m)
  BY <1>2, <1>5, KeyBeforeIs
<1>6. ASSUME NEW k \in Keys, NEW l \in Keys, KeyBefore(k, l) PROVE k[1] <= l[1]
  BY <1>2, <1>6, KeyBeforeIs
<1> QED
  BY <1>3, <1>4, <1>5, <1>6

LEMMA KeyIs ==
    ASSUME NEW query, NEW base \in Seq(Corpus), NEW terms, NEW c \in Corpus
    PROVE  /\ EvidenceKey(query, base, terms, c) \in Keys
           /\ EvidenceKey(query, base, terms, c)[5] = PathOrder[c.path]
           /\ query.run # NoRun /\ c.role = "config" /\ c.run = query.run <=>
                 EvidenceKey(query, base, terms, c)[1] = 0
           /\ EvidenceKey(query, base, terms, c)[1] >= 0
<1> DEFINE rank == RoleRank(query, c)
           own == query.run # NoRun /\ c.role = "config" /\ c.run = query.run
<1>1. rank \in Int /\ rank >= 0 /\ (own <=> rank = 0)
  <2>1. \E i \in DOMAIN Roles : Roles[i] = c.role
    BY CorpusAssumption DEF ToSet
  <2> DEFINE at == CHOOSE i \in DOMAIN Roles : Roles[i] = c.role
  <2>2. at \in 1 .. 7
    BY <2>1 DEF Roles
  <2> HIDE DEF at
  <2>3. Min({6, at}) \in {6, at}
    <3>1. at \in Int /\ 6 \in Int
      BY <2>2
    <3> QED
      BY <3>1, MinOfTwo
  <2>4. rank = IF own THEN 0 ELSE Min({6, at})
    BY DEF RoleRank, at
  <2> QED
    BY <2>2, <2>3, <2>4
<1>2. ASSUME NEW S PROVE -Cardinality(S \intersect c.says) \in Int
  <2>1. IsFiniteSet(S \intersect c.says)
    BY CorpusAssumption, FS_Intersection
  <2> QED
    BY <2>1, FS_CardinalityType
<1>3. BaseRank(base, c) \in Int
  <2>1. DOMAIN base \subseteq Int
    OBVIOUS
  <2>2. (\E i \in DOMAIN base : base[i] = c) => (CHOOSE i \in DOMAIN base : base[i] = c) \in DOMAIN base
    BY Zenon
  <2> QED
    BY <2>1, <2>2 DEF BaseRank
<1>4. PathOrder[c.path] \in Int
  BY CorpusAssumption
<1> DEFINE x2 == -Cardinality(terms \intersect c.says)
           x3 == -Cardinality(query.words \intersect c.says)
           x4 == BaseRank(base, c)
           x5 == PathOrder[c.path]
<1>5. x2 \in Int /\ x3 \in Int
  BY <1>2
<1>6. EvidenceKey(query, base, terms, c) = <<rank, x2, x3, x4, x5>>
  BY DEF EvidenceKey
<1> HIDE DEF rank, own, x2, x3, x4, x5
<1>7. <<rank, x2, x3, x4, x5>> \in Keys
  BY <1>1, <1>3, <1>4, <1>5 DEF Keys, x4, x5
<1> QED
  BY <1>1, <1>6, <1>7 DEF own, x5

\* The configuration that a run was started with comes first.
LEMMA ConfigComesFirst ==
    ASSUME NEW query, NEW base \in Seq(Corpus),
           NEW c \in Corpus, c.role = "config", c.run = query.run, c.current = Nothing
    PROVE  LET hits == RetrieveResearchEvidence(query, base)
           IN Len(hits) \in Nat \ {0} /\ hits[1] = c
<1> DEFINE ofRun == {d \in Corpus : query.run # NoRun /\ d.run = query.run}
           found == ToSet(base) \union ofRun
           terms == {t \in RESEARCH_SOURCE_TERMS : \E d \in found : t \in d.says}
           sources == {d \in Corpus : d.role = "py" /\ d.says \intersect terms # {}}
           newest == PreferNewest(query, found \union sources)
           key == [d \in newest |-> EvidenceKey(query, base, terms, d)]
           ahead == [d \in newest |-> {e \in newest : KeyBefore(key[e], key[d])}]
           ordered == Sorted(newest, ahead)
           N == Cardinality(newest)
<1>1. RetrieveResearchEvidence(query, base) = FirstOf(ordered, Evidences)
  BY DEF RetrieveResearchEvidence
<1>2. query.run # NoRun
  BY CorpusAssumption
<1>3. c \in newest /\ newest \subseteq Corpus
  <2>1. c \in found
    BY <1>2
  <2>2. found \union sources \subseteq Corpus
    <3>1. ToSet(base) \subseteq Corpus
      BY DEF ToSet
    <3> QED
      BY <3>1
  <2> HIDE DEF found, sources
  <2> QED
    BY <2>1, <2>2 DEF PreferNewest
<1>4. IsFiniteSet(newest) /\ N \in Nat
  <2> HIDE DEF newest
  <2> QED
    BY <1>3, CorpusAssumption, FS_Subset, FS_CardinalityType
<1> HIDE DEF newest, terms, ofRun, found, sources
<1>5. \A d \in newest : key[d] \in Keys /\ key[d][5] = PathOrder[d.path] /\ key[d][1] >= 0 /\ (d = c <=> key[d][1] = 0)
  <2> SUFFICES ASSUME NEW d \in newest
               PROVE  key[d] \in Keys /\ key[d][5] = PathOrder[d.path] /\ key[d][1] >= 0 /\ (d = c <=> key[d][1] = 0)
    OBVIOUS
  <2>1. key[d] = EvidenceKey(query, base, terms, d) /\ d \in Corpus
    BY <1>3
  <2>2. query.run # NoRun /\ d.role = "config" /\ d.run = query.run <=> d = c
    BY <1>2, <2>1, CorpusAssumption
  <2> HIDE DEF key
  <2> QED
    BY <2>1, <2>2, KeyIs
<1> HIDE DEF key
<1>6. ahead \in [newest -> SUBSET newest] /\ \A d, e \in newest : e \in ahead[d] <=> KeyBefore(key[e], key[d])
  OBVIOUS
<1> HIDE DEF ahead
<1>7. \A d \in newest : d \notin ahead[d]
  BY <1>5, <1>6, KeysAreOrdered
<1>8. \A d, e \in newest : d # e => d \in ahead[e] \/ e \in ahead[d]
  <2>1. \A d, e \in newest : d # e => key[d][5] # key[e][5]
    BY <1>3, <1>5, CorpusAssumption
  <2> QED
    BY <2>1, <1>5, <1>6, KeysAreOrdered
<1>9. \A d, e \in newest : d \in ahead[e] => ahead[d] \subseteq ahead[e]
  <2> SUFFICES ASSUME NEW d \in newest, NEW e \in newest, d \in ahead[e], NEW f \in ahead[d] PROVE f \in ahead[e]
    OBVIOUS
  <2>1. f \in newest
    BY <1>6
  <2>2. KeyBefore(key[f], key[d]) /\ KeyBefore(key[d], key[e])
    BY <1>6, <2>1
  <2>3. key[d] \in Keys /\ key[e] \in Keys /\ key[f] \in Keys
    BY <1>5, <2>1
  <2>4. KeyBefore(key[f], key[e])
    BY <2>2, <2>3, KeysAreOrdered
  <2> QED
    BY <1>6, <2>1, <2>4
<1>10. /\ ordered \in [1 .. N -> newest]
       /\ \A x \in newest : \E n \in 1 .. N : ordered[n] = x
       /\ \A i, j \in 1 .. N : ordered[i] \in ahead[ordered[j]] <=> i < j
  BY <1>4, <1>6, <1>7, <1>8, <1>9, SortedIs
<1> HIDE DEF ordered, N
<1>11. PICK n \in 1 .. N : ordered[n] = c
  BY <1>3, <1>10
<1>12. n = 1
  <2> SUFFICES ASSUME n # 1 PROVE FALSE
    OBVIOUS
  <2>1. 1 \in 1 .. N /\ 1 < n
    BY <1>4, <1>11
  <2>2. ordered[1] \in newest /\ ordered[1] \in ahead[c]
    BY <2>1, <1>10, <1>11
  <2>3. KeyBefore(key[ordered[1]], key[c]) /\ ordered[1] # c
    BY <2>2, <1>3, <1>6, <1>7
  <2>4. key[ordered[1]][1] <= key[c][1] /\ key[ordered[1]] \in Keys /\ key[c] \in Keys
    BY <2>2, <2>3, <1>3, <1>5, KeysAreOrdered
  <2>5. key[ordered[1]][1] \in Int /\ key[ordered[1]][1] >= 0 /\ key[c][1] = 0
    <3>1. \A k \in Keys : k[1] \in Int
      BY DEF Keys
    <3>2. key[ordered[1]][1] >= 0 /\ key[c][1] = 0
      BY <2>2, <1>3, <1>5, Zenon
    <3> QED
      BY <2>4, <3>1, <3>2, Zenon
  <2>6. key[ordered[1]][1] = 0
    BY <2>4, <2>5
  <2> QED
    BY <2>2, <2>3, <2>6, <1>5
<1>13. ordered \in Seq(newest) /\ Len(ordered) = N /\ N >= 1 /\ ordered[1] = c
  BY <1>4, <1>10, <1>11, <1>12
<1>14. FirstOf(ordered, Evidences) = SubSeq(ordered, 1, IF N < Evidences THEN N ELSE Evidences)
  BY <1>13 DEF FirstOf
<1>15. PICK m \in Nat \ {0} : m <= N /\ FirstOf(ordered, Evidences) = SubSeq(ordered, 1, m)
  <2> DEFINE m == IF N < Evidences THEN N ELSE Evidences
  <2>1. m \in Nat \ {0} /\ m <= N
    BY <1>13, <1>4, CorpusAssumption
  <2>2. FirstOf(ordered, Evidences) = SubSeq(ordered, 1, m)
    BY <1>14
  <2> HIDE DEF m
  <2> QED
    BY <2>1, <2>2
<1>16. Len(SubSeq(ordered, 1, m)) = m /\ SubSeq(ordered, 1, m)[1] = ordered[1]
  BY <1>13, <1>15, <1>4
<1> QED
  BY <1>1, <1>13, <1>15, <1>16

\* An artifact, in the kinds of its query.
LEMMA ArtifactSpeaks ==
    ASSUME NEW query, NEW base \in Seq(Corpus)
    PROVE  SpeaksFromEvidence(query, Produce(query, base))
<1> DEFINE plan == Produce(query, base)
<1>1. CASE IsResearch(query)
  <2> DEFINE hits == RetrieveResearchEvidence(query, base)
             code == Repro(hits)
             spec == [SpecFromQuery(query, hits) EXCEPT !.template = "research-repro"]
  <2>1. /\ plan.kind = "research" /\ plan.hits = hits /\ plan.spec = spec /\ plan.code = code
        /\ plan.unsupported = ClaimSupport(query, code, hits)
    BY <1>1, Zenon DEF Produce, Paper2Code
  <2>2. spec.template = "research-repro" /\ spec.citations = {hits[i].path : i \in 1 .. Min({Citations, Len(hits)})}
    BY DEF SpecFromQuery
  <2>3. code.encoder = Encoder(hits) /\ code.fusion = FusionKnown(hits)
    BY DEF Repro
  <2>4. code.encoder # "unknown" => Says(hits, code.encoder) \/ code.encoder \in ClaimSupport(query, code, hits)
    BY DEF ClaimSupport
  <2>5. code.fusion = "False" => Says(hits, "fusion off")
    BY <2>3 DEF FusionKnown
  <2>6. ASSUME NEW c \in Corpus, c.role = "config", c.run = query.run, c.current = Nothing
        PROVE  c.path \in spec.citations
    <3> HIDE DEF hits, spec
    <3>1. Len(hits) \in Nat \ {0} /\ hits[1] = c
      BY <2>6, ConfigComesFirst DEF hits
    <3>2. Citations \in Nat \ {0}
      BY CorpusAssumption
    <3>3. 1 \in 1 .. Min({Citations, Len(hits)})
      <4>1. Citations \in Int /\ Len(hits) \in Int
        BY <3>1, <3>2
      <4>2. Min({Citations, Len(hits)}) \in {Citations, Len(hits)}
        BY <4>1, MinOfTwo
      <4> QED
        BY <3>1, <3>2, <4>2
    <3> QED
      BY <2>2, <3>1, <3>3
  <2>7. plan.spec.template \notin {"python-lib", "pytest"}
    BY <2>1, <2>2
  <2> HIDE DEF plan, hits, code, spec
  <2>8. SpeaksFromEvidence(query, plan)
    BY <2>1, <2>4, <2>5, <2>6, <2>7, Zenon DEF SpeaksFromEvidence
  <2> QED
    BY <2>1, <2>8 DEF plan
<1>2. CASE ~IsResearch(query)
  <2> DEFINE spec == SpecFromQuery(query, base)
             code == Render(spec, query, base)
  <2>1. plan.kind = "code" /\ plan.spec = spec /\ plan.code = code /\ plan.ok = RunSandboxed(code)
    BY <1>2, Zenon DEF Produce
  <2>2. spec.template \in {"python-lib", "pytest"} => code.runs = spec.tests
    BY DEF Render
  <2>3. RunSandboxed(code) => code.runs \subseteq code.defines
    BY DEF RunSandboxed
  <2> HIDE DEF plan, spec, code
  <2>4. SpeaksFromEvidence(query, plan)
    BY <2>1, <2>2, <2>3 DEF SpeaksFromEvidence
  <2> QED
    BY <2>4 DEF plan
<1> QED
  BY <1>1, <1>2

LEMMA BadgesAre ==
    ASSUME NEW bundle, NEW tested \in BOOLEAN
    PROVE  LET badges == ScoreBadges(bundle, tested)
           IN /\ "reusable" \in badges => "functional" \in badges
              /\ "functional" \in badges => "available" \in badges /\ tested /\ "config" \in bundle.roles
<1> DEFINE available == bundle.roles # {}
           functional == available /\ bundle.roles \intersect {"code", "test"} # {}
                         /\ "config" \in bundle.roles /\ tested \in {Nothing, TRUE}
           reusable == functional /\ bundle.roles \intersect {"env", "paper"} # {}
                       /\ (bundle.citations # {} \/ bundle.claims # {})
           earned(b) == CASE b = "available" -> available
                          [] b = "functional" -> functional
                          [] b = "reusable" -> reusable
<1>1. ScoreBadges(bundle, tested) = {b \in {"available", "functional", "reusable"} : earned(b)}
  BY Zenon DEF ScoreBadges
<1>2. tested \in {Nothing, TRUE} => tested
  BY CorpusAssumption
<1>3. (earned("available") <=> available) /\ (earned("functional") <=> functional) /\ (earned("reusable") <=> reusable)
  <2> HIDE DEF available, functional, reusable
  <2> QED
    OBVIOUS
<1>4. (reusable => functional) /\ (functional => available /\ tested /\ "config" \in bundle.roles)
  BY <1>2
<1> HIDE DEF available, functional, reusable, earned
<1> QED
  BY <1>1, <1>3, <1>4

LEMMA BadgesAreEarned == \A run, base : BadgesEarned(CollectRun(run, base))
<1> SUFFICES ASSUME NEW run, NEW base PROVE BadgesEarned(CollectRun(run, base))
  OBVIOUS
<1> DEFINE files == {c \in Corpus : c.run = run}
           papers == {c.path : c \in {c \in files : c.role = "paper"}}
           bundle == [roles |-> {BundleRole(c) : c \in files}, claims |-> papers, citations |-> papers]
           Asked(words) == [run |-> run, claims |-> {}, past |-> FALSE, words |-> words]
           hits == RetrieveResearchEvidence(Asked({"reproduce", "learning_rate", "fusion", "paper"}), base)
           tried == Paper2Code(Asked({"reproduce", "paper"}), hits)
           got == CollectRun(run, base)
<1>1. got = [badges |-> ScoreBadges(bundle, tried.ok), roles |-> bundle.roles, tried |-> tried,
             citations |-> tried.spec.citations]
  BY Zenon DEF CollectRun
<1>2. tried.ok \in BOOLEAN
  <2>1. \A source : RunSandboxed(source) \in BOOLEAN
    BY DEF RunSandboxed
  <2> HIDE DEF tried
  <2>2. \E source : tried.ok = RunSandboxed(source)
    BY Zenon DEF tried, Paper2Code
  <2> QED
    BY <2>1, <2>2
<1> HIDE DEF tried, bundle
<1>3. got.badges = ScoreBadges(bundle, tried.ok) /\ got.roles = bundle.roles /\ got.tried.ok = tried.ok
  BY <1>1
<1> HIDE DEF got
<1>4. BadgesEarned(got)
  BY <1>2, <1>3, BadgesAre DEF BadgesEarned
<1> QED
  BY <1>4 DEF got

\* The least of a set of columns is one of them.
LEMMA FirstColumnIs == \A S \in SUBSET (1 .. 2) : S # {} => FirstColumn(S) \in S
<1> SUFFICES ASSUME NEW S \in SUBSET (1 .. 2), S # {} PROVE FirstColumn(S) \in S
  OBVIOUS
<1>1. \E i \in S : \A j \in S : i <= j
  <2>1. CASE 1 \in S
    BY <2>1
  <2>2. CASE 1 \notin S
    <3>1. \A i \in S : i = 2
      BY <2>2
    <3>2. 2 \in S
      BY <3>1
    <3> QED
      BY <3>1, <3>2
  <2> QED
    BY <2>1, <2>2
<1> QED
  BY <1>1, Zenon DEF FirstColumn, Min

LEMMA NumericGroupIsLast ==
    ASSUME NEW kinds, DOMAIN kinds = 1 .. 2, NEW question,
           kinds[ChooseGroup(kinds, question, NotGiven)] = "numeric"
    PROVE  \A c \in DOMAIN kinds : kinds[c] = "numeric"
<1> DEFINE mentioned == MentionedColumn(question)
           categorical == {c \in DOMAIN kinds : kinds[c] # "numeric"}
           named == categorical \intersect (question.words \union question.parts)
           group == ChooseGroup(kinds, question, NotGiven)
<1>1. group = CASE NotGiven # NotGiven -> NotGiven
                [] NotGiven = NotGiven /\ mentioned # NotGiven /\ mentioned \in categorical -> mentioned
                [] OTHER -> IF named # {} THEN FirstColumn(named)
                            ELSE IF categorical # {} THEN FirstColumn(categorical) ELSE 1
  BY Zenon DEF ChooseGroup
<1>2. named \in SUBSET (1 .. 2) /\ categorical \in SUBSET (1 .. 2) /\ named \subseteq categorical
  OBVIOUS
<1>3. (named # {} => FirstColumn(named) \in categorical) /\ (categorical # {} => FirstColumn(categorical) \in categorical)
  BY <1>2, FirstColumnIs
<1>4. group \notin categorical
  OBVIOUS
<1> HIDE DEF group, mentioned, named
<1>5. categorical = {}
  <2> HIDE DEF categorical
  <2> QED
    BY <1>1, <1>3, <1>4
<1> QED
  BY <1>5

\* The groups of a table count every number once.
LEMMA NumbersCountOnce ==
    ASSUME NEW sheet, sheet \in Seq(ToSet(sheet)), NEW group, NEW value, NEW operation
    PROVE  LET table == Aggregate(sheet, group, value, operation)
               numbers == {i \in DOMAIN sheet : IsNumber(sheet[i][value])}
           IN Cardinality(UNION {{g} \X (1 .. table[g].n) : g \in DOMAIN table}) = Cardinality(numbers)
<1> DEFINE table == Aggregate(sheet, group, value, operation)
           numbers == {i \in DOMAIN sheet : IsNumber(sheet[i][value])}
           Counted(g) == {i \in DOMAIN sheet : sheet[i][group] = g /\ IsNumber(sheet[i][value])}
           groups == {g \in ToSet(Values(sheet, group)) : operation = "count" \/ Counted(g) # {}}
           S == UNION {{g} \X (1 .. table[g].n) : g \in DOMAIN table}
           listing == [g \in groups |-> CHOOSE f : f \in Bijection(1 .. table[g].n, Counted(g))]
           at == [p \in S |-> listing[p[1]][p[2]]]
<1>1. DOMAIN table = groups /\ \A g \in groups : table[g].n = Cardinality(Counted(g))
  <2> DEFINE row(g) == [result |-> Aggregated(Numbers(sheet, Counted(g), value), operation),
                        n |-> Cardinality(Counted(g))]
  <2>1. table = [g \in groups |-> row(g)]
    BY Zenon DEF Aggregate
  <2>2. \A g : row(g).n = Cardinality(Counted(g))
    OBVIOUS
  <2> HIDE DEF row, table, groups, Counted
  <2> QED
    BY <2>1, <2>2
<1>2. IsFiniteSet(numbers) /\ \A g : IsFiniteSet(Counted(g))
  <2>1. IsFiniteSet(DOMAIN sheet)
    <3>1. DOMAIN sheet = 1 .. Len(sheet) /\ Len(sheet) \in Nat
      OBVIOUS
    <3> QED
      BY <3>1, FS_Interval
  <2>2. numbers \in SUBSET DOMAIN sheet /\ \A g : Counted(g) \in SUBSET DOMAIN sheet
    OBVIOUS
  <2> HIDE DEF numbers, Counted
  <2> QED
    BY <2>1, <2>2, FS_Subset
<1>3. \A i \in numbers : sheet[i][group] \in groups /\ i \in Counted(sheet[i][group])
  <2> SUFFICES ASSUME NEW i \in numbers PROVE sheet[i][group] \in groups /\ i \in Counted(sheet[i][group])
    OBVIOUS
  <2>1. i \in Counted(sheet[i][group])
    OBVIOUS
  <2>2. sheet[i][group] \in ToSet(Values(sheet, group))
    BY DEF ToSet, Values
  <2> HIDE DEF Counted
  <2> QED
    BY <2>1, <2>2
<1>4. \A g : \A i \in Counted(g) : i \in numbers /\ sheet[i][group] = g
  OBVIOUS
<1> HIDE DEF table, groups, numbers, Counted
<1>5. ASSUME NEW g \in groups
      PROVE  listing[g] \in Bijection(1 .. table[g].n, Counted(g))
  <2>1. ExistsBijection(1 .. table[g].n, Counted(g))
    BY <1>1, <1>2, FS_CardinalityType
  <2>2. \E f : f \in Bijection(1 .. table[g].n, Counted(g))
    BY <2>1 DEF ExistsBijection
  <2> QED
    BY <2>2
<1> HIDE DEF listing
<1>6. \A p \in S : p = <<p[1], p[2]>> /\ p[1] \in groups /\ p[2] \in 1 .. table[p[1]].n
  <2> SUFFICES ASSUME NEW p \in S PROVE p = <<p[1], p[2]>> /\ p[1] \in groups /\ p[2] \in 1 .. table[p[1]].n
    OBVIOUS
  <2>1. PICK g \in groups : p \in {g} \X (1 .. table[g].n)
    BY <1>1
  <2> QED
    BY <2>1
<1>7. \A g \in groups : \A k \in 1 .. table[g].n : <<g, k>> \in S
  BY <1>1
<1> HIDE DEF S
<1>8. at \in [S -> numbers] /\ \A p \in S : at[p] \in Counted(p[1])
  <2> SUFFICES ASSUME NEW p \in S PROVE at[p] \in Counted(p[1]) /\ at[p] \in numbers
    OBVIOUS
  <2>1. listing[p[1]] \in [1 .. table[p[1]].n -> Counted(p[1])]
    BY <1>5, <1>6 DEF Bijection, Injection
  <2> QED
    BY <2>1, <1>4, <1>6
<1>9. ASSUME NEW p \in S, NEW q \in S, at[p] = at[q] PROVE p = q
  <2>1. p[1] = q[1]
    BY <1>4, <1>8, <1>9
  <2>2. listing[p[1]][p[2]] = listing[p[1]][q[2]]
    BY <1>9, <2>1
  <2>3. p[2] = q[2]
    <3> DEFINE f == listing[p[1]]
               K == 1 .. table[p[1]].n
    <3>1. f \in Bijection(K, Counted(p[1])) /\ p[2] \in K /\ q[2] \in K /\ f[p[2]] = f[q[2]]
      BY <1>5, <1>6, <2>1, <2>2
    <3> HIDE DEF f, K
    <3> QED
      BY <3>1 DEF Bijection, Injection, IsInjective
  <2> QED
    BY <2>1, <2>3, <1>6
<1>10. ASSUME NEW i \in numbers PROVE \E p \in S : at[p] = i
  <2> DEFINE g == sheet[i][group]
  <2>1. g \in groups /\ i \in Counted(g)
    BY <1>3
  <2> HIDE DEF g
  <2>2. listing[g] \in Surjection(1 .. table[g].n, Counted(g))
    BY <1>5, <2>1 DEF Bijection
  <2>3. PICK k \in 1 .. table[g].n : listing[g][k] = i
    BY <2>1, <2>2 DEF Surjection
  <2>4. <<g, k>> \in S
    BY <1>7, <2>1
  <2>5. at[<<g, k>>] = i
    BY <2>3, <2>4
  <2> QED
    BY <2>4, <2>5
<1> HIDE DEF at
<1>11. at \in Injection(S, numbers) /\ at \in Surjection(S, numbers)
  BY <1>8, <1>9, <1>10 DEF Injection, Surjection, IsInjective
<1>12. Cardinality(S) = Cardinality(numbers)
  BY <1>2, <1>11, FS_Injection
<1> QED
  BY <1>12 DEF S, table, numbers

\* Without a gap the script computes the table.
LEMMA ScriptIsTheTable ==
    ASSUME NEW sheet, NEW kinds, NEW group, NEW value, NEW operation,
           NEW chart, chart # "histogram",
           kinds[group] # "numeric", \A i \in DOMAIN sheet : IsNumber(sheet[i][value])
    PROVE  LET table == Aggregate(sheet, group, value, operation)
           IN Script(sheet, kinds, group, value, operation, chart) = [g \in DOMAIN table |-> table[g].result]
<1> DEFINE OfGroup(g) == {i \in DOMAIN sheet : sheet[i][group] = g}
           Counted(g) == {i \in DOMAIN sheet : sheet[i][group] = g /\ IsNumber(sheet[i][value])}
           Read(g) == {i \in OfGroup(g) : IsNumber(sheet[i][value])}
           all == ToSet(Values(sheet, group))
           groups == {g \in all : operation = "count" \/ Counted(g) # {}}
           Drawn(g) ==
               IF operation = "count" THEN <<Cardinality(OfGroup(g)), 1>>
               ELSE IF operation \in {"sum", "mean"} /\ Read(g) # OfGroup(g) THEN NaN
               ELSE IF Read(g) = {} THEN NaN
               ELSE Aggregated(Numbers(sheet, Read(g), value), operation)
           Result(g) == Aggregated(Numbers(sheet, Counted(g), value), operation)
           table == Aggregate(sheet, group, value, operation)
<1>1. Script(sheet, kinds, group, value, operation, chart) = [g \in all |-> Drawn(g)]
  BY Zenon DEF Script
<1>2. table = [g \in groups |-> [result |-> Result(g), n |-> Cardinality(Counted(g))]]
  BY Zenon DEF Aggregate
<1>3. \A g : Counted(g) = OfGroup(g) /\ Read(g) = OfGroup(g)
  OBVIOUS
<1>4. \A g \in all : OfGroup(g) # {}
  BY DEF ToSet, Values
<1>5. groups = all
  BY <1>3, <1>4
<1>6. ASSUME NEW g \in all PROVE Drawn(g) = Result(g)
  <2>1. CASE operation = "count"
    <3> DEFINE numbers == Numbers(sheet, Counted(g), value)
    <3>1. DOMAIN numbers = Counted(g)
      BY DEF Numbers
    <3> HIDE DEF numbers
    <3>2. Aggregated(numbers, operation) = <<Cardinality(DOMAIN numbers), 1>>
      BY <2>1 DEF Aggregated
    <3>3. Drawn(g) = <<Cardinality(OfGroup(g)), 1>>
      BY <2>1
    <3> QED
      BY <3>1, <3>2, <3>3, <1>3, Zenon DEF numbers
  <2>2. CASE operation # "count"
    <3>1. Read(g) = OfGroup(g) /\ Read(g) # {} /\ Read(g) = Counted(g)
      BY <1>3, <1>4
    <3> HIDE DEF Read, OfGroup, Counted
    <3> QED
      BY <2>2, <3>1, Zenon
  <2> QED
    BY <2>1, <2>2
<1> HIDE DEF Drawn, all, groups, Counted, table
<1>7. table = [g \in all |-> [result |-> Result(g), n |-> Cardinality(Counted(g))]]
  BY <1>2, <1>5, Zenon
<1> HIDE DEF Result
<1>8. DOMAIN table = all /\ \A g \in all : table[g].result = Result(g)
  BY <1>7
<1>9. [g \in all |-> Drawn(g)] = [g \in DOMAIN table |-> table[g].result]
  BY <1>6, <1>8
<1> QED
  BY <1>1, <1>9, Zenon DEF table

\* A histogram has the values that the table was made of.
LEMMA HistogramHasTheValues ==
    ASSUME NEW sheet, NEW kinds, NEW group, NEW value, NEW operation, kinds[group] # "numeric",
           NEW script, script = Script(sheet, kinds, group, value, operation, "histogram"),
           NEW table, table = Aggregate(sheet, group, value, operation), NEW g \in DOMAIN table
    PROVE  LET drawn == {i \in DOMAIN sheet : sheet[i][group] = g /\ script[i] # NaN}
           IN table[g].result = Aggregated([i \in drawn |-> script[i][1]], operation)
<1> DEFINE drawn == {i \in DOMAIN sheet : sheet[i][group] = g /\ script[i] # NaN}
           Counted(h) == {i \in DOMAIN sheet : sheet[i][group] = h /\ IsNumber(sheet[i][value])}
           groups == {h \in ToSet(Values(sheet, group)) : operation = "count" \/ Counted(h) # {}}
           Result(h) == Aggregated(Numbers(sheet, Counted(h), value), operation)
<1>1. script = [i \in DOMAIN sheet |-> IF IsNumber(sheet[i][value]) THEN <<Float[sheet[i][value]], 1>> ELSE NaN]
  BY Zenon DEF Script
<1>2. table = [h \in groups |-> [result |-> Result(h), n |-> Cardinality(Counted(h))]]
  BY Zenon DEF Aggregate
<1>3. \A i \in DOMAIN sheet :
         /\ IsNumber(sheet[i][value]) => script[i] # NaN /\ script[i][1] = Float[sheet[i][value]]
         /\ ~IsNumber(sheet[i][value]) => script[i] = NaN
  BY <1>1 DEF NaN
<1>4. drawn = Counted(g)
  BY <1>3
<1>5. [i \in drawn |-> script[i][1]] = Numbers(sheet, Counted(g), value)
  BY <1>3, <1>4 DEF Numbers
<1> HIDE DEF drawn, Counted, Result, groups
<1>6. g \in groups
  BY <1>2
<1>7. table[g].result = Result(g)
  BY <1>2, <1>6
<1> QED
  BY <1>5, <1>7, Zenon DEF Result, drawn

\* What is drawn for a plan is what the plan shows for review.
LEMMA TableIsDrawn ==
    ASSUME NEW t, NEW chart, chart.kinds[chart.group] # "numeric",
           chart.table = Aggregate(t.sheet, chart.group, chart.value, chart.operation),
           chart.script = Script(t.sheet, chart.kinds, chart.group, chart.value, chart.operation,
                                 chart.chart.chart)
    PROVE  DrawsTheTable(t, chart)
<1>1. CASE chart.chart.chart = "histogram"
  <2>1. ASSUME NEW g \in DOMAIN chart.table
        PROVE  LET drawn == {i \in DOMAIN t.sheet : t.sheet[i][chart.group] = g /\ chart.script[i] # NaN}
               IN chart.table[g].result = Aggregated([i \in drawn |-> chart.script[i][1]], chart.operation)
    <3>1. chart.script = Script(t.sheet, chart.kinds, chart.group, chart.value, chart.operation, "histogram")
      BY <1>1
    <3> QED
      BY <3>1, HistogramHasTheValues
  <2> QED
    BY <1>1, <2>1, Zenon DEF DrawsTheTable
<1>2. CASE chart.chart.chart # "histogram"
  <2>1. ASSUME \A i \in DOMAIN t.sheet : IsNumber(t.sheet[i][chart.value])
        PROVE  chart.script = [g \in DOMAIN chart.table |-> chart.table[g].result]
    BY <1>2, <2>1, ScriptIsTheTable
  <2> QED
    BY <1>2, <2>1, Zenon DEF DrawsTheTable
<1> QED
  BY <1>1, <1>2

LEMMA ChartTells ==
    ASSUME NEW t \in ChartTasks, NEW chart,
           chart = ProposeVisualization(t.sheet, 2, t.question, t.asked), chart # NotGiven
    PROVE  TellsTheTable(t, chart)
<1> DEFINE sheet == t.sheet
           kinds == [c \in 1 .. 2 |-> Kind(sheet, c)]
           group == ChooseGroup(kinds, t.question, t.asked.group_by)
           value == ChooseValue(kinds, t.question, t.asked.value)
           op == Operation(t.question, t.asked.operation)
           choice == ChartChoice(t.question, t.asked.chart)
           table == Aggregate(sheet, group, value, op)
           missing == {i \in DOMAIN sheet : ~IsNumber(sheet[i][value])}
           numbers == {i \in DOMAIN sheet : IsNumber(sheet[i][value])}
           counts == [g \in DOMAIN table |-> table[g].n]
<1>1. /\ chart.kinds = kinds /\ chart.group = group /\ chart.value = value
      /\ chart.table = table /\ chart.operation = op /\ chart.chart = choice
      /\ chart.script = Script(sheet, kinds, group, value, op, choice.chart)
  <2>1. chart = [kinds |-> kinds, group |-> group, value |-> value, operation |-> op, chart |-> choice,
                 table |-> table, script |-> Script(sheet, kinds, group, value, op, choice.chart)]
    BY Zenon DEF ProposeVisualization
  <2> HIDE DEF kinds, group, value, op, table, choice
  <2> QED
    BY <2>1
<1>2. sheet \in Seq(ToSet(sheet))
  BY GeneratedAssumption
<1>3. DOMAIN kinds = 1 .. 2
  OBVIOUS
<1> HIDE DEF kinds, op, choice
<1>4. kinds[group] # "numeric" => DrawsTheTable(t, chart)
  <2> HIDE DEF group, value, choice
  <2> QED
    BY <1>1, TableIsDrawn
<1>5. t.asked.group_by = NotGiven /\ kinds[group] = "numeric" => \A c \in DOMAIN kinds : kinds[c] = "numeric"
  BY <1>3, NumericGroupIsLast
<1> HIDE DEF group, value
<1>6. Cardinality(UNION {{g} \X (1 .. table[g].n) : g \in DOMAIN table}) = Cardinality(numbers)
  <2> HIDE DEF sheet
  <2> QED
    BY <1>2, NumbersCountOnce
<1>7. Cardinality(numbers) = Len(sheet) - Cardinality(missing)
  <2>1. DOMAIN sheet = 1 .. Len(sheet) /\ Len(sheet) \in Nat
    BY <1>2
  <2>2. IsFiniteSet(DOMAIN sheet) /\ Cardinality(DOMAIN sheet) = Len(sheet)
    <3> HIDE DEF sheet
    <3> QED
      BY <2>1, FirstNumbers
  <2>3. numbers = DOMAIN sheet \ missing /\ DOMAIN sheet \intersect missing = missing
    OBVIOUS
  <2> HIDE DEF sheet, numbers, missing
  <2>4. Cardinality(DOMAIN sheet \ missing) = Cardinality(DOMAIN sheet) - Cardinality(DOMAIN sheet \intersect missing)
    BY <2>2, FS_Difference
  <2> QED
    BY <2>2, <2>3, <2>4
<1>8. UNION {{g} \X (1 .. counts[g]) : g \in DOMAIN counts} = UNION {{g} \X (1 .. table[g].n) : g \in DOMAIN table}
  <2> HIDE DEF table
  <2>1. DOMAIN counts = DOMAIN table /\ \A g \in DOMAIN table : counts[g] = table[g].n
    OBVIOUS
  <2> HIDE DEF counts
  <2> QED
    BY <2>1
<1>9. Cardinality(UNION {{g} \X (1 .. counts[g]) : g \in DOMAIN counts}) = Len(sheet) - Cardinality(missing)
  BY <1>6, <1>7, <1>8, Zenon
<1> HIDE DEF table
<1> QED
  BY <1>1, <1>4, <1>5, <1>9, ZenonT(60) DEF TellsTheTable, missing, counts, sheet
----------------------------------------------------------------------------
(* The steps that generate.                                                  *)

\* What a step generates of a table or of files.
LEMMA GeneratedIs ==
    Next =>
        \/ UNCHANGED <<kind, task, result>>
        \/ kind' \notin {"chart", "artifact", "bundle"}
        \/ ProposeChart \/ MakeArtifact \/ BundleRun
<1> DEFINE Generates == {"chart", "artifact", "bundle"}
           Other == kind' \notin Generates
<1>1. ASSUME NEW name, name \notin Generates, NEW t, NEW r, Computed(name, t, r) PROVE Other
  BY <1>1 DEF Computed
<1> HIDE DEF Other
<1>2. CiteAnswer \/ CheckFact \/ FindConflicts \/ CheckClaims => Other
  BY <1>1 DEF CiteAnswer, CheckFact, FindConflicts, CheckClaims
<1>3. ScoreList \/ AverageRows \/ JudgeReplies \/ CountVotes \/ CompareAnswers \/ RankDocuments => Other
  BY <1>1 DEF ScoreList, AverageRows, JudgeReplies, CountVotes, CompareAnswers, RankDocuments
<1>4. PairRows \/ SearchForRow \/ RescoreRun => Other
  BY <1>1 DEF PairRows, SearchForRow, RescoreRun
<1>5. ExpandSeeds \/ ReorderHits \/ CutFile \/ SplitQuestion \/ SearchInMemory => Other
  BY <1>1 DEF ExpandSeeds, ReorderHits, CutFile, SplitQuestion, SearchInMemory
<1>6. ReadTheChat \/ FillRollout \/ ReadATree \/ AnswerLines \/ CheckService => Other
  BY <1>1 DEF ReadTheChat, FillRollout, ReadATree, AnswerLines, CheckService
<1>7. UNCHANGED computeVars => UNCHANGED <<kind, task, result>>
  BY DEF computeVars
<1> QED
  BY <1>2, <1>3, <1>4, <1>5, <1>6, <1>7, Zenon DEF Next, Other, Generates

LEMMA GeneratedStart == Init => GeneratedTellsItsSource
<1> SUFFICES ASSUME Init PROVE GeneratedTellsItsSource
  OBVIOUS
<1>1. kind \notin {"chart", "artifact", "bundle"}
  BY DEF Init
<1> QED
  BY <1>1, Zenon DEF GeneratedTellsItsSource, ChartTellsTheTable, ArtifactsSpeakFromEvidence

LEMMA GeneratedStep ==
    GeneratedTellsItsSource /\ [Next]_<<benchVars, beirVars, poolVars, loadVars, computeVars>>
        => GeneratedTellsItsSource'
<1> SUFFICES ASSUME GeneratedTellsItsSource,
                    [Next]_<<benchVars, beirVars, poolVars, loadVars, computeVars>>
             PROVE  GeneratedTellsItsSource'
  OBVIOUS
<1> USE DEF GeneratedTellsItsSource
<1>1. CASE UNCHANGED <<kind, task, result>>
  <2>1. kind' = kind /\ task' = task /\ result' = result
    BY <1>1
  <2>2. ChartTellsTheTable'
    BY <2>1, Zenon DEF ChartTellsTheTable
  <2>3. ArtifactsSpeakFromEvidence'
    BY <2>1, Zenon DEF ArtifactsSpeakFromEvidence
  <2> QED
    BY <2>2, <2>3
<1>2. CASE kind' \notin {"chart", "artifact", "bundle"}
  BY <1>2, Zenon DEF ChartTellsTheTable, ArtifactsSpeakFromEvidence
<1>3. CASE ProposeChart
  <2>1. PICK t \in ChartTasks :
            /\ kind' = "chart" /\ task' = t
            /\ result' = ProposeVisualization(t.sheet, 2, t.question, t.asked)
    BY <1>3, Zenon DEF ProposeChart, Computed
  <2>2. kind' \notin {"artifact", "bundle"}
    BY <2>1
  <2>3. ChartTellsTheTable'
    BY <2>1, ChartTells, Zenon DEF ChartTellsTheTable
  <2>4. ArtifactsSpeakFromEvidence'
    BY <2>2, Zenon DEF ArtifactsSpeakFromEvidence
  <2> QED
    BY <2>3, <2>4
<1>4. CASE MakeArtifact
  <2>1. PICK t \in ArtifactTasks :
            kind' = "artifact" /\ task' = t /\ result' = Produce(t.query, t.base)
    BY <1>4, Zenon DEF MakeArtifact, Computed
  <2>2. kind' \notin {"chart", "bundle"} /\ t.base \in Seq(Corpus)
    BY <2>1, GeneratedAssumption
  <2>3. ArtifactsSpeakFromEvidence'
    BY <2>1, <2>2, ArtifactSpeaks, Zenon DEF ArtifactsSpeakFromEvidence
  <2> QED
    BY <2>2, <2>3, Zenon DEF ChartTellsTheTable
<1>5. CASE BundleRun
  <2>1. PICK run \in Runs, t \in ArtifactTasks : kind' = "bundle" /\ result' = CollectRun(run, t.base)
    BY <1>5, Zenon DEF BundleRun, Computed
  <2>2. kind' \notin {"chart", "artifact"}
    BY <2>1
  <2>3. ArtifactsSpeakFromEvidence'
    BY <2>1, <2>2, BadgesAreEarned, Zenon DEF ArtifactsSpeakFromEvidence
  <2> QED
    BY <2>2, <2>3, Zenon DEF ChartTellsTheTable
<1>6. Next \/ UNCHANGED <<kind, task, result>>
  BY DEF computeVars
<1> QED
  BY <1>1, <1>2, <1>3, <1>4, <1>5, <1>6, GeneratedIs, Zenon

\* Whatever the sheet and the question, the chart that runs draws the table
\* that was reviewed, unless a value is missing or the groups are numbers, and
\* a histogram draws the values which that table is made of; and whatever the
\* files of the corpus, an artifact says only what its evidence says and a
\* badge is earned (app/artifacts).
THEOREM GeneratedTells == Spec => []GeneratedTellsItsSource
BY GeneratedStart, GeneratedStep, PTL DEF Spec

----------------------------------------------------------------------------

LEMMA NothingJoined ==
    ASSUME NEW T, NEW s \in Seq(T) PROVE <<>> \in Seq(T) /\ <<>> \o s = s /\ s \o <<>> = s
<1>1. <<>> \in Seq(T)
  OBVIOUS
<1>2. <<>> \o s = s
  OBVIOUS
<1>3. s \o <<>> = s
  OBVIOUS
<1> QED
  BY <1>1, <1>2, <1>3

\* The lists of seqs, one after the other.
Joins(f, seqs, T, n) ==
    /\ FlattenSeq(seqs) = f[n] /\ f[1] = seqs[1]
    /\ \A i \in 1 .. n : f[i] \in Seq(T) /\ (i # 1 => f[i] = f[i - 1] \o seqs[i])

LEMMA FlattenIs ==
    ASSUME NEW T, NEW n \in Nat \ {0}, NEW seqs \in [1 .. n -> Seq(T)]
    PROVE  \E f : Joins(f, seqs, T, n)
<1> DEFINE All == Seq(T)
           Of(f) == [i \in 1 .. n |-> IF i = 1 THEN seqs[i] ELSE f[i - 1] \o seqs[i]]
           step == [p \in (1 .. n) \X All |-> p[2] \o seqs[p[1]]]
<1>0. <<>> \in All /\ \A i \in 1 .. n : seqs[i] \in All
  OBVIOUS
<1>1. \A s, t \in All : s \o t \in All
  BY JoinIs
<1>2. \A s \in All : <<>> \o s = s
  BY NothingJoined
<1> HIDE DEF All
<1>3. step \in [(1 .. n) \X All -> All]
  <2>1. ASSUME NEW p \in (1 .. n) \X All PROVE p[2] \o seqs[p[1]] \in All
    <3>1. p[2] \in All /\ p[1] \in 1 .. n
      OBVIOUS
    <3> QED
      BY <1>0, <1>1, <3>1
  <2> QED
    BY <2>1, Zenon
<1>4. \A i \in 1 .. n, list \in All : step[<<i, list>>] = list \o seqs[i]
  OBVIOUS
<1> HIDE DEF step
<1>f. PICK f : Grows(f, n, All, <<>>, step)
  <2>1. n \in Nat /\ <<>> \in All
    BY <1>0
  <2> QED
    BY <1>3, <2>1, Recursion, Zenon
<1>5. f \in [0 .. n -> All] /\ f[0] = <<>> /\ \A i \in 1 .. n : f[i] = step[<<i, f[i - 1]>>]
  BY <1>f DEF Grows
<1> DEFINE g == [i \in 1 .. n |-> f[i]]
<1>6. \A i \in 1 .. n : f[i] = f[i - 1] \o seqs[i]
  <2>1. \A i \in 1 .. n : i - 1 \in 0 .. n
    OBVIOUS
  <2>2. \A i \in 0 .. n : f[i] \in All
    BY <1>5, Zenon
  <2> QED
    BY <1>4, <1>5, <2>1, <2>2
<1>7. 1 \in 1 .. n /\ \A i \in 1 .. n : i # 1 => i - 1 \in 1 .. n
  OBVIOUS
<1>8. f[1] = seqs[1]
  <2>1. f[1] = f[0] \o seqs[1]
    BY <1>6, <1>7
  <2> QED
    BY <1>0, <1>2, <1>5, <1>7, <2>1, Zenon
<1>9. \A i \in 1 .. n : g[i] = IF i = 1 THEN seqs[i] ELSE g[i - 1] \o seqs[i]
  BY <1>6, <1>7, <1>8
<1>10. DOMAIN g = 1 .. n /\ g = [i \in 1 .. n |-> g[i]]
  OBVIOUS
<1> HIDE DEF g
<1>11. g = Of(g)
  BY <1>9, <1>10
<1> DEFINE h == CHOOSE f_1 : f_1 = Of(f_1)
<1>12. h = Of(h)
  BY <1>11
<1>13. Len(seqs) = n /\ n # 0
  OBVIOUS
<1>14. FlattenSeq(seqs) = h[n]
  BY <1>13, Zenon DEF FlattenSeq
<1> HIDE DEF h
<1>15. \A i \in 1 .. n : h[i] = IF i = 1 THEN seqs[i] ELSE h[i - 1] \o seqs[i]
  BY <1>12
<1> DEFINE G == {m \in 0 .. n : m # 0 => h[m] \in All}
<1>16. ASSUME NEW m \in 1 .. n, m - 1 \in G PROVE m \in G
  <2>1. m \in 0 .. n
    OBVIOUS
  <2>2. CASE m = 1
    BY <1>0, <1>15, <2>1, <2>2
  <2>3. CASE m # 1
    <3>1. m - 1 # 0 /\ h[m - 1] \in All
      BY <1>16, <2>3
    <3>2. h[m] \in All
      BY <1>0, <1>1, <1>15, <2>3, <3>1
    <3> QED
      BY <2>1, <3>2
  <2> QED
    BY <2>2, <2>3
<1>17. ASSUME NEW m \in 1 .. n PROVE h[m] \in All
  <2>1. 0 \in G /\ m \in Nat /\ m # 0 /\ \A i \in 1 .. m : i \in 1 .. n
    OBVIOUS
  <2>2. m \in G
    <3> HIDE DEF G
    <3> QED
      BY <2>1, <1>16, UpTo
  <2> QED
    BY <2>1, <2>2
<1>18. h[1] = seqs[1] /\ \A i \in 1 .. n : h[i] \in All /\ (i # 1 => h[i] = h[i - 1] \o seqs[i])
  BY <1>7, <1>15, <1>17
<1> QED
  BY <1>14, <1>18, Zenon DEF All, Joins

\* What one of the lists has, the whole has.
LEMMA FlattenHas ==
    ASSUME NEW T, NEW n \in Nat, NEW seqs \in [1 .. n -> Seq(T)]
    PROVE  /\ FlattenSeq(seqs) \in Seq(T)
           /\ \A i \in 1 .. n : ToSet(seqs[i]) \subseteq ToSet(FlattenSeq(seqs))
<1>0. Len(seqs) = n
  OBVIOUS
<1>1. CASE n = 0
  <2>1. FlattenSeq(seqs) = seqs
    BY <1>0, <1>1, Zenon DEF FlattenSeq
  <2>2. seqs = <<>>
    BY <1>1
  <2>3. \A i \in 1 .. n : FALSE
    BY <1>1
  <2>4. <<>> \in Seq(T)
    OBVIOUS
  <2> QED
    BY <2>1, <2>2, <2>3, <2>4
<1>2. CASE n # 0
  <2>0. n \in Nat \ {0}
    BY <1>2
  <2>f. PICK f : Joins(f, seqs, T, n)
    BY <2>0, FlattenIs, Zenon
  <2>1. /\ FlattenSeq(seqs) = f[n] /\ f[1] = seqs[1]
        /\ \A i \in 1 .. n : f[i] \in Seq(T) /\ (i # 1 => f[i] = f[i - 1] \o seqs[i])
    BY <2>f, Zenon DEF Joins
  <2>2. \A s, t \in Seq(T) : ToSet(s) \subseteq ToSet(s \o t) /\ ToSet(t) \subseteq ToSet(s \o t)
    <3> SUFFICES ASSUME NEW s \in Seq(T), NEW t \in Seq(T)
                 PROVE  ToSet(s) \subseteq ToSet(s \o t) /\ ToSet(t) \subseteq ToSet(s \o t)
      OBVIOUS
    <3> DEFINE u == s \o t
    <3>1. /\ DOMAIN s = 1 .. Len(s) /\ DOMAIN t = 1 .. Len(t) /\ Len(s) \in Nat /\ Len(t) \in Nat
          /\ DOMAIN u = 1 .. Len(s) + Len(t)
      BY ListIs, JoinIs
    <3>2. /\ \A i \in 1 .. Len(s) : u[i] = s[i]
          /\ \A i \in 1 .. Len(t) : u[Len(s) + i] = t[i]
      BY JoinIs
    <3> HIDE DEF u
    <3>3. /\ \A i \in 1 .. Len(s) : i \in 1 .. Len(s) + Len(t)
          /\ \A i \in 1 .. Len(t) : Len(s) + i \in 1 .. Len(s) + Len(t)
      BY <3>1
    <3>4. ToSet(s) \subseteq ToSet(u) /\ ToSet(t) \subseteq ToSet(u)
      BY <3>1, <3>2, <3>3 DEF ToSet
    <3> QED
      BY <3>4 DEF u
  <2> DEFINE G == {m \in 0 .. n : \A i \in 1 .. m : ToSet(seqs[i]) \subseteq ToSet(f[m])}
  <2>3. ASSUME NEW m \in 1 .. n, m - 1 \in G PROVE m \in G
    <3>1. CASE m = 1
      BY <2>1, <3>1
    <3>2. CASE m # 1
      <4>0. m - 1 \in 1 .. n
        BY <3>2
      <4>1. f[m] = f[m - 1] \o seqs[m] /\ f[m - 1] \in Seq(T) /\ seqs[m] \in Seq(T)
        BY <2>1, <3>2, <4>0
      <4>2. ToSet(f[m - 1]) \subseteq ToSet(f[m]) /\ ToSet(seqs[m]) \subseteq ToSet(f[m])
        BY <2>2, <4>1
      <4>3. \A i \in 1 .. m : i = m \/ i \in 1 .. m - 1
        OBVIOUS
      <4> QED
        BY <2>3, <4>2, <4>3
    <3> QED
      BY <3>1, <3>2
  <2>4. 0 \in G
    OBVIOUS
  <2>5. n \in G
    <3> HIDE DEF G
    <3> QED
      BY <2>3, <2>4, UpTo
  <2> QED
    BY <1>2, <2>1, <2>5
<1> QED
  BY <1>1, <1>2
----------------------------------------------------------------------------
(* What is read of a tree.                                                   *)

LEMMA LargerOfTwo == \A i, j \in Int : Max({i, j}) = IF i >= j THEN i ELSE j
<1> SUFFICES ASSUME NEW i \in Int, NEW j \in Int PROVE Max({i, j}) = IF i >= j THEN i ELSE j
  OBVIOUS
<1>1. \E x \in {i, j} : \A y \in {i, j} : x >= y
  OBVIOUS
<1>2. Max({i, j}) \in {i, j} /\ \A y \in {i, j} : Max({i, j}) >= y
  BY <1>1, Zenon DEF Max
<1> DEFINE m == Max({i, j})
<1>3. m \in {i, j} /\ m >= i /\ m >= j
  BY <1>2, Zenon
<1> HIDE DEF m
<1>4. m = IF i >= j THEN i ELSE j
  BY <1>3
<1> QED
  BY <1>4 DEF m

LEMMA SmallerOfTwo == \A i, j \in Int : Min({i, j}) = IF i <= j THEN i ELSE j
<1> SUFFICES ASSUME NEW i \in Int, NEW j \in Int PROVE Min({i, j}) = IF i <= j THEN i ELSE j
  OBVIOUS
<1> DEFINE m == Min({i, j})
<1>1. m \in {i, j} /\ m <= i /\ m <= j
  BY MinOfTwo, Zenon
<1> HIDE DEF m
<1>2. m = IF i <= j THEN i ELSE j
  BY <1>1
<1> QED
  BY <1>2 DEF m

\* A slice from the byte after the first i to byte j, clipped to the file.
LEMMA ClippedIs ==
    ASSUME NEW T, NEW bytes \in Seq(T), NEW i \in Nat, NEW j \in Nat, i <= j
    PROVE  LET text == ClippedRead(bytes, <<i, j>>).text
           IN  /\ Len(text) = Max({0, Min({j, Len(bytes)}) - i})
               /\ \A k \in DOMAIN text : text[k] = bytes[i + k]
<1> DEFINE n == Len(bytes)
           stop == Min({n, j})
           text == SubSeq(bytes, i + 1, stop)
<1>1. n \in Nat /\ \A k \in 1 .. n : bytes[k] \in T
  BY ListIs
<1>2. stop = IF n <= j THEN n ELSE j
  <2>1. n \in Int /\ j \in Int
    BY <1>1
  <2> HIDE DEF n
  <2> QED
    BY <2>1, SmallerOfTwo, Zenon
<1>3. Max({0, i}) = i
  <2>1. 0 \in Int /\ i \in Int /\ (0 >= i => i = 0)
    OBVIOUS
  <2>2. Max({0, i}) = IF 0 >= i THEN 0 ELSE i
    BY <2>1, LargerOfTwo, Zenon
  <2> QED
    BY <2>1, <2>2, Zenon
<1>4. ~(stop < 0) /\ stop \in Nat
  BY <1>1, <1>2
<1>5. {j, Len(bytes)} = {n, j}
  OBVIOUS
<1>6. ClippedRead(bytes, <<i, j>>).text = text
  BY <1>3, <1>4 DEF ClippedRead
<1>7. Len(text) = Max({0, stop - i}) /\ \A k \in DOMAIN text : text[k] = bytes[i + k]
  <2> HIDE DEF n, stop
  <2>1. Max({0, stop - i}) = IF 0 >= stop - i THEN 0 ELSE stop - i
    <3>1. 0 \in Int /\ stop - i \in Int
      BY <1>4
    <3> QED
      BY <3>1, LargerOfTwo, Zenon
  <2>2. CASE i < stop
    <3>1. Len(text) = stop - i /\ DOMAIN text = 1 .. stop - i
      BY <1>1, <1>2, <1>4, <2>2 DEF n
    <3>2. \A k \in 1 .. stop - i : text[k] = bytes[i + k]
      BY <1>1, <1>2, <1>4, <2>2 DEF n
    <3>3. Max({0, stop - i}) = stop - i
      BY <1>4, <2>1, <2>2
    <3> HIDE DEF text
    <3> QED
      BY <3>1, <3>2, <3>3
  <2>3. CASE ~(i < stop)
    <3>1. Len(text) = 0 /\ DOMAIN text = 1 .. 0
      BY <1>1, <1>2, <1>4, <2>3 DEF n
    <3>2. Max({0, stop - i}) = 0
      BY <1>4, <2>1, <2>3
    <3> HIDE DEF text
    <3> QED
      BY <3>1, <3>2
  <2> QED
    BY <2>2, <2>3
<1> HIDE DEF text, stop
<1>8. Min({j, Len(bytes)}) = stop
  BY <1>5, Zenon DEF stop
<1> QED
  BY <1>6, <1>7, <1>8, Zenon

\* What is read of a file in the tree, and how it was reached.
LEMMA ReadsExactly == \A t \in ReadTasks : ReadsAreExact(t.path, t.range, ReadFile(t.path, t.range))
<1> SUFFICES ASSUME NEW t \in ReadTasks, ~ReadFile(t.path, t.range).refused
             PROVE  ReadsAreExact(t.path, t.range, ReadFile(t.path, t.range))
  BY DEF ReadsAreExact
<1> DEFINE safe == Safe(t.path)
           file == Tree[t.path.parts]
           range == IF t.range = NoRange THEN <<0, Len(file.bytes)>> ELSE t.range
           read == ReadFile(t.path, t.range)
<1>1. Present(safe)
  BY Zenon DEF ReadFile, Refused
<1>2. safe.refused = FALSE /\ safe.parts \in DOMAIN Tree /\ safe # Refused
  BY <1>1 DEF Present, Refused
<1>3. /\ safe.parts = t.path.parts
      /\ \A n \in 1 .. Len(t.path.parts) :
            SubSeq(t.path.parts, 1, n) \in DOMAIN Tree => Tree[SubSeq(t.path.parts, 1, n)].kind # "link"
  BY <1>2 DEF Safe
<1>4. read.path = t.path.parts /\ read.text = ClippedRead(file.bytes, range).text
  <2>1. ~(~Present(safe) \/ NodeAt(safe.parts).kind # "file")
    BY Zenon DEF ReadFile, Refused
  <2> HIDE DEF safe
  <2> QED
    BY <1>3, <2>1 DEF ReadFile, NodeAt, safe
<1>5. \A n \in 1 .. Len(t.path.parts) : Tree[SubSeq(t.path.parts, 1, n)].kind # "link"
  BY <1>2, <1>3, TreeAssumption
<1>6. file.bytes \in Seq(ToSet(file.bytes)) /\ Len(file.bytes) \in Nat
  <2>1. file.bytes \in Seq(ToSet(file.bytes))
    BY <1>2, <1>3, TreeAssumption
  <2> HIDE DEF file
  <2> QED
    BY <2>1, ListIs
<1>7. ASSUME t.range = NoRange PROVE read.text = file.bytes
  <2>1. range = <<0, Len(file.bytes)>>
    BY <1>7
  <2> DEFINE n == Len(file.bytes)
             bytes == file.bytes
  <2>2. Max({0, 0}) = 0 /\ Min({n, n}) = n /\ ~(n < 0)
    <3>1. 0 \in Int /\ n \in Int /\ ~(n < 0)
      BY <1>6
    <3> QED
      BY <3>1, LargerOfTwo, SmallerOfTwo, Zenon
  <2> HIDE DEF file
  <2>3. SubSeq(bytes, 0 + 1, n) = bytes
    BY <1>6
  <2>4. ClippedRead(bytes, <<0, n>>).text = SubSeq(bytes, 0 + 1, n)
    <3> HIDE DEF bytes
    <3>1. <<0, n>>[1] = 0 /\ <<0, n>>[2] = n
      OBVIOUS
    <3>2. n = Len(bytes)
      BY DEF bytes
    <3> HIDE DEF n
    <3> QED
      BY <2>2, <3>1, <3>2 DEF ClippedRead
  <2> HIDE DEF read
  <2> QED
    BY <1>4, <2>1, <2>3, <2>4, Zenon
<1>8. ASSUME t.range # NoRange, 0 <= t.range[1], t.range[1] <= t.range[2]
      PROVE  /\ Len(read.text) = Max({0, Min({t.range[2], Len(file.bytes)}) - t.range[1]})
             /\ \A i \in DOMAIN read.text : read.text[i] = file.bytes[t.range[1] + i]
  <2>1. t.range \in Int \X Int
    BY <1>8, ToolsAssumption
  <2>2. t.range[1] \in Nat /\ t.range[2] \in Nat /\ t.range = <<t.range[1], t.range[2]>>
    BY <1>8, <2>1
  <2>3. range = t.range
    BY <1>8
  <2> HIDE DEF file, range, read
  <2>4. LET text == ClippedRead(file.bytes, <<t.range[1], t.range[2]>>).text
        IN  /\ Len(text) = Max({0, Min({t.range[2], Len(file.bytes)}) - t.range[1]})
            /\ \A i \in DOMAIN text : text[i] = file.bytes[t.range[1] + i]
    BY <1>6, <1>8, <2>2, ClippedIs, Zenon
  <2>5. read.text = ClippedRead(file.bytes, <<t.range[1], t.range[2]>>).text
    BY <1>4, <2>2, <2>3, Zenon
  <2> QED
    BY <2>4, <2>5, Zenon
<1> HIDE DEF read
<1> QED
  BY <1>4, <1>5, <1>7, <1>8, Zenon DEF ReadsAreExact, read, file

\* Two lists that differ in their last member only do not have the same last.
LEMMA LastTells ==
    ASSUME NEW T, NEW c \in Seq(T), NEW d \in Seq(T), NEW n \in Nat, Len(c) = n + 1, Len(d) = n + 1,
           SubSeq(c, 1, n) = SubSeq(d, 1, n), Last(c) = Last(d)
    PROVE  c = d
<1>1. \A i \in 1 .. n : SubSeq(c, 1, n)[i] = c[i] /\ SubSeq(d, 1, n)[i] = d[i]
  OBVIOUS
<1>2. c[n + 1] = d[n + 1]
  BY DEF Last
<1>3. \A i \in 1 .. n + 1 : c[i] = d[i]
  <2>1. \A i \in 1 .. n + 1 : i \in 1 .. n \/ i = n + 1
    OBVIOUS
  <2> QED
    BY <1>1, <1>2, <2>1
<1>4. /\ c = [i \in 1 .. n + 1 |-> c[i]]
      /\ d = [i \in 1 .. n + 1 |-> d[i]]
  OBVIOUS
<1> QED
  BY <1>3, <1>4

\* A listing of a directory has each of its children once.
LEMMA ListedOnce == \A t \in ReadTasks : ~ListDir(t.path).refused => IsInjective(ListDir(t.path).entries)
<1> SUFFICES ASSUME NEW t \in ReadTasks, ~ListDir(t.path).refused
             PROVE  IsInjective(ListDir(t.path).entries)
  OBVIOUS
<1> DEFINE parts == t.path.parts
           children == Children(parts)
           ahead == [c \in children |-> {d \in children : NameOrder[Last(d)] < NameOrder[Last(c)]}]
           place == [c \in children |-> NameOrder[Last(c)]]
<1>1. ListDir(t.path).entries = Sorted(children, ahead)
  <2> DEFINE safe == Safe(t.path)
  <2>1. ~(safe.refused \/ (safe.parts # <<>> /\ (~Present(safe) \/ NodeAt(safe.parts).kind # "dir")))
    BY Zenon DEF ListDir, Refused
  <2>2. safe # Refused
    BY <2>1 DEF Refused
  <2>3. safe.parts = parts
    BY <2>2 DEF Safe
  <2> HIDE DEF safe
  <2> QED
    BY <2>1, <2>3 DEF ListDir, safe
<1>2. IsFiniteSet(children)
  <2>1. children \subseteq DOMAIN Tree
    BY DEF Children
  <2> HIDE DEF children
  <2> QED
    BY <2>1, TreeAssumption, FS_Subset
<1>3. Len(parts) \in Nat
  <2>1. parts \in Seq(ToSet(parts))
    BY ToolsAssumption
  <2> HIDE DEF parts
  <2> QED
    BY <2>1, ListIs
<1>4. \A c \in children : /\ c \in Seq(DOMAIN NameOrder) /\ Len(c) = Len(parts) + 1
                          /\ SubSeq(c, 1, Len(parts)) = parts
  BY TreeAssumption DEF Children
<1> HIDE DEF parts
<1>5. \A c \in children : Last(c) \in DOMAIN NameOrder
  <2> SUFFICES ASSUME NEW c \in children PROVE Last(c) \in DOMAIN NameOrder
    OBVIOUS
  <2>1. c \in Seq(DOMAIN NameOrder) /\ Len(c) \in 1 .. Len(c)
    BY <1>3, <1>4
  <2> HIDE DEF children
  <2> QED
    BY <2>1, ListIs DEF Last
<1>6. \A c, d \in children : Last(c) = Last(d) => c = d
  <2> HIDE DEF children
  <2> QED
    BY <1>3, <1>4, LastTells
<1>7. place \in [children -> Int] /\ ahead \in [children -> SUBSET children]
  <2>1. \A c \in children : NameOrder[Last(c)] \in Int
    BY <1>5, TreeAssumption
  <2> HIDE DEF children
  <2> QED
    BY <2>1
<1>8. \A c, d \in children : place[c] = place[d] => c = d
  <2> HIDE DEF children
  <2> QED
    BY <1>5, <1>6, TreeAssumption
<1>9. \A c, d \in children : c \in ahead[d] <=> place[c] < place[d]
  <2> HIDE DEF children
  <2> QED
    OBVIOUS
<1> HIDE DEF ahead, place, children
<1>10. IsInjective(Sorted(children, ahead))
  <2>1. SortsBy(children, place, ahead)
    BY <1>2, <1>7, <1>8, <1>9, SortedByPlace
  <2> QED
    BY <2>1, Zenon DEF SortsBy
<1> QED
  BY <1>1, <1>10

LEMMA FirstOfIs ==
    ASSUME NEW T, NEW s \in Seq(T), NEW n \in Nat
    PROVE  /\ FirstOf(s, n) \in Seq(T) /\ Len(FirstOf(s, n)) <= n /\ ToSet(FirstOf(s, n)) \subseteq ToSet(s)
           /\ \A i \in 1 .. Len(FirstOf(s, n)) : FirstOf(s, n)[i] = s[i]
<1> DEFINE m == IF Len(s) < n THEN Len(s) ELSE n
           first == SubSeq(s, 1, m)
<1>1. Len(s) \in Nat /\ DOMAIN s = 1 .. Len(s) /\ m \in Nat /\ m <= n /\ m <= Len(s)
  BY ListIs
<1> HIDE DEF m
<1>2. first \in Seq(T) /\ Len(first) = m /\ DOMAIN first = 1 .. m /\ \A i \in 1 .. m : first[i] = s[i]
  BY <1>1
<1> HIDE DEF first
<1>3. ToSet(first) \subseteq ToSet(s)
  <2>1. \A i \in 1 .. m : i \in 1 .. Len(s)
    BY <1>1
  <2> QED
    BY <1>1, <1>2, <2>1 DEF ToSet
<1>4. FirstOf(s, n) = first
  BY DEF FirstOf, first, m
<1> QED
  BY <1>1, <1>2, <1>3, <1>4

\* The filter leaves hits of the type that was asked for.
LEMMA FilterKeeps ==
    \A t \in ReadTasks : t.filetype # "any" => \A h \in ToSet(FilteredHits(t.hits, 2, t.filetype)) : h.type = t.filetype
<1> SUFFICES ASSUME NEW t \in ReadTasks, t.filetype # "any",
                    NEW h \in ToSet(FilteredHits(t.hits, 2, t.filetype))
             PROVE  h.type = t.filetype
  OBVIOUS
<1> DEFINE hits == t.hits
           first == FirstOf(hits, 2)
           other == {g \in ToSet(hits) : t.filetype # "any" /\ g.type # t.filetype}
<1>1. hits \in Seq(ToSet(hits))
  BY ToolsAssumption
<1>2. first \in Seq(ToSet(hits)) /\ ToSet(first) \subseteq ToSet(hits)
  <2> HIDE DEF hits
  <2> QED
    BY <1>1, FirstOfIs
<1>3. h \in ToSet(first) \ other
  <2>1. FilteredHits(t.hits, 2, t.filetype) = Without(first, other)
    BY DEF FilteredHits
  <2> HIDE DEF first, other, hits
  <2>2. ToSet(Without(first, other)) = ToSet(first) \ other
    BY <1>2, WithoutSet
  <2> QED
    BY <2>1, <2>2
<1> HIDE DEF first
<1> QED
  BY <1>2, <1>3

\* What a tool reads or runs for a client (app/mcp/filesystem.py).
ToolsRead(t, r) ==
    /\ ReadsAreExact(t.path, t.range, r.read)
    /\ ~r.stat.refused <=> Present(Safe(t.path)) /\ Present(Safe(t.other))
    /\ ~r.listed.refused => IsInjective(r.listed.entries)
    /\ t.filetype # "any" => \A h \in ToSet(r.kept) : h.type = t.filetype
    /\ r.ran => t.source.nodes = {}

LEMMA ToolsReadIs ==
    \A t \in ReadTasks :
       ToolsRead(t, [read |-> ReadFile(t.path, t.range), listed |-> ListDir(t.path),
                     stat |-> Stat(<<t.path, t.other>>), kept |-> FilteredHits(t.hits, 2, t.filetype),
                     ran |-> ExecSandboxed(t.source)])
<1> SUFFICES ASSUME NEW t \in ReadTasks
             PROVE  ToolsRead(t, [read |-> ReadFile(t.path, t.range), listed |-> ListDir(t.path),
                                  stat |-> Stat(<<t.path, t.other>>), kept |-> FilteredHits(t.hits, 2, t.filetype),
                                  ran |-> ExecSandboxed(t.source)])
  OBVIOUS
<1>1. ~Stat(<<t.path, t.other>>).refused <=> Present(Safe(t.path)) /\ Present(Safe(t.other))
  <2> DEFINE paths == <<t.path, t.other>>
  <2>1. (\E i \in DOMAIN paths : ~Present(Safe(paths[i]))) <=> ~(Present(Safe(t.path)) /\ Present(Safe(t.other)))
    <3>1. DOMAIN paths = {1, 2} /\ paths[1] = t.path /\ paths[2] = t.other
      OBVIOUS
    <3> HIDE DEF paths
    <3> QED
      BY <3>1
  <2>2. Stat(paths).refused <=> \E i \in DOMAIN paths : ~Present(Safe(paths[i]))
    <3> HIDE DEF paths
    <3> QED
      BY DEF Stat, Refused
  <2> QED
    BY <2>1, <2>2
<1>2. ExecSandboxed(t.source) => t.source.nodes = {}
  BY ToolsAssumption DEF ExecSandboxed
<1> QED
  BY <1>1, <1>2, ReadsExactly, ListedOnce, FilterKeeps DEF ToolsRead
----------------------------------------------------------------------------
(* The session of a client.                                                  *)

\* A list that names each of a set of numbers once has as many members.
LEMMA NamedOnce ==
    ASSUME NEW m \in Nat, NEW R, NEW g \in [1 .. m -> R], \A i, j \in 1 .. m : g[i] = g[j] => i = j,
           \A x \in R : \E k \in 1 .. m : g[k] = x
    PROVE  Cardinality(R) = m
<1>1. IsFiniteSet(1 .. m) /\ Cardinality(1 .. m) = m
  BY FirstNumbers
<1>2. g \in Bijection(1 .. m, R)
  BY DEF Bijection, Injection, Surjection, IsInjective
<1>3. ExistsBijection(1 .. m, R)
  BY <1>2 DEF ExistsBijection
<1> QED
  BY <1>1, <1>3, FS_Bijection

ResponseOf(line) == IF line.is = "object" THEN Handle(line) ELSE Silence

Responds(line, response) ==
    /\ response.id # NoId => line.is = "object" /\ response.id = line.id
    /\ line.is = "object" /\ line.id # NoId =>
          /\ line.method # "notifications/initialized" => response.id = line.id
          /\ line.method = "notifications/initialized" => response.id = NoId
    /\ line.is = "object" /\ line.method = "tools/call" => response.what = ToolCall(line.name, line.arguments)

LEMMA ResponsesAre == \A line : Responds(line, ResponseOf(line))
<1> SUFFICES ASSUME NEW line PROVE Responds(line, ResponseOf(line))
  OBVIOUS
<1> USE DEF Responds
<1> DEFINE response == ResponseOf(line)
<1>1. Silence.id = NoId /\ \A what : Answered(line, what).id = line.id /\ Answered(line, what).what = what
  BY DEF Silence, Answered
<1>2. CASE line.is # "object"
  BY <1>1, <1>2 DEF ResponseOf
<1>3. CASE line.is = "object"
  <2>1. response = Handle(line)
    BY <1>3 DEF ResponseOf
  <2>2. CASE line.method \in {"initialize", "tools/list"}
    BY <1>1, <1>3, <2>1, <2>2 DEF Handle
  <2>3. CASE line.method = "notifications/initialized"
    BY <1>1, <1>3, <2>1, <2>3 DEF Handle
  <2>4. CASE line.method = "tools/call"
    BY <1>1, <1>3, <2>1, <2>4 DEF Handle
  <2>5. CASE line.method \notin {"initialize", "tools/list", "notifications/initialized", "tools/call"}
    BY <1>1, <1>3, <2>1, <2>5 DEF Handle
  <2> QED
    BY <2>2, <2>3, <2>4, <2>5
<1> QED
  BY <1>2, <1>3

\* A call with what its schema requires is made, on either server.
LEMMA CallsAre ==
    \A name \in DOMAIN ToolSpecs : \A given :
       ToolSpecs[name].required \subseteq given =>
          /\ SdkCall(name, given) = "called"
          /\ ToolCall(name, given) = IF name \in Appliers /\ "approved" \in given THEN "ApprovalRequired" ELSE "called"
<1> SUFFICES ASSUME NEW name \in DOMAIN ToolSpecs, NEW given, ToolSpecs[name].required \subseteq given
             PROVE  /\ SdkCall(name, given) = "called"
                    /\ ToolCall(name, given) = IF name \in Appliers /\ "approved" \in given
                                               THEN "ApprovalRequired" ELSE "called"
  OBVIOUS
<1>1. ReadsArgument[name] \subseteq ToolSpecs[name].required
  <2>1. /\ ReadsArgument[name] =
            IF name \in Appliers THEN {"plan_id"}
            ELSE IF name \in {"search_semantic", "search_lexical", "propose_artifact"} THEN {"query"}
            ELSE CASE name = "read_file" -> {"path"} [] name = "list_dir" -> {} [] name = "stat" -> {"paths"}
                   [] name = "propose_move" -> {"src", "dst"} [] name = "collect_run_artifact" -> {"run_id"}
                   [] name = "propose_patch" -> {"path", "old", "new"} [] name = "exec_sandboxed" -> {"code"}
                   [] name = "inspect_spreadsheet" -> {"path"} [] name = "propose_visualization" -> {"path", "question"}
    BY DEF ReadsArgument
  <2>2. name \in {"search_semantic", "search_lexical", "read_file", "list_dir", "stat", "propose_move",
                  "apply_plan", "collect_run_artifact", "propose_artifact", "apply_artifact", "propose_patch",
                  "apply_patch", "exec_sandboxed", "inspect_spreadsheet", "propose_visualization",
                  "apply_visualization"}
    BY DEF ToolSpecs
  <2>3. CASE name \in {"search_semantic", "search_lexical", "read_file", "list_dir", "stat"}
    BY <2>1, <2>3 DEF ToolSpecs, Takes, Appliers
  <2>4. CASE name \in {"propose_move", "apply_plan", "collect_run_artifact", "propose_artifact", "apply_artifact"}
    BY <2>1, <2>4 DEF ToolSpecs, Takes, Appliers
  <2>5. CASE name \in {"propose_patch", "apply_patch", "exec_sandboxed"}
    BY <2>1, <2>5 DEF ToolSpecs, Takes, Appliers
  <2>6. CASE name \in {"inspect_spreadsheet", "propose_visualization", "apply_visualization"}
    BY <2>1, <2>6 DEF ToolSpecs, Takes, Appliers
  <2> QED
    BY <2>2, <2>3, <2>4, <2>5, <2>6
<1>2. name \in Appliers => "approved" \notin ToolSpecs[name].required \union ToolSpecs[name].optional
  <2>1. name \in Appliers => name \in {"apply_plan", "apply_artifact", "apply_patch", "apply_visualization"}
    BY DEF Appliers
  <2>2. CASE name \in {"apply_plan", "apply_artifact"}
    BY <2>2 DEF ToolSpecs, Takes
  <2>3. CASE name \in {"apply_patch", "apply_visualization"}
    BY <2>3 DEF ToolSpecs, Takes
  <2> QED
    BY <2>1, <2>2, <2>3
<1> DEFINE passed == given \intersect (ToolSpecs[name].required \union ToolSpecs[name].optional)
<1>3. ReadsArgument[name] \subseteq given /\ ReadsArgument[name] \subseteq passed
  BY <1>1
<1>4. ToolCall(name, given) = IF name \in Appliers /\ "approved" \in given THEN "ApprovalRequired" ELSE "called"
  BY <1>3, Zenon DEF ToolCall
<1>5. ~(name \in Appliers /\ "approved" \in passed)
  BY <1>2
<1> HIDE DEF passed
<1>6. ToolCall(name, passed) = "called"
  BY <1>3, <1>5, Zenon DEF ToolCall
<1> QED
  BY <1>4, <1>6, Zenon DEF SdkCall, passed

\* The answers that have an id, of all that the server would answer.
Owns(g, m, responses, own) ==
    /\ m \in Nat /\ g \in [1 .. m -> 1 .. Len(responses)] /\ own = [k \in 1 .. m |-> responses[g[k]]]
    /\ \A i, j \in 1 .. m : i < j => g[i] < g[j]
    /\ \A i \in 1 .. Len(responses) : responses[i].id # NoId <=> \E k \in 1 .. m : g[k] = i

LEMMA OwnAnswers ==
    ASSUME NEW T, NEW responses \in Seq(T)
    PROVE  LET told == Without(responses, {Silence})
           IN \E g, m : Owns(g, m, responses, Without(told, {a \in ToSet(told) : a.id = NoId}))
<1> DEFINE n == Len(responses)
           said == Without(responses, {Silence})
           unnamed == {a \in ToSet(said) : a.id = NoId}
           own == Without(said, unnamed)
<1>1. PICK e : Leaves(e, responses, {Silence})
  BY WithoutLeaves, Zenon
<1>2. said \in Seq(T)
  BY WithoutSet
<1> HIDE DEF said
<1>3. PICK d : Leaves(d, said, unnamed)
  BY <1>2, WithoutLeaves, Zenon
<1> HIDE DEF unnamed, own
<1>4. /\ n \in Nat /\ Len(e) \in Nat /\ Len(d) \in Nat /\ Len(said) \in Nat /\ DOMAIN said = 1 .. Len(said)
      /\ \A k \in 1 .. Len(e) : e[k] \in 1 .. n
      /\ \A k \in 1 .. Len(d) : d[k] \in 1 .. Len(said)
  BY <1>1, <1>2, <1>3, ListIs DEF Leaves
<1>5. said = [k \in 1 .. Len(e) |-> responses[e[k]]]
  BY <1>1 DEF Leaves, said
<1>6. Len(said) = Len(e) /\ \A k \in 1 .. Len(e) : said[k] = responses[e[k]]
  BY <1>4, <1>5
<1> DEFINE m == Len(d)
           g == [k \in 1 .. m |-> e[d[k]]]
<1>7. g \in [1 .. m -> 1 .. n] /\ \A k \in 1 .. m : g[k] = e[d[k]] /\ d[k] \in 1 .. Len(e)
  BY <1>4, <1>6
<1>8. own = [k \in 1 .. m |-> responses[g[k]]]
  <2>1. own = [k \in 1 .. m |-> said[d[k]]]
    BY <1>3 DEF Leaves, own
  <2>2. \A k \in 1 .. m : said[d[k]] = responses[g[k]]
    BY <1>6, <1>7
  <2> HIDE DEF g
  <2> QED
    BY <2>1, <2>2
<1>9. \A i, j \in 1 .. m : i < j => g[i] < g[j]
  <2>1. \A i, j \in 1 .. m : i < j => d[i] < d[j]
    BY <1>3 DEF Leaves
  <2>2. \A i, j \in 1 .. Len(e) : i < j => e[i] < e[j]
    BY <1>1 DEF Leaves
  <2> HIDE DEF g, m
  <2> QED
    BY <1>7, <2>1, <2>2
<1>10. ASSUME NEW i \in 1 .. n PROVE responses[i].id # NoId <=> \E k \in 1 .. m : g[k] = i
  <2>1. responses[i] # Silence <=> \E k \in 1 .. Len(e) : e[k] = i
    BY <1>1 DEF Leaves
  <2>2. \A k \in 1 .. Len(said) : said[k] \notin unnamed <=> \E h \in 1 .. m : d[h] = k
    BY <1>3 DEF Leaves
  <2>3. \A k \in 1 .. Len(said) : said[k] \in unnamed <=> said[k].id = NoId
    BY <1>4 DEF unnamed, ToSet
  <2>4. ASSUME responses[i].id # NoId PROVE \E k \in 1 .. m : g[k] = i
    <3>1. responses[i] # Silence
      BY <2>4 DEF Silence
    <3>2. PICK k \in 1 .. Len(e) : e[k] = i
      BY <2>1, <3>1
    <3>3. said[k].id # NoId /\ k \in 1 .. Len(said)
      BY <1>6, <2>4, <3>2
    <3>4. PICK h \in 1 .. m : d[h] = k
      BY <2>2, <2>3, <3>3
    <3> QED
      BY <1>7, <3>2, <3>4
  <2>5. ASSUME NEW k \in 1 .. m, g[k] = i PROVE responses[i].id # NoId
    <3>1. said[d[k]] = responses[i] /\ d[k] \in 1 .. Len(said)
      BY <1>6, <1>7, <2>5
    <3>2. said[d[k]] \notin unnamed
      BY <2>2, <3>1
    <3> QED
      BY <2>3, <3>1, <3>2
  <2> HIDE DEF g, m
  <2> QED
    BY <2>4, <2>5
<1> HIDE DEF g, m
<1>11. Owns(g, m, responses, own)
  <2>1. m \in Nat
    BY <1>4 DEF m
  <2> QED
    BY <2>1, <1>7, <1>8, <1>9, <1>10 DEF Owns
<1> QED
  BY <1>11 DEF own, unnamed, said

\* The lines that the server reads: those before one that is no object.
UpToFatal(lines) ==
    LET fatal == {i \in DOMAIN lines : lines[i].is = "value"}
    IN IF fatal = {} THEN lines ELSE SubSeq(lines, 1, Min(fatal) - 1)

LinesOf(lines, read) ==
    LET fatal == {i \in DOMAIN lines : lines[i].is = "value"}
    IN /\ Len(read) \in Nat /\ DOMAIN read = 1 .. Len(read) /\ Len(read) <= Len(lines)
       /\ \A i \in 1 .. Len(read) : read[i] = lines[i]
       /\ \A i \in DOMAIN lines : (\A f \in fatal : i < f) <=> i \in 1 .. Len(read)

LEMMA LinesRead == ASSUME NEW T, NEW lines \in Seq(T) PROVE LinesOf(lines, UpToFatal(lines))
<1> DEFINE fatal == {i \in DOMAIN lines : lines[i].is = "value"}
           read == IF fatal = {} THEN lines ELSE SubSeq(lines, 1, Min(fatal) - 1)
<1>0. UpToFatal(lines) = read
  BY Zenon DEF UpToFatal
<1>1. Len(lines) \in Nat /\ DOMAIN lines = 1 .. Len(lines)
  BY ListIs
<1>2. fatal \subseteq 1 .. Len(lines)
  BY <1>1
<1> HIDE DEF fatal
<1>3. CASE fatal = {}
  BY <1>0, <1>1, <1>3 DEF fatal, LinesOf
<1>4. CASE fatal # {}
  <2> DEFINE m == Min(fatal)
  <2>1. m \in fatal /\ \A x \in fatal : m <= x
    BY <1>1, <1>2, <1>4, LeastOf
  <2> HIDE DEF m
  <2>2. m \in 1 .. Len(lines)
    BY <1>2, <2>1
  <2>3. read = SubSeq(lines, 1, m - 1)
    BY <1>4 DEF m
  <2>4. /\ Len(read) = m - 1 /\ DOMAIN read = 1 .. m - 1
        /\ \A i \in 1 .. m - 1 : read[i] = lines[i]
    <3> DEFINE some == SubSeq(lines, 1, m - 1)
    <3>1. Len(some) = m - 1 /\ DOMAIN some = 1 .. m - 1 /\ \A i \in 1 .. m - 1 : some[i] = lines[i]
      BY <1>1, <2>2
    <3> HIDE DEF some, read
    <3> QED
      BY <2>3, <3>1 DEF some
  <2>5. ASSUME NEW i \in DOMAIN lines PROVE (\A f \in fatal : i < f) <=> i \in 1 .. m - 1
    <3>1. i \in 1 .. Len(lines) /\ \A f \in fatal : f \in 1 .. Len(lines)
      BY <1>1, <1>2
    <3>2. i < m => \A f \in fatal : i < f
      BY <1>1, <2>1, <2>2, <3>1
    <3>3. (\A f \in fatal : i < f) => i < m
      BY <2>1
    <3> QED
      BY <2>2, <3>1, <3>2, <3>3
  <2> HIDE DEF read
  <2>6. /\ Len(read) \in Nat /\ DOMAIN read = 1 .. Len(read) /\ Len(read) <= Len(lines)
        /\ \A i \in 1 .. Len(read) : read[i] = lines[i]
        /\ \A i \in DOMAIN lines : (\A f \in fatal : i < f) <=> i \in 1 .. Len(read)
    BY <1>1, <2>2, <2>4, <2>5
  <2> QED
    BY <1>0, <2>6, Zenon DEF fatal, read, LinesOf
<1> QED
  BY <1>3, <1>4

LEMMA SessionIs == \A lines \in SessionTasks : RequestsAnsweredOnce(lines, Serve(lines))
<1> SUFFICES ASSUME NEW lines \in SessionTasks PROVE RequestsAnsweredOnce(lines, Serve(lines))
  OBVIOUS
<1> DEFINE fatal == {i \in DOMAIN lines : lines[i].is = "value"}
           read == UpToFatal(lines)
           n == Len(read)
           responses == [i \in DOMAIN read |-> IF read[i].is = "object" THEN Handle(read[i]) ELSE Silence]
           told == Without(responses, {Silence})
           own == Without(told, {a \in ToSet(told) : a.id = NoId})
           heard == {i \in DOMAIN lines : lines[i].is = "object" /\ \A f \in fatal : i < f}
           asked == {i \in heard : lines[i].id # NoId}
           calls1 == {i \in asked : lines[i].method # "notifications/initialized"}
<1>1. /\ lines \in Seq(ToSet(lines)) /\ DOMAIN lines = 1 .. Len(lines) /\ Len(lines) \in Nat
      /\ \A i, j \in DOMAIN lines :
            {lines[i].is, lines[j].is} = {"object"} /\ lines[i].id = lines[j].id /\ lines[i].id # NoId => i = j
  <2>1. lines \in Seq(ToSet(lines))
    BY ToolsAssumption
  <2>2. DOMAIN lines = 1 .. Len(lines) /\ Len(lines) \in Nat
    BY <2>1, ListIs
  <2> QED
    BY <2>1, <2>2, ToolsAssumption
<1>2. /\ n \in Nat /\ DOMAIN read = 1 .. n /\ n <= Len(lines) /\ \A i \in 1 .. n : read[i] = lines[i]
      /\ \A i \in DOMAIN lines : (\A f \in fatal : i < f) <=> i \in 1 .. n
  <2>1. LinesOf(lines, read)
    BY <1>1, LinesRead, Zenon
  <2> QED
    BY <2>1, Zenon DEF LinesOf
<1>3. Serve(lines) = told
  BY Zenon DEF Serve, UpToFatal
<1> HIDE DEF fatal, n
<1>4. DOMAIN responses = 1 .. n /\ \A i \in 1 .. n : responses[i] = ResponseOf(lines[i])
  <2> HIDE DEF read
  <2> QED
    BY <1>2 DEF ResponseOf
<1>5. responses \in Seq({ResponseOf(lines[i]) : i \in 1 .. n}) /\ Len(responses) = n
  <2>1. responses = [i \in 1 .. n |-> responses[i]]
    BY <1>4
  <2> HIDE DEF responses
  <2> QED
    BY <1>2, <1>4, <2>1
<1> HIDE DEF read, responses
<1>6. PICK g, m : Owns(g, m, responses, own)
  BY <1>5, OwnAnswers, Zenon
<1> HIDE DEF told, own
<1>7. /\ m \in Nat /\ g \in [1 .. m -> 1 .. n] /\ own = [k \in 1 .. m |-> responses[g[k]]]
      /\ \A i, j \in 1 .. m : i < j => g[i] < g[j]
      /\ \A i \in 1 .. n : responses[i].id # NoId <=> \E k \in 1 .. m : g[k] = i
  BY <1>5, <1>6 DEF Owns
<1>8. \A i \in 1 .. n : Responds(lines[i], responses[i])
  BY <1>4, ResponsesAre
<1>9. \A i \in DOMAIN lines : i \in asked <=> i \in 1 .. n /\ lines[i].is = "object" /\ lines[i].id # NoId
  BY <1>2
<1>10. \A i : i \in calls1 <=> i \in 1 .. n /\ responses[i].id # NoId
  <2> SUFFICES ASSUME NEW i PROVE i \in calls1 <=> i \in 1 .. n /\ responses[i].id # NoId
    OBVIOUS
  <2>1. i \in calls1 => i \in DOMAIN lines /\ i \in asked /\ lines[i].method # "notifications/initialized"
    OBVIOUS
  <2>2. i \in asked /\ lines[i].method # "notifications/initialized" => i \in calls1
    OBVIOUS
  <2>3. i \in 1 .. n => i \in DOMAIN lines
    BY <1>1, <1>2
  <2> HIDE DEF calls1, asked
  <2> QED
    BY <1>8, <1>9, <2>1, <2>2, <2>3 DEF Responds
<1>11. \A i \in calls1 : i \in asked /\ lines[i].id = responses[i].id /\ i \in 1 .. n
  <2>1. \A i \in calls1 : i \in asked
    OBVIOUS
  <2> HIDE DEF calls1, asked
  <2> QED
    BY <1>8, <1>10, <2>1 DEF Responds
<1>12. \A k \in 1 .. m : g[k] \in calls1 /\ own[k] = responses[g[k]]
  <2> HIDE DEF calls1
  <2> QED
    BY <1>7, <1>10
<1>13. DOMAIN own = 1 .. m /\ Len(own) = m
  BY <1>7
<1>14. \A i \in asked : i \in 1 .. n /\ i \in DOMAIN lines /\ lines[i].is = "object" /\ lines[i].id # NoId
  BY <1>9
<1> HIDE DEF asked
<1>15. Len(own) = Cardinality({i \in asked : lines[i].method # "notifications/initialized"})
  <2>1. g \in [1 .. m -> calls1] /\ \A i, j \in 1 .. m : g[i] = g[j] => i = j
    <3> HIDE DEF calls1
    <3>1. g \in [1 .. m -> calls1]
      BY <1>7, <1>12
    <3>2. \A i, j \in 1 .. m : g[i] = g[j] => i = j
      BY <1>7
    <3> QED
      BY <3>1, <3>2
  <2>2. \A x \in calls1 : \E k \in 1 .. m : g[k] = x
    <3> HIDE DEF calls1
    <3> QED
      BY <1>7, <1>10
  <2>3. Cardinality(calls1) = m
    <3> HIDE DEF calls1
    <3>1. m \in Nat
      BY <1>7
    <3> QED
      BY ONLY <2>1, <2>2, <3>1, NamedOnce, Zenon
  <2> QED
    BY <1>13, <2>3
<1> HIDE DEF calls1
<1>16. \A i, j \in DOMAIN own : i < j =>
          \E k, l \in asked : k < l /\ lines[k].id = own[i].id /\ lines[l].id = own[j].id
  <2> SUFFICES ASSUME NEW i \in DOMAIN own, NEW j \in DOMAIN own, i < j
               PROVE  \E k, l \in asked : k < l /\ lines[k].id = own[i].id /\ lines[l].id = own[j].id
    OBVIOUS
  <2>1. i \in 1 .. m /\ j \in 1 .. m
    BY <1>13
  <2>2. g[i] < g[j]
    BY <1>7, <2>1
  <2>3. /\ g[i] \in asked /\ lines[g[i]].id = own[i].id
        /\ g[j] \in asked /\ lines[g[j]].id = own[j].id
    BY <1>11, <1>12, <2>1, Zenon
  <2> QED
    BY <2>2, <2>3, Zenon
<1>17. ASSUME NEW i \in asked, lines[i].method = "tools/call", lines[i].name \in DOMAIN ToolSpecs,
              ToolSpecs[lines[i].name].required \subseteq lines[i].arguments
       PROVE  /\ SdkCall(lines[i].name, lines[i].arguments) = "called"
              /\ (CHOOSE a \in ToSet(own) : a.id = lines[i].id).what =
                    IF lines[i].name \in Appliers /\ "approved" \in lines[i].arguments
                    THEN "ApprovalRequired" ELSE "called"
  <2>1. /\ responses[i].id = lines[i].id /\ responses[i].what = ToolCall(lines[i].name, lines[i].arguments)
        /\ responses[i].id # NoId
    BY <1>8, <1>14, <1>17 DEF Responds
  <2>2. PICK k \in 1 .. m : g[k] = i
    BY <1>7, <1>14, <2>1
  <2>3. own[k] = responses[i] /\ own[k] \in ToSet(own)
    BY <1>12, <1>13, <2>2 DEF ToSet
  <2>4. ASSUME NEW a \in ToSet(own), a.id = lines[i].id PROVE a = responses[i]
    <3>1. PICK h \in 1 .. m : a = own[h]
      BY <1>13 DEF ToSet
    <3>2. a = responses[g[h]] /\ g[h] \in asked /\ lines[g[h]].id = lines[i].id
      BY <1>11, <1>12, <2>4, <3>1
    <3>3. g[h] = i
      BY <1>1, <1>14, <3>2
    <3> QED
      BY <3>2, <3>3
  <2>5. (CHOOSE a \in ToSet(own) : a.id = lines[i].id) = responses[i]
    BY <2>1, <2>3, <2>4, Zenon
  <2>6. SdkCall(lines[i].name, lines[i].arguments) = "called"
        /\ ToolCall(lines[i].name, lines[i].arguments) =
               IF lines[i].name \in Appliers /\ "approved" \in lines[i].arguments THEN "ApprovalRequired" ELSE "called"
    BY <1>17, CallsAre, Zenon
  <2> QED
    BY <2>1, <2>5, <2>6, Zenon
<1>18. \A i \in asked : lines[i].method = "tools/call" /\ lines[i].name \in DOMAIN ToolSpecs =>
          LET spec == ToolSpecs[lines[i].name] given == lines[i].arguments
              what == (CHOOSE a \in ToSet(own) : a.id = lines[i].id).what
          IN spec.required \subseteq given =>
                 /\ SdkCall(lines[i].name, given) = "called"
                 /\ what = IF lines[i].name \in Appliers /\ "approved" \in given
                           THEN "ApprovalRequired" ELSE "called"
  BY <1>17, Zenon
<1>19. RequestsAnsweredOnce(lines, told)
  BY <1>15, <1>16, <1>18, ZenonT(60) DEF RequestsAnsweredOnce, own, asked, fatal, heard
<1> QED
  BY <1>3, <1>19
----------------------------------------------------------------------------
(* The turns of a chat.                                                      *)

NotesIn(messages) == UNION {ToSet(messages[i].notes) : i \in DOMAIN messages}

LEMMA TalkIs ==
    \A messages \in TalkTasks :
       /\ Len(messages) \in Nat \ {0} /\ DOMAIN messages = 1 .. Len(messages)
       /\ messages \in Seq(ToSet(messages))
       /\ \A i \in 1 .. Len(messages) :
             /\ messages[i].notes \in Seq(NotesIn(messages))
             /\ \A n \in ToSet(messages[i].notes) : n.type = "document_file" => n.names \in Seq(ToSet(n.names))
<1> SUFFICES ASSUME NEW messages \in TalkTasks
             PROVE  /\ Len(messages) \in Nat \ {0} /\ DOMAIN messages = 1 .. Len(messages)
                    /\ messages \in Seq(ToSet(messages))
                    /\ \A i \in 1 .. Len(messages) :
                          /\ messages[i].notes \in Seq(NotesIn(messages))
                          /\ \A n \in ToSet(messages[i].notes) : n.type = "document_file" => n.names \in Seq(ToSet(n.names))
  OBVIOUS
<1>1. messages # <<>> /\ messages \in Seq(ToSet(messages))
  BY TalkAssumption
<1>2. Len(messages) \in Nat /\ DOMAIN messages = 1 .. Len(messages)
  BY <1>1, ListIs
<1>3. Len(messages) # 0
  BY <1>1, <1>2
<1>4. ASSUME NEW i \in 1 .. Len(messages)
      PROVE  /\ messages[i].notes \in Seq(NotesIn(messages))
             /\ \A n \in ToSet(messages[i].notes) : n.type = "document_file" => n.names \in Seq(ToSet(n.names))
  <2>1. messages[i] \in ToSet(messages)
    BY <1>2 DEF ToSet
  <2>2. /\ messages[i].notes \in Seq(ToSet(messages[i].notes))
        /\ \A n \in ToSet(messages[i].notes) : n.type = "document_file" => n.names \in Seq(ToSet(n.names))
    BY <2>1, TalkAssumption
  <2>3. ToSet(messages[i].notes) \subseteq NotesIn(messages)
    BY <1>2 DEF NotesIn
  <2>4. \A S, T : S \subseteq T => Seq(S) \subseteq Seq(T)
    OBVIOUS
  <2> QED
    BY <2>2, <2>3, <2>4
<1> QED
  BY <1>1, <1>2, <1>3, <1>4

\* What a message of role has is among the notes of that role.
LEMMA NotesAre ==
    ASSUME NEW messages \in TalkTasks, NEW role
    PROVE  /\ NotesOf(messages, role) \in Seq(NotesIn(messages))
           /\ \A i \in 1 .. Len(messages) :
                 messages[i].role = role => ToSet(messages[i].notes) \subseteq ToSet(NotesOf(messages, role))
<1> DEFINE n == Len(messages)
           T == NotesIn(messages)
           notes == [i \in DOMAIN messages |-> IF messages[i].role = role THEN messages[i].notes ELSE <<>>]
<1>1. n \in Nat /\ DOMAIN messages = 1 .. n /\ \A i \in 1 .. n : messages[i].notes \in Seq(T)
  BY TalkIs
<1>2. <<>> \in Seq(T)
  OBVIOUS
<1> HIDE DEF n, T
<1>3. notes \in [1 .. n -> Seq(T)]
  BY <1>1, <1>2
<1>4. \A i \in 1 .. n : messages[i].role = role => notes[i] = messages[i].notes
  BY <1>1
<1>5. NotesOf(messages, role) = FlattenSeq(notes)
  BY DEF NotesOf
<1> HIDE DEF notes
<1>6. FlattenSeq(notes) \in Seq(T) /\ \A i \in 1 .. n : ToSet(notes[i]) \subseteq ToSet(FlattenSeq(notes))
  BY <1>1, <1>3, FlattenHas, Zenon
<1> QED
  BY <1>4, <1>5, <1>6 DEF n, T

\* The notes of agents, message by message.
SaidBy(m) == IF m.role # "assistant" THEN <<>> ELSE OfType(m.notes, "agent")

Room(list, max) == IF Len(list) < max THEN max - Len(list) ELSE 1

LEMMA AgentsAre ==
    ASSUME NEW messages \in TalkTasks, NEW max \in Nat
    PROVE  LET kept == AgentsUpTo(messages, max)
           IN /\ kept[0] = <<>>
              /\ \A i \in 1 .. Len(messages) :
                    /\ SaidBy(messages[i]) \in Seq(NotesIn(messages))
                    /\ kept[i - 1] \in Seq(NotesIn(messages))
                    /\ kept[i] = kept[i - 1] \o FirstOf(SaidBy(messages[i]), Room(kept[i - 1], max))
<1> DEFINE n == Len(messages)
           All == Seq(NotesIn(messages))
           More(i, list) == list \o FirstOf(SaidBy(messages[i]), Room(list, max))
           Of(f) == [i \in 0 .. n |-> IF i = 0 THEN <<>> ELSE More(i, f[i - 1])]
           step == [p \in (1 .. n) \X All |-> More(p[1], p[2])]
<1>1. n \in Nat /\ <<>> \in All
  <2>1. <<>> \in All
    OBVIOUS
  <2> QED
    BY <2>1, TalkIs
<1>2. ASSUME NEW i \in 1 .. n PROVE SaidBy(messages[i]) \in All
  <2>1. messages[i].notes \in All
    BY <1>2, TalkIs
  <2>2. OfType(messages[i].notes, "agent") \in All
    BY <2>1, WithoutSet DEF OfType
  <2> HIDE DEF All
  <2> QED
    BY <1>1, <2>2 DEF SaidBy
<1>3. ASSUME NEW i \in 1 .. n, NEW list \in All PROVE More(i, list) \in All
  <2>1. Room(list, max) \in Nat
    <3>1. Len(list) \in Nat
      BY ListIs
    <3> HIDE DEF All
    <3> QED
      BY <3>1 DEF Room
  <2>2. FirstOf(SaidBy(messages[i]), Room(list, max)) \in All
    BY <1>2, <2>1, FirstOfIs
  <2> QED
    BY <2>2, JoinIs
<1> HIDE DEF All, More
<1>4. step \in [(1 .. n) \X All -> All]
  <2>1. ASSUME NEW p \in (1 .. n) \X All PROVE More(p[1], p[2]) \in All
    <3>1. p[2] \in All /\ p[1] \in 1 .. n
      OBVIOUS
    <3> QED
      BY <1>3, <3>1
  <2> QED
    BY <2>1, Zenon
<1>5. \A i \in 1 .. n, list \in All : step[<<i, list>>] = More(i, list)
  OBVIOUS
<1> HIDE DEF step
<1>6. PICK f : Grows(f, n, All, <<>>, step)
  BY <1>1, <1>4, Recursion, Zenon
<1>7. f \in [0 .. n -> All] /\ f[0] = <<>> /\ \A i \in 1 .. n : f[i] = step[<<i, f[i - 1]>>]
  BY <1>6, Zenon DEF Grows
<1> HIDE DEF n
<1>8. f = Of(f)
  <2>1. ASSUME NEW i \in 0 .. n PROVE f[i] = IF i = 0 THEN <<>> ELSE More(i, f[i - 1])
    <3>1. i # 0 => i \in 1 .. n /\ i - 1 \in 0 .. n
      BY <1>1
    <3>2. i # 0 => f[i - 1] \in All
      BY <1>7, <3>1
    <3> QED
      BY <1>5, <1>7, <3>1, <3>2
  <2>2. f = [i \in 0 .. n |-> f[i]]
    BY <1>7
  <2> QED
    BY <2>1, <2>2
<1> DEFINE h == CHOOSE f_1 : f_1 = Of(f_1)
<1>9. h = Of(h)
  BY <1>8
<1>10. AgentsUpTo(messages, max) = h
  BY Zenon DEF AgentsUpTo, SaidBy, Room, More, n
<1> HIDE DEF h
<1>11. \A i \in 0 .. n : h[i] = IF i = 0 THEN <<>> ELSE More(i, h[i - 1])
  BY <1>9
<1>12. h[0] = <<>> /\ \A i \in 1 .. n : h[i] = More(i, h[i - 1])
  BY <1>1, <1>11
<1> DEFINE G == {i \in 0 .. n : h[i] \in All}
<1>13. ASSUME NEW i \in 0 .. n PROVE h[i] \in All
  <2>1. 0 \in G /\ i \in Nat
    BY <1>1, <1>12
  <2>2. ASSUME NEW j \in 1 .. i, j - 1 \in G PROVE j \in G
    <3>1. j \in 1 .. n /\ j \in 0 .. n
      BY <1>1
    <3> QED
      BY <1>3, <1>12, <2>2, <3>1
  <2>3. i \in G
    <3> HIDE DEF G
    <3> QED
      BY <2>1, <2>2, UpTo
  <2> QED
    BY <2>3
<1>14. \A i \in 1 .. n : SaidBy(messages[i]) \in All /\ h[i - 1] \in All
  <2>1. \A i \in 1 .. n : i - 1 \in 0 .. n
    BY <1>1
  <2> QED
    BY <1>2, <1>13, <2>1 DEF n
<1> QED
  BY <1>10, <1>12, <1>14, Zenon DEF All, More, n

\* No more notes of agents than the bound, and one for each later message.
LEMMA AgentsAreFew == \A messages \in TalkTasks : Len(AgentMessages(messages, 5)) <= 5 + Len(messages)
<1> SUFFICES ASSUME NEW messages \in TalkTasks PROVE Len(AgentMessages(messages, 5)) <= 5 + Len(messages)
  OBVIOUS
<1> DEFINE kept == AgentsUpTo(messages, 5)
           n == Len(messages)
           G == {i \in 0 .. n : Len(kept[i]) \in 0 .. 5 + i}
           T == NotesIn(messages)
<1>1. n \in Nat
  BY TalkIs
<1>2. /\ kept[0] = <<>>
      /\ \A i \in 1 .. n : /\ SaidBy(messages[i]) \in Seq(T) /\ kept[i - 1] \in Seq(T)
                           /\ kept[i] = kept[i - 1] \o FirstOf(SaidBy(messages[i]), Room(kept[i - 1], 5))
  <2>1. 5 \in Nat
    OBVIOUS
  <2> QED
    BY <2>1, AgentsAre, Zenon
<1> HIDE DEF kept, n, T
<1>3. 0 \in G
  BY <1>1, <1>2
<1>4. ASSUME NEW i \in 1 .. n, i - 1 \in G PROVE i \in G
  <2> DEFINE old == kept[i - 1]
             said == SaidBy(messages[i])
             new == FirstOf(said, Room(old, 5))
  <2>1. Len(old) \in 0 .. 5 + (i - 1)
    BY <1>4
  <2>2. old \in Seq(T) /\ said \in Seq(T) /\ kept[i] = old \o new
    BY <1>2
  <2> HIDE DEF old, said
  <2>3. Room(old, 5) \in Nat /\ Room(old, 5) = IF Len(old) < 5 THEN 5 - Len(old) ELSE 1
    BY <2>1 DEF Room
  <2>4. new \in Seq(T) /\ Len(new) <= Room(old, 5)
    BY <2>2, <2>3, FirstOfIs
  <2> HIDE DEF new
  <2>5. Len(kept[i]) = Len(old) + Len(new) /\ Len(new) \in Nat
    BY <2>2, <2>4, JoinIs, ListIs
  <2> QED
    BY <1>1, <2>1, <2>3, <2>4, <2>5
<1>5. n \in G
  <2> HIDE DEF G
  <2> QED
    BY <1>1, <1>3, <1>4, UpTo
<1> QED
  BY <1>1, <1>5 DEF AgentMessages, kept, n

\* Every earlier turn, and then the last.
LEMMA TurnsAre == \A messages \in TalkTasks : Front(messages) \o <<Last(messages)>> = messages
<1> SUFFICES ASSUME NEW messages \in TalkTasks PROVE Front(messages) \o <<Last(messages)>> = messages
  OBVIOUS
<1> DEFINE n == Len(messages)
           T == ToSet(messages)
<1>1. n \in Nat \ {0} /\ messages \in Seq(T)
  BY TalkIs
<1> HIDE DEF T
<1>2. messages[n] \in T /\ messages = [i \in 1 .. n |-> messages[i]]
  BY <1>1
<1> DEFINE front == SubSeq(messages, 1, n - 1)
           last == <<messages[n]>>
<1>3. front \in Seq(T) /\ Len(front) = n - 1 /\ \A i \in 1 .. n - 1 : front[i] = messages[i]
  <2> DEFINE m == n - 1
  <2>1. m \in Nat /\ m <= Len(messages) /\ n - 1 = m
    BY <1>1
  <2> HIDE DEF m, n
  <2>2. SubSeq(messages, 1, m) \in Seq(T) /\ Len(SubSeq(messages, 1, m)) = m
    BY <1>1, <2>1
  <2>3. \A i \in 1 .. m : SubSeq(messages, 1, m)[i] = messages[i]
    BY <1>1, <2>1
  <2> QED
    BY <2>1, <2>2, <2>3
<1>4. last \in Seq(T) /\ Len(last) = 1 /\ last[1] = messages[n]
  BY <1>2
<1> HIDE DEF front, last
<1> DEFINE whole == front \o last
<1>5. /\ whole \in Seq(T) /\ Len(whole) = Len(front) + Len(last)
      /\ \A i \in 1 .. Len(front) : whole[i] = front[i]
      /\ \A i \in 1 .. Len(last) : whole[Len(front) + i] = last[i]
  <2>1. front \in Seq(T) /\ last \in Seq(T)
    BY <1>3, <1>4
  <2> QED
    BY <2>1, JoinIs
<1> HIDE DEF whole
<1>6. \A i \in 1 .. n : whole[i] = messages[i]
  <2>1. whole[n - 1 + 1] = last[1] /\ n - 1 + 1 = n
    BY <1>1, <1>3, <1>4, <1>5
  <2>2. \A i \in 1 .. n : i = n \/ i \in 1 .. n - 1
    BY <1>1
  <2> QED
    BY <1>3, <1>4, <1>5, <2>1, <2>2
<1>7. whole = [i \in 1 .. n |-> whole[i]]
  BY <1>1, <1>3, <1>4, <1>5
<1>8. whole = messages
  BY <1>2, <1>6, <1>7
<1> QED
  BY <1>8 DEF Front, Last, whole, front, last, n

\* The files of every question are named, and their documents found again.
LEMMA FilesAreNamed ==
    ASSUME NEW messages \in TalkTasks, NEW i \in 1 .. Len(messages), NEW n \in ToSet(messages[i].notes),
           messages[i].role = "user", n.type = "document_file"
    PROVE  /\ ToSet(n.refs) \subseteq DocumentIds(messages)
           /\ ~LastMessage(messages).refused => ToSet(n.names) \subseteq ToSet(LastMessage(messages).files)
<1> DEFINE notes == NotesOf(messages, "user")
           other == {k \in ToSet(notes) : k.type # "document_file" \/ k.names = <<>>}
           files == Without(notes, other)
           T == NotesIn(messages)
           lists == [j \in DOMAIN files |-> files[j].names]
<1>1. notes \in Seq(T) /\ n \in ToSet(notes)
  BY NotesAre
<1>2. DOMAIN notes = 1 .. Len(notes) /\ Len(notes) \in Nat
  BY <1>1, ListIs
<1>3. ToSet(n.refs) \subseteq DocumentIds(messages)
  <2> HIDE DEF notes
  <2>1. PICK k \in DOMAIN notes : notes[k] = n
    BY <1>1 DEF ToSet
  <2>2. k \in {j \in DOMAIN notes : notes[j].type = "document_file"}
    BY <2>1
  <2> QED
    BY <2>1, <2>2 DEF DocumentIds, notes
<1>4. \A k \in ToSet(notes) : k.type = "document_file" => k.names \in Seq(ToSet(k.names))
  <2>1. \A k \in T : k.type = "document_file" => k.names \in Seq(ToSet(k.names))
    <3> SUFFICES ASSUME NEW k \in NotesIn(messages), k.type = "document_file"
                 PROVE  k.names \in Seq(ToSet(k.names))
      OBVIOUS
    <3>1. PICK p \in DOMAIN messages : k \in ToSet(messages[p].notes)
      BY Zenon DEF NotesIn
    <3>2. p \in 1 .. Len(messages)
      BY <3>1, TalkIs, Zenon
    <3> QED
      BY <3>1, <3>2, TalkIs, Zenon
  <2>2. ToSet(notes) \subseteq T
    <3> HIDE DEF notes, T
    <3> QED
      BY <1>1, <1>2, ListIs DEF ToSet
  <2> QED
    BY <2>1, <2>2
<1> HIDE DEF notes
<1>5. files \in Seq(T) /\ ToSet(files) = ToSet(notes) \ other
  <2> HIDE DEF other, T
  <2> QED
    BY <1>1, WithoutSet
<1> HIDE DEF files
<1>6. DOMAIN files = 1 .. Len(files) /\ Len(files) \in Nat
  BY <1>5, ListIs
<1> DEFINE U == UNION {ToSet(k.names) : k \in ToSet(files)}
<1>7. lists \in [1 .. Len(files) -> Seq(U)]
  <2>1. ASSUME NEW j \in 1 .. Len(files) PROVE files[j].names \in Seq(U)
    <3>1. files[j] \in ToSet(files)
      BY <1>6 DEF ToSet
    <3>2. files[j].names \in Seq(ToSet(files[j].names))
      BY <1>4, <1>5, <3>1
    <3>3. ToSet(files[j].names) \subseteq U
      BY <3>1
    <3>4. \A R, S : R \subseteq S => Seq(R) \subseteq Seq(S)
      OBVIOUS
    <3> HIDE DEF U
    <3> QED
      BY <3>2, <3>3, <3>4
  <2> HIDE DEF U
  <2> QED
    BY <1>6, <2>1
<1> HIDE DEF U
<1>8. ASSUME n.names # <<>> PROVE ToSet(n.names) \subseteq ToSet(FlattenSeq(lists))
  <2>1. n \in ToSet(files)
    BY <1>1, <1>5, <1>8
  <2>2. PICK j \in 1 .. Len(files) : files[j] = n
    BY <1>6, <2>1 DEF ToSet
  <2>3. lists[j] = n.names
    BY <1>6, <2>2
  <2> HIDE DEF lists
  <2>4. ToSet(lists[j]) \subseteq ToSet(FlattenSeq(lists))
    BY <1>6, <1>7, FlattenHas, Zenon
  <2> QED
    BY <2>3, <2>4
<1>9. n.names = <<>> => ToSet(n.names) = {}
  BY DEF ToSet
<1>10. ~LastMessage(messages).refused => LastMessage(messages).files = FlattenSeq(lists)
  BY DEF LastMessage, files, notes
<1> QED
  BY <1>3, <1>8, <1>9, <1>10

LEMMA MostOf ==
    ASSUME NEW n \in Nat, NEW S \in SUBSET (1 .. n), NEW x \in S, \A y \in S : y <= x
    PROVE  Max(S) = x
<1>1. \E y \in S : \A z \in S : y >= z
  OBVIOUS
<1>2. Max(S) \in S /\ \A z \in S : Max(S) >= z
  BY <1>1, Zenon DEF Max
<1> DEFINE m == Max(S)
<1>3. m \in S /\ m >= x
  BY <1>2
<1> HIDE DEF m
<1>4. m = x
  BY <1>3
<1> QED
  BY <1>4 DEF m

\* The code of the latest message with a tool that worked.
WorkedIn(m) ==
    IF m.role # "assistant" THEN <<>>
    ELSE Without(m.notes, {n \in ToSet(m.notes) : n.type # "tools" \/ n.failed})

LEMMA CodeIsLatest ==
    ASSUME NEW messages \in TalkTasks, NEW i \in 1 .. Len(messages), NEW n \in ToSet(messages[i].notes),
           messages[i].role = "assistant", n.type = "tools", ~n.failed,
           Cardinality({k \in DOMAIN messages[i].notes : messages[i].notes[k].type = "tools"}) = 1,
           \A j \in i + 1 .. Len(messages) : \A k \in ToSet(messages[j].notes) : k.type = "tools" => k.failed
    PROVE  LatestCode(messages) = n.code
<1> DEFINE at == {j \in DOMAIN messages : WorkedIn(messages[j]) # <<>>}
           N == Len(messages)
           T == NotesIn(messages)
<1>1. N \in Nat /\ DOMAIN messages = 1 .. N /\ \A j \in 1 .. N : messages[j].notes \in Seq(T)
  BY TalkIs
<1>2. ASSUME NEW j \in 1 .. N, messages[j].role = "assistant"
      PROVE  /\ WorkedIn(messages[j]) \in Seq(T)
             /\ \A k : k \in ToSet(WorkedIn(messages[j])) <=>
                           k \in ToSet(messages[j].notes) /\ k.type = "tools" /\ ~k.failed
  <2> DEFINE notes == messages[j].notes
             S == {k \in ToSet(notes) : k.type # "tools" \/ k.failed}
  <2>1. WorkedIn(messages[j]) = Without(notes, S)
    BY <1>2 DEF WorkedIn
  <2>2. notes \in Seq(T)
    BY <1>1
  <2>3. \A k : k \in ToSet(notes) \ S <=> k \in ToSet(notes) /\ k.type = "tools" /\ ~k.failed
    OBVIOUS
  <2> HIDE DEF notes, S, T
  <2>4. Without(notes, S) \in Seq(T) /\ ToSet(Without(notes, S)) = ToSet(notes) \ S
    BY <2>2, WithoutSet
  <2> QED
    BY <2>1, <2>3, <2>4 DEF notes
<1> HIDE DEF N, T
<1>3. n \in ToSet(WorkedIn(messages[i])) /\ WorkedIn(messages[i]) \in Seq(T)
  BY <1>2 DEF N
<1> DEFINE worked == WorkedIn(messages[i])
<1>4. Len(worked) \in Nat /\ DOMAIN worked = 1 .. Len(worked) /\ worked # <<>>
  <2> HIDE DEF worked
  <2>1. n \in ToSet(worked) /\ worked \in Seq(T)
    BY <1>3 DEF worked
  <2> QED
    BY <2>1, ListIs DEF ToSet
<1>5. worked[1] \in ToSet(worked)
  <2> HIDE DEF worked
  <2>1. Len(worked) # 0
    BY <1>4
  <2> QED
    BY <1>4, <2>1 DEF ToSet
<1>6. worked[1] \in ToSet(messages[i].notes) /\ worked[1].type = "tools"
  BY <1>2, <1>5 DEF N
<1>7. worked[1] = n
  <2> DEFINE notes == messages[i].notes
             places == {k \in DOMAIN notes : notes[k].type = "tools"}
  <2>1. PICK k, h \in DOMAIN notes : notes[k] = n /\ notes[h] = worked[1]
    BY <1>6 DEF ToSet
  <2>2. k \in places /\ h \in places
    BY <1>6, <2>1
  <2>3. IsFiniteSet(places)
    <3>1. notes \in Seq(T)
      BY <1>1 DEF N, T
    <3> HIDE DEF notes
    <3>2. DOMAIN notes = 1 .. Len(notes) /\ Len(notes) \in Nat
      BY <3>1, ListIs
    <3>3. IsFiniteSet(1 .. Len(notes)) /\ places \subseteq 1 .. Len(notes)
      BY <3>2, FirstNumbers
    <3> HIDE DEF places
    <3> QED
      BY <3>3, FS_Subset
  <2> HIDE DEF places
  <2>4. Cardinality(places) = 1
    BY DEF places
  <2>5. k = h
    <3>1. ~(Cardinality(places) > 1)
      BY <2>4
    <3> QED
      BY <2>2, <2>3, <3>1, SeveralAre
  <2> QED
    BY <2>1, <2>5
<1>8. \A j \in at : j <= i
  <2> SUFFICES ASSUME NEW j \in at, ~(j <= i) PROVE FALSE
    OBVIOUS
  <2>1. j \in 1 .. N /\ j \in i + 1 .. N /\ WorkedIn(messages[j]) # <<>>
    BY <1>1 DEF N
  <2>2. messages[j].role = "assistant"
    BY <2>1 DEF WorkedIn
  <2>3. WorkedIn(messages[j]) \in Seq(T)
    BY <1>2, <2>1, <2>2
  <2> DEFINE some == WorkedIn(messages[j])
  <2>4. some[1] \in ToSet(some)
    <3> HIDE DEF some
    <3>1. some \in Seq(T) /\ some # <<>>
      BY <2>1, <2>3 DEF some
    <3>2. Len(some) \in Nat /\ DOMAIN some = 1 .. Len(some)
      BY <3>1, ListIs
    <3>3. Len(some) # 0
      BY <3>1, <3>2
    <3> QED
      BY <3>2, <3>3 DEF ToSet
  <2>5. some[1] \in ToSet(messages[j].notes) /\ some[1].type = "tools" /\ ~some[1].failed
    BY <1>2, <2>1, <2>2, <2>4
  <2> QED
    BY <2>1, <2>5 DEF N
<1>9. i \in at /\ at \in SUBSET (1 .. N)
  BY <1>1, <1>4 DEF N
<1> HIDE DEF worked
<1>10. LatestCode(messages) = IF at = {} THEN NoCode ELSE WorkedIn(messages[Max(at)])[1].code
  BY Zenon DEF LatestCode, WorkedIn
<1> HIDE DEF at
<1>11. Max(at) = i
  BY <1>1, <1>8, <1>9, MostOf
<1> QED
  BY <1>7, <1>9, <1>10, <1>11 DEF worked

LEMMA HistoryIs ==
    \A messages \in TalkTasks :
       HistoryKeepsTheTurns(messages, LastMessage(messages), HistoryMessages(messages, TRUE, TRUE), DocumentIds(messages))
<1> SUFFICES ASSUME NEW messages \in TalkTasks
             PROVE  HistoryKeepsTheTurns(messages, LastMessage(messages), HistoryMessages(messages, TRUE, TRUE),
                                         DocumentIds(messages))
  OBVIOUS
<1> DEFINE history == HistoryMessages(messages, TRUE, TRUE)
           last == LastMessage(messages)
<1>1. history.turns = Front(messages) /\ history.agents = AgentMessages(messages, 5) /\ history.code = LatestCode(messages)
  BY DEF HistoryMessages
<1>2. ~last.refused => last.says = Last(messages).says
  BY DEF LastMessage
<1> HIDE DEF history, last
<1>3. history.turns \o <<Last(messages)>> = messages /\ Len(history.agents) <= 5 + Len(messages)
  BY <1>1, TurnsAre, AgentsAreFew
<1>4. DOMAIN messages = 1 .. Len(messages)
  BY TalkIs
<1>5. \A i \in 1 .. Len(messages) : \A n \in ToSet(messages[i].notes) :
         messages[i].role = "user" /\ n.type = "document_file" =>
             /\ ToSet(n.refs) \subseteq DocumentIds(messages)
             /\ ~last.refused => ToSet(n.names) \subseteq ToSet(last.files)
  BY FilesAreNamed, Zenon DEF last
<1>6. \A i \in 1 .. Len(messages) : \A n \in ToSet(messages[i].notes) :
         messages[i].role = "assistant" /\ n.type = "tools" =>
             (/\ ~n.failed /\ Cardinality({k \in DOMAIN messages[i].notes :
                                              messages[i].notes[k].type = "tools"}) = 1
              /\ \A j \in i + 1 .. Len(messages) : \A k \in ToSet(messages[j].notes) :
                    k.type = "tools" => k.failed
              => history.code = n.code)
  BY <1>1, CodeIsLatest, Zenon
<1> QED
  BY <1>2, <1>3, <1>4, <1>5, <1>6, Zenon DEF HistoryKeepsTheTurns, last, history
----------------------------------------------------------------------------
(* The tokens of a rollout.                                                  *)

\* What every one of the lists is, all of them joined are.
LEMMA FlattenStays ==
    ASSUME NEW T, NEW A \in SUBSET Seq(T), <<>> \in A, \A s, t \in A : s \o t \in A,
           NEW n \in Nat, NEW seqs \in [1 .. n -> A]
    PROVE  FlattenSeq(seqs) \in A
<1>0. Len(seqs) = n
  OBVIOUS
<1>1. CASE n = 0
  <2>1. FlattenSeq(seqs) = seqs
    BY <1>0, <1>1, Zenon DEF FlattenSeq
  <2>2. seqs = <<>>
    BY <1>1
  <2> QED
    BY <2>1, <2>2
<1>2. CASE n # 0
  <2>1. n \in Nat \ {0} /\ seqs \in [1 .. n -> Seq(T)]
    <3>1. \A i \in 1 .. n : seqs[i] \in Seq(T)
      OBVIOUS
    <3> QED
      BY <1>2, <3>1
  <2>2. PICK f : Joins(f, seqs, T, n)
    BY <2>1, FlattenIs, Zenon
  <2>3. /\ FlattenSeq(seqs) = f[n] /\ f[1] = seqs[1]
        /\ \A i \in 1 .. n : f[i] \in Seq(T) /\ (i # 1 => f[i] = f[i - 1] \o seqs[i])
    BY <2>2, Zenon DEF Joins
  <2> DEFINE G == {m \in 0 .. n : m # 0 => f[m] \in A}
  <2>4. ASSUME NEW m \in 1 .. n, m - 1 \in G PROVE m \in G
    <3>0. m \in 0 .. n /\ seqs[m] \in A
      OBVIOUS
    <3>1. CASE m = 1
      BY <2>3, <3>0, <3>1
    <3>2. CASE m # 1
      <4>1. f[m] = f[m - 1] \o seqs[m]
        BY <2>3, <3>2
      <4>2. m - 1 # 0 /\ (m - 1 # 0 => f[m - 1] \in A)
        BY <2>4, <3>2
      <4>3. f[m] \in A
        BY <3>0, <4>1, <4>2
      <4> QED
        BY <3>0, <4>3
    <3> QED
      BY <3>1, <3>2
  <2>5. 0 \in G
    OBVIOUS
  <2>6. n \in G
    <3> HIDE DEF G
    <3> QED
      BY <2>4, <2>5, UpTo
  <2> QED
    BY <1>2, <2>3, <2>6
<1> QED
  BY <1>1, <1>2

\* The results that the environment writes, from a tag at a to a tag at b.
Segment(raw, a, b) ==
    /\ raw[a] = Token("<information>", "env") /\ raw[b] = Token("</information>", "env") /\ a < b
    /\ \A i \in a + 1 .. b - 1 : raw[i] = Token(raw[i].is, "file")

InSegments(raw, lo, hi) ==
    \A k \in lo + 1 .. hi : \E a \in lo + 1 .. hi, b \in lo + 1 .. hi : a <= k /\ k <= b /\ Segment(raw, a, b)

LEMMA Moved ==
    ASSUME NEW s, NEW u, NEW n \in Nat, NEW d \in Nat, \A i \in 1 .. n : u[d + i] = s[i], InSegments(s, 0, n)
    PROVE  InSegments(u, d, d + n)
<1> SUFFICES ASSUME NEW k \in d + 1 .. d + n
             PROVE  \E a \in d + 1 .. d + n, b \in d + 1 .. d + n : a <= k /\ k <= b /\ Segment(u, a, b)
  BY Zenon DEF InSegments
<1>1. k - d \in 0 + 1 .. n
  OBVIOUS
<1>2. PICK a \in 0 + 1 .. n, b \in 0 + 1 .. n : a <= k - d /\ k - d <= b /\ Segment(s, a, b)
  BY <1>1, Zenon DEF InSegments
<1>3. u[d + a] = s[a] /\ u[d + b] = s[b]
  OBVIOUS
<1>4. ASSUME NEW i \in (d + a) + 1 .. (d + b) - 1 PROVE u[i] = Token(u[i].is, "file")
  <2>1. i - d \in a + 1 .. b - 1 /\ i - d \in 1 .. n /\ d + (i - d) = i
    OBVIOUS
  <2>2. u[i] = s[i - d]
    BY <2>1
  <2> QED
    BY <1>2, <2>1, <2>2 DEF Segment
<1>5. d + a < d + b
  BY <1>2 DEF Segment
<1>6. Segment(u, d + a, d + b)
  BY <1>2, <1>3, <1>4, <1>5 DEF Segment
<1>7. d + a \in d + 1 .. d + n /\ d + b \in d + 1 .. d + n /\ d + a <= k /\ k <= d + b
  BY <1>2
<1> QED
  BY <1>6, <1>7

ResultLists(T) == {s \in Seq(T) : InSegments(s, 0, Len(s))}

LEMMA ResultsJoined == ASSUME NEW T, NEW s \in ResultLists(T), NEW t \in ResultLists(T) PROVE s \o t \in ResultLists(T)
<1> DEFINE u == s \o t
<1>1. s \in Seq(T) /\ t \in Seq(T) /\ InSegments(s, 0, Len(s)) /\ InSegments(t, 0, Len(t))
  BY DEF ResultLists
<1>2. Len(s) \in Nat /\ Len(t) \in Nat
  BY <1>1, ListIs
<1>3. /\ u \in Seq(T) /\ Len(u) = Len(s) + Len(t)
      /\ \A i \in 1 .. Len(s) : u[i] = s[i]
      /\ \A i \in 1 .. Len(t) : u[Len(s) + i] = t[i]
  BY <1>1, JoinIs
<1> HIDE DEF u
<1>4. InSegments(u, 0, 0 + Len(s))
  <2>1. \A i \in 1 .. Len(s) : u[0 + i] = s[i]
    BY <1>3
  <2> QED
    BY <1>1, <1>2, <2>1, Moved
<1>5. InSegments(u, Len(s), Len(s) + Len(t))
  BY <1>1, <1>2, <1>3, Moved
<1>6. InSegments(u, 0, Len(u))
  <2> SUFFICES ASSUME NEW k \in 0 + 1 .. Len(u)
               PROVE  \E a \in 0 + 1 .. Len(u), b \in 0 + 1 .. Len(u) : a <= k /\ k <= b /\ Segment(u, a, b)
    BY Zenon DEF InSegments
  <2>1. CASE k <= Len(s)
    <3>1. k \in 0 + 1 .. 0 + Len(s)
      BY <1>2, <1>3, <2>1
    <3>2. PICK a \in 0 + 1 .. 0 + Len(s), b \in 0 + 1 .. 0 + Len(s) : a <= k /\ k <= b /\ Segment(u, a, b)
      BY <1>4, <3>1, Zenon DEF InSegments
    <3>3. a \in 0 + 1 .. Len(u) /\ b \in 0 + 1 .. Len(u)
      BY <1>2, <1>3
    <3> QED
      BY <3>2, <3>3
  <2>2. CASE ~(k <= Len(s))
    <3>1. k \in Len(s) + 1 .. Len(s) + Len(t)
      BY <1>2, <1>3, <2>2
    <3>2. PICK a \in Len(s) + 1 .. Len(s) + Len(t), b \in Len(s) + 1 .. Len(s) + Len(t) :
             a <= k /\ k <= b /\ Segment(u, a, b)
      BY <1>5, <3>1, Zenon DEF InSegments
    <3>3. a \in 0 + 1 .. Len(u) /\ b \in 0 + 1 .. Len(u)
      BY <1>2, <1>3
    <3> QED
      BY <3>2, <3>3
  <2> QED
    BY <2>1, <2>2
<1> QED
  BY <1>3, <1>6 DEF ResultLists, u

\* A rollout: what the policy wrote, and after lo of it, up to hi, results.
Filled(raw, lo, hi) ==
    /\ lo \in Nat /\ hi \in Nat /\ lo <= hi /\ Len(raw) \in Nat /\ hi <= Len(raw) /\ DOMAIN raw = 1 .. Len(raw)
    /\ InSegments(raw, lo, hi)
    /\ \A i \in 1 .. Len(raw) : i \notin lo + 1 .. hi => raw[i] = Token(raw[i].is, "policy")
    /\ \A i \in 1 .. lo : raw[i].is # "<information>"

LEMMA AroundIs ==
    ASSUME NEW T, NEW pre \in Seq(T), NEW mid \in ResultLists(T), NEW post \in Seq(T),
           \A i \in 1 .. Len(pre) : pre[i] = Token(pre[i].is, "policy") /\ pre[i].is # "<information>",
           \A i \in 1 .. Len(post) : post[i] = Token(post[i].is, "policy")
    PROVE  Filled(pre \o mid \o post, Len(pre), Len(pre) + Len(mid))
<1> DEFINE m == Len(pre)
           n == Len(mid)
           p == Len(post)
           head1 == pre \o mid
           raw == head1 \o post
<1>1. m \in Nat /\ n \in Nat /\ p \in Nat /\ mid \in Seq(T) /\ InSegments(mid, 0, n)
  BY ListIs DEF ResultLists
<1>2. /\ head1 \in Seq(T) /\ Len(head1) = m + n
      /\ \A i \in 1 .. m : head1[i] = pre[i]
      /\ \A i \in 1 .. n : head1[m + i] = mid[i]
  BY <1>1, JoinIs
<1> HIDE DEF head1
<1>3. /\ raw \in Seq(T) /\ Len(raw) = Len(head1) + p
      /\ \A i \in 1 .. Len(head1) : raw[i] = head1[i]
      /\ \A i \in 1 .. p : raw[Len(head1) + i] = post[i]
  <2>1. head1 \in Seq(T) /\ post \in Seq(T)
    BY <1>2
  <2> QED
    BY <2>1, JoinIs
<1>4. DOMAIN raw = 1 .. Len(raw)
  BY <1>3, ListIs
<1> HIDE DEF raw, n, p
<1>5. \A i \in 1 .. m : raw[i] = pre[i]
  BY <1>1, <1>2, <1>3
<1>6. \A i \in 1 .. n : raw[m + i] = mid[i]
  <2>1. \A i \in 1 .. n : m + i \in 1 .. m + n
    BY <1>1
  <2> QED
    BY <1>1, <1>2, <1>3, <2>1
<1>7. InSegments(raw, m, m + n)
  BY <1>1, <1>6, Moved
<1>8. ASSUME NEW i \in 1 .. Len(raw), i \notin m + 1 .. m + n PROVE raw[i] = Token(raw[i].is, "policy")
  <2>1. CASE i <= m
    BY <1>1, <1>5, <2>1
  <2>2. CASE ~(i <= m)
    <3>1. i - (m + n) \in 1 .. p /\ m + n + (i - (m + n)) = i
      BY <1>1, <1>2, <1>3, <1>8, <2>2
    <3>2. raw[i] = post[i - (m + n)]
      BY <1>2, <1>3, <3>1
    <3> QED
      BY <3>1, <3>2 DEF p
  <2> QED
    BY <2>1, <2>2
<1>9. \A i \in 1 .. m : raw[i].is # "<information>"
  BY <1>5
<1>10. m <= m + n /\ m + n <= Len(raw) /\ Len(raw) \in Nat
  BY <1>1, <1>2, <1>3
<1>11. Filled(raw, m, m + n)
  BY <1>1, <1>4, <1>7, <1>8, <1>9, <1>10 DEF Filled
<1> QED
  BY <1>11 DEF raw, head1, n

\* A result hides from training what a file said, up to an end that the file
\* holds itself, and only that.
LEMMA MaskIs ==
    ASSUME NEW raw, NEW lo, NEW hi, Filled(raw, lo, hi)
    PROVE  /\ \A i \in DOMAIN raw : raw[i].from # "policy" /\ TrainMask(raw)[i] => ClosedByAFile(raw, i)
           /\ \A i \in DOMAIN raw : raw[i].from = "policy" /\ ~TrainMask(raw)[i] =>
                 \E j \in DOMAIN raw : raw[j] = Token("<information>", "policy")
<1> DEFINE opens == {i \in DOMAIN raw : raw[i].is = "<information>"}
           closes == {i \in DOMAIN raw : raw[i].is = "</information>"}
           spans == SpansOf(raw, "information")
           n == Len(raw)
<1>0. /\ lo \in Nat /\ hi \in Nat /\ lo <= hi /\ n \in Nat /\ hi <= n /\ DOMAIN raw = 1 .. n
      /\ \A i \in 1 .. n : i \notin lo + 1 .. hi => raw[i] = Token(raw[i].is, "policy")
      /\ \A i \in 1 .. lo : raw[i].is # "<information>"
  BY DEF Filled
<1>1. ASSUME NEW i \in 1 .. n, i \in lo + 1 .. hi
      PROVE  \E a \in lo + 1 .. hi, b \in lo + 1 .. hi : a <= i /\ i <= b /\ Segment(raw, a, b)
  BY <1>1, Zenon DEF Filled, InSegments
<1>2. spans = {span \in [from : opens, to : closes] :
                  /\ span.from < span.to /\ \A c \in closes : c \notin span.from .. span.to - 1
                  /\ \A o \in opens : o < span.from => \E c \in closes : c \in o .. span.from}
  BY DEF SpansOf, Opens, Closes
<1>3. \A i \in DOMAIN raw : TrainMask(raw)[i] <=> ~\E span \in spans : i \in span.from .. span.to
  BY DEF TrainMask
<1> HIDE DEF spans
<1>4. \A i \in opens : raw[i].is = "<information>"
  OBVIOUS
<1>5. \A is, from : Token(is, from).is = is /\ Token(is, from).from = from
  BY DEF Token
<1>6. \A a, b : Segment(raw, a, b) =>
         /\ raw[a].is = "<information>" /\ raw[a].from = "env"
         /\ raw[b].is = "</information>" /\ raw[b].from = "env" /\ a < b
         /\ \A i \in a + 1 .. b - 1 : raw[i].from = "file" /\ raw[i] = Token(raw[i].is, "file")
  <2> SUFFICES ASSUME NEW a, NEW b, Segment(raw, a, b)
               PROVE  /\ raw[a].is = "<information>" /\ raw[a].from = "env"
                      /\ raw[b].is = "</information>" /\ raw[b].from = "env" /\ a < b
                      /\ \A i \in a + 1 .. b - 1 : raw[i].from = "file" /\ raw[i] = Token(raw[i].is, "file")
    OBVIOUS
  <2>1. /\ raw[a] = Token("<information>", "env") /\ raw[b] = Token("</information>", "env") /\ a < b
        /\ \A i \in a + 1 .. b - 1 : raw[i] = Token(raw[i].is, "file")
    BY DEF Segment
  <2>2. ASSUME NEW i \in a + 1 .. b - 1 PROVE raw[i].from = "file"
    BY <1>5, <2>1
  <2>3. /\ raw[a].is = "<information>" /\ raw[a].from = "env"
        /\ raw[b].is = "</information>" /\ raw[b].from = "env"
    BY <1>5, <2>1
  <2> QED
    BY <2>1, <2>2, <2>3
<1>7. \A a \in 1 .. n, b \in 1 .. n : Segment(raw, a, b) => a \in opens /\ b \in closes
  BY <1>0, <1>6
<1>8. ASSUME NEW i \in DOMAIN raw, raw[i].from # "policy", TrainMask(raw)[i]
      PROVE  ClosedByAFile(raw, i)
  <2>1. i \in lo + 1 .. hi /\ i \in 1 .. n
    BY <1>0, <1>5, <1>8
  <2>2. PICK a \in lo + 1 .. hi, b \in lo + 1 .. hi : a <= i /\ i <= b /\ Segment(raw, a, b)
    BY <1>1, <2>1
  <2>3. a \in 1 .. n /\ b \in 1 .. n /\ a \in opens /\ b \in closes /\ a < b
    BY <1>0, <1>6, <1>7, <2>2
  <2>4. a \notin closes
    BY <2>3
  <2>5. CASE \E c \in closes : c \in a .. i - 1
    <3>1. PICK c \in closes : c \in a + 1 .. i - 1
      BY <1>0, <2>3, <2>4, <2>5
    <3>2. raw[c] = Token("</information>", "file") /\ c \in 1 .. i - 1
      <4>1. c \in a + 1 .. b - 1
        BY <1>0, <2>1, <2>2, <2>3, <3>1
      <4> QED
        BY <1>0, <1>6, <2>1, <2>2, <2>3, <3>1, <4>1
    <3>3. ASSUME NEW j \in c .. i PROVE raw[j] # Token("<information>", "env")
      <4>1. j \in a + 1 .. b - 1 \/ j = b
        BY <1>0, <2>1, <2>2, <2>3, <3>1
      <4>2. raw[j].from = "file" \/ raw[j].is = "</information>"
        BY <1>6, <2>2, <4>1
      <4> QED
        BY <1>5, <4>2
    <3> QED
      BY <3>2, <3>3 DEF ClosedByAFile
  <2>6. CASE \A c \in closes : c \notin a .. i - 1
    <3> DEFINE later == {c \in closes : i <= c}
    <3>1. b \in later /\ later \in SUBSET Nat
      BY <1>0, <2>2, <2>3
    <3>2. PICK to \in later : \A c \in later : to <= c
      <4> HIDE DEF later
      <4> QED
        BY <3>1, Least
    <3>3. to \in closes /\ i <= to /\ a < to /\ to \in 1 .. n
      BY <1>0, <2>1, <2>2, <2>3, <2>4, <3>2
    <3>4. ASSUME NEW c \in closes PROVE c \notin a .. to - 1
      <4>1. c \in 1 .. n
        BY <1>0
      <4> QED
        BY <2>1, <2>3, <2>6, <3>2, <3>3, <4>1
    <3>5. ASSUME NEW o \in opens, o < a PROVE \E c \in closes : c \in o .. a
      <4>1. o \in 1 .. n /\ o \in lo + 1 .. hi
        BY <1>0, <1>4, <2>3, <3>5
      <4>2. PICK d \in lo + 1 .. hi, e \in lo + 1 .. hi : d <= o /\ o <= e /\ Segment(raw, d, e)
        BY <1>1, <4>1
      <4>3. e \in closes
        BY <1>0, <1>7, <4>2
      <4>4. e < a
        <5>1. SUFFICES ASSUME ~(e < a) PROVE FALSE
          OBVIOUS
        <5>2. a # e
          BY <2>4, <4>3
        <5>3. a \in d + 1 .. e - 1
          BY <1>0, <2>3, <3>5, <4>1, <4>2, <5>1, <5>2
        <5>4. raw[a].from = "file" /\ raw[a].from = "env"
          BY <1>6, <2>2, <4>2, <5>3
        <5> QED
          BY <5>4
      <4> QED
        BY <4>1, <4>2, <4>3, <4>4, <2>3
    <3> DEFINE span == [from |-> a, to |-> to]
    <3>6. span \in spans
      <4>1. span \in [from : opens, to : closes] /\ span.from = a /\ span.to = to
        BY <2>3, <3>3
      <4> QED
        BY <1>2, <3>3, <3>4, <3>5, <4>1
    <3>7. i \in span.from .. span.to
      BY <1>0, <2>1, <2>2, <3>3
    <3> HIDE DEF span
    <3>8. FALSE
      BY <1>3, <1>8, <3>6, <3>7
    <3> QED
      BY <3>8
  <2> QED
    BY <2>5, <2>6
<1>9. ASSUME NEW i \in DOMAIN raw, raw[i].from = "policy", ~TrainMask(raw)[i]
      PROVE  \E j \in DOMAIN raw : raw[j] = Token("<information>", "policy")
  <2>1. PICK span \in spans : i \in span.from .. span.to
    BY <1>3, <1>9
  <2> DEFINE o == span.from
  <2>2. o \in opens /\ span.to \in closes /\ \A c \in closes : c \notin o .. span.to - 1
    BY <1>2
  <2>3. o \in 1 .. n /\ span.to \in 1 .. n /\ i \in 1 .. n /\ o <= i /\ i <= span.to
    BY <1>0, <2>1, <2>2
  <2> HIDE DEF o
  <2>4. CASE o \notin lo + 1 .. hi
    BY <1>0, <1>4, <2>2, <2>3, <2>4
  <2>5. CASE o \in lo + 1 .. hi
    <3>1. PICK a \in lo + 1 .. hi, b \in lo + 1 .. hi : a <= o /\ o <= b /\ Segment(raw, a, b)
      BY <1>1, <2>3, <2>5
    <3>2. b \in closes
      BY <1>0, <1>7, <3>1
    <3>3. span.to <= b
      BY <2>2, <2>3, <3>1, <3>2
    <3>4. i = a \/ i = b \/ i \in a + 1 .. b - 1
      BY <2>3, <3>1, <3>3
    <3>5. raw[i].from \in {"env", "file"}
      BY <1>6, <3>1, <3>4
    <3> QED
      BY <1>9, <3>5
  <2> QED
    BY <2>4, <2>5
<1> QED
  BY <1>8, <1>9

----------------------------------------------------------------------------
\* The discounted gains of the first ranks.
LEMMA DcgIs ==
    ASSUME NEW n \in Nat, 1 .. n \subseteq DOMAIN Discount, NEW gains \in [1 .. n -> Int]
    PROVE  LET sums == Totals([i \in DOMAIN gains |-> gains[i] * Discount[i]])
           IN /\ Dcg(gains) = sums[n] /\ sums[0] = 0
              /\ \A i \in 1 .. n : sums[i] = sums[i - 1] + gains[i] * Discount[i]
              /\ \A i \in 0 .. n : sums[i] \in Int
<1> DEFINE s == [i \in DOMAIN gains |-> gains[i] * Discount[i]]
<1>1. \A i \in 1 .. n : gains[i] * Discount[i] \in Int
  <2>1. \A i \in 1 .. n : Discount[i] \in Int /\ gains[i] \in Int
    BY DiscountAssumption
  <2> QED
    BY <2>1
<1>2. s \in Seq(Int) /\ Len(s) = n
  BY <1>1
<1>3. \A i \in 1 .. n : s[i] = gains[i] * Discount[i]
  OBVIOUS
<1>4. Dcg(gains) = Totals(s)[n]
  BY <1>2 DEF Dcg, Total
<1> HIDE DEF s
<1>5. /\ Totals(s)[0] = 0 /\ \A i \in 1 .. n : Totals(s)[i] = Totals(s)[i - 1] + s[i]
      /\ \A i \in 0 .. n : Totals(s)[i] \in Int
  BY <1>2, TotalsIs
<1> QED
  BY <1>3, <1>4, <1>5 DEF s

\* The relevant files among the first of the list.
HitsUpTo(list, rel, i) == {list[j] : j \in {j \in 1 .. i : list[j] \in rel}}

LEMMA HitsAre ==
    ASSUME NEW T, NEW list \in Seq(T), IsInjective(list), NEW rel, IsFiniteSet(rel), NEW i \in 1 .. Len(list)
    PROVE  LET before == Cardinality(HitsUpTo(list, rel, i - 1))
               now == Cardinality(HitsUpTo(list, rel, i))
           IN /\ before \in Nat /\ now \in Nat /\ now <= Cardinality(rel) /\ Cardinality(rel) \in Nat
              /\ now = IF list[i] \in rel THEN before + 1 ELSE before
<1> DEFINE V == HitsUpTo(list, rel, i - 1)
           W == HitsUpTo(list, rel, i)
<1>1. V \subseteq rel /\ W \subseteq rel
  BY DEF HitsUpTo
<1>2. W = IF list[i] \in rel THEN V \union {list[i]} ELSE V
  <2>1. \A j : j \in 1 .. i <=> j \in 1 .. i - 1 \/ j = i
    BY ListIs
  <2> QED
    BY <2>1 DEF HitsUpTo
<1>3. list[i] \notin V
  <2> SUFFICES ASSUME list[i] \in V PROVE FALSE
    OBVIOUS
  <2>1. PICK j \in 1 .. i - 1 : list[j] = list[i]
    BY DEF HitsUpTo
  <2>2. j \in DOMAIN list /\ i \in DOMAIN list /\ j # i
    BY ListIs
  <2> QED
    BY <2>1, <2>2 DEF IsInjective
<1> HIDE DEF V, W
<1>4. IsFiniteSet(V) /\ IsFiniteSet(W)
  BY <1>1, FS_Subset
<1>5. Cardinality(V) \in Nat /\ Cardinality(W) \in Nat /\ Cardinality(W) <= Cardinality(rel) /\ Cardinality(rel) \in Nat
  BY <1>1, <1>4, FS_Subset, FS_CardinalityType
<1>6. list[i] \in rel => Cardinality(W) = Cardinality(V) + 1
  BY <1>2, <1>3, <1>4, FS_AddElement
<1> QED
  BY <1>2, <1>5, <1>6 DEF V, W

\* A ranking is worth no more than the ideal one, which is worth something.
LEMMA NdcgIs ==
    ASSUME NEW T, NEW list \in Seq(T), IsInjective(list), NEW rel, IsFiniteSet(rel),
           NEW k \in Nat \ {0}, 1 .. k \subseteq DOMAIN Discount
    PROVE  LET ndcg == NdcgAt(list, rel, k)
           IN  ndcg[1] \in Nat /\ ndcg[2] \in Nat \ {0} /\ ndcg[1] <= ndcg[2]
<1>1. CASE rel = {}
  BY <1>1 DEF NdcgAt, Zero
<1>2. CASE rel # {}
  <2> DEFINE n == IF k < Len(list) THEN k ELSE Len(list)
             c == Cardinality(rel)
             m == Min({k, c})
             gains == Gains(list, rel, k)
             ideal == IdealGains(rel, k)
             got == Totals([i \in DOMAIN gains |-> gains[i] * Discount[i]])
             best == Totals([i \in DOMAIN ideal |-> ideal[i] * Discount[i]])
             h(i) == Cardinality(HitsUpTo(list, rel, i))
  <2>1. n \in Nat /\ n <= k /\ n <= Len(list) /\ Len(list) \in Nat
    BY ListIs
  <2>2. c \in Nat /\ c # 0
    BY <1>2, FS_CardinalityType, FS_EmptySet
  <2>3. m \in Nat /\ m # 0 /\ m <= k /\ m <= c /\ (m = k \/ m = c)
    <3>1. c \in Int /\ k \in Int
      BY <2>2
    <3> HIDE DEF c
    <3> QED
      BY <2>2, <3>1, SmallerOfTwo
  <2>4. gains \in [1 .. n -> {0, 1}] /\ \A i \in 1 .. n : gains[i] = IF list[i] \in rel THEN 1 ELSE 0
    <3>1. DOMAIN TopK(list, k) = 1 .. n
      BY <2>1 DEF TopK
    <3> HIDE DEF n
    <3> QED
      BY <3>1 DEF Gains
  <2>5. ideal \in [1 .. m -> {1}]
    BY DEF IdealGains
  <2>6. NdcgAt(list, rel, k) = <<Dcg(gains), Dcg(ideal)>>
    BY <1>2 DEF NdcgAt
  <2> HIDE DEF c, gains, ideal, n, m
  <2>7. /\ Dcg(gains) = got[n] /\ got[0] = 0
        /\ \A i \in 1 .. n : got[i] = got[i - 1] + gains[i] * Discount[i]
        /\ \A i \in 0 .. n : got[i] \in Int
    <3>1. gains \in [1 .. n -> Int] /\ 1 .. n \subseteq DOMAIN Discount
      BY <2>1, <2>4
    <3> QED
      BY <2>1, <3>1, DcgIs
  <2>8. /\ Dcg(ideal) = best[m] /\ best[0] = 0
        /\ \A i \in 1 .. m : best[i] = best[i - 1] + ideal[i] * Discount[i]
        /\ \A i \in 0 .. m : best[i] \in Int
    <3>1. ideal \in [1 .. m -> Int] /\ 1 .. m \subseteq DOMAIN Discount
      BY <2>3, <2>5
    <3> QED
      BY <2>3, <3>1, DcgIs
  <2> HIDE DEF got, best
  <2>9. \A i \in 1 .. k : Discount[i] \in Nat \ {0}
    BY DiscountAssumption
  <2>10. \A i \in 1 .. m : best[i] = best[i - 1] + Discount[i]
    BY <2>3, <2>5, <2>8, <2>9
  <2>11. \A i \in 1 .. n : got[i] = got[i - 1] + IF list[i] \in rel THEN Discount[i] ELSE 0
    <3> SUFFICES ASSUME NEW i \in 1 .. n PROVE got[i] = got[i - 1] + IF list[i] \in rel THEN Discount[i] ELSE 0
      OBVIOUS
    <3>1. Discount[i] \in Nat
      BY <2>1, <2>9
    <3>2. gains[i] * Discount[i] = IF list[i] \in rel THEN Discount[i] ELSE 0
      BY <2>4, <3>1
    <3> QED
      BY <2>7, <3>2
  <2>12. ASSUME NEW i \in 1 .. n
         PROVE  /\ h(i - 1) \in Nat /\ h(i) \in Nat /\ h(i) <= c
                /\ h(i) = IF list[i] \in rel THEN h(i - 1) + 1 ELSE h(i - 1)
    <3>1. i \in 1 .. Len(list)
      BY <2>1
    <3> QED
      BY <3>1, HitsAre DEF c
  <2>13. h(0) = 0
    <3>1. HitsUpTo(list, rel, 0) = {}
      BY DEF HitsUpTo
    <3> QED
      BY <3>1, FS_EmptySet
  <2> HIDE DEF h
  <2> DEFINE G == {i \in 0 .. n : h(i) \in 0 .. i /\ h(i) <= m /\ 0 <= got[i] /\ got[i] <= best[h(i)]}
  <2>14. 0 \in G
    BY <2>1, <2>3, <2>7, <2>8, <2>13
  <2>15. ASSUME NEW i \in 1 .. n, i - 1 \in G PROVE i \in G
    <3>1. /\ h(i - 1) \in 0 .. i - 1 /\ h(i - 1) <= m /\ 0 <= got[i - 1] /\ got[i - 1] <= best[h(i - 1)]
          /\ got[i - 1] \in Int /\ i - 1 \in 0 .. n
      BY <2>7, <2>15
    <3>2. CASE list[i] \notin rel
      BY <2>1, <2>11, <2>12, <3>1, <3>2
    <3>3. CASE list[i] \in rel
      <4> DEFINE j == h(i)
      <4>1. j = h(i - 1) + 1 /\ j \in 1 .. i /\ j <= m
        <5>1. j = h(i - 1) + 1 /\ j <= c
          BY <2>12, <3>3
        <5>2. j \in 1 .. i
          BY <3>1, <5>1
        <5> HIDE DEF j
        <5> QED
          BY <2>1, <2>3, <5>1, <5>2
      <4>2. best[j] = best[h(i - 1)] + Discount[j] /\ best[h(i - 1)] \in Int
        <5>1. j \in 1 .. m /\ j - 1 = h(i - 1) /\ j - 1 \in 0 .. m
          BY <2>3, <3>1, <4>1
        <5> HIDE DEF j
        <5> QED
          BY <2>8, <2>10, <5>1
      <4>3. got[i] = got[i - 1] + Discount[i]
        BY <2>11, <3>3
      <4>4. Discount[i] <= Discount[j] /\ Discount[i] \in Nat /\ Discount[j] \in Nat
        <5>1. i \in 1 .. k /\ j \in 1 .. k /\ j <= i
          BY <2>1, <2>3, <4>1
        <5> HIDE DEF j
        <5>2. i \in DOMAIN Discount /\ j \in DOMAIN Discount
          BY <5>1
        <5>3. Discount[i] \in Nat /\ Discount[j] \in Nat /\ (j < i => Discount[j] > Discount[i])
          BY <2>9, <5>1, <5>2, DiscountAssumption
        <5> QED
          BY <5>1, <5>3
      <4>5. i \in 0 .. n /\ h(i) \in 0 .. i
        BY <2>1, <4>1
      <4>6. 0 <= got[i] /\ got[i] <= best[j]
        BY <3>1, <4>2, <4>3, <4>4
      <4> QED
        BY <4>1, <4>5, <4>6
    <3> QED
      BY <3>2, <3>3
  <2>16. n \in G
    <3> HIDE DEF G
    <3> QED
      BY <2>1, <2>14, <2>15, UpTo
  <2> DEFINE H == {i \in 0 .. m : \A j \in 0 .. i : best[j] <= best[i] /\ best[i] \in Int /\ (i # 0 => best[i] > 0)}
  <2>17. m \in H
    <3>1. 0 \in H
      BY <2>3, <2>8
    <3>2. ASSUME NEW i \in 1 .. m, i - 1 \in H PROVE i \in H
      <4>1. best[i] = best[i - 1] + Discount[i] /\ Discount[i] \in Nat \ {0} /\ i - 1 \in 0 .. m /\ i \in 0 .. m
        BY <2>3, <2>9, <2>10
      <4>2. best[i - 1] \in Int /\ best[i] \in Int /\ \A j \in 0 .. i : best[j] \in Int
        <5>1. \A j \in 0 .. i : j \in 0 .. m
          BY <2>3
        <5>2. \A j \in 0 .. m : best[j] \in Int
          BY <2>8
        <5> QED
          BY <4>1, <5>1, <5>2
      <4>3. \A j \in 0 .. i - 1 : best[j] <= best[i - 1]
        BY <3>2
      <4>4. best[i - 1] >= 0
        <5>1. 0 \in 0 .. i - 1
          OBVIOUS
        <5> QED
          BY <2>8, <4>2, <4>3, <5>1
      <4>5. \A j \in 0 .. i : j = i \/ j \in 0 .. i - 1
        OBVIOUS
      <4> QED
        BY <4>1, <4>2, <4>3, <4>4, <4>5
    <3> HIDE DEF H
    <3> QED
      BY <2>3, <3>1, <3>2, UpTo
  <2>18. got[n] <= best[m] /\ best[m] > 0 /\ 0 <= got[n] /\ got[n] \in Int /\ best[m] \in Int
    <3>1. h(n) \in 0 .. m /\ 0 <= got[n] /\ got[n] <= best[h(n)]
      BY <2>3, <2>16
    <3>2. best[h(n)] <= best[m] /\ best[m] > 0
      BY <2>3, <2>17, <3>1
    <3>3. got[n] \in Int /\ best[m] \in Int /\ best[h(n)] \in Int
      BY <2>1, <2>3, <2>7, <2>8, <3>1
    <3> QED
      BY <3>1, <3>2, <3>3
  <2> QED
    BY <2>6, <2>7, <2>8, <2>18
<1> QED
  BY <1>1, <1>2

----------------------------------------------------------------------------
(* A rollout that is filled.                                                 *)
LEMMA SpansAreFinite ==
    ASSUME NEW raw, Len(raw) \in Nat, DOMAIN raw = 1 .. Len(raw), NEW tag
    PROVE  /\ IsFiniteSet(SpansOf(raw, tag)) /\ Cardinality(SpansOf(raw, tag)) \in Nat
           /\ DOMAIN Texts(raw, tag) = 1 .. Cardinality(SpansOf(raw, tag))
           /\ Texts(raw, tag) \in Seq(ToSet(Texts(raw, tag)))
<1> DEFINE n == Len(raw)
           P == (1 .. n) \X (1 .. n)
           f == [p \in P |-> [from |-> p[1], to |-> p[2]]]
           spans == SpansOf(raw, tag)
           c == Cardinality(spans)
           texts == Texts(raw, tag)
<1>1. IsFiniteSet(P)
  <2>1. IsFiniteSet(1 .. n)
    BY FirstNumbers
  <2> QED
    BY <2>1, FS_Product
<1>2. IsFiniteSet({f[p] : p \in P})
  <2>1. DOMAIN f = P
    OBVIOUS
  <2> HIDE DEF f, P
  <2> QED
    BY <1>1, <2>1, ImageIsFinite
<1>3. spans \subseteq {f[p] : p \in P}
  <2> SUFFICES ASSUME NEW span \in spans PROVE \E p \in P : span = f[p]
    BY Zenon
  <2>1. span = [from |-> span.from, to |-> span.to] /\ span.from \in DOMAIN raw /\ span.to \in DOMAIN raw
    BY DEF SpansOf
  <2>2. <<span.from, span.to>> \in P
    BY <2>1
  <2>3. f[<<span.from, span.to>>] = span
    BY <2>1, <2>2
  <2> QED
    BY <2>2, <2>3
<1>4. IsFiniteSet(spans) /\ c \in Nat
  <2> HIDE DEF f, P, spans
  <2> QED
    BY <1>2, <1>3, FS_Subset, FS_CardinalityType DEF c
<1> HIDE DEF c
<1>5. DOMAIN texts = 1 .. c /\ texts = [i \in 1 .. c |-> texts[i]]
  <2>1. DOMAIN InOrder(spans) = 1 .. c
    BY DEF InOrder, Sorted, c
  <2> QED
    BY <2>1 DEF Texts
<1> HIDE DEF texts
<1>6. texts \in Seq(ToSet(texts))
  <2>1. \A i \in 1 .. c : texts[i] \in ToSet(texts)
    BY <1>5 DEF ToSet
  <2> QED
    BY <1>4, <1>5, <2>1
<1> QED
  BY <1>4, <1>5, <1>6 DEF c, texts

\* The searches of a rollout, which are found between its tags.
LEMMA SearchesAre ==
    ASSUME NEW raw, Len(raw) \in Nat, DOMAIN raw = 1 .. Len(raw)
    PROVE  /\ ParseTrajectory(raw).searches \in Seq(ToSet(Texts(raw, "search")))
           /\ Len(ParseTrajectory(raw).searches) \in Nat
           /\ ParseTrajectory(raw).searches # <<>> => \E i \in 1 .. Len(raw) : raw[i].is = "</search>"
<1> DEFINE texts == Texts(raw, "search")
           rest == NonEmpty(texts)
           spans == SpansOf(raw, "search")
<1>1. texts \in Seq(ToSet(texts)) /\ DOMAIN texts = 1 .. Cardinality(spans) /\ Cardinality(spans) \in Nat
      /\ IsFiniteSet(spans)
  BY SpansAreFinite
<1>2. rest \in Seq(ToSet(texts)) /\ ToSet(rest) \subseteq ToSet(texts)
  <2> HIDE DEF texts
  <2> QED
    BY <1>1, WithoutSet DEF NonEmpty
<1>3. Len(rest) \in Nat /\ DOMAIN rest = 1 .. Len(rest)
  <2> HIDE DEF rest
  <2> QED
    BY <1>2, ListIs
<1>4. ASSUME rest # <<>> PROVE \E i \in 1 .. Len(raw) : raw[i].is = "</search>"
  <2>1. Len(rest) # 0
    <3> HIDE DEF rest
    <3> QED
      BY <1>2, <1>4
  <2>2. rest[1] \in ToSet(rest)
    BY <1>3, <2>1 DEF ToSet
  <2>3. DOMAIN texts # {}
    BY <1>2, <2>2 DEF ToSet
  <2>4. Cardinality(spans) # 0
    BY <1>1, <2>3
  <2>5. spans # {}
    <3> HIDE DEF spans
    <3> QED
      BY <1>1, <2>4, FS_EmptySet
  <2>6. PICK span : span \in spans
    BY <2>5
  <2>7. span.to \in DOMAIN raw /\ raw[span.to].is = "</search>"
    BY <2>6 DEF SpansOf, Closes
  <2> QED
    BY <2>7
<1>5. ParseTrajectory(raw).searches = rest
  BY DEF ParseTrajectory
<1> QED
  BY <1>2, <1>3, <1>4, <1>5

\* What is found is put between the environment's own tags.
LEMMA InformationIs ==
    ASSUME NEW found, found.words \in Seq(ToSet(found.words)),
           NEW W, ToSet(found.words) \subseteq W, {"<information>", "</information>"} \subseteq W
    PROVE  Information(found) \in ResultLists([is : W, from : {"policy", "env", "file"}])
<1> DEFINE T == [is : W, from : {"policy", "env", "file"}]
           words == found.words
           n == Len(words)
           open == <<Token("<information>", "env")>>
           said == [i \in DOMAIN words |-> Token(words[i], "file")]
           close == <<Token("</information>", "env")>>
<1>1. n \in Nat /\ DOMAIN words = 1 .. n /\ \A i \in 1 .. n : words[i] \in W
  <2>1. n \in Nat /\ DOMAIN words = 1 .. n
    BY ListIs
  <2> QED
    BY <2>1 DEF ToSet
<1> HIDE DEF words, n
<1>2. said \in Seq(T) /\ Len(said) = n /\ \A i \in 1 .. n : said[i] = Token(words[i], "file")
  <2>1. \A i \in 1 .. n : Token(words[i], "file") \in T
    BY <1>1 DEF Token
  <2> QED
    BY <1>1, <2>1
<1>3. open \in Seq(T) /\ Len(open) = 1 /\ open[1] = Token("<information>", "env")
  <2>1. Token("<information>", "env") \in T
    BY DEF Token
  <2> QED
    BY <2>1
<1>4. close \in Seq(T) /\ Len(close) = 1 /\ close[1] = Token("</information>", "env")
  <2>1. Token("</information>", "env") \in T
    BY DEF Token
  <2> QED
    BY <2>1
<1> DEFINE half == open \o said
           whole == half \o close
<1> HIDE DEF open, said, close, T
<1>5. /\ half \in Seq(T) /\ Len(half) = Len(open) + Len(said)
      /\ \A i \in 1 .. Len(open) : half[i] = open[i]
      /\ \A i \in 1 .. Len(said) : half[Len(open) + i] = said[i]
  <2>1. open \in Seq(T) /\ said \in Seq(T)
    BY <1>2, <1>3
  <2> QED
    BY <2>1, JoinIs
<1> HIDE DEF half
<1>6. /\ whole \in Seq(T) /\ Len(whole) = Len(half) + Len(close)
      /\ \A i \in 1 .. Len(half) : whole[i] = half[i]
      /\ \A i \in 1 .. Len(close) : whole[Len(half) + i] = close[i]
  <2>1. half \in Seq(T) /\ close \in Seq(T)
    BY <1>4, <1>5
  <2> QED
    BY <2>1, JoinIs
<1> HIDE DEF whole
<1>7. Len(half) = 1 + n /\ Len(whole) = n + 2
  BY <1>1, <1>2, <1>3, <1>4, <1>5, <1>6
<1>8. whole[1] = Token("<information>", "env") /\ whole[n + 2] = Token("</information>", "env")
  <2>1. whole[1] = half[1] /\ half[1] = open[1]
    BY <1>1, <1>3, <1>5, <1>6, <1>7
  <2>2. whole[1 + n + 1] = close[1] /\ 1 + n + 1 = n + 2
    BY <1>1, <1>4, <1>6, <1>7
  <2> QED
    BY <1>3, <1>4, <2>1, <2>2
<1>9. ASSUME NEW i \in 2 .. n + 1 PROVE whole[i] = Token(whole[i].is, "file")
  <2>1. i \in 1 .. Len(half) /\ i - 1 \in 1 .. n /\ 1 + (i - 1) = i
    BY <1>1, <1>7
  <2>2. whole[i] = half[1 + (i - 1)] /\ half[1 + (i - 1)] = said[i - 1]
    BY <1>2, <1>3, <1>5, <1>6, <2>1
  <2> QED
    BY <1>1, <1>2, <2>1, <2>2 DEF Token
<1>10. Segment(whole, 1, n + 2)
  <2>1. \A i \in 1 + 1 .. (n + 2) - 1 : i \in 2 .. n + 1
    BY <1>1
  <2>2. 1 < n + 2
    BY <1>1
  <2> QED
    BY <1>8, <1>9, <2>1, <2>2 DEF Segment
<1>11. InSegments(whole, 0, Len(whole))
  <2> SUFFICES ASSUME NEW k \in 0 + 1 .. Len(whole)
               PROVE  \E a \in 0 + 1 .. Len(whole), b \in 0 + 1 .. Len(whole) : a <= k /\ k <= b /\ Segment(whole, a, b)
    BY Zenon DEF InSegments
  <2>1. 1 \in 0 + 1 .. Len(whole) /\ n + 2 \in 0 + 1 .. Len(whole) /\ 1 <= k /\ k <= n + 2
    BY <1>1, <1>7
  <2> QED
    BY <1>10, <2>1
<1>12. Information(found) = whole
  BY DEF Information, whole, half, open, said, close, words
<1> QED
  BY <1>6, <1>11, <1>12 DEF ResultLists, T

\* Of a list, each member once.
LEMMA DistinctIs ==
    ASSUME NEW T, NEW seq \in Seq(T)
    PROVE  Distinct(seq) \in Seq(T) /\ IsInjective(Distinct(seq)) /\ ToSet(Distinct(seq)) = ToSet(seq)
<1> DEFINE n == Len(seq)
           first == {i \in DOMAIN seq : \A j \in 1 .. i - 1 : seq[j] # seq[i]}
           ahead == [i \in first |-> {j \in first : j < i}]
           place == [i \in first |-> i]
           order == Sorted(first, ahead)
           c == Cardinality(first)
           list == Distinct(seq)
<1>1. n \in Nat /\ DOMAIN seq = 1 .. n /\ \A i \in 1 .. n : seq[i] \in T
  BY ListIs
<1>2. list = [k \in DOMAIN order |-> seq[order[k]]]
  BY DEF Distinct
<1>3. \A i \in first, j \in first : seq[i] = seq[j] => i = j
  <2> SUFFICES ASSUME NEW i \in first, NEW j \in first, seq[i] = seq[j] PROVE i = j
    OBVIOUS
  <2>1. i \in 1 .. n /\ j \in 1 .. n
    BY <1>1
  <2>2. ~(i < j) /\ ~(j < i)
    <3>1. i < j => i \in 1 .. j - 1
      BY <2>1
    <3>2. j < i => j \in 1 .. i - 1
      BY <2>1
    <3> QED
      BY <3>1, <3>2
  <2> QED
    BY <2>1, <2>2
<1>4. \A i \in 1 .. n : \E j \in first : seq[j] = seq[i]
  <2> SUFFICES ASSUME NEW i \in 1 .. n PROVE \E j \in first : seq[j] = seq[i]
    OBVIOUS
  <2> DEFINE S == {j \in 1 .. n : seq[j] = seq[i]}
  <2>1. S \in SUBSET Nat /\ S # {}
    BY <1>1
  <2>2. PICK j \in S : \A m \in S : j <= m
    <3> HIDE DEF S
    <3> QED
      BY <2>1, Least
  <2>3. j \in 1 .. n /\ seq[j] = seq[i]
    OBVIOUS
  <2>4. ASSUME NEW m \in 1 .. j - 1 PROVE seq[m] # seq[j]
    <3>1. m \in 1 .. n /\ ~(j <= m)
      BY <1>1, <2>3
    <3> QED
      BY <2>2, <2>3, <3>1
  <2> QED
    BY <1>1, <2>3, <2>4
<1>5. first \subseteq 1 .. n
  BY <1>1
<1> HIDE DEF first, list
<1>6. IsFiniteSet(first)
  BY <1>1, <1>5, FirstNumbers, FS_Subset
<1>7. /\ c \in Nat /\ order \in [1 .. c -> first] /\ \A x \in first : \E k \in 1 .. c : order[k] = x
      /\ \A i, j \in 1 .. c : place[order[i]] < place[order[j]] <=> i < j
      /\ IsInjective(order)
  <2>1. \A x \in first : x \in Int /\ place[x] = x
    BY <1>1, <1>5
  <2>2. place \in [first -> Int] /\ \A x, y \in first : place[x] = place[y] => x = y
    BY <2>1
  <2>3. ahead \in [first -> SUBSET first]
    OBVIOUS
  <2>4. \A x, y \in first : x \in ahead[y] <=> place[x] < place[y]
    BY <2>1
  <2>5. place \in [first -> Int]
    BY <2>2
  <2>6. \A x, y \in first : place[x] = place[y] => x = y
    BY <2>2
  <2> HIDE DEF ahead, place
  <2> QED
    <3>1. SortsBy(first, place, ahead)
      BY <1>6, <2>3, <2>4, <2>5, <2>6, SortedByPlace
    <3> QED
      BY <3>1, Zenon DEF SortsBy, c, order
<1> HIDE DEF c, order
<1>8. DOMAIN list = 1 .. c /\ \A k \in 1 .. c : list[k] = seq[order[k]] /\ order[k] \in first /\ list[k] \in T
  <2>1. \A k \in 1 .. c : order[k] \in first
    BY <1>7
  <2> QED
    BY <1>1, <1>2, <1>5, <1>7, <2>1
<1>9. list \in Seq(T)
  <2>1. list = [k \in 1 .. c |-> list[k]]
    BY <1>2, <1>7
  <2>2. c \in Nat /\ \A k \in 1 .. c : list[k] \in T
    BY <1>7, <1>8
  <2> HIDE DEF place, ahead
  <2> QED
    BY <2>1, <2>2
<1>10. IsInjective(list)
  <2> SUFFICES ASSUME NEW i \in 1 .. c, NEW j \in 1 .. c, list[i] = list[j] PROVE i = j
    BY <1>8 DEF IsInjective
  <2>1. order[i] = order[j]
    BY <1>3, <1>8
  <2> QED
    BY <1>7, <2>1 DEF IsInjective
<1>11. ToSet(list) = ToSet(seq)
  <2>1. ASSUME NEW x \in ToSet(list) PROVE x \in ToSet(seq)
    <3>1. PICK k \in 1 .. c : x = list[k]
      BY <1>8 DEF ToSet
    <3>2. order[k] \in 1 .. n /\ x = seq[order[k]]
      BY <1>5, <1>8, <3>1
    <3> QED
      BY <1>1, <3>2 DEF ToSet
  <2>2. ASSUME NEW x \in ToSet(seq) PROVE x \in ToSet(list)
    <3>1. PICK i \in 1 .. n : x = seq[i]
      BY <1>1 DEF ToSet
    <3>2. PICK j \in first : seq[j] = x
      BY <1>4, <3>1
    <3>3. PICK k \in 1 .. c : order[k] = j
      BY <1>7
    <3> QED
      BY <1>8, <3>2, <3>3 DEF ToSet
  <2> QED
    BY <2>1, <2>2
<1> QED
  BY <1>9, <1>10, <1>11 DEF list

\* A rollout that can be rewarded.
Rewardable(filled) ==
    /\ \E lo, hi : Filled(filled.raw, lo, hi)
    /\ Len(filled.searches) \in Nat
    /\ filled.paths \in Seq(ToSet(filled.paths)) /\ IsInjective(filled.paths)

LEMMA ParsedIs ==
    ASSUME NEW raw, NEW lo, NEW hi, Filled(raw, lo, hi)
    PROVE  Rewardable(ParseTrajectory(raw))
<1>1. ParseTrajectory(raw).raw = raw /\ ParseTrajectory(raw).paths = <<>>
  BY DEF ParseTrajectory
<1>2. Len(ParseTrajectory(raw).searches) \in Nat
  <2>1. Len(raw) \in Nat /\ DOMAIN raw = 1 .. Len(raw)
    BY DEF Filled
  <2> QED
    BY <2>1, SearchesAre
<1>3. <<>> \in Seq(ToSet(<<>>)) /\ IsInjective(<<>>)
  BY DEF IsInjective, ToSet
<1> QED
  BY <1>1, <1>2, <1>3 DEF Rewardable

LEMMA AllPolicyIs ==
    ASSUME NEW W, NEW raw \in Seq([is : W, from : {"policy"}]) PROVE Filled(raw, 0, 0)
<1>1. Len(raw) \in Nat /\ DOMAIN raw = 1 .. Len(raw) /\ \A i \in 1 .. Len(raw) : raw[i] \in [is : W, from : {"policy"}]
  BY ListIs
<1>2. \A i \in 1 .. Len(raw) : raw[i] = Token(raw[i].is, "policy")
  BY <1>1 DEF Token
<1>3. InSegments(raw, 0, 0)
  <2>1. \A k \in 0 + 1 .. 0 : FALSE
    OBVIOUS
  <2> QED
    BY <2>1 DEF InSegments
<1> QED
  BY <1>1, <1>2, <1>3 DEF Filled

\* An answer that is empty is worth less than nothing.
LEMMA EmptyCosts ==
    ASSUME NEW filled, Rewardable(filled), filled.answer = <<>>,
           NEW gold, NEW goldPaths, IsFiniteSet(goldPaths), NEW panel, panel.score \in 0 .. 1
    PROVE  Reward(filled, gold, goldPaths, panel)[1] < 0
<1> DEFINE ndcg == NdcgAt(filled.paths, goldPaths, 10)
           e == (IF ExactMatch(filled.answer, gold) THEN 20 ELSE 0)
                + (IF panel.kappa >= 6 THEN 6 * panel.score ELSE 0)
                - 2 * Len(filled.searches)
                - (IF ~filled.cited \/ filled.answer = <<>> THEN 20 ELSE 0)
<1>1. ndcg[1] \in Nat /\ ndcg[2] \in Nat \ {0} /\ ndcg[1] <= ndcg[2]
  <2>1. 10 \in Nat \ {0} /\ 1 .. 10 \subseteq DOMAIN Discount
    BY RolloutAssumption
  <2>2. filled.paths \in Seq(ToSet(filled.paths)) /\ IsInjective(filled.paths)
    BY DEF Rewardable
  <2> QED
    BY <2>1, <2>2, NdcgIs
<1>2. ~ExactMatch(filled.answer, gold)
  BY DEF ExactMatch
<1>3. Reward(filled, gold, goldPaths, panel)[1] = ndcg[2] * e + 10 * ndcg[1]
  BY DEF Reward
<1>4. e \in Int /\ e <= -14
  <2>1. Len(filled.searches) \in Nat
    BY DEF Rewardable
  <2>2. e = (IF panel.kappa >= 6 THEN 6 * panel.score ELSE 0) - 2 * Len(filled.searches) - 20
    BY <1>2, <2>1
  <2> QED
    BY <2>1, <2>2
<1> HIDE DEF ndcg, e
<1>5. \A d \in Nat : d * e <= d * (-14)
  BY <1>4
<1>6. ndcg[2] * e <= ndcg[2] * (-14) /\ ndcg[2] * e \in Int
  BY <1>1, <1>4, <1>5
<1> QED
  BY <1>1, <1>3, <1>6

LEMMA SearchIs ==
    ASSUME NEW t \in RolloutTasks, NEW word
    PROVE  LET found == Search(t.found, word)
           IN /\ found.words \in Seq(ToSet(found.words))
              /\ found.paths \in Seq(ToSet(found.paths)) /\ IsInjective(found.paths)
<1>1. <<>> \in Seq(ToSet(<<>>)) /\ IsInjective(<<>>) /\ ToSet(<<>>) = {}
  BY DEF IsInjective, ToSet
<1>2. CASE word \in DOMAIN t.found
  BY <1>2, RolloutAssumption DEF Search
<1>3. CASE word \notin DOMAIN t.found
  BY <1>1, <1>3 DEF Search
<1> QED
  BY <1>2, <1>3

LEMMA HeuristicIs ==
    ASSUME NEW t \in RolloutTasks
    PROVE  Rewardable(HeuristicRollout("w1", Search(t.found, "w1"), t.answer))
<1> DEFINE found == Search(t.found, "w1")
           words == ToSet(found.words)
           W == words \union ToSet(t.answer) \union
                {"<search>", "w1", "</search>", "<answer>", "</answer>", "<information>", "</information>"}
           T == [is : W, from : {"policy", "env", "file"}]
           Said(text) == [i \in DOMAIN text |-> Token(text[i], "policy")]
           pre == Said(<<"<search>", "w1", "</search>">>)
           mid == Information(found)
           said == <<"<answer>">> \o t.answer \o <<"</answer>">>
           post == Said(said)
           raw == pre \o mid \o post
<1>1. /\ found.words \in Seq(words)
      /\ found.paths \in Seq(ToSet(found.paths)) /\ IsInjective(found.paths)
  BY SearchIs
<1>2. t.answer \in Seq(W)
  <2>1. t.answer \in Seq(ToSet(t.answer))
    BY RolloutAssumption
  <2>2. \A R, S : R \subseteq S => Seq(R) \subseteq Seq(S)
    OBVIOUS
  <2>3. ToSet(t.answer) \subseteq W
    OBVIOUS
  <2> HIDE DEF W
  <2> QED
    BY <2>1, <2>2, <2>3
<1>3. {"<search>", "w1", "</search>", "<answer>", "</answer>", "<information>", "</information>"} \subseteq W /\ words \subseteq W
  OBVIOUS
<1> HIDE DEF words, W, found
<1>4. ASSUME NEW text \in Seq(W)
      PROVE  /\ Said(text) \in Seq(T) /\ Len(Said(text)) = Len(text)
             /\ \A i \in 1 .. Len(text) : Said(text)[i] = Token(text[i], "policy")
  <2>1. Len(text) \in Nat /\ DOMAIN text = 1 .. Len(text) /\ \A i \in 1 .. Len(text) : text[i] \in W
    BY ListIs
  <2>2. \A i \in 1 .. Len(text) : Token(text[i], "policy") \in T
    BY <2>1 DEF Token
  <2> HIDE DEF T
  <2> QED
    BY <2>1, <2>2
<1>5. mid \in ResultLists(T)
  <2>1. found.words \in Seq(ToSet(found.words))
        /\ ToSet(found.words) \subseteq W /\ {"<information>", "</information>"} \subseteq W
    BY <1>1, <1>3 DEF words
  <2> QED
    BY <2>1, InformationIs
<1>6. said \in Seq(W)
  <2>1. <<"<answer>">> \in Seq(W) /\ <<"</answer>">> \in Seq(W)
    BY <1>3
  <2>2. <<"<answer>">> \o t.answer \in Seq(W)
    BY <1>2, <2>1, JoinIs
  <2> QED
    BY <2>1, <2>2, JoinIs
<1> DEFINE asks == <<"<search>", "w1", "</search>">>
<1>7. asks \in Seq(W) /\ Len(asks) = 3 /\ \A i \in 1 .. 3 : asks[i] # "<information>"
  BY <1>3
<1> HIDE DEF said, mid, asks
<1>8. /\ pre \in Seq(T) /\ Len(pre) = 3
      /\ \A i \in 1 .. 3 : pre[i] = Token(pre[i].is, "policy") /\ pre[i].is # "<information>"
  <2>1. Said(asks) \in Seq(T) /\ Len(Said(asks)) = Len(asks)
        /\ \A i \in 1 .. Len(asks) : Said(asks)[i] = Token(asks[i], "policy")
    BY <1>4, <1>7
  <2>2. pre = Said(asks)
    BY DEF asks
  <2> HIDE DEF pre
  <2> QED
    BY <1>7, <2>1, <2>2 DEF Token
<1>9. post \in Seq(T) /\ \A i \in 1 .. Len(post) : post[i] = Token(post[i].is, "policy")
  <2>1. Said(said) \in Seq(T) /\ Len(Said(said)) = Len(said)
        /\ \A i \in 1 .. Len(said) : Said(said)[i] = Token(said[i], "policy")
    BY <1>4, <1>6
  <2> QED
    BY <2>1 DEF Token
<1> HIDE DEF pre, post, T
<1>10. Filled(raw, Len(pre), Len(pre) + Len(mid))
  BY <1>5, <1>8, <1>9, AroundIs
<1>11. HeuristicRollout("w1", found, t.answer) =
          [ParseTrajectory(raw) EXCEPT !.paths = found.paths, !.cited = found.paths # <<>> /\ t.answer # <<>>]
  BY DEF HeuristicRollout, pre, mid, post, said
<1>12. Rewardable(ParseTrajectory(raw)) /\ ParseTrajectory(raw).raw = raw
  <2>1. ParseTrajectory(raw).raw = raw
    BY DEF ParseTrajectory
  <2> QED
    BY <1>10, <2>1, ParsedIs
<1> DEFINE filled == HeuristicRollout("w1", found, t.answer)
<1>13. filled.raw = raw /\ filled.searches = ParseTrajectory(raw).searches /\ filled.paths = found.paths
  <2>1. ParseTrajectory(raw) = [raw |-> ParseTrajectory(raw).raw, searches |-> ParseTrajectory(raw).searches,
           informations |-> ParseTrajectory(raw).informations, answer |-> ParseTrajectory(raw).answer,
           paths |-> ParseTrajectory(raw).paths, cited |-> ParseTrajectory(raw).cited]
    BY DEF ParseTrajectory
  <2> HIDE DEF raw
  <2> QED
    BY <1>11, <1>12, <2>1
<1> HIDE DEF filled, raw
<1> QED
  BY <1>1, <1>10, <1>12, <1>13 DEF Rewardable, filled, found

\* The results of all that was asked.
LEMMA AllFoundIs ==
    ASSUME NEW t \in RolloutTasks, NEW n \in Nat, NEW found, DOMAIN found = 1 .. n,
           \A i \in 1 .. n : \E word : found[i] = Search(t.found, word), NEW W,
           \A i \in 1 .. n : ToSet(found[i].words) \subseteq W, {"<information>", "</information>"} \subseteq W
    PROVE  /\ FlattenSeq([i \in DOMAIN found |-> Information(found[i])])
                 \in ResultLists([is : W, from : {"policy", "env", "file"}])
           /\ \E U : FlattenSeq([i \in DOMAIN found |-> found[i].paths]) \in Seq(U)
<1> DEFINE T == [is : W, from : {"policy", "env", "file"}]
           A == ResultLists(T)
           seqs == [i \in DOMAIN found |-> Information(found[i])]
           lists == [i \in DOMAIN found |-> found[i].paths]
           U == UNION {ToSet(found[i].paths) : i \in 1 .. n}
<1>1. ASSUME NEW i \in 1 .. n
      PROVE  /\ found[i].words \in Seq(ToSet(found[i].words))
             /\ found[i].paths \in Seq(ToSet(found[i].paths))
  BY SearchIs
<1>2. \A i \in 1 .. n : Information(found[i]) \in A
  BY <1>1, InformationIs
<1>3. <<>> \in A
  <2>1. <<>> \in Seq(T) /\ Len(<<>>) = 0
    BY NothingJoined
  <2>2. \A k \in 0 + 1 .. 0 : FALSE
    OBVIOUS
  <2>3. InSegments(<<>>, 0, 0)
    BY <2>2 DEF InSegments
  <2> HIDE DEF T
  <2> QED
    BY <2>1, <2>3 DEF ResultLists
<1>4. A \in SUBSET Seq(T) /\ \A s, u \in A : s \o u \in A
  BY ResultsJoined DEF ResultLists
<1> HIDE DEF A, T
<1>5. seqs \in [1 .. n -> A]
  BY <1>2
<1> HIDE DEF seqs
<1>6. FlattenSeq(seqs) \in A
  BY <1>3, <1>4, <1>5, FlattenStays
<1>7. \A i \in 1 .. n : found[i].paths \in Seq(U)
  <2> SUFFICES ASSUME NEW i \in 1 .. n PROVE found[i].paths \in Seq(U)
    OBVIOUS
  <2>1. ToSet(found[i].paths) \subseteq U /\ found[i].paths \in Seq(ToSet(found[i].paths))
    BY <1>1
  <2>2. \A R, S : R \subseteq S => Seq(R) \subseteq Seq(S)
    OBVIOUS
  <2> HIDE DEF U
  <2> QED
    BY <2>1, <2>2
<1> HIDE DEF U
<1>8. lists \in [1 .. n -> Seq(U)]
  BY <1>7
<1> HIDE DEF lists
<1>9. FlattenSeq(lists) \in Seq(U)
  BY <1>8, FlattenHas
<1> QED
  BY <1>6, <1>9 DEF A, T, seqs, lists

\* A rollout of a policy that wrote no results, with what it asked for.
LEMMA FilledInIs ==
    ASSUME NEW P, NEW raw \in Seq([is : P, from : {"policy"}]),
           \A i \in 1 .. Len(raw) : raw[i].is # "<information>",
           NEW close \in 1 .. Len(raw), NEW W, P \subseteq W,
           NEW mid \in ResultLists([is : W, from : {"policy", "env", "file"}])
    PROVE  \E lo, hi : Filled(SubSeq(raw, 1, close) \o mid \o SubSeq(raw, close + 1, Len(raw)), lo, hi)
<1> DEFINE T == [is : W, from : {"policy", "env", "file"}]
           n == Len(raw)
           pre == SubSeq(raw, 1, close)
           post == SubSeq(raw, close + 1, n)
<1>1. n \in Nat /\ \A i \in 1 .. n : raw[i] = Token(raw[i].is, "policy")
  <2>1. n \in Nat /\ \A i \in 1 .. n : raw[i] \in [is : P, from : {"policy"}]
    BY ListIs
  <2> QED
    BY <2>1 DEF Token
<1>2. raw \in Seq(T)
  <2>1. [is : P, from : {"policy"}] \subseteq T
    OBVIOUS
  <2>2. \A R, S : R \subseteq S => Seq(R) \subseteq Seq(S)
    OBVIOUS
  <2> HIDE DEF T
  <2> QED
    BY <2>1, <2>2
<1> HIDE DEF T, n
<1>3. pre \in Seq(T) /\ Len(pre) = close /\ \A i \in 1 .. close : pre[i] = raw[i]
  <2>0. close \in Nat /\ close <= Len(raw)
    BY <1>1 DEF n
  <2>1. pre \in Seq(T) /\ Len(pre) = close
    BY <1>2, <2>0
  <2>2. \A i \in 1 .. close : pre[i] = raw[i]
    BY <1>2, <2>0
  <2> QED
    BY <2>1, <2>2
<1>4. post \in Seq(T) /\ Len(post) = n - close /\ \A i \in 1 .. n - close : post[i] = raw[close + i]
  <2>0. close \in Nat /\ close <= n /\ n = Len(raw) /\ n \in Nat
    BY <1>1 DEF n
  <2>1. post \in Seq(T)
    BY <1>2, <2>0
  <2>2. Len(post) = n - close
    BY <1>2, <2>0
  <2>3. \A i \in 1 .. n - close : post[i] = raw[close + i]
    BY <1>2, <2>0
  <2> QED
    BY <2>1, <2>2, <2>3
<1>5. close \in 1 .. n /\ \A i \in 1 .. n : raw[i].is # "<information>"
  BY DEF n
<1> HIDE DEF pre, post
<1>6. \A i \in 1 .. Len(pre) : pre[i] = Token(pre[i].is, "policy") /\ pre[i].is # "<information>"
  BY <1>1, <1>3, <1>5
<1>7. \A i \in 1 .. Len(post) : post[i] = Token(post[i].is, "policy")
  <2>1. \A i \in 1 .. n - close : close + i \in 1 .. n
    BY <1>1, <1>5
  <2> QED
    BY <1>1, <1>4, <2>1
<1>8. mid \in ResultLists(T)
  BY DEF T
<1>9. Filled(pre \o mid \o post, Len(pre), Len(pre) + Len(mid))
  BY <1>3, <1>4, <1>6, <1>7, <1>8, AroundIs
<1> QED
  BY <1>9 DEF pre, post, n

LEMMA RolloutIs == ASSUME NEW t \in RolloutTasks, t.policy # Missing PROVE Rewardable(Rollout(t.policy, t.found))
<1> DEFINE P == {t.policy[i].is : i \in DOMAIN t.policy}
           raw == t.policy
           parsed == ParseTrajectory(raw)
           asked == FirstOf(parsed.searches, MaxSearches)
           found == [i \in DOMAIN asked |-> Search(t.found, asked[i][1].is)]
           open == \E i \in DOMAIN raw : raw[i].is = "<information>"
           closes == {i \in DOMAIN raw : raw[i].is = "</search>"}
           close == Min(closes)
           mid == FlattenSeq([i \in DOMAIN found |-> Information(found[i])])
           filled == IF open THEN raw ELSE SubSeq(raw, 1, close) \o mid \o SubSeq(raw, close + 1, Len(raw))
           again == ParseTrajectory(filled)
           lists == [i \in DOMAIN found |-> found[i].paths]
           paths == Distinct(FlattenSeq(lists))
           rollout == [again EXCEPT !.paths = paths, !.cited = @ \/ paths # <<>>]
<1>1. raw \in Seq([is : P, from : {"policy"}])
  BY RolloutAssumption
<1>2. Filled(raw, 0, 0) /\ Len(raw) \in Nat /\ DOMAIN raw = 1 .. Len(raw)
  <2> HIDE DEF P
  <2> QED
    BY <1>1, AllPolicyIs, ListIs
<1>3. CASE parsed.searches = <<>> \/ parsed.informations # <<>>
  <2>1. Rollout(raw, t.found) = parsed
    BY <1>3, Zenon DEF Rollout
  <2>2. Rewardable(parsed)
    BY <1>2, ParsedIs
  <2> HIDE DEF parsed
  <2> QED
    BY <2>1, <2>2
<1>4. CASE ~(parsed.searches = <<>> \/ parsed.informations # <<>>)
  <2>1. Rollout(raw, t.found) = rollout
    BY <1>4, Zenon DEF Rollout
  <2>2. /\ parsed.searches \in Seq(ToSet(Texts(raw, "search")))
        /\ \E i \in 1 .. Len(raw) : raw[i].is = "</search>"
    BY <1>2, <1>4, SearchesAre
  <2> DEFINE n == Len(asked)
             W == P \union {"<information>", "</information>"} \union UNION {ToSet(found[i].words) : i \in 1 .. n}
  <2>3. n \in Nat /\ DOMAIN asked = 1 .. n
    <3>1. asked \in Seq(ToSet(Texts(raw, "search")))
      <4>1. MaxSearches \in Nat
        BY RolloutAssumption
      <4> HIDE DEF parsed
      <4> QED
        BY <2>2, <4>1, FirstOfIs
    <3> HIDE DEF asked
    <3> QED
      BY <3>1, ListIs
  <2>4. close \in 1 .. Len(raw)
    <3>1. closes \in SUBSET Nat /\ closes # {}
      BY <1>2, <2>2
    <3>2. \E i \in closes : \A j \in closes : i <= j
      <4> HIDE DEF closes
      <4> QED
        BY <3>1, Least
    <3>3. close \in closes
      <4> HIDE DEF closes
      <4> QED
        BY <3>2, Zenon DEF Min
    <3> QED
      BY <1>2, <3>3
  <2> HIDE DEF asked, closes, close
  <2>5. DOMAIN found = 1 .. n /\ \A i \in 1 .. n : \E word : found[i] = Search(t.found, word)
    <3>1. \A i \in 1 .. n : found[i] = Search(t.found, asked[i][1].is)
      BY <2>3
    <3> QED
      BY <2>3, <3>1
  <2> HIDE DEF found, n
  <2>6. /\ P \subseteq W /\ {"<information>", "</information>"} \subseteq W
        /\ \A i \in 1 .. n : ToSet(found[i].words) \subseteq W
    OBVIOUS
  <2> HIDE DEF P, W
  <2>7. mid \in ResultLists([is : W, from : {"policy", "env", "file"}]) /\ \E U : FlattenSeq(lists) \in Seq(U)
    BY <2>3, <2>5, <2>6, AllFoundIs
  <2> HIDE DEF mid, lists
  <2>8. \E lo, hi : Filled(filled, lo, hi)
    <3>1. CASE open
      BY <1>2, <3>1
    <3>2. CASE ~open
      <4>1. \A i \in 1 .. Len(raw) : raw[i].is # "<information>"
        BY <1>2, <3>2
      <4>2. \E lo, hi : Filled(SubSeq(raw, 1, close) \o mid \o SubSeq(raw, close + 1, Len(raw)), lo, hi)
        BY <1>1, <2>4, <2>6, <2>7, <4>1, FilledInIs
      <4>3. filled = SubSeq(raw, 1, close) \o mid \o SubSeq(raw, close + 1, Len(raw))
        BY <3>2
      <4> HIDE DEF filled
      <4> QED
        BY <4>2, <4>3
    <3> QED
      BY <3>1, <3>2
  <2> HIDE DEF filled
  <2>9. Rewardable(again) /\ again.raw = filled
    <3>1. again.raw = filled
      BY DEF ParseTrajectory
    <3> QED
      BY <2>8, <3>1, ParsedIs
  <2>10. paths \in Seq(ToSet(paths)) /\ IsInjective(paths)
    <3>1. PICK U : FlattenSeq(lists) \in Seq(U)
      BY <2>7
    <3>2. paths \in Seq(U) /\ IsInjective(paths)
      BY <3>1, DistinctIs
    <3>3. paths \in Seq(ToSet(paths))
      <4> HIDE DEF paths
      <4>1. Len(paths) \in Nat /\ DOMAIN paths = 1 .. Len(paths) /\ paths = [i \in 1 .. Len(paths) |-> paths[i]]
        BY <3>2
      <4>2. \A i \in 1 .. Len(paths) : paths[i] \in ToSet(paths)
        BY <4>1 DEF ToSet
      <4> QED
        BY <4>1, <4>2
    <3> QED
      BY <3>2, <3>3
  <2> HIDE DEF paths
  <2>11. again = [raw |-> again.raw, searches |-> again.searches, informations |-> again.informations,
                  answer |-> again.answer, paths |-> again.paths, cited |-> again.cited]
    BY DEF ParseTrajectory
  <2> HIDE DEF again
  <2>12. rollout.raw = again.raw /\ rollout.searches = again.searches /\ rollout.paths = paths
    BY <2>11
  <2> HIDE DEF rollout
  <2>13. Rewardable(rollout)
    BY <2>9, <2>10, <2>12 DEF Rewardable
  <2> QED
    BY <2>1, <2>13
<1> QED
  BY <1>3, <1>4

\* Every rollout trains the policy on its own words, and an empty answer costs.
LEMMA RolloutsTrain ==
    ASSUME NEW t \in RolloutTasks, NEW filled,
           filled = IF t.policy = Missing THEN HeuristicRollout("w1", Search(t.found, "w1"), t.answer)
                    ELSE Rollout(t.policy, t.found)
    PROVE  TrainsOnItsOwnWords(filled, t.gold, Reward(filled, t.gold, t.goldPaths, t.jury))
<1>1. Rewardable(filled)
  BY HeuristicIs, RolloutIs
<1>2. PICK lo, hi : Filled(filled.raw, lo, hi)
  BY <1>1 DEF Rewardable
<1> DEFINE raw == filled.raw
<1>3. /\ \A i \in DOMAIN raw : raw[i].from # "policy" /\ TrainMask(raw)[i] => ClosedByAFile(raw, i)
      /\ \A i \in DOMAIN raw : raw[i].from = "policy" /\ ~TrainMask(raw)[i] =>
            \E j \in DOMAIN raw : raw[j] = Token("<information>", "policy")
  <2> HIDE DEF raw
  <2>1. Filled(raw, lo, hi)
    BY <1>2 DEF raw
  <2> QED
    BY <2>1, MaskIs
<1>4. filled.answer = <<>> => Reward(filled, t.gold, t.goldPaths, t.jury)[1] < 0
  BY <1>1, EmptyCosts, RolloutAssumption
<1> QED
  BY <1>3, <1>4, Zenon DEF TrainsOnItsOwnWords

----------------------------------------------------------------------------
(* The steps that read a conversation or a session.                          *)
Talking == {"talk", "rollout", "read", "session"}

LEMMA TalkingIs ==
    Next =>
        \/ UNCHANGED <<kind, task, result>>
        \/ kind' \notin Talking
        \/ ReadTheChat \/ FillRollout \/ ReadATree \/ AnswerLines
<1> DEFINE Other == kind' \notin Talking
<1>1. ASSUME NEW name, name \notin Talking, NEW t, NEW r, Computed(name, t, r) PROVE Other
  BY <1>1 DEF Computed
<1> HIDE DEF Other
<1>2. CiteAnswer \/ CheckFact \/ FindConflicts \/ CheckClaims => Other
  BY <1>1 DEF CiteAnswer, CheckFact, FindConflicts, CheckClaims, Talking
<1>3. ScoreList \/ AverageRows \/ JudgeReplies \/ CountVotes \/ CompareAnswers \/ RankDocuments => Other
  BY <1>1 DEF ScoreList, AverageRows, JudgeReplies, CountVotes, CompareAnswers, RankDocuments, Talking
<1>4. PairRows \/ SearchForRow \/ RescoreRun \/ ProposeChart \/ MakeArtifact \/ BundleRun => Other
  BY <1>1 DEF PairRows, SearchForRow, RescoreRun, ProposeChart, MakeArtifact, BundleRun, Talking
<1>5. ExpandSeeds \/ ReorderHits \/ CutFile \/ SplitQuestion \/ SearchInMemory \/ CheckService => Other
  BY <1>1 DEF ExpandSeeds, ReorderHits, CutFile, SplitQuestion, SearchInMemory, CheckService, Talking
<1>6. UNCHANGED computeVars => UNCHANGED <<kind, task, result>>
  BY DEF computeVars
<1> QED
  BY <1>2, <1>3, <1>4, <1>5, <1>6, Zenon DEF Next, Other

LEMMA ConversationsStart == Init => ConversationsKeepTheirTurns
<1> SUFFICES ASSUME Init PROVE ConversationsKeepTheirTurns
  OBVIOUS
<1>1. kind \notin Talking
  BY DEF Init, Talking
<1>2. kind # "talk" /\ kind # "rollout" /\ kind # "read" /\ kind # "session"
  BY <1>1 DEF Talking
<1> QED
  BY <1>2, Zenon DEF ConversationsKeepTheirTurns

LEMMA ConversationsStep ==
    ConversationsKeepTheirTurns /\ [Next]_<<benchVars, beirVars, poolVars, loadVars, computeVars>>
        => ConversationsKeepTheirTurns'
<1> SUFFICES ASSUME ConversationsKeepTheirTurns,
                    [Next]_<<benchVars, beirVars, poolVars, loadVars, computeVars>>
             PROVE  ConversationsKeepTheirTurns'
  OBVIOUS
<1>1. CASE UNCHANGED <<kind, task, result>>
  <2>1. kind' = kind /\ task' = task /\ result' = result
    BY <1>1
  <2> QED
    BY <2>1, Zenon DEF ConversationsKeepTheirTurns
<1>2. CASE kind' \notin Talking
  <2>1. kind' # "talk" /\ kind' # "rollout" /\ kind' # "read" /\ kind' # "session"
    BY <1>2 DEF Talking
  <2> QED
    BY <2>1, Zenon DEF ConversationsKeepTheirTurns
<1>3. CASE ReadTheChat
  <2>1. PICK messages \in TalkTasks :
            /\ kind' = "talk" /\ task' = messages
            /\ result' = [last |-> LastMessage(messages), history |-> HistoryMessages(messages, TRUE, TRUE),
                          ids |-> DocumentIds(messages)]
    BY <1>3, Zenon DEF ReadTheChat, Computed
  <2>2. /\ result'.last = LastMessage(messages) /\ result'.history = HistoryMessages(messages, TRUE, TRUE)
        /\ result'.ids = DocumentIds(messages)
    BY <2>1
  <2>3. HistoryKeepsTheTurns(messages, result'.last, result'.history, result'.ids)
    BY <2>2, HistoryIs, Zenon
  <2>4. kind' # "rollout" /\ kind' # "read" /\ kind' # "session"
    BY <2>1
  <2> QED
    BY <2>1, <2>3, <2>4, Zenon DEF ConversationsKeepTheirTurns
<1>4. CASE FillRollout
  <2>1. PICK t \in RolloutTasks :
          \E filled \in {IF t.policy = Missing THEN HeuristicRollout("w1", Search(t.found, "w1"), t.answer)
                         ELSE Rollout(t.policy, t.found)} :
            /\ kind' = "rollout" /\ task' = t
            /\ result' = [filled |-> filled, reward |-> Reward(filled, t.gold, t.goldPaths, t.jury)]
    BY <1>4, Zenon DEF FillRollout, Computed
  <2> DEFINE filled == IF t.policy = Missing THEN HeuristicRollout("w1", Search(t.found, "w1"), t.answer)
                       ELSE Rollout(t.policy, t.found)
  <2>2. /\ kind' = "rollout" /\ task' = t
        /\ result' = [filled |-> filled, reward |-> Reward(filled, t.gold, t.goldPaths, t.jury)]
    BY <2>1, Zenon
  <2>3. TrainsOnItsOwnWords(filled, t.gold, Reward(filled, t.gold, t.goldPaths, t.jury))
    BY RolloutsTrain, Zenon
  <2> HIDE DEF filled
  <2>4. result'.filled = filled /\ result'.reward = Reward(filled, t.gold, t.goldPaths, t.jury)
    BY <2>2
  <2>5. kind' # "talk" /\ kind' # "read" /\ kind' # "session"
    BY <2>2
  <2> QED
    BY <2>2, <2>3, <2>4, <2>5, Zenon DEF ConversationsKeepTheirTurns
<1>5. CASE ReadATree
  <2>1. PICK t \in ReadTasks :
            /\ kind' = "read" /\ task' = t
            /\ result' = [read |-> ReadFile(t.path, t.range), listed |-> ListDir(t.path),
                          stat |-> Stat(<<t.path, t.other>>), kept |-> FilteredHits(t.hits, 2, t.filetype),
                          ran |-> ExecSandboxed(t.source)]
    BY <1>5, Zenon DEF ReadATree, Computed
  <2>2. ToolsRead(t, result')
    BY <2>1, ToolsReadIs, Zenon
  <2>3. kind' # "talk" /\ kind' # "rollout" /\ kind' # "session"
    BY <2>1
  <2> QED
    BY <2>1, <2>2, <2>3, Zenon DEF ConversationsKeepTheirTurns, ToolsRead
<1>6. CASE AnswerLines
  <2>1. PICK lines \in SessionTasks : kind' = "session" /\ task' = lines /\ result' = Serve(lines)
    BY <1>6, Zenon DEF AnswerLines, Computed
  <2>2. RequestsAnsweredOnce(lines, result')
    BY <2>1, SessionIs, Zenon
  <2>3. kind' # "talk" /\ kind' # "rollout" /\ kind' # "read"
    BY <2>1
  <2> QED
    BY <2>1, <2>2, <2>3, Zenon DEF ConversationsKeepTheirTurns
<1>7. Next \/ UNCHANGED <<kind, task, result>>
  BY DEF computeVars
<1> QED
  BY <1>1, <1>2, <1>3, <1>4, <1>5, <1>6, <1>7, TalkingIs, Zenon

\* Whatever was said, a conversation is read as it was: its turns once and in
\* order, its files and its latest code (models.py); whatever a
\* policy writes and the index finds, it is trained on its own words, and on a
\* file's only behind an end of a result that the file holds (app/rl); and a
\* tool reads what is there, and answers each request once (app/mcp/server.py).
THEOREM TurnsAreKept == Spec => []ConversationsKeepTheirTurns
BY ConversationsStart, ConversationsStep, PTL DEF Spec
----------------------------------------------------------------------------
(* The steps that read a tree, reorder hits and cut a file.                  *)

\* What is made of a tree loses none of it.
TreeKept(t, r) ==
    /\ IsInjective(r.expanded) /\ InOrderOfSeeds(t, r.edges, r.expanded)
    /\ ToSet(r.expanded) = {n \in GraphNodes(t.files) :
          \E i \in DOMAIN t.seeds : Reaches(r.edges, t.seeds[i], n, t.hops)}
    /\ \A g, h \in r.groups : g # h =>
          g.members \intersect h.members = {} /\ g.triples \intersect h.triples = {}
    /\ \A c \in t.chunks :
          Cardinality({f \in DOMAIN r.levels.file : c.id \in r.levels.file[f]}) = 1

LEMMA TreeIsKept ==
    ASSUME NEW t \in TreeTasks,
           NEW r, r = [edges |-> GraphEdges(t.files),
                       expanded |-> ExpandWithGraph(t.seeds, GraphEdges(t.files), t.hops),
                       groups |-> Communities(UNION {ExtractTriples(f) : f \in t.files}),
                       levels |-> BuildHierarchy(t.chunks, t.files)]
    PROVE  TreeKept(t, r)
<1> DEFINE triples == UNION {ExtractTriples(f) : f \in t.files}
<1>1. /\ IsFiniteSet(t.files) /\ \A f \in t.files : IsFiniteSet(f.says)
      /\ \A m \in GraphNodes(t.files) : NodeRank[m] \in Int
      /\ \A m, n \in GraphNodes(t.files) : NodeRank[m] = NodeRank[n] => m = n
      /\ t.seeds \in Seq(GraphNodes(t.files)) /\ t.hops \in Nat
      /\ \A c, d \in t.chunks : c.id = d.id => c = d
  BY FilesAssumption
<1>2. Placed(GraphNodes(t.files))
  BY <1>1, NodesAreFinite DEF Placed
<1>3. IsFiniteSet(triples)
  <2>1. ASSUME NEW f \in t.files PROVE IsFiniteSet(ExtractTriples(f))
    <3> DEFINE S == {f.path} \union f.says
               g == [d \in S |-> [src |-> f.run, dst |-> d, evidence |-> f.path]]
    <3>1. IsFiniteSet(S)
      BY <1>1, FS_Singleton, FS_Union
    <3>2. ExtractTriples(f) = IF f.run = NoRunId THEN {} ELSE {g[d] : d \in S}
      BY DEF ExtractTriples
    <3>3. DOMAIN g = S
      OBVIOUS
    <3> HIDE DEF g, S
    <3>4. IsFiniteSet({g[d] : d \in S})
      BY <3>1, <3>3, ImageIsFinite
    <3> QED
      BY <3>2, <3>4, FS_EmptySet
  <2> DEFINE made == [f \in t.files |-> ExtractTriples(f)]
             all == {made[f] : f \in t.files}
  <2>2. DOMAIN made = t.files /\ triples = UNION all /\ \A T \in all : IsFiniteSet(T)
    BY <2>1
  <2> HIDE DEF made
  <2>3. IsFiniteSet(all)
    BY <1>1, <2>2, ImageIsFinite
  <2> HIDE DEF all, triples
  <2> QED
    BY <2>2, <2>3, FS_UNION
<1> HIDE DEF triples
<1>4. /\ r.edges = GraphEdges(t.files) /\ r.expanded = ExpandWithGraph(t.seeds, GraphEdges(t.files), t.hops)
      /\ r.groups = Communities(triples) /\ r.levels = BuildHierarchy(t.chunks, t.files)
  BY DEF triples
<1>5. /\ IsInjective(r.expanded) /\ InOrderOfSeeds(t, r.edges, r.expanded)
      /\ ToSet(r.expanded) = {n \in GraphNodes(t.files) :
            \E i \in DOMAIN t.seeds : Reaches(r.edges, t.seeds[i], n, t.hops)}
  <2> DEFINE edges == GraphEdges(t.files)
             expanded == ExpandWithGraph(t.seeds, edges, t.hops)
  <2>1. /\ IsInjective(expanded)
        /\ \A i, j \in DOMAIN expanded, m \in DOMAIN t.seeds : i < j =>
              /\ expanded[j] = t.seeds[m] => OfFirstSeeds(t, edges, m - 1, expanded[i])
              /\ OfFirstSeeds(t, edges, m, expanded[j]) => OfFirstSeeds(t, edges, m, expanded[i])
        /\ ToSet(expanded) = {n \in GraphNodes(t.files) :
              \E i \in DOMAIN t.seeds : Reaches(edges, t.seeds[i], n, t.hops)}
    <3>1. t.seeds \in Seq(GraphNodes(t.files)) /\ t.hops \in Nat /\ Placed(GraphNodes(t.files))
      BY <1>1, <1>2
    <3> DEFINE seeds == t.seeds
               hops == t.hops
               files == t.files
               OfFirst(i, n) == \E s \in 1 .. i : Reaches(edges, seeds[s], n, hops)
    <3>2. /\ IsInjective(expanded)
          /\ \A i, j \in DOMAIN expanded, m \in DOMAIN seeds : i < j =>
                /\ expanded[j] = seeds[m] => OfFirst(m - 1, expanded[i])
                /\ OfFirst(m, expanded[j]) => OfFirst(m, expanded[i])
          /\ ToSet(expanded) = {n \in GraphNodes(files) :
                \E i \in DOMAIN seeds : Reaches(edges, seeds[i], n, hops)}
      BY <3>1, ExpansionIs
    <3> QED
      BY <3>2, Zenon DEF OfFirstSeeds
  <2> HIDE DEF edges, expanded
  <2>2. InOrderOfSeeds(t, edges, expanded)
    BY <2>1, Zenon DEF InOrderOfSeeds
  <2> QED
    BY <1>4, <2>1, <2>2, Zenon DEF edges, expanded
<1>6. \A g, h \in r.groups : g # h =>
         g.members \intersect h.members = {} /\ g.triples \intersect h.triples = {}
  BY <1>3, <1>4, CommunitiesApart
<1>7. ASSUME NEW c \in t.chunks PROVE OneFile(r.levels.file, c)
  <2>1. OneFile(BuildHierarchy(t.chunks, t.files).file, c)
    BY <1>1, UnderOneFile, Zenon
  <2> QED
    BY <1>4, <2>1, Zenon
<1> QED
  BY <1>5, <1>6, <1>7 DEF TreeKept, OneFile

LEMMA HitsAreKept ==
    ASSUME NEW t \in BoostTasks, NEW r,
           r = ApplyHipporag(t.hits, {"triple"}, t.category, FALSE, t.ppr, t.intent)
    PROVE  IsInjective(r) /\ ToSet(r) = ToSet(t.hits)
<1>1. /\ t.hits \in Seq(ToSet(t.hits)) /\ IsInjective(t.hits)
      /\ \A i \in 1 .. 1 + Len(t.hits) : RankWeight[i] \in Nat
  BY FilesAssumption
<1>2. r = t.hits \/ r = BoostHits(t.hits, t.ppr, t.intent)
  BY Zenon DEF ApplyHipporag
<1>3. IsInjective(BoostHits(t.hits, t.ppr, t.intent)) /\ ToSet(BoostHits(t.hits, t.ppr, t.intent)) = ToSet(t.hits)
  BY <1>1, BoostKeeps
<1> QED
  BY <1>1, <1>2, <1>3, Zenon

InChunks(text, suffix, parses, chunks) ==
    /\ \A i \in {i \in DOMAIN text : text[i].kind # "blank"} :
          \/ suffix = ".py" /\ parses /\ MayLose(text, i)
          \/ \A at \in LineStart(text, i) + 1 .. LineEnd(text, i) :
                \E c \in chunks : at \in Positions(c.span)
    /\ \A c, d \in chunks :
          c.span.from < d.span.from => c.start_byte < d.start_byte /\ c.end_byte <= d.end_byte
    /\ \A c \in chunks :
          /\ c.verbatim => c.end_byte > c.start_byte
          /\ TokenSpan(text, c.span)[1] < TokenSpan(text, c.span)[2]

LEMMA FileIsCovered ==
    ASSUME NEW t \in ChunkTasks
    PROVE  InChunks(t.text, t.suffix, t.parses, LoadChunks(t.text, t.suffix, t.parses))
<1> DEFINE text == t.text
           chunks == LoadChunks(text, t.suffix, t.parses)
<1>1. IsText(text)
  <2>1. text \in Seq(ToSet(text)) /\ \A l \in ToSet(text) : {l.len, ByteWidth[l.kind]} \subseteq Nat \ {0}
    BY FilesAssumption
  <2> HIDE DEF text
  <2> QED
    BY <2>1 DEF IsText
<1>2. Cut(text, t.suffix, t.parses, chunks)
  BY <1>1, FileIsCut
<1> HIDE DEF text, chunks
<1>3. ASSUME NEW i \in TextLines(text), Has({c.span : c \in chunks}, text, i)
      PROVE  \A at \in LineStart(text, i) + 1 .. LineEnd(text, i) : \E c \in chunks : at \in Positions(c.span)
  BY <1>3 DEF Has
<1>4. \A i \in {i \in DOMAIN text : text[i].kind # "blank"} :
         \/ t.suffix = ".py" /\ t.parses /\ MayLose(text, i)
         \/ \A at \in LineStart(text, i) + 1 .. LineEnd(text, i) : \E c \in chunks : at \in Positions(c.span)
  BY <1>2, <1>3, Zenon DEF Cut, TextLines
<1>5. \A c \in chunks : c.end_byte > c.start_byte /\ TokenSpan(text, c.span)[1] < TokenSpan(text, c.span)[2]
  BY <1>1, <1>2, TokensAre DEF Cut
<1>6. \A c, d \in chunks :
         c.span.from < d.span.from => c.start_byte < d.start_byte /\ c.end_byte <= d.end_byte
  BY <1>2, Zenon DEF Cut
<1>7. InChunks(text, t.suffix, t.parses, chunks)
  BY <1>4, <1>5, <1>6, Zenon DEF InChunks
<1> QED
  BY <1>7 DEF text, chunks

Filing == {"graph", "boost", "chunks"}

LEMMA FilingIs ==
    Next => UNCHANGED <<kind, task, result>> \/ kind' \notin Filing \/ ExpandSeeds \/ ReorderHits \/ CutFile
<1> DEFINE Other == kind' \notin Filing
<1>1. ASSUME NEW name, name \notin Filing, NEW t, NEW r, Computed(name, t, r) PROVE Other
  BY <1>1 DEF Computed
<1> HIDE DEF Other
<1>2. CiteAnswer \/ CheckFact \/ FindConflicts \/ CheckClaims => Other
  BY <1>1 DEF CiteAnswer, CheckFact, FindConflicts, CheckClaims, Filing
<1>3. ScoreList \/ AverageRows \/ JudgeReplies \/ CountVotes \/ CompareAnswers \/ RankDocuments => Other
  BY <1>1 DEF ScoreList, AverageRows, JudgeReplies, CountVotes, CompareAnswers, RankDocuments, Filing
<1>4. PairRows \/ SearchForRow \/ RescoreRun \/ ProposeChart \/ MakeArtifact \/ BundleRun => Other
  BY <1>1 DEF PairRows, SearchForRow, RescoreRun, ProposeChart, MakeArtifact, BundleRun, Filing
<1>5. SplitQuestion \/ SearchInMemory \/ CheckService \/ ReadTheChat => Other
  BY <1>1 DEF SplitQuestion, SearchInMemory, CheckService, ReadTheChat, Filing
<1>6. FillRollout \/ ReadATree \/ AnswerLines => Other
  BY <1>1 DEF FillRollout, ReadATree, AnswerLines, Filing
<1>7. UNCHANGED computeVars => UNCHANGED <<kind, task, result>>
  BY DEF computeVars
<1> QED
  BY <1>2, <1>3, <1>4, <1>5, <1>6, <1>7, Zenon DEF Next, Other

LEMMA FilesStart == Init => FilesKeptWhole
<1> SUFFICES ASSUME Init PROVE FilesKeptWhole
  OBVIOUS
<1>1. kind # "graph" /\ kind # "boost" /\ kind # "chunks"
  BY DEF Init
<1> QED
  BY <1>1, Zenon DEF FilesKeptWhole, GraphKeepsTheHits, ChunksCoverTheFile

LEMMA FilesStep ==
    FilesKeptWhole /\ [Next]_<<benchVars, beirVars, poolVars, loadVars, computeVars>> => FilesKeptWhole'
<1> SUFFICES ASSUME FilesKeptWhole, [Next]_<<benchVars, beirVars, poolVars, loadVars, computeVars>>
             PROVE  FilesKeptWhole'
  OBVIOUS
<1>1. CASE UNCHANGED <<kind, task, result>>
  <2>1. kind' = kind /\ task' = task /\ result' = result
    BY <1>1
  <2> QED
    BY <2>1, Zenon DEF FilesKeptWhole, GraphKeepsTheHits, ChunksCoverTheFile
<1>2. CASE kind' \notin Filing
  <2>1. kind' # "graph" /\ kind' # "boost" /\ kind' # "chunks"
    BY <1>2 DEF Filing
  <2> QED
    BY <2>1, Zenon DEF FilesKeptWhole, GraphKeepsTheHits, ChunksCoverTheFile
<1>3. CASE ExpandSeeds
  <2>1. PICK t \in TreeTasks :
            /\ kind' = "graph" /\ task' = t
            /\ result' = [edges |-> GraphEdges(t.files),
                          expanded |-> ExpandWithGraph(t.seeds, GraphEdges(t.files), t.hops),
                          groups |-> Communities(UNION {ExtractTriples(f) : f \in t.files}),
                          levels |-> BuildHierarchy(t.chunks, t.files)]
    BY <1>3, Zenon DEF ExpandSeeds, Computed
  <2>2. kind' # "boost" /\ kind' # "chunks"
    BY <2>1
  <2>3. TreeKept(task', result')
    BY <2>1, TreeIsKept, Zenon
  <2> QED
    BY <2>2, <2>3, Zenon DEF FilesKeptWhole, GraphKeepsTheHits, ChunksCoverTheFile, TreeKept
<1>4. CASE ReorderHits
  <2>1. PICK t \in BoostTasks :
            /\ kind' = "boost" /\ task' = t
            /\ result' = ApplyHipporag(t.hits, {"triple"}, t.category, FALSE, t.ppr, t.intent)
    BY <1>4, Zenon DEF ReorderHits, Computed
  <2>2. IsInjective(result') /\ ToSet(result') = ToSet(task'.hits)
    BY <2>1, HitsAreKept
  <2>3. kind' # "graph" /\ kind' # "chunks"
    BY <2>1
  <2> QED
    BY <2>2, <2>3, Zenon DEF FilesKeptWhole, GraphKeepsTheHits, ChunksCoverTheFile
<1>5. CASE CutFile
  <2>1. PICK t \in ChunkTasks :
            /\ kind' = "chunks" /\ task' = t
            /\ result' = LoadChunks(t.text, t.suffix, t.parses)
    BY <1>5, Zenon DEF CutFile, Computed
  <2>2. InChunks(task'.text, task'.suffix, task'.parses, result')
    BY <2>1, FileIsCovered, Zenon
  <2>3. kind' # "graph" /\ kind' # "boost"
    BY <2>1
  <2> QED
    BY <2>2, <2>3, Zenon DEF FilesKeptWhole, GraphKeepsTheHits, ChunksCoverTheFile, InChunks
<1>6. Next \/ UNCHANGED <<kind, task, result>>
  BY DEF computeVars
<1> QED
  BY <1>1, <1>2, <1>3, <1>4, <1>5, <1>6, FilingIs, Zenon

\* Whatever the tree, its seeds, its hits and its texts: the graph expands to
\* what its edges reach, seed by seed, and reorders without a loss (app/graph),
\* and every line with text is in a chunk (app/chunking), but for the lines of
\* a Python file that parses which no definition holds.
THEOREM FilesAreKept == Spec => []FilesKeptWhole
BY FilesStart, FilesStep, PTL DEF Spec
=============================================================================
