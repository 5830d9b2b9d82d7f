------------------------------ MODULE Searching ------------------------------
(* What finds chunks for a question: the retriever behind the HTTP route     *)
(* (Retrieval), the loops that search more than once, and the cache of       *)
(* answers to similar questions.  The code never puts one of them in front   *)
(* of another: a loop is given any retrieval function, and nothing calls the *)
(* cache.  A behaviour is therefore one of the three.                        *)
EXTENDS Retrieval, SemanticCache

CONSTANTS Resolves, Cost, Newer, MaxIters, MinRelevant, MaxCited, MaxQuoted,
          NQueries, Budget, RrfScale

VARIABLES part,                                     \* which of the three
          way, relevant, label, complex, pc, lists, hits, strategy, answer

loopVars == <<way, relevant, label, complex, pc, lists, hits, strategy, answer>>

Loops == INSTANCE ResearchLoops
ASSUME SearchingAssumption == Loops!LoopsAssumption

Init ==
    /\ CacheInit /\ Loops!LoopInit /\ RouteInit
    /\ part \in {"cache", "loops", "served"}
    /\ part # "served" => mtime = [p \in Paths |-> 0] /\ mode = "sql" /\ reranker = "off"
Next ==
    /\ UNCHANGED part
    /\ \/ part = "cache" /\ CacheNext /\ UNCHANGED <<loopVars, routeVars>>
       \/ part = "loops" /\ Loops!LoopNext /\ UNCHANGED <<cacheVars, routeVars>>
       \/ part = "served" /\ RouteNext /\ UNCHANGED <<cacheVars, loopVars>>
Spec == Init /\ [][Next]_<<part, cacheVars, loopVars, routeVars>>

----------------------------------------------------------------------------
(* The cache: it stays in step with itself, and serves what is still valid   *)
(* (app/retrieval/cache.py).                                                 *)
CacheServesItsEntries == CacheInStep /\ ServedWhileValid

(* The loops: an answer rests on evidence that was found, and searching      *)
(* again to correct it loses none (app/agent).                               *)
LoopsKeepToEvidence == Loops!AnswersGrounded /\ Loops!CorrectionKeepsHits
=============================================================================
