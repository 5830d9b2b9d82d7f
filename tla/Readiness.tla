------------------------------ MODULE Readiness ------------------------------
(* From the settings of a deployment to what its health says of it and what  *)
(* a load test may rely on (app/settings.py, app/engine/retriever.py,        *)
(* main.py, app/eval/http_load.py): which weights are loaded, on which       *)
(* device, and how a component that is missing is reported.                  *)
(*                                                                           *)
(* A deployment d is what the environment asks for: models (MODEL_PROVIDER), *)
(* embedder, embedOn, requires (RETRIEVAL_REQUIRE_DEVICE), reranker,         *)
(* rerankOn, rerankRequired, mode; and what there is: cuda, cached (the      *)
(* reranker's weights) and nodes.                                            *)
EXTENDS Naturals, FiniteSets

CONSTANT Unset

Devices == {"cpu", "cuda"}
Given(x, default) == IF x = Unset THEN default ELSE x
BestDevice(d) == IF d.cuda THEN "cuda" ELSE "cpu"
NoStart(reason) == [up |-> FALSE, error |-> reason]

(* Where the libraries put the weights, Unset when they cannot be loaded.    *)
Loaded(d, on) == IF on = "cuda" /\ ~d.cuda THEN Unset ELSE on
EmbedderOn(d) == Loaded(d, Given(d.embedOn, BestDevice(d)))
RerankerOn(d) == IF d.cached THEN Loaded(d, Given(d.rerankOn, BestDevice(d))) ELSE Unset

(* init_settings and init_embed_model: the hash embedding asks for nothing.  *)
InitEmbedModel(d) ==
    CASE d.models = "other" \/ d.embedder = "other" -> NoStart("provider")
      [] d.models # "other" /\ d.embedder = "hash" -> [up |-> TRUE, on |-> "cpu"]
      [] OTHER ->
            IF d.requires \notin Devices \union {Unset} THEN NoStart("device")
            ELSE IF Given(d.requires, d.embedOn) = "cuda" /\ ~d.cuda THEN NoStart("cuda")
            ELSE IF EmbedderOn(d) = Unset THEN NoStart("unloaded")
            ELSE IF d.requires \notin {Unset, EmbedderOn(d)} THEN NoStart("misplaced")
            ELSE [up |-> TRUE, on |-> EmbedderOn(d)]

(* load_reranker: with a reranker that is required and missing, no start.    *)
LoadReranker(d) ==
    LET configured == d.reranker # "none"
        on == IF configured THEN RerankerOn(d) ELSE Unset
        info == [configured |-> configured, loaded |-> on # Unset, device |-> on]
    IN IF configured /\ on = Unset /\ d.rerankRequired THEN NoStart("RerankerUnavailable")
       ELSE [up |-> TRUE, info |-> info]

(* create_hybrid_retriever, HybridRetriever.__init__, lifespan: the first    *)
(* that fails leaves the process up without a retrieval state.               *)
Retriever(d) ==
    LET reranker == LoadReranker(d)
    IN IF ~reranker.up THEN reranker
       ELSE IF d.mode \notin {"sql", "python"} THEN NoStart("mode")
       ELSE [up |-> TRUE, info |-> reranker.info]
Lifespan(d) ==
    LET embedder == InitEmbedModel(d)
        retriever == Retriever(d)
    IN IF ~embedder.up THEN embedder
       ELSE IF ~retriever.up THEN retriever
       ELSE [up |-> TRUE, embeddingOn |-> embedder.on, reranker |-> retriever.info, nodes |-> d.nodes]

(* health: a device that is not the required one makes it a 503.             *)
DeviceErrors(d, state) ==
    IF d.requires = Unset THEN {}
    ELSE {c \in {"embedding", "reranker"} :
            \/ c = "embedding" /\ state.embeddingOn # d.requires
            \/ c = "reranker" /\ state.reranker.configured /\ state.reranker.device # d.requires}
Health(d, state) ==
    IF ~state.up THEN [code |-> 503, status |-> "unavailable", nodes |-> Unset, degraded |-> {}]
    ELSE LET missing == IF state.reranker.configured /\ ~state.reranker.loaded THEN {"rerank"} ELSE {}
             degraded == missing \union DeviceErrors(d, state)
         IN [code |-> IF DeviceErrors(d, state) = {} THEN 200 ELSE 503,
             status |-> IF degraded = {} THEN "ok" ELSE "degraded",
             nodes |-> state.nodes, degraded |-> degraded,
             embeddingOn |-> state.embeddingOn, reranker |-> state.reranker]

(* readiness_problems, of what a load test requires.                         *)
ReadinessProblems(health, needsReranker, needsDevice) ==
    {p \in {"status", "index", "degraded", "reranker", "embedding_device", "reranker_device"} :
        LET known == health.status # "unavailable"
        IN CASE p = "status" -> health.status # "ok"
             [] p = "index" -> ~known \/ health.nodes < 1
             [] p = "degraded" -> health.degraded # {}
             [] p = "reranker" -> needsReranker /\ (~known \/ ~health.reranker.loaded)
             [] p = "embedding_device" -> needsDevice # Unset /\ (~known \/ health.embeddingOn # needsDevice)
             [] p = "reranker_device" ->
                    needsDevice # Unset /\ needsReranker /\ (~known \/ health.reranker.device # needsDevice)}

Service(d) ==
    LET state == Lifespan(d)
        health == Health(d, state)
    IN [state |-> state, health |-> health,
        problems |-> [r \in BOOLEAN |-> [on \in Devices \union {Unset} |-> ReadinessProblems(health, r, on)]]]

----------------------------------------------------------------------------
(* A load test that finds no problem measures an index that is not empty,    *)
(* with the weights that it requires where it requires them; a service that  *)
(* answers 200 has its weights on the device its deployment requires, and    *)
(* never hides a reranker that was asked for and is not there; and where     *)
(* neither a load test nor the deployment requires more, it is not refused.  *)
ReadyMeansVerified(d, service) ==
    /\ \A r \in BOOLEAN, on \in Devices \union {Unset} : service.problems[r][on] = {} =>
          /\ d.nodes > 0
          /\ r => d.reranker # "none" /\ RerankerOn(d) # Unset
          /\ on # Unset => /\ on = IF d.embedder = "hash" THEN "cpu" ELSE EmbedderOn(d)
                           /\ r => on = RerankerOn(d)
    /\ service.health.code = 200 /\ d.requires # Unset =>
          /\ d.requires = IF d.embedder = "hash" THEN "cpu" ELSE EmbedderOn(d)
          /\ d.reranker # "none" => RerankerOn(d) = d.requires
    /\ service.health.status = "ok" /\ d.reranker # "none" => RerankerOn(d) # Unset
    /\ service.state.up /\ d.nodes > 0 /\ d.requires = Unset /\ RerankerOn(d) # Unset =>
          service.problems[FALSE][Unset] = {}
=============================================================================
