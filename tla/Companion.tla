------------------------------ MODULE Companion ------------------------------
(***************************************************************************)
(* The read-only research companion: its HTTP gateway                      *)
(* (app/agent/companion_api.py) and the bounded search-and-inspect loop    *)
(* behind it (app/agent/companion.py).                                     *)
(*                                                                         *)
(* Requests are coroutines of one event loop.  They are suspended while a  *)
(* live model decides (pc "model") and while retrieval answers (pc         *)
(* "search"); there other requests run, the provider may fail, and the     *)
(* deadline may cancel the request.  What a model says is any choice in    *)
(* live mode and the scripted policy in demo mode.                         *)
(***************************************************************************)
EXTENDS Integers, Sequences, FiniteSets

CONSTANTS
    Requests,        \* POST /agent/ask requests
    Excerpts,        \* what retrieval may return: (chunk, path, bytes, digest)
    MaxModelRounds,  \* MAX_MODEL_ROUNDS
    MaxToolCalls,    \* MAX_TOOL_CALLS
    MaxSources,      \* MAX_SOURCES
    MaxHits,         \* hits of one search that are looked at
    MaxConcurrent,   \* AgentConfig.max_concurrent
    LiveConfigured   \* AgentConfig.live_configured

ASSUME CompanionAssumption ==
    /\ IsFiniteSet(Requests)
    /\ IsFiniteSet(Excerpts)
    /\ MaxModelRounds \in Nat \ {0}
    /\ MaxToolCalls \in Nat
    /\ MaxSources \in Nat
    /\ MaxHits \in Nat
    /\ MaxConcurrent \in Nat
    /\ LiveConfigured \in BOOLEAN

VARIABLES
    phase,      \* app.state.ready: "starting" or "ready"
    active,     \* app.state.active_requests
    pc,         \* what each request is waiting for
    mode,       \* AskRequest.mode
    rounds,     \* model rounds begun
    calls,      \* tool calls begun
    todo,       \* calls of the current round not begun yet
    sources,    \* ResearchTools.sources: S1 is the first excerpt
    inspected,  \* the ids whose source is marked inspected
    trace,      \* the executed tool calls
    reply       \* what the client was answered

gateway == <<phase, active, mode>>
evidence == <<sources, inspected>>
vars == <<gateway, pc, rounds, calls, todo, evidence, trace, reply>>

Ids == 1..MaxSources
Event(tool, status, ids) == [tool |-> tool, status |-> status, ids |-> ids]
Events == [tool : {"search", "inspect", "unpermitted"}, status : {"ok", "error"},
           ids : SUBSET Ids]

Reply(code, status, cites) == [code |-> code, status |-> status, cites |-> cites]
NoReply == Reply("none", "none", {})
Replies == [code : {"none", "200", "401", "429", "503", "504"},
            status : {"complete", "abstained", "limit_reached", "blocked", "none"},
            cites : SUBSET Nat]

InProgress == {r \in Requests : pc[r] \in {"model", "tools", "search"}}

\* Suspended at an await: the scripted demo model answers without one.
Waiting(r) == pc[r] = "search" \/ (pc[r] = "model" /\ mode[r] = "live")

\* Types, and the limits that AgentResponse reports.
TypeOK ==
    /\ phase \in {"starting", "ready"}
    /\ active \in Nat
    /\ pc \in [Requests -> {"new", "model", "tools", "search", "done"}]
    /\ mode \in [Requests -> {"demo", "live"}]
    /\ rounds \in [Requests -> 0..MaxModelRounds]
    /\ calls \in [Requests -> Nat]
    /\ todo \in [Requests -> Nat]
    /\ sources \in [Requests -> Seq(Excerpts)]
    /\ inspected \in [Requests -> SUBSET Ids]
    /\ trace \in [Requests -> Seq(Events)]
    /\ reply \in [Requests -> Replies]

Init ==
    /\ phase = "starting"
    /\ active = 0
    /\ pc = [r \in Requests |-> "new"]
    /\ mode = [r \in Requests |-> "demo"]
    /\ rounds = [r \in Requests |-> 0]
    /\ calls = [r \in Requests |-> 0]
    /\ todo = [r \in Requests |-> 0]
    /\ sources = [r \in Requests |-> <<>>]
    /\ inspected = [r \in Requests |-> {}]
    /\ trace = [r \in Requests |-> <<>>]
    /\ reply = [r \in Requests |-> NoReply]

\* lifespan: the clients and backends exist, no request is active.
Startup ==
    /\ phase = "starting"
    /\ phase' = "ready"
    /\ active' = 0
    /\ UNCHANGED <<pc, mode, rounds, calls, todo, evidence, trace, reply>>

----------------------------------------------------------------------------
(* The gateway: ask.                                                       *)

Unauthorized(m, hasKey) == m = "live" /\ ~hasKey
Unavailable(m) == phase = "starting" \/ (m = "live" /\ ~LiveConfigured)

\* Mutant: off by one.
BusyTooLate == active > MaxConcurrent
Busy == active >= MaxConcurrent

Refuse(r, code) ==
    /\ pc' = [pc EXCEPT ![r] = "done"]
    /\ reply' = [reply EXCEPT ![r] = Reply(code, "none", {})]
    /\ UNCHANGED <<gateway, rounds>>

\* There is no await between the check and the increment; run_agent then
\* asks the model for its first decision.
Admit(r, m) ==
    /\ active' = active + 1
    /\ mode' = [mode EXCEPT ![r] = m]
    /\ pc' = [pc EXCEPT ![r] = "model"]
    /\ rounds' = [rounds EXCEPT ![r] = 1]
    /\ UNCHANGED <<phase, reply>>

Ask(r, m, hasKey) ==
    /\ pc[r] = "new"
    /\ \/ Unauthorized(m, hasKey) /\ Refuse(r, "401")
       \/ ~Unauthorized(m, hasKey) /\ Unavailable(m) /\ Refuse(r, "503")
       \/ ~Unauthorized(m, hasKey) /\ ~Unavailable(m) /\ Busy /\ Refuse(r, "429")
       \/ ~Unauthorized(m, hasKey) /\ ~Unavailable(m) /\ ~Busy /\ Admit(r, m)
    /\ UNCHANGED <<calls, todo, evidence, trace>>

\* Every way out of an admitted request runs ask's finally clause.
Leave(r, answer) ==
    /\ active' = active - 1
    /\ pc' = [pc EXCEPT ![r] = "done"]
    /\ reply' = [reply EXCEPT ![r] = answer]
    /\ UNCHANGED <<phase, mode>>

Respond(r, status, cites) == Leave(r, Reply("200", status, cites))

\* Mutant: the deadline covers the model only.
DeadlineOnModel(r) ==
    /\ Waiting(r) /\ pc[r] = "model"
    /\ Leave(r, Reply("504", "none", {}))
    /\ UNCHANGED <<rounds, calls, todo, evidence, trace>>

\* asyncio.timeout cancels the request at its await; an answer that arrives
\* meanwhile is dropped.
Deadline(r) ==
    /\ Waiting(r)
    /\ Leave(r, Reply("504", "none", {}))
    /\ UNCHANGED <<rounds, calls, todo, evidence, trace>>

\* model.next raises: a provider failure.
ModelFails(r) ==
    /\ pc[r] = "model"
    /\ mode[r] = "live"
    /\ Leave(r, Reply("503", "none", {}))
    /\ UNCHANGED <<rounds, calls, todo, evidence, trace>>

----------------------------------------------------------------------------
(* The decision model.                                                     *)

LastEvent(r) == trace[r][Len(trace[r])]

\* ScriptedDemoModel.next decides by the last tool result.
ScriptedSearch(r) == trace[r] = <<>>
ScriptedInspect(r) ==
    trace[r] # <<>> /\ LastEvent(r).tool = "search" /\ LastEvent(r).ids # {}
ScriptedQuote(r) ==
    trace[r] # <<>> /\ LastEvent(r).tool = "inspect" /\ LastEvent(r).status = "ok"
ScriptedAbstain(r) == ~ScriptedSearch(r) /\ ~ScriptedInspect(r)

\* Mutant: the calls of earlier rounds are not counted.
OverBudgetOfRound(r, n) == n > MaxToolCalls
OverBudget(r, n) == n > MaxToolCalls - calls[r]

\* The model asks for n tool calls.  A round that exceeds the budget ends the
\* request before any of its calls runs.
CallTools(r, n) ==
    /\ pc[r] = "model"
    /\ mode[r] = "demo" => n = 1 /\ (ScriptedSearch(r) \/ ScriptedInspect(r))
    /\ \/ OverBudget(r, n)
          /\ Respond(r, "limit_reached", {})
          /\ UNCHANGED todo
       \/ ~OverBudget(r, n)
          /\ pc' = [pc EXCEPT ![r] = "tools"]
          /\ todo' = [todo EXCEPT ![r] = n]
          /\ UNCHANGED <<gateway, reply>>
    /\ UNCHANGED <<rounds, calls, evidence, trace>>

\* Tool calls that are no list, an answer that is no FinalAnswer, an answer
\* with neither claims nor abstention or with both.
AnswerInvalidly(r) ==
    /\ pc[r] = "model"
    /\ mode[r] = "live"
    /\ Respond(r, "blocked", {})
    /\ UNCHANGED <<rounds, calls, todo, evidence, trace>>

Abstain(r) ==
    /\ pc[r] = "model"
    /\ mode[r] = "demo" => ScriptedAbstain(r)
    /\ Respond(r, "abstained", {})
    /\ UNCHANGED <<rounds, calls, todo, evidence, trace>>

\* Mutant: an id that was only returned by a search may be cited.
UnknownSources(r, cites) == {i \in cites : i \notin DOMAIN sources[r]}
Unknown(r, cites) ==
    {i \in cites : i \notin DOMAIN sources[r] \/ i \notin inspected[r]}

\* The model's claims cite these ids.  Citation checks fail closed.
Answer(r, cites) ==
    /\ pc[r] = "model"
    /\ mode[r] = "demo" => ScriptedQuote(r) /\ cites = LastEvent(r).ids
    /\ \/ Unknown(r, cites) = {} /\ Respond(r, "complete", cites)
       \/ Unknown(r, cites) # {} /\ Respond(r, "blocked", {})
    /\ UNCHANGED <<rounds, calls, todo, evidence, trace>>

----------------------------------------------------------------------------
(* The tools.                                                              *)

LastRound(r) == rounds[r] = MaxModelRounds

\* A tool call ends: the next one of this round, the next round, or none.
Proceed(r, event) ==
    /\ trace' = [trace EXCEPT ![r] = Append(@, event)]
    /\ \/ todo'[r] > 0
          /\ pc' = [pc EXCEPT ![r] = "tools"]
          /\ UNCHANGED <<gateway, rounds, reply>>
       \/ todo'[r] = 0 /\ ~LastRound(r)
          /\ pc' = [pc EXCEPT ![r] = "model"]
          /\ rounds' = [rounds EXCEPT ![r] = @ + 1]
          /\ UNCHANGED <<gateway, reply>>
       \/ todo'[r] = 0 /\ LastRound(r)
          /\ Respond(r, "limit_reached", {})
          /\ UNCHANGED rounds

BeginCall(r) ==
    /\ pc[r] = "tools"
    /\ todo[r] > 0
    /\ calls' = [calls EXCEPT ![r] = @ + 1]
    /\ todo' = [todo EXCEPT ![r] = @ - 1]

\* search_research awaits the backend.
Search(r) ==
    /\ BeginCall(r)
    /\ mode[r] = "demo" => ScriptedSearch(r)
    /\ pc' = [pc EXCEPT ![r] = "search"]
    /\ UNCHANGED <<gateway, rounds, evidence, trace, reply>>

SearchFails(r) ==
    /\ pc[r] = "search"
    /\ UNCHANGED <<calls, todo, evidence>>
    /\ Proceed(r, Event("search", "error", {}))

Known(r) == {sources[r][i] : i \in DOMAIN sources[r]}
Room(r) == MaxSources - Len(sources[r])

New(r, hits) == hits \ Known(r)

\* The ways to number the hits that are new and fit, in any order of ranks.
Numberings(r, hits) ==
    LET fits == {kept \in SUBSET New(r, hits) :
                    /\ Cardinality(kept) <= Room(r)
                    /\ kept = New(r, hits) \/ Cardinality(kept) = Room(r)}
    IN UNION {{s \in [1..Cardinality(kept) -> kept] :
                  \A x \in kept : \E i \in DOMAIN s : s[i] = x} : kept \in fits}

\* A known hit keeps its id, a new one gets the next id while there is room,
\* the others are dropped.
SearchReturns(r, hits) ==
    /\ pc[r] = "search"
    /\ \E added \in Numberings(r, hits) :
          sources' = [sources EXCEPT ![r] = @ \o added]
    /\ UNCHANGED <<calls, todo, inspected>>
    /\ Proceed(r, Event("search", "ok",
                        {i \in DOMAIN sources'[r] : sources'[r][i] \in hits}))

\* inspect_source: only a source of this request.
Inspect(r, i) ==
    /\ BeginCall(r)
    /\ mode[r] = "demo" => ScriptedInspect(r) /\ i \in LastEvent(r).ids
    /\ \/ i \in DOMAIN sources[r]
          /\ inspected' = [inspected EXCEPT ![r] = @ \union {i}]
          /\ Proceed(r, Event("inspect", "ok", {i}))
       \/ i \notin DOMAIN sources[r]
          /\ UNCHANGED inspected
          /\ Proceed(r, Event("inspect", "error", {}))
    /\ UNCHANGED sources

\* Another tool, or arguments that do not validate: an error event.
Unpermitted(r) ==
    /\ BeginCall(r)
    /\ mode[r] = "live"
    /\ Proceed(r, Event("unpermitted", "error", {}))
    /\ UNCHANGED evidence

\* A tool name that is no hashable value raises when the event is named.
UnnameableTool(r) ==
    /\ BeginCall(r)
    /\ mode[r] = "live"
    /\ Leave(r, Reply("503", "none", {}))
    /\ UNCHANGED <<rounds, evidence, trace>>

----------------------------------------------------------------------------

RunTool(r) ==
    \/ Search(r)
    \/ \E i \in Ids : Inspect(r, i)
    \/ Unpermitted(r)
    \/ UnnameableTool(r)

\* The model names at most three sources in each of three claims; ids beyond
\* the retained ones are all alike, and one of them stands for the rest.
Decide(r) ==
    \/ ModelFails(r)
    \/ \E n \in 1..(MaxToolCalls + 1) : CallTools(r, n)
    \/ AnswerInvalidly(r)
    \/ Abstain(r)
    \/ \E cites \in (SUBSET (1..(MaxSources + 1))) \ {{}} : Answer(r, cites)

Retrieve(r) ==
    \/ SearchFails(r)
    \/ \E hits \in SUBSET Excerpts :
          Cardinality(hits) <= MaxHits /\ SearchReturns(r, hits)

\* Every request is answered.
Quiet ==
    /\ \A r \in Requests : pc[r] = "done"
    /\ UNCHANGED vars

Next ==
    \/ Startup
    \/ \E r \in Requests, m \in {"demo", "live"}, hasKey \in BOOLEAN :
          Ask(r, m, hasKey)
    \/ \E r \in Requests : Decide(r) \/ RunTool(r) \/ Retrieve(r) \/ Deadline(r)
    \/ Quiet

\* The event loop runs what can run, and deadlines expire.  Nothing is
\* assumed of clients, the model or retrieval.
Fairness ==
    \A r \in Requests :
        /\ WF_vars(RunTool(r))
        /\ WF_vars(mode[r] = "demo" /\ Decide(r))
        /\ WF_vars(Deadline(r))

Spec == Init /\ [][Next]_vars
FairSpec == Spec /\ Fairness

----------------------------------------------------------------------------
(* Properties                                                              *)

\* The counter ask compares with the limit is the number of requests in
\* progress: whichever way a request ends (answer, provider failure, deadline
\* at any await, malformed tool call) its slot comes back, once.
SlotsAccounted == active = Cardinality(InProgress)

\* The gateway implements a service of MaxConcurrent places.
Service == INSTANCE BoundedService WITH
    Clients <- Requests, Limit <- MaxConcurrent, inside <- InProgress,
    served <- {r \in Requests : pc[r] = "done" /\ rounds[r] > 0}
ImplementsBoundedService == Service!Spec

\* An answer cites only sources that an executed search of the same request
\* returned and an executed, later inspection opened, as the trace of the
\* response shows (the citation contract of doc/research-companion.md).
CitesInspected ==
    \A r \in Requests : \A c \in reply[r].cites :
        \E j \in DOMAIN trace[r] :
            /\ trace[r][j] = Event("inspect", "ok", {c})
            /\ \E i \in 1..(j - 1) :
                  trace[r][i].tool = "search" /\ c \in trace[r][i].ids

\* What the mobile app's agentSchema demands of a response (agent.ts:8-30):
\* the sources are few enough and retained under distinct ids, a citation is
\* one of the inspected ones, a complete answer has one, and the limits hold,
\* with every executed call on the trace.
AppAcceptsAnswer ==
    \A r \in Requests : reply[r].code = "200" =>
        /\ Len(sources[r]) <= MaxSources
        /\ reply[r].cites \subseteq inspected[r] \intersect DOMAIN sources[r]
        /\ reply[r].status = "complete" => reply[r].cites # {}
        /\ rounds[r] <= MaxModelRounds /\ calls[r] <= MaxToolCalls
        /\ Len(trace[r]) = calls[r]

\* One id per excerpt, however often and in whatever company it is found: a
\* citation names one thing.
OneIdPerExcerpt ==
    \A r \in Requests : \A i, j \in DOMAIN sources[r] :
        sources[r][i] = sources[r][j] => i = j

\* The scripted demo stays inside the limits and contracts of the loop: it
\* quotes or abstains, unless the deadline ends it.
DemoNeverBlocked ==
    \A r \in Requests :
        pc[r] = "done" /\ rounds[r] > 0 /\ mode[r] = "demo" =>
            reply[r].code = "504" \/ reply[r].status \in {"complete", "abstained"}

\* Whatever the model asks for, in live mode and in the demo, the gateway sends
\* only responses its client takes.
AnswersMeetContract == AppAcceptsAnswer /\ OneIdPerExcerpt /\ DemoNeverBlocked

\* Every admitted request is answered, also when the model or retrieval never
\* answer: the deadline holds at every await.
EveryAskAnswered ==
    \A r \in Requests : r \in InProgress ~> pc[r] = "done"
=============================================================================
