--------------------------- MODULE CompanionProofs ---------------------------
(***************************************************************************)
(* Theorems about Companion, for any requests, excerpts and limits.        *)
(*                                                                         *)
(* The gateway: every step is one of five kinds as far as slots are        *)
(* concerned (StepKinds); each kind keeps the counter equal to the number  *)
(* of requests in progress and maps to a step of BoundedService.           *)
(* The agent: ids in use were found by a search on the trace, inspected    *)
(* ids were opened by a later inspection on the trace (Evidence).          *)
(* The answers: a request owns its state (StepOwn), so what its client     *)
(* relies on (Contract) and the demo's script (Script) are kept request by *)
(* request.                                                                *)
(***************************************************************************)
EXTENDS Companion, FiniteSetTheorems, SequenceTheorems, TLAPS

Busies == {"model", "tools", "search"}

\* Admission.
Enters(r) ==
    /\ pc[r] = "new"
    /\ phase = "ready"
    /\ active < MaxConcurrent
    /\ active' = active + 1
    /\ pc' = [pc EXCEPT ![r] = "model"]
    /\ rounds' = [rounds EXCEPT ![r] = 1]
    /\ UNCHANGED phase

\* A refusal.
TurnsAway(r) ==
    /\ pc[r] = "new"
    /\ pc' = [pc EXCEPT ![r] = "done"]
    /\ UNCHANGED <<active, rounds, phase>>

\* A step inside a request.
Moves(r) ==
    /\ pc[r] \in Busies
    /\ \E q \in Busies : pc' = [pc EXCEPT ![r] = q]
    /\ \/ rounds' = rounds
       \/ rounds' = [rounds EXCEPT ![r] = @ + 1]
    /\ UNCHANGED <<active, phase>>

\* The end of a request.
Leaves(r) ==
    /\ pc[r] \in Busies
    /\ pc' = [pc EXCEPT ![r] = "done"]
    /\ active' = active - 1
    /\ UNCHANGED <<rounds, phase>>

Starts ==
    /\ phase = "starting"
    /\ phase' = "ready"
    /\ active' = 0
    /\ UNCHANGED <<pc, rounds>>

Idles == UNCHANGED <<pc, active, rounds, phase>>

----------------------------------------------------------------------------
(* Types.                                                                  *)

\* TypeOK but for the counter, whose type follows from SlotsAccounted.
Types ==
    /\ phase \in {"starting", "ready"}
    /\ pc \in [Requests -> {"new", "model", "tools", "search", "done"}]
    /\ mode \in [Requests -> {"demo", "live"}]
    /\ rounds \in [Requests -> 0..MaxModelRounds]
    /\ calls \in [Requests -> Nat]
    /\ todo \in [Requests -> Nat]
    /\ sources \in [Requests -> Seq(Excerpts)]
    /\ inspected \in [Requests -> SUBSET Ids]
    /\ trace \in [Requests -> Seq(Events)]
    /\ reply \in [Requests -> Replies]

\* A source list is never longer than the ids there are.
Retained == \A r \in Requests : Len(sources[r]) <= MaxSources

LEMMA ReplyType ==
    ASSUME NEW code \in {"none", "200", "401", "429", "503", "504"},
           NEW status \in {"complete", "abstained", "limit_reached", "blocked", "none"},
           NEW cites \in SUBSET Nat
    PROVE  /\ Reply(code, status, cites) \in Replies
           /\ Reply(code, status, cites).cites = cites
BY DEF Reply, Replies

LEMMA EventType ==
    ASSUME NEW tool \in {"search", "inspect", "unpermitted"},
           NEW status \in {"ok", "error"}, NEW ids \in SUBSET Ids
    PROVE  Event(tool, status, ids) \in Events
BY DEF Event, Events

\* The end of a tool call, seen from the gateway and in its types.
LEMMA ProceedEffect ==
    ASSUME Types, NEW r \in Requests, NEW e \in Events,
           pc[r] \in Busies, Proceed(r, e)
    PROVE  /\ Moves(r) \/ Leaves(r)
           /\ trace' = [trace EXCEPT ![r] = Append(@, e)]
           /\ pc' \in [Requests -> {"new", "model", "tools", "search", "done"}]
           /\ rounds' \in [Requests -> 0..MaxModelRounds]
           /\ trace' \in [Requests -> Seq(Events)]
           /\ UNCHANGED <<phase, mode>>
           /\ reply' = reply \/ reply' = [reply EXCEPT ![r] = Reply("200", "limit_reached", {})]
<1> USE CompanionAssumption
<1>1. CASE todo'[r] > 0 /\ pc' = [pc EXCEPT ![r] = "tools"]
           /\ UNCHANGED <<gateway, rounds, reply>>
  <2>1. Moves(r)
    BY <1>1 DEF Moves, Busies, gateway
  <2> QED
    BY <1>1, <2>1 DEF Types, Proceed, gateway
<1>2. CASE ~LastRound(r) /\ pc' = [pc EXCEPT ![r] = "model"]
           /\ rounds' = [rounds EXCEPT ![r] = @ + 1]
           /\ UNCHANGED <<gateway, reply>>
  <2>1. Moves(r)
    BY <1>2 DEF Moves, Busies, gateway
  <2>2. rounds[r] + 1 \in 0..MaxModelRounds
    BY <1>2 DEF Types, LastRound
  <2> QED
    BY <1>2, <2>1, <2>2 DEF Types, Proceed, gateway
<1>3. CASE Respond(r, "limit_reached", {}) /\ UNCHANGED rounds
  <2>1. Leaves(r)
    BY <1>3 DEF Leaves, Respond, Leave
  <2> QED
    BY <1>3, <2>1 DEF Types, Proceed, Respond, Leave
<1> QED
  BY <1>1, <1>2, <1>3 DEF Proceed
\* The end of a request with answer a.
LEMMA LeaveEffect ==
    ASSUME Types, NEW r \in Requests, pc[r] \in Busies, NEW a \in Replies,
           a.cites \subseteq inspected[r],
           Leave(r, a), UNCHANGED <<rounds, evidence, trace>>,
           calls' \in [Requests -> Nat], todo' \in [Requests -> Nat]
    PROVE  /\ Leaves(r)
           /\ Types'
           /\ \A q \in Requests :
                 reply'[q].cites \subseteq reply[q].cites \union inspected[q]
<1>1. Leaves(r)
  BY DEF Leave, Leaves
<1>2. reply' \in [Requests -> Replies] /\ pc' \in [Requests -> {"new", "model", "tools", "search", "done"}]
  BY DEF Leave, Types
<1>3. Types'
  BY <1>2 DEF Leave, Types, evidence
<1>4. reply'[r] = a /\ \A q \in Requests \ {r} : reply'[q] = reply[q]
  BY DEF Leave, Types
<1> QED
  BY <1>1, <1>3, <1>4

\* A search keeps the sources there are, adds only hits, and stays within the
\* limit.
LEMMA NumberingsEffect ==
    ASSUME Types, Retained, NEW r \in Requests, NEW hits \in SUBSET Excerpts,
           NEW added \in Numberings(r, hits)
    PROVE  /\ added \in Seq(Excerpts)
           /\ sources[r] \o added \in Seq(Excerpts)
           /\ Len(sources[r] \o added) <= MaxSources
           /\ \A i \in 1..Len(added) : added[i] \in hits
<1>1. PICK kept \in SUBSET New(r, hits) :
         /\ Cardinality(kept) <= Room(r)
         /\ added \in [1..Cardinality(kept) -> kept]
  BY Zenon DEF Numberings
<1>2. kept \subseteq hits /\ kept \subseteq Excerpts
  BY DEF New
<1>3. Cardinality(kept) \in Nat
  BY <1>2, FS_Subset, FS_CardinalityType, CompanionAssumption
<1>4. added \in Seq(kept) /\ Len(added) = Cardinality(kept)
  BY <1>1, <1>3
<1>5. added \in Seq(Excerpts)
  BY <1>2, <1>4
<1>6. sources[r] \in Seq(Excerpts) /\ Len(sources[r]) \in Nat
  BY DEF Types
<1>7. Len(sources[r] \o added) = Len(sources[r]) + Len(added)
  BY <1>5, <1>6
<1>8. Len(sources[r] \o added) <= MaxSources
  BY <1>1, <1>3, <1>4, <1>6, <1>7, CompanionAssumption DEF Room
<1> QED
  BY <1>2, <1>4, <1>5, <1>6, <1>8

----------------------------------------------------------------------------
(* What each action does to the gateway, the trace and the evidence.       *)

\* The request appends an event or leaves the trace as it is.
Traces(r) == trace' = trace \/ \E e \in Events : trace' = [trace EXCEPT ![r] = Append(@, e)]

LEMMA AskEffect ==
    ASSUME Types, NEW r \in Requests, NEW m \in {"demo", "live"},
           NEW hasKey \in BOOLEAN, active \in Nat, Ask(r, m, hasKey)
    PROVE  /\ Enters(r) \/ TurnsAway(r)
           /\ Types'
           /\ UNCHANGED <<evidence, trace>>
           /\ \A q \in Requests :
                 reply'[q].cites \subseteq reply[q].cites \union inspected[q]
<1> USE CompanionAssumption
<1>1. CASE \E code \in {"401", "503", "429"} : Refuse(r, code)
  <2>1. PICK code \in {"401", "503", "429"} : Refuse(r, code)
    BY <1>1
  <2>2. Reply(code, "none", {}) \in
               Replies
    BY ReplyType
  <2>3. TurnsAway(r)
    BY <2>1 DEF Ask, Refuse, TurnsAway, gateway
  <2>4. reply'[r].cites = {} /\ \A q \in Requests \ {r} : reply'[q] = reply[q]
    BY <2>1 DEF Refuse, Types, Reply
  <2> QED
    BY <2>1, <2>2, <2>3, <2>4 DEF Ask, Refuse, Types, gateway, evidence
<1>2. CASE phase = "ready" /\ ~Busy /\ Admit(r, m)
  <2>1. Enters(r)
    BY <1>2 DEF Ask, Admit, Enters, Busy
  <2> QED
    BY <1>2, <2>1 DEF Ask, Admit, Types, evidence
<1> QED
  BY <1>1, <1>2 DEF Ask, Unavailable, Types

LEMMA DecideEffect ==
    ASSUME Types, NEW r \in Requests, Decide(r)
    PROVE  /\ Moves(r) \/ Leaves(r)
           /\ Types'
           /\ UNCHANGED <<evidence, trace>>
           /\ \A q \in Requests :
                 reply'[q].cites \subseteq reply[q].cites \union inspected[q]
<1> USE CompanionAssumption
<1> DEFINE End(status, cites) ==
             /\ pc[r] = "model"
             /\ Respond(r, status, cites)
             /\ cites \subseteq inspected[r]
             /\ UNCHANGED <<rounds, calls, todo, evidence, trace>>
<1>1. CASE ModelFails(r)
  <2>1. Reply("503", "none", {}) \in Replies /\ Reply("503", "none", {}).cites = {}
    BY ReplyType
  <2>2. calls' \in [Requests -> Nat] /\ todo' \in [Requests -> Nat] /\ pc[r] \in Busies
    BY <1>1 DEF ModelFails, Types, Busies
  <2> QED
    BY <1>1, <2>1, <2>2, LeaveEffect DEF ModelFails
<1>2. ASSUME NEW status \in {"complete", "abstained", "limit_reached", "blocked"},
             NEW cites \in SUBSET Nat, End(status, cites)
      PROVE  /\ Moves(r) \/ Leaves(r)
             /\ Types'
             /\ UNCHANGED <<evidence, trace>>
             /\ \A q \in Requests :
                   reply'[q].cites \subseteq reply[q].cites \union inspected[q]
  <2>1. Reply("200", status, cites) \in Replies /\ Reply("200", status, cites).cites = cites
    BY ReplyType
  <2>2. calls' \in [Requests -> Nat] /\ todo' \in [Requests -> Nat] /\ pc[r] \in Busies
    BY <1>2 DEF Types, Busies
  <2> QED
    BY <1>2, <2>1, <2>2, LeaveEffect DEF Respond
<1>3. ASSUME NEW n \in 1..(MaxToolCalls + 1), CallTools(r, n)
      PROVE  /\ Moves(r) \/ Leaves(r)
             /\ Types'
             /\ UNCHANGED <<evidence, trace>>
             /\ \A q \in Requests :
                   reply'[q].cites \subseteq reply[q].cites \union inspected[q]
  <2>1. CASE Respond(r, "limit_reached", {}) /\ UNCHANGED todo
    BY <1>2, <1>3, <2>1 DEF CallTools
  <2>2. CASE /\ pc' = [pc EXCEPT ![r] = "tools"]
             /\ todo' = [todo EXCEPT ![r] = n]
             /\ UNCHANGED <<gateway, reply>>
    <3>1. Moves(r)
      BY <1>3, <2>2 DEF CallTools, Moves, Busies, gateway
    <3> QED
      BY <1>3, <2>2, <3>1 DEF CallTools, Types, gateway, evidence
  <2> QED
    BY <1>3, <2>1, <2>2 DEF CallTools
<1>4. CASE AnswerInvalidly(r)
  BY <1>2, <1>4 DEF AnswerInvalidly
<1>5. CASE Abstain(r)
  BY <1>2, <1>5 DEF Abstain
<1>6. ASSUME NEW cites \in SUBSET (1..(MaxSources + 1)), Answer(r, cites)
      PROVE  /\ Moves(r) \/ Leaves(r)
             /\ Types'
             /\ UNCHANGED <<evidence, trace>>
             /\ \A q \in Requests :
                   reply'[q].cites \subseteq reply[q].cites \union inspected[q]
  <2>1. CASE Unknown(r, cites) = {} /\ Respond(r, "complete", cites)
    <3>1. cites \subseteq inspected[r]
      BY <2>1 DEF Unknown
    <3>2. cites \in SUBSET Nat
      OBVIOUS
    <3> QED
      BY <1>2, <1>6, <2>1, <3>1, <3>2 DEF Answer
  <2>2. CASE Respond(r, "blocked", {})
    BY <1>2, <1>6, <2>2 DEF Answer
  <2> QED
    BY <1>6, <2>1, <2>2 DEF Answer
<1> QED
  BY <1>1, <1>3, <1>4, <1>5, <1>6 DEF Decide

LEMMA DeadlineEffect ==
    ASSUME Types, NEW r \in Requests, Deadline(r)
    PROVE  /\ Leaves(r)
           /\ Types'
           /\ UNCHANGED <<evidence, trace>>
           /\ \A q \in Requests :
                 reply'[q].cites \subseteq reply[q].cites \union inspected[q]
<1>1. Reply("504", "none", {}) \in Replies /\ Reply("504", "none", {}).cites = {}
  BY ReplyType
<1>2. calls' \in [Requests -> Nat] /\ todo' \in [Requests -> Nat] /\ pc[r] \in Busies
  BY DEF Deadline, Waiting, Types, Busies
<1> QED
  BY <1>1, <1>2, LeaveEffect DEF Deadline

----------------------------------------------------------------------------
(* The evidence behind an answer.                                          *)

\* An executed search of the request returned source i.
Found(r, i) ==
    \E k \in DOMAIN trace[r] : trace[r][k].tool = "search" /\ i \in trace[r][k].ids

\* An executed inspection opened source c after a search returned it.
Opened(r, c) ==
    \E j \in DOMAIN trace[r] :
        /\ trace[r][j] = Event("inspect", "ok", {c})
        /\ \E i \in 1..(j - 1) :
              trace[r][i].tool = "search" /\ c \in trace[r][i].ids

Evidence ==
    \A r \in Requests :
        /\ \A i \in DOMAIN sources[r] : Found(r, i)
        /\ \A c \in inspected[r] : Opened(r, c)
        /\ \A c \in reply[r].cites : Opened(r, c)

\* What is on the trace stays there.
LEMMA TraceGrows ==
    ASSUME Types, NEW r \in Requests, NEW e \in Events,
           trace' = [trace EXCEPT ![r] = Append(@, e)],
           NEW q \in Requests, NEW c
    PROVE  (Found(q, c) => Found(q, c)') /\ (Opened(q, c) => Opened(q, c)')
<1>1. /\ trace[q] \in Seq(Events)
      /\ DOMAIN trace[q] = 1..Len(trace[q])
      /\ Len(trace[q]) \in Nat
  BY DEF Types
<1>2. /\ DOMAIN trace[q] \subseteq DOMAIN trace'[q]
      /\ \A i \in DOMAIN trace[q] : trace'[q][i] = trace[q][i]
  <2>1. CASE q = r
    <3>1. trace'[q] = Append(trace[q], e)
      BY <2>1 DEF Types
    <3> QED
      BY <1>1, <3>1
  <2>2. CASE q # r
    BY <2>2 DEF Types
  <2> QED
    BY <2>1, <2>2
<1>3. Found(q, c) => Found(q, c)'
  BY <1>2 DEF Found
<1>4. ASSUME Opened(q, c) PROVE Opened(q, c)'
  <2>1. PICK j \in DOMAIN trace[q] :
          /\ trace[q][j] = Event("inspect", "ok", {c})
          /\ \E i \in 1..(j - 1) :
                trace[q][i].tool = "search" /\ c \in trace[q][i].ids
    BY <1>4 DEF Opened
  <2>2. PICK i \in 1..(j - 1) : trace[q][i].tool = "search" /\ c \in trace[q][i].ids
    BY <2>1
  <2>3. i \in DOMAIN trace[q]
    BY <1>1
  <2>4. j \in DOMAIN trace'[q] /\ trace'[q][j] = Event("inspect", "ok", {c})
    BY <1>2, <2>1
  <2>5. trace'[q][i].tool = "search" /\ c \in trace'[q][i].ids
    BY <1>2, <2>2, <2>3
  <2> QED
    BY <2>4, <2>5 DEF Opened, Event
<1> QED
  BY <1>3, <1>4

\* A tool call that ends: what Proceed and the new event preserve, given what
\* happens to the sources and the inspected ids.
LEMMA ProceedEvidence ==
    ASSUME Types, Retained, Evidence, NEW r \in Requests, pc[r] \in Busies,
           NEW e \in Events, Proceed(r, e),
           calls' \in [Requests -> Nat], todo' \in [Requests -> Nat],
           NEW src \in Seq(Excerpts), sources' = [sources EXCEPT ![r] = src],
           Len(src) <= MaxSources,
           NEW ins \in SUBSET Ids, inspected' = [inspected EXCEPT ![r] = ins],
           \A i \in DOMAIN src : Found(r, i)',
           \A c \in ins : Opened(r, c)'
    PROVE  /\ Moves(r) \/ Leaves(r)
           /\ Types'
           /\ Retained'
           /\ Evidence'
<1>1. /\ Moves(r) \/ Leaves(r)
      /\ trace' = [trace EXCEPT ![r] = Append(@, e)]
      /\ pc' \in [Requests -> {"new", "model", "tools", "search", "done"}]
      /\ rounds' \in [Requests -> 0..MaxModelRounds]
      /\ trace' \in [Requests -> Seq(Events)]
      /\ UNCHANGED <<phase, mode>>
      /\ reply' = reply \/ reply' = [reply EXCEPT ![r] = Reply("200", "limit_reached", {})]
  BY ProceedEffect
<1>2. Reply("200", "limit_reached", {}) \in Replies
      /\ Reply("200", "limit_reached", {}).cites = {}
  BY ReplyType
<1>3. reply' \in [Requests -> Replies]
      /\ \A q \in Requests : reply'[q].cites \subseteq reply[q].cites
  <2>1. CASE reply' = reply
    BY <2>1 DEF Types
  <2>2. CASE reply' = [reply EXCEPT ![r] = Reply("200", "limit_reached", {})]
    <3>1. /\ reply'[r] = Reply("200", "limit_reached", {})
          /\ \A q \in Requests \ {r} : reply'[q] = reply[q]
      BY <2>2 DEF Types
    <3>2. reply' \in [Requests -> Replies]
      BY <1>2, <2>2 DEF Types
    <3> QED
      BY <1>2, <3>1, <3>2
  <2> QED
    BY <1>1, <2>1, <2>2
<1>4. sources' \in [Requests -> Seq(Excerpts)] /\ inspected' \in [Requests -> SUBSET Ids]
  <2>1. sources' \in [Requests -> Seq(Excerpts)]
    BY DEF Types
  <2>2. inspected' \in [Requests -> SUBSET Ids]
    BY DEF Types
  <2> QED
    BY <2>1, <2>2
<1>5. Types'
  BY <1>1, <1>3, <1>4 DEF Types
<1>6. Retained'
  BY DEF Retained, Types
<1>7. ASSUME NEW q \in Requests
      PROVE  /\ \A i \in DOMAIN sources'[q] : Found(q, i)'
             /\ \A c \in inspected'[q] : Opened(q, c)'
             /\ \A c \in reply'[q].cites : Opened(q, c)'
  <2>1. \A c \in reply'[q].cites : Opened(q, c)'
    BY <1>1, <1>3, TraceGrows DEF Evidence
  <2>2. CASE q = r
    <3>1. sources'[q] = src /\ inspected'[q] = ins
      BY <2>2 DEF Types
    <3> QED
      BY <2>1, <2>2, <3>1
  <2>3. CASE q # r
    <3>1. sources'[q] = sources[q] /\ inspected'[q] = inspected[q]
      BY <2>3 DEF Types
    <3> QED
      BY <1>1, <2>1, <3>1, TraceGrows DEF Evidence
  <2> QED
    BY <2>2, <2>3
<1>8. Evidence'
  BY <1>7 DEF Evidence
<1> QED
  BY <1>1, <1>5, <1>6, <1>8

\* The same for a call that found and opened nothing.
LEMMA ProceedAlone ==
    ASSUME Types, Retained, Evidence, NEW r \in Requests, pc[r] \in Busies,
           NEW e \in Events, Proceed(r, e), UNCHANGED evidence,
           calls' \in [Requests -> Nat], todo' \in [Requests -> Nat]
    PROVE  /\ Moves(r) \/ Leaves(r)
           /\ Types'
           /\ Retained'
           /\ Evidence'
<1>1. trace' = [trace EXCEPT ![r] = Append(@, e)]
  BY ProceedEffect
<1>2. /\ sources[r] \in Seq(Excerpts)
      /\ inspected[r] \in SUBSET Ids
      /\ sources' = [sources EXCEPT ![r] = sources[r]]
      /\ inspected' = [inspected EXCEPT ![r] = inspected[r]]
      /\ Len(sources[r]) <= MaxSources
  BY DEF Types, evidence, Retained
<1>3. (\A i \in DOMAIN sources[r] : Found(r, i)') /\ (\A c \in inspected[r] : Opened(r, c)')
  BY <1>1, TraceGrows DEF Evidence
<1> QED
  BY <1>2, <1>3, ProceedEvidence

----------------------------------------------------------------------------
(* The tools.                                                              *)

\* A step that leaves the evidence alone and cites no more than was inspected
\* keeps what is known of it.
LEMMA EvidenceStays ==
    ASSUME Types, Retained, Evidence, UNCHANGED <<evidence, trace>>,
           \A q \in Requests :
               reply'[q].cites \subseteq reply[q].cites \union inspected[q]
    PROVE  Retained' /\ Evidence'
<1>1. sources' = sources /\ inspected' = inspected /\ trace' = trace
  BY DEF evidence
<1>2. Retained'
  BY <1>1 DEF Retained
<1>3. ASSUME NEW q \in Requests, NEW c
      PROVE  (Found(q, c)' <=> Found(q, c)) /\ (Opened(q, c)' <=> Opened(q, c))
  BY <1>1 DEF Found, Opened
<1>4. ASSUME NEW q \in Requests
      PROVE  /\ \A i \in DOMAIN sources'[q] : Found(q, i)'
             /\ \A c \in inspected'[q] : Opened(q, c)'
             /\ \A c \in reply'[q].cites : Opened(q, c)'
  BY <1>1, <1>3 DEF Evidence
<1> QED
  BY <1>2, <1>4 DEF Evidence

LEMMA RunToolEffect ==
    ASSUME Types, Retained, Evidence, NEW r \in Requests, RunTool(r)
    PROVE  /\ Moves(r) \/ Leaves(r)
           /\ Types'
           /\ Retained'
           /\ Evidence'
<1>1. /\ calls' \in [Requests -> Nat] /\ todo' \in [Requests -> Nat]
      /\ pc[r] = "tools" /\ pc[r] \in Busies
  <2>1. BeginCall(r)
    BY Zenon DEF RunTool, Search, Inspect, Unpermitted, UnnameableTool
  <2> QED
    BY <2>1 DEF BeginCall, Types, Busies
<1>2. CASE Search(r)
  <2>1. Moves(r)
    BY <1>1, <1>2 DEF Search, Moves, Busies, gateway
  <2>2. Types' /\ Retained'
    BY <1>1, <1>2 DEF Search, Types, Retained, gateway, evidence
  <2>3. Evidence'
    BY <1>2 DEF Search, Evidence, Found, Opened, evidence
  <2> QED
    BY <2>1, <2>2, <2>3
<1>3. ASSUME NEW i \in Ids, Inspect(r, i)
      PROVE  (Moves(r) \/ Leaves(r)) /\ Types' /\ Retained' /\ Evidence'
  <2>1. CASE /\ i \in DOMAIN sources[r]
             /\ inspected' = [inspected EXCEPT ![r] = @ \union {i}]
             /\ Proceed(r, Event("inspect", "ok", {i}))
    <3> DEFINE e == Event("inspect", "ok", {i})
               ins == inspected[r] \union {i}
    <3>1. e \in Events
      BY EventType
    <3>2. trace' = [trace EXCEPT ![r] = Append(@, e)]
      BY <1>1, <2>1, <3>1, ProceedEffect
    <3>3. /\ sources[r] \in Seq(Excerpts)
          /\ ins \in SUBSET Ids
          /\ sources' = [sources EXCEPT ![r] = sources[r]]
          /\ inspected' = [inspected EXCEPT ![r] = ins]
          /\ Len(sources[r]) <= MaxSources
      BY <1>3, <2>1 DEF Inspect, Types, Retained
    <3>4. \A k \in DOMAIN sources[r] : Found(r, k)'
      BY <3>1, <3>2, TraceGrows DEF Evidence
    <3>5. Opened(r, i)'
      <4>1. PICK k \in DOMAIN trace[r] : trace[r][k].tool = "search" /\ i \in trace[r][k].ids
        BY <2>1 DEF Evidence, Found
      <4>2. trace[r] \in Seq(Events) /\ k \in 1..Len(trace[r]) /\ Len(trace[r]) \in Nat
        BY DEF Types
      <4>3. trace'[r] = Append(trace[r], e)
        BY <3>2 DEF Types
      <4>4. DOMAIN trace'[r] = 1..(Len(trace[r]) + 1)
        BY <3>1, <4>2, <4>3
      <4>5. trace'[r][Len(trace[r]) + 1] = e /\ trace'[r][k] = trace[r][k]
        BY <3>1, <4>2, <4>3
      <4>6. k \in 1..((Len(trace[r]) + 1) - 1) /\ Len(trace[r]) + 1 \in DOMAIN trace'[r]
        BY <4>2, <4>4
      <4> QED
        BY <4>1, <4>5, <4>6 DEF Opened, Event
    <3>6. \A c \in ins : Opened(r, c)'
      BY <3>1, <3>2, <3>5, TraceGrows DEF Evidence
    <3> HIDE DEF e, ins
    <3> QED
      BY <1>1, <2>1, <3>1, <3>3, <3>4, <3>6, ProceedEvidence DEF e
  <2>2. CASE UNCHANGED inspected /\ Proceed(r, Event("inspect", "error", {}))
    BY <1>1, <1>3, <2>2, EventType, ProceedAlone DEF Inspect, evidence
  <2> QED
    BY <1>3, <2>1, <2>2 DEF Inspect
<1>4. CASE Unpermitted(r)
  BY <1>1, <1>4, EventType, ProceedAlone DEF Unpermitted
<1>5. CASE UnnameableTool(r)
  <2>1. Reply("503", "none", {}) \in Replies /\ Reply("503", "none", {}).cites = {}
    BY ReplyType
  <2>2. /\ Leaves(r) /\ Types'
        /\ \A q \in Requests : reply'[q].cites \subseteq reply[q].cites \union inspected[q]
    BY <1>1, <1>5, <2>1, LeaveEffect DEF UnnameableTool
  <2>3. Retained' /\ Evidence'
    BY <1>5, <2>2, EvidenceStays DEF UnnameableTool
  <2> QED
    BY <2>2, <2>3
<1> QED
  BY <1>2, <1>3, <1>4, <1>5 DEF RunTool

LEMMA RetrieveEffect ==
    ASSUME Types, Retained, Evidence, NEW r \in Requests, Retrieve(r)
    PROVE  /\ Moves(r) \/ Leaves(r)
           /\ Types'
           /\ Retained'
           /\ Evidence'
<1>1. /\ calls' \in [Requests -> Nat] /\ todo' \in [Requests -> Nat]
      /\ pc[r] \in Busies
  BY DEF Retrieve, SearchFails, SearchReturns, Types, Busies
<1>2. CASE SearchFails(r)
  BY <1>1, <1>2, EventType, ProceedAlone DEF SearchFails
<1>3. ASSUME NEW hits \in SUBSET Excerpts, SearchReturns(r, hits)
      PROVE  (Moves(r) \/ Leaves(r)) /\ Types' /\ Retained' /\ Evidence'
  <2>1. PICK added \in Numberings(r, hits) :
          sources' = [sources EXCEPT ![r] = @ \o added]
    BY <1>3 DEF SearchReturns
  <2> DEFINE src == sources[r] \o added
             found == {i \in DOMAIN sources'[r] : sources'[r][i] \in hits}
             e == Event("search", "ok", found)
  <2>2. /\ added \in Seq(Excerpts)
        /\ src \in Seq(Excerpts)
        /\ Len(src) <= MaxSources
        /\ \A i \in 1..Len(added) : added[i] \in hits
    BY NumberingsEffect
  <2>3. sources' = [sources EXCEPT ![r] = src] /\ sources'[r] = src
    BY <2>1 DEF Types
  <2>4. DOMAIN src = 1..Len(src) /\ Len(src) \in Nat
    BY <2>2
  <2>5. e \in Events
    BY <2>2, <2>3, <2>4, EventType, CompanionAssumption DEF Ids
  <2>6. Proceed(r, e) /\ UNCHANGED inspected
    BY <1>3 DEF SearchReturns
  <2>7. trace' = [trace EXCEPT ![r] = Append(@, e)]
    BY <1>1, <2>5, <2>6, ProceedEffect
  <2>8. /\ inspected[r] \in SUBSET Ids
        /\ inspected' = [inspected EXCEPT ![r] = inspected[r]]
    BY <2>6 DEF Types
  <2>9. ASSUME NEW i \in DOMAIN src PROVE Found(r, i)'
    <3>1. sources[r] \in Seq(Excerpts) /\ Len(sources[r]) \in Nat
      BY DEF Types
    <3>2. CASE i \in DOMAIN sources[r]
      BY <2>5, <2>7, <3>2, TraceGrows DEF Evidence
    <3>3. CASE i \notin DOMAIN sources[r]
      <4>1. i - Len(sources[r]) \in 1..Len(added) /\ src[i] = added[i - Len(sources[r])]
        BY <2>2, <2>4, <3>1, <3>3
      <4>2. i \in found
        BY <2>2, <2>3, <4>1
      <4>3. trace[r] \in Seq(Events) /\ Len(trace[r]) \in Nat /\ trace'[r] = Append(trace[r], e)
        BY <2>7 DEF Types
      <4>4. Len(trace[r]) + 1 \in DOMAIN trace'[r] /\ trace'[r][Len(trace[r]) + 1] = e
        BY <2>5, <4>3
      <4>5. e.tool = "search" /\ e.ids = found
        BY DEF Event
      <4> HIDE DEF e, found
      <4> QED
        BY <4>2, <4>4, <4>5 DEF Found
    <3> QED
      BY <3>2, <3>3
  <2>10. \A c \in inspected[r] : Opened(r, c)'
    BY <2>5, <2>7, TraceGrows DEF Evidence
  <2> HIDE DEF e, found, src
  <2> QED
    BY <1>1, <2>2, <2>3, <2>5, <2>6, <2>8, <2>9, <2>10, ProceedEvidence
<1> QED
  BY <1>2, <1>3 DEF Retrieve

----------------------------------------------------------------------------
(* The gateway.                                                            *)

\* Before the service is ready nothing is admitted; a request has begun its
\* first round when and only when it was admitted.
Admission ==
    /\ SlotsAccounted
    /\ phase = "starting" => InProgress = {}
    /\ \A r \in Requests :
          /\ pc[r] = "new" => rounds[r] = 0
          /\ pc[r] \in Busies => rounds[r] > 0

CompanionInv == Types /\ Retained /\ Evidence /\ Admission

LEMMA ProgressFinite ==
    IsFiniteSet(InProgress) /\ Cardinality(InProgress) \in Nat
BY FS_Subset, FS_CardinalityType, CompanionAssumption DEF InProgress

LEMMA EntersAdmits ==
    ASSUME Types, Admission, NEW r \in Requests, Enters(r)
    PROVE  /\ Admission'
           /\ InProgress' = InProgress \union {r} /\ r \notin InProgress
<1>1. InProgress' = InProgress \union {r} /\ r \notin InProgress
  BY DEF Enters, InProgress, Types
<1>2. Cardinality(InProgress') = Cardinality(InProgress) + 1
  BY <1>1, ProgressFinite, FS_AddElement
<1>3. SlotsAccounted'
  BY <1>2 DEF Enters, Admission, SlotsAccounted
<1>4. ASSUME NEW q \in Requests
      PROVE  (pc'[q] = "new" => rounds'[q] = 0) /\ (pc'[q] \in Busies => rounds'[q] > 0)
  BY DEF Enters, Admission, Types, Busies
<1> QED
  BY <1>1, <1>3, <1>4 DEF Enters, Admission

LEMMA LeavesAdmits ==
    ASSUME Types, Admission, NEW r \in Requests, Leaves(r)
    PROVE  /\ Admission'
           /\ InProgress' = InProgress \ {r} /\ r \in InProgress
<1>1. InProgress' = InProgress \ {r} /\ r \in InProgress
  BY DEF Leaves, InProgress, Types, Busies
<1>2. Cardinality(InProgress') = Cardinality(InProgress) - 1
  BY <1>1, ProgressFinite, FS_RemoveElement
<1>3. SlotsAccounted'
  BY <1>2 DEF Leaves, Admission, SlotsAccounted
<1>4. ASSUME NEW q \in Requests
      PROVE  (pc'[q] = "new" => rounds'[q] = 0) /\ (pc'[q] \in Busies => rounds'[q] > 0)
  BY DEF Leaves, Admission, Types, Busies
<1> QED
  BY <1>1, <1>3, <1>4 DEF Leaves, Admission

LEMMA MovesAdmits ==
    ASSUME Types, Admission, NEW r \in Requests, Moves(r)
    PROVE  Admission' /\ InProgress' = InProgress
<1>1. InProgress' = InProgress
  BY DEF Moves, InProgress, Types, Busies
<1>2. SlotsAccounted'
  BY <1>1 DEF Moves, Admission, SlotsAccounted
<1>3. ASSUME NEW q \in Requests
      PROVE  (pc'[q] = "new" => rounds'[q] = 0) /\ (pc'[q] \in Busies => rounds'[q] > 0)
  BY DEF Moves, Admission, Types, Busies
<1> QED
  BY <1>1, <1>2, <1>3 DEF Moves, Admission

LEMMA TurnsAwayAdmits ==
    ASSUME Types, Admission, NEW r \in Requests, TurnsAway(r)
    PROVE  Admission' /\ InProgress' = InProgress
<1>1. InProgress' = InProgress
  BY DEF TurnsAway, InProgress, Types
<1>2. ASSUME NEW q \in Requests
      PROVE  (pc'[q] = "new" => rounds'[q] = 0) /\ (pc'[q] \in Busies => rounds'[q] > 0)
  BY DEF TurnsAway, Admission, Types, Busies
<1> QED
  BY <1>1, <1>2 DEF TurnsAway, Admission, SlotsAccounted

\* Every step is of one kind, and keeps types and evidence.
LEMMA StepKinds ==
    ASSUME CompanionInv, [Next]_vars
    PROVE  /\ Types' /\ Retained' /\ Evidence'
           /\ \/ \E r \in Requests : Enters(r) \/ TurnsAway(r) \/ Moves(r) \/ Leaves(r)
              \/ Starts
              \/ Idles
<1> USE DEF CompanionInv
<1>1. CASE Startup
  <2>1. Starts
    BY <1>1 DEF Startup, Starts
  <2>2. Types' /\ Retained' /\ Evidence'
    BY <1>1 DEF Startup, Types, Retained, Evidence, Found, Opened, evidence
  <2> QED
    BY <2>1, <2>2
<1>2. ASSUME NEW r \in Requests, NEW m \in {"demo", "live"}, NEW hasKey \in BOOLEAN,
             Ask(r, m, hasKey)
      PROVE  Types' /\ Retained' /\ Evidence' /\ (Enters(r) \/ TurnsAway(r))
  <2>1. active \in Nat
    BY ProgressFinite DEF Admission, SlotsAccounted
  <2> QED
    BY <1>2, <2>1, AskEffect, EvidenceStays
<1>3. ASSUME NEW r \in Requests, Decide(r)
      PROVE  Types' /\ Retained' /\ Evidence' /\ (Moves(r) \/ Leaves(r))
  BY <1>3, DecideEffect, EvidenceStays
<1>4. ASSUME NEW r \in Requests, Deadline(r)
      PROVE  Types' /\ Retained' /\ Evidence' /\ Leaves(r)
  BY <1>4, DeadlineEffect, EvidenceStays
<1>5. CASE UNCHANGED vars
  BY <1>5 DEF vars, gateway, evidence, Types, Retained, Evidence, Found, Opened, Idles
<1> QED
  BY <1>1, <1>2, <1>3, <1>4, <1>5, RunToolEffect, RetrieveEffect DEF Next, Quiet

LEMMA InvInit == Init => CompanionInv
<1> SUFFICES ASSUME Init PROVE CompanionInv
  OBVIOUS
<1> USE CompanionAssumption DEF Init
<1>1. InProgress = {}
  BY DEF InProgress
<1>2. Admission
  BY <1>1, FS_EmptySet DEF Admission, SlotsAccounted, Busies
<1>3. NoReply \in Replies /\ NoReply.cites = {}
  BY ReplyType DEF NoReply
<1>4. Types
  BY <1>3 DEF Types
<1>5. Retained /\ Evidence
  BY <1>3 DEF Retained, Evidence
<1> QED
  BY <1>2, <1>4, <1>5 DEF CompanionInv

LEMMA InvStep == CompanionInv /\ [Next]_vars => CompanionInv'
<1> SUFFICES ASSUME CompanionInv, [Next]_vars PROVE Admission'
  BY StepKinds DEF CompanionInv
<1> USE DEF CompanionInv
<1>1. CASE Starts
  <2>1. InProgress' = {} /\ InProgress = {}
    BY <1>1 DEF Starts, Admission, InProgress
  <2> QED
    BY <1>1, <2>1, FS_EmptySet DEF Starts, Admission, SlotsAccounted
<1>2. CASE Idles
  BY <1>2 DEF Idles, Admission, SlotsAccounted, InProgress
<1> QED
  BY <1>1, <1>2, StepKinds, EntersAdmits, LeavesAdmits, MovesAdmits, TurnsAwayAdmits

\* The inductive invariant holds in every reachable state.
THEOREM CompanionInvariant == Spec => []CompanionInv
BY InvInit, InvStep, PTL DEF Spec

\* Types of the whole state, the counter included.
THEOREM CompanionTypeCorrect == Spec => []TypeOK
<1>1. CompanionInv => TypeOK
  BY ProgressFinite DEF CompanionInv, Types, Admission, SlotsAccounted, TypeOK
<1> QED
  BY <1>1, CompanionInvariant, PTL

\* ask's counter is the number of requests in progress, whichever way
\* requests end.
THEOREM SlotsComeBack == Spec => []SlotsAccounted
<1>1. CompanionInv => SlotsAccounted
  BY DEF CompanionInv, Admission
<1> QED
  BY <1>1, CompanionInvariant, PTL

\* An answer cites only excerpts that the request itself searched for and
\* then opened.
THEOREM CitationsHold == Spec => []CitesInspected
<1>1. CompanionInv => CitesInspected
  BY DEF CompanionInv, Evidence, Opened, CitesInspected
<1> QED
  BY <1>1, CompanionInvariant, PTL

----------------------------------------------------------------------------
(* What the client of a request relies on.                                 *)

\* Inspected ids are retained, an excerpt has one id, the budget of tool calls
\* covers what is still to do, every executed call is on the trace once it has
\* ended, and an answer is given once, by a request that had none.
Contract(r) ==
    /\ inspected[r] \subseteq DOMAIN sources[r]
    /\ \A i, j \in DOMAIN sources[r] : sources[r][i] = sources[r][j] => i = j
    /\ calls[r] + todo[r] <= MaxToolCalls
    /\ pc[r] # "done" => reply[r] = NoReply
    /\ pc[r] = "new" => mode[r] = "demo"
    /\ pc[r] \in {"new", "model", "tools"} => Len(trace[r]) = calls[r]
    /\ pc[r] = "search" => Len(trace[r]) + 1 = calls[r]
    /\ reply[r].code = "200" =>
          /\ Len(trace[r]) = calls[r]
          /\ reply[r].cites \subseteq inspected[r]
          /\ reply[r].status = "complete" => reply[r].cites # {}
ContractInv == \A r \in Requests : Contract(r)

\* The demo's script, one tool call a round: a search, the inspection of one of
\* its hits, a quotation of what was inspected.
Script(r) ==
    mode[r] = "demo" =>
        /\ pc[r] = "new" => trace[r] = <<>>
        /\ pc[r] \in Busies =>
              /\ rounds[r] = Len(trace[r]) + 1 /\ Len(trace[r]) <= 2
              /\ Len(trace[r]) = 1 =>
                    trace[r][1].tool = "search" /\ trace[r][1].ids \subseteq DOMAIN sources[r]
              /\ Len(trace[r]) = 2 =>
                    /\ trace[r][2].tool = "inspect"
                    /\ \E i \in inspected[r] : trace[r][2].ids = {i}
        /\ pc[r] = "tools" => todo[r] = 1 /\ Len(trace[r]) < 2
        /\ pc[r] = "search" => todo[r] = 0 /\ Len(trace[r]) = 0
        /\ pc[r] = "done" /\ rounds[r] > 0 =>
              reply[r].code = "504" \/ reply[r].status \in {"complete", "abstained"}
ScriptInv == \A r \in Requests : Script(r)

\* Requests share nothing but the slots.
OthersKeep(r) ==
    \A q \in Requests \ {r} :
        /\ pc'[q] = pc[q] /\ mode'[q] = mode[q] /\ rounds'[q] = rounds[q]
        /\ calls'[q] = calls[q] /\ todo'[q] = todo[q]
        /\ sources'[q] = sources[q] /\ inspected'[q] = inspected[q]
        /\ trace'[q] = trace[q] /\ reply'[q] = reply[q]

\* The end of a tool call leaves other requests alone.
LEMMA ProceedOwn ==
    ASSUME Types, NEW r \in Requests, NEW e, Proceed(r, e), NEW q \in Requests \ {r}
    PROVE  /\ pc'[q] = pc[q] /\ mode'[q] = mode[q] /\ rounds'[q] = rounds[q]
           /\ trace'[q] = trace[q] /\ reply'[q] = reply[q]
BY DEF Proceed, Respond, Leave, gateway, Types

\* So does every step.
LEMMA StepOwn ==
    ASSUME Types, NEW r \in Requests,
           \/ \E m \in {"demo", "live"}, hasKey \in BOOLEAN : Ask(r, m, hasKey)
           \/ Decide(r) \/ RunTool(r) \/ Retrieve(r) \/ Deadline(r)
    PROVE  OthersKeep(r)
<1> USE DEF Types, gateway, evidence
<1> SUFFICES ASSUME NEW q \in Requests \ {r}
             PROVE  /\ pc'[q] = pc[q] /\ mode'[q] = mode[q] /\ rounds'[q] = rounds[q]
                    /\ calls'[q] = calls[q] /\ todo'[q] = todo[q]
                    /\ sources'[q] = sources[q] /\ inspected'[q] = inspected[q]
                    /\ trace'[q] = trace[q] /\ reply'[q] = reply[q]
  BY DEF OthersKeep
<1> DEFINE Same == /\ pc'[q] = pc[q] /\ mode'[q] = mode[q] /\ rounds'[q] = rounds[q]
                   /\ calls'[q] = calls[q] /\ todo'[q] = todo[q]
                   /\ sources'[q] = sources[q] /\ inspected'[q] = inspected[q]
                   /\ trace'[q] = trace[q] /\ reply'[q] = reply[q]
<1>1. ASSUME NEW m \in {"demo", "live"}, NEW hasKey \in BOOLEAN, Ask(r, m, hasKey)
      PROVE  Same
  BY <1>1 DEF Ask, Refuse, Admit
<1>2. CASE ModelFails(r) \/ AnswerInvalidly(r) \/ Abstain(r) \/ Deadline(r)
  BY <1>2 DEF ModelFails, AnswerInvalidly, Abstain, Deadline, Respond, Leave
<1>3. ASSUME NEW n \in 1..(MaxToolCalls + 1), CallTools(r, n)
      PROVE  Same
  BY <1>3 DEF CallTools, Respond, Leave
<1>4. ASSUME NEW cites \in SUBSET (1..(MaxSources + 1)), Answer(r, cites)
      PROVE  Same
  BY <1>4 DEF Answer, Respond, Leave
<1>5. CASE Search(r) \/ UnnameableTool(r)
  BY <1>5 DEF Search, UnnameableTool, BeginCall, Leave
<1>6. CASE Unpermitted(r)
  BY <1>6, ProceedOwn DEF Unpermitted, BeginCall
<1>7. ASSUME NEW i \in Ids, Inspect(r, i)
      PROVE  Same
  BY <1>7, ProceedOwn DEF Inspect, BeginCall
<1>8. CASE SearchFails(r)
  BY <1>8, ProceedOwn DEF SearchFails
<1>9. ASSUME NEW hits \in SUBSET Excerpts, SearchReturns(r, hits)
      PROVE  Same
  BY <1>9, ProceedOwn DEF SearchReturns
<1> QED
  BY <1>1, <1>2, <1>3, <1>4, <1>5, <1>6, <1>7, <1>8, <1>9 DEF Decide, RunTool, Retrieve

\* A request that nothing touches keeps its contract and its script.
LEMMA OthersFine ==
    ASSUME NEW r \in Requests, OthersKeep(r), NEW q \in Requests \ {r}
    PROVE  (Contract(q) => Contract(q)') /\ (Script(q) => Script(q)')
BY DEF OthersKeep, Contract, Script

\* Request r is as it was, as far as its contract goes, but for how it ends.
LEMMA EndContract ==
    ASSUME Types, NEW r \in Requests, Contract(r), NEW a \in Replies, Leave(r, a),
           UNCHANGED evidence, calls'[r] + todo'[r] <= MaxToolCalls,
           a.code = "200" => /\ Len(trace'[r]) = calls'[r]
                             /\ a.cites \subseteq inspected[r]
                             /\ a.status = "complete" => a.cites # {}
    PROVE  Contract(r)'
<1>1. pc'[r] = "done" /\ reply'[r] = a /\ sources' = sources /\ inspected' = inspected
  BY DEF Leave, Types, evidence
<1> QED
  BY <1>1 DEF Contract

\* The end of a tool call that was counted.
LEMMA ProceedContract ==
    ASSUME Types, NEW r \in Requests, reply[r] = NoReply, NEW e \in Events, Proceed(r, e),
           calls'[r] = Len(trace[r]) + 1, calls'[r] + todo'[r] <= MaxToolCalls,
           inspected'[r] \subseteq DOMAIN sources'[r],
           \A i, j \in DOMAIN sources'[r] : sources'[r][i] = sources'[r][j] => i = j
    PROVE  Contract(r)'
<1>1. trace'[r] = Append(trace[r], e) /\ trace[r] \in Seq(Events)
  BY DEF Proceed, Types
<1>2. Len(trace'[r]) = calls'[r]
  BY <1>1
<1>3. CASE pc' = [pc EXCEPT ![r] = "tools"] /\ UNCHANGED reply
  <2>1. pc'[r] = "tools" /\ reply'[r] = NoReply
    BY <1>3 DEF Types
  <2> QED
    BY <1>2, <2>1 DEF Contract, NoReply, Reply
<1>4. CASE pc' = [pc EXCEPT ![r] = "model"] /\ UNCHANGED reply
  <2>1. pc'[r] = "model" /\ reply'[r] = NoReply
    BY <1>4 DEF Types
  <2> QED
    BY <1>2, <2>1 DEF Contract, NoReply, Reply
<1>5. CASE Respond(r, "limit_reached", {})
  <2>1. pc'[r] = "done" /\ reply'[r] = Reply("200", "limit_reached", {})
    BY <1>5 DEF Respond, Leave, Types
  <2> QED
    BY <1>2, <2>1 DEF Contract, Reply
<1> QED
  BY <1>3, <1>4, <1>5 DEF Proceed

\* The end of the only tool call of a round of the demo.
LEMMA ProceedScript ==
    ASSUME Types, NEW r \in Requests, mode[r] = "demo", NEW e \in Events, Proceed(r, e),
           todo'[r] = 0, rounds[r] = Len(trace[r]) + 1, Len(trace[r]) <= 1, MaxModelRounds >= 3,
           Len(trace[r]) = 0 => e.tool = "search" /\ e.ids \subseteq DOMAIN sources'[r],
           Len(trace[r]) = 1 => e.tool = "inspect" /\ \E i \in inspected'[r] : e.ids = {i}
    PROVE  Script(r)'
<1>0. Len(trace[r]) \in Nat
  BY DEF Types
<1>1. trace'[r] = Append(trace[r], e) /\ trace[r] \in Seq(Events) /\ Len(trace[r]) \in Nat
  BY <1>0 DEF Proceed, Types
<1>2. ~LastRound(r)
  BY <1>1, CompanionAssumption DEF LastRound
<1>3. /\ pc'[r] = "model" /\ rounds'[r] = rounds[r] + 1 /\ mode'[r] = mode[r]
  BY <1>2 DEF Proceed, Types, gateway
<1>4. Len(trace'[r]) = Len(trace[r]) + 1 /\ trace'[r][Len(trace[r]) + 1] = e
  BY <1>1
<1>5. Len(trace'[r]) = 1 => trace'[r][1].tool = "search" /\ trace'[r][1].ids \subseteq DOMAIN sources'[r]
  BY <1>1, <1>4
<1>6. Len(trace'[r]) = 2 =>
        trace'[r][2].tool = "inspect" /\ \E i \in inspected'[r] : trace'[r][2].ids = {i}
  <2> SUFFICES ASSUME Len(trace'[r]) = 2
               PROVE  trace'[r][2].tool = "inspect" /\ \E i \in inspected'[r] : trace'[r][2].ids = {i}
    OBVIOUS
  <2>1. Len(trace[r]) = 1
    <3>1. PICK n \in Nat : n = Len(trace[r])
      BY <1>0
    <3>2. n + 1 = 2
      BY <1>4, <3>1, Zenon
    <3>3. n = 1
      BY <3>2, SMT
    <3> QED
      BY <3>1, <3>3, Zenon
  <2>2. trace'[r][2] = e
    BY <1>4, <2>1
  <2> QED
    BY <2>1, <2>2
<1>7. rounds'[r] = Len(trace'[r]) + 1 /\ Len(trace'[r]) <= 2
  BY <1>1, <1>3, <1>4
<1> QED
  BY <1>3, <1>5, <1>6, <1>7 DEF Script

\* A request that is admitted or turned away.
LEMMA AskContract ==
    ASSUME Types, NEW r \in Requests, Contract(r), rounds[r] = 0,
           NEW m \in {"demo", "live"}, NEW hasKey \in BOOLEAN, Ask(r, m, hasKey)
    PROVE  Contract(r)' /\ (Script(r) => Script(r)')
<1>1. pc[r] = "new" /\ UNCHANGED <<calls, todo, evidence, trace>> /\ mode[r] = "demo"
  BY DEF Ask, Contract
<1>2. Script(r) => trace[r] = <<>> /\ Len(trace[r]) = 0
  BY <1>1 DEF Script
<1>3. CASE Admit(r, m)
  <2>1. pc'[r] = "model" /\ rounds'[r] = 1 /\ reply'[r] = reply[r]
    BY <1>3 DEF Admit, Types
  <2>2. Contract(r)'
    BY <1>1, <2>1 DEF Contract, evidence
  <2>3. Script(r) => Script(r)'
    BY <1>1, <1>2, <2>1 DEF Script
  <2> QED
    BY <2>2, <2>3
<1>4. ASSUME NEW code \in {"401", "503", "429"}, Refuse(r, code)
      PROVE  Contract(r)' /\ (Script(r) => Script(r)')
  <2>1. /\ pc'[r] = "done" /\ rounds'[r] = 0 /\ reply'[r] = Reply(code, "none", {})
        /\ mode' = mode
    BY <1>4 DEF Refuse, Types, gateway
  <2>2. Contract(r)'
    BY <1>1, <2>1 DEF Contract, evidence, Reply
  <2>3. Script(r)'
    BY <1>1, <2>1 DEF Script, Busies
  <2> QED
    BY <2>2, <2>3
<1> QED
  BY <1>3, <1>4 DEF Ask

\* The demo's script when the request ends.
LEMMA EndScript ==
    ASSUME Types, NEW r \in Requests, NEW a, Leave(r, a),
           mode[r] = "demo" => a.code = "504" \/ a.status \in {"complete", "abstained"}
    PROVE  Script(r)'
<1>1. pc'[r] = "done" /\ reply'[r] = a /\ mode' = mode
  BY DEF Leave, Types
<1> QED
  BY <1>1 DEF Script, Busies

\* What the model decides.
LEMMA DecideContract ==
    ASSUME Types, NEW r \in Requests, Decide(r), Contract(r)
    PROVE  Contract(r)'
<1> USE CompanionAssumption
<1>0. /\ pc[r] = "model" /\ Len(trace[r]) = calls[r]
      /\ calls[r] \in Nat /\ todo[r] \in Nat /\ calls[r] + todo[r] <= MaxToolCalls
  BY DEF Decide, ModelFails, CallTools, AnswerInvalidly, Abstain, Answer, Contract, Types
<1>1. CASE ModelFails(r)
  BY <1>0, <1>1, ReplyType, EndContract DEF ModelFails, Reply
<1>2. ASSUME NEW status \in {"abstained", "limit_reached", "blocked"}, Respond(r, status, {}),
             UNCHANGED <<calls, todo, evidence, trace>>
      PROVE  Contract(r)'
  BY <1>0, <1>2, ReplyType, EndContract DEF Respond, Reply
<1>3. ASSUME NEW n \in 1..(MaxToolCalls + 1), CallTools(r, n)
      PROVE  Contract(r)'
  <2>1. CASE Respond(r, "limit_reached", {}) /\ UNCHANGED todo
    BY <1>2, <1>3, <2>1 DEF CallTools
  <2>2. CASE /\ ~OverBudget(r, n)
             /\ pc' = [pc EXCEPT ![r] = "tools"]
             /\ todo' = [todo EXCEPT ![r] = n]
             /\ UNCHANGED <<gateway, reply>>
    <3>1. /\ pc'[r] = "tools" /\ todo'[r] = n
          /\ UNCHANGED <<calls, sources, inspected, trace, reply>>
      BY <1>3, <2>2 DEF CallTools, Types, evidence
    <3>2. calls[r] + n <= MaxToolCalls
      BY <1>0, <2>2 DEF OverBudget
    <3> QED
      BY <1>0, <3>1, <3>2 DEF Contract
  <2> QED
    BY <1>3, <2>1, <2>2 DEF CallTools
<1>4. CASE AnswerInvalidly(r) \/ Abstain(r)
  BY <1>2, <1>4 DEF AnswerInvalidly, Abstain
<1>5. ASSUME NEW cites \in (SUBSET (1..(MaxSources + 1))) \ {{}}, Answer(r, cites)
      PROVE  Contract(r)'
  <2>1. CASE Unknown(r, cites) = {} /\ Respond(r, "complete", cites)
    <3>1. cites \subseteq inspected[r]
      BY <2>1 DEF Unknown
    <3>4. cites # {}
      BY <1>5, Zenon
    <3>3. cites \in SUBSET Nat
      BY <1>5
    <3>2. /\ Reply("200", "complete", cites) \in Replies
          /\ Reply("200", "complete", cites).cites = cites
      BY <3>3, ReplyType
    <3>5. UNCHANGED <<calls, todo, evidence, trace>>
      BY <1>5 DEF Answer
    <3> QED
      BY <1>0, <1>5, <2>1, <3>1, <3>2, <3>4, <3>5, EndContract DEF Answer, Respond
  <2>2. CASE Respond(r, "blocked", {})
    BY <1>2, <1>5, <2>2 DEF Answer
  <2> QED
    BY <1>5, <2>1, <2>2 DEF Answer
<1> QED
  BY <1>1, <1>3, <1>4, <1>5 DEF Decide

\* What the scripted model decides.
LEMMA DecideScript ==
    ASSUME Types, NEW r \in Requests, Decide(r), Contract(r), Script(r), MaxToolCalls >= 2
    PROVE  Script(r)'
<1> USE CompanionAssumption
<1>0. /\ pc[r] = "model" /\ mode' = mode /\ Len(trace[r]) = calls[r]
      /\ trace[r] \in Seq(Events) /\ Len(trace[r]) \in Nat
  BY DEF Decide, ModelFails, CallTools, AnswerInvalidly, Abstain, Answer, Contract, Types,
     Respond, Leave, gateway
<1>1. CASE mode[r] # "demo"
  BY <1>0, <1>1 DEF Script
<1>2. CASE ModelFails(r) \/ AnswerInvalidly(r)
  BY <1>0, <1>1, <1>2 DEF ModelFails, AnswerInvalidly
<1>3. ASSUME NEW n \in 1..(MaxToolCalls + 1), CallTools(r, n), mode[r] = "demo"
      PROVE  Script(r)'
  <2>1. n = 1 /\ Len(trace[r]) < 2
    BY <1>0, <1>3 DEF CallTools, ScriptedSearch, ScriptedInspect, LastEvent, Script, Busies
  <2>2. ~OverBudget(r, n)
    BY <1>0, <2>1 DEF OverBudget
  <2>3. /\ pc'[r] = "tools" /\ todo'[r] = 1
        /\ UNCHANGED <<rounds, sources, inspected, trace>>
    BY <1>3, <2>1, <2>2 DEF CallTools, Types, evidence
  <2> QED
    BY <1>0, <2>1, <2>3 DEF Script, Busies
<1>4. CASE Abstain(r)
  BY <1>4, EndScript DEF Abstain, Respond, Reply
<1>5. ASSUME NEW cites \in SUBSET (1..(MaxSources + 1)), Answer(r, cites), mode[r] = "demo"
      PROVE  Script(r)'
  <2>1. PICK i \in inspected[r] : cites = {i}
    <3>1. ScriptedQuote(r) /\ cites = LastEvent(r).ids
      BY <1>5 DEF Answer
    <3>2. Len(trace[r]) = 2
      BY <1>0, <1>5, <3>1 DEF ScriptedQuote, LastEvent, Script, Busies
    <3> QED
      BY <1>0, <1>5, <3>1, <3>2 DEF LastEvent, Script, Busies
  <2>2. Unknown(r, cites) = {}
    BY <2>1 DEF Unknown, Contract
  <2>3. Respond(r, "complete", cites)
    BY <1>5, <2>2 DEF Answer
  <2> QED
    BY <2>3, EndScript DEF Respond, Reply
<1> QED
  BY <1>1, <1>2, <1>3, <1>4, <1>5 DEF Decide

\* The deadline.
LEMMA DeadlineContract ==
    ASSUME Types, NEW r \in Requests, Deadline(r), Contract(r)
    PROVE  Contract(r)' /\ Script(r)'
<1>0. /\ Reply("504", "none", {}) \in Replies
      /\ Reply("504", "none", {}).code = "504"
  BY ReplyType DEF Reply
<1>1. Contract(r)'
  <2>1. calls'[r] + todo'[r] <= MaxToolCalls /\ UNCHANGED evidence
    BY DEF Deadline, Contract
  <2> QED
    BY <1>0, <2>1, EndContract DEF Deadline
<1>2. Script(r)'
  BY EndScript DEF Deadline, Reply
<1> QED
  BY <1>1, <1>2

\* A call of a tool that ends at once, or that awaits retrieval.
LEMMA RunToolContract ==
    ASSUME Types, NEW r \in Requests, RunTool(r), Contract(r)
    PROVE  Contract(r)'
<1> USE CompanionAssumption
<1>0. /\ pc[r] = "tools" /\ reply[r] = NoReply /\ Len(trace[r]) = calls[r]
      /\ calls'[r] = calls[r] + 1 /\ calls'[r] + todo'[r] <= MaxToolCalls
      /\ calls'[r] = Len(trace[r]) + 1
  <2>1. BeginCall(r)
    BY Zenon DEF RunTool, Search, Inspect, Unpermitted, UnnameableTool
  <2> QED
    BY <2>1 DEF BeginCall, Types, Contract
<1>1. CASE Search(r)
  <2>1. /\ pc'[r] = "search"
        /\ UNCHANGED <<sources, inspected, trace, reply>>
    BY <1>1 DEF Search, Types, evidence
  <2> QED
    BY <1>0, <2>1 DEF Contract, NoReply, Reply
<1>2. ASSUME NEW i \in Ids, Inspect(r, i)
      PROVE  Contract(r)'
  <2>1. CASE /\ i \in DOMAIN sources[r]
             /\ inspected' = [inspected EXCEPT ![r] = @ \union {i}]
             /\ Proceed(r, Event("inspect", "ok", {i}))
    <3>1. inspected'[r] = inspected[r] \union {i} /\ sources' = sources
      BY <1>2, <2>1 DEF Inspect, Types
    <3>2. /\ inspected'[r] \subseteq DOMAIN sources'[r]
          /\ \A k, j \in DOMAIN sources'[r] : sources'[r][k] = sources'[r][j] => k = j
      BY <2>1, <3>1 DEF Contract
    <3>3. Event("inspect", "ok", {i}) \in Events
      BY EventType
    <3> QED
      BY <1>0, <2>1, <3>2, <3>3, ProceedContract
  <2>2. CASE UNCHANGED inspected /\ Proceed(r, Event("inspect", "error", {}))
    <3>1. UNCHANGED <<sources, inspected>>
      BY <1>2, <2>2 DEF Inspect
    <3>2. /\ inspected'[r] \subseteq DOMAIN sources'[r]
          /\ \A k, j \in DOMAIN sources'[r] : sources'[r][k] = sources'[r][j] => k = j
      BY <3>1 DEF Contract
    <3> QED
      BY <1>0, <2>2, <3>2, EventType, ProceedContract
  <2> QED
    BY <1>2, <2>1, <2>2 DEF Inspect
<1>3. CASE Unpermitted(r)
  <2>1. /\ inspected'[r] \subseteq DOMAIN sources'[r]
        /\ \A k, j \in DOMAIN sources'[r] : sources'[r][k] = sources'[r][j] => k = j
    BY <1>3 DEF Unpermitted, Contract, evidence
  <2> QED
    BY <1>0, <1>3, <2>1, EventType, ProceedContract DEF Unpermitted
<1>4. CASE UnnameableTool(r)
  <2>1. /\ Reply("503", "none", {}) \in Replies
        /\ Reply("503", "none", {}).code = "503"
    BY ReplyType DEF Reply
  <2> QED
    BY <1>0, <1>4, <2>1, EndContract DEF UnnameableTool
<1> QED
  BY <1>1, <1>2, <1>3, <1>4 DEF RunTool

\* The demo calls one tool a round: the search first, then one inspection.
LEMMA RunToolScript ==
    ASSUME Types, NEW r \in Requests, RunTool(r), Contract(r), Script(r), MaxModelRounds >= 3
    PROVE  Script(r)'
<1> USE CompanionAssumption
<1>0. BeginCall(r) /\ pc[r] = "tools"
  BY Zenon DEF RunTool, Search, Inspect, Unpermitted, UnnameableTool, BeginCall
<1>1. CASE mode[r] # "demo"
  <2>1. mode' = mode
    BY DEF RunTool, Search, Inspect, Unpermitted, UnnameableTool, Proceed, Respond, Leave, gateway
  <2> QED
    BY <1>1, <2>1 DEF Script
<1>2. CASE mode[r] = "demo"
  <2>1. /\ todo[r] = 1 /\ todo'[r] = 0 /\ Len(trace[r]) < 2 /\ rounds[r] = Len(trace[r]) + 1
        /\ trace[r] \in Seq(Events) /\ Len(trace[r]) \in Nat
        /\ Len(trace[r]) = 1 => trace[r][1].tool = "search" /\ trace[r][1].ids \subseteq DOMAIN sources[r]
    BY <1>0, <1>2 DEF BeginCall, Script, Types, Busies
  <2>2. CASE Search(r)
    <3>1. /\ pc'[r] = "search" /\ Len(trace[r]) = 0
          /\ UNCHANGED <<rounds, mode, sources, inspected, trace>>
      BY <1>2, <2>1, <2>2 DEF Search, ScriptedSearch, Types, gateway, evidence
    <3> QED
      BY <2>1, <3>1 DEF Script
  <2>3. ASSUME NEW i \in Ids, Inspect(r, i)
        PROVE  Script(r)'
    <3>0. trace[r] # <<>> /\ i \in trace[r][Len(trace[r])].ids
      BY <1>2, <2>3 DEF Inspect, ScriptedInspect, LastEvent
    <3>1. Len(trace[r]) = 1 /\ i \in trace[r][1].ids
      <4>1. Len(trace[r]) # 0
        BY <2>1, <3>0, EmptySeq
      <4>2. PICK n \in Nat : n = Len(trace[r])
        BY <2>1
      <4>3. n < 2 /\ n # 0
        BY <2>1, <4>1, <4>2, Zenon
      <4>4. n = 1
        BY <4>3, SMT
      <4> QED
        BY <3>0, <4>2, <4>4
    <3>2. i \in DOMAIN sources[r]
      BY <2>1, <3>1
    <3>3. inspected' = [inspected EXCEPT ![r] = @ \union {i}] /\ Proceed(r, Event("inspect", "ok", {i}))
      BY <2>3, <3>2 DEF Inspect
    <3>4. i \in inspected'[r]
      BY <3>3 DEF Types
    <3>5. /\ Event("inspect", "ok", {i}) \in Events
          /\ Event("inspect", "ok", {i}).tool = "inspect" /\ Event("inspect", "ok", {i}).ids = {i}
      BY EventType DEF Event
    <3> DEFINE e == Event("inspect", "ok", {i})
    <3>6. \E k \in inspected'[r] : e.ids = {k}
      BY <3>4, <3>5
    <3> HIDE DEF e
    <3>7. e \in Events /\ e.tool = "inspect" /\ Proceed(r, e)
      BY <3>3, <3>5 DEF e
    <3>8. Len(trace[r]) <= 1 /\ Len(trace[r]) # 0
      BY <3>1
    <3> QED
      BY <1>2, <2>1, <3>6, <3>7, <3>8, ProceedScript
  <2> QED
    BY <1>2, <2>2, <2>3 DEF RunTool, Unpermitted, UnnameableTool
<1> QED
  BY <1>1, <1>2

\* The ways to number hits give each its own id, and none to a known one.
LEMMA NumberingsDistinct ==
    ASSUME Types, NEW r \in Requests, NEW hits \in SUBSET Excerpts,
           NEW added \in Numberings(r, hits)
    PROVE  /\ \A i, j \in DOMAIN added : added[i] = added[j] => i = j
           /\ \A i \in DOMAIN added : added[i] \notin Known(r)
<1>1. PICK kept \in SUBSET New(r, hits) :
         /\ added \in [1..Cardinality(kept) -> kept]
         /\ \A x \in kept : \E i \in DOMAIN added : added[i] = x
  BY Zenon DEF Numberings
<1>2. IsFiniteSet(kept) /\ Cardinality(kept) \in Nat
  BY FS_Subset, FS_CardinalityType, CompanionAssumption DEF New
<1>3. IsFiniteSet(1..Cardinality(kept)) /\ Cardinality(1..Cardinality(kept)) = Cardinality(kept)
  BY <1>2, FS_Interval
<1>4. added \in Surjection(1..Cardinality(kept), kept)
  BY <1>1 DEF Surjection
<1>5. added \in Injection(1..Cardinality(kept), kept)
  BY <1>3, <1>4, FS_Surjection
<1>6. \A i, j \in DOMAIN added : added[i] = added[j] => i = j
  BY <1>1, <1>5 DEF Injection, IsInjective
<1>7. \A i \in DOMAIN added : added[i] \in New(r, hits)
  BY <1>1
<1> QED
  BY <1>6, <1>7 DEF New

\* What retrieval answers, or that it fails.
LEMMA RetrieveContract ==
    ASSUME Types, Retained, NEW r \in Requests, Retrieve(r), Contract(r)
    PROVE  /\ Contract(r)'
           /\ Script(r) /\ MaxModelRounds >= 3 => Script(r)'
<1> USE CompanionAssumption
<1>0. /\ pc[r] = "search" /\ reply[r] = NoReply /\ UNCHANGED <<calls, todo, inspected>>
      /\ calls'[r] = Len(trace[r]) + 1 /\ calls'[r] + todo'[r] <= MaxToolCalls
      /\ calls'[r] \in Nat /\ todo'[r] \in Nat
  BY DEF Retrieve, SearchFails, SearchReturns, Contract, Types, evidence
<1>1. ASSUME NEW e \in Events, Proceed(r, e), e.tool = "search", e.ids \subseteq DOMAIN sources'[r],
             inspected'[r] \subseteq DOMAIN sources'[r],
             \A i, j \in DOMAIN sources'[r] : sources'[r][i] = sources'[r][j] => i = j
      PROVE  /\ Contract(r)'
             /\ Script(r) /\ MaxModelRounds >= 3 => Script(r)'
  <2>1. Contract(r)'
    BY <1>0, <1>1, ProceedContract
  <2>2. CASE mode[r] = "live"
    <3>1. mode' = mode
      BY <1>1 DEF Proceed, Respond, Leave, gateway
    <3> QED
      BY <2>1, <2>2, <3>1 DEF Script
  <2>3. ASSUME mode[r] = "demo", Script(r), MaxModelRounds >= 3
        PROVE  Script(r)'
    <3>1. /\ todo'[r] = 0 /\ Len(trace[r]) = 0 /\ rounds[r] = Len(trace[r]) + 1
      BY <1>0, <2>3 DEF Script, Busies
    <3>2. Len(trace[r]) <= 1 /\ Len(trace[r]) # 1
      BY <3>1
    <3> QED
      BY <1>1, <2>3, <3>1, <3>2, ProceedScript
  <2> QED
    BY <2>1, <2>2, <2>3 DEF Types
<1>2. CASE SearchFails(r)
  <2> DEFINE e == Event("search", "error", {})
  <2>1. e \in Events /\ e.tool = "search" /\ e.ids = {}
    BY EventType DEF Event
  <2>2. Proceed(r, e) /\ UNCHANGED evidence
    BY <1>2 DEF SearchFails
  <2>3. /\ inspected'[r] \subseteq DOMAIN sources'[r]
        /\ \A i, j \in DOMAIN sources'[r] : sources'[r][i] = sources'[r][j] => i = j
    BY <2>2 DEF Contract, evidence
  <2> HIDE DEF e
  <2> QED
    BY <1>1, <2>1, <2>2, <2>3
<1>3. ASSUME NEW hits \in SUBSET Excerpts, SearchReturns(r, hits)
      PROVE  /\ Contract(r)'
             /\ Script(r) /\ MaxModelRounds >= 3 => Script(r)'
  <2> DEFINE found == {i \in DOMAIN sources'[r] : sources'[r][i] \in hits}
  <2> DEFINE e == Event("search", "ok", found)
  <2>1. PICK added \in Numberings(r, hits) : sources' = [sources EXCEPT ![r] = @ \o added]
    BY <1>3 DEF SearchReturns
  <2>2. /\ sources'[r] = sources[r] \o added
        /\ sources[r] \in Seq(Excerpts) /\ Len(sources[r]) \in Nat
        /\ added \in Seq(Excerpts) /\ Len(added) \in Nat
        /\ Len(sources[r] \o added) <= MaxSources
    <3>1. /\ added \in Seq(Excerpts)
          /\ Len(sources[r] \o added) <= MaxSources
      BY <2>1, NumberingsEffect
    <3> QED
      BY <2>1, <3>1 DEF Types
  <2>3. /\ Len(sources'[r]) = Len(sources[r]) + Len(added)
        /\ DOMAIN sources'[r] = 1..(Len(sources[r]) + Len(added))
        /\ DOMAIN sources[r] = 1..Len(sources[r]) /\ DOMAIN added = 1..Len(added)
        /\ \A i \in DOMAIN sources[r] : sources'[r][i] = sources[r][i]
        /\ \A i \in DOMAIN sources'[r] \ DOMAIN sources[r] :
              i - Len(sources[r]) \in DOMAIN added /\ sources'[r][i] = added[i - Len(sources[r])]
    BY <2>2
  <2>4. found \in SUBSET Ids
    BY <2>2, <2>3 DEF Ids
  <2>5. e \in Events /\ e.tool = "search" /\ e.ids = found
    BY <2>4, EventType DEF Event
  <2>6. Proceed(r, e)
    BY <1>3 DEF SearchReturns
  <2>7. inspected'[r] \subseteq DOMAIN sources'[r]
    BY <1>0, <2>2, <2>3 DEF Contract
  <2>8. ASSUME NEW i \in DOMAIN sources'[r], NEW j \in DOMAIN sources'[r],
               sources'[r][i] = sources'[r][j]
        PROVE  i = j
    <3>1. \A k \in DOMAIN sources[r] : sources'[r][k] \in Known(r)
      BY <2>3 DEF Known
    <3>2. \A k \in DOMAIN sources'[r] \ DOMAIN sources[r] : sources'[r][k] \notin Known(r)
      BY <2>1, <2>3, NumberingsDistinct
    <3>3. CASE i \in DOMAIN sources[r]
      BY <2>3, <2>8, <3>1, <3>2, <3>3 DEF Contract
    <3>4. CASE i \notin DOMAIN sources[r]
      <4>1. j \notin DOMAIN sources[r]
        BY <2>8, <3>1, <3>2, <3>4
      <4>3. /\ i - Len(sources[r]) \in DOMAIN added /\ j - Len(sources[r]) \in DOMAIN added
            /\ added[i - Len(sources[r])] = added[j - Len(sources[r])]
        BY <2>3, <2>8, <3>4, <4>1
      <4>2. i - Len(sources[r]) = j - Len(sources[r])
        BY <2>1, <4>3, NumberingsDistinct
      <4> QED
        BY <2>2, <2>3, <4>2
    <3> QED
      BY <3>3, <3>4
  <2>9. e.ids \subseteq DOMAIN sources'[r]
    BY <2>5
  <2> HIDE DEF e, found
  <2> QED
    BY <1>1, <2>5, <2>6, <2>7, <2>8, <2>9
<1> QED
  BY <1>2, <1>3 DEF Retrieve

\* A request that was not made yet keeps both.
LEMMA ContractInit == Init => ContractInv /\ ScriptInv
BY CompanionAssumption DEF Init, ContractInv, ScriptInv, Contract, Script, NoReply, Reply, Busies

\* Every step keeps every request to its contract, and the demo to its script.
LEMMA ContractStep ==
    ASSUME CompanionInv, ContractInv, [Next]_vars
    PROVE  /\ ContractInv'
           /\ ScriptInv /\ MaxModelRounds >= 3 /\ MaxToolCalls >= 2 => ScriptInv'
<1> DEFINE Enough == ScriptInv /\ MaxModelRounds >= 3 /\ MaxToolCalls >= 2
<1> DEFINE Kept(r) == Contract(r)' /\ (Enough => Script(r)')
<1>0. /\ Types /\ Retained /\ Admission
      /\ \A r \in Requests : Contract(r) /\ (ScriptInv => Script(r))
  BY DEF CompanionInv, ContractInv, ScriptInv
<1>1. ASSUME NEW r \in Requests, OthersKeep(r), Kept(r)
      PROVE  \A q \in Requests : Kept(q)
  BY <1>0, <1>1, OthersFine
<1>2. ASSUME NEW r \in Requests, NEW m \in {"demo", "live"}, NEW hasKey \in BOOLEAN,
             Ask(r, m, hasKey)
      PROVE  \A q \in Requests : Kept(q)
  <2>1. rounds[r] = 0
    BY <1>0, <1>2 DEF Ask, Admission
  <2>2. OthersKeep(r)
    BY <1>0, <1>2, StepOwn
  <2>3. Contract(r)' /\ (Script(r) => Script(r)')
    BY <1>0, <1>2, <2>1, AskContract
  <2> QED
    BY <1>0, <1>1, <2>2, <2>3
<1>3. ASSUME NEW r \in Requests, Decide(r)
      PROVE  \A q \in Requests : Kept(q)
  <2>1. OthersKeep(r)
    BY <1>0, <1>3, StepOwn
  <2>2. Kept(r)
    BY <1>0, <1>3, DecideContract, DecideScript
  <2> QED
    BY <1>1, <2>1, <2>2
<1>4. ASSUME NEW r \in Requests, RunTool(r)
      PROVE  \A q \in Requests : Kept(q)
  <2>1. OthersKeep(r)
    BY <1>0, <1>4, StepOwn
  <2>2. Kept(r)
    BY <1>0, <1>4, RunToolContract, RunToolScript
  <2> QED
    BY <1>1, <2>1, <2>2
<1>5. ASSUME NEW r \in Requests, Retrieve(r)
      PROVE  \A q \in Requests : Kept(q)
  <2>1. OthersKeep(r)
    BY <1>0, <1>5, StepOwn
  <2>2. Kept(r)
    BY <1>0, <1>5, RetrieveContract
  <2> QED
    BY <1>1, <2>1, <2>2
<1>6. ASSUME NEW r \in Requests, Deadline(r)
      PROVE  \A q \in Requests : Kept(q)
  <2>1. OthersKeep(r)
    BY <1>0, <1>6, StepOwn
  <2>2. Kept(r)
    BY <1>0, <1>6, DeadlineContract
  <2> QED
    BY <1>1, <2>1, <2>2
<1>7. ASSUME Startup \/ UNCHANGED vars
      PROVE  \A q \in Requests : Kept(q)
  BY <1>0, <1>7 DEF Startup, vars, gateway, evidence, Contract, Script
<1>8. \A q \in Requests : Kept(q)
  BY <1>2, <1>3, <1>4, <1>5, <1>6, <1>7, Zenon DEF Next, Quiet
<1> QED
  BY <1>8 DEF ContractInv, ScriptInv

\* What the contract of every request says of the answers.
LEMMA ContractMeets ==
    ASSUME CompanionInv, ContractInv
    PROVE  AppAcceptsAnswer /\ OneIdPerExcerpt
<1>1. ASSUME NEW r \in Requests, reply[r].code = "200"
      PROVE  calls[r] <= MaxToolCalls /\ rounds[r] <= MaxModelRounds
  <2>1. calls[r] \in Nat /\ todo[r] \in Nat /\ calls[r] + todo[r] <= MaxToolCalls
    BY DEF CompanionInv, Types, ContractInv, Contract
  <2>2. rounds[r] \in 0..MaxModelRounds
    BY DEF CompanionInv, Types
  <2> QED
    BY <2>1, <2>2, CompanionAssumption
<1>2. AppAcceptsAnswer
  BY <1>1 DEF AppAcceptsAnswer, CompanionInv, Retained, ContractInv, Contract
<1>3. OneIdPerExcerpt
  BY DEF OneIdPerExcerpt, ContractInv, Contract
<1> QED
  BY <1>2, <1>3

\* Whatever the model asks for, every answer is one the mobile app takes, and an
\* excerpt keeps one id: for any limits.
THEOREM AppAccepts == Spec => [](AppAcceptsAnswer /\ OneIdPerExcerpt)
<1> DEFINE Inv == CompanionInv /\ ContractInv
<1>1. Init => Inv
  BY InvInit, ContractInit
<1>2. Inv /\ [Next]_vars => Inv'
  BY InvStep, ContractStep
<1>3. Inv => AppAcceptsAnswer /\ OneIdPerExcerpt
  BY ContractMeets
<1> QED
  BY <1>1, <1>2, <1>3, PTL DEF Spec

\* The demo also keeps to its script, given the rounds and the calls that takes.
THEOREM AnswersMeet ==
    ASSUME MaxModelRounds >= 3, MaxToolCalls >= 2
    PROVE  Spec => []AnswersMeetContract
<1> DEFINE Inv == CompanionInv /\ ContractInv /\ ScriptInv
<1>1. Init => Inv
  BY InvInit, ContractInit
<1>2. Inv /\ [Next]_vars => Inv'
  BY InvStep, ContractStep
<1>3. Inv => AppAcceptsAnswer /\ OneIdPerExcerpt
  BY ContractMeets
<1>4. Inv => DemoNeverBlocked
  BY DEF ScriptInv, Script, DemoNeverBlocked
<1> QED
  BY <1>1, <1>2, <1>3, <1>4, PTL DEF Spec, AnswersMeetContract

----------------------------------------------------------------------------
(* Refinement.                                                             *)

LEMMA ServiceInit == Init => Service!Init
BY DEF Init, Service!Init, InProgress

LEMMA ServiceStep == CompanionInv /\ [Next]_vars => [Service!Next]_Service!vars
<1> SUFFICES ASSUME CompanionInv, [Next]_vars PROVE [Service!Next]_Service!vars
  OBVIOUS
<1> USE DEF CompanionInv
<1> DEFINE done == {r \in Requests : pc[r] = "done" /\ rounds[r] > 0}
<1>1. ASSUME NEW r \in Requests, Enters(r) PROVE Service!Enter(r)
  <2>1. InProgress' = InProgress \union {r} /\ r \notin InProgress
    BY <1>1, EntersAdmits
  <2>2. Cardinality(InProgress) < MaxConcurrent
    BY <1>1 DEF Enters, Admission, SlotsAccounted
  <2>3. done' = done /\ r \notin done
    <3>1. pc'[r] = "model" /\ pc[r] = "new"
      BY <1>1 DEF Enters, Types
    <3>2. \A q \in Requests \ {r} : pc'[q] = pc[q] /\ rounds'[q] = rounds[q]
      BY <1>1 DEF Enters, Types
    <3>3. \A q \in Requests :
              (pc'[q] = "done" /\ rounds'[q] > 0) <=> (pc[q] = "done" /\ rounds[q] > 0)
      BY <3>1, <3>2
    <3>4. done' = done
      BY <3>3
    <3>5. r \notin done
      BY <3>1
    <3> QED
      BY <3>4, <3>5
  <2>4. Service!Cardinality(InProgress) = Cardinality(InProgress)
    BY DEF Service!Cardinality, Cardinality, Service!IsFiniteSet, IsFiniteSet
  <2> QED
    BY <2>1, <2>2, <2>3, <2>4 DEF Service!Enter
<1>2. ASSUME NEW r \in Requests, Leaves(r) PROVE Service!Leave(r)
  <2>1. InProgress' = InProgress \ {r} /\ r \in InProgress
    BY <1>2, LeavesAdmits
  <2>2. done' = done \union {r}
    BY <1>2 DEF Leaves, Types, Admission, Busies
  <2> QED
    BY <2>1, <2>2 DEF Service!Leave
<1>3. ASSUME NEW r \in Requests, Moves(r) \/ TurnsAway(r) PROVE UNCHANGED Service!vars
  <2>1. InProgress' = InProgress
    BY <1>3, MovesAdmits, TurnsAwayAdmits
  <2>2. CASE Moves(r)
    <3>1. done' = done
      BY <2>2 DEF Moves, Types, Busies
    <3> QED
      BY <2>1, <3>1 DEF Service!vars
  <2>3. CASE TurnsAway(r)
    <3>1. done' = done
      BY <2>3 DEF TurnsAway, Types, Admission
    <3> QED
      BY <2>1, <3>1 DEF Service!vars
  <2> QED
    BY <1>3, <2>2, <2>3
<1>4. CASE Starts \/ Idles
  BY <1>4 DEF Starts, Idles, Service!vars, InProgress
<1> QED
  BY <1>1, <1>2, <1>3, <1>4, StepKinds DEF Service!Next

\* The gateway admits like a service of MaxConcurrent places, whatever the
\* requests do behind it.
THEOREM GatewayImplements == Spec => ImplementsBoundedService
BY ServiceInit, ServiceStep, CompanionInvariant, PTL
DEF Spec, ImplementsBoundedService, Service!Spec
=============================================================================
