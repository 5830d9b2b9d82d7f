------------------------------ MODULE MobileApp ------------------------------
(* The companion app (src/mobile/src): App.tsx with its one busy flag and    *)
(* operation counter, the ResearchAgent panel with a counter and an effect   *)
(* of its own, and the library kept in localStorage.  Answers arrive while   *)
(* the user goes on typing, changes the connections or closes the app.       *)
EXTENDS Naturals, Sequences, FiniteSets, SequencesExt

CONSTANTS Texts,        \* what the user may type into either field
          Starter,      \* what both fields hold when the app opens
          Services,     \* the configurations of the services that validate
          Items,        \* ids of the excerpts and reports one may save
          Capacity,     \* the library's limit (100)
          MaxEdits,     \* bound: edits and changes of the settings
          MaxRuns,      \* bound: requests of the app and of the panel
          None

ASSUME MobileAssumption ==
    /\ None \notin {"research", "soccer", "health"}
    /\ Starter \in Texts /\ {MaxRuns, MaxEdits, Capacity} \subseteq Nat

VARIABLES
    settings, query, matchText,   \* state of App
    operation,    \* operation.current of App
    busy,         \* None, "research", "soccer" or "health"
    flight,       \* requests under way, each with what it was sent
    research, soccer,             \* the results shown
    saved, stored,                \* savedRef.current; localStorage
    agentOp, agentBusy, agentFlight, agentResult,   \* the panel's own
    agentSeen,    \* the dependencies its effect last ran for
    edits         \* counts the bounded actions

appVars == <<settings, query, matchText, operation, busy, flight, research, soccer>>
libVars == <<saved, stored>>
panelVars == <<agentOp, agentBusy, agentFlight, agentResult, agentSeen>>
vars == <<appVars, libVars, panelVars, edits>>

Deps == <<query, settings>>           \* [question, offline, url]
NoResult == [text |-> None, from |-> None]

Init == /\ settings \in Services /\ query = Starter /\ matchText = Starter
        /\ operation = 0 /\ busy = None /\ flight = {}
        /\ research = NoResult /\ soccer = NoResult
        /\ agentOp = 0 /\ agentBusy = FALSE /\ agentFlight = {}
        /\ agentResult = NoResult /\ agentSeen = Deps
        /\ saved = <<>> /\ stored = <<>> /\ edits = 0

Bounded == edits < MaxEdits /\ edits' = edits + 1

(* React runs the effects of a click or a key before it handles the next     *)
(* one; answers of the network may come in between.                          *)
Rendered == agentSeen = Deps

(* The text fields stay enabled while a request is under way.                *)
EditQuery(t) ==
    /\ Rendered /\ Bounded /\ t # query /\ query' = t
    /\ UNCHANGED <<settings, matchText, operation, busy, flight, research, soccer,
                   libVars, panelVars>>

EditMatch(t) ==
    /\ Bounded /\ t # matchText /\ matchText' = t /\ soccer' = NoResult
    /\ UNCHANGED <<settings, query, operation, busy, flight, research, libVars,
                   panelVars>>

Request(kind, text) == [id |-> operation + 1, kind |-> kind, text |-> text,
                        from |-> settings]

(* runResearch, from the form or from a starter question.                    *)
RunResearch(t) ==
    /\ Rendered /\ busy = None /\ operation < MaxRuns
    /\ operation' = operation + 1 /\ busy' = "research"
    /\ query' = t /\ research' = NoResult
    /\ flight' = flight \union {Request("research", t)}
    /\ UNCHANGED <<settings, matchText, soccer, libVars, panelVars, edits>>

RunSoccer ==
    /\ busy = None /\ operation < MaxRuns
    /\ operation' = operation + 1 /\ busy' = "soccer" /\ soccer' = NoResult
    /\ flight' = flight \union {Request("soccer", matchText)}
    /\ UNCHANGED <<settings, query, matchText, research, libVars, panelVars, edits>>

(* An answer or an error (the timeout of requestJson is one): shown only if  *)
(* no later operation began.                                                 *)
Current(r) == r.id = operation
(* Mutant: a failure leaves the app busy.                                   *)
ErrorKeepsBusy(r) ==
    /\ r \in flight /\ flight' = flight \ {r}
    /\ \E ok \in BOOLEAN :
         LET shown == IF ok THEN [text |-> r.text, from |-> r.from] ELSE NoResult
         IN /\ research' = IF Current(r) /\ r.kind = "research" THEN shown ELSE research
            /\ soccer' = IF Current(r) /\ r.kind = "soccer" THEN shown ELSE soccer
            /\ busy' = IF Current(r) /\ ok THEN None ELSE busy
    /\ UNCHANGED <<settings, query, matchText, operation, libVars, panelVars, edits>>

Settle(r) ==
    /\ r \in flight /\ flight' = flight \ {r}
    /\ \E ok \in BOOLEAN :
         LET shown == IF ok THEN [text |-> r.text, from |-> r.from] ELSE NoResult
         IN /\ research' = IF Current(r) /\ r.kind = "research" THEN shown ELSE research
            /\ soccer' = IF Current(r) /\ r.kind = "soccer" THEN shown ELSE soccer
    /\ busy' = IF Current(r) THEN None ELSE busy
    /\ UNCHANGED <<settings, query, matchText, operation, libVars, panelVars, edits>>

(* checkConnections probes the draft; it takes no operation number.          *)
CheckConnections ==
    /\ busy = None /\ Bounded /\ busy' = "health"
    /\ UNCHANGED <<settings, query, matchText, operation, flight, research, soccer,
                   libVars, panelVars>>
HealthAnswers ==
    /\ busy = "health" /\ busy' = None
    /\ UNCHANGED <<settings, query, matchText, operation, flight, research, soccer,
                   libVars, panelVars, edits>>

(* applySettings: a draft that does not validate, or that cannot be stored,  *)
(* changes nothing.  The panel's key holds mode and url: it is remounted,    *)
(* and the old instance's cleanup drops its answer.                          *)
ApplySettings(s) ==
    /\ Rendered /\ busy = None /\ Bounded /\ s # settings /\ settings' = s
    /\ research' = NoResult /\ soccer' = NoResult
    /\ agentOp' = agentOp + 1 /\ agentBusy' = FALSE /\ agentResult' = NoResult
    /\ agentSeen' = <<query, s>>
    /\ UNCHANGED <<query, matchText, operation, busy, flight, libVars, agentFlight>>

(* ResearchAgent: run, its answer, and the effect React runs some time after *)
(* the render that changed its dependencies.                                 *)
RunAgent ==
    /\ Rendered /\ busy = None /\ ~agentBusy /\ agentOp < MaxRuns + MaxEdits
    /\ agentOp' = agentOp + 1 /\ agentBusy' = TRUE /\ agentResult' = NoResult
    /\ agentFlight' = agentFlight \union
           {[id |-> agentOp + 1, text |-> query, from |-> settings]}
    /\ UNCHANGED <<appVars, libVars, agentSeen, edits>>

AgentCurrent(r) == r.id = agentOp
AgentSettles(r) ==
    /\ r \in agentFlight /\ agentFlight' = agentFlight \ {r}
    /\ \E ok \in BOOLEAN :
         agentResult' = IF AgentCurrent(r) /\ ok
                        THEN [text |-> r.text, from |-> r.from] ELSE agentResult
    /\ agentBusy' = (agentBusy /\ ~AgentCurrent(r))
    /\ UNCHANGED <<appVars, libVars, agentOp, agentSeen, edits>>

(* Mutant: a new text does not count as a new operation.                    *)
EffectKeepsOperation ==
    /\ agentSeen # Deps /\ agentSeen' = Deps
    /\ agentResult' = NoResult /\ agentBusy' = FALSE
    /\ UNCHANGED <<appVars, libVars, agentOp, agentFlight, edits>>

AgentEffect ==
    /\ agentSeen # Deps /\ agentSeen' = Deps
    /\ agentOp' = agentOp + 1
    /\ agentResult' = NoResult /\ agentBusy' = FALSE
    /\ UNCHANGED <<appVars, libVars, agentFlight, edits>>

(* Mutant: off by one at the capacity.                                      *)
RefusedPastCapacity(item) == item \in ToSet(saved) \/ Len(saved) > Capacity

(* saveSource, saveMatch: once each, up to the capacity; the device may      *)
(* refuse to store, and the item is then kept for the session.  The filter   *)
(* that removes an item drops its one place in the library.                  *)
SaveRefused(item) == item \in ToSet(saved) \/ Len(saved) >= Capacity
Storable(items) == Len(items) <= Capacity
Store(items) == saved' = items /\ stored' \in {stored} \union {i \in {items} : Storable(i)}
Save(item) ==
    /\ ~SaveRefused(item) /\ Store(<<item>> \o saved)
    /\ UNCHANGED <<appVars, panelVars, edits>>
RemoveItem(item) ==
    /\ Bounded
    /\ \E i \in DOMAIN saved : saved[i] = item /\ Store(RemoveAt(saved, i))
    /\ UNCHANGED <<appVars, panelVars>>

(* The app is closed and opened again: only the storage survives; settings   *)
(* that were stored last, a library that still validates.                    *)
LoadSaved(items) == IF Storable(items) THEN items ELSE <<>>
Restart ==
    /\ Bounded
    /\ query' = Starter /\ matchText' = Starter /\ agentSeen' = <<Starter, settings>>
    /\ operation' = 0 /\ busy' = None /\ flight' = {}
    /\ research' = NoResult /\ soccer' = NoResult
    /\ agentOp' = 0 /\ agentBusy' = FALSE /\ agentFlight' = {} /\ agentResult' = NoResult
    /\ saved' = LoadSaved(stored)
    /\ UNCHANGED <<settings, stored>>

Typing == \E t \in Texts : EditQuery(t) \/ EditMatch(t) \/ RunResearch(t)
Panel == RunAgent \/ AgentEffect
Next == \/ Typing \/ RunSoccer \/ CheckConnections \/ HealthAnswers
        \/ \E r \in flight : Settle(r)
        \/ \E s \in Services : ApplySettings(s)
        \/ Panel
        \/ \E r \in agentFlight : AgentSettles(r)
        \/ \E i \in Items : Save(i) \/ RemoveItem(i)
        \/ Restart

(* Requests end by their timeout at the latest, and React runs its effects.  *)
Fairness == /\ WF_vars(\E r \in flight : Settle(r)) /\ WF_vars(HealthAnswers)
            /\ WF_vars(\E r \in agentFlight : AgentSettles(r)) /\ WF_vars(AgentEffect)
Spec == Init /\ [][Next]_vars /\ Fairness

----------------------------------------------------------------------------
(* The state has its types; the numbers of requests stay below the last.     *)
Answers == {NoResult} \union [text : Texts, from : Services]
TypeOK ==
    /\ settings \in Services /\ query \in Texts /\ matchText \in Texts
    /\ operation \in 0 .. MaxRuns /\ agentOp \in Nat /\ edits \in 0 .. MaxEdits
    /\ busy \in {None, "research", "soccer", "health"} /\ agentBusy \in BOOLEAN
    /\ flight \subseteq [id : 1 .. operation, kind : {"research", "soccer"},
                         text : Texts, from : Services]
    /\ agentFlight \subseteq [id : 1 .. agentOp, text : Texts, from : Services]
    /\ research \in Answers /\ soccer \in Answers /\ agentResult \in Answers

(* Once the panel's effect has run for what is on the screen, the agent      *)
(* answer it shows is about the question and from the service on the screen: *)
(* every answer that was asked for before an edit or a change of the         *)
(* connections is dropped, however late it arrives (ResearchAgent.tsx).      *)
AgentAnswerIsCurrent ==
    agentResult # NoResult /\ agentSeen = Deps =>
        agentResult = [text |-> query, from |-> settings]

(* What the research and match screens show came from the services that are  *)
(* configured now: applySettings waits for requests under way and clears     *)
(* both results (App.tsx).                                                   *)
ResultsOfCurrentServices ==
    \A r \in {research, soccer} : r # NoResult => r.from = settings

(* The library holds an item once, never more than the storage accepts back, *)
(* so that a restart loses nothing that was stored.                          *)
LibrarySurvives ==
    /\ IsInjective(saved) /\ Len(saved) <= Capacity
    /\ LoadSaved(stored) = stored

(* The app never stays busy: every request settles, and a panel whose        *)
(* question was edited under way is released as well.                        *)
EveryRequestSettles ==
    /\ (busy # None) ~> (busy = None)
    /\ agentBusy ~> ~agentBusy
=============================================================================
