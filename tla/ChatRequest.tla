---------------------------- MODULE ChatRequest -----------------------------
(* POST /api/chat (src/app/api/routers/chat.py): the workflow runs to its    *)
(* answer, then the answer and the events queued meanwhile are streamed.     *)
EXTENDS Chat, ChatStream

CONSTANT MaxEvents      \* bound: callback events during the run

VARIABLE emitted        \* the events that have a message, in order (history)

requestVars == <<chatVars, streamVars, emitted>>

Init == ChatInit /\ StreamInit /\ emitted = <<>>

Workflow == /\ closed = "idle" /\ ChatStep
            /\ UNCHANGED <<streamVars, emitted>>

(* A retrieval or tool event of the framework reaches the handler while a    *)
(* tool runs.                                                                *)
CallbackEvent ==
    /\ phase = "tools" /\ running # {} /\ Len(emitted) < MaxEvents
    /\ \E hasMessage \in BOOLEAN :
         LET e == [kind |-> "event", n |-> Len(emitted) + 1]
         IN /\ OnEvent(e, hasMessage)
            /\ emitted' = IF hasMessage THEN Append(emitted, e) ELSE emitted
    /\ UNCHANGED chatVars

(* chat(): achat has returned; a failed workflow returns what was streamed.  *)
Respond ==
    /\ phase = "stopped"
    /\ StreamBegins([k \in DOMAIN Answer |-> [kind |-> "text", n |-> Answer[k]]])
    /\ UNCHANGED <<chatVars, emitted>>

Streaming == StreamStep /\ UNCHANGED <<chatVars, emitted>>

Next == Workflow \/ CallbackEvent \/ Respond \/ Streaming

Spec == Init /\ [][Next]_requestVars /\ WF_requestVars(Respond) /\ StreamFairness

(* An assistant message asking for n tools is followed by exactly its n      *)
(* results whenever the model is asked again, whatever the order in which    *)
(* the concurrent calls returned, who is in control, and which of them was a *)
(* handoff: aggregate_tool_results, handle_tool_call_results, finalize.  Not *)
(* so when a handoff and a direct tool were asked for at once: if the        *)
(* handoff returns first the run goes on, without the results that came      *)
(* after the direct one.                                                     *)
ResultsFollowAsks ==
    phase = "input" =>
        LET prompt == memory \o scratch
        IN \A k \in DOMAIN prompt : prompt[k].role = "asks" =>
             LET r == prompt[k].round  n == prompt[k].n
             IN /\ k + n <= Len(prompt)
                /\ {prompt[k + j] : j \in 1 .. n} = {ResultOf(r, i) : i \in 1 .. n}
                /\ \A j \in DOMAIN prompt \ (k .. k + n) : prompt[j].round # r

(* Control changes hands only to an agent that a handoff call of this very   *)
(* round named and the agent in control may hand over to: next_agent is kept *)
(* in the context and applied at every aggregation (lines 536-539).          *)
ControlMovesByHandoff ==
    [][current' # current =>
         \E i \in DOMAIN calls : /\ calls[i].tool = Handoff
                                 /\ calls[i].target = current'
                                 /\ current' \in HandoffTo[current]]_requestVars

(* A stream that ends in order carried every event that was queued, in its   *)
(* order, and the whole answer after the sources; one that breaks off sent   *)
(* a prefix of each.                                                         *)
Sent(kind, j) == Cardinality({i \in 1 .. j : out[i].kind = kind})
InOrder(kind, wanted) ==
    \A j \in {j \in DOMAIN out : out[j].kind = kind} :
        Sent(kind, j) \in DOMAIN wanted /\ out[j].n = wanted[Sent(kind, j)]
StreamedWhole ==
    /\ InOrder("event", [k \in DOMAIN emitted |-> emitted[k].n]) /\ InOrder("text", Answer)
    /\ closed = "ended" =>
         /\ Sent("event", Len(out)) = Len(emitted)
         /\ Sent("text", Len(out)) = Len(Answer)
         /\ Sent("sources", Len(out)) = 1
         /\ \A j \in DOMAIN out : out[j].kind = "text" => Sent("sources", j) = 1

(* A Python run that overlapped no other captured what it printed and        *)
(* nothing else, even after earlier runs that did overlap; and as long as no *)
(* two runs met, the process has its standard output back between them.      *)
AloneCapturesOwn ==
    /\ \A r \in DOMAIN captured \ met : captured[r] = {r} \intersect printed
    /\ DOMAIN saved = {} /\ met = {} => stdout = RealOut

(* Every started stream finishes: the event generator outlives the answer    *)
(* only until its queue is empty.                                            *)
EveryAnswerEnds == [](closed = "open" => <>(closed # "open"))
=============================================================================
