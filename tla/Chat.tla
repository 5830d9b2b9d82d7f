-------------------------------- MODULE Chat --------------------------------
(* One chat request: the AgentWorkflow of                                    *)
(* src/app/engine/agents/multi_agent_workflow.py from init_run to achat's    *)
(* answer.  A round is one take_step of the current agent; the tool calls it *)
(* asks for run concurrently and are aggregated by count.  Messages are      *)
(* named by the round, results by the call <<round, index>>.                 *)
(*                                                                           *)
(* Among the tools is PythonExecTool.execute_code                            *)
(* (src/app/engine/tools/python_exec.py).  It is a synchronous function, so  *)
(* every call runs in a worker thread; contextlib.redirect_stdout replaces   *)
(* sys.stdout, which the whole process shares, and two calls of one round    *)
(* may overlap.                                                              *)
EXTENDS Naturals, Sequences, FiniteSets, SequencesExt

CONSTANTS
    Agents, RootAgent,     \* AgentWorkflow.agents, root_agent
    HandoffTo,             \* [Agents -> SUBSET Agents]: can_handoff_to
    ToolsOf,               \* [Agents -> set of tool names]
    ExecTool,              \* the name of the Python execution tool
    DirectTools,           \* tools created with return_direct
    Names,                 \* tool names a model may ask for
    Targets,               \* agent names a model may hand over to
    None,
    RealOut,               \* the process's own standard output
    MaxCalls               \* bound: for each round of a request, its most calls

Handoff == "handoff"

ASSUME ChatAssumption ==
    /\ RootAgent \in Agents /\ None \notin Agents
    /\ HandoffTo \in [Agents -> SUBSET Agents]
    /\ \A a \in Agents : Handoff \notin ToolsOf[a]
    /\ RealOut \notin Nat \X (Nat \ {0})

VARIABLES
    phase,        \* which event of the workflow is in flight
    round,        \* rounds begun
    current,      \* ctx current_agent_name
    nextAgent,    \* ctx next_agent: set by the handoff tool, never cleared
    calls,        \* the tool calls of the last agent output
    waiting, running,   \* ToolCall events to take; call_tool steps under way
    arrived,      \* ToolCallResult events collected, in order of arrival
    scratch, memory,    \* the agent's scratchpad; the chat memory
    tracked,      \* ctx current_tool_calls
    shown,        \* rounds whose text was streamed to achat
    result,       \* what the StopEvent carries
    stdout,       \* sys.stdout: RealOut or the run whose buffer it is
    saved,        \* the runs in progress, each with the stream it will restore
    captured,     \* run -> the runs whose prints landed in its buffer
    printed, met  \* runs that printed, that overlapped another one (history)

wfVars == <<phase, round, current, nextAgent, calls, waiting, running, arrived,
            scratch, memory, tracked, shown, result>>
execVars == <<stdout, saved, captured, printed, met>>
chatVars == <<wfVars, execVars>>

----------------------------------------------------------------------------
(* execute_code.                                                             *)
ExecInit == /\ stdout = RealOut
            /\ saved = <<>>
            /\ captured = <<>>
            /\ printed = {} /\ met = {}

Extend(f, x, v) == [y \in DOMAIN f \union {x} |-> IF y = x THEN v ELSE f[y]]
Without(f, x) == [y \in DOMAIN f \ {x} |-> f[y]]

(* redirect_stdout.__enter__: remember the current stream, install a buffer. *)
EnterRun(r) ==
    /\ saved' = Extend(saved, r, stdout)
    /\ stdout' = r
    /\ captured' = Extend(captured, r, {})
    /\ met' = IF DOMAIN saved = {} THEN met
              ELSE met \union DOMAIN saved \union {r}
    /\ UNCHANGED printed

(* The executed code prints: into whichever buffer is installed now.         *)
PrintIn(r) ==
    /\ r \in DOMAIN saved
    /\ captured' = IF stdout = RealOut THEN captured
                   ELSE [captured EXCEPT ![stdout] = @ \union {r}]
    /\ printed' = printed \union {r}
    /\ UNCHANGED <<stdout, saved, met>>

(* Mutant: standard output is not restored.                                 *)
StaysRedirected(r) ==
    /\ saved' = Without(saved, r)
    /\ UNCHANGED <<stdout, captured, printed, met>>

(* __exit__: put back what was remembered; the buffer becomes result.output. *)
LeaveRun(r) ==
    /\ stdout' = saved[r]
    /\ saved' = Without(saved, r)
    /\ UNCHANGED <<captured, printed, met>>

----------------------------------------------------------------------------
(* Messages and results; calls for a handoff and for a direct tool at once   *)
(* are told apart.                                                           *)
Mixed(cs) == \E i, j \in DOMAIN cs : cs[i].tool = Handoff /\ cs[j].tool \in DirectTools
Asks(r, cs) == [role |-> IF Mixed(cs) THEN "mixed" ELSE "asks", round |-> r, n |-> Len(cs)]
Tells(r) == [role |-> "text", round |-> r, n |-> 0]
ResultOf(r, i) == [role |-> "result", round |-> r, n |-> i]
NoResult == [from |-> None, text |-> <<>>, calls |-> <<>>]

(* get_tools / _get_handoff_tool: the handoff tool exists when there is      *)
(* another agent this one may hand over to.                                  *)
HandoffTargets(a) == (Agents \ {a}) \intersect HandoffTo[a]
GetTools(a) == ToolsOf[a] \union (IF HandoffTargets(a) # {} THEN {Handoff} ELSE {})

(* ToolMetadata.return_direct of a tool the agent has; FALSE if it has not.  *)
ReturnsDirect(a, tool) == tool \in GetTools(a) /\ tool \in DirectTools \union {Handoff}

(* Mutant: the list of agents that may be handed over to is not read.       *)
HandoffUnchecked(a, target) == target # None

(* handoff: the target must exist and be one this agent may hand over to.    *)
HandoffAllowed(a, target) == target \in Agents /\ target \in HandoffTo[a]

ChatInit ==
    /\ phase = "input" /\ round = 0
    /\ current = RootAgent /\ nextAgent = None
    /\ calls = <<>> /\ waiting = {} /\ running = {} /\ arrived = <<>>
    /\ scratch = <<>> /\ memory = <<[role |-> "user", round |-> 0, n |-> 0]>>
    /\ tracked = <<>> /\ shown = <<>> /\ result = NoResult
    /\ ExecInit

(* setup_agent and run_agent_step: the model sees memory and scratchpad and  *)
(* answers with text or with calls; its output goes onto the scratchpad.     *)
Requests == {c \in [tool : Names, target : Targets \union {None}] :
                c.target = None <=> c.tool # Handoff}

RunAgentStep ==
    /\ phase = "input" /\ round < Len(MaxCalls)
    /\ \E n \in 0 .. MaxCalls[round + 1] : \E cs \in [1 .. n -> Requests] : \E speaks \in BOOLEAN :
         /\ calls' = cs
         /\ scratch' = Append(scratch, IF n = 0 THEN Tells(round + 1)
                                       ELSE Asks(round + 1, cs))
         /\ shown' = IF speaks THEN Append(shown, <<round + 1, 0>>) ELSE shown
    /\ round' = round + 1
    /\ phase' = "output"
    /\ UNCHANGED <<current, nextAgent, waiting, running, arrived, memory, tracked,
                   result, execVars>>

(* take_step raises: the workflow stops with an empty StopEvent.             *)
AgentStepFails ==
    /\ phase = "input"
    /\ phase' = "stopped"
    /\ UNCHANGED <<round, current, nextAgent, calls, waiting, running, arrived,
                   scratch, memory, tracked, shown, result, execVars>>

(* parse_agent_output: without calls the run is finalized and stops; with    *)
(* calls one ToolCall event is sent for each.                                *)
ParseAgentOutput ==
    /\ phase = "output"
    /\ IF calls = <<>>
       THEN /\ memory' = memory \o scratch
            /\ scratch' = <<>>
            /\ result' = [from |-> current, text |-> <<<<round, 0>>>>, calls |-> tracked]
            /\ tracked' = <<>>
            /\ phase' = "stopped"
            /\ UNCHANGED waiting
       ELSE /\ waiting' = DOMAIN calls
            /\ phase' = "tools"
            /\ UNCHANGED <<memory, scratch, result, tracked>>
    /\ UNCHANGED <<round, current, nextAgent, calls, running, arrived, shown, execVars>>

(* call_tool, up to the call: an unknown tool is answered with an error.     *)
StartCall(i) ==
    /\ phase = "tools" /\ i \in waiting
    /\ waiting' = waiting \ {i}
    /\ IF calls[i].tool \in GetTools(current)
       THEN /\ running' = running \union {i}
            /\ IF calls[i].tool = ExecTool THEN EnterRun(<<round, i>>)
                                           ELSE UNCHANGED execVars
            /\ UNCHANGED arrived
       ELSE /\ arrived' = Append(arrived, i)
            /\ UNCHANGED <<running, execVars>>
    /\ UNCHANGED <<phase, round, current, nextAgent, calls, scratch, memory, tracked,
                   shown, result>>

CodePrints(i) ==
    /\ i \in running /\ PrintIn(<<round, i>>)
    /\ UNCHANGED wfVars

(* _call_tool returns: success and failure both yield a ToolCallResult.  The *)
(* handoff tool records the wish when it is allowed.                         *)
FinishCall(i) ==
    /\ i \in running
    /\ running' = running \ {i}
    /\ arrived' = Append(arrived, i)
    /\ IF calls[i].tool = ExecTool THEN LeaveRun(<<round, i>>) ELSE UNCHANGED execVars
    /\ nextAgent' = IF calls[i].tool = Handoff /\ HandoffAllowed(current, calls[i].target)
                    THEN calls[i].target ELSE nextAgent
    /\ UNCHANGED <<phase, round, current, calls, waiting, scratch, memory, tracked,
                   shown, result>>

(* Mutant: the first result is taken for all of them.                       *)
CollectedFirst == arrived # <<>>

(* collect_events: complete once as many results arrived as were asked for.  *)
Collected == Len(arrived) = Len(calls)

(* The results in the order they arrived; the first direct one ends the list *)
(* the external handle_tool_call_results writes, unless it is a handoff.     *)
First(S) == CHOOSE k \in S : \A j \in S : k <= j
Direct == {k \in DOMAIN arrived : ReturnsDirect(current, calls[arrived[k]].tool)}
Ending == {k \in Direct : calls[arrived[k]].tool # Handoff}
Handled == IF Ending = {} THEN arrived ELSE SubSeq(arrived, 1, First(Ending))

(* aggregate_tool_results.                                                   *)
AggregateToolResults ==
    /\ phase = "tools" /\ Collected
    /\ LET ids == [k \in DOMAIN arrived |-> <<round, arrived[k]>>]
           pad == scratch \o [k \in DOMAIN Handled |-> ResultOf(round, Handled[k])]
           stop == Direct # {} /\ First(Direct) \in Ending
       IN /\ memory' = IF Direct # {} THEN memory \o pad ELSE memory
          /\ scratch' = IF Direct # {} THEN <<>> ELSE pad
          /\ tracked' = IF stop THEN <<>> ELSE tracked \o ids
          /\ result' = IF stop THEN [from |-> current, calls |-> tracked \o ids,
                                     text |-> <<<<round, arrived[First(Direct)]>>>>]
                       ELSE result
          /\ phase' = IF stop THEN "stopped" ELSE "input"
    /\ current' = IF nextAgent # None THEN nextAgent ELSE current
    /\ arrived' = <<>>
    /\ UNCHANGED <<round, nextAgent, calls, waiting, running, shown, execVars>>

(* achat: the streamed text of every round, else the text of the result.     *)
Answer == IF shown # <<>> THEN shown ELSE result.text

ChatStep ==
    \/ RunAgentStep \/ AgentStepFails \/ ParseAgentOutput
    \/ \E i \in DOMAIN calls : StartCall(i) \/ CodePrints(i) \/ FinishCall(i)
    \/ AggregateToolResults
=============================================================================
