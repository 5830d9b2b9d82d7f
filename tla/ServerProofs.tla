----------------------------- MODULE ServerProofs -----------------------------
(* Theorems about the server.  First its chat requests, for any agents,      *)
(* tools and handover lists and any number of rounds and of calls in a       *)
(* round; then its startup, beside other servers and the ingestion script,   *)
(* for any processes, starts and faults.                                     *)
(*                                                                           *)
(* CallsInv: a call is waiting, running or returned; collect_events counts   *)
(* the returned ones, so nothing runs any more when they are aggregated.     *)
(* HandInv: next_agent is the agent in control, or one a handoff call of     *)
(* this round named.  ExecInv: which stream every Python run will put back.  *)
(* TalkInv: the prompt is a sequence of finished rounds, then this one's.    *)
EXTENDS ChatRequest, Startup, FiniteSetTheorems, SequenceTheorems, TLAPS

Phases == {"input", "output", "tools", "stopped"}

\* Where the calls of the round are.
CallsInv ==
    /\ phase \in Phases /\ round \in Nat
    /\ calls \in Seq(Requests)
    /\ waiting \subseteq DOMAIN calls /\ running \subseteq DOMAIN calls
    /\ waiting \intersect running = {}
    /\ arrived \in Seq(DOMAIN calls)
    /\ IsFiniteSet(waiting) /\ IsFiniteSet(running)
    /\ waiting \union running \union Range(arrived) = DOMAIN calls \/ phase # "tools"
    /\ phase = "tools" => Cardinality(waiting) + Cardinality(running) + Len(arrived) = Len(calls)
    /\ phase # "tools" => waiting = {} /\ running = {} /\ arrived = <<>>

LEMMA CallsInit == ASSUME ChatInit PROVE CallsInv
  BY FS_EmptySet DEF ChatInit, CallsInv, Phases

\* One call more has returned.
LEMMA OneReturns ==
  ASSUME CallsInv, NEW i \in DOMAIN calls
  PROVE  /\ Append(arrived, i) \in Seq(DOMAIN calls)
         /\ Len(Append(arrived, i)) = Len(arrived) + 1
         /\ Range(Append(arrived, i)) = Range(arrived) \union {i}
<1>1. arrived \in Seq(DOMAIN calls)
  BY DEF CallsInv
<1>2. Append(arrived, i) \in Seq(DOMAIN calls) /\ Len(Append(arrived, i)) = Len(arrived) + 1
  BY <1>1, AppendProperties
<1>3. Range(Append(arrived, i)) = Range(arrived) \union {i}
  <2>1. Len(arrived) \in Nat
    BY <1>1, LenProperties
  <2>2. \A j \in 1 .. Len(arrived) : Append(arrived, i)[j] = arrived[j]
    BY <1>1, AppendProperties
  <2>3. Append(arrived, i)[Len(arrived) + 1] = i
    BY <1>1, AppendProperties
  <2>4. /\ Range(arrived) = {arrived[j] : j \in 1 .. Len(arrived)}
        /\ Range(Append(arrived, i)) = {Append(arrived, i)[j] : j \in 1 .. Len(Append(arrived, i))}
    BY <1>1, <1>2, RangeEquality
  <2>5. 1 .. Len(Append(arrived, i)) = 1 .. Len(arrived) \union {Len(arrived) + 1}
    BY <1>2, <2>1
  <2> QED
    BY <2>2, <2>3, <2>4, <2>5, Zenon
<1> QED
  BY <1>2, <1>3

LEMMA CallsStep == ASSUME CallsInv, [ChatStep]_chatVars PROVE CallsInv'
<1> USE DEF CallsInv, Phases
<1>1. CASE RunAgentStep
  <2>1. PICK n \in 0 .. MaxCalls[round + 1] : \E cs \in [1 .. n -> Requests] : calls' = cs
    BY <1>1, Zenon DEF RunAgentStep
  <2>2. calls' \in Seq(Requests)
    BY <2>1
  <2>3. arrived' = <<>> /\ <<>> \in Seq(DOMAIN calls')
    BY <1>1, EmptySeq DEF RunAgentStep
  <2> QED
    BY <1>1, <2>2, <2>3 DEF RunAgentStep
<1>2. CASE AgentStepFails
  BY <1>2 DEF AgentStepFails
<1>3. CASE ParseAgentOutput
  <2>1. CASE calls = <<>>
    BY <1>3, <2>1 DEF ParseAgentOutput
  <2>2. CASE calls # <<>>
    <3>1. waiting' = DOMAIN calls /\ phase' = "tools" /\ running' = {} /\ arrived' = <<>> /\ calls' = calls
      BY <1>3, <2>2 DEF ParseAgentOutput
    <3>2. Len(calls) \in Nat /\ DOMAIN calls = 1 .. Len(calls)
      BY LenProperties
    <3>3. IsFiniteSet(DOMAIN calls) /\ Cardinality(DOMAIN calls) = Len(calls)
      <4>1. 1 \in Int /\ Len(calls) \in Int
        BY <3>2
      <4>2. /\ IsFiniteSet(1 .. Len(calls))
            /\ Cardinality(1 .. Len(calls)) = IF 1 > Len(calls) THEN 0 ELSE Len(calls) - 1 + 1
        BY ONLY <4>1, FS_Interval, Zenon
      <4>3. Cardinality(1 .. Len(calls)) = Len(calls)
        BY <3>2, <4>2
      <4> QED
        BY <3>2, <4>2, <4>3
    <3>4. Range(arrived') = {} /\ Len(arrived') = 0
      BY <3>1 DEF Range
    <3>5. Cardinality(running') = 0 /\ IsFiniteSet(running')
      BY <3>1, FS_EmptySet
    <3>6. round' = round
      BY <1>3 DEF ParseAgentOutput
    <3> QED
      BY <3>1, <3>2, <3>3, <3>4, <3>5, <3>6
  <2> QED
    BY <2>1, <2>2
<1>4. ASSUME NEW i \in DOMAIN calls, StartCall(i) PROVE CallsInv'
  <2>1. /\ phase = "tools" /\ phase' = phase /\ i \in waiting /\ waiting' = waiting \ {i}
        /\ round' = round /\ calls' = calls
    BY <1>4 DEF StartCall
  <2>2. IsFiniteSet(waiting') /\ Cardinality(waiting') = Cardinality(waiting) - 1
    BY <2>1, FS_RemoveElement
  <2>3. /\ Cardinality(waiting) \in Nat /\ Cardinality(running) \in Nat
        /\ Len(arrived) \in Nat
    BY FS_CardinalityType, LenProperties
  <2>4. CASE running' = running \union {i} /\ arrived' = arrived
    <3>1. IsFiniteSet(running') /\ Cardinality(running') = Cardinality(running) + 1
      BY <2>1, <2>4, FS_AddElement
    <3> QED
      BY <2>1, <2>2, <2>3, <2>4, <3>1
  <2>5. CASE running' = running /\ arrived' = Append(arrived, i)
    BY <2>1, <2>2, <2>3, <2>5, OneReturns
  <2> QED
    BY <1>4, <2>4, <2>5 DEF StartCall
<1>5. ASSUME NEW i \in DOMAIN calls, CodePrints(i) PROVE CallsInv'
  BY <1>5 DEF CodePrints, wfVars
<1>6. ASSUME NEW i \in DOMAIN calls, FinishCall(i) PROVE CallsInv'
  <2>1. /\ i \in running /\ running' = running \ {i} /\ arrived' = Append(arrived, i)
        /\ phase' = phase /\ round' = round /\ calls' = calls /\ waiting' = waiting
    BY <1>6 DEF FinishCall
  <2>2. IsFiniteSet(running') /\ Cardinality(running') = Cardinality(running) - 1
    BY <2>1, FS_RemoveElement
  <2>3. /\ Cardinality(waiting) \in Nat /\ Cardinality(running) \in Nat
        /\ Len(arrived) \in Nat
    BY FS_CardinalityType, LenProperties
  <2>4. phase = "tools"
    BY <2>1
  <2>5. /\ arrived' \in Seq(DOMAIN calls) /\ Len(arrived') = Len(arrived) + 1
        /\ Range(arrived') = Range(arrived) \union {i}
    BY <2>1, OneReturns
  <2>6. waiting' \union running' \union Range(arrived') = DOMAIN calls'
    BY <2>1, <2>4, <2>5
  <2>7. Cardinality(waiting') + Cardinality(running') + Len(arrived') = Len(calls')
    BY <2>1, <2>2, <2>3, <2>4, <2>5
  <2> QED
    BY <2>1, <2>2, <2>4, <2>5, <2>6, <2>7
<1>7. CASE AggregateToolResults
  <2>1. Len(arrived) = Len(calls) /\ phase = "tools"
    BY <1>7 DEF AggregateToolResults, Collected
  <2>2. waiting = {} /\ running = {}
    BY <2>1, FS_EmptySet, FS_CardinalityType, LenProperties
  <2>3. <<>> \in Seq(DOMAIN calls)
    BY EmptySeq
  <2>4. phase' \in {"stopped", "input"} /\ arrived' = <<>> /\ calls' = calls
        /\ round' = round /\ waiting' = waiting /\ running' = running
    BY <1>7 DEF AggregateToolResults
  <2> QED
    BY <2>2, <2>3, <2>4
<1>8. CASE UNCHANGED chatVars
  BY <1>8 DEF chatVars, wfVars
<1> QED
  BY <1>1, <1>2, <1>3, <1>4, <1>5, <1>6, <1>7, <1>8 DEF ChatStep

----------------------------------------------------------------------------
(* Who is in control.                                                        *)

Named(i) == calls[i].tool = Handoff /\ HandoffAllowed(current, nextAgent)
            /\ calls[i].target = nextAgent

HandInv ==
    /\ phase \in {"input", "output", "tools"} =>
         nextAgent \in {None, current} \/ (phase = "tools" /\ \E i \in DOMAIN calls : Named(i))

LEMMA HandStep == ASSUME CallsInv, HandInv, [ChatStep]_chatVars PROVE HandInv'
<1> USE DEF HandInv, Named, HandoffAllowed
<1>1. CASE RunAgentStep \/ AgentStepFails \/ ParseAgentOutput
  BY <1>1 DEF RunAgentStep, AgentStepFails, ParseAgentOutput
<1>2. ASSUME NEW i \in DOMAIN calls, StartCall(i) \/ CodePrints(i) PROVE HandInv'
  BY <1>2 DEF StartCall, CodePrints, wfVars
<1>3. ASSUME NEW i \in DOMAIN calls, FinishCall(i) PROVE HandInv'
  <2>1. phase = "tools" /\ phase' = phase /\ calls' = calls /\ current' = current
    BY <1>3 DEF FinishCall, CallsInv
  <2>2. CASE calls[i].tool = Handoff /\ HandoffAllowed(current, calls[i].target)
    BY <1>3, <2>1, <2>2 DEF FinishCall
  <2>3. CASE ~ (calls[i].tool = Handoff /\ HandoffAllowed(current, calls[i].target))
    BY <1>3, <2>1, <2>3 DEF FinishCall
  <2> QED
    BY <2>2, <2>3
<1>4. CASE AggregateToolResults
  BY <1>4 DEF AggregateToolResults
<1>5. CASE UNCHANGED chatVars
  BY <1>5 DEF chatVars, wfVars
<1> QED
  BY <1>1, <1>2, <1>3, <1>4, <1>5 DEF ChatStep

----------------------------------------------------------------------------
(* Python runs and the standard output they share.                           *)

\* The runs there have been, and where the output goes.
RunsInv ==
    /\ DOMAIN saved \subseteq DOMAIN captured
    /\ met \subseteq DOMAIN captured /\ printed \subseteq DOMAIN captured
    /\ \A r \in DOMAIN captured : /\ r \in Nat \X (Nat \ {0})
                                  /\ r[1] <= round
                                  /\ phase = "output" => r[1] < round
                                  /\ r[1] = round => r[2] \notin waiting
    /\ \A i \in running : calls[i].tool = ExecTool => <<round, i>> \in DOMAIN saved

\* A run that overlapped no other is the only one; what a run will put back,
\* and what is left when none runs, is the process's own or an overlapped
\* run's buffer.
StdoutInv ==
    /\ stdout \in met \union {RealOut} \union DOMAIN saved
    /\ \A r \in DOMAIN saved : saved[r] \in met \union {RealOut}
    /\ \A r \in DOMAIN saved \ met : DOMAIN saved = {r} /\ stdout = r
    /\ \A r \in DOMAIN captured \ met : captured[r] = {r} \intersect printed

ExecInv == RunsInv /\ StdoutInv

LEMMA ExecStarts == ASSUME ChatInit PROVE ExecInv
  BY DEF ChatInit, ExecInit, ExecInv, RunsInv, StdoutInv

\* A new run: its name was never used.
LEMMA EnterKeeps ==
  ASSUME StdoutInv, NEW r, r \notin DOMAIN captured,
         DOMAIN saved \subseteq DOMAIN captured,
         met \subseteq DOMAIN captured, printed \subseteq DOMAIN captured, EnterRun(r)
  PROVE  StdoutInv'
<1>1. /\ DOMAIN saved' = DOMAIN saved \union {r} /\ DOMAIN captured' = DOMAIN captured \union {r}
      /\ saved'[r] = stdout /\ captured'[r] = {} /\ stdout' = r /\ printed' = printed
      /\ \A x \in DOMAIN saved : saved'[x] = saved[x]
      /\ \A x \in DOMAIN captured : captured'[x] = captured[x]
  BY DEF EnterRun, Extend
<1>2. CASE DOMAIN saved = {}
  <2>1. met' = met
    BY <1>2 DEF EnterRun
  <2> QED
    BY <1>1, <1>2, <2>1 DEF StdoutInv
<1>3. CASE DOMAIN saved # {}
  <2>1. met' = met \union DOMAIN saved \union {r}
    BY <1>3 DEF EnterRun
  <2> QED
    BY <1>1, <2>1 DEF StdoutInv
<1> QED
  BY <1>2, <1>3

\* A print lands in the buffer installed now.
LEMMA PrintKeeps ==
  ASSUME StdoutInv, NEW r, DOMAIN saved \subseteq DOMAIN captured,
         met \subseteq DOMAIN captured, RealOut \notin DOMAIN captured, PrintIn(r)
  PROVE  StdoutInv' /\ DOMAIN captured' = DOMAIN captured
<1>1. /\ r \in DOMAIN saved /\ printed' = printed \union {r}
      /\ stdout' = stdout /\ saved' = saved /\ met' = met
  BY DEF PrintIn
<1>2. r \notin met => stdout = r
  BY <1>1 DEF StdoutInv
<1>3. ASSUME stdout \notin met, stdout # RealOut PROVE r = stdout
  <2>1. stdout \in DOMAIN saved \ met
    BY <1>3 DEF StdoutInv
  <2>2. DOMAIN saved = {stdout}
    BY <2>1 DEF StdoutInv
  <2> QED
    BY <1>1, <2>2
<1>4. CASE stdout = RealOut
  <2>1. captured' = captured /\ r \in met
    BY <1>1, <1>2, <1>4 DEF PrintIn
  <2> QED
    BY <1>1, <2>1 DEF StdoutInv
<1>5. CASE stdout # RealOut
  <2>1. captured' = [captured EXCEPT ![stdout] = @ \union {r}] /\ stdout \in DOMAIN captured
    BY <1>5 DEF PrintIn, StdoutInv
  <2>2. /\ DOMAIN captured' = DOMAIN captured
        /\ captured'[stdout] = captured[stdout] \union {r}
        /\ \A x \in DOMAIN captured \ {stdout} : captured'[x] = captured[x]
    BY <2>1
  <2>3. \A x \in DOMAIN captured \ met : captured'[x] = {x} \intersect printed'
    <3>1. ASSUME NEW x \in DOMAIN captured \ met, x = stdout
          PROVE  captured'[x] = {x} \intersect printed'
      BY <1>1, <1>3, <1>5, <2>2, <3>1 DEF StdoutInv
    <3>2. ASSUME NEW x \in DOMAIN captured \ met, x # stdout
          PROVE  captured'[x] = {x} \intersect printed'
      BY <1>1, <1>2, <2>2, <3>2 DEF StdoutInv
    <3> QED
      BY <3>1, <3>2
  <2> QED
    BY <1>1, <2>2, <2>3 DEF StdoutInv
<1> QED
  BY <1>4, <1>5

\* A run ends.
LEMMA LeaveKeeps ==
  ASSUME StdoutInv, NEW r \in DOMAIN saved, LeaveRun(r)
  PROVE  StdoutInv'
  BY DEF StdoutInv, LeaveRun, Without

LEMMA ExecStep == ASSUME CallsInv, ExecInv, [ChatStep]_chatVars PROVE ExecInv'
<1> USE DEF ExecInv
<1>0. RealOut \notin DOMAIN captured
  BY ChatAssumption DEF RunsInv
<1>1. CASE RunAgentStep \/ AgentStepFails \/ ParseAgentOutput
  <2>1. UNCHANGED execVars
    BY <1>1 DEF RunAgentStep, AgentStepFails, ParseAgentOutput
  <2>2. StdoutInv'
    BY <2>1 DEF execVars, StdoutInv
  <2>3. phase # "tools" /\ running = {} /\ waiting = {} /\ running' = running
    BY <1>1 DEF RunAgentStep, AgentStepFails, ParseAgentOutput, CallsInv
  <2>4. \A r \in DOMAIN captured : r[1] \in Nat /\ r[1] <= round /\ round \in Nat
    BY DEF RunsInv, CallsInv
  <2>5. CASE RunAgentStep
    <3>1. round' = round + 1 /\ waiting' = {} /\ \A r \in DOMAIN captured : r[1] < round'
      BY <2>3, <2>4, <2>5 DEF RunAgentStep
    <3> QED
      BY <2>1, <2>2, <2>3, <2>4, <3>1 DEF RunsInv, execVars
  <2>6. CASE AgentStepFails
    BY <2>1, <2>2, <2>3, <2>6 DEF AgentStepFails, RunsInv, execVars
  <2>7. CASE ParseAgentOutput
    <3>1. phase = "output" /\ phase' # "output" /\ round' = round
      BY <2>7 DEF ParseAgentOutput
    <3>2. \A r \in DOMAIN captured : r[1] < round
      BY <3>1 DEF RunsInv
    <3> QED
      BY <2>1, <2>2, <2>3, <2>4, <3>1, <3>2 DEF RunsInv, execVars
  <2> QED
    BY <1>1, <2>5, <2>6, <2>7
<1>2. ASSUME NEW i \in DOMAIN calls, StartCall(i) PROVE ExecInv'
  <2>1. /\ i \in waiting /\ waiting' = waiting \ {i} /\ round' = round /\ calls' = calls
        /\ phase' = "tools" /\ i \in Nat \ {0} /\ round \in Nat
    BY <1>2, LenProperties DEF StartCall, CallsInv
  <2>2. <<round, i>> \notin DOMAIN captured
    BY <2>1 DEF RunsInv
  <2>3. CASE UNCHANGED execVars /\ (running' = running \/ (running' = running \union {i} /\ calls[i].tool # ExecTool))
    BY <2>1, <2>3 DEF RunsInv, StdoutInv, execVars
  <2>4. CASE EnterRun(<<round, i>>) /\ running' = running \union {i}
    <3>1. StdoutInv'
      BY <2>2, <2>4, EnterKeeps DEF RunsInv
    <3>2. /\ DOMAIN saved' = DOMAIN saved \union {<<round, i>>} /\ printed' = printed
          /\ DOMAIN captured' = DOMAIN captured \union {<<round, i>>}
          /\ met' \subseteq met \union DOMAIN saved \union {<<round, i>>}
      BY <2>4 DEF EnterRun, Extend
    <3>3. RunsInv'
      BY <2>1, <2>4, <3>2 DEF RunsInv
    <3> QED
      BY <3>1, <3>3
  <2> QED
    BY <1>2, <2>3, <2>4 DEF StartCall
<1>3. ASSUME NEW i \in DOMAIN calls, CodePrints(i) PROVE ExecInv'
  <2>1. PrintIn(<<round, i>>) /\ UNCHANGED wfVars
    BY <1>3 DEF CodePrints
  <2>2. StdoutInv' /\ DOMAIN captured' = DOMAIN captured
    BY <1>0, <2>1, PrintKeeps DEF RunsInv
  <2>3. RunsInv'
    BY <2>1, <2>2 DEF RunsInv, PrintIn, wfVars
  <2> QED
    BY <2>2, <2>3
<1>4. ASSUME NEW i \in DOMAIN calls, FinishCall(i) PROVE ExecInv'
  <2>1. /\ i \in running /\ running' = running \ {i} /\ waiting' = waiting
        /\ round' = round /\ calls' = calls /\ phase' = phase
    BY <1>4 DEF FinishCall
  <2>2. CASE calls[i].tool = ExecTool /\ LeaveRun(<<round, i>>)
    <3>1. <<round, i>> \in DOMAIN saved
      BY <2>1, <2>2 DEF RunsInv
    <3>2. StdoutInv'
      BY <2>2, <3>1, LeaveKeeps
    <3>3. /\ DOMAIN saved' = DOMAIN saved \ {<<round, i>>}
          /\ UNCHANGED <<captured, printed, met>>
      BY <2>2 DEF LeaveRun, Without
    <3>4. \A j \in running' : <<round, j>> # <<round, i>>
      BY <2>1
    <3>5. RunsInv'
      BY <2>1, <3>3, <3>4 DEF RunsInv
    <3> QED
      BY <3>2, <3>5
  <2>3. CASE UNCHANGED execVars
    BY <2>1, <2>3 DEF RunsInv, StdoutInv, execVars
  <2> QED
    BY <1>4, <2>2, <2>3 DEF FinishCall
<1>5. CASE AggregateToolResults
  <2>1. /\ UNCHANGED execVars /\ UNCHANGED <<round, waiting, running, calls>>
        /\ phase' # "output"
    BY <1>5 DEF AggregateToolResults
  <2> QED
    BY <2>1 DEF RunsInv, StdoutInv, execVars
<1>6. CASE UNCHANGED chatVars
  BY <1>6 DEF chatVars, wfVars, execVars, RunsInv, StdoutInv
<1> QED
  BY <1>1, <1>2, <1>3, <1>4, <1>5, <1>6 DEF ChatStep
----------------------------------------------------------------------------
(* What the model is shown.                                                  *)

Messages == [role : {"user", "asks", "mixed", "text", "result"}, round : Nat, n : Nat]
Prompt == memory \o scratch

\* The ask at k and the results that belong to it.
Answered(p, k) ==
    LET r == p[k].round  n == p[k].n
    IN /\ k + n <= Len(p)
       /\ {p[k + j] : j \in 1 .. n} = {ResultOf(r, i) : i \in 1 .. n}
       /\ \A j \in DOMAIN p \ (k .. k + n) : p[j].round # r

\* All but this round's messages are of finished rounds; while its calls are
\* out, its ask is the last message.
TalkInv ==
    /\ memory \in Seq(Messages) /\ scratch \in Seq(Messages)
    /\ phase # "stopped" =>
         \A k \in DOMAIN Prompt :
            /\ Prompt[k].round <= round
            /\ phase # "input" /\ k # Len(Prompt) => Prompt[k].round < round
            /\ Prompt[k].role = "asks" /\ (phase = "input" \/ k # Len(Prompt)) =>
                 Answered(Prompt, k)
    /\ phase \in {"output", "tools"} =>
         /\ Prompt # <<>>
         /\ calls # <<>> => Prompt[Len(Prompt)] = Asks(round, calls)
         /\ phase = "tools" => calls # <<>>

\* Messages of a later round leave the rounds before as they were.
LEMMA AnsweredStays ==
  ASSUME NEW p \in Seq(Messages), NEW t \in Seq(Messages), NEW k \in DOMAIN p,
         Answered(p, k), \A j \in DOMAIN t : t[j].round # p[k].round
  PROVE  Answered(p \o t, k)
<1> DEFINE r == p[k].round  n == p[k].n
<1>1. /\ Len(p) \in Nat /\ Len(t) \in Nat /\ DOMAIN p = 1 .. Len(p) /\ DOMAIN t = 1 .. Len(t)
      /\ n \in Nat /\ k \in Nat \ {0}
  <2>1. /\ Len(p) \in Nat /\ DOMAIN p = 1 .. Len(p)
        /\ Len(t) \in Nat /\ DOMAIN t = 1 .. Len(t)
    BY LenProperties
  <2>2. k \in 1 .. Len(p) /\ p[k] \in Messages
    BY <2>1, ElementOfSeq
  <2> QED
    BY <2>1, <2>2 DEF Messages
<1>2. /\ p \o t \in Seq(Messages) /\ Len(p \o t) = Len(p) + Len(t)
      /\ DOMAIN (p \o t) = 1 .. (Len(p) + Len(t))
  BY ConcatProperties, LenProperties
<1>3. \A j \in 1 .. Len(p) : (p \o t)[j] = p[j]
  BY <1>1, ConcatProperties
<1>4. \A j \in Len(p) + 1 .. Len(p) + Len(t) : (p \o t)[j] = t[j - Len(p)]
  BY <1>1, ConcatProperties
<1>5. k + n <= Len(p) /\ \A j \in 1 .. n : (p \o t)[k + j] = p[k + j]
  BY <1>1, <1>3 DEF Answered
<1>6. (p \o t)[k] = p[k]
  BY <1>1, <1>3
<1>7. {(p \o t)[k + j] : j \in 1 .. n} = {ResultOf(r, i) : i \in 1 .. n}
  <2>1. {(p \o t)[k + j] : j \in 1 .. n} = {p[k + j] : j \in 1 .. n}
    BY <1>5
  <2> QED
    BY <2>1 DEF Answered
<1>8. ASSUME NEW j \in DOMAIN (p \o t) \ (k .. k + n) PROVE (p \o t)[j].round # r
  <2>1. CASE j <= Len(p)
    BY <1>1, <1>2, <1>3, <1>8, <2>1 DEF Answered
  <2>2. CASE j > Len(p)
    <3>1. j - Len(p) \in DOMAIN t /\ (p \o t)[j] = t[j - Len(p)]
      BY <1>1, <1>2, <1>4, <1>8, <2>2
    <3> QED
      BY <3>1
  <2> QED
    BY <1>1, <1>2, <1>8, <2>1, <2>2
<1>9. k + n <= Len(p \o t)
  BY <1>1, <1>2, <1>5
<1> HIDE DEF r, n
<1> QED
  BY <1>6, <1>7, <1>8, <1>9 DEF Answered, r, n
\* One more stretch of messages, wherever it is kept.
LEMMA PromptGrows ==
  ASSUME memory \in Seq(Messages), scratch \in Seq(Messages), NEW t \in Seq(Messages)
  PROVE  /\ memory \o (scratch \o t) = Prompt \o t
         /\ (memory \o (scratch \o t)) \o <<>> = Prompt \o t
         /\ Prompt \in Seq(Messages) /\ Prompt \o t \in Seq(Messages)
         /\ scratch \o t \in Seq(Messages) /\ memory \o (scratch \o t) \in Seq(Messages)
<1>1. memory \o (scratch \o t) = Prompt \o t
  <2>1. (memory \o scratch) \o t = memory \o (scratch \o t)
    BY ConcatAssociative
  <2> QED
    BY <2>1 DEF Prompt
<1>2. Prompt \in Seq(Messages) /\ scratch \o t \in Seq(Messages)
  BY ConcatProperties DEF Prompt
<1>3. Prompt \o t \in Seq(Messages)
  BY <1>2, ConcatProperties
<1>4. (Prompt \o t) \o <<>> = Prompt \o t
  BY <1>3, ConcatEmptySeq
<1> QED
  BY <1>1, <1>2, <1>3, <1>4

\* The prompt after the ask of the next round, or its plain text.
LEMMA AskIsLast ==
  ASSUME TalkInv, round \in Nat, phase = "input", phase' = "output", round' = round + 1,
         NEW m \in Messages, m.round = round + 1,
         calls' # <<>> => m = Asks(round + 1, calls'),
         memory' = memory, scratch' = Append(scratch, m)
  PROVE  TalkInv'
<1>1. memory \in Seq(Messages) /\ scratch \in Seq(Messages) /\ <<m>> \in Seq(Messages)
  BY DEF TalkInv
<1>2. scratch' = scratch \o <<m>>
  BY <1>1, AppendIsConcat
<1>3. /\ Prompt' = Prompt \o <<m>> /\ Prompt \in Seq(Messages) /\ Prompt' \in Seq(Messages)
      /\ scratch' \in Seq(Messages) /\ memory' \in Seq(Messages)
  BY <1>1, <1>2, PromptGrows DEF Prompt
<1>4. /\ Len(Prompt) \in Nat /\ DOMAIN Prompt = 1 .. Len(Prompt)
      /\ Len(Prompt') = Len(Prompt) + 1 /\ DOMAIN Prompt' = 1 .. Len(Prompt')
  BY <1>1, <1>3, ConcatProperties, LenProperties
<1>5. /\ \A k \in DOMAIN Prompt : Prompt'[k] = Prompt[k]
      /\ Prompt'[Len(Prompt')] = m
  <2>1. Prompt' = Append(Prompt, m)
    BY <1>3, AppendIsConcat
  <2> QED
    BY <1>3, <1>4, <2>1, AppendProperties
<1>6. \A k \in DOMAIN Prompt : Prompt[k].round \in Nat /\ Prompt[k].round <= round
  <2>1. ASSUME NEW k \in 1 .. Len(Prompt) PROVE Prompt[k] \in Messages
    BY <1>3, <2>1, ElementOfSeq
  <2>2. \A k \in DOMAIN Prompt : Prompt[k].round <= round
    BY DEF TalkInv
  <2> QED
    BY <1>4, <2>1, <2>2 DEF Messages
<1>7. ASSUME NEW k \in DOMAIN Prompt, Prompt[k].role = "asks" PROVE Answered(Prompt', k)
  <2>1. Answered(Prompt, k)
    BY <1>7 DEF TalkInv
  <2>2. \A j \in DOMAIN <<m>> : <<m>>[j].round # Prompt[k].round
    BY <1>6
  <2> QED
    BY <1>1, <1>3, <1>7, <2>1, <2>2, AnsweredStays
<1>8. ASSUME NEW k \in DOMAIN Prompt'
      PROVE  /\ Prompt'[k].round <= round'
             /\ k # Len(Prompt') => Prompt'[k].round < round'
             /\ Prompt'[k].role = "asks" /\ k # Len(Prompt') => Answered(Prompt', k)
  <2>1. CASE k = Len(Prompt')
    BY <1>5, <2>1
  <2>2. CASE k # Len(Prompt')
    <3>1. k \in DOMAIN Prompt
      BY <1>4, <1>8, <2>2
    <3> QED
      BY <1>5, <1>6, <1>7, <3>1
  <2> QED
    BY <2>1, <2>2
<1>9. Prompt' # <<>> /\ (calls' # <<>> => Prompt'[Len(Prompt')] = Asks(round', calls'))
  BY <1>4, <1>5
<1> QED
  BY <1>3, <1>8, <1>9 DEF TalkInv

\* The first of several places is one of them.
LEMMA FirstIsOne ==
  ASSUME NEW S, S \subseteq Nat, S # {}
  PROVE  First(S) \in S /\ \A j \in S : First(S) <= j
<1>1. \E k \in S : \A j \in S : ~ (<<j, k>> \in OpToRel(<, Nat))
  BY WFMin, NatLessThanWellFounded
<1>2. \E k \in S : \A j \in S : k <= j
  <2>1. PICK k \in S : \A j \in S : ~ (<<j, k>> \in OpToRel(<, Nat))
    BY <1>1
  <2>2. ASSUME NEW j \in S PROVE ~ (j < k)
    BY <2>1, <2>2 DEF OpToRel
  <2> QED
    BY <2>2
<1> QED
  BY <1>2 DEF First

\* The results written for the model; all of them, unless a handoff and a
\* direct tool were asked for at once.
LEMMA ResultsWritten ==
  ASSUME CallsInv
  PROVE  /\ Handled \in Seq(DOMAIN calls)
         /\ ~ Mixed(calls) /\ ~ (Direct # {} /\ First(Direct) \in Ending) => Handled = arrived
<1>1. /\ arrived \in Seq(DOMAIN calls) /\ Len(arrived) \in Nat
      /\ DOMAIN arrived = 1 .. Len(arrived) /\ \A k \in DOMAIN arrived : arrived[k] \in DOMAIN calls
  BY LenProperties, ElementOfSeq DEF CallsInv
<1>2. Direct \subseteq Nat /\ Ending \subseteq Direct /\ Direct \subseteq DOMAIN arrived
  BY <1>1 DEF Direct, Ending
<1>3. CASE Ending = {}
  BY <1>1, <1>3 DEF Handled
<1>4. CASE Ending # {}
  <2>1. First(Ending) \in 1 .. Len(arrived)
    BY <1>1, <1>2, <1>4, FirstIsOne
  <2>2. Handled \in Seq(DOMAIN calls)
    <3>1. \A i \in 1 .. First(Ending) : arrived[i] \in DOMAIN calls
      BY <1>1, <2>1
    <3>2. SubSeq(arrived, 1, First(Ending)) \in Seq(DOMAIN calls)
      BY <2>1, <3>1, SubSeqProperties
    <3> QED
      BY <1>4, <3>2 DEF Handled
  <2>3. ASSUME First(Direct) \notin Ending PROVE Mixed(calls)
    <3>1. Direct # {} /\ First(Direct) \in Direct
      BY <1>2, <1>4, FirstIsOne
    <3>2. calls[arrived[First(Direct)]].tool = Handoff
      BY <2>3, <3>1 DEF Ending
    <3>3. PICK k \in Ending : TRUE
      BY <1>4
    <3>4. calls[arrived[k]].tool \in DirectTools
      BY <3>3 DEF Ending, Direct, ReturnsDirect
    <3> QED
      BY <1>1, <1>2, <3>1, <3>2, <3>3, <3>4 DEF Mixed
  <2>4. Direct # {}
    BY <1>2, <1>4
  <2> QED
    BY <2>2, <2>3, <2>4
<1> QED
  BY <1>3, <1>4
\* All results of the round are written after its ask.
LEMMA RoundAnswered ==
  ASSUME NEW p \in Seq(Messages), p # <<>>, NEW t \in Seq(Messages),
         NEW r \in Nat, NEW n \in Nat, NEW a \in Seq(1 .. n), Len(a) = n, Range(a) = 1 .. n,
         Len(t) = n, \A j \in 1 .. n : t[j] = ResultOf(r, a[j]),
         p[Len(p)].round = r, p[Len(p)].n = n,
         \A k \in DOMAIN p : k # Len(p) => p[k].round < r
  PROVE  Answered(p \o t, Len(p))
<1>1. Len(p) \in Nat \ {0} /\ DOMAIN p = 1 .. Len(p)
  BY EmptySeq, LenProperties
<1>2. /\ Len(p \o t) = Len(p) + n
      /\ \A j \in 1 .. Len(p) : (p \o t)[j] = p[j]
      /\ \A j \in 1 .. n : (p \o t)[Len(p) + j] = t[j]
  <2>1. /\ Len(p \o t) = Len(p) + n
        /\ \A i \in 1 .. Len(p) + n : (p \o t)[i] = IF i <= Len(p) THEN p[i] ELSE t[i - Len(p)]
    BY ConcatProperties
  <2>2. ASSUME NEW j \in 1 .. n PROVE (p \o t)[Len(p) + j] = t[j]
    <3>1. /\ Len(p) + j \in 1 .. Len(p) + n /\ ~ (Len(p) + j <= Len(p))
          /\ Len(p) + j - Len(p) = j
      BY <1>1
    <3> QED
      BY <2>1, <3>1
  <2> QED
    BY <1>1, <2>1, <2>2
<1>3. DOMAIN (p \o t) = 1 .. Len(p) + n
  BY <1>2, ConcatProperties, LenProperties
<1>4. (p \o t)[Len(p)] = p[Len(p)]
  BY <1>1, <1>2
<1>5. {(p \o t)[Len(p) + j] : j \in 1 .. n} = {ResultOf(r, i) : i \in 1 .. n}
  <2>1. {(p \o t)[Len(p) + j] : j \in 1 .. n} = {ResultOf(r, a[j]) : j \in 1 .. n}
    BY <1>2
  <2>2. {a[j] : j \in 1 .. n} = 1 .. n
    BY RangeEquality
  <2>3. {ResultOf(r, a[j]) : j \in 1 .. n} = {ResultOf(r, i) : i \in {a[j] : j \in 1 .. n}}
    BY Zenon
  <2> QED
    BY <2>1, <2>2, <2>3
<1>6. ASSUME NEW j \in DOMAIN (p \o t) \ (Len(p) .. Len(p) + n)
      PROVE  (p \o t)[j].round # r
  <2>1. j \in 1 .. Len(p) /\ j # Len(p)
    BY <1>1, <1>3, <1>6
  <2>2. p[j].round < r
    BY <1>1, <2>1
  <2>3. (p \o t)[j] = p[j]
    BY <1>2, <2>1
  <2>4. ~ (r < r)
    OBVIOUS
  <2> QED
    BY <2>2, <2>3, <2>4
<1>7. Len(p) + n <= Len(p \o t)
  BY <1>1, <1>2
<1> QED
  BY <1>4, <1>5, <1>6, <1>7 DEF Answered

\* aggregate_tool_results writes them wherever the round's messages are kept.
LEMMA RoundCloses ==
  ASSUME CallsInv, TalkInv, AggregateToolResults
  PROVE  TalkInv'
<1> DEFINE res == [k \in DOMAIN Handled |-> ResultOf(round, Handled[k])]
           stop == Direct # {} /\ First(Direct) \in Ending
<1>1. /\ Handled \in Seq(DOMAIN calls) /\ Len(Handled) \in Nat
      /\ DOMAIN Handled = 1 .. Len(Handled)
  BY ResultsWritten, LenProperties
<1>2. Len(calls) \in Nat /\ DOMAIN calls = 1 .. Len(calls) /\ round \in Nat
  BY LenProperties DEF CallsInv
<1>3. \A k \in DOMAIN Handled : Handled[k] \in Nat
  BY <1>1, <1>2, ElementOfSeq
<1>4. res \in Seq(Messages) /\ Len(res) = Len(Handled) /\ DOMAIN res = 1 .. Len(Handled)
  <2>1. \A k \in 1 .. Len(Handled) : ResultOf(round, Handled[k]) \in Messages
    BY <1>1, <1>2, <1>3 DEF ResultOf, Messages
  <2> QED
    BY <1>1, <2>1
<1>5. memory \in Seq(Messages) /\ scratch \in Seq(Messages) /\ <<>> \in Seq(Messages)
  BY EmptySeq DEF TalkInv
<1>6. /\ phase = "tools" /\ Len(arrived) = Len(calls)
      /\ memory' = IF Direct # {} THEN memory \o (scratch \o res) ELSE memory
      /\ scratch' = IF Direct # {} THEN <<>> ELSE scratch \o res
      /\ phase' = IF stop THEN "stopped" ELSE "input"
      /\ round' = round
  BY DEF AggregateToolResults, Collected
<1> HIDE DEF res, stop
<1>7. /\ Prompt' = Prompt \o res /\ Prompt \in Seq(Messages)
      /\ memory' \in Seq(Messages) /\ scratch' \in Seq(Messages)
  BY <1>4, <1>5, <1>6, PromptGrows DEF Prompt
<1>8. CASE stop
  BY <1>6, <1>7, <1>8 DEF TalkInv
<1>9. CASE ~stop
  <2>1. phase' = "input"
    BY <1>6, <1>9
  <2>2. /\ Len(Prompt) \in Nat /\ DOMAIN Prompt = 1 .. Len(Prompt)
        /\ DOMAIN Prompt' = 1 .. Len(Prompt) + Len(Handled)
    <3>1. Prompt \o res \in Seq(Messages) /\ Len(Prompt \o res) = Len(Prompt) + Len(Handled)
      <4>1. Prompt \in Seq(Messages) /\ res \in Seq(Messages)
        BY <1>4, <1>7
      <4>2. Prompt \o res \in Seq(Messages) /\ Len(Prompt \o res) = Len(Prompt) + Len(res)
        BY ONLY <4>1, ConcatProperties
      <4> QED
        BY <1>4, <4>2
    <3>2. DOMAIN (Prompt \o res) = 1 .. Len(Prompt) + Len(Handled)
      BY <3>1, LenProperties
    <3>3. Len(Prompt) \in Nat /\ DOMAIN Prompt = 1 .. Len(Prompt)
      BY <1>7, LenProperties
    <3> QED
      BY <1>7, <3>2, <3>3
  <2>3. /\ \A k \in DOMAIN Prompt : Prompt'[k] = Prompt[k]
        /\ \A k \in DOMAIN Prompt' \ DOMAIN Prompt :
              k - Len(Prompt) \in 1 .. Len(Handled) /\ Prompt'[k] = res[k - Len(Prompt)]
    BY <1>1, <1>4, <1>7, <2>2, ConcatProperties
  <2>4. \A k \in 1 .. Len(Handled) : res[k].round = round /\ res[k].role = "result"
    BY <1>1 DEF res, ResultOf
  <2>5. /\ Prompt # <<>> /\ Prompt[Len(Prompt)] = Asks(round, calls)
        /\ \A k \in DOMAIN Prompt :
             /\ Prompt[k].round <= round
             /\ k # Len(Prompt) => Prompt[k].round < round
             /\ Prompt[k].role = "asks" /\ k # Len(Prompt) => Answered(Prompt, k)
    BY <1>6 DEF TalkInv
  <2>6. ASSUME NEW k \in DOMAIN Prompt, k # Len(Prompt), Prompt[k].role = "asks"
        PROVE  Answered(Prompt', k)
    <3>1. \A j \in DOMAIN res : res[j].round # Prompt[k].round
      BY <1>2, <1>4, <2>4, <2>5, <2>6
    <3>2. Answered(Prompt, k)
      BY <2>5, <2>6
    <3> QED
      BY <1>4, <1>7, <3>1, <3>2, AnsweredStays
  <2>7. ASSUME Prompt[Len(Prompt)].role = "asks" PROVE Answered(Prompt', Len(Prompt))
    <3>1. Prompt[Len(Prompt)].round = round /\ Prompt[Len(Prompt)].n = Len(calls)
      BY <2>5 DEF Asks
    <3>2. Handled = arrived
      <4>1. ~ Mixed(calls)
        BY <2>5, <2>7 DEF Asks
      <4> QED
        BY <1>9, <4>1, ResultsWritten DEF stop
    <3>3. Range(arrived) = 1 .. Len(calls) /\ arrived \in Seq(1 .. Len(calls))
      <4>1. waiting = {} /\ running = {}
        BY <1>2, <1>6, FS_EmptySet, FS_CardinalityType DEF CallsInv
      <4> QED
        BY <1>2, <1>6, <4>1 DEF CallsInv
    <3>4. Len(res) = Len(calls) /\ \A j \in 1 .. Len(calls) : res[j] = ResultOf(round, arrived[j])
      BY <1>1, <1>4, <1>6, <3>2 DEF res
    <3> QED
      BY <1>2, <1>4, <1>6, <1>7, <2>5, <3>1, <3>3, <3>4, RoundAnswered
  <2>8. ASSUME NEW k \in DOMAIN Prompt'
        PROVE  /\ Prompt'[k].round <= round'
               /\ Prompt'[k].role = "asks" => Answered(Prompt', k)
    <3>1. CASE k \in DOMAIN Prompt
      BY <1>6, <2>3, <2>5, <2>6, <2>7, <3>1
    <3>2. CASE k \notin DOMAIN Prompt
      BY <1>2, <1>6, <2>3, <2>4, <2>8, <3>2
    <3> QED
      BY <3>1, <3>2
  <2> QED
    BY <1>7, <2>1, <2>8 DEF TalkInv
<1> QED
  BY <1>8, <1>9

\* A step that leaves the messages alone.
LEMMA TalkSame ==
  ASSUME TalkInv, UNCHANGED <<round, calls, memory, scratch>>,
         phase' = phase \/ (phase = "output" /\ phase' = "tools" /\ calls # <<>>)
  PROVE  TalkInv'
<1>1. Prompt' = Prompt
  BY DEF Prompt
<1>2. CASE phase' = phase
  BY <1>1, <1>2 DEF TalkInv
<1>3. CASE phase = "output" /\ phase' = "tools" /\ calls # <<>>
  BY <1>1, <1>3 DEF TalkInv
<1> QED
  BY <1>2, <1>3

LEMMA TalkStep == ASSUME CallsInv, TalkInv, [ChatStep]_chatVars PROVE TalkInv'
<1>1. round \in Nat /\ calls \in Seq(Requests)
  BY DEF CallsInv
<1>2. CASE RunAgentStep
  <2>1. PICK n \in 0 .. MaxCalls[round + 1] : \E cs \in [1 .. n -> Requests] :
          calls' = cs /\ scratch' = Append(scratch, IF n = 0 THEN Tells(round + 1) ELSE Asks(round + 1, cs))
    BY <1>2, Zenon DEF RunAgentStep
  <2>2. PICK cs \in [1 .. n -> Requests] :
          calls' = cs /\ scratch' = Append(scratch, IF n = 0 THEN Tells(round + 1) ELSE Asks(round + 1, cs))
    BY <2>1
  <2>3. n \in Nat /\ Len(cs) = n
    BY <2>1
  <2> DEFINE m == IF n = 0 THEN Tells(round + 1) ELSE Asks(round + 1, cs)
  <2>4. m \in Messages /\ m.round = round + 1
    BY <1>1, <2>3 DEF Tells, Asks, Messages
  <2>5. calls' # <<>> => m = Asks(round + 1, calls')
    BY <2>2, <2>3
  <2>6. /\ phase = "input" /\ phase' = "output" /\ round' = round + 1 /\ memory' = memory
        /\ scratch' = Append(scratch, m)
    BY <1>2, <2>2 DEF RunAgentStep
  <2> HIDE DEF m
  <2> QED
    BY <1>1, <2>4, <2>5, <2>6, AskIsLast
<1>3. CASE AgentStepFails
  BY <1>3 DEF AgentStepFails, TalkInv, Prompt
<1>4. CASE ParseAgentOutput
  <2>1. CASE calls = <<>>
    <3>1. memory' = memory \o scratch /\ scratch' = <<>> /\ phase' = "stopped"
      BY <1>4, <2>1 DEF ParseAgentOutput
    <3>2. memory' \in Seq(Messages) /\ scratch' \in Seq(Messages)
      BY <3>1, ConcatProperties, EmptySeq DEF TalkInv
    <3> QED
      BY <3>1, <3>2 DEF TalkInv
  <2>2. CASE calls # <<>>
    BY <1>4, <2>2, TalkSame DEF ParseAgentOutput
  <2> QED
    BY <2>1, <2>2
<1>5. ASSUME NEW i \in DOMAIN calls, StartCall(i) \/ CodePrints(i) \/ FinishCall(i) PROVE TalkInv'
  <2>1. UNCHANGED <<phase, round, calls, memory, scratch>>
    BY <1>5 DEF StartCall, CodePrints, FinishCall, wfVars
  <2> QED
    BY <2>1, TalkSame
<1>6. CASE AggregateToolResults
  BY <1>6, RoundCloses
<1>7. CASE UNCHANGED chatVars
  BY <1>7, TalkSame DEF chatVars, wfVars
<1> QED
  BY <1>2, <1>3, <1>4, <1>5, <1>6, <1>7 DEF ChatStep

----------------------------------------------------------------------------
(* The stream of the answer and of the events.                               *)

\* What achat makes of the run is a list, of whatever was shown.
AnswerInv == /\ shown \in Seq(Nat \X Nat)
             /\ result.text = <<>> \/ result.text = <<result.text[1]>>

LEMMA AnswerIsList ==
  ASSUME AnswerInv
  PROVE  Len(Answer) \in Nat /\ DOMAIN Answer = 1 .. Len(Answer)
<1>1. CASE shown # <<>>
  BY <1>1 DEF AnswerInv, Answer
<1>2. CASE shown = <<>> /\ result.text = <<>>
  BY <1>2 DEF AnswerInv, Answer
<1>3. CASE shown = <<>> /\ result.text = <<result.text[1]>>
  <2> DEFINE x == result.text[1]
  <2>1. Answer = <<x>>
    BY <1>3 DEF Answer
  <2> HIDE DEF x
  <2> QED
    BY <2>1
<1> QED
  BY <1>1, <1>2, <1>3 DEF AnswerInv

LEMMA AnswerStep ==
  ASSUME CallsInv, AnswerInv, [ChatStep]_chatVars
  PROVE  AnswerInv'
<1> USE DEF AnswerInv
<1>1. CASE RunAgentStep
  <2>1. result' = result /\ (shown' = shown \/ shown' = Append(shown, <<round + 1, 0>>))
    BY <1>1, Zenon DEF RunAgentStep
  <2> DEFINE x == <<round + 1, 0>>
  <2>2. x \in Nat \X Nat
    BY DEF CallsInv
  <2> HIDE DEF x
  <2>3. Append(shown, x) \in Seq(Nat \X Nat)
    BY <2>2
  <2>4. shown' \in Seq(Nat \X Nat)
    BY <2>1, <2>3 DEF x
  <2> QED
    BY <2>1, <2>4
<1>2. CASE ParseAgentOutput
  <2>1. shown' = shown
    BY <1>2 DEF ParseAgentOutput
  <2>2. CASE calls = <<>>
    <3>1. result'.text = <<<<round, 0>>>>
      BY <1>2, <2>2 DEF ParseAgentOutput
    <3> QED
      BY <2>1, <3>1
  <2>3. CASE calls # <<>>
    BY <1>2, <2>1, <2>3 DEF ParseAgentOutput
  <2> QED
    BY <2>2, <2>3
<1>3. CASE AggregateToolResults
  <2> DEFINE x == <<round, arrived[First(Direct)]>>
  <2>1. shown' = shown
    BY <1>3 DEF AggregateToolResults
  <2>2. result' = result \/ result'.text = <<x>>
    BY <1>3 DEF AggregateToolResults
  <2> HIDE DEF x
  <2> QED
    BY <2>1, <2>2
<1>4. ASSUME NEW i, StartCall(i) \/ CodePrints(i) \/ FinishCall(i) PROVE AnswerInv'
  BY <1>4 DEF StartCall, CodePrints, FinishCall, wfVars
<1>5. CASE AgentStepFails \/ UNCHANGED chatVars
  BY <1>5 DEF AgentStepFails, chatVars, wfVars
<1> QED
  BY <1>1, <1>2, <1>3, <1>4, <1>5 DEF ChatStep

\* The pieces the chat generator yields, and everything a stream may carry.
Piece(k) == IF k = 1 THEN [kind |-> "sources"] ELSE [kind |-> "text", n |-> Answer[k - 1]]
Pieces == {Piece(k) : k \in 1 .. Len(Answer) + 1}
Events == [kind : {"event"}, n : Nat]
Things == Pieces \union Events \union {Blank, ErrorChunk}

\* How many of a kind are among the first j of s, and a list that has the
\* events and the texts in their order, the texts behind the sources.
Among(s, kind, j) == Cardinality({i \in 1 .. j : s[i].kind = kind})
All(s, kind) == Among(s, kind, Len(s))
Orderly(s) ==
    /\ s \in Seq(Things)
    /\ \A j \in 1 .. Len(s) : s[j].kind = "event" =>
          Among(s, "event", j) \in 1 .. Len(emitted) /\ s[j] = emitted[Among(s, "event", j)]
    /\ \A j \in 1 .. Len(s) : s[j].kind = "text" =>
          /\ Among(s, "text", j) \in 1 .. Len(Answer) /\ s[j].n = Answer[Among(s, "text", j)]
          /\ Among(s, "sources", j) = 1

LEMMA AmongCounts ==
  ASSUME NEW s, NEW kind, NEW j \in Nat
  PROVE  Among(s, kind, j) \in Nat
<1>1. IsFiniteSet(1 .. j)
  BY FS_Interval
<1>2. IsFiniteSet({i \in 1 .. j : s[i].kind = kind})
  BY <1>1, FS_Subset
<1> QED
  BY <1>2, FS_CardinalityType DEF Among

LEMMA AmongGrows ==
  ASSUME NEW S, NEW s \in Seq(S), NEW x \in S, NEW kind
  PROVE  /\ \A j \in 1 .. Len(s) : Among(Append(s, x), kind, j) = Among(s, kind, j)
         /\ All(Append(s, x), kind) = All(s, kind) + (IF x.kind = kind THEN 1 ELSE 0)
         /\ All(s, kind) \in Nat
<1> DEFINE t == Append(s, x)
<1>1. Len(s) \in Nat /\ Len(t) = Len(s) + 1 /\ t[Len(t)] = x
      /\ \A i \in 1 .. Len(s) : t[i] = s[i]
  OBVIOUS
<1> HIDE DEF t
<1>2. \A j \in 1 .. Len(s) : Among(t, kind, j) = Among(s, kind, j)
  <2> SUFFICES ASSUME NEW j \in 1 .. Len(s) PROVE Among(t, kind, j) = Among(s, kind, j)
    OBVIOUS
  <2>1. {i \in 1 .. j : t[i].kind = kind} = {i \in 1 .. j : s[i].kind = kind}
    BY <1>1
  <2> QED
    BY <2>1 DEF Among
<1>3. All(t, kind) = All(s, kind) + (IF x.kind = kind THEN 1 ELSE 0)
  <2> DEFINE old == {i \in 1 .. Len(s) : s[i].kind = kind}
             new == {i \in 1 .. Len(t) : t[i].kind = kind}
  <2>1. new = IF x.kind = kind THEN old \union {Len(t)} ELSE old
    BY <1>1
  <2>2. IsFiniteSet(old) /\ Len(t) \notin old
    <3>1. IsFiniteSet(1 .. Len(s))
      <4>1. Len(s) \in Int /\ 1 \in Int
        BY ONLY <1>1
      <4> QED
        BY ONLY <4>1, FS_Interval
    <3>2. IsFiniteSet(old)
      BY <3>1, FS_Subset
    <3> QED
      BY <1>1, <3>2
  <2> HIDE DEF old, new
  <2>3. Cardinality(old) \in Nat /\ Cardinality(old \union {Len(t)}) = Cardinality(old) + 1
    BY <2>2, FS_AddElement, FS_CardinalityType
  <2>4. All(t, kind) = Cardinality(new) /\ All(s, kind) = Cardinality(old)
    BY DEF All, Among, old, new
  <2> QED
    BY <2>1, <2>3, <2>4
<1>4. All(s, kind) \in Nat
  BY <1>1, AmongCounts DEF All
<1> QED
  BY <1>2, <1>3, <1>4 DEF t

\* One chunk more, if it is the next of its kind.
LEMMA OrderlyGrows ==
  ASSUME AnswerInv, NEW s, Orderly(s), NEW x \in Things, emitted \in Seq(Events),
         x.kind = "event" => /\ All(s, "event") + 1 <= Len(emitted)
                             /\ x = emitted[All(s, "event") + 1],
         x.kind = "text" => /\ All(s, "text") + 1 <= Len(Answer)
                            /\ x.n = Answer[All(s, "text") + 1]
                            /\ All(s, "sources") = 1
  PROVE  Orderly(Append(s, x))
<1> DEFINE t == Append(s, x)
<1>1. s \in Seq(Things) /\ Len(s) \in Nat
  BY DEF Orderly
<1>2. t \in Seq(Things) /\ Len(t) = Len(s) + 1 /\ t[Len(t)] = x
      /\ \A i \in 1 .. Len(s) : t[i] = s[i]
  BY <1>1
<1>3. \A kind : /\ \A j \in 1 .. Len(s) : Among(t, kind, j) = Among(s, kind, j)
                /\ Among(t, kind, Len(t)) = All(s, kind) + (IF x.kind = kind THEN 1 ELSE 0)
                /\ All(s, kind) \in Nat
  BY <1>1, AmongGrows DEF All
<1>4. Len(emitted) \in Nat /\ Len(Answer) \in Nat
  BY AnswerIsList
<1> HIDE DEF t
<1>5. ASSUME NEW j \in 1 .. Len(t), t[j].kind = "event"
      PROVE  Among(t, "event", j) \in 1 .. Len(emitted) /\ t[j] = emitted[Among(t, "event", j)]
  <2>1. CASE j \in 1 .. Len(s)
    BY <1>2, <1>3, <1>5, <2>1 DEF Orderly
  <2>2. CASE j = Len(t)
    BY <1>2, <1>3, <1>4, <1>5, <2>2
  <2> QED
    BY <1>1, <1>2, <2>1, <2>2
<1>6. ASSUME NEW j \in 1 .. Len(t), t[j].kind = "text"
      PROVE  /\ Among(t, "text", j) \in 1 .. Len(Answer) /\ t[j].n = Answer[Among(t, "text", j)]
             /\ Among(t, "sources", j) = 1
  <2>1. CASE j \in 1 .. Len(s)
    BY <1>2, <1>3, <1>6, <2>1 DEF Orderly
  <2>2. CASE j = Len(t)
    BY <1>2, <1>3, <1>4, <1>6, <2>2
  <2> QED
    BY <1>1, <1>2, <2>1, <2>2
<1> QED
  BY <1>2, <1>5, <1>6 DEF Orderly, t

\* Where the stream is.  Until it ends, every event is sent, handed over or
\* queued, and every piece of the answer sent, handed over or left.
Pieced == All(out, "sources") + All(out, "text")
StreamInv ==
    /\ emitted \in Seq(Events) /\ Orderly(out)
    /\ closed \in {"idle", "open", "ended", "broken", "error"}
    /\ closed \in {"idle", "open"} =>
          /\ q \in Seq(Events)
          /\ Len(emitted) = All(out, "event") + Len(eventReady) + Len(q)
          /\ \A i \in 1 .. Len(q) : q[i] = emitted[All(out, "event") + Len(eventReady) + i]
          /\ eventReady = <<>> \/ eventReady = <<emitted[All(out, "event") + 1]>>
    /\ closed = "idle" => /\ out = <<>> /\ chatReady = <<>> /\ eventReady = <<>>
                          /\ ~chatDone /\ ~eventDone
    /\ closed = "open" =>
          /\ chatLeft \in Seq(Pieces)
          /\ Len(Answer) + 1 = Pieced + Len(chatReady) + Len(chatLeft)
          /\ \A i \in 1 .. Len(chatLeft) : chatLeft[i] = Piece(Pieced + Len(chatReady) + i)
          /\ chatReady = <<>> \/ chatReady = <<Piece(Pieced + 1)>>
          /\ All(out, "sources") = IF Pieced = 0 THEN 0 ELSE 1
          /\ chatDone => chatLeft = <<>>
          /\ eventDone => q = <<>>
    /\ closed = "ended" => /\ All(out, "event") = Len(emitted)
                           /\ All(out, "text") = Len(Answer) /\ All(out, "sources") = 1

\* The numbers of what was sent are numbers.
LEMMA OutCounts ==
  ASSUME Orderly(out)
  PROVE  \A kind : All(out, kind) \in Nat
<1>1. Len(out) \in Nat
  BY DEF Orderly
<1> QED
  BY <1>1, AmongCounts DEF All

\* What Pass makes of the list, for a chunk that is the next of its kind.
LEMMA PassGrows ==
  ASSUME AnswerInv, Orderly(out), emitted \in Seq(Events),
         NEW x \in Things, x.kind \in {"event", "text", "sources"},
         x.kind = "event" => /\ All(out, "event") + 1 <= Len(emitted)
                             /\ x = emitted[All(out, "event") + 1],
         x.kind = "text" => /\ All(out, "text") + 1 <= Len(Answer)
                            /\ x.n = Answer[All(out, "text") + 1]
                            /\ All(out, "sources") = 1,
         NEW sent, sent = (IF out = <<>> THEN <<Blank>> ELSE out) \o <<x>>
  PROVE  /\ Orderly(sent)
         /\ \A kind \in {"event", "text", "sources"} :
               All(sent, kind) = All(out, kind) + (IF x.kind = kind THEN 1 ELSE 0)
<1> DEFINE mid == IF out = <<>> THEN Append(out, Blank) ELSE out
<1>1. out \in Seq(Things) /\ Blank \in Things
  BY DEF Orderly, Things
<1>2. Orderly(mid)
  <2>1. Blank.kind = "blank"
    BY DEF Blank
  <2>2. Orderly(Append(out, Blank))
    BY <1>1, <2>1, OrderlyGrows
  <2> QED
    BY <2>2
<1>3. \A kind \in {"event", "text", "sources"} : All(mid, kind) = All(out, kind)
  <2> SUFFICES ASSUME NEW kind \in {"event", "text", "sources"}
               PROVE  All(Append(out, Blank), kind) = All(out, kind)
    OBVIOUS
  <2>1. Blank.kind # kind
    BY DEF Blank
  <2>2. /\ All(Append(out, Blank), kind) = All(out, kind) + (IF Blank.kind = kind THEN 1 ELSE 0)
        /\ All(out, kind) \in Nat
    BY <1>1, AmongGrows
  <2> QED
    BY <2>1, <2>2
<1>4. mid \in Seq(Things)
  BY <1>1
<1>5. sent = Append(mid, x)
  BY <1>1
<1> HIDE DEF mid
<1>6. Orderly(Append(mid, x))
  BY <1>2, <1>3, OrderlyGrows
<1>7. \A kind : All(Append(mid, x), kind) = All(mid, kind) + (IF x.kind = kind THEN 1 ELSE 0)
  BY <1>4, AmongGrows
<1> QED
  BY <1>3, <1>5, <1>6, <1>7

LEMMA StreamStarts == ASSUME Init PROVE AnswerInv /\ StreamInv
<1>1. AnswerInv
  BY DEF Init, ChatInit, AnswerInv, NoResult
<1>2. out = <<>> /\ emitted = <<>> /\ q = <<>> /\ eventReady = <<>> /\ chatReady = <<>>
      /\ closed = "idle" /\ ~chatDone /\ ~eventDone
  BY DEF Init, StreamInit
<1>3. Orderly(out)
  BY <1>2 DEF Orderly
<1>4. All(out, "event") = 0
  <2>1. {i \in 1 .. Len(out) : out[i].kind = "event"} = {}
    BY <1>2
  <2> QED
    BY <2>1, FS_EmptySet DEF All, Among
<1> QED
  BY <1>1, <1>2, <1>3, <1>4 DEF StreamInv

\* What was sent stays orderly as long as it stays, with what it is compared to.
LEMMA OrderlyStays ==
  ASSUME UNCHANGED <<emitted, shown, result>>, Orderly(out')
  PROVE  Orderly(out)'
<1>1. Answer' = Answer
  BY DEF Answer
<1>2. Things' = Things
  BY <1>1 DEF Things, Pieces, Piece, Events
<1>3. \A kind, j : Among(out, kind, j)' = Among(out', kind, j)
  BY DEF Among
<1> QED
  BY <1>1, <1>2, <1>3 DEF Orderly

\* While nothing is sent, the counts of what was sent stay.
LEMMA NothingSent ==
  ASSUME UNCHANGED out
  PROVE  (\A kind : All(out, kind)' = All(out, kind)) /\ Pieced' = Pieced
<1>1. \A kind : All(out, kind)' = All(out, kind)
  BY DEF All, Among
<1> QED
  BY <1>1 DEF Pieced

LEMMA SentCounted ==
  (\A kind : All(out, kind)' = All(out', kind))
  /\ Pieced' = All(out', "sources") + All(out', "text")
<1>1. \A kind : All(out, kind)' = All(out', kind)
  BY DEF All, Among
<1> QED
  BY <1>1 DEF Pieced

\* Before the stream begins: the workflow, and events of its tools.
LEMMA IdleStep ==
  ASSUME StreamInv, closed = "idle", Workflow \/ CallbackEvent
  PROVE  StreamInv'
<1>1. /\ closed' = "idle" /\ out' = <<>> /\ out' = out /\ chatReady' = <<>> /\ eventReady' = <<>>
      /\ ~chatDone' /\ ~eventDone' /\ eventReady = <<>>
  BY DEF StreamInv, Workflow, CallbackEvent, OnEvent, streamVars
<1>2. Orderly(out)'
  BY <1>1 DEF Orderly
<1>3. All(out, "event")' = All(out, "event") /\ All(out, "event") = 0
  <2>1. {i \in 1 .. Len(out) : out[i].kind = "event"} = {}
    BY <1>1
  <2> QED
    BY <1>1, <2>1, NothingSent, FS_EmptySet DEF All, Among
<1>4. /\ emitted \in Seq(Events) /\ q \in Seq(Events) /\ Len(emitted) = Len(q)
      /\ \A i \in 1 .. Len(q) : q[i] = emitted[i]
  <2>1. Len(eventReady) = 0
    BY <1>1
  <2> QED
    BY <1>3, <2>1 DEF StreamInv
<1>5. /\ emitted' \in Seq(Events) /\ q' \in Seq(Events) /\ Len(emitted') = Len(q')
      /\ \A i \in 1 .. Len(q') : q'[i] = emitted'[i]
  <2> DEFINE e == [kind |-> "event", n |-> Len(emitted) + 1]
  <2>1. e \in Events
    BY <1>4 DEF Events
  <2>2. \/ UNCHANGED <<q, emitted>>
        \/ q' = Append(q, e) /\ emitted' = Append(emitted, e)
    BY Zenon DEF Workflow, CallbackEvent, OnEvent, streamVars
  <2> HIDE DEF e
  <2>3. CASE UNCHANGED <<q, emitted>>
    BY <1>4, <2>3
  <2>4. CASE q' = Append(q, e) /\ emitted' = Append(emitted, e)
    <3>1. /\ q' \in Seq(Events) /\ Len(q') = Len(q) + 1 /\ q'[Len(q) + 1] = e
          /\ \A i \in 1 .. Len(q) : q'[i] = q[i]
      BY <1>4, <2>1, <2>4
    <3>2. /\ emitted' \in Seq(Events) /\ Len(emitted') = Len(q) + 1 /\ emitted'[Len(q) + 1] = e
          /\ \A i \in 1 .. Len(q) : emitted'[i] = emitted[i]
      BY <1>4, <2>1, <2>4
    <3>3. Len(q) \in Nat /\ \A i \in 1 .. Len(q') : i \in 1 .. Len(q) \/ i = Len(q) + 1
      BY <1>4, <3>1
    <3> QED
      BY <1>4, <3>1, <3>2, <3>3
  <2> QED
    BY <2>2, <2>3, <2>4
<1>6. /\ Len(emitted') = All(out, "event")' + Len(eventReady') + Len(q')
      /\ \A i \in 1 .. Len(q') : q'[i] = emitted'[All(out, "event")' + Len(eventReady') + i]
  <2>1. Len(eventReady') = 0
    BY <1>1
  <2>2. \A i \in 1 .. Len(q') : 0 + 0 + i = i
    BY <1>5
  <2> QED
    BY <1>3, <1>5, <2>1, <2>2
<1> QED
  BY <1>1, <1>2, <1>5, <1>6 DEF StreamInv

\* The whole answer is left when the stream begins.
LEMMA BeginStep ==
  ASSUME AnswerInv, StreamInv, Respond
  PROVE  StreamInv'
<1> DEFINE texts == [k \in DOMAIN Answer |-> [kind |-> "text", n |-> Answer[k]]]
           first == [kind |-> "sources"]
<1>1. /\ closed = "idle" /\ closed' = "open" /\ chatLeft' = <<first>> \o texts
      /\ UNCHANGED <<q, chatDone, eventDone, chatReady, eventReady, out, emitted, shown, result>>
  BY DEF Respond, StreamBegins, chatVars, wfVars
<1>2. Len(Answer) \in Nat /\ DOMAIN Answer = 1 .. Len(Answer)
  BY AnswerIsList
<1>3. Answer' = Answer /\ Pieces' = Pieces /\ \A k : Piece(k)' = Piece(k)
  BY <1>1 DEF Answer, Pieces, Piece
<1>4. /\ texts \in Seq(Pieces) /\ Len(texts) = Len(Answer)
      /\ \A k \in 1 .. Len(Answer) : texts[k] = Piece(k + 1)
  <2>1. \A k \in 1 .. Len(Answer) : texts[k] = Piece(k + 1) /\ Piece(k + 1) \in Pieces
    BY <1>2 DEF Piece, Pieces
  <2>2. DOMAIN texts = 1 .. Len(Answer) /\ texts = [k \in 1 .. Len(Answer) |-> texts[k]]
    BY <1>2
  <2> HIDE DEF texts
  <2> QED
    BY <1>2, <2>1, <2>2
<1>5. first = Piece(1) /\ first \in Pieces
  BY <1>2 DEF Piece, Pieces
<1>6. /\ chatLeft' \in Seq(Pieces) /\ Len(chatLeft') = Len(Answer) + 1
      /\ \A i \in 1 .. Len(chatLeft') : chatLeft'[i] = Piece(i)
  <2> HIDE DEF texts, first
  <2> DEFINE one == <<first>>
  <2>1. one \in Seq(Pieces) /\ Len(one) = 1 /\ one[1] = first
    BY <1>5
  <2> HIDE DEF one
  <2>2. /\ one \o texts \in Seq(Pieces) /\ Len(one \o texts) = 1 + Len(Answer)
        /\ \A i \in 1 .. 1 + Len(Answer) :
              (one \o texts)[i] = IF i <= 1 THEN one[i] ELSE texts[i - 1]
    <3>1. /\ one \o texts \in Seq(Pieces) /\ Len(one \o texts) = Len(one) + Len(texts)
          /\ \A i \in 1 .. Len(one) + Len(texts) :
                (one \o texts)[i] = IF i <= Len(one) THEN one[i] ELSE texts[i - Len(one)]
      BY <1>4, <2>1, ConcatProperties, Zenon
    <3> QED
      BY <1>4, <2>1, <3>1
  <2>3. \A i \in 1 .. 1 + Len(Answer) : (one \o texts)[i] = Piece(i)
    BY <1>2, <1>4, <1>5, <2>1, <2>2
  <2> QED
    BY <1>1, <1>2, <2>2, <2>3 DEF one
<1>7. All(out, "sources") = 0 /\ All(out, "text") = 0
  <2>1. out = <<>>
    BY <1>1 DEF StreamInv
  <2>2. \A kind : {i \in 1 .. Len(out) : out[i].kind = kind} = {}
    BY <2>1
  <2> QED
    BY <2>2, FS_EmptySet DEF All, Among
<1>8. Pieced' = 0 /\ All(out, "sources")' = 0 /\ All(out, "event")' = All(out, "event")
  BY <1>1, <1>7, NothingSent DEF Pieced
<1>9. Orderly(out)'
  BY <1>1, OrderlyStays DEF StreamInv
<1>10. chatReady' = <<>> /\ Len(chatReady') = 0 /\ ~chatDone' /\ ~eventDone'
  BY <1>1 DEF StreamInv
<1>11. /\ Len(Answer') + 1 = Pieced' + Len(chatReady') + Len(chatLeft')
       /\ \A i \in 1 .. Len(chatLeft') :
             chatLeft'[i] = Piece(Pieced' + Len(chatReady') + i)
  <2>1. \A i \in 1 .. Len(chatLeft') : 0 + 0 + i = i
    BY <1>2, <1>6
  <2> QED
    BY <1>2, <1>3, <1>6, <1>8, <1>10, <2>1
<1>12. /\ q' \in Seq(Events) /\ emitted' \in Seq(Events)
       /\ Len(emitted') = All(out, "event")' + Len(eventReady') + Len(q')
       /\ \A i \in 1 .. Len(q') : q'[i] = emitted'[All(out, "event")' + Len(eventReady') + i]
       /\ eventReady' = <<>> \/ eventReady' = <<emitted'[All(out, "event")' + 1]>>
  BY <1>1, <1>8 DEF StreamInv
<1> HIDE DEF texts, first
<1> QED
  BY <1>1, <1>3, <1>6, <1>8, <1>9, <1>10, <1>11, <1>12 DEF StreamInv

\* The two lists of what is still to be sent, for an open stream.
EventsLeft ==
    /\ q \in Seq(Events)
    /\ Len(emitted) = All(out, "event") + Len(eventReady) + Len(q)
    /\ \A i \in 1 .. Len(q) : q[i] = emitted[All(out, "event") + Len(eventReady) + i]
    /\ eventReady = <<>> \/ eventReady = <<emitted[All(out, "event") + 1]>>
    /\ eventDone => q = <<>>
PiecesLeft ==
    /\ chatLeft \in Seq(Pieces)
    /\ Len(Answer) + 1 = Pieced + Len(chatReady) + Len(chatLeft)
    /\ \A i \in 1 .. Len(chatLeft) : chatLeft[i] = Piece(Pieced + Len(chatReady) + i)
    /\ chatReady = <<>> \/ chatReady = <<Piece(Pieced + 1)>>
    /\ All(out, "sources") = IF Pieced = 0 THEN 0 ELSE 1
    /\ chatDone => chatLeft = <<>>

LEMMA OpenIs ==
  ASSUME closed = "open"
  PROVE  StreamInv <=> emitted \in Seq(Events) /\ Orderly(out) /\ EventsLeft /\ PiecesLeft
  BY DEF StreamInv, EventsLeft, PiecesLeft

\* What is compared stays while the stream is open, and so does what is left
\* for a step that does not touch it.
LEMMA SameAnswer ==
  ASSUME UNCHANGED <<emitted, shown, result>>
  PROVE  /\ Answer' = Answer /\ Pieces' = Pieces /\ \A k : Piece(k)' = Piece(k)
         /\ EventsLeft /\ UNCHANGED <<q, eventReady, eventDone>>
               /\ All(out, "event")' = All(out, "event") => EventsLeft'
         /\ PiecesLeft /\ UNCHANGED <<chatLeft, chatReady, chatDone>> /\ Pieced' = Pieced
               /\ All(out, "sources")' = All(out, "sources") => PiecesLeft'
<1>1. Answer' = Answer
  BY DEF Answer
<1>2. Pieces' = Pieces /\ \A k : Piece(k)' = Piece(k)
  BY <1>1 DEF Pieces, Piece
<1>3. ASSUME EventsLeft, UNCHANGED <<q, eventReady, eventDone>>,
             All(out, "event")' = All(out, "event")
      PROVE  EventsLeft'
  BY <1>3 DEF EventsLeft
<1>4. ASSUME PiecesLeft, UNCHANGED <<chatLeft, chatReady, chatDone>>, Pieced' = Pieced,
             All(out, "sources")' = All(out, "sources")
      PROVE  PiecesLeft'
  BY <1>1, <1>2, <1>4 DEF PiecesLeft
<1> QED
  BY <1>1, <1>2, <1>3, <1>4

\* The generators hand over the next piece, the next event.
LEMMA YieldStep ==
  ASSUME AnswerInv, StreamInv, Generators, UNCHANGED <<emitted, shown, result>>
  PROVE  StreamInv'
<1>1. closed = "open" /\ closed' = "open" /\ UNCHANGED out
  BY DEF Generators, ChatYields, ChatReturns, EventYields, EventsReturn
<1>2. emitted \in Seq(Events) /\ Orderly(out) /\ EventsLeft /\ PiecesLeft
  BY <1>1, OpenIs
<1>3. (\A kind : All(out, kind)' = All(out, kind) /\ All(out, kind) \in Nat) /\ Pieced' = Pieced
  BY <1>1, <1>2, NothingSent, OutCounts
<1>4. Pieced \in Nat
  BY <1>3 DEF Pieced
<1>5. emitted' \in Seq(Events) /\ Orderly(out)'
  BY <1>1, <1>2, OrderlyStays
<1>6. CASE ChatYields
  <2>1. /\ chatReady = <<>> /\ chatLeft # <<>> /\ chatReady' = <<Head(chatLeft)>>
        /\ chatLeft' = Tail(chatLeft) /\ UNCHANGED <<q, eventReady, eventDone, chatDone>>
    BY <1>6 DEF ChatYields
  <2>2. EventsLeft'
    BY <1>2, <1>3, <2>1, SameAnswer
  <2>3. /\ Len(chatReady) = 0 /\ Len(chatReady') = 1 /\ chatReady' = <<Piece(Pieced + 1)>>
    <3>1. Len(chatReady) = 0 /\ 1 \in 1 .. Len(chatLeft)
      BY <1>2, <2>1 DEF PiecesLeft
    <3>2. chatLeft[1] = Piece(Pieced + 0 + 1) /\ Pieced + 0 + 1 = Pieced + 1
      BY <1>2, <1>4, <3>1 DEF PiecesLeft
    <3> QED
      BY <2>1, <3>1, <3>2
  <2>4. /\ chatLeft' \in Seq(Pieces) /\ Len(chatLeft') = Len(chatLeft) - 1
        /\ \A i \in 1 .. Len(chatLeft') : i + 1 \in 1 .. Len(chatLeft) /\ chatLeft'[i] = chatLeft[i + 1]
    BY <1>2, <2>1 DEF PiecesLeft
  <2>5. \A i \in 1 .. Len(chatLeft') : chatLeft'[i] = Piece(Pieced + 1 + i)
    <3> SUFFICES ASSUME NEW i \in 1 .. Len(chatLeft') PROVE chatLeft'[i] = Piece(Pieced + 1 + i)
      OBVIOUS
    <3>1. Pieced + 0 + (i + 1) = Pieced + 1 + i
      BY <1>4
    <3> QED
      BY <1>2, <2>3, <2>4, <3>1 DEF PiecesLeft
  <2>6. Len(Answer) + 1 = Pieced + 1 + Len(chatLeft')
    BY <1>2, <1>4, <2>3, <2>4 DEF PiecesLeft
  <2>7. PiecesLeft'
    <3>1. chatDone' => chatLeft' = <<>>
      BY <1>2, <2>1 DEF PiecesLeft
    <3> QED
      BY <1>2, <1>3, <2>3, <2>4, <2>5, <2>6, <3>1, SameAnswer DEF PiecesLeft
  <2> QED
    BY <1>1, <1>5, <2>2, <2>7 DEF StreamInv, EventsLeft, PiecesLeft
<1>7. CASE ChatReturns
  <2>1. chatLeft = <<>> /\ UNCHANGED <<q, eventReady, eventDone, chatLeft, chatReady>>
    BY <1>7 DEF ChatReturns
  <2>2. EventsLeft'
    BY <1>2, <1>3, <2>1, SameAnswer
  <2>3. PiecesLeft'
    BY <1>2, <1>3, <2>1, SameAnswer DEF PiecesLeft
  <2> QED
    BY <1>1, <1>5, <2>2, <2>3 DEF StreamInv, EventsLeft, PiecesLeft
<1>8. CASE EventYields
  <2>1. /\ eventReady = <<>> /\ q # <<>> /\ ~eventDone /\ eventReady' = <<Head(q)>>
        /\ q' = Tail(q) /\ UNCHANGED <<chatLeft, chatReady, chatDone, eventDone>>
    BY <1>8 DEF EventYields
  <2>2. PiecesLeft'
    BY <1>2, <1>3, <2>1, SameAnswer
  <2> DEFINE E == All(out, "event")
  <2>3. Len(eventReady) = 0 /\ Len(eventReady') = 1 /\ eventReady' = <<emitted[E + 1]>>
    <3>1. Len(eventReady) = 0 /\ 1 \in 1 .. Len(q)
      BY <1>2, <2>1 DEF EventsLeft
    <3>2. q[1] = emitted[E + 0 + 1] /\ E + 0 + 1 = E + 1
      BY <1>2, <1>3, <3>1 DEF EventsLeft
    <3> QED
      BY <2>1, <3>1, <3>2
  <2>4. /\ q' \in Seq(Events) /\ Len(q') = Len(q) - 1
        /\ \A i \in 1 .. Len(q') : i + 1 \in 1 .. Len(q) /\ q'[i] = q[i + 1]
    BY <1>2, <2>1 DEF EventsLeft
  <2>5. \A i \in 1 .. Len(q') : q'[i] = emitted[E + 1 + i]
    <3> SUFFICES ASSUME NEW i \in 1 .. Len(q') PROVE q'[i] = emitted[E + 1 + i]
      OBVIOUS
    <3>1. E + 0 + (i + 1) = E + 1 + i
      BY <1>3
    <3> QED
      BY <1>2, <2>3, <2>4, <3>1 DEF EventsLeft
  <2>6. Len(emitted) = E + 1 + Len(q')
    BY <1>2, <1>3, <2>3, <2>4 DEF EventsLeft
  <2>7. EventsLeft'
    BY <1>3, <2>1, <2>3, <2>4, <2>5, <2>6 DEF EventsLeft
  <2> QED
    BY <1>1, <1>5, <2>2, <2>7 DEF StreamInv, EventsLeft, PiecesLeft
<1>9. CASE EventsReturn
  <2>1. q = <<>> /\ UNCHANGED <<q, eventReady, chatDone, chatLeft, chatReady>>
    BY <1>9 DEF EventsReturn, EventsExhausted
  <2>2. EventsLeft'
    BY <1>2, <1>3, <2>1 DEF EventsLeft
  <2>3. PiecesLeft'
    BY <1>2, <1>3, <2>1, SameAnswer
  <2> QED
    BY <1>1, <1>5, <2>2, <2>3 DEF StreamInv, EventsLeft, PiecesLeft
<1> QED
  BY <1>6, <1>7, <1>8, <1>9 DEF Generators

\* A client that left gets nothing more; nothing is out of order for it.
LEMMA BreaksOff ==
  ASSUME AnswerInv, StreamInv, UNCHANGED <<emitted, shown, result>>, Orderly(out'),
         closed' \in {"broken", "error"}
  PROVE  StreamInv'
  BY OrderlyStays DEF StreamInv

LEMMA SendChatStep ==
  ASSUME AnswerInv, StreamInv, SendChat, UNCHANGED <<emitted, shown, result>>
  PROVE  StreamInv'
<1>1. closed = "open" /\ chatReady # <<>> /\ chatReady' = <<>>
      /\ UNCHANGED <<q, chatLeft, chatDone, eventDone, eventReady>>
  BY DEF SendChat
<1>2. emitted \in Seq(Events) /\ Orderly(out) /\ EventsLeft /\ PiecesLeft
  BY <1>1, OpenIs
<1>3. CASE gone
  <2>1. closed' = "broken" /\ out' = out
    BY <1>3 DEF SendChat, Pass
  <2> QED
    BY <1>2, <2>1, BreaksOff
<1>4. CASE ~gone
  <2> DEFINE x == Piece(Pieced + 1)
  <2>1. chatReady = <<x>> /\ Head(chatReady) = x /\ Len(chatReady) = 1 /\ Len(chatReady') = 0
    BY <1>1, <1>2 DEF PiecesLeft
  <2>2. closed' = "open" /\ out' = (IF out = <<>> THEN <<Blank>> ELSE out) \o <<x>>
    BY <1>1, <1>4, <2>1 DEF SendChat, Pass
  <2>3. \A kind : All(out, kind) \in Nat
    BY <1>2, OutCounts
  <2>4. Pieced \in Nat /\ Pieced = All(out, "sources") + All(out, "text")
        /\ Len(chatLeft) \in Nat /\ Len(Answer) \in Nat
    BY <1>2, <2>3, AnswerIsList DEF Pieced, PiecesLeft
  <2>5. Pieced + 1 \in 1 .. Len(Answer) + 1
    BY <1>2, <2>1, <2>4 DEF PiecesLeft
  <2>6. x \in Things
    BY <2>5 DEF Things, Pieces
  <2>7. x.kind = IF Pieced = 0 THEN "sources" ELSE "text"
    BY <2>4 DEF Piece
  <2>8. Pieced > 0 => /\ All(out, "sources") = 1 /\ All(out, "text") + 1 = Pieced
                      /\ x.n = Answer[Pieced] /\ Pieced <= Len(Answer)
    <3> SUFFICES ASSUME Pieced > 0
                 PROVE  /\ All(out, "sources") = 1 /\ All(out, "text") + 1 = Pieced
                        /\ x.n = Answer[Pieced] /\ Pieced <= Len(Answer)
      OBVIOUS
    <3>1. All(out, "sources") = 1
      BY <1>2, <2>4 DEF PiecesLeft
    <3>2. All(out, "text") + 1 = Pieced
      <4> HIDE DEF Pieced
      <4> QED
        BY <2>3, <2>4, <3>1
    <3>3. Pieced <= Len(Answer) /\ Pieced + 1 # 1 /\ (Pieced + 1) - 1 = Pieced
      BY <2>4, <2>5
    <3>4. x.n = Answer[(Pieced + 1) - 1]
      BY <3>3 DEF Piece
    <3> QED
      BY <3>1, <3>2, <3>3, <3>4
  <2> HIDE DEF x
  <2>9. /\ Orderly(out')
        /\ \A kind \in {"event", "text", "sources"} :
              All(out', kind) = All(out, kind) + (IF x.kind = kind THEN 1 ELSE 0)
    <3>1. x.kind = "text" => /\ All(out, "text") + 1 <= Len(Answer)
                             /\ x.n = Answer[All(out, "text") + 1] /\ All(out, "sources") = 1
      BY <2>4, <2>7, <2>8
    <3> QED
      BY <1>2, <2>2, <2>6, <2>7, <3>1, PassGrows
  <2>10. /\ All(out, "event")' = All(out, "event") /\ Pieced' = Pieced + 1
         /\ All(out, "sources")' = 1
    <3>1. CASE Pieced = 0
      BY <1>2, <2>3, <2>4, <2>7, <2>9, <3>1, SentCounted DEF PiecesLeft
    <3>2. CASE Pieced # 0
      BY <2>3, <2>4, <2>7, <2>8, <2>9, <3>2, SentCounted
    <3> QED
      BY <3>1, <3>2
  <2>11. EventsLeft'
    BY <1>1, <1>2, <2>10, SameAnswer
  <2>12. \A i \in 1 .. Len(chatLeft) : chatLeft[i] = Piece(Pieced + 1 + 0 + i)
    <3> SUFFICES ASSUME NEW i \in 1 .. Len(chatLeft) PROVE chatLeft[i] = Piece(Pieced + 1 + 0 + i)
      OBVIOUS
    <3>1. Pieced + 1 + i = Pieced + 1 + 0 + i
      BY <2>4
    <3> QED
      BY <1>2, <2>1, <3>1 DEF PiecesLeft
  <2>13. Len(Answer) + 1 = (Pieced + 1) + 0 + Len(chatLeft)
    BY <1>2, <2>1, <2>4 DEF PiecesLeft
  <2>14. PiecesLeft'
    BY <1>1, <1>2, <2>1, <2>4, <2>10, <2>12, <2>13, SameAnswer DEF PiecesLeft
  <2>15. emitted' \in Seq(Events) /\ Orderly(out)'
    BY <1>2, <2>9, OrderlyStays
  <2> QED
    BY <2>2, <2>11, <2>14, <2>15 DEF StreamInv, EventsLeft, PiecesLeft
<1> QED
  BY <1>3, <1>4

LEMMA SendEventStep ==
  ASSUME AnswerInv, StreamInv, SendEvent, UNCHANGED <<emitted, shown, result>>
  PROVE  StreamInv'
<1>1. closed = "open" /\ eventReady # <<>> /\ eventReady' = <<>>
      /\ UNCHANGED <<q, chatLeft, chatDone, eventDone, chatReady>>
  BY DEF SendEvent
<1>2. emitted \in Seq(Events) /\ Orderly(out) /\ EventsLeft /\ PiecesLeft
  BY <1>1, OpenIs
<1>3. CASE gone
  <2>1. closed' = "broken" /\ out' = out
    BY <1>3 DEF SendEvent, Pass
  <2> QED
    BY <1>2, <2>1, BreaksOff
<1>4. CASE ~gone
  <2> DEFINE E == All(out, "event")
             x == emitted[E + 1]
  <2>1. eventReady = <<x>> /\ Head(eventReady) = x /\ Len(eventReady) = 1 /\ Len(eventReady') = 0
    BY <1>1, <1>2 DEF EventsLeft
  <2>2. closed' = "open" /\ out' = (IF out = <<>> THEN <<Blank>> ELSE out) \o <<x>>
    BY <1>1, <1>4, <2>1 DEF SendEvent, Pass
  <2>3. \A kind : All(out, kind) \in Nat
    BY <1>2, OutCounts
  <2>4. E \in Nat /\ Len(q) \in Nat /\ Len(emitted) \in Nat
    BY <1>2, <2>3 DEF EventsLeft
  <2>5. E + 1 \in 1 .. Len(emitted) /\ E + 1 <= Len(emitted)
    BY <1>2, <2>1, <2>4 DEF EventsLeft
  <2>6. x \in Events /\ x \in Things /\ x.kind = "event"
    <3>1. x \in Events
      BY <1>2, <2>5
    <3> HIDE DEF x
    <3> QED
      BY <3>1 DEF Things, Events
  <2>7. /\ Orderly(out')
        /\ \A kind \in {"event", "text", "sources"} :
              All(out', kind) = All(out, kind) + (IF x.kind = kind THEN 1 ELSE 0)
    BY <1>2, <2>2, <2>5, <2>6, PassGrows
  <2>8. /\ All(out, "event")' = E + 1 /\ Pieced' = Pieced
        /\ All(out, "sources")' = All(out, "sources")
    BY <2>3, <2>6, <2>7, SentCounted DEF Pieced
  <2> HIDE DEF E, x
  <2>9. PiecesLeft'
    BY <1>1, <1>2, <2>8, SameAnswer
  <2>10. \A i \in 1 .. Len(q) : q[i] = emitted[E + 1 + 0 + i]
    <3> SUFFICES ASSUME NEW i \in 1 .. Len(q) PROVE q[i] = emitted[E + 1 + 0 + i]
      OBVIOUS
    <3>1. E + 1 + i = E + 1 + 0 + i
      BY <2>4
    <3> QED
      BY <1>2, <2>1, <3>1 DEF EventsLeft, E
  <2>11. Len(emitted) = (E + 1) + 0 + Len(q)
    BY <1>2, <2>1, <2>4 DEF EventsLeft, E
  <2>12. EventsLeft'
    BY <1>1, <1>2, <2>1, <2>8, <2>10, <2>11 DEF EventsLeft
  <2>13. emitted' \in Seq(Events) /\ Orderly(out)'
    BY <1>2, <2>7, OrderlyStays
  <2> QED
    BY <2>2, <2>9, <2>12, <2>13 DEF StreamInv, EventsLeft, PiecesLeft
<1> QED
  BY <1>3, <1>4

\* The other steps of an open stream.
LEMMA EndStep ==
  ASSUME AnswerInv, StreamInv, StreamEnds, UNCHANGED <<emitted, shown, result>>
  PROVE  StreamInv'
<1>1. closed = "open" /\ closed' = "ended" /\ UNCHANGED out
      /\ chatDone /\ eventDone /\ chatReady = <<>> /\ eventReady = <<>>
  BY DEF StreamEnds
<1>2. emitted \in Seq(Events) /\ Orderly(out) /\ EventsLeft /\ PiecesLeft
  BY <1>1, OpenIs
<1>3. (\A kind : All(out, kind)' = All(out, kind) /\ All(out, kind) \in Nat) /\ Len(Answer) \in Nat
  BY <1>1, <1>2, NothingSent, OutCounts, AnswerIsList
<1>4. Len(q) = 0 /\ Len(chatLeft) = 0 /\ Len(chatReady) = 0 /\ Len(eventReady) = 0
  BY <1>1, <1>2 DEF EventsLeft, PiecesLeft
<1>5. All(out, "event") = Len(emitted)
  BY <1>2, <1>3, <1>4 DEF EventsLeft
<1>6. All(out, "sources") = 1 /\ All(out, "text") = Len(Answer)
  BY <1>2, <1>3, <1>4 DEF PiecesLeft, Pieced
<1>7. Answer' = Answer /\ Orderly(out)'
  BY <1>1, <1>2, SameAnswer, OrderlyStays
<1> QED
  BY <1>1, <1>2, <1>3, <1>5, <1>6, <1>7 DEF StreamInv

LEMMA RaiseStep ==
  ASSUME AnswerInv, StreamInv, StreamRaises, UNCHANGED <<emitted, shown, result>>
  PROVE  StreamInv'
<1>1. closed' = "error" /\ out' = Append(out, ErrorChunk)
  BY DEF StreamRaises
<1>2. ErrorChunk \in Things /\ ErrorChunk.kind = "error"
  BY DEF Things, ErrorChunk
<1>3. Orderly(Append(out, ErrorChunk))
  BY <1>2, OrderlyGrows DEF StreamInv
<1> QED
  BY <1>1, <1>3, BreaksOff

LEMMA LeaveStep ==
  ASSUME AnswerInv, StreamInv, ClientLeaves, UNCHANGED <<emitted, shown, result>>
  PROVE  StreamInv'
<1>1. closed = "open" /\ closed' = "open" /\ UNCHANGED out
      /\ UNCHANGED <<q, chatLeft, chatDone, eventDone, chatReady, eventReady>>
  BY DEF ClientLeaves
<1>2. emitted \in Seq(Events) /\ Orderly(out) /\ EventsLeft /\ PiecesLeft
  BY <1>1, OpenIs
<1>3. EventsLeft' /\ PiecesLeft' /\ Orderly(out)' /\ emitted' \in Seq(Events)
  BY <1>1, <1>2, NothingSent, SameAnswer, OrderlyStays
<1> QED
  BY <1>1, <1>3 DEF StreamInv, EventsLeft, PiecesLeft

LEMMA StreamInvStep ==
  ASSUME AnswerInv, StreamInv, [Next]_requestVars
  PROVE  StreamInv'
<1>1. CASE Workflow
  BY <1>1, IdleStep DEF Workflow
<1>2. CASE CallbackEvent
  BY <1>2, IdleStep DEF CallbackEvent, OnEvent
<1>3. CASE Respond
  BY <1>3, BeginStep
<1>4. CASE Streaming
  <2>1. UNCHANGED <<emitted, shown, result>>
    BY <1>4 DEF Streaming, chatVars, wfVars
  <2> QED
    BY <1>4, <2>1, YieldStep, SendChatStep, SendEventStep, EndStep, RaiseStep, LeaveStep
    DEF Streaming, StreamStep, Consumer
<1>5. CASE UNCHANGED requestVars
  <2>1. UNCHANGED <<emitted, shown, result, q, chatLeft, chatDone, eventDone, chatReady,
                    eventReady, out, closed>>
    BY <1>5 DEF requestVars, chatVars, wfVars, streamVars
  <2>2. Orderly(out)'
    BY <2>1, OrderlyStays DEF StreamInv
  <2> QED
    BY <2>1, <2>2, NothingSent, SameAnswer DEF StreamInv
<1> QED
  BY <1>1, <1>2, <1>3, <1>4, <1>5 DEF Next

----------------------------------------------------------------------------
(* The request.                                                              *)

ChatInv == CallsInv /\ HandInv /\ ExecInv /\ TalkInv

\* The stream does not touch the workflow.
LEMMA RequestStep == ASSUME [Next]_requestVars PROVE [ChatStep]_chatVars
  BY DEF Next, Workflow, CallbackEvent, Respond, Streaming, requestVars

LEMMA ChatInvInit == ASSUME Init PROVE ChatInv
<1>1. ChatInit
  BY DEF Init
<1>2. HandInv
  BY <1>1 DEF ChatInit, HandInv
<1>3. TalkInv
  <2>1. memory = <<[role |-> "user", round |-> 0, n |-> 0]>> /\ scratch = <<>>
    BY <1>1 DEF ChatInit
  <2>2. memory \in Seq(Messages) /\ scratch \in Seq(Messages)
    BY <2>1 DEF Messages
  <2>3. Prompt = <<[role |-> "user", round |-> 0, n |-> 0]>>
    BY <2>1, <2>2, ConcatEmptySeq DEF Prompt
  <2> QED
    BY <1>1, <2>2, <2>3 DEF ChatInit, TalkInv
<1> QED
  BY <1>1, <1>2, <1>3, CallsInit, ExecStarts DEF ChatInv

LEMMA ChatInvStep == ASSUME ChatInv, [Next]_requestVars PROVE ChatInv'
  BY RequestStep, CallsStep, HandStep, ExecStep, TalkStep DEF ChatInv

LEMMA ChatInvHolds == Spec => []ChatInv
  BY ChatInvInit, ChatInvStep, PTL DEF Spec

\* Whatever the order in which the calls of a round return, the model is
\* asked again only with exactly their results after its message.
THEOREM AsksGetTheirResults == Spec => []ResultsFollowAsks
<1>1. ChatInv => ResultsFollowAsks
  BY DEF ChatInv, TalkInv, ResultsFollowAsks, Answered, Prompt
<1> QED
  BY <1>1, ChatInvHolds, PTL

\* A run that met no other captured its own prints, and an undisturbed
\* process has its output back.
THEOREM AloneRunsAreWhole == Spec => []AloneCapturesOwn
<1>1. ChatInv => AloneCapturesOwn
  BY DEF ChatInv, ExecInv, StdoutInv, AloneCapturesOwn
<1> QED
  BY <1>1, ChatInvHolds, PTL

\* Control goes only where a handoff call of the round sent it.
THEOREM HandoffsMoveControl == Spec => ControlMovesByHandoff
<1> DEFINE Moved == current' # current =>
                      \E i \in DOMAIN calls : /\ calls[i].tool = Handoff
                                              /\ calls[i].target = current'
                                              /\ current' \in HandoffTo[current]
<1>1. ASSUME ChatInv, [ChatStep]_chatVars, current' # current PROVE Moved
  <2>1. AggregateToolResults
    BY <1>1 DEF ChatStep, RunAgentStep, AgentStepFails, ParseAgentOutput, StartCall,
                CodePrints, FinishCall, chatVars, wfVars
  <2>2. current' = nextAgent /\ nextAgent # None /\ phase = "tools"
    BY <1>1, <2>1 DEF AggregateToolResults
  <2> QED
    BY <1>1, <2>2 DEF ChatInv, HandInv, Named, HandoffAllowed
<1>2. ChatInv /\ [Next]_requestVars => [Moved]_requestVars
  BY <1>1, RequestStep
<1> QED
  BY <1>2, ChatInvHolds, PTL DEF Spec, ControlMovesByHandoff

\* A stream that ended sent every event and the whole answer, in order, and
\* one that broke off a part of each from its beginning.
THEOREM StreamsAreWhole == Spec => []StreamedWhole
<1> DEFINE Inv == CallsInv /\ AnswerInv /\ StreamInv
<1>1. Init => Inv
  BY CallsInit, StreamStarts DEF Init
<1>2. Inv /\ [Next]_requestVars => Inv'
  BY RequestStep, CallsStep, AnswerStep, StreamInvStep
<1>3. Inv => StreamedWhole
  <2> SUFFICES ASSUME Inv PROVE StreamedWhole
    OBVIOUS
  <2>1. \A kind, j : Sent(kind, j) = Among(out, kind, j)
    BY DEF Sent, Among
  <2>2. emitted \in Seq(Events) /\ Orderly(out)
    BY DEF StreamInv
  <2>3. DOMAIN out = 1 .. Len(out) /\ DOMAIN emitted = 1 .. Len(emitted)
        /\ DOMAIN Answer = 1 .. Len(Answer)
    BY <2>2, AnswerIsList DEF Orderly
  <2>4. InOrder("event", [k \in DOMAIN emitted |-> emitted[k].n])
    BY <2>1, <2>2, <2>3 DEF InOrder, Orderly
  <2>5. InOrder("text", Answer)
    BY <2>1, <2>2, <2>3 DEF InOrder, Orderly
  <2>6. closed = "ended" =>
           /\ Sent("event", Len(out)) = Len(emitted) /\ Sent("text", Len(out)) = Len(Answer)
           /\ Sent("sources", Len(out)) = 1
    BY <2>1 DEF StreamInv, All
  <2>7. \A j \in DOMAIN out : out[j].kind = "text" => Sent("sources", j) = 1
    BY <2>1, <2>2, <2>3 DEF Orderly
  <2> QED
    BY <2>4, <2>5, <2>6, <2>7 DEF StreamedWhole
<1> QED
  BY <1>1, <1>2, <1>3, PTL DEF Spec

-----------------------------------------------------------------------------
(* Startup.  StartupInv describes each process by its pc: who has a probe    *)
(* row (ProbeInv), where retrieval is served (ReadyInv), what the index      *)
(* report rests on (ReportInv) and whom a server on its way to the pipeline  *)
(* has raced with (RaceInv).                                                 *)

\* Who may have a probe row of its current run in the table.
ProbeInv ==
    \A p \in Procs :
        Run(p) \in probes =>
            \/ pc[p] \in {"unprobe", "down", "exited"}
            \/ At(p, "up") /\ p \notin retrieval

\* Rows carry the number of a start that happened.
RowInv == \A r \in chunks \union probes : r[2] <= starts[r[1]]

\* Where lifespan is when the retrieval state is set, and where the script
\* never is.
ReadyInv ==
    \A p \in Procs :
        /\ p \in retrieval => pc[p] \in {"plans", "up"}
        /\ p \in Scripts =>
              pc[p] \notin {"count", "clusters", "retriever", "plans", "up"}

\* What the index report rests on.
ReportInv ==
    \A p \in Procs :
        /\ indexing[p] = "indexed" => Run(p) \in chunks
        /\ indexing[p] = "populated" => counted[p] # {}
        /\ pc[p] \in {"down", "exited", "check", "create", "connect", "count",
                      "load", "index"} => indexing[p] = "none"
        /\ p \in Scripts => indexing[p] = "none"
        /\ p \in Servers /\ IndexOnStart => indexing[p] # "off"
        /\ p \in Servers /\ (pc[p] \in {"clusters", "retriever", "plans"}
                             \/ p \in retrieval) => indexing[p] # "none"

Raced(r, other) == {<<r, other>>, <<other, r>>} \intersect raced # {}

\* Races are between servers that are two; two servers on their way to the
\* pipeline have raced; and one whose count was answered has raced with every
\* server's run that has written since.
RaceInv ==
    /\ \A pair \in raced : pair[1][1] # pair[2][1]
    /\ \A p, srv \in Servers :
          p # srv /\ Indexing(p) /\ Indexing(srv) => Raced(Run(p), Run(srv))
    /\ \A p \in Servers :
          Indexing(p) /\ Run(p) \notin blind =>
              \A r \in chunks : r[1] \in Servers => Raced(r, Run(p))

StartupInv ==
    /\ ProbeInv
    /\ RowInv
    /\ ReadyInv
    /\ ReportInv
    /\ RaceInv
    /\ IndexedOnce

-----------------------------------------------------------------------------
(* Types                                                                    *)

\* A step of process p.
StepOf(p) ==
    \/ Start(p) \/ Stop(p)
    \/ CheckDatabase(p) \/ CreateDatabase(p) \/ Connect(p)
    \/ CountNodes(p) \/ LoadDirectory(p) \/ ProbeAdd(p) \/ ProbeDelete(p)
    \/ RunPipeline(p)
    \/ BuildClusters(p) \/ CreateRetriever(p) \/ BuildPlanStore(p)
    \/ CallRaises(p)


\* With the types: a process that is not down was started, and lifespan
\* builds the plan store after the retrieval state.
TypeInv ==
    /\ TypeOK
    /\ \A p \in Procs :
          /\ ~At(p, "down") => starts[p] # 0
          /\ At(p, "plans") => p \in retrieval

USE DEF Procs, database, inProcess, history

\* A process that was started is in one of its runs.
LEMMA RunTyped ==
  ASSUME TypeOK, NEW p \in Procs, starts[p] # 0
  PROVE  Run(p) \in Runs
BY StartupAssumption, SMT DEF TypeOK, Run, Runs

\* The types hold at first ...
LEMMA TypeInit == StartupInit => TypeInv
BY StartupAssumption, SMT DEF StartupInit, TypeInv, TypeOK, At, Calls

\* ... and every step of a process keeps them ...
LEMMA TypeStep ==
  ASSUME TypeInv, NEW p \in Procs, StepOf(p)
  PROVE  TypeInv'
<1> USE DEF TypeInv, TypeOK, Calls
<1>0. starts[p] # 0 => Run(p) \in Runs
  BY RunTyped
<1>a. MaxFaults \in Nat /\ \A other \in Procs : MaxStarts[other] \in Nat
  BY StartupAssumption
<1>1. CASE Start(p)
  BY <1>1, <1>a, SMTT(60) DEF Start, Goto, At
<1>2. CASE Stop(p)
  BY <1>2, SMTT(60) DEF Stop, Goto, At
<1>3. CASE CheckDatabase(p)
  BY <1>3, <1>0, SMTT(60) DEF CheckDatabase, At, Goto
<1>4. CASE CreateDatabase(p)
  BY <1>4, <1>0, SMTT(60) DEF CreateDatabase, Abort, At, Goto
<1>5. CASE Connect(p)
  BY <1>5, <1>0, SMTT(60) DEF Connect, At, Goto
<1>6. CASE CountNodes(p)
  <2>1. /\ counted' \in [Procs -> SUBSET Runs]
        /\ blind' \subseteq Runs
        /\ faults' \in 0..MaxFaults
    BY <1>6, <1>0, <1>a, SMTT(60) DEF CountNodes, At
  <2>2. /\ pc' \in [Procs -> Calls \union {"down", "up", "exited"}]
        /\ \A other \in Procs : other # p => pc'[other] = pc[other]
        /\ pc'[p] \in {"clusters", "load"}
        /\ indexing' \in [Procs -> {"none", "off", "populated", "indexed"}]
    BY <1>6, SMTT(60) DEF CountNodes, Goto
  <2>3. raced' \subseteq Runs \X Runs
    <3>1. \A srv \in Servers : Indexing(srv) => Run(srv) \in Runs
      BY RunTyped, SMT DEF Indexing, At
    <3>2. Run(p) \in Runs
      BY <1>6, <1>0 DEF CountNodes, At
    <3> QED
      BY <1>6, <3>1, <3>2, SMT DEF CountNodes, MeetsIndexing
  <2> QED
    BY <1>6, <2>1, <2>2, <2>3, SMTT(60) DEF CountNodes, At
<1>7. CASE LoadDirectory(p)
  BY <1>7, <1>0, SMTT(60) DEF LoadDirectory, At, Goto
<1>8. CASE ProbeAdd(p)
  BY <1>8, <1>0, SMTT(60) DEF ProbeAdd, At, Goto
<1>9. CASE ProbeDelete(p)
  BY <1>9, <1>0, SMTT(60) DEF ProbeDelete, At, Goto
<1>10. CASE RunPipeline(p)
  BY <1>10, <1>0, SMTT(60) DEF RunPipeline, At, Goto
<1>11. CASE BuildClusters(p)
  BY <1>11, <1>0, SMTT(60) DEF BuildClusters, Abort, At, Goto
<1>12. CASE CreateRetriever(p)
  BY <1>12, <1>0, SMTT(60) DEF CreateRetriever, At, Goto
<1>13. CASE BuildPlanStore(p)
  BY <1>13, <1>0, SMTT(60) DEF BuildPlanStore, At, Goto
<1>14. CASE CallRaises(p)
  <2>1. /\ pc' \in [Procs -> Calls \union {"down", "up", "exited"}]
        /\ \A other \in Procs : other # p => pc'[other] = pc[other]
        /\ (pc'[p] = "up" /\ p \in failed') \/ pc'[p] = "exited"
        /\ failed' \subseteq Procs /\ failed \subseteq failed'
    BY <1>14, SMTT(60) DEF CallRaises, Abort, Goto
  <2>2. starts[p] # 0
    BY <1>14, SMT DEF CallRaises, At
  <2>3. MayHaveHappened(p) /\ Run(p) \in Runs
    BY <1>14, <2>2, <1>0 DEF CallRaises
  <2>5. made' \subseteq {"database", "table"}
    <3>1. made' = made \/ made' = made \union {"database"}
          \/ made' = made \union {"table"}
      BY <2>3 DEF MayHaveHappened
    <3>2. made \subseteq {"database", "table"}
      OBVIOUS
    <3> QED
      BY <3>1, <3>2, Zenon
  <2>6. chunks' \subseteq Runs /\ probes' \subseteq Runs
    BY <2>3, SMT DEF MayHaveHappened
  <2>4. store' \subseteq Procs /\ faults' \in 0..MaxFaults
    BY <1>14, <1>a, SMT DEF CallRaises
  <2> QED
    BY <1>14, <2>1, <2>2, <2>3, <2>4, <2>5, <2>6, SMTT(60) DEF CallRaises, At
<1> QED
  BY <1>1, <1>2, <1>3, <1>4, <1>5, <1>6, <1>7, <1>8, <1>9, <1>10, <1>11, <1>12, <1>13, <1>14, Zenon DEF StepOf

\* ... as does a step that changes nothing.
LEMMA TypeStutter == TypeInv /\ UNCHANGED vars => TypeInv'
BY SMT DEF TypeInv, TypeOK, vars, At

-----------------------------------------------------------------------------
(* The inductive invariant                                                  *)

\* The parts of a row.
LEMMA RowParts ==
  ASSUME TypeInv, NEW r \in chunks \union probes
  PROVE  r[1] \in Procs /\ r[2] \in Nat
BY StartupAssumption, SMT DEF TypeInv, TypeOK, Runs

\* Seen from outside, a start changes the caller's number and call.
LEMMA StartEffect ==
  ASSUME TypeInv, NEW p \in Procs, Start(p)
  PROVE  /\ pc[p] \in {"down", "exited"} /\ pc'[p] \in {"check", "load"}
         /\ p \in Servers => pc'[p] = "check"
         /\ starts'[p] = starts[p] + 1
         /\ \A other \in Procs : other # p => starts'[other] = starts[other] /\ pc'[other] = pc[other]
                                      /\ counted'[other] = counted[other]
         /\ UNCHANGED <<database, inProcess, blind, raced>>
BY SMTT(60) DEF TypeInv, TypeOK, Start, Goto

\* ... and so is a call that raises.
LEMMA RaiseEffect ==
  ASSUME TypeInv, NEW p \in Procs, CallRaises(p)
  PROVE  /\ pc[p] \in Calls \ {"count"}
         /\ \/ p \in Servers /\ pc'[p] = "up"
            \/ p \in Scripts /\ pc'[p] = "exited"
         /\ \A other \in Procs : other # p => pc'[other] = pc[other]
         /\ \/ chunks' = chunks
            \/ pc[p] = "index" /\ chunks' = chunks \union {Run(p)}
         /\ \/ probes' = probes
            \/ pc[p] = "probe" /\ probes' = probes \union {Run(p)}
            \/ pc[p] = "unprobe" /\ probes' = probes \ {Run(p)}
         /\ UNCHANGED <<starts, indexing, retrieval, plans, history>>
<1>1. MayHaveHappened(p) /\ Abort(p)
  BY DEF CallRaises
<1>2. /\ \/ chunks' = chunks
         \/ pc[p] = "index" /\ chunks' = chunks \union {Run(p)}
      /\ \/ probes' = probes
         \/ pc[p] = "probe" /\ probes' = probes \union {Run(p)}
         \/ pc[p] = "unprobe" /\ probes' = probes \ {Run(p)}
  BY <1>1 DEF MayHaveHappened, At
<1>3. /\ \/ p \in Servers /\ pc'[p] = "up"
         \/ p \in Scripts /\ pc'[p] = "exited"
      /\ \A other \in Procs : other # p => pc'[other] = pc[other]
  <2>1. CASE p \in Servers /\ Goto(p, "up")
    <3>1. pc \in [Procs -> Calls \union {"down", "up", "exited"}]
      BY DEF TypeInv, TypeOK
    <3>2. pc' = [pc EXCEPT ![p] = "up"]
      BY <2>1 DEF Goto
    <3>3. pc'[p] = "up" /\ \A other \in Procs : other # p => pc'[other] = pc[other]
      BY <3>1, <3>2, Zenon
    <3> QED
      BY <2>1, <3>3, Zenon
  <2>2. CASE p \in Scripts /\ Goto(p, "exited")
    BY <2>2, SMT DEF Goto, TypeInv, TypeOK
  <2> QED
    BY <1>1, <2>1, <2>2, Zenon DEF Abort
<1> QED
  BY <1>2, <1>3, Zenon DEF CallRaises

\* Nothing is running and the table is empty at first.
LEMMA InvInit == StartupInit => StartupInv
BY SMT DEF StartupInit, StartupInv, ProbeInv, RowInv, ReadyInv, ReportInv, RaceInv,
           IndexedOnce, At, Run, Raced, Indexing

\* A step writes only the row of a run that has started.
LEMMA RowStep ==
  ASSUME TypeInv, RowInv, NEW p \in Procs, StepOf(p)
  PROVE  RowInv'
<1> USE DEF TypeInv, TypeOK, Calls, RowInv, Run, At
<1>1. CASE Start(p)
  BY <1>1, StartEffect, RowParts, StartupAssumption, SMTT(60)
<1>2. CASE Stop(p)
  BY <1>2, StartupAssumption, SMTT(60) DEF Stop, Goto
<1>3. CASE CheckDatabase(p)
  BY <1>3, StartupAssumption, SMTT(60) DEF CheckDatabase, At, Goto
<1>4. CASE CreateDatabase(p)
  BY <1>4, StartupAssumption, SMTT(60) DEF CreateDatabase, Abort, At, Goto
<1>5. CASE Connect(p)
  BY <1>5, StartupAssumption, SMTT(60) DEF Connect, At, Goto
<1>6. CASE CountNodes(p)
  <2>1. CASE counted'[p] # {} /\ Goto(p, "clusters")
             /\ indexing' = [indexing EXCEPT ![p] = "populated"]
    BY <1>6, <2>1, StartupAssumption, SMTT(60) DEF CountNodes, Goto
  <2>2. CASE counted'[p] = {} /\ Goto(p, "load") /\ UNCHANGED indexing
    BY <1>6, <2>2, StartupAssumption, SMTT(60) DEF CountNodes, Goto
  <2> QED
    BY <1>6, <2>1, <2>2, Zenon DEF CountNodes
<1>7. CASE LoadDirectory(p)
  BY <1>7, StartupAssumption, SMTT(60) DEF LoadDirectory, At, Goto
<1>8. CASE ProbeAdd(p)
  BY <1>8, StartupAssumption, SMTT(60) DEF ProbeAdd, At, Goto
<1>9. CASE ProbeDelete(p)
  BY <1>9, StartupAssumption, SMTT(60) DEF ProbeDelete, At, Goto
<1>10. CASE RunPipeline(p)
  BY <1>10, StartupAssumption, SMTT(60) DEF RunPipeline, At, Goto
<1>11. CASE BuildClusters(p)
  BY <1>11, StartupAssumption, SMTT(60) DEF BuildClusters, Abort, At, Goto
<1>12. CASE CreateRetriever(p)
  BY <1>12, StartupAssumption, SMTT(60) DEF CreateRetriever, At, Goto
<1>13. CASE BuildPlanStore(p)
  BY <1>13, StartupAssumption, SMTT(60) DEF BuildPlanStore, At, Goto
<1>14. CASE CallRaises(p)
  BY <1>14, RaiseEffect, StartupAssumption, SMTT(60)
<1> QED
  BY <1>1, <1>2, <1>3, <1>4, <1>5, <1>6, <1>7, <1>8, <1>9, <1>10, <1>11, <1>12, <1>13, <1>14, Zenon DEF StepOf

\* A step leaves a probe row only to its own delete, a death or a failure.
LEMMA ProbeStep ==
  ASSUME TypeInv, ProbeInv, ReadyInv, RowInv, NEW p \in Procs, StepOf(p)
  PROVE  ProbeInv'
<1> USE DEF TypeInv, TypeOK, Calls, ProbeInv, ReadyInv, RowInv, Run, At
<1>1. CASE Start(p)
  BY <1>1, StartEffect, RowParts, StartupAssumption, SMTT(60)
<1>2. CASE Stop(p)
  BY <1>2, StartupAssumption, SMTT(60) DEF Stop, Goto
<1>3. CASE CheckDatabase(p)
  BY <1>3, StartupAssumption, SMTT(60) DEF CheckDatabase, At, Goto
<1>4. CASE CreateDatabase(p)
  BY <1>4, StartupAssumption, SMTT(60) DEF CreateDatabase, Abort, At, Goto
<1>5. CASE Connect(p)
  BY <1>5, StartupAssumption, SMTT(60) DEF Connect, At, Goto
<1>6. CASE CountNodes(p)
  <2>1. CASE counted'[p] # {} /\ Goto(p, "clusters")
             /\ indexing' = [indexing EXCEPT ![p] = "populated"]
    BY <1>6, <2>1, StartupAssumption, SMTT(60) DEF CountNodes, Goto
  <2>2. CASE counted'[p] = {} /\ Goto(p, "load") /\ UNCHANGED indexing
    BY <1>6, <2>2, StartupAssumption, SMTT(60) DEF CountNodes, Goto
  <2> QED
    BY <1>6, <2>1, <2>2, Zenon DEF CountNodes
<1>7. CASE LoadDirectory(p)
  BY <1>7, StartupAssumption, SMTT(60) DEF LoadDirectory, At, Goto
<1>8. CASE ProbeAdd(p)
  BY <1>8, StartupAssumption, SMTT(60) DEF ProbeAdd, At, Goto
<1>9. CASE ProbeDelete(p)
  BY <1>9, StartupAssumption, SMTT(60) DEF ProbeDelete, At, Goto
<1>10. CASE RunPipeline(p)
  BY <1>10, StartupAssumption, SMTT(60) DEF RunPipeline, At, Goto
<1>11. CASE BuildClusters(p)
  BY <1>11, StartupAssumption, SMTT(60) DEF BuildClusters, Abort, At, Goto
<1>12. CASE CreateRetriever(p)
  BY <1>12, StartupAssumption, SMTT(60) DEF CreateRetriever, At, Goto
<1>13. CASE BuildPlanStore(p)
  BY <1>13, StartupAssumption, SMTT(60) DEF BuildPlanStore, At, Goto
<1>14. CASE CallRaises(p)
  BY <1>14, RaiseEffect, StartupAssumption, SMTT(60)
<1> QED
  BY <1>1, <1>2, <1>3, <1>4, <1>5, <1>6, <1>7, <1>8, <1>9, <1>10, <1>11, <1>12, <1>13, <1>14, Zenon DEF StepOf

\* lifespan sets the retrieval state in front of the plan store.
LEMMA ReadyStep ==
  ASSUME TypeInv, ReadyInv, NEW p \in Procs, StepOf(p)
  PROVE  ReadyInv'
<1> USE DEF TypeInv, TypeOK, Calls, ReadyInv, At
<1>1. CASE Start(p)
  BY <1>1, StartEffect, RowParts, StartupAssumption, SMTT(60)
<1>2. CASE Stop(p)
  BY <1>2, StartupAssumption, SMTT(60) DEF Stop, Goto
<1>3. CASE CheckDatabase(p)
  BY <1>3, StartupAssumption, SMTT(60) DEF CheckDatabase, At, Goto
<1>4. CASE CreateDatabase(p)
  BY <1>4, StartupAssumption, SMTT(60) DEF CreateDatabase, Abort, At, Goto
<1>5. CASE Connect(p)
  BY <1>5, StartupAssumption, SMTT(60) DEF Connect, At, Goto
<1>6. CASE CountNodes(p)
  <2>1. CASE counted'[p] # {} /\ Goto(p, "clusters")
             /\ indexing' = [indexing EXCEPT ![p] = "populated"]
    BY <1>6, <2>1, StartupAssumption, SMTT(60) DEF CountNodes, Goto
  <2>2. CASE counted'[p] = {} /\ Goto(p, "load") /\ UNCHANGED indexing
    BY <1>6, <2>2, StartupAssumption, SMTT(60) DEF CountNodes, Goto
  <2> QED
    BY <1>6, <2>1, <2>2, Zenon DEF CountNodes
<1>7. CASE LoadDirectory(p)
  BY <1>7, StartupAssumption, SMTT(60) DEF LoadDirectory, At, Goto
<1>8. CASE ProbeAdd(p)
  BY <1>8, StartupAssumption, SMTT(60) DEF ProbeAdd, At, Goto
<1>9. CASE ProbeDelete(p)
  BY <1>9, StartupAssumption, SMTT(60) DEF ProbeDelete, At, Goto
<1>10. CASE RunPipeline(p)
  BY <1>10, StartupAssumption, SMTT(60) DEF RunPipeline, At, Goto
<1>11. CASE BuildClusters(p)
  BY <1>11, StartupAssumption, SMTT(60) DEF BuildClusters, Abort, At, Goto
<1>12. CASE CreateRetriever(p)
  BY <1>12, StartupAssumption, SMTT(60) DEF CreateRetriever, At, Goto
<1>13. CASE BuildPlanStore(p)
  BY <1>13, StartupAssumption, SMTT(60) DEF BuildPlanStore, At, Goto
<1>14. CASE CallRaises(p)
  BY <1>14, RaiseEffect, StartupAssumption, SMTT(60)
<1> QED
  BY <1>1, <1>2, <1>3, <1>4, <1>5, <1>6, <1>7, <1>8, <1>9, <1>10, <1>11, <1>12, <1>13, <1>14, Zenon DEF StepOf

\* What the index report says stays true.
LEMMA ReportStep ==
  ASSUME TypeInv, ReportInv, ReadyInv, RowInv, NEW p \in Procs, StepOf(p)
  PROVE  ReportInv'
<1> USE DEF TypeInv, TypeOK, Calls, ReportInv, ReadyInv, RowInv, Run, At
<1>1. CASE Start(p)
  <2>1. indexing[p] = "none" /\ indexing' = indexing /\ p \notin retrieval'
    <3>1. pc[p] \in {"down", "exited"} /\ UNCHANGED inProcess
      BY <1>1, StartEffect
    <3>2. indexing[p] = "none" /\ p \notin retrieval
      BY <3>1, Zenon
    <3> QED
      BY <3>1, <3>2, Zenon
  <2>2. ASSUME NEW other \in Procs, other # p
        PROVE  /\ Run(other)' = Run(other) /\ pc'[other] = pc[other] /\ counted'[other] = counted[other]
               /\ other \in retrieval' <=> other \in retrieval
    BY <1>1, <2>2, StartEffect, SMT
  <2>3. pc'[p] \in {"check", "load"} /\ chunks' = chunks
    BY <1>1, StartEffect, SMT
  <2> HIDE DEF Run
  <2> QED
    BY <2>1, <2>2, <2>3, SMTT(60)
<1>2. CASE Stop(p)
  BY <1>2, StartupAssumption, SMTT(60) DEF Stop, Goto
<1>3. CASE CheckDatabase(p)
  BY <1>3, StartupAssumption, SMTT(60) DEF CheckDatabase, At, Goto
<1>4. CASE CreateDatabase(p)
  BY <1>4, StartupAssumption, SMTT(60) DEF CreateDatabase, Abort, At, Goto
<1>5. CASE Connect(p)
  BY <1>5, StartupAssumption, SMTT(60) DEF Connect, At, Goto
<1>6. CASE CountNodes(p)
  <2>1. CASE counted'[p] # {} /\ Goto(p, "clusters")
             /\ indexing' = [indexing EXCEPT ![p] = "populated"]
    BY <1>6, <2>1, StartupAssumption, SMTT(60) DEF CountNodes, Goto
  <2>2. CASE counted'[p] = {} /\ Goto(p, "load") /\ UNCHANGED indexing
    BY <1>6, <2>2, StartupAssumption, SMTT(60) DEF CountNodes, Goto
  <2> QED
    BY <1>6, <2>1, <2>2, Zenon DEF CountNodes
<1>7. CASE LoadDirectory(p)
  BY <1>7, StartupAssumption, SMTT(60) DEF LoadDirectory, At, Goto
<1>8. CASE ProbeAdd(p)
  BY <1>8, StartupAssumption, SMTT(60) DEF ProbeAdd, At, Goto
<1>9. CASE ProbeDelete(p)
  BY <1>9, StartupAssumption, SMTT(60) DEF ProbeDelete, At, Goto
<1>10. CASE RunPipeline(p)
  BY <1>10, StartupAssumption, SMTT(60) DEF RunPipeline, At, Goto
<1>11. CASE BuildClusters(p)
  BY <1>11, StartupAssumption, SMTT(60) DEF BuildClusters, Abort, At, Goto
<1>12. CASE CreateRetriever(p)
  BY <1>12, StartupAssumption, SMTT(60) DEF CreateRetriever, At, Goto
<1>13. CASE BuildPlanStore(p)
  BY <1>13, StartupAssumption, SMTT(60) DEF BuildPlanStore, At, Goto
<1>14. CASE CallRaises(p)
  BY <1>14, RaiseEffect, StartupAssumption, SMTT(60)
<1> QED
  BY <1>1, <1>2, <1>3, <1>4, <1>5, <1>6, <1>7, <1>8, <1>9, <1>10, <1>11, <1>12, <1>13, <1>14, Zenon DEF StepOf

\* A step other than a count brings no server on its way to the pipeline, and
\* only one that is on its way, or a script, writes.
LEMMA NoCountEffect ==
  ASSUME TypeInv, ReportInv, NEW p \in Procs, StepOf(p), ~CountNodes(p)
  PROVE  /\ raced' = raced /\ blind' = blind
         /\ \A srv \in Servers : Indexing(srv)' => Indexing(srv) /\ Run(srv)' = Run(srv)
         /\ \/ chunks' = chunks
            \/ /\ chunks' = chunks \union {Run(p)}
               /\ p \in Servers => Indexing(p) /\ ~Indexing(p)'
               /\ p \in Scripts => Run(p)[1] \notin Servers
<1> USE DEF TypeInv, TypeOK, Calls, ReportInv, Run, At, Indexing
<1>1. CASE Start(p)
  BY <1>1, StartEffect, StartupAssumption, SMTT(60)
<1>2. CASE Stop(p)
  BY <1>2, StartupAssumption, SMTT(60) DEF Stop, Goto
<1>3. CASE CheckDatabase(p)
  BY <1>3, StartupAssumption, SMTT(60) DEF CheckDatabase, Goto
<1>4. CASE CreateDatabase(p)
  BY <1>4, StartupAssumption, SMTT(60) DEF CreateDatabase, Abort, Goto
<1>5. CASE Connect(p)
  BY <1>5, StartupAssumption, SMTT(60) DEF Connect, Goto
<1>7. CASE LoadDirectory(p)
  BY <1>7, StartupAssumption, SMTT(60) DEF LoadDirectory, Goto
<1>8. CASE ProbeAdd(p)
  BY <1>8, StartupAssumption, SMTT(60) DEF ProbeAdd, Goto
<1>9. CASE ProbeDelete(p)
  BY <1>9, StartupAssumption, SMTT(60) DEF ProbeDelete, Goto
<1>10. CASE RunPipeline(p)
  BY <1>10, StartupAssumption, SMTT(60) DEF RunPipeline, Goto
<1>11. CASE BuildClusters(p)
  <2>1. /\ \A srv \in Procs \ {p} : pc'[srv] = pc[srv]
        /\ UNCHANGED <<chunks, raced, blind, starts, indexing>>
        /\ pc[p] = "clusters"
    <3>1. \E call \in {"up", "exited", "retriever", "probe"} : Goto(p, call)
      BY <1>11 DEF BuildClusters, Abort
    <3>2. \A srv \in Procs \ {p} : pc'[srv] = pc[srv]
      BY <3>1, SMT DEF Goto
    <3> QED
      BY <1>11, <3>2 DEF BuildClusters
  <2>2. p \in Servers => indexing[p] # "none"
    BY <2>1
  <2> QED
    BY <2>1, <2>2, SMT
<1>12. CASE CreateRetriever(p)
  BY <1>12, StartupAssumption, SMTT(60) DEF CreateRetriever, Goto
<1>13. CASE BuildPlanStore(p)
  BY <1>13, StartupAssumption, SMTT(60) DEF BuildPlanStore, Goto
<1>14. CASE CallRaises(p)
  <2>1. /\ \A srv \in Procs \ {p} : pc'[srv] = pc[srv]
        /\ pc'[p] \in {"up", "exited"}
        /\ UNCHANGED <<raced, blind, starts, indexing>>
        /\ \/ chunks' = chunks
           \/ pc[p] = "index" /\ chunks' = chunks \union {Run(p)}
    BY <1>14, RaiseEffect
  <2>2. pc[p] = "index" => indexing[p] = "none"
    OBVIOUS
  <2>3. \A srv \in Servers : Indexing(srv)' => Indexing(srv) /\ Run(srv)' = Run(srv)
    BY <2>1, SMT
  <2>4. Run(p)[1] = p /\ (p \in Scripts => p \notin Servers)
    BY StartupAssumption
  <2>5. ~Indexing(p)' /\ (p \in Servers /\ pc[p] = "index" => Indexing(p))
    BY <2>1, <2>2
  <2> HIDE DEF Run, Indexing
  <2> QED
    BY <2>1, <2>3, <2>4, <2>5
<1> QED
  BY <1>1, <1>2, <1>3, <1>4, <1>5, <1>7, <1>8, <1>9, <1>10, <1>11, <1>12, <1>13, <1>14, Zenon DEF StepOf

\* A count that finds no rows puts the server on its way, races noted; it was
\* answered only if nothing was written yet.
LEMMA CountEffect ==
  ASSUME TypeInv, NEW p \in Procs, CountNodes(p)
  PROVE  /\ UNCHANGED <<chunks, starts>> /\ blind \subseteq blind'
         /\ \A srv \in Servers : srv # p /\ Indexing(srv)' => Indexing(srv)
         /\ \A srv \in Servers : Run(srv)' = Run(srv)
         /\ raced \subseteq raced'
         /\ \A pair \in raced' \ raced :
               \E srv \in Servers \ {p} : pair = <<Run(srv), Run(p)>>
         /\ Indexing(p)' =>
               /\ \A srv \in Servers \ {p} : Indexing(srv) => <<Run(srv), Run(p)>> \in raced'
               /\ chunks = {} \/ Run(p) \in blind'
<1>1. /\ UNCHANGED <<chunks, starts>> /\ blind \subseteq blind'
      /\ counted'[p] = {} => chunks = {} \/ Run(p) \in blind'
  BY SMT DEF CountNodes, TypeInv, TypeOK
<1>2. /\ \A srv \in Servers : srv # p /\ Indexing(srv)' => Indexing(srv)
      /\ Indexing(p)' => counted'[p] = {}
  <2>1. /\ pc' \in [Procs -> {"clusters", "load"} \union Calls \union {"down", "up", "exited"}]
        /\ \A srv \in Procs \ {p} : pc'[srv] = pc[srv] /\ indexing'[srv] = indexing[srv]
        /\ counted'[p] # {} => pc'[p] = "clusters"
    <3>1. CASE counted'[p] # {} /\ Goto(p, "clusters")
               /\ indexing' = [indexing EXCEPT ![p] = "populated"]
      BY <3>1, SMT DEF Goto, TypeInv, TypeOK, Calls
    <3>2. CASE counted'[p] = {} /\ Goto(p, "load") /\ UNCHANGED indexing
      BY <3>2, SMT DEF Goto, TypeInv, TypeOK, Calls
    <3> QED
      BY <3>1, <3>2, Zenon DEF CountNodes
  <2> QED
    BY <2>1, SMT DEF Indexing
<1>3. /\ raced \subseteq raced'
      /\ \A pair \in raced' \ raced :
            \E srv \in Servers \ {p} : pair = <<Run(srv), Run(p)>>
      /\ counted'[p] = {} =>
            \A srv \in Servers \ {p} : Indexing(srv) => <<Run(srv), Run(p)>> \in raced'
  BY Zenon DEF CountNodes, MeetsIndexing
<1>4. \A srv \in Servers : Run(srv)' = Run(srv)
  BY <1>1, Zenon DEF Run
<1> QED
  BY <1>1, <1>2, <1>3, <1>4

\* Races are recorded when the later of two servers counts, and a second copy
\* comes only of a race or of a count that failed.
LEMMA RaceStep ==
  ASSUME TypeInv, RaceInv, IndexedOnce, ReportInv, NEW p \in Procs, StepOf(p)
  PROVE  RaceInv' /\ IndexedOnce'
<1>1. CASE CountNodes(p)
  <2> USE <1>1, CountEffect
  <2>1. (\A pair \in raced : pair[1][1] # pair[2][1])'
    <3>1. \A srv \in Servers \ {p} : <<Run(srv), Run(p)>>[1][1] # <<Run(srv), Run(p)>>[2][1]
      BY SMT DEF Run
    <3> QED
      BY <3>1 DEF RaceInv
  <2>2. \A r, other : Raced(r, other) => Raced(r, other)'
    BY DEF Raced
  <2>3. ASSUME NEW one \in Servers, NEW two \in Servers, one # two, Indexing(one)', Indexing(two)'
        PROVE  Raced(Run(one), Run(two))'
    <3>1. CASE one = p
      BY <2>3, <3>1 DEF Raced
    <3>2. CASE two = p
      BY <2>3, <3>2 DEF Raced
    <3>3. CASE one # p /\ two # p
      BY <2>2, <2>3, <3>3 DEF RaceInv, Raced
    <3> QED
      BY <3>1, <3>2, <3>3
  <2>4. ASSUME NEW srv \in Servers, (Indexing(srv) /\ Run(srv) \notin blind)',
               NEW r \in chunks', r[1] \in Servers
        PROVE  Raced(r, Run(srv))'
    BY <2>2, <2>4 DEF RaceInv, Raced
  <2>5. IndexedOnce'
    BY DEF IndexedOnce
  <2> QED
    BY <2>1, <2>3, <2>4, <2>5, Zenon DEF RaceInv
<1>2. CASE ~CountNodes(p)
  <2>1. /\ raced' = raced /\ blind' = blind
        /\ \A srv \in Servers : Indexing(srv)' => Indexing(srv) /\ Run(srv)' = Run(srv)
    BY <1>2, NoCountEffect
  <2>2. \A r, other : Raced(r, other)' <=> Raced(r, other)
    BY <2>1 DEF Raced
  <2>3. \A one, two \in Servers :
          one # two /\ Indexing(one)' /\ Indexing(two)' => Raced(Run(one), Run(two))'
    BY <2>1 DEF RaceInv, Raced
  <2>4. CASE chunks' = chunks
    BY <2>1, <2>3, <2>4 DEF RaceInv, Raced, IndexedOnce
  <2>5. CASE /\ chunks' = chunks \union {Run(p)}
             /\ p \in Servers => Indexing(p) /\ ~Indexing(p)'
             /\ p \in Scripts => Run(p)[1] \notin Servers
    <3>1. ASSUME NEW srv \in Servers, (Indexing(srv) /\ Run(srv) \notin blind)',
                 NEW r \in chunks', r[1] \in Servers
          PROVE  Raced(r, Run(srv))'
      <4>1. Indexing(srv) /\ Run(srv) \notin blind /\ Run(srv)' = Run(srv)
        BY <2>1, <3>1
      <4>2. CASE r \in chunks
        BY <4>1, <4>2, <3>1, <2>1 DEF RaceInv, Raced
      <4>3. CASE r = Run(p)
        <5>1. p \in Servers /\ p # srv
          BY <2>5, <3>1, <4>3 DEF Procs
        <5> QED
          BY <5>1, <4>1, <4>3, <2>1, <2>5 DEF RaceInv, Raced
      <4> QED
        BY <4>2, <4>3, <2>5
    <3>2. ASSUME NEW r \in chunks', NEW other \in chunks', r[1] \in Servers,
                 other[1] \in Servers, r # other, {r, other} \intersect blind = {}
          PROVE  r[1] # other[1] /\ Raced(r, other)
      <4>1. \A a, b : Raced(a, b) => Raced(b, a) /\ (a[1] # b[1])
        BY DEF RaceInv, Raced
      <4>2. CASE r \in chunks /\ other \in chunks
        BY <3>2, <4>2 DEF IndexedOnce, Raced
      <4>3. ASSUME NEW a \in chunks, a[1] \in Servers, Run(p) \notin blind, p \in Servers
            PROVE  Raced(a, Run(p))
        BY <4>3, <2>5 DEF RaceInv
      <4>4. CASE r \in chunks /\ other = Run(p)
        <5>1. p \in Servers
          BY <2>5, <3>2, <4>4 DEF Procs
        <5> QED
          BY <3>2, <4>1, <4>3, <4>4, <5>1
      <4>5. CASE other \in chunks /\ r = Run(p)
        <5>1. p \in Servers
          BY <2>5, <3>2, <4>5 DEF Procs
        <5> QED
          BY <3>2, <4>1, <4>3, <4>5, <5>1
      <4> QED
        BY <3>2, <2>5, <4>2, <4>4, <4>5
    <3>3. IndexedOnce'
      BY <3>2, <2>1 DEF IndexedOnce, Raced
    <3> QED
      BY <3>1, <3>3, <2>1, <2>3 DEF RaceInv
  <2> QED
    BY <1>2, <2>4, <2>5, NoCountEffect
<1> QED
  BY <1>1, <1>2

\* The invariant of the theorems below.
LEMMA InvNext == TypeInv /\ StartupInv /\ [StartupNext]_vars => TypeInv' /\ StartupInv'
<1> SUFFICES ASSUME TypeInv, StartupInv, [StartupNext]_vars
             PROVE  TypeInv' /\ StartupInv'
  OBVIOUS
<1>1. CASE StartupNext
  <2>1. PICK p \in Procs : StepOf(p)
    BY <1>1, Zenon DEF StartupNext, StepOf
  <2> QED
    BY <2>1, TypeStep, RowStep, ProbeStep, ReadyStep, ReportStep, RaceStep,
       Zenon DEF StartupInv
<1>2. CASE UNCHANGED vars
  <2>1. TypeInv'
    BY <1>2, TypeStutter
  <2>2. StartupInv'
    BY <1>2, SMT DEF StartupInv, ProbeInv, RowInv, ReadyInv, ReportInv, RaceInv,
                     IndexedOnce, At, Run, Raced, Indexing, vars
  <2> QED
    BY <2>1, <2>2
<1> QED
  BY <1>1, <1>2

\* Both invariants hold in every reachable state.
THEOREM StartupInvariant == StartupSpec => [](TypeInv /\ StartupInv)
BY TypeInit, InvInit, InvNext, PTL DEF StartupSpec

-----------------------------------------------------------------------------
(* The properties                                                           *)

\* For any processes and faults: types, and a server past lifespan either
\* serves both stores or has recorded why not.
THEOREM StartupTypeCorrect == StartupSpec => []TypeOK
<1>1. TypeInv => TypeOK
  BY DEF TypeInv
<1> QED
  BY <1>1, StartupInvariant, PTL

\* A server that serves retrieval has removed its probe row.
THEOREM NoProbeServed == StartupSpec => []ReadyLeavesNoProbe
<1>1. StartupInv => ReadyLeavesNoProbe
  BY SMT DEF StartupInv, ProbeInv, ReadyInv, ReadyLeavesNoProbe, At
<1> QED
  BY <1>1, StartupInvariant, PTL

\* Only a probe row counted as an index makes a server ready without
\* documents.
THEOREM EmptyOnlyByProbe == StartupSpec => []EmptyServerCountedAProbe
<1>1. TypeInv /\ StartupInv => EmptyServerCountedAProbe
  BY SMT DEF TypeInv, TypeOK, StartupInv, ReportInv, EmptyServerCountedAProbe
<1> QED
  BY <1>1, StartupInvariant, PTL

\* For any servers, scripts, starts and faults: a second copy of the corpus by
\* a server comes of a race of two servers or of a count that failed.
THEOREM IndexesOnce == StartupSpec => []IndexedOnce
<1>1. StartupInv => IndexedOnce
  BY DEF StartupInv
<1> QED
  BY <1>1, StartupInvariant, PTL
=============================================================================
