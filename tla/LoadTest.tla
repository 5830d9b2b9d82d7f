------------------------------- MODULE LoadTest -------------------------------
(* app/eval/http_load.py: a load of requests against the service, in stages  *)
(* that do not overlap: a cold probe, warm-up requests one by one, and then  *)
(* each level with so many at once.  Every attempt is a row that is written  *)
(* before it is sent and when it settles; the report on disk is replaced     *)
(* each time, so whatever ends the process leaves a report.                  *)
EXTENDS Integers, Sequences, FiniteSets, SequencesExt

CONSTANTS
    Levels,        \* concurrency_levels
    PerLevel,      \* requests_per_level
    Warmups,       \* warmup_requests
    NoReport

ASSUME LoadAssumption ==
    Levels \in Seq(Nat \ {0}) /\ PerLevel \in Nat \ {0} /\ Warmups \in Nat

VARIABLES
    stage,         \* of Stages, or before or after them
    leaving,       \* an exception or an interrupt is on its way out
    records,       \* report["requests"]
    report         \* the report on disk
loadVars == <<stage, leaving, records, report>>

BeforeHealth == 0
Cold == 1
WarmUp == 2
Stages == 1 .. 2 + Len(Levels)
Done == 3 + Len(Levels)
PlannedOf(n) == CASE n = Cold -> 1 [] n = WarmUp -> Warmups [] OTHER -> PerLevel
AtOnce(n) == IF n \in {Cold, WarmUp} THEN 1 ELSE Levels[n - 2]
Planned == 1 + Warmups + PerLevel * Len(Levels)

RowsWhere(rows, Is(_)) == Cardinality({i \in DOMAIN rows : Is(rows[i])})
RowsOf(n) == {i \in DOMAIN records : records[i].stage = n}
InFlight == {i \in DOMAIN records : records[i].state = "in_flight"}

LoadInit ==
    /\ stage = BeforeHealth /\ leaving = FALSE
    /\ records = <<>> /\ report = NoReport

(* save_progress with its checkpoint, and the report at the end.             *)
Counts(rows) ==
    [attempted |-> Len(rows),
     completed |-> RowsWhere(rows, LAMBDA r : r.state = "completed"),
     in_flight |-> RowsWhere(rows, LAMBDA r : r.state # "completed"),
     succeeded |-> RowsWhere(rows, LAMBDA r : r.state = "completed" /\ r.success),
     failed |-> RowsWhere(rows, LAMBDA r : r.state = "completed" /\ ~r.success)]
SaveProgress(rows) == report' = [outcome |-> "in_progress", counts |-> Counts(rows)]
FinalCounts(rows) ==
    [attempted |-> Len(rows), completed |-> Len(rows), in_flight |-> 0,
     succeeded |-> RowsWhere(rows, LAMBDA r : r.success),
     failed |-> RowsWhere(rows, LAMBDA r : ~r.success)]
SaveFinal(rows) ==
    report' = [outcome |-> IF FinalCounts(rows).failed = 0 THEN "ok" ELSE "requests_failed",
               counts |-> FinalCounts(rows)]

(* readiness_problems                                                        *)
CheckHealth ==
    /\ stage = BeforeHealth
    /\ \/ stage' = Cold /\ UNCHANGED report
       \/ stage' = Done /\ report' = [outcome |-> "readiness_failed", counts |-> FinalCounts(<<>>)]
    /\ UNCHANGED <<leaving, records>>

(* recorded_attempt                                                          *)
Send ==
    /\ stage \in Stages
    /\ Cardinality(RowsOf(stage)) < PlannedOf(stage)
    /\ Cardinality({i \in InFlight : ~records[i].lost}) < AtOnce(stage)
    /\ records' = Append(records, [stage |-> stage, state |-> "in_flight", success |-> FALSE, lost |-> FALSE])
    /\ SaveProgress(records')
    /\ UNCHANGED <<stage, leaving>>

(* attempt: the reply is judged; most failures are a row, but an exception   *)
(* that it does not expect leaves the row in flight and ends the run.        *)
Attempt(reply) ==
    CASE reply = "whole" -> "success"
      [] reply \in {"refused", "timeout", "no hits", "no timings", "degraded"} -> "failure"
      [] reply = "a list where an object is expected" -> "raises"
Replies == {"whole", "timeout", "a list where an object is expected"}
Receive(i, reply) ==
    /\ i \in InFlight /\ ~records[i].lost
    /\ IF Attempt(reply) = "raises"
       THEN /\ records' = [records EXCEPT ![i].lost = TRUE]
            /\ leaving' = TRUE /\ UNCHANGED report
       ELSE /\ records' = [records EXCEPT ![i].state = "completed", ![i].success = Attempt(reply) = "success"]
            /\ SaveProgress(records') /\ UNCHANGED leaving
    /\ UNCHANGED stage

(* asyncio.run, when the run raises or is interrupted: every attempt that is *)
(* under way is cancelled, and its row completed.                            *)
Interrupt == stage \in Stages /\ ~leaving /\ leaving' = TRUE /\ UNCHANGED <<stage, records, report>>
Cancel(i) ==
    /\ leaving /\ i \in InFlight /\ ~records[i].lost
    /\ records' = [records EXCEPT ![i].state = "completed"]
    /\ SaveProgress(records') /\ UNCHANGED <<stage, leaving>>
Leave ==
    /\ leaving /\ stage # Done /\ \A i \in InFlight : records[i].lost
    /\ stage' = Done /\ UNCHANGED <<leaving, records, report>>
KillLoad == stage \in Stages /\ stage' = Done /\ UNCHANGED <<leaving, records, report>>

(* The next stage, or the end, when every attempt of this one is completed.  *)
Begun(n) == Cardinality(RowsOf(n)) = PlannedOf(n)
Advance ==
    /\ stage \in Stages /\ ~leaving /\ Begun(stage) /\ InFlight = {}
    /\ IF stage + 1 \in Stages THEN stage' = stage + 1 /\ UNCHANGED report
       ELSE stage' = Done /\ SaveFinal(records)
    /\ UNCHANGED <<leaving, records>>

LoadNext ==
    \/ stage # Done /\ (\/ CheckHealth \/ Send \/ Interrupt \/ Leave \/ KillLoad \/ Advance
                          \/ \E i \in InFlight : Cancel(i) \/ \E reply \in Replies : Receive(i, reply))

----------------------------------------------------------------------------
(* The report on disk accounts for every row it knows of; "ok" is said of    *)
(* all planned requests and only when each succeeded, and a run that ended   *)
(* early never reads as finished; and no attempt overlaps another stage, or  *)
(* more of its own than its level.                                           *)
LoadReportTellsTheRun ==
    /\ report # NoReport =>
          LET c == report.counts
          IN /\ c.attempted = c.completed + c.in_flight /\ c.completed = c.succeeded + c.failed
             /\ report.outcome \in {"ok", "requests_failed"} =>
                   /\ c.attempted = Planned
                   /\ \A i \in DOMAIN records : records[i].state = "completed"
                   /\ report.outcome = "ok" <=> \A i \in DOMAIN records : records[i].success
             /\ report.outcome = "in_progress" =>
                   /\ c.attempted = Len(records)
                   /\ c.succeeded = RowsWhere(records, LAMBDA r : r.success)
    /\ \A i \in InFlight : ~records[i].lost /\ stage # Done => records[i].stage = stage
    /\ stage \in Stages => Cardinality({i \in InFlight : ~records[i].lost}) <= AtOnce(stage)
=============================================================================
