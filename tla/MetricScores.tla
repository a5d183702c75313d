---------------------------- MODULE MetricScores ----------------------------
(***************************************************************************)
(* evaluation/metrics/action and observability/metrics/action: guardrail   *)
(* decisions and tool calls, each scored offline, against the labels of a  *)
(* golden set and behind a release gate, and online, from the events of    *)
(* the running system.  A metric is a numerator and a denominator.         *)
(***************************************************************************)
EXTENDS FiniteSets, Integers, Sequences

CONSTANTS
  Decisions,   \* [unsafe, outcome, triggered, attack, regression, retried, error, risk]
  TaskSamples, \* [expected, actual, available, used]: expected is a sequence of [id, tools], actual of calls
  MaxDecisions, MaxSamples

VARIABLES
  scoring,      \* what is scored, "guardrail" or "tool"
  offline,     \* accumulators of the evaluation: metric -> [num, den]
  online,      \* accumulators of the events
  errorKinds,  \* ErrorCountByType
  riskLevels,  \* RiskLevelCount
  scored       \* decisions or samples scored so far

metricVars == <<scoring, offline, online, errorKinds, riskLevels, scored>>

Outcomes == {"allow", "block", "fallback", "human_review", "redact", "error"}
Direction == [precision |-> "higher", recall |-> "higher", false_positive |-> "lower",
              false_negative |-> "lower", attack_success |-> "lower", regression_pass |-> "higher"]
RealtimeDirection == [trigger |-> "watch", block |-> "watch", fallback |-> "watch",
                      error |-> "lower", retry |-> "lower"]
EvaluationMetrics == [precision |-> "higher", recall |-> "higher", wrong_tool |-> "lower",
  schema_valid |-> "higher", entity_binding |-> "higher", success |-> "higher",
  relevance |-> "higher", result_used |-> "higher"]
RealtimeMetrics == [schema_valid |-> "higher", success |-> "higher", timeout |-> "lower",
  error |-> "lower", result_used |-> "higher"]
Directions == IF scoring = "guardrail" THEN Direction ELSE EvaluationMetrics

\* Every metric is reported, from the start.
Zero(metrics) == [m \in DOMAIN metrics |-> [num |-> 0, den |-> 0]]
InitGuardrail == scoring = "guardrail" /\ offline = Zero(Direction) /\ online = Zero(RealtimeDirection)
InitTool == scoring = "tool" /\ offline = Zero(EvaluationMetrics) /\ online = Zero(RealtimeMetrics)
Init ==
  /\ InitGuardrail \/ InitTool
  /\ errorKinds = [timeout |-> 0, unknown_error |-> 0, named |-> 0]
  /\ riskLevels = [low |-> 0, high |-> 0] /\ scored = 0

-----------------------------------------------------------------------------
\* Guardrail decisions.
Counted(score, numerator, denominator) ==
  [m \in DOMAIN score |-> [num |-> score[m].num + IF m \in numerator THEN 1 ELSE 0,
                           den |-> score[m].den + IF m \in denominator THEN 1 ELSE 0]]
Only(cond, metrics) == IF cond THEN metrics ELSE {}

Intervened(d) == d.outcome \in {"block", "fallback", "human_review", "redact"}
RealtimeIntervened(d) == d.outcome \in {"block", "fallback", "human_review", "redact"}

ClassifiedWithoutReturn(d) ==      \* mutant: an unsafe sample falls through to the false positives
  Only(Intervened(d), {"precision", "false_positive"}) \cup Only(d.unsafe, {"recall", "false_negative"})
    \cup {"false_positive"}
Classified(d) ==
  Only(Intervened(d), {"precision"})
    \cup IF d.unsafe THEN {"recall", "false_negative"} ELSE {"false_positive"}
ClassifiedAs(d) ==
  IF d.unsafe THEN IF Intervened(d) THEN {"precision", "recall"} ELSE {"false_negative"}
  ELSE Only(Intervened(d), {"false_positive"})

\* attack \in {"none", "held", "through"}, regression \in {"none", "passed", "failed"}
AttackCounted(d) == Only(d.attack # "none", {"attack_success"})
RegressionCounted(d) == Only(d.regression # "none", {"regression_pass"})
ScoreDecision(d) ==
  offline' = Counted(offline,
    ClassifiedAs(d) \cup Only(d.attack = "through", {"attack_success"})
                    \cup Only(d.regression = "passed", {"regression_pass"}),
    Classified(d) \cup AttackCounted(d) \cup RegressionCounted(d))

ScoreRealtime(d) ==
  /\ online' = Counted(online,
       Only(d.triggered, {"trigger"}) \cup ({d.outcome} \cap {"block", "fallback", "error"})
         \cup Only(RealtimeIntervened(d) /\ d.retried, {"retry"}),
       {"trigger", "block", "fallback", "error"} \cup Only(RealtimeIntervened(d), {"retry"}))
  /\ errorKinds' = IF d.outcome # "error" THEN errorKinds
                   ELSE [errorKinds EXCEPT ![IF d.error = "" THEN "unknown_error" ELSE "named"] = @ + 1]
CollectDimensions(d) ==
  riskLevels' = IF d.risk = "" THEN riskLevels ELSE [riskLevels EXCEPT ![d.risk] = @ + 1]

ScoreGuardrail ==
  /\ scoring = "guardrail" /\ scored < MaxDecisions /\ scored' = scored + 1
  /\ \E d \in Decisions : ScoreDecision(d) /\ ScoreRealtime(d) /\ CollectDimensions(d)
  /\ UNCHANGED scoring

-----------------------------------------------------------------------------
\* Tool calls.
\* The number of calls of the sequence that satisfy P.
Number(calls, P(_)) == Cardinality({i \in DOMAIN calls : P(calls[i])})
Share(calls, InNum(_), InDen(_)) ==
  [num |-> Number(calls, LAMBDA c : InDen(c) /\ InNum(c)), den |-> Number(calls, InDen)]
Plus(a, b) == [num |-> a.num + b.num, den |-> a.den + b.den]
Every(c) == TRUE
Joined(f, g) == [m \in DOMAIN f \cup DOMAIN g |-> IF m \in DOMAIN f THEN f[m] ELSE g[m]]

\* A call is [tool, necessary, covers, wrong, schema, entity, status, content, relevant, used, error];
\* status is "skipped" for a call that was not executed; schema and entity are "none" where
\* nothing was checked or required.
Executed(c) == c.status # "skipped"
Successful(c) == c.status = "success"
Covered(sample) == {sample.actual[i].covers : i \in DOMAIN sample.actual} \ {""}

\* The last expected call of that id, if there is one.
ExpectedWithID(sample, id) ==
  {k \in DOMAIN sample.expected :
     /\ sample.expected[k].id = id
     /\ \A j \in DOMAIN sample.expected : j > k => sample.expected[j].id # id}
WrongTool(sample, c) ==
  \/ c.wrong
  \/ c.covers # "" /\ \A k \in ExpectedWithID(sample, c.covers) : c.tool \notin sample.expected[k].tools

CoveringCalls(sample) ==                  \* mutant: every call that covers an expected one counts
  [num |-> Number(sample.actual, LAMBDA c : c.covers \in {sample.expected[k].id : k \in DOMAIN sample.expected}),
   den |-> Len(sample.expected)]
Recall(sample) == Share(sample.expected, LAMBDA e : e.id # "" /\ e.id \in Covered(sample), Every)

SelectionMetrics(sample) ==
  [precision |-> Share(sample.actual, LAMBDA c : c.necessary, Every),
   recall |-> Recall(sample),
   wrong_tool |-> Share(sample.actual, LAMBDA c : WrongTool(sample, c), Every)]
ArgumentMetrics(calls) ==
  [schema_valid |-> Share(calls, LAMBDA c : c.schema = "valid", LAMBDA c : c.schema # "none"),
   entity_binding |-> Share(calls, LAMBDA c : c.entity = "valid", LAMBDA c : c.entity # "none")]
ExecutionMetrics(calls) ==
  [success |-> Share(calls, Successful, Executed),
   relevance |-> Share(calls, LAMBDA c : c.relevant, LAMBDA c : Successful(c) /\ c.content)]
\* By task, not by call.
UsageMetric(sample) == [result_used |-> Share(<<sample>>, LAMBDA s : s.used, LAMBDA s : s.available)]

ScoreSample(sample) ==
  LET score == Joined(Joined(SelectionMetrics(sample), ArgumentMetrics(sample.actual)),
                      Joined(ExecutionMetrics(sample.actual), UsageMetric(sample)))
  IN offline' = [m \in DOMAIN offline |-> Plus(offline[m], score[m])]

\* The events are those of the calls that were executed.
EventShare(calls, InNum(_), InDen(_)) == Share(calls, InNum, LAMBDA c : Executed(c) /\ InDen(c))
Errors(c) == c.status \in {"error", "timeout"}
RealtimeSchema(calls) ==
  [schema_valid |-> EventShare(calls, LAMBDA c : c.schema = "valid", LAMBDA c : c.schema # "none")]
RealtimeExecution(calls) ==
  [success |-> EventShare(calls, Successful, Every),
   timeout |-> EventShare(calls, LAMBDA c : c.status = "timeout", Every),
   error |-> EventShare(calls, Errors, Every)]
RealtimeUsage(calls) == [result_used |-> EventShare(calls, LAMBDA c : c.used, Successful)]
\* incrementErrorType: a timeout without a type is a timeout, any other an unknown error.
ErrorType(c) == IF c.error # "" THEN "named" ELSE IF c.status = "timeout" THEN "timeout" ELSE "unknown_error"

ScoreEvents(sample) ==
  LET calls == sample.actual
      score == Joined(RealtimeSchema(calls), Joined(RealtimeExecution(calls), RealtimeUsage(calls)))
  IN /\ online' = [m \in DOMAIN online |-> Plus(online[m], score[m])]
     /\ errorKinds' = [k \in DOMAIN errorKinds |->
          errorKinds[k] + Number(calls, LAMBDA c : Errors(c) /\ ErrorType(c) = k)]

ScoreTool ==
  /\ scoring = "tool" /\ scored < MaxSamples /\ scored' = scored + 1
  /\ \E sample \in TaskSamples : ScoreSample(sample) /\ ScoreEvents(sample)
  /\ UNCHANGED <<scoring, riskLevels>>

Next == ScoreGuardrail \/ ScoreTool
Spec == Init /\ [][Next]_metricVars

\* The gate: a threshold is the fraction r.num / r.den; a metric that nothing applies to has no
\* score and fails its threshold.
Scored(acc) == acc.den > 0
ThresholdPassed(m, r) ==
  IF Directions[m] = "lower" THEN offline[m].num * r.den <= r.num * offline[m].den
  ELSE offline[m].num * r.den >= r.num * offline[m].den
EvaluateGate(thresholds) == \A t \in thresholds : Scored(offline[t.metric]) /\ ThresholdPassed(t.metric, t.r)

\* percentileNearestRank: the place of the 95th percentile among n sorted latencies, where Go
\* truncates 0.95 n + 0.999999.
PercentileIndex(n) ==
  LET index == (950000 * n + 999999) \div 1000000
  IN IF index < 1 THEN 1 ELSE IF index > n THEN n ELSE index

-----------------------------------------------------------------------------
TypeOK ==
  /\ scoring \in {"guardrail", "tool"} /\ scored \in Nat
  /\ \A m \in DOMAIN online : online[m].num \in 0..online[m].den

\* The scores are of one confusion matrix, offline and online count the same interventions and
\* errors, a gate on recall and the complementary one on missed cases agree and neither passes
\* without unsafe samples, and no rank below the reported one covers 95% of the latencies.
ScoresAgree == scoring = "guardrail" =>
  /\ \A m \in DOMAIN offline : offline[m].num <= offline[m].den
  /\ offline.recall.num + offline.false_negative.num = offline.recall.den
  /\ offline.recall.den = offline.false_negative.den
  /\ offline.precision.num = offline.recall.num
  /\ offline.precision.den = offline.recall.num + offline.false_positive.num
  /\ offline.recall.den + offline.false_positive.den = scored
  /\ online.retry.den = offline.precision.den /\ online.block.num + online.fallback.num <= online.retry.den
  /\ \A m \in {"trigger", "block", "fallback", "error"} : Scored(online[m]) <=> scored > 0
  /\ online.error.num = errorKinds.unknown_error + errorKinds.named
  /\ \A k \in 0..2 :
       LET atLeast == {[metric |-> "recall", r |-> [num |-> k, den |-> 2]]}
           atMost == {[metric |-> "false_negative", r |-> [num |-> 2 - k, den |-> 2]]}
       IN /\ EvaluateGate(atLeast) <=> EvaluateGate(atMost)
          /\ offline.recall.den = 0 => ~EvaluateGate(atLeast)
  /\ \A n \in 1..40 : LET covers(i) == 100 * i >= 95 * n
       IN PercentileIndex(n) \in 1..n /\ covers(PercentileIndex(n)) /\ ~covers(PercentileIndex(n) - 1)

\* Shares stay shares, whatever the calls cover twice; a success or an error is one offline and
\* online; every failure has one kind; and a gate that asks for every expected call passes only
\* when none is missing.
SharesAgree == scoring = "tool" =>
  /\ \A m \in DOMAIN offline : offline[m].num <= offline[m].den
  /\ offline.wrong_tool.den = offline.precision.den
  /\ offline.success = online.success /\ online.success.num + online.error.num = online.success.den
  /\ online.timeout.num <= online.error.num /\ online.result_used.den = online.success.num
  /\ offline.relevance.den <= online.success.num
  /\ online.error.num = errorKinds.timeout + errorKinds.unknown_error + errorKinds.named
  /\ errorKinds.timeout <= online.timeout.num
  /\ EvaluateGate({[metric |-> "recall", r |-> [num |-> 1, den |-> 1]]})
       => offline.recall.num = offline.recall.den /\ offline.recall.den > 0
  /\ \A m \in {"success", "timeout", "error"} : Scored(online[m]) <=> Scored(offline.success)
=============================================================================
