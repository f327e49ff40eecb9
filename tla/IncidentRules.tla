----------------------------- MODULE IncidentRules -----------------------------
(***************************************************************************)
(* The triage rules of the incident engine                                 *)
(* (backend/app/services/incident.py, evaluate_rules): which rule a        *)
(* service's set of active anomaly rows triggers, and its severity.        *)
(* An anomaly is [metric, slot, z]; the slot tells duplicate rows apart.   *)
(***************************************************************************)
EXTENDS Integers, Sequences, FiniteSets

Rules == {"SERVICE_DOWN", "LATENCY_SPIKE_CRITICAL", "HIGH_ERROR_RATE",
          "LATENCY_SPIKE_HIGH", "MULTI_SIGNAL", "SINGLE_ANOMALY"}

\* What the keyword match answers on the metrics the detectors emit.
IsErrorMetric(metric)   == metric = "span.error_rate"
IsLatencyMetric(metric) == metric = "span.latency_p95"

Abs(z) == IF z < 0 THEN -z ELSE z

\* len(anomalies) >= 2
SeveralAnomalies(as) == \E a, b \in as : a # b

Matches(rule, as) ==
  \/ rule = "SERVICE_DOWN"           /\ \E a \in as : IsErrorMetric(a.metric) /\ Abs(a.z) >= 8
  \/ rule = "LATENCY_SPIKE_CRITICAL" /\ \E a \in as : IsLatencyMetric(a.metric) /\ Abs(a.z) >= 8
  \/ rule = "HIGH_ERROR_RATE"        /\ \E a \in as : IsErrorMetric(a.metric) /\ Abs(a.z) >= 3
  \/ rule = "LATENCY_SPIKE_HIGH"     /\ \E a \in as : IsLatencyMetric(a.metric) /\ Abs(a.z) >= 3
  \/ rule = "MULTI_SIGNAL"           /\ SeveralAnomalies(as)
  \/ rule = "SINGLE_ANOMALY"         /\ as # {}

\* The rule table of incident.py's docstring, top to bottom.
DocumentedOrder == <<"SERVICE_DOWN", "HIGH_ERROR_RATE", "LATENCY_SPIKE_CRITICAL",
                     "LATENCY_SPIKE_HIGH", "MULTI_SIGNAL", "SINGLE_ANOMALY">>

\* The order in which evaluate_rules tries the rules.
RuleOrder == <<"SERVICE_DOWN", "LATENCY_SPIKE_CRITICAL", "HIGH_ERROR_RATE",
               "LATENCY_SPIKE_HIGH", "MULTI_SIGNAL", "SINGLE_ANOMALY">>

FirstMatch(order, as) ==
  order[CHOOSE i \in DOMAIN order :
          /\ Matches(order[i], as)
          /\ \A j \in DOMAIN order : j < i => ~Matches(order[j], as)]

\* Mutation: a default rule in place of None.
EvaluateRulesDefault(as) == IF as = {} THEN "unknown" ELSE FirstMatch(RuleOrder, as)

\* No anomaly, no match.
EvaluateRules(as) == IF as = {} THEN "none" ELSE FirstMatch(RuleOrder, as)

SeverityOf(rule) ==
  CASE rule \in {"SERVICE_DOWN", "LATENCY_SPIKE_CRITICAL"} -> "critical"
    [] rule \in {"HIGH_ERROR_RATE", "LATENCY_SPIKE_HIGH", "MULTI_SIGNAL"} -> "high"
    [] rule = "SINGLE_ANOMALY" -> "medium"
    [] rule = "none" -> "none"

\* The order the dashboard sorts open incidents by, most severe last.
SeverityRank(severity) ==
  CASE severity = "critical" -> 3 [] severity = "high" -> 2
    [] severity = "medium" -> 1 [] severity = "none" -> 0

================================================================================
