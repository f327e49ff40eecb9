---------------------------- MODULE MCIncidentRules ----------------------------
(* One service's anomalies come and go, one row at a time; every set of at    *)
(* most MaxAnomalies rows is reached.                                         *)
EXTENDS IncidentRules

CONSTANT MaxAnomalies

\* Every kind of metric, with z-scores on both sides of each threshold, drops
\* included, and two slots so that a duplicate row is an input too.
Anomalies ==
  [metric : {"span.error_rate", "span.latency_p95"}, slot : {1}, z : {3, 7, 8}]
    \cup [metric : {"container.memory.percent"}, slot : {1, 2}, z : {-9, 4}]
    \cup [metric : {"span.service_silent"}, slot : {1}, z : {50}]

VARIABLE seen

\* A key has at most one z in a slot.
OneZ(as) == \A a, b \in as : a.metric = b.metric /\ a.slot = b.slot => a = b

RulesInit == seen = {}

Appears ==
  /\ Cardinality(seen) < MaxAnomalies
  /\ \E a \in Anomalies \ seen : OneZ(seen \cup {a}) /\ seen' = seen \cup {a}

Clears == \E a \in seen : seen' = seen \ {a}

Worsens ==
  \E a \in seen, b \in Anomalies :
    /\ a.metric = b.metric /\ a.slot = b.slot /\ Abs(a.z) < Abs(b.z)
    /\ seen' = (seen \ {a}) \cup {b}

RulesNext == Appears \/ Clears \/ Worsens

RulesSpec == RulesInit /\ [][RulesNext]_seen

----------------------------------------------------------------------------
\* A service never gets a milder severity by getting worse, that is when another
\* anomaly is detected on it or one it has grows.  The first match of evaluate_rules
\* has this only if no rule it tries is hidden by one of a milder severity; the
\* order of incident.py's docstring does not have it.
WorseNeverMilder ==
  [][Appears \/ Worsens =>
       SeverityRank(SeverityOf(EvaluateRules(seen))) <=
         SeverityRank(SeverityOf(EvaluateRules(seen')))]_seen

\* incident.py, "Rules are evaluated in priority order. The first matching
\* rule fires": the documented order and the code choose the same rule.
FollowsDocumentedOrder ==
  seen # {} => EvaluateRules(seen) = FirstMatch(DocumentedOrder, seen)

================================================================================
