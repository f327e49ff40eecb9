--------------------------------- MODULE Alerts ---------------------------------
(***************************************************************************)
(* What the pipeline promises who watches its tables: reports (anomalies)  *)
(* and alerts (incidents) change in three atomic steps, however the runs   *)
(* behind them interleave, fail or are cut off.  A report shows what the   *)
(* telemetry was at one instant; alerts are set to what the rules say of   *)
(* the reports, all at once; causes are found while that still holds.  A   *)
(* report or an alert that goes on keeps its identity, and an alert keeps  *)
(* its cause until another is found.  Time, locks and sessions are not     *)
(* part of the promise.  Pipeline implements it.                           *)
(***************************************************************************)
EXTENDS Integers

CONSTANTS Services, Keys,
          ReportIds,        \* identities of reports
          AlertIds,         \* identities of alerts
          NoService,        \* the cause of an alert that has none yet
          Rule(_),          \* the rule a set of reports asks for, or "none"
          Causes(_, _)      \* of an affected and the anomalous services: who may be blamed

VARIABLES telemetry,  \* key -> z, 0 when quiet
          sample,     \* the telemetry a run has seen and not yet reported: none or one
          reports,    \* key -> none or one [metric, slot, z]
          alerts      \* service -> none or one [id, rule, root]

vars == <<telemetry, sample, reports, alerts>>

Reports(s) == UNION {reports[k] : k \in {l \in Keys : l[1] = s}}

Alarmed == {s \in Services : Reports(s) # {}}

Init ==
  /\ telemetry \in [Keys -> Nat]
  /\ sample = {}
  /\ reports = [k \in Keys |-> {}]
  /\ alerts = [s \in Services |-> {}]

Shift ==
  /\ telemetry' \in [Keys -> Nat]
  /\ UNCHANGED <<sample, reports, alerts>>

\* One run at a time looks at the telemetry.
Observe ==
  /\ sample = {}
  /\ sample' = {telemetry}
  /\ UNCHANGED <<telemetry, reports, alerts>>

\* The run failed: what it saw is forgotten.
Discard ==
  /\ sample' = {}
  /\ UNCHANGED <<telemetry, reports, alerts>>

\* What a report of key k becomes when z was seen: the same one with that z, a
\* first one, or, when nothing was seen, the old one held over or none.
Renewed(k, z) ==
  IF z = 0 THEN {reports[k], {}}
  ELSE {{[metric |-> k[2], slot |-> i, z |-> z]} :
          i \in {j \in ReportIds : \A r \in reports[k] : r.slot = j}}

Report ==
  /\ \E seen \in sample : \A k \in Keys : reports'[k] \in Renewed(k, seen[k])
  /\ reports' = [k \in Keys |-> reports'[k]]
  /\ sample' = {}
  /\ UNCHANGED <<telemetry, alerts>>

\* What the alert of service s becomes under rule r: the same one, a first one
\* without a cause, or none.
Revised(s, r) ==
  IF r = "none" THEN {{}}
  ELSE IF alerts[s] = {} THEN {{[id |-> i, rule |-> r, root |-> NoService]} : i \in AlertIds}
  ELSE {{[a EXCEPT !.rule = r] : a \in alerts[s]}}

Triage ==
  /\ sample = {}
  /\ \A s \in Services : alerts'[s] \in Revised(s, Rule(Reports(s)))
  /\ alerts' = [s \in Services |-> alerts'[s]]
  /\ UNCHANGED <<telemetry, sample, reports>>

Current ==
  \A s \in Services : /\ alerts[s] # {} <=> Reports(s) # {}
                      /\ \A a \in alerts[s] : a.rule = Rule(Reports(s))

Blame ==
  /\ sample = {} /\ Current
  /\ \A s \in Services :
       alerts[s] # {} => \E root \in Causes({s}, Alarmed) :
                           alerts'[s] = {[a EXCEPT !.root = root] : a \in alerts[s]}
  /\ alerts' = [s \in Services |-> IF alerts[s] = {} THEN {} ELSE alerts'[s]]
  /\ UNCHANGED <<telemetry, sample, reports>>

Next == Shift \/ Observe \/ Discard \/ Report \/ Triage \/ Blame

Spec == Init /\ [][Next]_vars

================================================================================
