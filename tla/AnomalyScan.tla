------------------------------ MODULE AnomalyScan ------------------------------
(***************************************************************************)
(* The anomaly scan (backend/app/services/anomaly.py): one call of         *)
(* run_anomaly_scan stamps the clock, runs the detectors, loads the active *)
(* rows of the anomalies table and commits inserts, updates and            *)
(* resolutions.  Several calls may be in flight: POST /api/v1/anomalies/   *)
(* scan takes no lock.  ScanSpec is the table under such calls.            *)
(*                                                                         *)
(* Time is relative: a row carries the time since its last firing, a scan  *)
(* the time since its stamp.  Both saturate, so behaviours are unbounded   *)
(* and the state space is finite.                                          *)
(***************************************************************************)
EXTENDS Integers

CONSTANTS Services,   \* service names
          Keys,       \* the (service, metric) pairs the detectors can flag
          Runners,    \* the calls that can be in flight at once
          Slots,      \* identities of anomaly rows, per key
          Cooldown,   \* ANOMALY_COOLDOWN_SECONDS, in ticks
          MaxLag      \* bound: the ticks one scan may last

Metrics == {"span.error_rate", "span.latency_p95", "span.service_silent",
            "container.memory.percent", "container.cpu.utilization"}

NoSlot == 0

ASSUME KeysAssumption == Keys \subseteq Services \X Metrics
ASSUME SlotsAssumption == Slots \subseteq Nat \ {NoSlot}
ASSUME TimeAssumption == Cooldown \in Nat \ {0} /\ MaxLag \in Nat

VARIABLES firing,     \* what the detectors see in the telemetry: key -> z, 0 when quiet
          anomalies,  \* the anomalies table: key -> slot -> row
          scan        \* runner -> its call of run_anomaly_scan

scanVars == <<firing, anomalies, scan>>

\* Mutation: the gauges are judged by Z_THRESHOLD = 2.5, the unused constant.
ZScoresLowThreshold(metric) == {2, 3, 8}

\* The z-scores a detector of that metric reports, as far as triage tells them
\* apart: RED_Z_MIN = 3, the critical level 8, Z_CAP = 50 for silence, and
\* METRIC_Z_THRESHOLD = 4 for the resource gauges.
ZScores(metric) ==
  CASE metric \in {"span.error_rate", "span.latency_p95"} -> {3, 8}
    [] metric = "span.service_silent" -> {50}
    [] metric \in {"container.memory.percent", "container.cpu.utilization"} -> {4}

Zs == {0, 3, 4, 8, 50}

\* A silent service gets no error or latency verdict: evaluate_red returns first.
SilenceExcludes(f) ==
  \A k, l \in Keys :
    k[1] = l[1] /\ k[2] = "span.service_silent" /\ f[k] # 0
      => l[2] \notin {"span.error_rate", "span.latency_p95"} \/ f[l] = 0

MaxAge == Cooldown + MaxLag

AnomalyRow == [active : BOOLEAN, z : Zs, age : 0..MaxAge]

\* A slot that is resolved or was never used: nothing reads its columns again.
NoRow == [active |-> FALSE, z |-> 0, age |-> 0]

Plans == {"none", "open", "update", "resolve"}

ScanState == [at : {"idle", "detected", "loaded"}, lag : 0..MaxLag,
              det : [Keys -> Zs], row : [Keys -> Slots \cup {NoSlot}],
              plan : [Keys -> Plans]]

IdleScan == [at |-> "idle", lag |-> 0, det |-> [k \in Keys |-> 0],
             row |-> [k \in Keys |-> NoSlot], plan |-> [k \in Keys |-> "none"]]

Active(k) == {i \in Slots : anomalies[k][i].active}

\* Primary keys of rows that are neither active nor held by a call in flight:
\* the next INSERT takes the least of them.
NewSlot(k, i) ==
  LET Unused == {j \in Slots : /\ ~anomalies[k][j].active
                               /\ \A q \in Runners : scan[q].row[k] # j}
  IN  i \in Unused /\ \A j \in Unused : i <= j

ScanInit ==
  /\ firing = [k \in Keys |-> 0]
  /\ anomalies = [k \in Keys |-> [i \in Slots |-> NoRow]]
  /\ scan = [p \in Runners |-> IdleScan]

\* The telemetry of one key changes: a fault begins, gets worse or clears.
TelemetryShifts ==
  /\ \E k \in Keys : \E z \in ZScores(k[2]) \cup {0} :
       /\ z # firing[k]
       /\ firing' = [firing EXCEPT ![k] = z]
  /\ SilenceExcludes(firing')
  /\ UNCHANGED <<anomalies, scan>>

\* now_ns is read and the detectors run: what fires now is fixed for this call.
ScanDetect(p) ==
  /\ scan[p].at = "idle"
  /\ scan' = [scan EXCEPT ![p] = [IdleScan EXCEPT !.at = "detected", !.det = firing]]
  /\ UNCHANGED <<firing, anomalies>>

\* Mutation: off by one tick.
CooledDownEarly(p, k, i) == anomalies[k][i].age - scan[p].lag >= Cooldown - 1

\* now_ns - last >= ANOMALY_COOLDOWN_SECONDS, with now_ns the call's own stamp.
CooledDown(p, k, i) == anomalies[k][i].age - scan[p].lag >= Cooldown

\* Mutation: a quiet row in its cool-down is stamped as if it fired.
PlanForTouch(p, k, i) ==
  IF i = NoSlot THEN IF scan[p].det[k] # 0 THEN "open" ELSE "none"
  ELSE IF scan[p].det[k] # 0 \/ ~CooledDown(p, k, i) THEN "update" ELSE "resolve"

\* Mutation: a row is resolved when it is old, firing or not.
PlanForIgnoresFiring(p, k, i) ==
  IF i # NoSlot /\ CooledDown(p, k, i) THEN "resolve"
  ELSE IF scan[p].det[k] = 0 THEN "none" ELSE IF i = NoSlot THEN "open" ELSE "update"

PlanFor(p, k, i) ==
  IF scan[p].det[k] # 0
  THEN IF i = NoSlot THEN "open" ELSE "update"
  ELSE IF i # NoSlot /\ CooledDown(p, k, i) THEN "resolve" ELSE "none"

\* The SELECT of active rows builds a dict by (service, metric): of several
\* active rows of one key the last one wins, in no defined order.  What to
\* write is decided at once; it is written at the commit.
ScanLoad(p) ==
  /\ scan[p].at = "detected"
  /\ \E row \in [Keys -> Slots \cup {NoSlot}] :
       /\ \A k \in Keys : row[k] \in IF Active(k) = {} THEN {NoSlot} ELSE Active(k)
       /\ scan' = [scan EXCEPT ![p].at = "loaded", ![p].row = row,
                               ![p].plan = [k \in Keys |-> PlanFor(p, k, row[k])]]
  /\ UNCHANGED <<firing, anomalies>>

\* Mutation: the UPDATE writes every column, is_active included.
WrittenAllColumns(p, k, i, new) ==
  LET s == scan[p] IN
  IF \/ s.plan[k] = "open" /\ i = new[k]
     \/ s.plan[k] = "update" /\ i = s.row[k]
  THEN [active |-> TRUE, z |-> s.det[k], age |-> s.lag]
  ELSE IF s.plan[k] = "resolve" /\ i = s.row[k] THEN NoRow
  ELSE anomalies[k][i]

\* INSERT, or UPDATE of the loaded row.  An UPDATE writes changed columns only,
\* and is_active was loaded as true: a row another call resolved meanwhile
\* stays resolved.
Written(p, k, i, new) ==
  LET s == scan[p] IN
  IF \/ s.plan[k] = "open" /\ i = new[k]
     \/ s.plan[k] = "update" /\ i = s.row[k] /\ anomalies[k][i].active
  THEN [active |-> TRUE, z |-> s.det[k], age |-> s.lag]
  ELSE IF s.plan[k] = "resolve" /\ i = s.row[k] THEN NoRow
  ELSE anomalies[k][i]

\* The caller's db.commit() flushes the writes in one transaction.
ScanCommit(p) ==
  /\ scan[p].at = "loaded"
  /\ \E new \in [Keys -> Slots \cup {NoSlot}] :
       /\ \A k \in Keys : IF scan[p].plan[k] = "open" THEN NewSlot(k, new[k])
                                                      ELSE new[k] = NoSlot
       /\ anomalies' = [k \in Keys |-> [i \in Slots |-> Written(p, k, i, new)]]
  /\ scan' = [scan EXCEPT ![p] = IdleScan]
  /\ UNCHANGED firing

\* A database error or a crash of the call: the session rolls back.
ScanAbort(p) ==
  /\ scan[p].at # "idle"
  /\ scan' = [scan EXCEPT ![p] = IdleScan]
  /\ UNCHANGED <<firing, anomalies>>

Older(row) ==
  IF row.active /\ row.age < MaxAge THEN [row EXCEPT !.age = @ + 1] ELSE row

\* Time passes.  Bound: no call outlives MaxLag ticks.
Tick ==
  /\ \A p \in Runners : scan[p].at # "idle" => scan[p].lag < MaxLag
  /\ anomalies' = [k \in Keys |-> [i \in Slots |-> Older(anomalies[k][i])]]
  /\ scan' = [p \in Runners |-> IF scan[p].at = "idle" THEN scan[p]
                                ELSE [scan[p] EXCEPT !.lag = @ + 1]]
  /\ UNCHANGED firing

ScanStep(p) == ScanDetect(p) \/ ScanLoad(p) \/ ScanCommit(p)

ScanNext ==
  \/ TelemetryShifts
  \/ Tick
  \/ \E p \in Runners : ScanStep(p) \/ ScanAbort(p)

\* Scans keep being asked for and each of their steps ends; a call may fail,
\* but not every call for ever.  The clock does not stop.
ScanFairness ==
  /\ SF_scanVars(Tick)
  /\ \A p \in Runners : /\ WF_scanVars(ScanDetect(p))
                        /\ SF_scanVars(ScanLoad(p))
                        /\ SF_scanVars(ScanCommit(p))

ScanSpec == ScanInit /\ [][ScanNext]_scanVars /\ ScanFairness

--------------------------------------------------------------------------------

ScanTypeOK ==
  /\ firing \in [Keys -> Zs]
  /\ anomalies \in [Keys -> [Slots -> AnomalyRow]]
  /\ scan \in [Runners -> ScanState]

\* models/anomaly.py: one active row per (service, metric) pair at a time.
\* Holds when calls exclude each other (see Pipeline), not for ScanSpec.
OneActivePerKey ==
  \A k \in Keys : \A i, j \in Active(k) : i = j

\* anomaly.py: an anomaly stays active until it has not fired for the
\* cool-down.  Holds when calls exclude each other, not for ScanSpec.
CooldownRespected ==
  [][\A k \in Keys : \A i \in Slots :
       anomalies[k][i].active /\ ~anomalies'[k][i].active
         => anomalies[k][i].age >= Cooldown]_scanVars

\* A row a call in flight holds is not revived by that call's UPDATE after
\* another call resolved it.
NoRevival ==
  [][\A k \in Keys : \A i \in Slots :
       /\ ~anomalies[k][i].active
       /\ \E p \in Runners : scan[p].row[k] = i
       => ~anomalies'[k][i].active]_scanVars

\* Whatever duplicates concurrent calls left behind, once a key stays quiet
\* every active row of it is resolved in the end, although a scan resolves at
\* most one row of a key.
DuplicatesDrain ==
  \A k \in Keys : <>[](firing[k] = 0) => <>[](Active(k) = {})

\* A fault that stays is reported, and stays reported, whatever concurrent
\* calls resolve meanwhile from what they saw earlier.
FaultReported ==
  \A k \in Keys : <>[](firing[k] # 0) => <>[](Active(k) # {})

================================================================================
