-------------------------- MODULE IncidentEngineProofs --------------------------
(***************************************************************************)
(* Proofs about the anomaly scan and the incident engine, which extends    *)
(* the scan: type correctness, step by step, so that PipelineProofs can    *)
(* use the lemmas for the steps it composes; and that no scan revives a    *)
(* resolved row.                                                           *)
(***************************************************************************)
EXTENDS IncidentEngine, IncidentRulesProofs

--------------------------------------------------------------------------------
(* The scan: rows, snapshots, and what a commit writes.                        *)

LEMMA MaxAgeNat == MaxAge \in Nat /\ Cooldown \in Nat /\ MaxLag \in Nat /\ MaxLag <= MaxAge
BY TimeAssumption DEF MaxAge

LEMMA NoRowType == NoRow \in AnomalyRow
BY MaxAgeNat DEF NoRow, AnomalyRow, Zs

LEMMA IdleScanType == IdleScan \in ScanState
BY MaxAgeNat DEF IdleScan, ScanState, Zs, Plans

\* The tables and calls of ScanInit have their types.
LEMMA ScanInitType == ScanInit => ScanTypeOK
BY NoRowType, IdleScanType DEF ScanInit, ScanTypeOK, Zs

LEMMA TelemetryShiftsType == ScanTypeOK /\ TelemetryShifts => ScanTypeOK'
<1> SUFFICES ASSUME ScanTypeOK, TelemetryShifts PROVE ScanTypeOK'
  OBVIOUS
<1>1. PICK k \in Keys : \E z \in ZScores(k[2]) \cup {0} :
                          firing' = [firing EXCEPT ![k] = z]
  BY DEF TelemetryShifts
<1>2. PICK z \in ZScores(k[2]) \cup {0} : firing' = [firing EXCEPT ![k] = z]
  BY <1>1
<1>3. k[2] \in Metrics
  BY KeysAssumption
<1>4. z \in Zs
  BY <1>3 DEF ZScores, Metrics, Zs
<1>5. firing' \in [Keys -> Zs]
  BY <1>2, <1>4 DEF ScanTypeOK
<1> QED
  BY <1>5 DEF ScanTypeOK, TelemetryShifts

LEMMA ScanDetectType ==
  ASSUME NEW p \in Runners, ScanTypeOK, ScanDetect(p) PROVE ScanTypeOK'
<1>1. [IdleScan EXCEPT !.at = "detected", !.det = firing] \in ScanState
  BY IdleScanType DEF ScanState, ScanTypeOK
<1> QED
  BY <1>1 DEF ScanDetect, ScanTypeOK

LEMMA ScanLoadType ==
  ASSUME NEW p \in Runners, ScanTypeOK, ScanLoad(p) PROVE ScanTypeOK'
<1>1. PICK row \in [Keys -> Slots \cup {NoSlot}] :
        scan' = [scan EXCEPT ![p].at = "loaded", ![p].row = row,
                             ![p].plan = [k \in Keys |-> PlanFor(p, k, row[k])]]
  BY DEF ScanLoad
<1>2. \A k \in Keys : PlanFor(p, k, row[k]) \in Plans
  BY DEF PlanFor, Plans
<1>3. [k \in Keys |-> PlanFor(p, k, row[k])] \in [Keys -> Plans]
  BY <1>2
<1>4. scan \in [Runners -> ScanState] /\ scan[p] \in ScanState
  BY DEF ScanTypeOK
<1>5. scan'[p] = [scan[p] EXCEPT !.at = "loaded", !.row = row,
                                 !.plan = [k \in Keys |-> PlanFor(p, k, row[k])]]
  BY <1>1, <1>4
<1>6. scan'[p] \in ScanState
  BY <1>3, <1>4, <1>5 DEF ScanState
<1>7. scan' = [scan EXCEPT ![p] = scan'[p]]
  BY <1>1, <1>4
<1>8. scan' \in [Runners -> ScanState]
  BY <1>4, <1>6, <1>7
<1> QED
  BY <1>8 DEF ScanLoad, ScanTypeOK

LEMMA WrittenType ==
  ASSUME NEW p \in Runners, NEW k \in Keys, NEW i \in Slots, NEW new, ScanTypeOK
  PROVE  Written(p, k, i, new) \in AnomalyRow
<1>1. scan[p].det[k] \in Zs /\ scan[p].lag \in 0..MaxAge
  BY MaxAgeNat DEF ScanTypeOK, ScanState
<1>2. [active |-> TRUE, z |-> scan[p].det[k], age |-> scan[p].lag] \in AnomalyRow
  BY <1>1 DEF AnomalyRow
<1>3. anomalies[k][i] \in AnomalyRow
  BY DEF ScanTypeOK
<1> QED
  BY <1>2, <1>3, NoRowType DEF Written

LEMMA ScanCommitType ==
  ASSUME NEW p \in Runners, ScanTypeOK, ScanCommit(p) PROVE ScanTypeOK'
<1>1. PICK new :
        anomalies' = [k \in Keys |-> [i \in Slots |-> Written(p, k, i, new)]]
  BY DEF ScanCommit
<1>2. anomalies' \in [Keys -> [Slots -> AnomalyRow]]
  BY <1>1, WrittenType
<1>3. scan' \in [Runners -> ScanState]
  BY IdleScanType DEF ScanCommit, ScanTypeOK
<1> QED
  BY <1>2, <1>3 DEF ScanCommit, ScanTypeOK

LEMMA ScanAbortType ==
  ASSUME NEW p \in Runners, ScanTypeOK, ScanAbort(p) PROVE ScanTypeOK'
BY IdleScanType DEF ScanAbort, ScanTypeOK

LEMMA OlderType ==
  ASSUME NEW row \in AnomalyRow
  PROVE  /\ Older(row) \in AnomalyRow
         /\ Older(row).active = row.active
         /\ Older(row).z = row.z
         /\ Older(row).age >= row.age
BY MaxAgeNat DEF Older, AnomalyRow

LEMMA TickType == ScanTypeOK /\ Tick => ScanTypeOK'
<1> SUFFICES ASSUME ScanTypeOK, Tick PROVE ScanTypeOK'
  OBVIOUS
<1>1. anomalies' \in [Keys -> [Slots -> AnomalyRow]]
  BY OlderType DEF Tick, ScanTypeOK
<1>2. ASSUME NEW p \in Runners, scan[p].at # "idle"
      PROVE  [scan[p] EXCEPT !.lag = @ + 1] \in ScanState
  <2>1. scan[p] \in ScanState /\ scan[p].lag + 1 \in 0..MaxLag
    BY <1>2, MaxAgeNat DEF Tick, ScanTypeOK, ScanState
  <2> QED
    BY <2>1 DEF ScanState
<1>3. scan' \in [Runners -> ScanState]
  BY <1>2 DEF Tick, ScanTypeOK
<1> QED
  BY <1>1, <1>3 DEF Tick, ScanTypeOK

\* Time changes neither what is in the table nor what a call will write.
LEMMA TickKeeps ==
  ASSUME ScanTypeOK, Tick
  PROVE  /\ \A p \in Runners : /\ scan'[p].at = scan[p].at
                               /\ scan'[p].row = scan[p].row
                               /\ scan'[p].plan = scan[p].plan
         /\ \A k \in Keys, i \in Slots : /\ anomalies'[k][i].active = anomalies[k][i].active
                                        /\ anomalies'[k][i].z = anomalies[k][i].z
                                        /\ anomalies'[k][i].age >= anomalies[k][i].age
<1>1. ASSUME NEW p \in Runners
      PROVE  /\ scan'[p].at = scan[p].at
             /\ scan'[p].row = scan[p].row
             /\ scan'[p].plan = scan[p].plan
  <2>1. scan[p] \in ScanState
    BY DEF ScanTypeOK
  <2>2. \/ scan'[p] = scan[p]
        \/ scan'[p] = [scan[p] EXCEPT !.lag = @ + 1]
    BY DEF Tick
  <2> QED
    BY <2>1, <2>2 DEF ScanState
<1>2. ASSUME NEW k \in Keys, NEW i \in Slots
      PROVE  /\ anomalies'[k][i].active = anomalies[k][i].active
             /\ anomalies'[k][i].z = anomalies[k][i].z
             /\ anomalies'[k][i].age >= anomalies[k][i].age
  <2>1. anomalies'[k][i] = Older(anomalies[k][i])
    BY DEF Tick
  <2>2. anomalies[k][i] \in AnomalyRow
    BY DEF ScanTypeOK
  <2> QED
    BY <2>1, <2>2, OlderType
<1> QED
  BY <1>1, <1>2

\* The type invariant, for any number of unlocked calls in flight.
THEOREM ScanTypeCorrect == ScanSpec => []ScanTypeOK
<1>1. ScanInit => ScanTypeOK
  BY ScanInitType
<1>2. ScanTypeOK /\ [ScanNext]_scanVars => ScanTypeOK'
  <2> SUFFICES ASSUME ScanTypeOK, [ScanNext]_scanVars PROVE ScanTypeOK'
    OBVIOUS
  <2>1. CASE TelemetryShifts
    BY <2>1, TelemetryShiftsType
  <2>2. CASE Tick
    BY <2>2, TickType
  <2>3. ASSUME NEW p \in Runners, ScanStep(p) \/ ScanAbort(p) PROVE ScanTypeOK'
    BY <2>3, ScanDetectType, ScanLoadType, ScanCommitType, ScanAbortType DEF ScanStep
  <2>4. CASE UNCHANGED scanVars
    BY <2>4 DEF scanVars, ScanTypeOK
  <2> QED
    BY <2>1, <2>2, <2>3, <2>4 DEF ScanNext
<1> QED
  BY <1>1, <1>2, PTL DEF ScanSpec

--------------------------------------------------------------------------------
(* No scan makes a resolved row active again.                                 *)

\* A commit activates only a row it loaded that is still active, or one that no
\* call in flight holds.
LEMMA CommitRevivesNone ==
  ASSUME ScanTypeOK, NEW p \in Runners, ScanCommit(p), NEW k \in Keys, NEW i \in Slots,
         ~anomalies[k][i].active, NEW q \in Runners, scan[q].row[k] = i
  PROVE  ~anomalies'[k][i].active
<1>1. PICK new \in [Keys -> Slots \cup {NoSlot}] :
        /\ \A l \in Keys : IF scan[p].plan[l] = "open" THEN NewSlot(l, new[l])
                                                       ELSE new[l] = NoSlot
        /\ anomalies' = [l \in Keys |-> [j \in Slots |-> Written(p, l, j, new)]]
  BY DEF ScanCommit
<1>2. ~(scan[p].plan[k] = "open" /\ i = new[k])
  BY <1>1 DEF NewSlot
<1>3. anomalies'[k][i] = Written(p, k, i, new)
  BY <1>1
<1> QED
  BY <1>2, <1>3 DEF Written, NoRow

\* For any number of unlocked calls: a row that a call in flight has loaded and
\* another call has resolved is not made active again.
THEOREM NoRevivalHolds == ScanSpec => NoRevival
<1>1. ASSUME ScanTypeOK, [ScanNext]_scanVars, NEW k \in Keys, NEW i \in Slots,
             ~anomalies[k][i].active, NEW q \in Runners, scan[q].row[k] = i
      PROVE  ~anomalies'[k][i].active
  <2>1. CASE TelemetryShifts
    BY <1>1, <2>1 DEF TelemetryShifts
  <2>2. CASE Tick
    BY <1>1, <2>2, TickKeeps
  <2>3. ASSUME NEW p \in Runners, ScanStep(p) \/ ScanAbort(p)
        PROVE  ~anomalies'[k][i].active
    <3>1. CASE ScanCommit(p)
      BY <1>1, <3>1, CommitRevivesNone
    <3>2. CASE ScanDetect(p) \/ ScanLoad(p) \/ ScanAbort(p)
      BY <1>1, <3>2 DEF ScanDetect, ScanLoad, ScanAbort
    <3> QED
      BY <2>3, <3>1, <3>2 DEF ScanStep
  <2>4. CASE UNCHANGED scanVars
    BY <1>1, <2>4 DEF scanVars
  <2> QED
    BY <1>1, <2>1, <2>2, <2>3, <2>4 DEF ScanNext
<1>2. ScanTypeOK /\ [ScanNext]_scanVars =>
        [\A k \in Keys : \A i \in Slots :
           /\ ~anomalies[k][i].active
           /\ \E p \in Runners : scan[p].row[k] = i
           => ~anomalies'[k][i].active]_scanVars
  BY <1>1
<1> QED
  BY <1>2, ScanTypeCorrect, PTL DEF ScanSpec, NoRevival

--------------------------------------------------------------------------------
(* The engine.                                                                 *)

LEMMA TriageType == \A s \in Services : Triage(s) \in Rules \cup {"none"}
BY EvaluateRulesType DEF Triage

LEMMA NoIncidentType == NoIncident \in IncidentRow
BY DEF NoIncident, IncidentRow

LEMMA IdleEngineType == IdleEngine \in EngineState
BY DEF IdleEngine, EngineState

LEMMA EngineInitType == EngineInit => EngineTypeOK
BY ScanInitType, NoIncidentType, IdleEngineType DEF EngineInit, EngineTypeOK

LEMMA ScanTypeStable == ScanTypeOK /\ UNCHANGED scanVars => ScanTypeOK'
BY DEF ScanTypeOK, scanVars

LEMMA EngineMatchType ==
  ASSUME NEW p \in Engines, EngineTypeOK, EngineMatch(p) PROVE EngineTypeOK'
<1>1. engine[p] \in EngineState /\ engine \in [Engines -> EngineState]
  BY DEF EngineTypeOK
<1>2. [s \in Services |-> Triage(s)] \in [Services -> Rules \cup {"none"}]
  BY TriageType
<1>3. engine'[p] = [engine[p] EXCEPT !.at = "matched",
                                     !.match = [s \in Services |-> Triage(s)]]
  BY <1>1 DEF EngineMatch
<1>4. engine'[p] \in EngineState
  BY <1>1, <1>2, <1>3 DEF EngineState
<1>5. engine' = [engine EXCEPT ![p] = engine'[p]]
  BY <1>1 DEF EngineMatch
<1>6. engine' \in [Engines -> EngineState]
  BY <1>1, <1>4, <1>5
<1> QED
  BY <1>6, ScanTypeStable DEF EngineMatch, EngineTypeOK

LEMMA EngineLoadType ==
  ASSUME NEW p \in Engines, EngineTypeOK, EngineLoad(p) PROVE EngineTypeOK'
<1>1. engine[p] \in EngineState /\ engine \in [Engines -> EngineState]
  BY DEF EngineTypeOK
<1>2. PICK row \in [Services -> IncSlots \cup {NoSlot}] :
        engine' = [engine EXCEPT ![p].at = "loaded", ![p].row = row]
  BY DEF EngineLoad
<1>3. engine'[p] = [engine[p] EXCEPT !.at = "loaded", !.row = row]
  BY <1>1, <1>2
<1>4. engine'[p] \in EngineState
  BY <1>1, <1>3 DEF EngineState
<1>5. engine' = [engine EXCEPT ![p] = engine'[p]]
  BY <1>1, <1>2
<1>6. engine' \in [Engines -> EngineState]
  BY <1>1, <1>4, <1>5
<1> QED
  BY <1>6, ScanTypeStable DEF EngineLoad, EngineTypeOK

LEMMA TriagedType ==
  ASSUME NEW p \in Engines, NEW s \in Services, NEW i \in IncSlots, NEW new, EngineTypeOK
  PROVE  Triaged(p, s, i, new) \in IncidentRow
<1>1. incidents[s][i] \in IncidentRow /\ engine[p].match[s] \in Rules \cup {"none"}
  BY DEF EngineTypeOK, EngineState
<1> QED
  BY <1>1, NoIncidentType DEF Triaged, IncidentRow

LEMMA EngineCommitType ==
  ASSUME NEW p \in Engines, EngineTypeOK, EngineCommit(p) PROVE EngineTypeOK'
<1>1. PICK new :
        incidents' = [s \in Services |-> [i \in IncSlots |-> Triaged(p, s, i, new)]]
  BY DEF EngineCommit
<1>2. incidents' \in [Services -> [IncSlots -> IncidentRow]]
  BY <1>1, TriagedType
<1>3. engine' \in [Engines -> EngineState]
  BY IdleEngineType DEF EngineCommit, EngineTypeOK
<1> QED
  BY <1>2, <1>3, ScanTypeStable DEF EngineCommit, EngineTypeOK

LEMMA EngineAbortType ==
  ASSUME NEW p \in Engines, EngineTypeOK, EngineAbort(p) PROVE EngineTypeOK'
BY IdleEngineType, ScanTypeStable DEF EngineAbort, EngineTypeOK

\* The type invariant, for any number of unlocked scans and engine calls.
THEOREM EngineTypeCorrect == EngineSpec => []EngineTypeOK
<1>1. EngineInit => EngineTypeOK
  BY EngineInitType
<1>2. EngineTypeOK /\ [EngineNext]_engineVars => EngineTypeOK'
  <2> SUFFICES ASSUME EngineTypeOK, [EngineNext]_engineVars PROVE EngineTypeOK'
    OBVIOUS
  <2>1. CASE ScanNext /\ UNCHANGED <<incidents, engine>>
    BY <2>1, TelemetryShiftsType, TickType, ScanDetectType, ScanLoadType,
       ScanCommitType, ScanAbortType DEF ScanNext, ScanStep, EngineTypeOK
  <2>2. ASSUME NEW p \in Engines, EngineStep(p) \/ EngineAbort(p) PROVE EngineTypeOK'
    BY <2>2, EngineMatchType, EngineLoadType, EngineCommitType, EngineAbortType
       DEF EngineStep
  <2>3. CASE UNCHANGED engineVars
    BY <2>3, ScanTypeStable DEF engineVars, scanVars, EngineTypeOK
  <2> QED
    BY <2>1, <2>2, <2>3 DEF EngineNext
<1> QED
  BY <1>1, <1>2, PTL DEF EngineSpec

================================================================================
