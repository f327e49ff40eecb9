----------------------------- MODULE PipelineProofs -----------------------------
(***************************************************************************)
(* Proofs about the pipeline, in layers, each invariant resting on the     *)
(* ones before it: types; the lock and what sessions are open under it;    *)
(* the anomalies table and the snapshot a scan holds of it; the incidents  *)
(* and the match an engine call holds of the anomalies; the root causes;   *)
(* and, on top of them, that the pipeline implements Alerts.               *)
(***************************************************************************)
EXTENDS Pipeline, IncidentEngineProofs

Busy(p) == stage[p] \notin {"idle", "waiting"}

--------------------------------------------------------------------------------
(* Types.                                                                      *)

LEMMA EngineTypeStable == EngineTypeOK /\ UNCHANGED engineVars => EngineTypeOK'
BY ScanTypeStable DEF EngineTypeOK, engineVars, scanVars

LEMMA ScanTypeLifts ==
  EngineTypeOK /\ ScanTypeOK' /\ UNCHANGED <<incidents, engine>> => EngineTypeOK'
BY DEF EngineTypeOK

LEMMA InitType == Init => TypeOK
BY EngineInitType, RunnersAssumption DEF Init, TypeOK, Stages

LEMMA WorldType == TypeOK /\ World => TypeOK'
BY TelemetryShiftsType, TickType, ScanTypeLifts
   DEF World, TypeOK, EngineTypeOK, schedVars

LEMMA RequestType == ASSUME NEW p \in Runners, TypeOK, Request(p) PROVE TypeOK'
BY EngineTypeStable DEF Request, TypeOK, Stages

LEMMA AcquireType == ASSUME NEW p \in Runners, TypeOK, Acquire(p) PROVE TypeOK'
BY EngineTypeStable DEF Acquire, TypeOK, Stages

LEMMA DetectType == ASSUME NEW p \in Runners, TypeOK, Detect(p) PROVE TypeOK'
BY ScanDetectType, ScanTypeLifts DEF Detect, TypeOK, EngineTypeOK, schedVars

LEMMA DetectLoadType == ASSUME NEW p \in Runners, TypeOK, DetectLoad(p) PROVE TypeOK'
BY ScanLoadType, ScanTypeLifts DEF DetectLoad, TypeOK, EngineTypeOK, schedVars

LEMMA DetectCommitType == ASSUME NEW p \in Runners, TypeOK, DetectCommit(p) PROVE TypeOK'
<1>1. EngineTypeOK'
  BY ScanCommitType, ScanTypeLifts DEF DetectCommit, TypeOK, EngineTypeOK
<1> QED
  BY <1>1 DEF DetectCommit, TypeOK, Stages

LEMMA TriageMatchType == ASSUME NEW p \in Runners, TypeOK, TriageMatch(p) PROVE TypeOK'
BY EngineMatchType, RunnersAssumption DEF TriageMatch, TypeOK, schedVars

LEMMA TriageLoadType == ASSUME NEW p \in Runners, TypeOK, TriageLoad(p) PROVE TypeOK'
BY EngineLoadType, RunnersAssumption DEF TriageLoad, TypeOK, schedVars

LEMMA TriageCommitType == ASSUME NEW p \in Runners, TypeOK, TriageCommit(p) PROVE TypeOK'
<1>1. EngineTypeOK'
  BY EngineCommitType, RunnersAssumption DEF TriageCommit, TypeOK
<1> QED
  BY <1>1 DEF TriageCommit, TypeOK, Stages

LEMMA ReleaseType ==
  ASSUME NEW p \in Runners, NEW st \in Stages, TypeOK, Release(p, st)
  PROVE  /\ lock' \in Runners \cup {NoRunner}
         /\ waiters' \in Seq(Runners)
         /\ stage' \in [Runners -> Stages]
BY DEF Release, TypeOK

LEMMA AnalyseType == ASSUME NEW p \in Runners, TypeOK, Analyse(p) PROVE TypeOK'
<1>1. PICK root \in [Services -> Services] :
        incidents' = [s \in Services |-> [i \in IncSlots |->
                        IF incidents[s][i].open
                        THEN [incidents[s][i] EXCEPT !.root = root[s]]
                        ELSE incidents[s][i]]]
  BY DEF Analyse
<1>2. ASSUME NEW s \in Services, NEW i \in IncSlots
      PROVE  [incidents[s][i] EXCEPT !.root = root[s]] \in IncidentRow
  <2>1. incidents[s][i] \in IncidentRow /\ root[s] \in Services
    BY DEF TypeOK, EngineTypeOK
  <2> QED BY <2>1 DEF IncidentRow
<1>3. incidents' \in [Services -> [IncSlots -> IncidentRow]]
  BY <1>1, <1>2 DEF TypeOK, EngineTypeOK
<1>4. EngineTypeOK'
  BY <1>3, ScanTypeStable DEF Analyse, TypeOK, EngineTypeOK
<1>5. PICK st \in Stages : Release(p, st)
  BY DEF Analyse, Stages
<1> QED
  BY <1>4, <1>5, ReleaseType DEF TypeOK

LEMMA ExplainDoneType == ASSUME NEW p \in Runners, TypeOK, ExplainDone(p) PROVE TypeOK'
BY EngineTypeStable, ReleaseType DEF ExplainDone, TypeOK, Stages

LEMMA FailType == ASSUME NEW p \in Runners, TypeOK, Fail(p) PROVE TypeOK'
<1>1. EngineTypeOK'
  BY IdleScanType, IdleEngineType, RunnersAssumption
     DEF Fail, TypeOK, EngineTypeOK, ScanTypeOK
<1> QED
  BY <1>1, ReleaseType DEF Fail, TypeOK, Stages

LEMMA RestartType == TypeOK /\ Restart => TypeOK'
BY IdleScanType, IdleEngineType, RunnersAssumption
   DEF Restart, TypeOK, EngineTypeOK, ScanTypeOK, Stages

\* Types hold along every behaviour of the pipeline.
THEOREM TypeCorrect == Spec => []TypeOK
<1>1. TypeOK /\ [Next]_vars => TypeOK'
  <2> SUFFICES ASSUME TypeOK, [Next]_vars PROVE TypeOK'
    OBVIOUS
  <2>1. CASE World
    BY <2>1, WorldType
  <2>2. ASSUME NEW p \in Runners, Request(p) \/ RunStep(p) \/ Fail(p) PROVE TypeOK'
    BY <2>2, RequestType, AcquireType, DetectType, DetectLoadType, DetectCommitType,
       TriageMatchType, TriageLoadType, TriageCommitType, AnalyseType,
       ExplainDoneType, FailType DEF RunStep
  <2>3. CASE Restart
    BY <2>3, RestartType
  <2>4. CASE UNCHANGED vars
    BY <2>4, EngineTypeStable DEF vars, engineVars, TypeOK
  <2> QED
    BY <2>1, <2>2, <2>3, <2>4 DEF Next
<1> QED
  BY InitType, <1>1, PTL DEF Spec

--------------------------------------------------------------------------------
(* The lock, and the sessions open under it.                                   *)

\* A run past its queue is the holder of the lock; a scan or an engine call is
\* under way only in its own stage of such a run.
LockInv ==
  \A p \in Runners :
    /\ Busy(p) => lock = p
    /\ scan[p].at # "idle" => stage[p] = "detect"
    /\ engine[p].at # "idle" => stage[p] = "incidents"

LEMMA LockInvInit == Init => LockInv
BY RunnersAssumption
   DEF Init, EngineInit, ScanInit, IdleScan, IdleEngine, LockInv, Busy

LEMMA LockInvStep == TypeOK /\ LockInv /\ [Next]_vars => LockInv'
<1> SUFFICES ASSUME TypeOK, LockInv, [Next]_vars PROVE LockInv'
  OBVIOUS
<1> USE DEF LockInv, Busy
<1>1. CASE World
  <2>1. \A p \in Runners : scan'[p].at = scan[p].at
    BY <1>1, TickKeeps DEF World, TelemetryShifts, TypeOK, EngineTypeOK
  <2> QED BY <1>1, <2>1 DEF World, schedVars
<1>2. ASSUME NEW p \in Runners, Request(p) PROVE LockInv'
  BY <1>2 DEF Request, TypeOK, engineVars
<1>3. ASSUME NEW p \in Runners, Acquire(p) PROVE LockInv'
  BY <1>3, RunnersAssumption DEF Acquire, TypeOK, engineVars
<1>4. ASSUME NEW p \in Runners, Detect(p) PROVE LockInv'
  BY <1>4 DEF Detect, ScanDetect, schedVars, TypeOK, EngineTypeOK, ScanTypeOK
<1>5. ASSUME NEW p \in Runners, DetectLoad(p) PROVE LockInv'
  <2>1. \A q \in Runners : q # p => scan'[q] = scan[q]
    BY <1>5 DEF DetectLoad, ScanLoad, TypeOK, EngineTypeOK, ScanTypeOK
  <2> QED BY <1>5, <2>1 DEF DetectLoad, schedVars
<1>6. ASSUME NEW p \in Runners, DetectCommit(p) PROVE LockInv'
  BY <1>6 DEF DetectCommit, ScanCommit, IdleScan, TypeOK, EngineTypeOK, ScanTypeOK
<1>7. ASSUME NEW p \in Runners, TriageMatch(p) PROVE LockInv'
  <2>1. \A q \in Runners : q # p => engine'[q] = engine[q]
    BY <1>7, RunnersAssumption DEF TriageMatch, EngineMatch, TypeOK, EngineTypeOK
  <2> QED BY <1>7, <2>1 DEF TriageMatch, EngineMatch, schedVars, scanVars
<1>8. ASSUME NEW p \in Runners, TriageLoad(p) PROVE LockInv'
  <2>1. \A q \in Runners : q # p => engine'[q] = engine[q]
    BY <1>8, RunnersAssumption DEF TriageLoad, EngineLoad, TypeOK, EngineTypeOK
  <2> QED BY <1>8, <2>1 DEF TriageLoad, EngineLoad, schedVars, scanVars
<1>9. ASSUME NEW p \in Runners, TriageCommit(p) PROVE LockInv'
  BY <1>9, RunnersAssumption
     DEF TriageCommit, EngineCommit, IdleEngine, scanVars, TypeOK, EngineTypeOK
<1>10. ASSUME NEW p \in Runners, Analyse(p) PROVE LockInv'
  BY <1>10 DEF Analyse, Release, scanVars, TypeOK
<1>11. ASSUME NEW p \in Runners, ExplainDone(p) PROVE LockInv'
  BY <1>11 DEF ExplainDone, Release, engineVars, TypeOK
<1>12. ASSUME NEW p \in Runners, Fail(p) PROVE LockInv'
  BY <1>12, RunnersAssumption DEF Fail, Release, IdleScan, IdleEngine, TypeOK,
     EngineTypeOK, ScanTypeOK
<1>13. CASE Restart
  BY <1>13 DEF Restart, IdleScan, IdleEngine
<1>14. CASE UNCHANGED vars
  BY <1>14 DEF vars
<1> QED
  BY <1>1, <1>2, <1>3, <1>4, <1>5, <1>6, <1>7, <1>8, <1>9, <1>10, <1>11, <1>12,
     <1>13, <1>14 DEF Next, RunStep

THEOREM LockInvariant == Spec => []LockInv
<1>1. TypeOK /\ LockInv /\ [Next]_vars => LockInv'
  BY LockInvStep
<1> QED
  BY LockInvInit, <1>1, TypeCorrect, PTL DEF Spec

\* Two runs never analyse the same data at the same time.
THEOREM MutualExclusionHolds == Spec => []MutualExclusion
<1>1. LockInv => MutualExclusion
  BY DEF LockInv, Busy, MutualExclusion
<1> QED
  BY <1>1, LockInvariant, PTL

--------------------------------------------------------------------------------
(* The anomalies table, and the snapshot of it under which a scan writes.      *)

\* What a loaded scan means to write still fits the table: it inserts a row
\* only where none is active and resolves only a row that has cooled down.
SnapshotCurrent ==
  \A p \in Runners : scan[p].at = "loaded" => \A k \in Keys :
    /\ scan[p].plan[k] = "open" => Active(k) = {}
    /\ \A i \in Slots : scan[p].plan[k] = "resolve" /\ scan[p].row[k] = i
                          => anomalies[k][i].age >= Cooldown

ScanInv == OneActivePerKey /\ SnapshotCurrent

LEMMA ScanInvInit == Init => ScanInv
BY DEF Init, EngineInit, ScanInit, IdleScan, NoRow, ScanInv, OneActivePerKey,
       SnapshotCurrent, Active

\* A step that leaves the table alone and loads no scan keeps the invariant.
LEMMA ScanInvFrame ==
  ASSUME ScanInv, anomalies' = anomalies,
         \A p \in Runners : scan'[p] = scan[p] \/ scan'[p].at # "loaded"
  PROVE  ScanInv'
BY DEF ScanInv, OneActivePerKey, SnapshotCurrent, Active

LEMMA ScanInvTick == ASSUME TypeOK, ScanInv, Tick PROVE ScanInv'
<1>1. ScanTypeOK /\ ScanTypeOK'
  BY TickType DEF TypeOK, EngineTypeOK
<1>2. \A k \in Keys : Active(k)' = Active(k)
  BY <1>1, TickKeeps DEF Active
<1>3. OneActivePerKey'
  BY <1>2 DEF ScanInv, OneActivePerKey
<1>4. ASSUME NEW p \in Runners, scan'[p].at = "loaded", NEW k \in Keys
      PROVE  /\ scan'[p].plan[k] = "open" => Active(k)' = {}
             /\ \A i \in Slots : scan'[p].plan[k] = "resolve" /\ scan'[p].row[k] = i
                                   => anomalies'[k][i].age >= Cooldown
  <2>1. /\ scan[p].at = "loaded"
        /\ scan'[p].plan = scan[p].plan
        /\ scan'[p].row = scan[p].row
    BY <1>1, <1>4, TickKeeps
  <2>2. ASSUME NEW i \in Slots, scan[p].plan[k] = "resolve", scan[p].row[k] = i
        PROVE  anomalies'[k][i].age >= Cooldown
    <3>1. anomalies[k][i].age >= Cooldown
      BY <2>1, <2>2 DEF ScanInv, SnapshotCurrent
    <3>2. anomalies'[k][i].age >= anomalies[k][i].age
      BY <1>1, TickKeeps
    <3>3. anomalies[k][i].age \in Int /\ anomalies'[k][i].age \in Int
      BY <1>1 DEF ScanTypeOK, AnomalyRow
    <3> QED
      BY <3>1, <3>2, <3>3, MaxAgeNat
  <2>3. scan[p].plan[k] = "open" => Active(k)' = {}
    BY <1>2, <2>1 DEF ScanInv, SnapshotCurrent
  <2> QED
    BY <2>1, <2>2, <2>3
<1>5. SnapshotCurrent'
  BY <1>4 DEF SnapshotCurrent
<1> QED
  BY <1>3, <1>5 DEF ScanInv

LEMMA ScanInvLoad ==
  ASSUME TypeOK, ScanInv, NEW p \in Runners, ScanLoad(p) PROVE ScanInv'
<1>1. PICK row \in [Keys -> Slots \cup {NoSlot}] :
        /\ \A k \in Keys : row[k] \in IF Active(k) = {} THEN {NoSlot} ELSE Active(k)
        /\ scan' = [scan EXCEPT ![p].at = "loaded", ![p].row = row,
                                ![p].plan = [k \in Keys |-> PlanFor(p, k, row[k])]]
  BY DEF ScanLoad
<1>2. scan \in [Runners -> ScanState] /\ scan[p] \in ScanState
  BY DEF TypeOK, EngineTypeOK, ScanTypeOK
<1>3. scan'[p] = [scan[p] EXCEPT !.at = "loaded", !.row = row,
                                 !.plan = [k \in Keys |-> PlanFor(p, k, row[k])]]
  BY <1>1, <1>2
<1>4. \A q \in Runners : q # p => scan'[q] = scan[q]
  BY <1>1, <1>2
<1>5. anomalies' = anomalies /\ \A k \in Keys : Active(k)' = Active(k)
  BY DEF ScanLoad, Active
<1>6. ASSUME NEW k \in Keys
      PROVE  /\ scan'[p].plan[k] = "open" => Active(k) = {}
             /\ \A i \in Slots : scan'[p].plan[k] = "resolve" /\ scan'[p].row[k] = i
                                   => anomalies[k][i].age >= Cooldown
  <2>1. scan'[p].plan[k] = PlanFor(p, k, row[k]) /\ scan'[p].row[k] = row[k]
    BY <1>2, <1>3 DEF ScanState
  <2>2. PlanFor(p, k, row[k]) = "open" => row[k] = NoSlot
    BY DEF PlanFor
  <2>3. row[k] = NoSlot => Active(k) = {}
    BY <1>1, SlotsAssumption DEF Active
  <2>4. ASSUME NEW i \in Slots, PlanFor(p, k, i) = "resolve"
        PROVE  anomalies[k][i].age >= Cooldown
    <3>1. anomalies[k][i].age - scan[p].lag >= Cooldown
      BY <2>4 DEF PlanFor, CooledDown
    <3>2. scan[p].lag \in Nat /\ anomalies[k][i].age \in Int
      BY <1>2 DEF ScanState, TypeOK, EngineTypeOK, ScanTypeOK, AnomalyRow
    <3> QED
      BY <3>1, <3>2, MaxAgeNat
  <2> QED
    BY <2>1, <2>2, <2>3, <2>4
<1>7. OneActivePerKey'
  BY <1>5 DEF ScanInv, OneActivePerKey
<1>8. SnapshotCurrent'
  BY <1>4, <1>5, <1>6 DEF ScanInv, SnapshotCurrent
<1> QED
  BY <1>7, <1>8 DEF ScanInv

\* A commit under the lock: no other scan is under way, so only the table counts.
LEMMA ScanInvCommit ==
  ASSUME TypeOK, LockInv, ScanInv, NEW p \in Runners, stage[p] = "detect", ScanCommit(p)
  PROVE  ScanInv'
<1>1. PICK new :
        /\ \A k \in Keys : IF scan[p].plan[k] = "open" THEN NewSlot(k, new[k])
                                                       ELSE new[k] = NoSlot
        /\ anomalies' = [k \in Keys |-> [i \in Slots |-> Written(p, k, i, new)]]
  BY DEF ScanCommit
<1>2. \A q \in Runners : scan'[q].at = "idle"
  BY DEF ScanCommit, IdleScan, LockInv, Busy, TypeOK, EngineTypeOK, ScanTypeOK
<1>3. ASSUME NEW k \in Keys, NEW i \in Slots, NEW j \in Slots,
             anomalies'[k][i].active, anomalies'[k][j].active
      PROVE  i = j
  <2>1. anomalies'[k][i] = Written(p, k, i, new) /\ anomalies'[k][j] = Written(p, k, j, new)
    BY <1>1
  <2>2. CASE scan[p].plan[k] = "open"
    <3>1. Active(k) = {}
      BY <2>2 DEF ScanCommit, ScanInv, SnapshotCurrent
    <3>2. i = new[k] /\ j = new[k]
      BY <1>3, <2>1, <2>2, <3>1 DEF Written, Active
    <3> QED
      BY <3>2
  <2>3. CASE scan[p].plan[k] # "open"
    <3>1. anomalies[k][i].active /\ anomalies[k][j].active
      BY <1>3, <2>1, <2>3 DEF Written, NoRow
    <3> QED
      BY <3>1 DEF ScanInv, OneActivePerKey, Active
  <2> QED
    BY <2>2, <2>3
<1>4. OneActivePerKey'
  BY <1>3 DEF OneActivePerKey, Active
<1>5. SnapshotCurrent'
  BY <1>2 DEF SnapshotCurrent
<1> QED
  BY <1>4, <1>5 DEF ScanInv

LEMMA ScanInvStep == TypeOK /\ LockInv /\ ScanInv /\ [Next]_vars => ScanInv'
<1> SUFFICES ASSUME TypeOK, LockInv, ScanInv, [Next]_vars PROVE ScanInv'
  OBVIOUS
<1>1. CASE World
  BY <1>1, ScanInvTick, ScanInvFrame DEF World, TelemetryShifts
<1>2. ASSUME NEW p \in Runners, Detect(p) PROVE ScanInv'
  <2>1. \A q \in Runners : scan'[q] = scan[q] \/ scan'[q].at # "loaded"
    BY <1>2 DEF Detect, ScanDetect, IdleScan, TypeOK, EngineTypeOK, ScanTypeOK
  <2> QED
    BY <1>2, <2>1, ScanInvFrame DEF Detect, ScanDetect
<1>3. ASSUME NEW p \in Runners, DetectLoad(p) PROVE ScanInv'
  BY <1>3, ScanInvLoad DEF DetectLoad
<1>4. ASSUME NEW p \in Runners, DetectCommit(p) PROVE ScanInv'
  BY <1>4, ScanInvCommit DEF DetectCommit
<1>5. ASSUME NEW p \in Runners,
             \/ Request(p) \/ Acquire(p) \/ TriageMatch(p) \/ TriageLoad(p)
             \/ TriageCommit(p) \/ Analyse(p) \/ ExplainDone(p)
      PROVE  ScanInv'
  <2>1. UNCHANGED scanVars
    BY <1>5 DEF Request, Acquire, TriageMatch, TriageLoad, TriageCommit, Analyse,
       ExplainDone, EngineMatch, EngineLoad, EngineCommit, engineVars, scanVars
  <2> QED
    BY <2>1, ScanInvFrame DEF scanVars
<1>6. ASSUME NEW p \in Runners, Fail(p) PROVE ScanInv'
  <2>1. \A q \in Runners : scan'[q] = scan[q] \/ scan'[q].at # "loaded"
    BY <1>6 DEF Fail, IdleScan, TypeOK, EngineTypeOK, ScanTypeOK
  <2> QED
    BY <1>6, <2>1, ScanInvFrame DEF Fail
<1>7. CASE Restart
  BY <1>7, ScanInvFrame DEF Restart, IdleScan
<1>8. CASE UNCHANGED vars
  BY <1>8, ScanInvFrame DEF vars
<1> QED
  BY <1>1, <1>2, <1>3, <1>4, <1>5, <1>6, <1>7, <1>8 DEF Next, RunStep

THEOREM ScanInvariant == Spec => []ScanInv
<1>1. TypeOK /\ LockInv /\ ScanInv /\ [Next]_vars => ScanInv'
  BY ScanInvStep
<1> QED
  BY ScanInvInit, <1>1, TypeCorrect, LockInvariant, PTL DEF Spec

\* One active anomaly per (service, metric) at a time, whatever runs overlap,
\* fail or are cut off by a restart.
THEOREM OneActivePerKeyHolds == Spec => []OneActivePerKey
<1>1. ScanInv => OneActivePerKey
  BY DEF ScanInv
<1> QED
  BY <1>1, ScanInvariant, PTL

LEMMA CooldownStep ==
  ASSUME TypeOK, ScanInv, [Next]_vars,
         NEW k \in Keys, NEW i \in Slots,
         anomalies[k][i].active, ~anomalies'[k][i].active
  PROVE  anomalies[k][i].age >= Cooldown
<1>1. ScanTypeOK
  BY DEF TypeOK, EngineTypeOK
<1>2. ASSUME NEW p \in Runners, ScanCommit(p) PROVE anomalies[k][i].age >= Cooldown
  <2>1. PICK new :
          anomalies' = [l \in Keys |-> [j \in Slots |-> Written(p, l, j, new)]]
    BY <1>2 DEF ScanCommit
  <2>2. ~Written(p, k, i, new).active
    BY <2>1
  <2>3. scan[p].plan[k] = "resolve" /\ scan[p].row[k] = i
    BY <2>2 DEF Written
  <2> QED
    BY <1>2, <2>3 DEF ScanCommit, ScanInv, SnapshotCurrent
<1>3. ~World
  BY <1>1, TickKeeps DEF World, TelemetryShifts
<1>4. ASSUME anomalies' = anomalies PROVE FALSE
  BY <1>4
<1> QED
  BY <1>2, <1>3, <1>4
     DEF Next, RunStep, Request, Acquire, Detect, DetectLoad, DetectCommit, TriageMatch,
         TriageLoad, TriageCommit, Analyse, ExplainDone, Fail, Restart, ScanDetect,
         ScanLoad, EngineMatch, EngineLoad, EngineCommit, engineVars, scanVars, vars

\* An anomaly is resolved only when the committed row itself has been quiet for
\* the whole cool-down, not merely the row as some scan once read it.
THEOREM CooldownHolds == Spec => CooldownRespected
<1>1. TypeOK /\ ScanInv /\ [Next]_vars =>
        [\A k \in Keys : \A i \in Slots :
           anomalies[k][i].active /\ ~anomalies'[k][i].active
             => anomalies[k][i].age >= Cooldown]_scanVars
  BY CooldownStep
<1> QED
  BY <1>1, TypeCorrect, ScanInvariant, PTL DEF Spec, CooldownRespected

--------------------------------------------------------------------------------
(* The incidents, and the match under which an engine call writes.             *)

\* While an engine call is under way its match stays what the rules say of the
\* table, and the incident it loaded is the open one.
MatchCurrent ==
  \A p \in Runners : engine[p].at # "idle" => \A s \in Services :
    /\ engine[p].match[s] = Triage(s)
    /\ engine[p].at = "loaded" =>
         engine[p].row[s] \in IF OpenIncidents(s) = {} THEN {NoSlot} ELSE OpenIncidents(s)

EngineInv == OneOpenIncidentPerService /\ MatchCurrent /\ TriageCurrent

LEMMA EngineInvInit == Init => EngineInv
BY RunnersAssumption
   DEF Init, EngineInit, IdleEngine, NoIncident, EngineInv, OneOpenIncidentPerService,
       OpenIncidents, MatchCurrent, TriageCurrent

\* Triage reads which rows are active and their z-scores.
LEMMA ActiveRowsStable ==
  ASSUME \A k \in Keys, i \in Slots : /\ anomalies'[k][i].active = anomalies[k][i].active
                                      /\ anomalies'[k][i].z = anomalies[k][i].z
  PROVE  /\ \A k \in Keys : Active(k)' = Active(k)
         /\ \A s \in Services : ActiveRows(s)' = ActiveRows(s) /\ Triage(s)' = Triage(s)
<1>1. \A k \in Keys : Active(k)' = Active(k)
  BY DEF Active
<1>2. ASSUME NEW s \in Services PROVE ActiveRows(s)' = ActiveRows(s)
  <2> DEFINE Was(k) == {[metric |-> k[2], slot |-> i, z |-> anomalies[k][i].z] : i \in Active(k)}
             Is(k)  == {[metric |-> k[2], slot |-> i, z |-> anomalies'[k][i].z] : i \in Active(k)'}
  <2>1. ASSUME NEW k \in Keys PROVE Is(k) = Was(k)
    <3>1. \A i \in Active(k) : i \in Slots
      BY DEF Active
    <3> QED
      BY <1>1, <3>1
  <2>2. {Is(k) : k \in {l \in Keys : l[1] = s}} = {Was(k) : k \in {l \in Keys : l[1] = s}}
    <3> HIDE DEF Is, Was
    <3> QED BY <2>1
  <2> QED
    BY <2>2 DEF ActiveRows
<1>3. ASSUME NEW s \in Services PROVE Triage(s)' = Triage(s)
  BY <1>2 DEF Triage
<1> QED
  BY <1>1, <1>2, <1>3

LEMMA SomeRowIffActive ==
  ASSUME NEW s \in Services
  PROVE  ActiveRows(s) # {} <=> \E k \in Keys : k[1] = s /\ Active(k) # {}
<1> DEFINE Rows(k) == {[metric |-> k[2], slot |-> i, z |-> anomalies[k][i].z] : i \in Active(k)}
<1>1. \A k \in Keys : Rows(k) # {} <=> Active(k) # {}
  OBVIOUS
<1>2. ActiveRows(s) = UNION {Rows(k) : k \in {l \in Keys : l[1] = s}}
  BY DEF ActiveRows
<1> HIDE DEF Rows
<1>3. ActiveRows(s) # {} <=> \E k \in Keys : k[1] = s /\ Rows(k) # {}
  BY <1>2
<1> QED
  BY <1>1, <1>3

\* A step that changes no incident, no active row and no engine call, and takes
\* no run past triage.
LEMMA EngineInvFrame ==
  ASSUME EngineInv, incidents' = incidents,
         \A s \in Services : ActiveRows(s)' = ActiveRows(s) /\ Triage(s)' = Triage(s),
         \A p \in Runners : engine'[p] = engine[p] \/ engine'[p].at = "idle",
         \A p \in Runners : stage'[p] \in {"rca", "ai"} => stage[p] \in {"rca", "ai"}
  PROVE  EngineInv'
<1>1. \A s \in Services : OpenIncidents(s)' = OpenIncidents(s)
  BY DEF OpenIncidents
<1>2. OneOpenIncidentPerService'
  BY <1>1 DEF EngineInv, OneOpenIncidentPerService
<1>3. MatchCurrent'
  BY <1>1 DEF EngineInv, MatchCurrent
<1>4. TriageCurrent'
  BY <1>1 DEF EngineInv, TriageCurrent
<1> QED
  BY <1>2, <1>3, <1>4 DEF EngineInv

LEMMA EngineInvMatch ==
  ASSUME TypeOK, EngineInv, NEW p \in Runners, EngineMatch(p),
         stage' = stage
  PROVE  EngineInv'
<1>1. UNCHANGED <<anomalies, incidents>>
  BY DEF EngineMatch, scanVars
<1>2. /\ \A s \in Services : Triage(s)' = Triage(s) /\ ActiveRows(s)' = ActiveRows(s)
      /\ \A s \in Services : OpenIncidents(s)' = OpenIncidents(s)
  BY <1>1, ActiveRowsStable DEF OpenIncidents
<1>3. /\ \A q \in Runners : q # p => engine'[q] = engine[q]
      /\ engine'[p] = [engine[p] EXCEPT !.at = "matched",
                                        !.match = [s \in Services |-> Triage(s)]]
      /\ engine[p] \in EngineState
  BY RunnersAssumption DEF EngineMatch, TypeOK, EngineTypeOK
<1>4. engine'[p].at = "matched" /\ \A s \in Services : engine'[p].match[s] = Triage(s)
  BY <1>3 DEF EngineState
<1>5. ASSUME NEW q \in Runners, engine'[q].at # "idle", NEW s \in Services
      PROVE  /\ engine'[q].match[s] = Triage(s)'
             /\ engine'[q].at = "loaded" =>
                  engine'[q].row[s] \in (IF OpenIncidents(s) = {} THEN {NoSlot}
                                                                 ELSE OpenIncidents(s))'
  <2>1. CASE q = p
    BY <1>2, <1>4, <2>1
  <2>2. CASE q # p
    <3>1. engine'[q] = engine[q]
      BY <1>3, <2>2
    <3> QED
      BY <1>2, <1>5, <3>1 DEF EngineInv, MatchCurrent
  <2> QED
    BY <2>1, <2>2
<1>6. MatchCurrent'
  BY <1>5 DEF MatchCurrent
<1>7. OneOpenIncidentPerService' /\ TriageCurrent'
  BY <1>1, <1>2 DEF EngineInv, OneOpenIncidentPerService, TriageCurrent
<1> QED
  BY <1>6, <1>7 DEF EngineInv

LEMMA EngineInvLoad ==
  ASSUME TypeOK, EngineInv, NEW p \in Runners, EngineLoad(p),
         stage' = stage
  PROVE  EngineInv'
<1>1. UNCHANGED <<anomalies, incidents>>
  BY DEF EngineLoad, scanVars
<1>2. /\ \A s \in Services : Triage(s)' = Triage(s) /\ ActiveRows(s)' = ActiveRows(s)
      /\ \A s \in Services : OpenIncidents(s)' = OpenIncidents(s)
  BY <1>1, ActiveRowsStable DEF OpenIncidents
<1>3. PICK row :
        /\ \A s \in Services : row[s] \in IF OpenIncidents(s) = {} THEN {NoSlot}
                                                               ELSE OpenIncidents(s)
        /\ engine' = [engine EXCEPT ![p].at = "loaded", ![p].row = row]
  BY DEF EngineLoad
<1>4. engine \in [Runners -> EngineState] /\ engine[p] \in EngineState
  BY RunnersAssumption DEF TypeOK, EngineTypeOK
<1>5. /\ \A q \in Runners : q # p => engine'[q] = engine[q]
      /\ engine'[p] = [engine[p] EXCEPT !.at = "loaded", !.row = row]
  BY <1>3, <1>4
<1>6. engine'[p].match = engine[p].match /\ engine'[p].row = row
  BY <1>4, <1>5 DEF EngineState
<1>7. engine[p].at # "idle"
  BY DEF EngineLoad
<1>8. ASSUME NEW q \in Runners, engine'[q].at # "idle", NEW s \in Services
      PROVE  /\ engine'[q].match[s] = Triage(s)'
             /\ engine'[q].at = "loaded" =>
                  engine'[q].row[s] \in (IF OpenIncidents(s) = {} THEN {NoSlot}
                                                                 ELSE OpenIncidents(s))'
  <2>1. CASE q = p
    <3>1. engine[p].match[s] = Triage(s)
      BY <1>7 DEF EngineInv, MatchCurrent
    <3> QED
      BY <1>2, <1>3, <1>6, <2>1, <3>1
  <2>2. CASE q # p
    <3>1. engine'[q] = engine[q]
      BY <1>5, <2>2
    <3> QED
      BY <1>2, <1>8, <3>1 DEF EngineInv, MatchCurrent
  <2> QED
    BY <2>1, <2>2
<1>9. MatchCurrent'
  BY <1>8 DEF MatchCurrent
<1>10. OneOpenIncidentPerService' /\ TriageCurrent'
  BY <1>1, <1>2 DEF EngineInv, OneOpenIncidentPerService, TriageCurrent
<1> QED
  BY <1>9, <1>10 DEF EngineInv

\* What a commit of an engine call leaves: one open incident, with the rule of
\* its match, for a service that has one, and none for the others.
LEMMA CommitOutcome ==
  ASSUME TypeOK, EngineInv, NEW p \in Runners, EngineCommit(p), NEW s \in Services
  PROVE  /\ \A i, j \in OpenIncidents(s)' : i = j
         /\ OpenIncidents(s)' # {} <=> ActiveRows(s) # {}
         /\ \A i \in OpenIncidents(s)' : incidents'[s][i].rule = Triage(s)
<1>1. PICK new :
        /\ IF engine[p].match[s] # "none" /\ engine[p].row[s] = NoSlot
           THEN NewIncident(s, new[s]) ELSE new[s] = NoSlot
        /\ \A i \in IncSlots : incidents'[s][i] = Triaged(p, s, i, new)
  BY DEF EngineCommit
<1> DEFINE row == engine[p].row[s]
           match == engine[p].match[s]
<1>2. /\ match = Triage(s)
      /\ row \in IF OpenIncidents(s) = {} THEN {NoSlot} ELSE OpenIncidents(s)
  BY DEF EngineCommit, EngineInv, MatchCurrent
<1>3. match = "none" <=> ActiveRows(s) = {}
  BY <1>2, EvaluateRulesType DEF Triage
<1>4. \A i, j \in OpenIncidents(s) : i = j
  BY DEF EngineInv, OneOpenIncidentPerService
<1>5. NoSlot \notin IncSlots
  BY IncSlotsAssumption
<1>6. CASE match = "none"
  <2>1. ASSUME NEW i \in IncSlots PROVE ~incidents'[s][i].open
    <3>1. CASE i = row
      BY <1>1, <1>6, <3>1 DEF Triaged, NoIncident
    <3>2. CASE i # row
      <4>1. ~incidents[s][i].open
        BY <1>2, <1>4, <1>5, <3>2 DEF OpenIncidents
      <4> QED
        BY <1>1, <1>6, <3>2, <4>1 DEF Triaged
    <3> QED
      BY <3>1, <3>2
  <2> QED
    BY <1>3, <1>6, <2>1 DEF OpenIncidents
<1>7. CASE match # "none" /\ row = NoSlot
  <2>1. OpenIncidents(s) = {} /\ new[s] \in IncSlots
    BY <1>1, <1>2, <1>5, <1>7 DEF NewIncident, OpenIncidents
  <2>2. ASSUME NEW i \in IncSlots
        PROVE  /\ incidents'[s][i].open <=> i = new[s]
               /\ i = new[s] => incidents'[s][i].rule = match
    <3>1. ~incidents[s][i].open
      BY <2>1 DEF OpenIncidents
    <3>2. CASE i = new[s]
      <4>1. incidents'[s][i] =
              [open |-> TRUE, rule |-> match,
               root |-> IF incidents[s][i].open THEN incidents[s][i].root ELSE NoService]
        BY <1>1, <1>7, <3>2 DEF Triaged
      <4> QED
        BY <3>2, <4>1
    <3>3. CASE i # new[s]
      <4>1. i # row
        BY <1>5, <1>7
      <4>2. incidents'[s][i] = incidents[s][i]
        BY <1>1, <1>7, <3>3, <4>1 DEF Triaged
      <4> QED
        BY <3>1, <3>3, <4>2
    <3> QED
      BY <3>2, <3>3
  <2> QED
    BY <1>2, <1>3, <1>7, <2>1, <2>2 DEF OpenIncidents
<1>8. CASE match # "none" /\ row # NoSlot
  <2>1. row \in OpenIncidents(s) /\ new[s] = NoSlot
    BY <1>1, <1>2, <1>8
  <2>2. ASSUME NEW i \in IncSlots
        PROVE  /\ incidents'[s][i].open <=> i = row
               /\ i = row => incidents'[s][i].rule = match
    <3>1. CASE i = row
      <4>1. incidents[s][i].open
        BY <2>1, <3>1 DEF OpenIncidents
      <4>2. incidents'[s][i] =
              [open |-> TRUE, rule |-> match,
               root |-> IF incidents[s][i].open THEN incidents[s][i].root ELSE NoService]
        BY <1>1, <1>8, <3>1, <4>1 DEF Triaged
      <4> QED
        BY <3>1, <4>2
    <3>2. CASE i # row
      <4>1. ~incidents[s][i].open
        BY <1>4, <2>1, <3>2 DEF OpenIncidents
      <4>2. incidents'[s][i] = incidents[s][i]
        BY <1>1, <1>5, <1>8, <2>1, <3>2 DEF Triaged
      <4> QED
        BY <3>2, <4>1, <4>2
    <3> QED
      BY <3>1, <3>2
  <2> QED
    BY <1>2, <1>3, <1>8, <2>1, <2>2 DEF OpenIncidents
<1> QED
  BY <1>6, <1>7, <1>8

LEMMA EngineInvCommit ==
  ASSUME TypeOK, LockInv, EngineInv, NEW p \in Runners, TriageCommit(p)
  PROVE  EngineInv'
<1>1. EngineCommit(p) /\ stage[p] = "incidents"
  BY DEF TriageCommit
<1>2. \A q \in Runners : engine'[q].at = "idle"
  BY <1>1, RunnersAssumption
     DEF EngineCommit, IdleEngine, LockInv, Busy, TypeOK, EngineTypeOK
<1>3. \A s \in Services : ActiveRows(s)' = ActiveRows(s) /\ Triage(s)' = Triage(s)
  BY <1>1, ActiveRowsStable DEF EngineCommit, scanVars
<1>4. OneOpenIncidentPerService'
  BY <1>1, CommitOutcome DEF OneOpenIncidentPerService
<1>5. MatchCurrent'
  BY <1>2 DEF MatchCurrent
<1>6. TriageCurrent'
  BY <1>1, <1>3, CommitOutcome DEF TriageCurrent
<1> QED
  BY <1>4, <1>5, <1>6 DEF EngineInv

\* A commit of a scan: no engine call is under way and no run is past triage.
LEMMA EngineInvDetected ==
  ASSUME TypeOK, LockInv, EngineInv, NEW p \in Runners, DetectCommit(p)
  PROVE  EngineInv'
<1>1. UNCHANGED <<incidents, engine>> /\ stage[p] = "detect"
  BY DEF DetectCommit
<1>2. \A q \in Runners : engine'[q].at = "idle"
  BY <1>1 DEF LockInv, Busy
<1>3. \A q \in Runners : stage'[q] \notin {"rca", "ai"}
  BY <1>1 DEF DetectCommit, LockInv, Busy, TypeOK
<1>4. OneOpenIncidentPerService'
  BY <1>1 DEF EngineInv, OneOpenIncidentPerService, OpenIncidents
<1>5. MatchCurrent' /\ TriageCurrent'
  BY <1>2, <1>3 DEF MatchCurrent, TriageCurrent
<1> QED
  BY <1>4, <1>5 DEF EngineInv

\* Root cause analysis opens, closes and re-triages nothing.
LEMMA AnalyseKeeps ==
  ASSUME TypeOK, NEW p \in Runners, Analyse(p), NEW s \in Services, NEW i \in IncSlots
  PROVE  /\ incidents'[s][i].open = incidents[s][i].open
         /\ incidents'[s][i].rule = incidents[s][i].rule
<1>1. PICK root \in [Services -> Services] :
        incidents' = [t \in Services |-> [j \in IncSlots |->
                        IF incidents[t][j].open
                        THEN [incidents[t][j] EXCEPT !.root = root[t]]
                        ELSE incidents[t][j]]]
  BY DEF Analyse
<1>2. incidents'[s][i] = IF incidents[s][i].open
                         THEN [incidents[s][i] EXCEPT !.root = root[s]]
                         ELSE incidents[s][i]
  BY <1>1
<1>3. incidents[s][i] \in IncidentRow
  BY DEF TypeOK, EngineTypeOK
<1> QED
  BY <1>2, <1>3 DEF IncidentRow

LEMMA EngineInvAnalyse ==
  ASSUME TypeOK, LockInv, EngineInv, NEW p \in Runners, Analyse(p)
  PROVE  EngineInv'
<1>1. /\ stage[p] = "rca" /\ UNCHANGED scanVars /\ engine' = engine
      /\ \A q \in Runners : stage'[q] \in {"rca", "ai"} => stage[q] \in {"rca", "ai"}
  BY DEF Analyse, Release, TypeOK
<1>2. \A s \in Services : ActiveRows(s)' = ActiveRows(s) /\ Triage(s)' = Triage(s)
  BY <1>1, ActiveRowsStable DEF scanVars
<1>3. \A s \in Services, i \in IncSlots :
        /\ incidents'[s][i].open = incidents[s][i].open
        /\ incidents'[s][i].rule = incidents[s][i].rule
  BY AnalyseKeeps
<1>4. \A s \in Services : OpenIncidents(s)' = OpenIncidents(s)
  BY <1>3 DEF OpenIncidents
<1>5. OneOpenIncidentPerService'
  BY <1>4 DEF EngineInv, OneOpenIncidentPerService
<1>6. MatchCurrent'
  BY <1>1, <1>2, <1>4 DEF EngineInv, MatchCurrent
<1>7. ASSUME NEW q \in Runners, stage'[q] \in {"rca", "ai"}, NEW s \in Services
      PROVE  /\ OpenIncidents(s)' # {} <=> ActiveRows(s)' # {}
             /\ \A i \in OpenIncidents(s)' : incidents'[s][i].rule = Triage(s)'
  <2>1. stage[q] \in {"rca", "ai"}
    BY <1>1, <1>7
  <2>2. /\ OpenIncidents(s) # {} <=> ActiveRows(s) # {}
        /\ \A i \in OpenIncidents(s) : incidents[s][i].rule = Triage(s)
    BY <2>1 DEF EngineInv, TriageCurrent
  <2>3. \A i \in OpenIncidents(s) : i \in IncSlots
    BY DEF OpenIncidents
  <2> QED
    BY <1>2, <1>3, <1>4, <2>2, <2>3
<1>8. TriageCurrent'
  BY <1>7 DEF TriageCurrent
<1> QED
  BY <1>5, <1>6, <1>8 DEF EngineInv

LEMMA EngineInvStep == TypeOK /\ LockInv /\ EngineInv /\ [Next]_vars => EngineInv'
<1> SUFFICES ASSUME TypeOK, LockInv, EngineInv, [Next]_vars PROVE EngineInv'
  OBVIOUS
<1>1. CASE World
  <2>1. \A k \in Keys, i \in Slots : /\ anomalies'[k][i].active = anomalies[k][i].active
                                     /\ anomalies'[k][i].z = anomalies[k][i].z
    BY <1>1, TickKeeps DEF World, TelemetryShifts, TypeOK, EngineTypeOK
  <2>2. \A s \in Services : ActiveRows(s)' = ActiveRows(s) /\ Triage(s)' = Triage(s)
    BY <2>1, ActiveRowsStable
  <2> QED
    BY <1>1, <2>2, EngineInvFrame DEF World, schedVars
<1>2. ASSUME anomalies' = anomalies
      PROVE  \A s \in Services : ActiveRows(s)' = ActiveRows(s) /\ Triage(s)' = Triage(s)
  BY <1>2, ActiveRowsStable
<1>3. ASSUME NEW p \in Runners,
             Request(p) \/ Acquire(p) \/ Detect(p) \/ DetectLoad(p) \/ ExplainDone(p)
      PROVE  EngineInv'
  <2>1. UNCHANGED <<anomalies, incidents, engine>>
    BY <1>3 DEF Request, Acquire, Detect, DetectLoad, ExplainDone, ScanDetect, ScanLoad,
       engineVars
  <2>2. \A q \in Runners : stage'[q] \in {"rca", "ai"} => stage[q] \in {"rca", "ai"}
    BY <1>3 DEF Request, Acquire, Detect, DetectLoad, ExplainDone, Release, schedVars, TypeOK
  <2> QED
    BY <1>2, <2>1, <2>2, EngineInvFrame
<1>4. ASSUME NEW p \in Runners, DetectCommit(p) PROVE EngineInv'
  BY <1>4, EngineInvDetected
<1>5. ASSUME NEW p \in Runners, TriageMatch(p) PROVE EngineInv'
  BY <1>5, EngineInvMatch DEF TriageMatch, schedVars
<1>6. ASSUME NEW p \in Runners, TriageLoad(p) PROVE EngineInv'
  BY <1>6, EngineInvLoad DEF TriageLoad, schedVars
<1>7. ASSUME NEW p \in Runners, TriageCommit(p) PROVE EngineInv'
  BY <1>7, EngineInvCommit
<1>8. ASSUME NEW p \in Runners, Analyse(p) PROVE EngineInv'
  BY <1>8, EngineInvAnalyse
<1>9. ASSUME NEW p \in Runners, Fail(p) PROVE EngineInv'
  <2>1. \A q \in Runners : engine'[q] = engine[q] \/ engine'[q].at = "idle"
    BY <1>9, RunnersAssumption DEF Fail, IdleEngine, TypeOK, EngineTypeOK
  <2>2. \A q \in Runners : stage'[q] \in {"rca", "ai"} => stage[q] \in {"rca", "ai"}
    BY <1>9 DEF Fail, Release, TypeOK
  <2> QED
    BY <1>2, <1>9, <2>1, <2>2, EngineInvFrame DEF Fail
<1>10. CASE Restart
  BY <1>2, <1>10, EngineInvFrame DEF Restart, IdleEngine
<1>11. CASE UNCHANGED vars
  BY <1>2, <1>11, EngineInvFrame DEF vars
<1> QED
  BY <1>1, <1>3, <1>4, <1>5, <1>6, <1>7, <1>8, <1>9, <1>10, <1>11 DEF Next, RunStep

THEOREM EngineInvariant == Spec => []EngineInv
<1>1. TypeOK /\ LockInv /\ EngineInv /\ [Next]_vars => EngineInv'
  BY EngineInvStep
<1> QED
  BY EngineInvInit, <1>1, TypeCorrect, LockInvariant, PTL DEF Spec

\* A service has one open incident at a time.
THEOREM OneOpenIncidentHolds == Spec => []OneOpenIncidentPerService
<1>1. EngineInv => OneOpenIncidentPerService
  BY DEF EngineInv
<1> QED
  BY <1>1, EngineInvariant, PTL

\* From triage to the end of a run, the open incidents are those the rules ask
\* for on the anomalies of the table, whatever fails or restarts around it.
THEOREM TriageCurrentHolds == Spec => []TriageCurrent
<1>1. EngineInv => TriageCurrent
  BY DEF EngineInv
<1> QED
  BY <1>1, EngineInvariant, PTL

LEMMA ResolvedStep ==
  ASSUME TypeOK, LockInv, EngineInv, [Next]_vars,
         NEW s \in Services, NEW i \in IncSlots,
         incidents[s][i].open, ~incidents'[s][i].open
  PROVE  ActiveRows(s) = {}
<1>1. ASSUME NEW p \in Runners, EngineCommit(p) PROVE ActiveRows(s) = {}
  <2>1. PICK new :
          incidents' = [t \in Services |-> [j \in IncSlots |-> Triaged(p, t, j, new)]]
    BY <1>1 DEF EngineCommit
  <2>2. ~Triaged(p, s, i, new).open
    BY <2>1
  <2>3. engine[p].match[s] = "none"
    BY <2>2 DEF Triaged
  <2>4. Triage(s) = "none"
    BY <1>1, <2>3 DEF EngineCommit, EngineInv, MatchCurrent
  <2> QED
    BY <2>4, EvaluateRulesType DEF Triage
<1>2. ASSUME NEW p \in Runners, Analyse(p) PROVE FALSE
  BY <1>2, AnalyseKeeps
<1>3. ASSUME incidents' = incidents PROVE FALSE
  BY <1>3
<1> QED
  BY <1>1, <1>2, <1>3
     DEF Next, RunStep, World, Request, Acquire, Detect, DetectLoad, DetectCommit,
         TriageMatch, TriageLoad, TriageCommit, ExplainDone, Fail, Restart,
         EngineMatch, EngineLoad, engineVars, vars

\* An incident is resolved only when no anomaly of its service is active at the
\* commit: no anomaly can appear between the engine's reading and its commit.
THEOREM ResolvedWhenClearHolds == Spec => ResolvedWhenClear
<1>1. TypeOK /\ LockInv /\ EngineInv /\ [Next]_vars =>
        [\A s \in Services : \A i \in IncSlots :
           incidents[s][i].open /\ ~incidents'[s][i].open => ActiveRows(s) = {}]_vars
  BY ResolvedStep
<1> QED
  BY <1>1, TypeCorrect, LockInvariant, EngineInvariant, PTL DEF Spec, ResolvedWhenClear

--------------------------------------------------------------------------------
(* The root causes.                                                            *)

\* Whatever the graph, a root cause is one of the anomalous services.
LEMMA RootCausesAnomalous ==
  ASSUME NEW affected, NEW anomalous PROVE RootCauses(affected, anomalous) \subseteq anomalous
BY DEF RootCauses, TopCandidates

LEMMA AnomalousIffRows ==
  ASSUME TypeOK, NEW s \in Services PROVE s \in Anomalous <=> ActiveRows(s) # {}
BY SomeRowIffActive DEF Anomalous

LEMMA RootCauseInit == Init => RootCauseKnown
BY DEF Init, RootCauseKnown

\* A step that changes no incident and no active row, and takes no run to the
\* AI stage.
LEMMA RootCauseFrame ==
  ASSUME RootCauseKnown, incidents' = incidents,
         \A k \in Keys : Active(k)' = Active(k),
         \A p \in Runners : stage'[p] = "ai" => stage[p] = "ai"
  PROVE  RootCauseKnown'
<1>1. Anomalous' = Anomalous
  BY DEF Anomalous
<1>2. \A s \in Services : OpenIncidents(s)' = OpenIncidents(s)
  BY DEF OpenIncidents
<1> QED
  BY <1>1, <1>2 DEF RootCauseKnown

\* A run that writes is the only one past its queue.
LEMMA RootCauseOthers ==
  ASSUME LockInv, NEW p \in Runners, Busy(p), stage'[p] # "ai",
         \A q \in Runners : q # p => stage'[q] = stage[q]
  PROVE  RootCauseKnown'
BY DEF LockInv, Busy, RootCauseKnown

LEMMA RootCauseAnalyse ==
  ASSUME TypeOK, EngineInv, NEW p \in Runners, Analyse(p) PROVE RootCauseKnown'
<1>1. PICK root \in [Services -> Services] :
        /\ \A s \in Services : root[s] \in RootCauses({s}, Anomalous \cup {s})
        /\ incidents' = [s \in Services |-> [i \in IncSlots |->
                           IF incidents[s][i].open
                           THEN [incidents[s][i] EXCEPT !.root = root[s]]
                           ELSE incidents[s][i]]]
  BY DEF Analyse
<1>2. UNCHANGED scanVars /\ stage[p] = "rca"
  BY DEF Analyse
<1>3. Anomalous' = Anomalous
  <2>1. \A k \in Keys : Active(k)' = Active(k)
    BY <1>2 DEF Active, scanVars
  <2> QED
    BY <2>1 DEF Anomalous
<1>4. ASSUME NEW s \in Services, NEW i \in OpenIncidents(s)'
      PROVE  incidents'[s][i].root \in Anomalous
  <2>1. i \in IncSlots /\ incidents'[s][i].open
    BY <1>4 DEF OpenIncidents
  <2>2. incidents[s][i] \in IncidentRow
    BY <2>1 DEF TypeOK, EngineTypeOK
  <2>3. incidents[s][i].open
    BY <1>1, <2>1
  <2>4. incidents'[s][i].root = root[s]
    BY <1>1, <2>1, <2>2, <2>3 DEF IncidentRow
  <2>5. ActiveRows(s) # {}
    BY <1>2, <2>1, <2>3 DEF EngineInv, TriageCurrent, OpenIncidents
  <2>6. s \in Anomalous
    BY <2>5, AnomalousIffRows
  <2>7. Anomalous \cup {s} = Anomalous
    BY <2>6
  <2>8. root[s] \in RootCauses({s}, Anomalous)
    BY <1>1, <2>7
  <2> QED
    BY <2>4, <2>8, RootCausesAnomalous
<1> QED
  BY <1>3, <1>4 DEF RootCauseKnown

LEMMA RootCauseStep ==
  TypeOK /\ LockInv /\ EngineInv /\ RootCauseKnown /\ [Next]_vars => RootCauseKnown'
<1> SUFFICES ASSUME TypeOK, LockInv, EngineInv, RootCauseKnown, [Next]_vars
             PROVE  RootCauseKnown'
  OBVIOUS
<1>1. CASE World
  <2>1. \A k \in Keys, i \in Slots : anomalies'[k][i].active = anomalies[k][i].active
    BY <1>1, TickKeeps DEF World, TelemetryShifts, TypeOK, EngineTypeOK
  <2>2. \A k \in Keys : Active(k)' = Active(k)
    BY <2>1 DEF Active
  <2> QED
    BY <1>1, <2>2, RootCauseFrame DEF World, schedVars
<1>2. ASSUME UNCHANGED <<anomalies, incidents>>,
             \A p \in Runners : stage'[p] = "ai" => stage[p] = "ai"
      PROVE  RootCauseKnown'
  BY <1>2, RootCauseFrame DEF Active
<1>3. ASSUME NEW p \in Runners,
             \/ Request(p) \/ Acquire(p) \/ Detect(p) \/ DetectLoad(p)
             \/ TriageMatch(p) \/ TriageLoad(p) \/ ExplainDone(p) \/ Fail(p)
      PROVE  RootCauseKnown'
  <2>1. UNCHANGED <<anomalies, incidents>>
    BY <1>3 DEF Request, Acquire, Detect, DetectLoad, TriageMatch, TriageLoad, ExplainDone,
       Fail, ScanDetect, ScanLoad, EngineMatch, EngineLoad, engineVars, scanVars
  <2>2. \A q \in Runners : stage'[q] = "ai" => stage[q] = "ai"
    BY <1>3 DEF Request, Acquire, Detect, DetectLoad, TriageMatch, TriageLoad, ExplainDone,
       Fail, Release, schedVars, TypeOK
  <2> QED
    BY <1>2, <2>1, <2>2
<1>4. ASSUME NEW p \in Runners, DetectCommit(p) \/ TriageCommit(p) PROVE RootCauseKnown'
  BY <1>4, RootCauseOthers DEF DetectCommit, TriageCommit, Busy, TypeOK
<1>5. ASSUME NEW p \in Runners, Analyse(p) PROVE RootCauseKnown'
  BY <1>5, RootCauseAnalyse
<1>6. CASE Restart
  BY <1>2, <1>6 DEF Restart
<1>7. CASE UNCHANGED vars
  BY <1>2, <1>7 DEF vars
<1> QED
  BY <1>1, <1>3, <1>4, <1>5, <1>6, <1>7 DEF Next, RunStep

\* The AI stage finds a root cause for every open incident, and the service it
\* names is anomalous itself, whatever the dependency graph.
THEOREM RootCauseKnownHolds == Spec => []RootCauseKnown
<1>1. TypeOK /\ LockInv /\ EngineInv /\ RootCauseKnown /\ [Next]_vars => RootCauseKnown'
  BY RootCauseStep
<1> QED
  BY RootCauseInit, <1>1, TypeCorrect, LockInvariant, EngineInvariant, PTL DEF Spec

--------------------------------------------------------------------------------
(* The pipeline implements Alerts: its initial state maps to an initial state  *)
(* of Alerts, and each of its steps to a step of Alerts or to none.  Under the *)
(* lock a key has one active row, a service one open incident and the system   *)
(* one scan, so the sets of the mapping hold at most one element; EngineInv    *)
(* says that triage and analysis see current tables.                           *)

LEMMA AbstractInit == Init => A!Init
<1> SUFFICES ASSUME Init PROVE A!Init
  OBVIOUS
<1>1. firing \in [Keys -> Nat]
  BY DEF Init, EngineInit, ScanInit
<1>2. Observed = {}
  BY DEF Init, EngineInit, ScanInit, IdleScan, Observed
<1>3. \A k \in Keys : Reported(k) = {}
  BY DEF Init, EngineInit, ScanInit, NoRow, Active, Reported
<1>4. \A s \in Services : Alerted(s) = {}
  BY DEF Init, EngineInit, NoIncident, OpenIncidents, Alerted
<1> QED
  BY <1>1, <1>2, <1>3, <1>4 DEF A!Init

\* The reports of a service are its active rows.
LEMMA ReportsAreRows == \A s \in Services : A!Reports(s) = ActiveRows(s)
<1> SUFFICES ASSUME NEW s \in Services PROVE A!Reports(s) = ActiveRows(s)
  OBVIOUS
<1> QED
  BY DEF A!Reports, ActiveRows, Reported

--------------------------------------------------------------------------------
(* What the steps leave alone.                                                 *)

LEMMA ReportsStable ==
  ASSUME \A k \in Keys, i \in Slots : /\ anomalies'[k][i].active = anomalies[k][i].active
                                      /\ anomalies'[k][i].z = anomalies[k][i].z
  PROVE  [k \in Keys |-> Reported(k)]' = [k \in Keys |-> Reported(k)]
<1> SUFFICES ASSUME NEW k \in Keys PROVE Reported(k)' = Reported(k)
  OBVIOUS
<1>1. Active(k)' = Active(k)
  BY DEF Active
<1>2. \A i \in Active(k) : i \in Slots
  BY DEF Active
<1> QED
  BY <1>1, <1>2 DEF Reported

LEMMA AlertsStable ==
  ASSUME incidents' = incidents
  PROVE  [s \in Services |-> Alerted(s)]' = [s \in Services |-> Alerted(s)]
BY DEF Alerted, OpenIncidents

LEMMA SampleStable ==
  ASSUME \A p \in Runners : scan'[p].at # "idle" <=> scan[p].at # "idle",
         \A p \in Runners : scan[p].at # "idle" => scan'[p].det = scan[p].det
  PROVE  Observed' = Observed
BY DEF Observed

\* A run that holds the lock is alone: another one has no scan under way.
LEMMA LoneScan ==
  ASSUME LockInv, NEW p \in Runners, Busy(p)
  PROVE  \A q \in Runners : scan[q].at # "idle" => q = p
BY DEF LockInv, Busy

LEMMA NothingObserved ==
  ASSUME \A q \in Runners : scan[q].at = "idle" PROVE Observed = {}
BY DEF Observed

LEMMA WorldRefines == ASSUME TypeOK, World PROVE [A!Next]_(A!vars)
<1>1. \A k \in Keys, i \in Slots : /\ anomalies'[k][i].active = anomalies[k][i].active
                                   /\ anomalies'[k][i].z = anomalies[k][i].z
  BY TickKeeps DEF World, TelemetryShifts, TypeOK, EngineTypeOK
<1>2. [k \in Keys |-> Reported(k)]' = [k \in Keys |-> Reported(k)]
  BY <1>1, ReportsStable
<1>3. [s \in Services |-> Alerted(s)]' = [s \in Services |-> Alerted(s)]
  BY AlertsStable DEF World
<1>4. Observed' = Observed
  <2>1. ASSUME NEW p \in Runners
        PROVE  /\ scan'[p].at # "idle" <=> scan[p].at # "idle"
               /\ scan[p].at # "idle" => scan'[p].det = scan[p].det
    <3>1. scan[p] \in ScanState
      BY DEF TypeOK, EngineTypeOK, ScanTypeOK
    <3>2. CASE Tick
      BY <3>1, <3>2 DEF Tick, ScanState
    <3> QED
      BY <3>2 DEF World, TelemetryShifts
  <2> QED
    BY <2>1, SampleStable
<1>5. firing' \in [Keys -> Nat] \/ firing' = firing
  <2>1. TelemetryShifts => firing' \in [Keys -> Zs]
    BY TelemetryShiftsType DEF TypeOK, EngineTypeOK, ScanTypeOK
  <2> QED
    BY <2>1 DEF World, Tick, Zs
<1> QED
  BY <1>2, <1>3, <1>4, <1>5 DEF A!Next, A!Shift, A!vars

\* The steps that read, queue or end, and write neither table.
LEMMA QuietRefines ==
  ASSUME TypeOK, NEW p \in Runners,
         \/ Request(p) \/ Acquire(p) \/ DetectLoad(p)
         \/ TriageMatch(p) \/ TriageLoad(p) \/ ExplainDone(p)
  PROVE  UNCHANGED A!vars
<1>1. UNCHANGED <<firing, anomalies, incidents>>
  BY DEF Request, Acquire, DetectLoad, TriageMatch, TriageLoad, ExplainDone, ScanLoad,
     EngineMatch, EngineLoad, engineVars, scanVars
<1>2. ASSUME NEW q \in Runners
      PROVE  /\ scan'[q].at # "idle" <=> scan[q].at # "idle"
             /\ scan'[q].det = scan[q].det
  <2>1. CASE DetectLoad(p)
    <3>1. PICK row : scan' = [scan EXCEPT ![p].at = "loaded", ![p].row = row,
                                          ![p].plan = [k \in Keys |-> PlanFor(p, k, row[k])]]
      BY <2>1 DEF DetectLoad, ScanLoad
    <3>2. scan \in [Runners -> ScanState] /\ scan[p] \in ScanState /\ scan[p].at = "detected"
      BY <2>1 DEF DetectLoad, ScanLoad, TypeOK, EngineTypeOK, ScanTypeOK
    <3> DEFINE plan == [k \in Keys |-> PlanFor(p, k, row[k])]
    <3>3. /\ scan'[p] = [scan[p] EXCEPT !.at = "loaded", !.row = row, !.plan = plan]
          /\ q # p => scan'[q] = scan[q]
      BY <3>1, <3>2
    <3> HIDE DEF plan
    <3>4. scan'[p].at = "loaded" /\ scan'[p].det = scan[p].det
      BY <3>2, <3>3 DEF ScanState
    <3> QED
      BY <3>2, <3>3, <3>4
  <2>2. CASE ~DetectLoad(p)
    BY <2>2 DEF Request, Acquire, TriageMatch, TriageLoad, ExplainDone,
       EngineMatch, EngineLoad, engineVars, scanVars
  <2> QED
    BY <2>1, <2>2
<1>3. Observed' = Observed
  BY <1>2, SampleStable
<1>4. /\ [k \in Keys |-> Reported(k)]' = [k \in Keys |-> Reported(k)]
      /\ [s \in Services |-> Alerted(s)]' = [s \in Services |-> Alerted(s)]
  BY <1>1, ReportsStable, AlertsStable
<1> QED
  BY <1>1, <1>3, <1>4 DEF A!vars

LEMMA DetectRefines ==
  ASSUME TypeOK, LockInv, NEW p \in Runners, Detect(p) PROVE A!Observe
<1>1. /\ ScanDetect(p) /\ Busy(p)
      /\ UNCHANGED <<firing, anomalies, incidents>>
  BY DEF Detect, ScanDetect, Busy
<1>2. \A q \in Runners : scan[q].at = "idle"
  BY <1>1, LoneScan DEF ScanDetect
<1>3. /\ scan'[p].at = "detected" /\ scan'[p].det = firing
      /\ \A q \in Runners : q # p => scan'[q] = scan[q]
  BY <1>1 DEF ScanDetect, IdleScan, TypeOK, EngineTypeOK, ScanTypeOK
<1>4. Observed' = {firing}
  BY <1>2, <1>3 DEF Observed
<1>5. /\ [k \in Keys |-> Reported(k)]' = [k \in Keys |-> Reported(k)]
      /\ [s \in Services |-> Alerted(s)]' = [s \in Services |-> Alerted(s)]
  BY <1>1, ReportsStable, AlertsStable
<1> QED
  BY <1>1, <1>2, <1>4, <1>5, NothingObserved DEF A!Observe

\* A failure or a restart writes no table and leaves no scan under way.
LEMMA FailRefines ==
  ASSUME TypeOK, LockInv, Restart \/ \E p \in Runners : Fail(p) PROVE A!Discard
<1>1. UNCHANGED <<firing, anomalies, incidents>>
  BY DEF Restart, Fail
<1>2. \A q \in Runners : scan'[q].at = "idle"
  <2>1. CASE Restart
    BY <2>1 DEF Restart, IdleScan
  <2>2. ASSUME NEW p \in Runners, Fail(p) PROVE \A q \in Runners : scan'[q].at = "idle"
    BY <2>2, LoneScan DEF Fail, Busy, IdleScan, TypeOK, EngineTypeOK, ScanTypeOK
  <2> QED
    BY <2>1, <2>2
<1>3. Observed' = {}
  BY <1>2 DEF Observed
<1>4. /\ [k \in Keys |-> Reported(k)]' = [k \in Keys |-> Reported(k)]
      /\ [s \in Services |-> Alerted(s)]' = [s \in Services |-> Alerted(s)]
  BY <1>1, ReportsStable, AlertsStable
<1> QED
  BY <1>1, <1>3, <1>4 DEF A!Discard

--------------------------------------------------------------------------------
(* What a loaded scan holds of the table, until its own commit.                *)

PlanCurrent ==
  \A p \in Runners : scan[p].at = "loaded" => \A k \in Keys :
    /\ scan[p].row[k] \in IF Active(k) = {} THEN {NoSlot} ELSE Active(k)
    /\ scan[p].det[k] # 0 =>
         scan[p].plan[k] = IF scan[p].row[k] = NoSlot THEN "open" ELSE "update"
    /\ scan[p].det[k] = 0 => scan[p].plan[k] \in {"none", "resolve"}

LEMMA PlanInit == Init => PlanCurrent
BY DEF Init, EngineInit, ScanInit, IdleScan, PlanCurrent

\* A step that changes no active row and loads no scan.
LEMMA PlanFrame ==
  ASSUME PlanCurrent,
         \A k \in Keys : Active(k)' = Active(k),
         \A p \in Runners : \/ scan'[p].at # "loaded"
                            \/ /\ scan[p].at = "loaded"
                               /\ scan'[p].row = scan[p].row
                               /\ scan'[p].det = scan[p].det
                               /\ scan'[p].plan = scan[p].plan
  PROVE  PlanCurrent'
BY DEF PlanCurrent

LEMMA PlanLoad ==
  ASSUME TypeOK, PlanCurrent, NEW p \in Runners, ScanLoad(p) PROVE PlanCurrent'
<1>1. PICK row :
        /\ \A k \in Keys : row[k] \in IF Active(k) = {} THEN {NoSlot} ELSE Active(k)
        /\ scan' = [scan EXCEPT ![p].at = "loaded", ![p].row = row,
                                ![p].plan = [k \in Keys |-> PlanFor(p, k, row[k])]]
  BY DEF ScanLoad
<1> DEFINE plan == [k \in Keys |-> PlanFor(p, k, row[k])]
<1>2. scan \in [Runners -> ScanState] /\ scan[p] \in ScanState
  BY DEF TypeOK, EngineTypeOK, ScanTypeOK
<1>3. /\ scan'[p] = [scan[p] EXCEPT !.at = "loaded", !.row = row, !.plan = plan]
      /\ \A q \in Runners : q # p => scan'[q] = scan[q]
  BY <1>1, <1>2
<1>4. \A k \in Keys : plan[k] = PlanFor(p, k, row[k])
  OBVIOUS
<1> HIDE DEF plan
<1>5. scan'[p].row = row /\ scan'[p].plan = plan /\ scan'[p].det = scan[p].det
  BY <1>2, <1>3 DEF ScanState
<1>6. \A k \in Keys : Active(k)' = Active(k)
  BY DEF ScanLoad, Active
<1>7. ASSUME NEW k \in Keys
      PROVE  /\ scan[p].det[k] # 0 => plan[k] = IF row[k] = NoSlot THEN "open" ELSE "update"
             /\ scan[p].det[k] = 0 => plan[k] \in {"none", "resolve"}
  BY <1>4 DEF PlanFor
<1>8. ASSUME NEW q \in Runners, scan'[q].at = "loaded", NEW k \in Keys
      PROVE  /\ scan'[q].row[k] \in IF Active(k)' = {} THEN {NoSlot} ELSE Active(k)'
             /\ scan'[q].det[k] # 0 =>
                  scan'[q].plan[k] = IF scan'[q].row[k] = NoSlot THEN "open" ELSE "update"
             /\ scan'[q].det[k] = 0 => scan'[q].plan[k] \in {"none", "resolve"}
  <2>1. CASE q = p
    BY <1>1, <1>5, <1>6, <1>7, <2>1
  <2>2. CASE q # p
    BY <1>3, <1>6, <1>8, <2>2 DEF PlanCurrent
  <2> QED
    BY <2>1, <2>2
<1> QED
  BY <1>8 DEF PlanCurrent

LEMMA PlanStep == TypeOK /\ LockInv /\ PlanCurrent /\ [Next]_vars => PlanCurrent'
<1> SUFFICES ASSUME TypeOK, LockInv, PlanCurrent, [Next]_vars PROVE PlanCurrent'
  OBVIOUS
<1>1. CASE World
  <2>1. \A k \in Keys : Active(k)' = Active(k)
    BY <1>1, TickKeeps DEF World, TelemetryShifts, TypeOK, EngineTypeOK, Active
  <2>2. ASSUME NEW p \in Runners
        PROVE  /\ scan'[p].at = scan[p].at /\ scan'[p].row = scan[p].row
               /\ scan'[p].det = scan[p].det /\ scan'[p].plan = scan[p].plan
    <3>1. scan[p] \in ScanState
      BY DEF TypeOK, EngineTypeOK, ScanTypeOK
    <3>2. \/ scan'[p] = scan[p] \/ scan'[p] = [scan[p] EXCEPT !.lag = @ + 1]
      BY <1>1 DEF World, TelemetryShifts, Tick
    <3> QED
      BY <3>1, <3>2 DEF ScanState
  <2> QED
    BY <2>1, <2>2, PlanFrame
<1>2. ASSUME NEW p \in Runners, DetectLoad(p) PROVE PlanCurrent'
  BY <1>2, PlanLoad DEF DetectLoad
<1>3. ASSUME NEW p \in Runners, DetectCommit(p) PROVE PlanCurrent'
  <2>1. \A q \in Runners : scan'[q].at = "idle"
    BY <1>3, LoneScan DEF DetectCommit, ScanCommit, Busy, IdleScan, TypeOK, EngineTypeOK,
       ScanTypeOK
  <2> QED
    BY <2>1 DEF PlanCurrent
<1>4. ASSUME NEW p \in Runners,
             \/ Request(p) \/ Acquire(p) \/ Detect(p) \/ TriageMatch(p) \/ TriageLoad(p)
             \/ TriageCommit(p) \/ Analyse(p) \/ ExplainDone(p) \/ Fail(p)
      PROVE  PlanCurrent'
  <2>1. anomalies' = anomalies
    BY <1>4 DEF Request, Acquire, Detect, ScanDetect, TriageMatch, TriageLoad, TriageCommit,
       Analyse, ExplainDone, Fail, EngineMatch, EngineLoad, EngineCommit, engineVars, scanVars
  <2>2. \A q \in Runners : scan'[q] = scan[q] \/ scan'[q].at # "loaded"
    <3>1. CASE Detect(p)
      BY <3>1 DEF Detect, ScanDetect, IdleScan, TypeOK, EngineTypeOK, ScanTypeOK
    <3>2. CASE Fail(p)
      BY <3>2 DEF Fail, IdleScan, TypeOK, EngineTypeOK, ScanTypeOK
    <3>3. CASE ~(Detect(p) \/ Fail(p))
      <4>1. scan' = scan
        BY <1>4, <3>3 DEF Request, Acquire, TriageMatch, TriageLoad, TriageCommit, Analyse,
           ExplainDone, EngineMatch, EngineLoad, EngineCommit, engineVars, scanVars
      <4> QED
        BY <4>1
    <3> QED
      BY <3>1, <3>2, <3>3
  <2>3. \A k \in Keys : Active(k)' = Active(k)
    BY <2>1 DEF Active
  <2>4. \A q \in Runners : \/ scan'[q].at # "loaded"
                           \/ /\ scan[q].at = "loaded"
                              /\ scan'[q].row = scan[q].row
                              /\ scan'[q].det = scan[q].det
                              /\ scan'[q].plan = scan[q].plan
    BY <2>2
  <2> QED
    BY <2>3, <2>4, PlanFrame
<1>5. CASE Restart
  BY <1>5 DEF Restart, IdleScan, PlanCurrent
<1>6. CASE UNCHANGED vars
  BY <1>6, PlanFrame DEF vars, Active
<1> QED
  BY <1>1, <1>2, <1>3, <1>4, <1>5, <1>6 DEF Next, RunStep

\* A scan that has loaded the table still writes what it sees there.
THEOREM PlanInvariant == Spec => []PlanCurrent
<1>1. TypeOK /\ LockInv /\ PlanCurrent /\ [Next]_vars => PlanCurrent'
  BY PlanStep
<1> QED
  BY PlanInit, <1>1, TypeCorrect, LockInvariant, PTL DEF Spec

--------------------------------------------------------------------------------
(* The three steps that write.                                                 *)

\* What the commit of a scan makes of one key.
LEMMA Renewal ==
  ASSUME TypeOK, LockInv, ScanInv, PlanCurrent, NEW p \in Runners, ScanCommit(p), NEW k \in Keys
  PROVE  Reported(k)' \in A!Renewed(k, scan[p].det[k])
<1>1. PICK new :
        /\ IF scan[p].plan[k] = "open" THEN NewSlot(k, new[k]) ELSE new[k] = NoSlot
        /\ \A i \in Slots : anomalies'[k][i] = Written(p, k, i, new)
  BY DEF ScanCommit
<1> DEFINE det == scan[p].det[k]
           row == scan[p].row[k]
           plan == scan[p].plan[k]
<1>2. /\ row \in IF Active(k) = {} THEN {NoSlot} ELSE Active(k)
      /\ det # 0 => plan = IF row = NoSlot THEN "open" ELSE "update"
      /\ det = 0 => plan \in {"none", "resolve"}
  BY DEF ScanCommit, PlanCurrent
<1>3. \A i, j \in Active(k) : i = j
  BY DEF ScanInv, OneActivePerKey
<1>4. NoSlot \notin Slots /\ \A i \in Active(k) : i \in Slots /\ anomalies[k][i].active
  BY SlotsAssumption DEF Active
<1>5. Reported(k)' = {[metric |-> k[2], slot |-> i, z |-> anomalies'[k][i].z] : i \in Active(k)'}
  BY DEF Reported
<1>6. ASSUME NEW i \in Slots, det # 0,
             Active(k)' = {i}, anomalies'[k][i].z = det,
             \A r \in Reported(k) : r.slot = i
      PROVE  Reported(k)' \in A!Renewed(k, det)
  <2>1. Reported(k)' = {[metric |-> k[2], slot |-> i, z |-> det]}
    BY <1>5, <1>6
  <2> QED
    BY <1>6, <2>1 DEF A!Renewed
<1>7. CASE det # 0 /\ row = NoSlot
  <2>1. Active(k) = {} /\ plan = "open" /\ new[k] \in Slots
    BY <1>1, <1>2, <1>4, <1>7 DEF NewSlot
  <2>2. anomalies'[k][new[k]] = [active |-> TRUE, z |-> det, age |-> scan[p].lag]
    BY <1>1, <2>1 DEF Written
  <2>3. ASSUME NEW i \in Slots, i # new[k] PROVE ~anomalies'[k][i].active
    BY <1>1, <1>4, <2>1, <2>3 DEF Written, Active
  <2>4. Active(k)' = {new[k]}
    BY <2>1, <2>2, <2>3 DEF Active
  <2>5. Reported(k) = {}
    BY <2>1 DEF Reported
  <2> QED
    BY <1>6, <1>7, <2>1, <2>2, <2>4, <2>5
<1>8. CASE det # 0 /\ row # NoSlot
  <2>1. Active(k) = {row} /\ plan = "update" /\ new[k] = NoSlot /\ row \in Slots
    BY <1>1, <1>2, <1>3, <1>4, <1>8
  <2>2. anomalies'[k][row] = [active |-> TRUE, z |-> det, age |-> scan[p].lag]
    BY <1>1, <1>4, <2>1 DEF Written
  <2>3. ASSUME NEW i \in Slots, i # row PROVE ~anomalies'[k][i].active
    <3>1. anomalies'[k][i] = anomalies[k][i]
      BY <1>1, <2>1, <2>3 DEF Written
    <3> QED
      BY <2>1, <2>3, <3>1 DEF Active
  <2>4. Active(k)' = {row}
    BY <2>1, <2>2, <2>3 DEF Active
  <2>5. \A r \in Reported(k) : r.slot = row
    BY <2>1 DEF Reported
  <2> QED
    BY <1>6, <1>8, <2>1, <2>2, <2>4, <2>5
<1>9. CASE det = 0 /\ plan = "none"
  <2>1. \A i \in Slots : anomalies'[k][i] = anomalies[k][i]
    BY <1>1, <1>9 DEF Written
  <2>2. Active(k)' = Active(k)
    BY <2>1 DEF Active
  <2>3. Reported(k)' = Reported(k)
    BY <1>4, <1>5, <2>1, <2>2 DEF Reported
  <2> QED
    BY <1>9, <2>3 DEF A!Renewed
<1>10. CASE det = 0 /\ plan = "resolve"
  <2>1. ASSUME NEW i \in Slots PROVE ~anomalies'[k][i].active
    <3>1. CASE i = row
      BY <1>1, <1>10, <3>1 DEF Written, NoRow
    <3>2. CASE i # row
      <4>1. ~anomalies[k][i].active
        BY <1>2, <1>3, <1>4, <3>2 DEF Active
      <4> QED
        BY <1>1, <1>10, <3>2, <4>1 DEF Written
    <3> QED
      BY <3>1, <3>2
  <2>2. Reported(k)' = {}
    BY <1>5, <2>1 DEF Active
  <2> QED
    BY <1>10, <2>2 DEF A!Renewed
<1> QED
  BY <1>2, <1>7, <1>8, <1>9, <1>10

LEMMA CommitRefines ==
  ASSUME TypeOK, LockInv, ScanInv, PlanCurrent, NEW p \in Runners, DetectCommit(p)
  PROVE  A!Report
<1>1. /\ ScanCommit(p) /\ Busy(p) /\ scan[p].at = "loaded"
      /\ UNCHANGED <<firing, incidents>>
  BY DEF DetectCommit, ScanCommit, Busy
<1>2. Observed = {scan[p].det}
  BY <1>1, LoneScan DEF Observed
<1>3. \A q \in Runners : scan'[q].at = "idle"
  BY <1>1, LoneScan DEF ScanCommit, IdleScan, TypeOK, EngineTypeOK, ScanTypeOK
<1>4. Observed' = {}
  BY <1>3 DEF Observed
<1>5. \A k \in Keys : Reported(k)' \in A!Renewed(k, scan[p].det[k])
  BY <1>1, Renewal
<1>6. [s \in Services |-> Alerted(s)]' = [s \in Services |-> Alerted(s)]
  BY <1>1, AlertsStable
<1> QED
  BY <1>1, <1>2, <1>4, <1>5, <1>6 DEF A!Report

\* What the commit of an engine call makes of one service.
LEMMA Revision ==
  ASSUME TypeOK, EngineInv, NEW p \in Runners, EngineCommit(p), NEW s \in Services
  PROVE  Alerted(s)' \in A!Revised(s, Triage(s))
<1>1. PICK new :
        /\ IF engine[p].match[s] # "none" /\ engine[p].row[s] = NoSlot
           THEN NewIncident(s, new[s]) ELSE new[s] = NoSlot
        /\ \A i \in IncSlots : incidents'[s][i] = Triaged(p, s, i, new)
  BY DEF EngineCommit
<1> DEFINE row == engine[p].row[s]
           match == Triage(s)
<1>2. /\ engine[p].match[s] = match
      /\ row \in IF OpenIncidents(s) = {} THEN {NoSlot} ELSE OpenIncidents(s)
  BY DEF EngineCommit, EngineInv, MatchCurrent
<1>3. /\ \A i, j \in OpenIncidents(s) : i = j
      /\ \A i, j \in OpenIncidents(s)' : i = j
      /\ OpenIncidents(s)' # {} <=> match # "none"
  BY CommitOutcome, EvaluateRulesType DEF EngineInv, OneOpenIncidentPerService, Triage
<1>4. NoSlot \notin IncSlots /\ \A i \in OpenIncidents(s) : i \in IncSlots /\ incidents[s][i].open
  BY IncSlotsAssumption DEF OpenIncidents
<1>5. Alerted(s)' = {[id |-> i, rule |-> incidents'[s][i].rule, root |-> incidents'[s][i].root]
                       : i \in OpenIncidents(s)'}
  BY DEF Alerted
<1>6. CASE match = "none"
  BY <1>3, <1>5, <1>6 DEF A!Revised
<1>7. CASE match # "none" /\ row = NoSlot
  <2>1. OpenIncidents(s) = {} /\ new[s] \in IncSlots
    BY <1>1, <1>2, <1>4, <1>7 DEF NewIncident
  <2>2. ~incidents[s][new[s]].open
    BY <2>1 DEF OpenIncidents
  <2>3. incidents'[s][new[s]] = [open |-> TRUE, rule |-> match, root |-> NoService]
    BY <1>1, <1>2, <1>7, <2>1, <2>2 DEF Triaged
  <2>4. OpenIncidents(s)' = {new[s]}
    BY <1>3, <2>1, <2>3 DEF OpenIncidents
  <2>5. Alerted(s)' = {[id |-> new[s], rule |-> match, root |-> NoService]}
    BY <1>5, <2>3, <2>4
  <2>6. Alerted(s) = {}
    BY <2>1 DEF Alerted
  <2> QED
    BY <1>7, <2>1, <2>5, <2>6 DEF A!Revised
<1>8. CASE match # "none" /\ row # NoSlot
  <2>1. OpenIncidents(s) = {row} /\ row \in IncSlots /\ incidents[s][row].open
    BY <1>2, <1>3, <1>4, <1>8
  <2>2. incidents'[s][row] = [open |-> TRUE, rule |-> match, root |-> incidents[s][row].root]
    BY <1>1, <1>2, <1>8, <2>1 DEF Triaged
  <2>3. OpenIncidents(s)' = {row}
    BY <1>3, <2>1, <2>2 DEF OpenIncidents
  <2> DEFINE old == [id |-> row, rule |-> incidents[s][row].rule, root |-> incidents[s][row].root]
             kept == [id |-> row, rule |-> match, root |-> incidents[s][row].root]
  <2>4. Alerted(s)' = {kept} /\ Alerted(s) = {old}
    BY <1>5, <2>1, <2>2, <2>3 DEF Alerted
  <2>5. [old EXCEPT !.rule = match] = kept
    OBVIOUS
  <2>6. A!Revised(s, match) = {{[a EXCEPT !.rule = match] : a \in Alerted(s)}}
    BY <1>8, <2>4 DEF A!Revised
  <2>7. {[a EXCEPT !.rule = match] : a \in Alerted(s)} = {kept}
    BY <2>4, <2>5
  <2> HIDE DEF old, kept, match
  <2>8. Alerted(s)' \in A!Revised(s, match)
    BY <2>4, <2>6, <2>7
  <2> QED
    BY <2>8 DEF match
<1> QED
  BY <1>6, <1>7, <1>8

LEMMA TriageRefines ==
  ASSUME TypeOK, LockInv, EngineInv, NEW p \in Runners, TriageCommit(p) PROVE A!Triage
<1>1. /\ EngineCommit(p) /\ stage[p] = "incidents"
      /\ UNCHANGED <<firing, anomalies, scan>>
  BY DEF TriageCommit, EngineCommit, scanVars
<1>2. \A q \in Runners : scan[q].at = "idle"
  BY <1>1 DEF LockInv, Busy
<1>3. Observed = {} /\ Observed' = {}
  BY <1>1, <1>2 DEF Observed
<1>4. [k \in Keys |-> Reported(k)]' = [k \in Keys |-> Reported(k)]
  BY <1>1, ReportsStable
<1>5. ASSUME NEW s \in Services
      PROVE  Alerted(s)' \in A!Revised(s, EvaluateRules(A!Reports(s)))
  BY <1>1, Revision, ReportsAreRows DEF Triage
<1> QED
  BY <1>1, <1>3, <1>4, <1>5 DEF A!Triage

\* The services Alerts sees alarmed are those a root cause is sought among.
LEMMA AlarmedAreAnomalous == TypeOK => A!Alarmed = Anomalous
<1> SUFFICES ASSUME TypeOK PROVE A!Alarmed = Anomalous
  OBVIOUS
<1>1. Anomalous \subseteq Services
  BY KeysAssumption DEF Anomalous
<1>2. \A s \in Services : s \in Anomalous <=> A!Reports(s) # {}
  BY AnomalousIffRows, ReportsAreRows
<1> QED
  BY <1>1, <1>2 DEF A!Alarmed

LEMMA AnalyseRefines ==
  ASSUME TypeOK, LockInv, EngineInv, NEW p \in Runners, Analyse(p) PROVE A!Blame
<1>1. /\ stage[p] = "rca"
      /\ UNCHANGED <<firing, anomalies, scan>>
  BY DEF Analyse, scanVars
<1>2. PICK root \in [Services -> Services] :
        /\ \A s \in Services : root[s] \in RootCauses({s}, Anomalous \cup {s})
        /\ incidents' = [s \in Services |-> [i \in IncSlots |->
                           IF incidents[s][i].open
                           THEN [incidents[s][i] EXCEPT !.root = root[s]]
                           ELSE incidents[s][i]]]
  BY DEF Analyse
<1>3. \A q \in Runners : scan[q].at = "idle"
  BY <1>1 DEF LockInv, Busy
<1>4. Observed = {} /\ Observed' = {}
  BY <1>1, <1>3 DEF Observed
<1>5. [k \in Keys |-> Reported(k)]' = [k \in Keys |-> Reported(k)]
  BY <1>1, ReportsStable
<1>6. \A s \in Services : OpenIncidents(s)' = OpenIncidents(s)
  BY AnalyseKeeps DEF OpenIncidents
<1>7. \A s \in Services : /\ OpenIncidents(s) # {} <=> ActiveRows(s) # {}
                          /\ \A i \in OpenIncidents(s) : incidents[s][i].rule = Triage(s)
  BY <1>1 DEF EngineInv, TriageCurrent
<1>8. \A s \in Services : Alerted(s) # {} <=> OpenIncidents(s) # {}
  BY DEF Alerted
<1>9. A!Current
  <2>1. \A s \in Services : \A a \in Alerted(s) : a.rule = EvaluateRules(A!Reports(s))
    BY <1>7, ReportsAreRows DEF Alerted, Triage
  <2> QED
    BY <1>7, <1>8, <2>1, ReportsAreRows DEF A!Current
<1>10. ASSUME NEW s \in Services, Alerted(s) # {}
       PROVE  /\ root[s] \in RootCauses({s}, A!Alarmed)
              /\ Alerted(s)' = {[a EXCEPT !.root = root[s]] : a \in Alerted(s)}
  <2>1. PICK i \in OpenIncidents(s) : OpenIncidents(s) = {i}
    BY <1>8, <1>10 DEF EngineInv, OneOpenIncidentPerService
  <2>2. i \in IncSlots /\ incidents[s][i].open /\ incidents[s][i] \in IncidentRow
    BY <2>1 DEF OpenIncidents, TypeOK, EngineTypeOK
  <2>3. incidents'[s][i] = [incidents[s][i] EXCEPT !.root = root[s]]
    BY <1>2, <2>2
  <2>4. incidents'[s][i].rule = incidents[s][i].rule /\ incidents'[s][i].root = root[s]
    BY <2>2, <2>3 DEF IncidentRow
  <2> DEFINE old == [id |-> i, rule |-> incidents[s][i].rule, root |-> incidents[s][i].root]
             blamed == [id |-> i, rule |-> incidents[s][i].rule, root |-> root[s]]
  <2>5. Alerted(s) = {old} /\ Alerted(s)' = {blamed}
    BY <1>6, <2>1, <2>4 DEF Alerted
  <2>6. [old EXCEPT !.root = root[s]] = blamed
    OBVIOUS
  <2>7. s \in Anomalous
    BY <1>7, <1>8, <1>10, AnomalousIffRows
  <2>8. Anomalous \cup {s} = A!Alarmed
    BY <2>7, AlarmedAreAnomalous
  <2>9. root[s] \in RootCauses({s}, A!Alarmed)
    BY <1>2, <2>8
  <2> HIDE DEF old, blamed
  <2> QED
    BY <2>5, <2>6, <2>9
<1>11. \A s \in Services : Alerted(s) = {} => Alerted(s)' = {}
  BY <1>6, <1>8 DEF Alerted
<1> DEFINE now == [s \in Services |-> Alerted(s)]
           after == [s \in Services |-> Alerted(s)']
<1>12. \A s \in Services :
         now[s] # {} => \E r \in RootCauses({s}, A!Alarmed) :
                          after[s] = {[a EXCEPT !.root = r] : a \in now[s]}
  BY <1>10
<1>13. after = [s \in Services |-> IF now[s] = {} THEN {} ELSE after[s]]
  BY <1>11
<1> QED
  BY <1>1, <1>4, <1>5, <1>9, <1>12, <1>13 DEF A!Blame

--------------------------------------------------------------------------------

LEMMA RefinementStep ==
  TypeOK /\ LockInv /\ ScanInv /\ EngineInv /\ PlanCurrent /\ [Next]_vars => [A!Next]_(A!vars)
<1> SUFFICES ASSUME TypeOK, LockInv, ScanInv, EngineInv, PlanCurrent, [Next]_vars
             PROVE  [A!Next]_(A!vars)
  OBVIOUS
<1>1. CASE World
  BY <1>1, WorldRefines
<1>2. ASSUME NEW p \in Runners,
             \/ Request(p) \/ Acquire(p) \/ DetectLoad(p)
             \/ TriageMatch(p) \/ TriageLoad(p) \/ ExplainDone(p)
      PROVE  [A!Next]_(A!vars)
  BY <1>2, QuietRefines
<1>3. ASSUME NEW p \in Runners, Detect(p) PROVE A!Next
  BY <1>3, DetectRefines DEF A!Next
<1>4. ASSUME NEW p \in Runners, DetectCommit(p) PROVE A!Next
  BY <1>4, CommitRefines DEF A!Next
<1>5. ASSUME NEW p \in Runners, TriageCommit(p) PROVE A!Next
  BY <1>5, TriageRefines DEF A!Next
<1>6. ASSUME NEW p \in Runners, Analyse(p) PROVE A!Next
  BY <1>6, AnalyseRefines DEF A!Next
<1>7. CASE Restart \/ \E p \in Runners : Fail(p)
  BY <1>7, FailRefines DEF A!Next
<1>8. CASE UNCHANGED vars
  <2>1. UNCHANGED <<firing, anomalies, scan, incidents>>
    BY <1>8 DEF vars
  <2>2. Observed' = Observed
    BY <2>1 DEF Observed
  <2> QED
    BY <2>1, <2>2, ReportsStable, AlertsStable DEF A!vars
<1> QED
  BY <1>1, <1>2, <1>3, <1>4, <1>5, <1>6, <1>7, <1>8 DEF Next, RunStep

\* The pipeline implements Alerts: seen from its tables, runs that overlap, fail
\* or are cut off by a restart are atomic scans, triages and analyses.
THEOREM PipelineImplementsAlerts == Spec => ImplementsAlerts
<1>1. TypeOK /\ LockInv /\ ScanInv /\ EngineInv /\ PlanCurrent /\ [Next]_vars
        => [A!Next]_(A!vars)
  BY RefinementStep
<1> QED
  BY AbstractInit, <1>1, TypeCorrect, LockInvariant, ScanInvariant, EngineInvariant,
     PlanInvariant, PTL DEF Spec, A!Spec, ImplementsAlerts

================================================================================
