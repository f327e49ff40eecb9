---------------------------- MODULE IncidentEngine ----------------------------
(***************************************************************************)
(* The incident engine (backend/app/services/incident.py): one call of     *)
(* run_incident_engine reads the active anomalies, then the open incidents,*)
(* and commits at most one create, update or resolve per service.  Several *)
(* calls may be in flight: POST /api/v1/incidents/run takes no lock.       *)
(* EngineSpec is the engine under such calls, next to unlocked scans.      *)
(***************************************************************************)
EXTENDS AnomalyScan, IncidentRules

CONSTANTS Engines,    \* the engine calls that can be in flight at once
          IncSlots,   \* identities of incident rows, per service
          NoService   \* no root cause recorded

ASSUME IncSlotsAssumption == IncSlots \subseteq Nat \ {NoSlot}
ASSUME NoServiceAssumption == NoService \notin Services

VARIABLES incidents,  \* the incidents table: service -> slot -> row
          engine      \* engine call -> its state

engineVars == <<firing, anomalies, scan, incidents, engine>>

\* A row, joined with the root cause the RCA table holds for it.  Severity is
\* a function of the rule.
IncidentRow == [open : BOOLEAN, rule : Rules \cup {"none"},
                root : Services \cup {NoService}]

NoIncident == [open |-> FALSE, rule |-> "none", root |-> NoService]

EngineState == [at : {"idle", "matched", "loaded"},
                match : [Services -> Rules \cup {"none"}],
                row : [Services -> IncSlots \cup {NoSlot}]]

IdleEngine == [at |-> "idle", match |-> [s \in Services |-> "none"],
               row |-> [s \in Services |-> NoSlot]]

OpenIncidents(s) == {i \in IncSlots : incidents[s][i].open}

\* Mutation: only the metrics the rules name are triaged.
ActiveRowsRED(s) ==
  UNION {{[metric |-> k[2], slot |-> i, z |-> anomalies[k][i].z] : i \in Active(k)}
         : k \in {l \in Keys : l[1] = s /\ (IsErrorMetric(l[2]) \/ IsLatencyMetric(l[2]))}}

ActiveRows(s) ==
  UNION {{[metric |-> k[2], slot |-> i, z |-> anomalies[k][i].z] : i \in Active(k)}
         : k \in {l \in Keys : l[1] = s}}

Triage(s) == EvaluateRules(ActiveRows(s))

NewIncident(s, i) ==
  LET Unused == {j \in IncSlots : /\ ~incidents[s][j].open
                                  /\ \A q \in Engines : engine[q].row[s] # j}
  IN  i \in Unused /\ \A j \in Unused : i <= j

EngineInit ==
  /\ ScanInit
  /\ incidents = [s \in Services |-> [i \in IncSlots |-> NoIncident]]
  /\ engine = [p \in Engines |-> IdleEngine]

\* Read the active anomalies: each service's rule depends on nothing else.
EngineMatch(p) ==
  /\ engine[p].at = "idle"
  /\ engine' = [engine EXCEPT ![p].at = "matched",
                              ![p].match = [s \in Services |-> Triage(s)]]
  /\ UNCHANGED <<scanVars, incidents>>

\* Read the open incidents into a dict by first affected service: of several
\* open incidents of one service the last one wins, in no defined order.
EngineLoad(p) ==
  /\ engine[p].at = "matched"
  /\ \E row \in [Services -> IncSlots \cup {NoSlot}] :
       /\ \A s \in Services : row[s] \in IF OpenIncidents(s) = {} THEN {NoSlot}
                                                              ELSE OpenIncidents(s)
       /\ engine' = [engine EXCEPT ![p].at = "loaded", ![p].row = row]
  /\ UNCHANGED <<scanVars, incidents>>

\* Mutation: step 4 of the engine is missing.
TriagedNeverResolves(p, s, i, new) ==
  LET e == engine[p]
      old == incidents[s][i]
  IN IF e.match[s] # "none" /\ (i = new[s] \/ (i = e.row[s] /\ old.open))
     THEN [open |-> TRUE, rule |-> e.match[s], root |-> old.root]
     ELSE old

\* Mutation: an open incident is replaced, and loses its root cause.
TriagedReplaces(p, s, i, new) ==
  LET e == engine[p]
      old == incidents[s][i]
  IN IF e.match[s] # "none" /\ (i = new[s] \/ (i = e.row[s] /\ old.open))
     THEN [open |-> TRUE, rule |-> e.match[s], root |-> NoService]
     ELSE IF e.match[s] = "none" /\ i = e.row[s] THEN NoIncident
     ELSE old

\* Create, update or resolve.  The UPDATE of an open incident writes changed
\* columns only: a row another call resolved meanwhile stays resolved.
Triaged(p, s, i, new) ==
  LET e == engine[p]
      old == incidents[s][i]
  IN IF e.match[s] # "none" /\ (i = new[s] \/ (i = e.row[s] /\ old.open))
     THEN [open |-> TRUE, rule |-> e.match[s],
           root |-> IF old.open THEN old.root ELSE NoService]
     ELSE IF e.match[s] = "none" /\ i = e.row[s] THEN NoIncident
     ELSE old

EngineCommit(p) ==
  /\ engine[p].at = "loaded"
  /\ \E new \in [Services -> IncSlots \cup {NoSlot}] :
       /\ \A s \in Services :
            IF engine[p].match[s] # "none" /\ engine[p].row[s] = NoSlot
            THEN NewIncident(s, new[s]) ELSE new[s] = NoSlot
       /\ incidents' = [s \in Services |-> [i \in IncSlots |-> Triaged(p, s, i, new)]]
  /\ engine' = [engine EXCEPT ![p] = IdleEngine]
  /\ UNCHANGED scanVars

\* A database error or a crash of the call: the session rolls back.
EngineAbort(p) ==
  /\ engine[p].at # "idle"
  /\ engine' = [engine EXCEPT ![p] = IdleEngine]
  /\ UNCHANGED <<scanVars, incidents>>

EngineStep(p) == EngineMatch(p) \/ EngineLoad(p) \/ EngineCommit(p)

EngineNext ==
  \/ ScanNext /\ UNCHANGED <<incidents, engine>>
  \/ \E p \in Engines : EngineStep(p) \/ EngineAbort(p)

\* As for the scan: calls keep coming and do not fail for ever.
EngineFairness ==
  /\ ScanFairness
  /\ \A p \in Engines : /\ WF_engineVars(EngineMatch(p))
                        /\ SF_engineVars(EngineLoad(p))
                        /\ SF_engineVars(EngineCommit(p))

EngineSpec == EngineInit /\ [][EngineNext]_engineVars /\ EngineFairness

--------------------------------------------------------------------------------

EngineTypeOK ==
  /\ ScanTypeOK
  /\ incidents \in [Services -> [IncSlots -> IncidentRow]]
  /\ engine \in [Engines -> EngineState]

\* incident.py: one incident per service.  Holds when calls exclude each
\* other (see Pipeline), not for EngineSpec.
OneOpenIncidentPerService ==
  \A s \in Services : \A i, j \in OpenIncidents(s) : i = j

Quiet(s) == \A k \in Keys : k[1] = s => firing[k] = 0

\* Once a service is quiet for good, every incident of it is resolved in the
\* end, the duplicates that concurrent calls opened included.
IncidentsDrain ==
  \A s \in Services : <>[]Quiet(s) => <>[](OpenIncidents(s) = {})

\* A fault that stays has an open incident in the end, and keeps one, although
\* calls in flight may still resolve from anomalies they read earlier.
IncidentStays ==
  \A k \in Keys : <>[](firing[k] # 0) => <>[](OpenIncidents(k[1]) # {})

================================================================================
