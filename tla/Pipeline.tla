------------------------------- MODULE Pipeline -------------------------------
(***************************************************************************)
(* The analysis pipeline: the background loop (services/scheduler.py) and  *)
(* the manual runs (api/v1/pipeline.py) take PIPELINE_LOCK and run detect, *)
(* incidents, RCA and AI, committing after each stage.  A stage may fail,  *)
(* the process may restart; only the database survives.                    *)
(***************************************************************************)
EXTENDS IncidentEngine, RootCause

CONSTANTS Loop,      \* the background task, one of Runners
          WithAI,    \* the runners whose run ends with the AI stage
          NoRunner

ASSUME RunnersAssumption == Engines = Runners /\ Loop \in Runners
                            /\ WithAI \subseteq Runners /\ NoRunner \notin Runners

ASSUME CallsAssumption == Calls \subseteq Services \X Services

VARIABLES lock,     \* the holder of PIPELINE_LOCK, or NoRunner
          waiters,  \* the lock's FIFO queue
          stage     \* runner -> where its run is

schedVars == <<lock, waiters, stage>>
vars == <<firing, anomalies, scan, incidents, engine, lock, waiters, stage>>

Stages == {"idle", "waiting", "detect", "incidents", "rca", "ai"}

Init ==
  /\ EngineInit
  /\ lock = NoRunner
  /\ waiters = <<>>
  /\ stage = [p \in Runners |-> "idle"]

\* A cycle begins, or a request arrives: it queues for the lock.
Request(p) ==
  /\ stage[p] = "idle"
  /\ waiters' = Append(waiters, p)
  /\ stage' = [stage EXCEPT ![p] = "waiting"]
  /\ UNCHANGED <<engineVars, lock>>

\* Mutation: the manual runs and the loop share no lock.
AcquireUnlocked(p) ==
  /\ waiters # <<>> /\ Head(waiters) = p
  /\ lock' = p
  /\ waiters' = Tail(waiters)
  /\ stage' = [stage EXCEPT ![p] = "detect"]
  /\ UNCHANGED engineVars

\* asyncio.Lock wakes its waiters in order.
Acquire(p) ==
  /\ lock = NoRunner /\ waiters # <<>> /\ Head(waiters) = p
  /\ lock' = p
  /\ waiters' = Tail(waiters)
  /\ stage' = [stage EXCEPT ![p] = "detect"]
  /\ UNCHANGED engineVars

Detect(p) ==
  /\ stage[p] = "detect"
  /\ ScanDetect(p)
  /\ UNCHANGED <<incidents, engine, schedVars>>

DetectLoad(p) ==
  /\ stage[p] = "detect"
  /\ ScanLoad(p)
  /\ UNCHANGED <<incidents, engine, schedVars>>

DetectCommit(p) ==
  /\ stage[p] = "detect"
  /\ ScanCommit(p)
  /\ stage' = [stage EXCEPT ![p] = "incidents"]
  /\ UNCHANGED <<incidents, engine, lock, waiters>>

TriageMatch(p) ==
  /\ stage[p] = "incidents"
  /\ EngineMatch(p)
  /\ UNCHANGED schedVars

TriageLoad(p) ==
  /\ stage[p] = "incidents"
  /\ EngineLoad(p)
  /\ UNCHANGED schedVars

TriageCommit(p) ==
  /\ stage[p] = "incidents"
  /\ EngineCommit(p)
  /\ stage' = [stage EXCEPT ![p] = "rca"]
  /\ UNCHANGED <<lock, waiters>>

\* The services with an active anomaly, with which every RCA starts.
Anomalous == {k[1] : k \in {l \in Keys : Active(l) # {}}}

Release(p, st) ==
  /\ stage' = [stage EXCEPT ![p] = st]
  /\ lock' = IF st = "idle" THEN NoRunner ELSE lock
  /\ UNCHANGED waiters

\* run_rca_for_all_open and its commit: upsert one root cause per open
\* incident.  One step: nobody else writes what it reads while the lock is held.
Analyse(p) ==
  /\ stage[p] = "rca"
  /\ \E root \in [Services -> Services] :
       /\ \A s \in Services : root[s] \in RootCauses({s}, Anomalous \cup {s})
       /\ incidents' = [s \in Services |-> [i \in IncSlots |->
                          IF incidents[s][i].open
                          THEN [incidents[s][i] EXCEPT !.root = root[s]]
                          ELSE incidents[s][i]]]
  /\ Release(p, IF p \in WithAI THEN "ai" ELSE "idle")
  /\ UNCHANGED <<scanVars, engine>>

\* The AI stage reads these tables and writes ai_explanations only (module
\* Explain); the lock is held until Groq has answered.
ExplainDone(p) ==
  /\ stage[p] = "ai"
  /\ Release(p, "idle")
  /\ UNCHANGED engineVars

\* Mutation: the lock is not released by an exception.
FailKeepsLock(p) ==
  /\ stage[p] \notin {"idle", "waiting"}
  /\ stage' = [stage EXCEPT ![p] = "idle"]
  /\ scan' = [scan EXCEPT ![p] = IdleScan]
  /\ engine' = [engine EXCEPT ![p] = IdleEngine]
  /\ UNCHANGED <<firing, anomalies, incidents, lock, waiters>>

\* Mutation: the session of a failed run is used again by the next one.
FailKeepsSession(p) ==
  /\ stage[p] \notin {"idle", "waiting"}
  /\ Release(p, "idle")
  /\ scan' = [scan EXCEPT ![p] = IdleScan]
  /\ UNCHANGED <<firing, anomalies, incidents, engine>>

\* Any exception in a run: the session rolls back, the lock is released, the
\* loop logs it and goes on to its next cycle.
Fail(p) ==
  /\ stage[p] \notin {"idle", "waiting"}
  /\ Release(p, "idle")
  /\ scan' = [scan EXCEPT ![p] = IdleScan]
  /\ engine' = [engine EXCEPT ![p] = IdleEngine]
  /\ UNCHANGED <<firing, anomalies, incidents>>

\* Shutdown or crash and a new start: lock, queue and sessions are gone.
Restart ==
  /\ lock' = NoRunner
  /\ waiters' = <<>>
  /\ stage' = [p \in Runners |-> "idle"]
  /\ scan' = [p \in Runners |-> IdleScan]
  /\ engine' = [p \in Runners |-> IdleEngine]
  /\ UNCHANGED <<firing, anomalies, incidents>>

World == (TelemetryShifts \/ Tick) /\ UNCHANGED <<incidents, engine, schedVars>>

RunStep(p) ==
  \/ Acquire(p)
  \/ Detect(p) \/ DetectLoad(p) \/ DetectCommit(p)
  \/ TriageMatch(p) \/ TriageLoad(p) \/ TriageCommit(p)
  \/ Analyse(p) \/ ExplainDone(p)

Next ==
  \/ World
  \/ \E p \in Runners : Request(p) \/ RunStep(p) \/ Fail(p)
  \/ Restart

\* The loop never stops asking; manual runs come when they come.  Awaits end:
\* every step of a run is taken or the run fails.  The loop's runs do not all
\* fail for ever, and the process is not restarted for ever.
Fairness ==
  /\ SF_vars(Tick /\ UNCHANGED <<incidents, engine, schedVars>>)
  /\ WF_vars(Request(Loop))
  /\ \A p \in Runners : WF_vars(RunStep(p))
  /\ SF_vars(Detect(Loop)) /\ SF_vars(DetectLoad(Loop)) /\ SF_vars(DetectCommit(Loop))
  /\ SF_vars(TriageMatch(Loop)) /\ SF_vars(TriageLoad(Loop)) /\ SF_vars(TriageCommit(Loop))
  /\ SF_vars(Analyse(Loop))
  /\ <>[][~Restart]_vars

Spec == Init /\ [][Next]_vars

FairSpec == Spec /\ Fairness

--------------------------------------------------------------------------------

TypeOK ==
  /\ EngineTypeOK
  /\ lock \in Runners \cup {NoRunner}
  /\ waiters \in Seq(Runners)
  /\ stage \in [Runners -> Stages]

\* PIPELINE_LOCK: two runs never analyse at the same time.
MutualExclusion ==
  \A p, q \in Runners :
    stage[p] \notin {"idle", "waiting"} /\ stage[q] \notin {"idle", "waiting"} => p = q

\* While a run is past triage, the incidents are exactly what the rules
\* say of the active anomalies: open where there is one, with that rule.
TriageCurrent ==
  \A p \in Runners : stage[p] \in {"rca", "ai"} =>
    \A s \in Services :
      /\ OpenIncidents(s) # {} <=> ActiveRows(s) # {}
      /\ \A i \in OpenIncidents(s) : incidents[s][i].rule = Triage(s)

\* The AI stage finds a root cause for every open incident, and blames a
\* service that is anomalous itself.
RootCauseKnown ==
  \A p \in Runners : stage[p] = "ai" =>
    \A s \in Services : \A i \in OpenIncidents(s) : incidents[s][i].root \in Anomalous

\* An incident is resolved only when no anomaly of its service is active at
\* the commit, not merely when the engine read the table.
ResolvedWhenClear ==
  [][\A s \in Services : \A i \in IncSlots :
       incidents[s][i].open /\ ~incidents'[s][i].open => ActiveRows(s) = {}]_vars

\* The FIFO lock starves nobody: every run that queued gets its turn, or the
\* process restarts under it.
NoStarvation ==
  \A p \in Runners : stage[p] = "waiting" ~> stage[p] # "waiting"

\* An incident of a fault that stays gets its root cause, whatever runs fail.
RootCauseFound ==
  \A k \in Keys : <>[](firing[k] # 0) =>
    <>[](\E i \in OpenIncidents(k[1]) : incidents[k[1]][i].root # NoService)

--------------------------------------------------------------------------------
(* What the pipeline implements: module Alerts, with the tables' open rows as  *)
(* its reports and alerts, and the telemetry of the scan under way, if any, as *)
(* its sample.                                                                 *)

Observed == {scan[p].det : p \in {q \in Runners : scan[q].at # "idle"}}

Reported(k) == {[metric |-> k[2], slot |-> i, z |-> anomalies[k][i].z] : i \in Active(k)}

Alerted(s) ==
  {[id |-> i, rule |-> incidents[s][i].rule, root |-> incidents[s][i].root]
     : i \in OpenIncidents(s)}

A == INSTANCE Alerts
       WITH ReportIds <- Slots, AlertIds <- IncSlots,
            Rule <- EvaluateRules, Causes <- RootCauses,
            telemetry <- firing, sample <- Observed,
            reports <- [k \in Keys |-> Reported(k)],
            alerts <- [s \in Services |-> Alerted(s)]

\* Whatever runs overlap, fail or are cut off, the anomalies and incidents
\* tables change as Alerts says: at most one row each, reports of one instant,
\* incidents of one set of reports, root causes of current incidents, and no
\* change of identity while they last.
ImplementsAlerts == A!Spec

================================================================================
