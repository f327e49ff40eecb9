------------------------------- MODULE RootCause -------------------------------
(***************************************************************************)
(* Root cause scoring (backend/app/services/rca.py,                        *)
(* backward_graph_traversal): which services an incident may be blamed on. *)
(***************************************************************************)
CONSTANT Calls  \* the dependency graph: <<caller, callee>>

\* Score 0.5: the service calls another anomalous service.
Victims(anomalous) ==
  {s \in anomalous : \E c \in anomalous : <<s, c>> \in Calls}

\* The services with the top score: 1.0 when some service has no anomalous
\* callee, 0.5 when the anomalous services form cycles only.
TopCandidates(anomalous) ==
  LET origins == anomalous \ Victims(anomalous)
  IN  IF origins # {} THEN origins ELSE anomalous

\* Mutation: a callee is blamed whether it is anomalous or not.
RootCausesAnyCallee(affected, anomalous) ==
  LET callees == {e[2] : e \in {d \in Calls : d[1] \in affected}}
  IN  IF callees # {} THEN callees ELSE affected

\* A top candidate among the affected services goes first; otherwise the code
\* takes the first of a set, in no defined order.
RootCauses(affected, anomalous) ==
  LET top == TopCandidates(anomalous)
  IN  IF top \cap affected # {} THEN top \cap affected ELSE top

================================================================================
