--------------------------- MODULE MCIncidentEngine ---------------------------
(* Two concurrent calls of POST /api/v1/incidents/run beside one of           *)
(* POST /api/v1/anomalies/scan, on one service.                               *)
EXTENDS IncidentEngine

MCServices == {"cart"}
MCKeys == {<<"cart", "container.memory.percent">>}
MCSlots == 1..2
MCIncSlots == 1..3

================================================================================
