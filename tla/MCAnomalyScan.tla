----------------------------- MODULE MCAnomalyScan -----------------------------
(* Two concurrent calls of POST /api/v1/anomalies/scan on one flickering key. *)
EXTENDS AnomalyScan

MCServices == {"cart"}
MCKeys == {<<"cart", "container.memory.percent">>}
MCSlots == 1..3

================================================================================
