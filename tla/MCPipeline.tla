------------------------------ MODULE MCPipeline ------------------------------
(* The loop and a manual run, on a caller and its callee.                     *)
EXTENDS Pipeline

MCServices == {"frontend", "cart"}
MCCalls == {<<"frontend", "cart">>}
MCKeys == {<<"cart", "span.error_rate">>, <<"frontend", "container.memory.percent">>}
MCSlots == 1..2
MCIncSlots == 1..2

\* For the liveness properties: one service, two kinds of fault.
LiveServices == {"cart"}
LiveKeys == {"cart"} \X {"span.service_silent", "container.memory.percent"}
LiveCalls == {}

================================================================================
