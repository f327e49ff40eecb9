------------------------------- MODULE MCExplain -------------------------------
(* Two incidents under a cap of two, as AI_MAX_PER_CYCLE is, where a stage of *)
(* the loop commits two answers at once, and under a cap of one, which the    *)
(* pending incidents exceed.  A behaviour has one cap from start to end.      *)
EXTENDS Explain

VARIABLE cap

Tight == INSTANCE Explain WITH MaxPerCycle <- 1

MCInit == Init /\ cap \in {1, MaxPerCycle}

MCNext ==
  /\ \/ cap = MaxPerCycle /\ Next
     \/ cap = 1 /\ Tight!Next
  /\ UNCHANGED cap

SelectsUpToCap ==
  \/ cap = MaxPerCycle /\ LoopSelects
  \/ cap = 1 /\ Tight!LoopSelects

MCSpec ==
  MCInit /\ [][MCNext]_<<explainVars, cap>> /\ SF_explainVars(SelectsUpToCap) /\ StageFairness

\* The loop is gentle with Groq (scheduler._explain_new_incidents), whether the
\* cap leaves pending incidents out or not.
GentleAtEitherCap ==
  /\ cap = MaxPerCycle => LoopIsGentle
  /\ cap = 1 => Tight!LoopIsGentle

================================================================================
