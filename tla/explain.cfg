SPECIFICATION MCSpec
CONSTANTS
  Ids = {1, 2}
  Posts = {r1}
  MaxPerCycle = 2
  Unanswerable = {}
INVARIANTS TypeOK GentleAtEitherCap
PROPERTIES LoopKeepsAnswers EveryIncidentGetsARow
