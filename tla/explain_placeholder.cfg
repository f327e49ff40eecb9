SPECIFICATION FairSpec
CONSTANTS
  Ids = {1, 2}
  Posts = {r1}
  MaxPerCycle = 2
  Unanswerable = {}

PROPERTY RetriedUntilExplained
