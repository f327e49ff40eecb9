SPECIFICATION OperatorsSpec
CONSTANTS
  MinBuckets = 5
  MinRequests = 5
  MinExpected = 6
  NoLatency = NoLatency
  MaxMinutes = 7
  MaxAnomalies = 4
  ServiceNames = {s1, s2}
  NoName = NoName
  MaxRows = 3
  Undefined = Undefined
  Failed = Failed
  MaxSafe = 9
INVARIANTS
  MinorityIgnored GraphByCalls CutServices CutDependencies
  CopiesAgreeOnTheWire CopiesAgreeOnJSON
PROPERTY WorseNeverMilder
