SPECIFICATION EngineSpec
CONSTANTS
  Services <- MCServices
  Keys <- MCKeys
  Slots <- MCSlots
  IncSlots <- MCIncSlots
  Runners = {scan1}
  Engines = {e1, e2}
  NoService = NoService
  Cooldown = 1
  MaxLag = 1
INVARIANT EngineTypeOK
PROPERTIES IncidentsDrain IncidentStays
