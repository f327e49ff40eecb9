SPECIFICATION Spec
CONSTANTS
  Services <- MCServices
  Keys <- MCKeys
  Calls <- MCCalls
  Slots <- MCSlots
  IncSlots <- MCIncSlots
  Runners = {loop, run}
  Engines = {loop, run}
  Loop = loop
  WithAI = {loop}
  NoService = NoService
  NoRunner = NoRunner
  Cooldown = 2
  MaxLag = 1
INVARIANTS TypeOK MutualExclusion OneActivePerKey OneOpenIncidentPerService TriageCurrent RootCauseKnown
PROPERTIES CooldownRespected ResolvedWhenClear ImplementsAlerts
