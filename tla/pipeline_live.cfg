SPECIFICATION FairSpec
CONSTANTS
  Services <- LiveServices
  Keys <- LiveKeys
  Calls <- LiveCalls
  Slots = {1}
  IncSlots = {1}
  Runners = {loop, run}
  Engines = {loop, run}
  Loop = loop
  WithAI = {loop}
  NoService = NoService
  NoRunner = NoRunner
  Cooldown = 1
  MaxLag = 1
PROPERTIES IncidentsDrain NoStarvation RootCauseFound
