SPECIFICATION ScanSpec
CONSTANTS
  Services <- MCServices
  Keys <- MCKeys
  Slots <- MCSlots
  Runners = {r1, r2}
  Cooldown = 2
  MaxLag = 1
INVARIANT OneActivePerKey
