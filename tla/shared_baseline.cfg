SPECIFICATION Spec
CONSTANTS
  Lanes = {geo, competitive}
  Core = core
  NoLane = NoLane
  MaxVariant = 2
  MaxSearch = 1
  MaxScore = 2
  MaxClock = 3
  MaxGeneration = 1
  MaxRestarts = 4
  RollbackCooldown = 1
  AutoRollback = TRUE
PROPERTIES
  PromotionBeatsHead
CHECK_DEADLOCK FALSE
