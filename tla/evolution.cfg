SPECIFICATION Spec
CONSTANTS
  Lanes = {geo}
  Core = core
  NoLane = NoLane
  MaxVariant = 3
  MaxSearch = 1
  MaxScore = 2
  MaxClock = 5
  MaxGeneration = 1
  MaxRestarts = 4
  RollbackCooldown = 1
  AutoRollback = TRUE
INVARIANTS
  TypeOK
  ArchiveOnDisk
  PromotedPassedGate
  GateInv
  HeadIsLastPromotion
  LaneInv
PROPERTIES
  PromotionBeatsHead
CHECK_DEADLOCK FALSE
