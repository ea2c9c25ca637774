SPECIFICATION MCSpec
CONSTANTS
  Writer = {"api", "cli"}
  Api = "api"
  Session = {"s1", "s2"}
  Codex = {"s1"}
  Hooked = {"s1"}
  None = None
  Threshold = 1
  StableTicks = 1
  MaxSize = 3
  MaxKills = 2
  MaxOther = 1
INVARIANTS TypeOK RegistryKeepsRows AnnouncedOnce AnnouncedResolves
PROPERTIES OnlyStaleRotationLoses SessionsClose
CHECK_DEADLOCK FALSE
