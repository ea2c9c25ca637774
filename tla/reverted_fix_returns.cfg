SPECIFICATION Spec
CONSTANTS
  Finding <- TwoCycles
  Track <- MCTrack
  Id <- MCId
  IdOf <- TwoCyclesIdOf
  CycleOf <- TwoCyclesOf
  TrackOf <- TwoCyclesTrackOf
  Advisory = {}
  IdPrefix <- MCIdPrefix
  MaxCycle = 2
  MaxInvocation = 1
  w1 = w1
  w2 = w2
  Worker = {w1, w2}
  Outcome <- FewOutcomes
  None = None
SYMMETRY Symmetry
INVARIANTS SecondPickIsEmpty
