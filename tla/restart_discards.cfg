SPECIFICATION Spec
CONSTANTS
  Finding <- OneCycle
  Track <- MCTrack
  Id <- MCId
  IdOf <- OneCycleIdOf
  CycleOf <- OneCycleOf
  TrackOf <- OneCycleTrackOf
  Advisory = {}
  IdPrefix <- MCIdPrefix
  MaxCycle = 1
  MaxInvocation = 2
  w1 = w1
  w2 = w2
  Worker = {w1, w2}
  Outcome <- FewOutcomes
  None = None
SYMMETRY Symmetry
PROPERTIES OrphansSurviveRestart
