SPECIFICATION Spec
CONSTANTS
  Finding <- MCFinding
  Track <- MCTrack
  Id <- MCId
  IdOf <- MCIdOf
  CycleOf <- MCCycleOf
  TrackOf <- MCTrackOf
  Advisory = {}
  IdPrefix <- MCIdPrefix
  MaxCycle = 2
  MaxInvocation = 1
  w1 = w1
  w2 = w2
  Worker = {w1, w2}
  Outcome <- FixerOutcomes
  None = None
SYMMETRY Symmetry
INVARIANTS BooksInv FailedFixesRolledBack
