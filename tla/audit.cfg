SPECIFICATION Spec
CONSTANTS
  Agents = {a1, a2}
  MaxRuns = 3
  Silent = {a1}
INVARIANTS TypeOK NoStaleOutput ChainCurrent BooksBeforeMarks PublishedAsRendered AuditInv
PROPERTIES CompletedStays RunEnds
CHECK_DEADLOCK FALSE
