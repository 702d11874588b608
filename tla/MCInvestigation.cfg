SPECIFICATION Spec
CONSTANTS
  t1 = t1
  t2 = t2
  Threads <- MCThreads
  Functions <- MCFunctions
  Symbol = "load"
  Entries <- MCEntries
  Unaffected <- MCUnaffected
  Projects <- MCProjects
  MaxCalls = 3
  MaxTurn = 2
  Rounds = 2
CHECK_DEADLOCK FALSE
SYMMETRY MCSymmetry
INVARIANTS
  FoundIsReal
  WithinLimit
  ClosureHolds
PROPERTIES
  PackageFirst
