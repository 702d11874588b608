CONSTANTS
  a = a
  b = b
  Workers <- MCWorkers
  MaxRetries = 1
  MaxTurns = 2
  Rounds = 1
  Ceiling = 2
SPECIFICATION Spec
INVARIANTS
  RefusalEndsCalls
  OneTurnOver
PROPERTY
  EveryFindingEnds
