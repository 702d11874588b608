CONSTANTS
  Windows <- MCWindows
  Patterns <- MCPatterns
  Hits <- MCHits
  Refusal <- MCRefusal
  Located <- MCLocated
  Room = 2
  MaxCalls = 3
  MaxTurns = 3
  MaxAsked = 2
  Parallel = 2
SPECIFICATION Spec
INVARIANTS
  QuestionsBounded
  AddedMeansGrown
  DenialOnRecord
PROPERTIES
  WalkEnds
