SPECIFICATION LspSpec
CONSTANTS
  c1 = c1
  c2 = c2
  d = d
  Callers = {c1, c2}
  Doc <- OneDoc
  MaxRow = 2
  MaxPauses = 1
  MaxRestarts = 2
  MaxAsks = 4
  MaxDeaths = 1
INVARIANTS
  
  NeverWedged
PROPERTIES
  RestartEnds
  QuestionsEnd
CHECK_DEADLOCK FALSE
