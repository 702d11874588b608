SPECIFICATION Spec
\* A run may end before a finding asks anything more.
CHECK_DEADLOCK FALSE
CONSTANTS
  w1 = w1
  w2 = w2
  main = main
  Workers <- MCWorkers
  Main = main
  Functions <- MCFunctions
  Resolved <- MCResolved
  Projects <- MCProjects
  MaxAsked = 2
  MaxFaults = 1
INVARIANTS
  AnswersTrue
  OneEvaluation
PROPERTIES
  FlightKept
  EveryQuestionEnds
