CONSTANTS
  Findings <- MCFindings
  Chains <- MCChains
  Answers <- MCAnswers
  Rounds = 2
  ChallengeVerdicts = {"confirmed"}
  ChallengeKinds = {"weakness"}
  Authoritative = FALSE
  ClosuresFinal = {FALSE, TRUE}
SPECIFICATION Spec
CHECK_DEADLOCK FALSE
INVARIANTS
  OnlyDoubtAdded
  UnknownGoesToPerson
  ConfirmedOnPath
  
  MaterialChecked
  NoCodeNoDecision
  ClosedOnAudit
