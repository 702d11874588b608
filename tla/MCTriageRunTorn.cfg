SPECIFICATION Spec
CONSTANTS
  f1 = f1
  f2 = f2
  f3 = f3
  Findings <- MCFindings
  Id <- OwnName
  Sig <- OneFile
  Snippet <- OwnSnippet
  InScope = {f1, f2}
  Workers = 2
  MaxRev = 1
  MaxCrashes = 1
INVARIANT ResumeStarts
