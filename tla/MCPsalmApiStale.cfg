SPECIFICATION Spec
CONSTANTS
  a1 = a1
  a2 = a2
  m1 = m1
  m2 = m2
  u1 = u1
  Askers = {a1, a2}
  Prefetcher = prefetch
  Methods = {m1, m2}
  Functions = {m1, m2}
  Wants <- MCWants
  Bad = {u1}
  Telling = FALSE
  MaxUnreadable = 2
  MaxParallel = 2
  MaxFails = 0
INVARIANT UnreadableFileCostsNobody
