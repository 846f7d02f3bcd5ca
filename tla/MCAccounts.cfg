CONSTANTS
  p1 = p1
  t1 = t1
  t2 = t2
  c1 = c1
  c2 = c2
  q1 = q1
  q2 = q2
  k1 = k1
  k2 = k2
  None = None
  Procs <- MCProcs
  Tabs <- MCTabs
  Calls <- MCCalls
  Passwords <- MCPasswords
  Tokens <- MCTokens

SPECIFICATION Spec
INVARIANTS TypeOK SessionsSurvive
PROPERTIES LoginGivesKey
SYMMETRY Swaps
CHECK_DEADLOCK FALSE
