CONSTANTS
  c1 = c1
  c2 = c2
  p1 = p1
  p2 = p2
  ann = ann
  strong = strong
  weak = weak
  x1 = x1
  x2 = x2
  k1 = k1
  k2 = k2
  None = None
  Consoles <- MCConsoles
  Workers <- MCWorkers
  FullArgon <- MCFullArgon
  Names <- MCNames
  Passwords <- MCPasswords
  Weak <- MCWeak
  NewPasswords <- MCNew
  Keys <- MCKeys
  Tokens <- MCTokens
  MaxLate = 1
  BodyLen = 2

SPECIFICATION Spec
INVARIANTS TypeOK KeyIsMine RowKeepsKey GoodbyeEndsSession BodyIsPrefix
SYMMETRY Swaps
CHECK_DEADLOCK FALSE
