CONSTANTS
  u1 = u1
  u2 = u2
  u3 = u3
  m1 = m1
  m2 = m2
  t1 = t1
  None = None
  MaxTime = 2
  Users <- ThreeUsers
  Ids <- TwoIds
  Texts <- MCTexts
SPECIFICATION Spec
SYMMETRY Symmetry
INVARIANTS TypeOK ShownText ForwardFaithful ForwardOpens
PROPERTIES ViewIsListing NotAfterTold
CHECK_DEADLOCK FALSE
