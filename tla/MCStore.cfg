CONSTANTS
  m1 = m1
  m2 = m2
  Names <- SomeNames
  Ids <- TwoIds
  MaxMsgs = 2
SPECIFICATION Spec
SYMMETRY Symmetry
INVARIANTS TypeOK IndexAgrees SeenAgrees
