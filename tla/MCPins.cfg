CONSTANTS
  o1 = o1
  o2 = o2
  p1 = p1
  p2 = p2
  x1 = x1
  x2 = x2
  k1 = k1
  k2 = k2
  i1 = i1
  i2 = i2
  None = None
  Owners <- TwoOwners
  Procs <- TwoProcs
  Peers <- TwoPeers
  Keys <- TwoKeys
  Ids <- TwoIds
SPECIFICATION Spec
CONSTRAINT Few
SYMMETRY Symmetry
INVARIANTS TypeOK OneKey OneId NoForeignPins
CHECK_DEADLOCK FALSE
