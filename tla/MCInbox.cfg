CONSTANTS
  a = a
  b = b
  Two = TRUE
  Nobody = Nobody
  Msgs <- MCMsgs
  Mine <- MCMine
  Polls <- MCPolls
  CanSend = TRUE
  CanDelete = TRUE
  Anchoring = TRUE

SPECIFICATION Spec
INVARIANTS TypeOK RevokedIsTrue KnownIsShown
SYMMETRY Swaps
CONSTRAINT Few
CHECK_DEADLOCK FALSE
