CONSTANTS
  a = a
  b = b
  Two = FALSE
  Nobody = Nobody
  Msgs <- MCMsgs
  Mine <- MCMine
  Polls <- MCPolls
  CanSend = FALSE
  CanDelete = TRUE
  Anchoring = TRUE

SPECIFICATION Spec
PROPERTIES PatchInPlace
CONSTRAINT WithPartner
CHECK_DEADLOCK FALSE
