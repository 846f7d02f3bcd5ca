CONSTANTS
  a = a
  b = b
  Two = FALSE
  Nobody = Nobody
  Msgs <- MCMsgs
  Mine <- MCMine
  Polls <- MCPolls
  CanSend = FALSE
  CanDelete = FALSE
  Anchoring = TRUE

SPECIFICATION FairSpec
INVARIANTS ShownOnce
PROPERTIES PollShowsAnswer ViewConverges
CONSTRAINT WithPartner
CHECK_DEADLOCK FALSE
