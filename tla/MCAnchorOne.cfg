CONSTANTS
  p1 = p1
  s1 = s1
  f1 = f1
  ann = ann
  bob = bob
  cat = cat
  m1 = m1
  m2 = m2
  NoThread = NoThread
  AllUsers = AllUsers
  Procs <- MCProcs
  Threads <- MCThreads
  ProcOf <- MCProcOf
  Schedulers <- MCSchedulers
  Users <- MCUsers
  Msgs <- MCMsgs
  Sender <- MCSender
  Recipient <- MCRecipient
  RevertLimit = 2
  MayReplace = FALSE
  MaxRecords = 4
  MaxTxs = 5
  MaxFaults = 2

SPECIFICATION FairSpec
INVARIANTS AnchoredOnce
PROPERTIES ImplementsAnchorSpec EventuallyConfirmed
CHECK_DEADLOCK FALSE
