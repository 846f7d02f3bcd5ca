CONSTANTS
  p1 = p1
  p2 = p2
  s1 = s1
  s2 = s2
  ann = ann
  bob = bob
  cat = cat
  m1 = m1
  m2 = m2
  NoThread = NoThread
  AllUsers = AllUsers
  Procs <- MCProcs
  Threads <- MCThreads
  ProcOf <- MCProcOf
  Schedulers <- MCSchedulers
  Users <- MCUsers
  Msgs <- MCMsgs
  Sender <- MCSender
  Recipient <- MCRecipient
  RevertLimit = 1
  MayReplace = TRUE
  MaxRecords = 2
  MaxTxs = 3
  MaxFaults = 1

SPECIFICATION Spec
INVARIANTS TypeOK ClaimCovered ConfirmedIsStored
PROPERTIES ConfirmedStays
CHECK_DEADLOCK FALSE
