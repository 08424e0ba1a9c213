CONSTANTS
  balance = balance
  token = token
  appchain = appchain
  a1 = a1
  Address = {a1}
  Keys = {balance, token, appchain}
  NoKey = NoKey
  Replaces <- MCReplaces
  Batches <- MCBatches
  Cleans <- MCCleans
  MaxTasks = 3
  MaxAborts = 1
SPECIFICATION CoalescedSpec
CHECK_DEADLOCK FALSE
INVARIANTS
  BuffersOK
PROPERTIES
  AbortReachesBuffers
  NewestStays
  SavedIsWritten
  EveryRequestSettles
