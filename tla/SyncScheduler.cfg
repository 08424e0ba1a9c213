CONSTANTS
  balance = balance
  nfts = nfts
  Keys = {balance, nfts}
  NoKey = NoKey
  Priority <- MCPriority
  Replaces <- MCReplaces
  Batches <- MCBatches
  Delays <- MCDelays
  Cleans <- MCCleans
  PauseReasons = {panel}
  CriticalReasons = {unlock}
  MaxTasks = 3
  MaxHolds = 1
  MaxAborts = 1
SPECIFICATION FairSpec
CHECK_DEADLOCK FALSE
INVARIANTS
  TypeOK
  OneWriter
  OlderNeverOverwrites
  ResolvedMeansWritten
PROPERTIES
  ImplementsQueue
  EverySubmissionSettles
