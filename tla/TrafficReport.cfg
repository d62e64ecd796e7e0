CONSTANTS
  UserKeys <- MCUserKeys
  RelayKeys <- MCRelayKeys
  RelayUserKeys = {}
  MaxCum = 2
  MaxSeq = 2
  MaxPushers = 2
SPECIFICATION LiveSpec
INVARIANTS TypeOK Conservation RetryUnchanged CleanExitBilled
PROPERTIES ImplementsBilling EveryBatchSettled ShutdownTerminates
CHECK_DEADLOCK FALSE
