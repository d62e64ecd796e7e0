CONSTANTS
  plain = plain
  strict = strict
  m1 = m1
  m2 = m2
  None = None
  Configs <- MCConfigs
  Users <- MCUsers
  Certs <- MCCerts
  Landing <- MCLanding
  RemoteCert <- MCRemoteCert
  NeedsCert <- MCNeedsCert
  Invalid = {}
  UsesClock <- MCUsesClock
  StopsWhenEmpty = TRUE
SPECIFICATION LiveSpec
INVARIANTS TypeOK ServesDesired RulesFollowKernel RenewalNotLost
PROPERTIES NoRetryOfFailed RenewalReachesKernel
CHECK_DEADLOCK FALSE
