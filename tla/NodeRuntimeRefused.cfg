CONSTANTS
  plain = plain
  strict = strict
  m1 = m1
  m2 = m2
  None = None
  Configs <- MCConfigs
  Users <- MCOneUser
  Certs <- MCCerts
  Landing <- MCLanding
  RemoteCert <- MCRemoteCert
  NeedsCert <- MCNeedsCert
  Invalid = {}
  UsesClock <- MCUsesClock
  StopsWhenEmpty = TRUE
SPECIFICATION Spec
INVARIANT RefusedHasFailed
CHECK_DEADLOCK FALSE
