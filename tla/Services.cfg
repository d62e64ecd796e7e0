CONSTANTS
  CertConfigs <- MCCertConfigs
  FilePairs <- MCFilePairs
  MaxRenewals = 1
  MaxReconfigures = 3
  MaxTroubles = 1
  NtpServers = {"s1", "s2", "s3"}
  Liars = {"s1"}
  TrueOffset = 1
  WrongOffsets <- MCWrongOffsets
  Interval = 1
  Bounds <- MCBounds
  Consumers = {"n1", "n2"}
  MaxNow = 4
  MaxUses = 2
  ConfFiles <- MCFiles
  Envs <- MCEnvs
  MachineNodes = {1, 2}
  MaxReloads = 1
  CtlBindings <- MCBindings
  CtlFiles <- MCCtlFiles
  Managers = {"systemd"}
  MaxCommands = 3
  MaxMishaps = 2
SPECIFICATION ServicesSpec
INVARIANTS ServicesTypeOK CertSound ClockSound LayoutSound UpgradeSound BindingsSound
CHECK_DEADLOCK FALSE
