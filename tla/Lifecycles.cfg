CONSTANTS
  Configs = {"c1", "c2"}
  Nodes = {"n1", "n2"}
  NodeOf <- MCNodeOf
  Managed = {"c1"}
  Landing = {"c2"}
  UserSets <- MCUserSets
  MaxStarts = 3
  MaxRequests = 3
  MaxBytes = 1
  MaxConns = 1
  MaxPort = 3
  Owners = {"a", "b"}
  Wishes <- MCWishes
  SaveOutcomes = {"ok", "fail"}
  Budgets <- MCBudgets
  EditedRules <- MCEdited
  Contents <- MCContents
  MaxEdits = 2
  MaxSignals = 2
  MaxFailures = 1
SPECIFICATION LifecyclesSpec
INVARIANTS LifecyclesTypeOK KernelSettles RulesHold GenerationSound
PROPERTY Progress
CHECK_DEADLOCK FALSE
