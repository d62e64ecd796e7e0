CONSTANTS
  MaxPort = 3
  Owners = {"a", "b"}
  Wishes <- MCWishes
  SaveOutcomes = {"ok", "fail", "unsynced"}
  Budgets <- MCAmple
  EditedRules <- MCEdited
SPECIFICATION Spec
INVARIANT Recorded
CHECK_DEADLOCK FALSE
