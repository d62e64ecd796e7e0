CONSTANTS
  None = None
  Configs = {c1, c2}
  Users = {u1}
  Modes <- MCModes
  Starts <- MCStarts
  UserPushes <- MCUserPushes
  EventCap = 1
  StatusCap = 1
  Budgets <- MCBudgets
  MaxDials = 1
SPECIFICATION LiveSpec
INVARIANTS TypeOK ETagsCommitted MailboxWakes
PROPERTIES ResyncAnswered Converges
CHECK_DEADLOCK FALSE
