CONSTANTS
  None = None
  Configs = {c1, c2}
  Users = {}
  Modes <- MCPush
  Starts <- MCStarts
  UserPushes <- MCUserPushes
  EventCap = 1
  StatusCap = 1
  Budgets <- MCOne
  MaxDials = 1
SPECIFICATION LiveSpec
PROPERTY PollsHeal
CHECK_DEADLOCK FALSE
