CONSTANTS
  n1 = n1
  xray = xray
  singbox = singbox
  h1 = h1
  h2 = h2
  push = push
  Main = Main
  None = None
  Nodes <- MCNodes
  Kernels <- MCOneKernel
  Handles <- MCHandles
  Syncs <- MCSyncs
  Starts <- MCEmpty
  MaxChanges = 1
  MaxSyncs = 1
  MaxFailures = 1
SPECIFICATION LiveSpec
PROPERTY HealthCatchesUp
CHECK_DEADLOCK FALSE
