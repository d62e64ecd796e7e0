CONSTANTS
  n1 = n1
  xray = xray
  singbox = singbox
  h1 = h1
  h2 = h2
  push = push
  Main = Main
  None = None
  Nodes <- MCNodes
  Kernels <- MCKernels
  Handles <- MCHandles
  Syncs <- MCSyncs
  Starts <- MCBound
  MaxChanges = 1
  MaxSyncs = 1
  MaxFailures = 1
SPECIFICATION LiveSpec
INVARIANTS TypeOK OneService RoutedToOwner ShutdownWaits
PROPERTIES FollowsPanel ShutdownEnds
CHECK_DEADLOCK FALSE
