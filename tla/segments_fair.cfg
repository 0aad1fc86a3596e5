SPECIFICATION FairSpec
CONSTANTS
  MaxSeg = 2
  MaxRequests = 3
  Env = {}
INVARIANTS CallerInNewest NoForeignHangup
PROPERTY TransferSettles
CHECK_DEADLOCK FALSE
