SPECIFICATION Spec
CONSTANTS
  MaxSeg = 2
  MaxRequests = 2
  Env = {"rest_error", "late_join", "overlap", "early_status"}
INVARIANT SegmentChain
CHECK_DEADLOCK FALSE
