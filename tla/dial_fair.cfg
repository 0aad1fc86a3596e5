SPECIFICATION FairSpec
CONSTANTS
  NoSid = NoSid
  Sids = {s1}
  Stages <- OneDial
  Env = {}
CHECK_DEADLOCK FALSE
PROPERTY WaitingCallerIsServed
