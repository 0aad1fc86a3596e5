SPECIFICATION Spec
CONSTANTS
  NoSid = NoSid
  Sids = {s1, s2}
  Stages <- TwoRoundRobin
  Env = {}
SYMMETRY Symmetry
CHECK_DEADLOCK FALSE
PROPERTY StageAdvances
