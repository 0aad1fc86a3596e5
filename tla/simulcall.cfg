SPECIFICATION Spec
CONSTANTS
  NoSid = NoSid
  Sids = {s1, s2}
  Stages <- OneSimulcall
  Env = {"rest_error", "late_action"}
SYMMETRY Symmetry
CHECK_DEADLOCK FALSE
INVARIANTS TypeOK AnsweredOrGone
