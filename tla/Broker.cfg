SPECIFICATION Spec
CONSTANTS
  Calls = {c1, c2, c3}
  Roles = {"codex", "spark"}
  Stages = {"implementation", "final-review"}
  ReservedFor = {"final-review"}
  MaxCalls <- TaskBudget
  CallCap = 1
  Profiles <- TaskProfiles
  None = None
SYMMETRY Symmetry
CHECK_DEADLOCK FALSE
INVARIANTS
  
  OnlyFailedEvidenceIsRetried
