SPECIFICATION LifeSpec
CONSTANTS
  Dispatches = {d0, d1, d2}
  FreshDispatch = d0
  Approvals = {a1, a2}
  Paths = {p}
  MaxVersion = 2
  Outcomes <- MCOutcomes
  None = None
  Tasks = {t}
  Cleaners = {c1, c2}
  MaxHead = 1
  NoReceipt = NoReceipt
  Questions = {q1}
  Places = {x1, x2}
  Scopes <- MCScopes
  MaxProofs = 1
  MaxWrites = 2
  NoFile = NoFile
SYMMETRY Symmetry
INVARIANTS
  OneStartPerApproval
  
  RemovalWasEarned
  BundleIsPreserved
  ScopeWasAdvised
CHECK_DEADLOCK FALSE
