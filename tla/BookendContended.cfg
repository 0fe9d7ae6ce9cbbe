SPECIFICATION Spec
CONSTANTS
  Supervisors = {s1, s2}
  Reviewers = {c1}
  Readers = {r1}
  MaxEpochs = 2
  MaxRevisions = 1
  MaxCheckpoints = 1
  None = None
SYMMETRY Symmetry
CHECK_DEADLOCK FALSE
INVARIANTS
  WakesBoundedByEpochs
PROPERTIES
  WritersNeverOverlap
