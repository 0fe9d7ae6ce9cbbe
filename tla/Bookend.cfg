SPECIFICATION FairSpec
CONSTANTS
  Supervisors = {s1}
  Reviewers = {c1}
  Readers = {}
  MaxEpochs = 4
  MaxRevisions = 2
  MaxCheckpoints = 1
  None = None
CHECK_DEADLOCK FALSE
INVARIANTS
  RecoveryHasFreshReceipt
PROPERTIES
  ImplementsLifecycle
  EveryTaskStops
