SPECIFICATION PartSpec
CONSTANTS
  Modes = {"task-card-audit", "execution-cost-estimator"}
  Criteria = {"ac1", "ac2"}
  Runs = {r1, r2}
  Tasks <- MCTasks
  TaskOf <- MCTaskOf
  Evidence <- MCEvidence
  Dispatches = {d1, d2}
  Jobs <- MCJobs
  JobOf <- MCJobOf
  ActorLimit = 2
  Dispatchers = {d1, d2}
  Asked <- MCAsked
SYMMETRY Symmetry
INVARIANTS
  
  HostNeedsAuthority
  LedgerCountsCalls
  FailureIsTheModels
  GateIsBacked
CHECK_DEADLOCK FALSE
