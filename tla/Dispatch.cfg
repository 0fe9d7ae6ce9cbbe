SPECIFICATION DispatchSpec
CONSTANTS
  kept = kept
  added = added
  Files <- MCFiles
  Tracked <- MCTracked
  a = a
  b = b
  BaseContent <- MCBaseContent
  FullReplacement = {}
  Writers = {w1, w2}
  Chunks = {a, b, bad}
  Bad = bad
  Openings <- MCOpenings
  Hole = hole
  Absent = Absent
  MaxLen = 2
  MaxDispatches = 2
  MaxCalls = 2
  s = s
  t1 = t1
  t2 = t2
  i1 = i1
  i2 = i2
  SourcePaths <- MCSource
  TestPaths <- MCTests
  AcceptanceIds = {i1, i2}
  Cards <- MCCards
  MaxFaults = 1
  MaxLeft = 1
  Unsaid = Unsaid
  MaxEvents = 2
  Executions = {"waiting-tool", "implementation-idle"}
  Sights = {"same", "hidden"}
INVARIANTS
  ProductIsValidated
  ReadyIsBacked
  PassedContractWasRun
  NoBoundaryIsLost
  TerminalIsOver
CHECK_DEADLOCK FALSE
