SPECIFICATION RecordsSpec
CONSTANTS
  acc = acc
  Owners = {"claude", "codex"}
  MaxGeneration = 3
  WarmCallLimit = 1
  MaxCalls = 4
  MaxLeases = 3
  Kinds = {"pass", "fail", "diff"}
  Paths = {p}
  Hashes = {h1, h2}
  Gone = Gone
  None = None
  Passes = {r1}
  Items = {acc}
  MaxEdits = 1
  MaxObjects = 2
  MaxPasses = 1
  MaxUpdates = 2
INVARIANTS
  LocalReviewWasEarned
  LeaseTellsItsLineage
  WarmCallsAreBounded
PROPERTY SupportIsCurrent
CHECK_DEADLOCK FALSE
