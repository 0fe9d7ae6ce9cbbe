SPECIFICATION StateSpec
CONSTANTS
  Writers = {w1, w2}
  Recoverers = {r}
  Mutations <- DeltaMutations
  Batches <- DeltaBatches
  FirstPhase = "planning"
  AcceptanceIds = {"AC-1"}
  MaxRevision = 3
  None = None
  Null = Null
  a = a
  e = e
  Versions = {1, 2}
  Ids = {a}
  EvidenceIds = {e}
  AcceptanceItems = {acc}
  Reported = {"satisfied"}
  PathSets <- MCPathSets
  History <- MCHistory
  MaxStates = 3
  MaxAcks = 2
INVARIANTS
  ReportedTransitionsAreKept
  DeltaTellsAll
  HandoffIsUnderstood
PROPERTIES
  ImplementsStateChain
