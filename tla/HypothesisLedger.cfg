SPECIFICATION LedgerSpec
CONSTANTS
  Writers = {w}
  Recoverers = {r}
  Updaters = {u1, u2}
  Mutations <- LedgerMutations
  Batches <- EvidenceBatches
  Requests <- LedgerRequests
  Proposals <- LedgerProposals
  MaxRevisits = 1
  FirstPhase = "planning"
  FirstHash = "start"
  AcceptanceIds = {"AC-1"}
  MaxRevision = 4
  None = None
SYMMETRY Symmetry
INVARIANTS
  LedgerIsTraced
PROPERTIES
  SuccessSynchronizes
