-------------------------- MODULE AcceptanceReview ---------------------------
(***************************************************************************)
(* From evidence to a review decision: the acceptance items of the         *)
(* workflow state are linked to evidence, build-acceptance-graph.py judges *)
(* them, build-delta-review-packet.py picks what a reviewer has to see, a  *)
(* review receipt classifies it, and the acceptance bundle decides with    *)
(* select-review-tier.py whether any reviewer is needed.  Composed with    *)
(* the evidence store.  A graph stands for its canonical content, which    *)
(* its identity is the hash of.                                            *)
(***************************************************************************)
EXTENDS EvidenceStore

CONSTANTS Items,        \* acceptance identifiers of the workflow state
          MaxUpdates    \* bound: deltas of the workflow state

ASSUME ReviewAssumption == MaxUpdates \in Nat

LOCAL INSTANCE ReviewLadder WITH Criteria <- Items

VARIABLES
  state,      \* the workflow state: its revision and acceptance_status
  graph,      \* the newest acceptance graph
  base,       \* ACCEPTANCE_GRAPH.previous.json, which it was built from
  receipt,    \* the review receipt for the newest graph
  prior,      \* REVIEW_RECEIPT.previous.json, the receipt for its base
  accepted    \* history: items as reviewers accepted them, not reopened since

reviewVars == <<state, graph, base, receipt, prior, accepted>>
vars == <<storeVars, reviewVars>>

Init ==
  /\ StoreInit
  /\ state = [revision |-> 0, item |-> [i \in Items |-> [status |-> "pending", refs |-> {}]]]
  /\ graph = None /\ base = None /\ receipt = None /\ prior = None
  /\ accepted = {}

\* An accepted delta of the workflow state links evidence to items and sets their status.
UpdateState ==
  /\ state.revision < MaxUpdates
  /\ \E item \in [Items -> [status : {"pending", "satisfied"}, refs : SUBSET stored]] :
       item # state.item /\ state' = [revision |-> state.revision + 1, item |-> item]
  /\ UNCHANGED <<storeVars, graph, base, receipt, prior, accepted>>

-----------------------------------------------------------------------------
\* acceptance_graph.py
Assess(o) ==
  CASE o.kind = "fail" -> "contradictory"
    [] o.kind = "pass" -> "supporting"
    [] o.kind = "lexical" -> "lexical-candidate"
    [] OTHER -> "neutral"

Assessed(refs, as) == \E o \in refs : Assess(o) = as

Claims(item) ==
  {c \in {"no-evidence", "no-support", "lexical-only", "contradictory"} :
     CASE c = "no-evidence" -> item.status = "satisfied" /\ item.refs = {}
       [] c = "no-support" -> item.status = "satisfied" /\ ~Assessed(item.refs, "supporting")
       [] c = "lexical-only" -> /\ Assessed(item.refs, "lexical-candidate")
                                /\ ~Assessed(item.refs, "supporting")
       [] OTHER -> Assessed(item.refs, "contradictory")}

Judge(item) ==
  IF Assessed(item.refs, "contradictory") THEN "contradictory"
  ELSE IF item.status = "satisfied" /\ Assessed(item.refs, "supporting") THEN "supported"
  ELSE "unsupported"

EvidencePaths(item) == {o.path : o \in item.refs}
AllRefs(items) == UNION {items[i].refs : i \in Items}

\* Diff hunks that the previous graph did not link change the files they are about.
NewDiffs(previous) ==
  {o \in AllRefs(state.item) \ (IF previous = None THEN {} ELSE AllRefs(previous)) :
     o.kind = "diff"}

Reopened(i, previous, impact) ==
  /\ previous # None /\ previous[i].status = "supported"
  /\ EvidencePaths(previous[i]) \cap impact # {}

GraphItem(i, previous, impact) ==
  LET item == state.item[i]
      reopened == Reopened(i, previous, impact) IN
  [stateStatus |-> item.status, refs |-> item.refs,
   status |-> IF reopened THEN "reopened" ELSE Judge(item),
   claims |-> Claims(item) \cup IF reopened THEN {"path-changed"} ELSE {}]

\* build_graph, as references/review-policy.md has it called: the graph that was the
\* newest becomes the previous one, its receipt the previous receipt.
BuildGraph ==
  \E changed \in SUBSET Paths :
    LET impact == changed \cup {o.path : o \in NewDiffs(graph)} IN
    /\ \A o \in AllRefs(state.item) : Loadable(o)
    /\ graph' = [i \in Items |-> GraphItem(i, graph, impact)]
    /\ base' = graph /\ prior' = receipt
    /\ receipt' = None
    /\ accepted' = {a \in accepted : EvidencePaths(a.item) \cap impact = {}}
    /\ UNCHANGED <<storeVars, state>>

\* A variant: an item that was accepted once is not looked at again.
IncludedUnlessAccepted(i, mode, known) ==
  \/ graph[i].status # "supported"
  \/ i \in known.retry
  \/ mode = "review" /\ i \notin known.accepted

\* build_delta_packet: what the reviewer has to look at.
Included(i, mode, known) ==
  \/ graph[i].status # "supported"
  \/ i \in known.retry
  \/ /\ mode = "review"
     /\ \/ base = None \/ i \notin known.accepted
        \/ base[i] # graph[i]

NoReceipt == [accepted |-> {}, retry |-> {}]

\* The receipts that --receipt may name.
KnownReceipts == {NoReceipt} \cup IF prior = None THEN {} ELSE {prior}

Packet(mode, known) == {i \in Items : Included(i, mode, known)}

\* validate_receipt: bound to the graph of a packet of either mode, a class for every
\* item of the packet and no other; only what the graph supports can be accepted.
\* Conditional and rejected items are both to be looked at again.
Review ==
  /\ graph # None
  /\ \E mode \in {"review", "revision"}, known \in KnownReceipts :
       LET packet == Packet(mode, known) IN
       \E good \in SUBSET {i \in packet : graph[i].status = "supported"} :
         /\ receipt' = [accepted |-> good, retry |-> packet \ good]
         /\ accepted' = accepted \cup {[id |-> i, item |-> graph[i]] : i \in good}
  /\ UNCHANGED <<storeVars, state, graph, base, prior>>

\* _acceptance_index: a packet may be missing; nothing compares it with the graph.
Expanded(packet) ==
  packet \cup {i \in Items : graph[i].status # "supported" \/ graph[i].claims # {}}

DeepReview ==
  \E i \in Items : graph[i].status \in {"contradictory", "reopened"}
                    \/ graph[i].claims # {}

\* build-acceptance-bundle.py, then select-review-tier.py: reads files, changes none.
Tier(packet, assured) ==
  SelectTier(assured, FALSE,
             BundleTier({graph[i].status : i \in Items}, DeepReview, Expanded(packet) # {}),
             TRUE, TRUE).tier

-----------------------------------------------------------------------------
Next ==
  \/ StoreStep /\ UNCHANGED reviewVars
  \/ UpdateState \/ BuildGraph \/ Review

Spec == Init /\ [][Next]_vars

-----------------------------------------------------------------------------
\* A review is skipped ("deterministic evidence sufficient") only for what a reviewer
\* has accepted in exactly this form and whose evidence paths have not been reported
\* changed since: provided the bundle is given the review packet of its graph.
\* (build-acceptance-bundle.py, select-review-tier.py "L0-local"; the packets omit
\* an item because of a receipt for an earlier graph.)
LocalReviewWasEarned ==
  graph # None =>
    \/ \A i \in Items : [id |-> i, item |-> graph[i]] \in accepted
    \/ \A known \in KnownReceipts, assured \in BOOLEAN :
         Tier(Packet("review", known), assured) # "L0-local"

\* Once a complete invalidation run, with no other run and no edit beside it, has
\* looked at the worktree as it is, no graph calls an item supported by evidence
\* about other content, whatever runs died or were applied to other worktrees before.
SupportIsCurrent ==
  [][graph' # graph /\ settled =>
       \A i \in Items : graph'[i].status = "supported" =>
         \A o \in graph'[i].refs : o.hash = context[o.path]]_vars
=============================================================================
