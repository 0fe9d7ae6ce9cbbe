-------------------------- MODULE MCHypothesisLedger --------------------------
(* A small instance of HypothesisLedger: two hypotheses with one statement,    *)
(* rejected on evidence e1 and reopened on evidence e2; a writer registers     *)
(* both before, and e3 whenever it likes.                                      *)
EXTENDS HypothesisLedger, TLC

M(type, id, refs) == [type |-> type, id |-> id, refs |-> refs]

Evidence(e) == M("evidence-added", e, {})
Moved       == M("repository-state-updated", "moved", {})
Reject(h)   == M("hypothesis-rejected", h, {"e1"})
Reopen(h)   == M("hypothesis-reopened", h, {"e2"})

LedgerMutations == {Evidence(e) : e \in {"e1", "e2", "e3"}} \cup {Moved}
                     \cup {Reject(h) : h \in {"h1", "h2"}} \cup {Reopen(h) : h \in {"h1", "h2"}}

EvidenceBatches == {<<Evidence("e1"), Evidence("e2")>>, <<Evidence("e3")>>}

Ask(op, event) ==
  [op |-> op, event |-> event, statement |-> "s", repository |-> "start",
   confirmed |-> TRUE]

LedgerRequests == {Ask("reject", Reject("h1")), Ask("reject", Reject("h2")),
                   Ask("reopen", Reopen("h1"))}

Proposal(statement, refs, related) ==
  [statement |-> statement, like |-> {}, refs |-> refs, repository |-> "start",
   related |-> related]

LedgerProposals == {Proposal("s", {}, {}), Proposal("t", {"e2"}, {"h1"}),
                    [Proposal("t", {}, {}) EXCEPT !.like = {"s"}]}

Symmetry == Permutations(Updaters)
=============================================================================
