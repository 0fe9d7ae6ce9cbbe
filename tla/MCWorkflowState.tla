--------------------------- MODULE MCWorkflowState ---------------------------
(***************************************************************************)
(* TLC instance of the Workflow State: its files, with batches of one and  *)
(* two mutations that depend on each other, so that the order and the base *)
(* of a delta matter; and the handoffs between two of its states, which    *)
(* look into what a mutation changes.  A behaviour is one of either.       *)
(*                                                                         *)
(* The state a receiver of a handoff holds has a decision, a question and  *)
(* a rejected hypothesis that later mutations can change, withdraw and     *)
(* renew.                                                                  *)
(***************************************************************************)
EXTENDS WorkflowState, Handoff

CONSTANTS a, e
VARIABLE part      \* "files" or "handoff"

M(type, id, refs) == [type |-> type, id |-> id, refs |-> refs]

AskQuestion == M("question-opened", "q", {})
Answer      == M("question-resolved", "q", {})
Evidence    == M("evidence-added", "e", {})
Implement   == M("phase-changed", "implementation", {})
Decide      == M("decision-accepted", "d", {"e"})
Freeze      == M("decision-frozen", "d", {})
AcceptItem  == M("acceptance-updated", "AC-1", {})

DeltaMutations == {AskQuestion, Answer, Evidence, Implement, Decide, Freeze, AcceptItem}

DeltaBatches == {<<AskQuestion>>, <<Answer, Evidence>>, <<Evidence, Decide>>,
                 <<Freeze>>, <<AcceptItem, Implement>>}

MCPathSets == {{"src"}, {"src", "doc"}}

Evident == [InitialContent({a}, {"src"}) EXCEPT !.evidence = {e}]
Decided ==
  [Evident EXCEPT
     !.decisions = With(@, a, [text |-> 1, frozen |-> FALSE, refs |-> {e}]),
     !.questions = With(@, a, 1),
     !.rejected = With(@, a, [text |-> 1, refs |-> {e}])]
MCHistory == {<<Decided>>}

StateInit == /\ part \in {"files", "handoff"} /\ Init /\ HandoffInit
             /\ part = "handoff" => state # None

StateNext ==
  \/ part = "files" /\ Next /\ UNCHANGED <<part, handoffVars>>
  \/ part = "handoff" /\ HandoffNext /\ UNCHANGED <<part, vars>>

StateSpec == StateInit /\ [][StateNext]_<<part, vars, handoffVars>>
=============================================================================
