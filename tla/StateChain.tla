----------------------------- MODULE StateChain -----------------------------
(***************************************************************************)
(* What WORKFLOW_STATE.json and WORKFLOW_EVENTS.jsonl promise together: one *)
(* history that only grows, and a published view that is a whole earlier    *)
(* point of it.  New history is written only on top of a view that is up to *)
(* date, so nobody decides on a state that the history has already left.    *)
(***************************************************************************)
EXTENDS Naturals, Sequences

CONSTANTS Mutations,   \* what one event may change
          None         \* no view is published

VARIABLES history,     \* the mutations recorded so far, in order
          view         \* the history a reader of the state file sees

Init == /\ history = <<>>
        /\ view \in {None, <<>>}

\* Further mutations are recorded, by someone who saw all the earlier ones.
Record == /\ view = history
          /\ history' \in Seq(Mutations)
          /\ Len(history') >= Len(history)
          /\ SubSeq(history', 1, Len(history)) = history
          /\ view' = view

\* The view is brought up to date.
Publish == /\ view' = history
           /\ history' = history

Next == Record \/ Publish

Spec == Init /\ [][Next]_<<history, view>>
=============================================================================
