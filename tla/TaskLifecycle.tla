--------------------------- MODULE TaskLifecycle ---------------------------
(***************************************************************************)
(* What the durable record of a Bookend task promises to its readers: whose*)
(* turn it is, and the budgets of the three loops.  Claude gets a turn once*)
(* per epoch, the tools follow each turn of Claude, Codex is asked at most *)
(* once between two turns of Claude, and a closed task stays closed.       *)
(***************************************************************************)
EXTENDS Naturals

CONSTANTS MaxEpochs, MaxRevisions, MaxCheckpoints

VARIABLES
  turn,        \* whose turn it is
  epoch,       \* turns given to Claude
  revisions,   \* reviews that Codex answered with a revision
  checkpoints  \* checkpoints Codex was asked for

vars == <<turn, epoch, revisions, checkpoints>>

Init == turn = "idle" /\ epoch = 0 /\ revisions = 0 /\ checkpoints = 0

GiveTurn ==
  /\ turn = "idle"
  /\ epoch < MaxEpochs
  /\ turn' = "claude"
  /\ epoch' = epoch + 1
  /\ UNCHANGED <<revisions, checkpoints>>

EndTurn ==
  /\ turn = "claude"
  /\ turn' = "tools"
  /\ UNCHANGED <<epoch, revisions, checkpoints>>

AskReview ==
  /\ turn = "tools"
  /\ turn' = "review"
  /\ UNCHANGED <<epoch, revisions, checkpoints>>

AskCheckpoint ==
  /\ turn = "tools"
  /\ checkpoints < MaxCheckpoints
  /\ turn' = "checkpoint"
  /\ checkpoints' = checkpoints + 1
  /\ UNCHANGED <<epoch, revisions>>

Revise ==
  /\ turn = "review"
  /\ revisions < MaxRevisions
  /\ turn' = "idle"
  /\ revisions' = revisions + 1
  /\ UNCHANGED <<epoch, checkpoints>>

Resume ==
  /\ turn \in {"tools", "checkpoint"}
  /\ turn' = "idle"
  /\ UNCHANGED <<epoch, revisions, checkpoints>>

Close ==
  /\ turn \in {"idle", "tools", "review", "checkpoint"}
  /\ turn' = "closed"
  /\ UNCHANGED <<epoch, revisions, checkpoints>>

Next ==
  GiveTurn \/ EndTurn \/ AskReview \/ AskCheckpoint \/ Revise \/ Resume \/ Close

Spec == Init /\ [][Next]_vars

=============================================================================
