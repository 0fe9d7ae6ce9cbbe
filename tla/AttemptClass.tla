---------------------------- MODULE AttemptClass ----------------------------
(***************************************************************************)
(* classify-claude-attempt.py: what a finished dispatch says of itself     *)
(* (an attempt) is turned into a failure class, a recommended action and   *)
(* whether the failure counts toward a Codex takeover.                     *)
(***************************************************************************)
EXTENDS FirstRule

Attempts ==
  [outcome : {"success", "execution_timeout", "runtime_evidence_error", "other"},
   clean : BOOLEAN,                \* exit code 0 and no semantic error
   report : BOOLEAN,               \* a valid CLAUDE_REPORT
   mismatch : BOOLEAN,             \* the report contradicts the run
   reports : BOOLEAN,              \* the mode's product is its report
   progress : {"none", "acknowledgement", "blocker", "useful"},
   direction : {"unknown", "on-plan", "off-plan"},
   blocker : {"none", "semantic", "other"},
   transport : BOOLEAN,            \* outcome or error text of the network
   approval : BOOLEAN]             \* blocked on an approval

\* changed: the worktree differs from its base.
Useful(x, changed) ==
  \/ changed \/ x.progress = "useful"
  \/ x.report /\ ~x.mismatch /\ x.reports
Transport(x) == x.transport /\ x.outcome # "execution_timeout"
Interacted(x, changed) ==
  Useful(x, changed) \/ x.report \/ x.progress \in {"acknowledgement", "blocker"}

FailureClass(x, changed) ==
  First(<<Rule(x.outcome = "runtime_evidence_error", "control-plane-evidence-error"),
          Rule(x.direction = "off-plan", "direction-deviation"),
          Rule(x.mismatch /\ ~changed, "report-evidence-mismatch"),
          Rule(Useful(x, changed) /\ x.outcome = "success", "none"),
          Rule(Useful(x, changed), "recoverable-evidence"),
          Rule(x.approval, "external-approval-blocker"),
          Rule(x.outcome = "execution_timeout" /\ x.progress # "blocker",
               "model-no-progress"),
          Rule(Transport(x) /\ ~Interacted(x, changed), "transient-transport"),
          Rule(x.progress = "acknowledgement", "acknowledgement-only"),
          Rule(x.clean, "model-no-progress"),
          Otherwise("unclassified-execution-failure")>>)

\* The classes that count toward a takeover.
CountedFailures ==
  {"direction-deviation", "report-evidence-mismatch", "model-no-progress",
   "acknowledgement-only"}

\* Useful work stopped by a semantic question an advisor has not answered yet.
AdvisorEligible(x, changed, advised) ==
  /\ Useful(x, changed) /\ x.direction = "on-plan" /\ x.blocker = "semantic"
  /\ ~Transport(x) /\ ~x.approval /\ ~advised
=============================================================================
