---------------------------- MODULE ReviewLadder ----------------------------
(***************************************************************************)
(* The deterministic review of a finished run: evaluate-acceptance.py,     *)
(* review-ladder.py and select-review-tier.py.  Pure                       *)
(* operators.  A composed task is [valid, linked]: whether it passes the   *)
(* schema, and which acceptance criteria name a validation.  Diff evidence *)
(* is the set of mechanical failures that can be read off it, a manifest   *)
(* is [missing, verified], remote evidence is the set of criteria it       *)
(* passes, and results give each criterion's validation its status.        *)
(***************************************************************************)
EXTENDS FiniteSets, FirstRule

CONSTANT Criteria           \* the acceptance criteria of a task

ResultStatus == {"passed", "failed", "not-run"}
NoResults == [c \in Criteria |-> "not-run"]
Infrastructure == {"environment", "dependency", "permission", "network",
                   "timeout"}

-----------------------------------------------------------------------------
\* evaluate-acceptance.py
MechanicalFailures(task, manifest, diff) ==
  IF ~task.valid THEN {"invalid_task_schema"}
  ELSE diff \cup IF manifest.missing THEN {"missing_required_artifact"} ELSE {}

RowStatus(task, c, results, manifest, remote) ==
  CASE c \in task.linked /\ results[c] = "passed" -> "satisfied"
    [] c \in task.linked /\ results[c] = "failed" -> "failed"
    [] c \notin task.linked /\ c \in manifest.verified \cup remote -> "satisfied"
    [] OTHER -> "not-evaluated"

EvaluateTask(task, results, manifest, diff, remote) ==
  LET mechanical == MechanicalFailures(task, manifest, diff)
      row == [c \in IF task.valid THEN Criteria ELSE {} |->
                RowStatus(task, c, results, manifest, remote)]
      rows == {row[c] : c \in DOMAIN row}
  IN [status |-> IF mechanical # {} THEN "failed"
                 ELSE IF rows \subseteq {"satisfied"} THEN "passed"
                 ELSE "partial",
      rows |-> row,
      mechanical |-> mechanical,
      semantic |-> "not-evaluated" \in rows]

-----------------------------------------------------------------------------
\* review-ladder.py
Recovery(classification, failures, escalate) ==
  First(<<Rule(classification \in Infrastructure, "none"),
          Rule(escalate \/ failures >= 3, "codex"),
          Rule(classification \in {"compile", "test"} /\ failures < 2, "claude"),
          Otherwise("spark")>>)

InferClassification(acceptance, task) ==
  IF \E c \in DOMAIN acceptance.rows : acceptance.rows[c] = "failed" /\ c \in task.linked
  THEN "test" ELSE "unknown"

EvaluateLadder(task, results, manifest, diff, remote, failures, escalate) ==
  LET acceptance == EvaluateTask(task, results, manifest, diff, remote)
      model == Recovery(InferClassification(acceptance, task), failures, escalate)
      verdict(tier, action, m) ==
        [acceptance |-> acceptance, tier |-> tier, action |-> action, model |-> m]
  IN First(<<
       Rule(acceptance.mechanical # {}, verdict("L0-local", "local-revision", "none")),
       Rule(acceptance.status = "passed", verdict("L0-local", "human-review", "none")),
       Rule(model = "codex", verdict("L2-codex", "codex-review", "codex")),
       Rule(model = "spark", verdict("L1-spark", "spark-review", "spark")),
       Rule(model = "claude", verdict("L0-local", "claude-revision", "claude")),
       Otherwise(verdict("L0-local", "local-or-human", "none"))>>)

-----------------------------------------------------------------------------
\* select-review-tier.py: an acceptance bundle, if there is one, and the lane.
BundleTier(statuses, deep, expanded) ==
  First(<<Rule(deep \/ statuses \cap {"contradictory", "reopened"} # {}, "L2-codex"),
          Rule(expanded \/ statuses \ {"supported"} # {}, "L1-spark"),
          Rule(statuses # {}, "L0-local"), Otherwise("legacy")>>)

SelectTier(assured, codexRequired, bundleTier, certain, codexAvailable) ==
  LET tier == First(<<Rule(assured \/ codexRequired, "L2-codex"),
                      Rule(bundleTier # "legacy", bundleTier),
                      Rule(~certain, "L1-spark"), Otherwise("L0-local")>>)
  IN [tier |-> tier,
      action |-> First(<<
        Rule(tier = "L2-codex" /\ ~codexAvailable, IF assured THEN "stop" ELSE "human-review"),
        Rule(tier = "L2-codex", "codex-review"), Rule(tier = "L1-spark", "spark-review"),
        Otherwise("human-review")>>)]
=============================================================================
