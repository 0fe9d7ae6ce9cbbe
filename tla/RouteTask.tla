------------------------------ MODULE RouteTask ------------------------------
(***************************************************************************)
(* route-task.py with the economy gate of workflow_economics.py: from the  *)
(* facts collected about a task to its lane, its call budget, its owner,   *)
(* the owner's role and whether Spark is asked.  Pure operators over a     *)
(* record of facts (RouteFacts); a threshold the code compares a number    *)
(* with is the fact whether the number passes it.                          *)
(***************************************************************************)
EXTENDS FirstRule

Roles == {"solution-planner", "exploratory-builder", "batch-builder",
          "execution-builder"}

RouteFacts ==
  [risky : BOOLEAN,                \* a high-risk category is yes or unknown
   recovery : BOOLEAN,             \* a failure type, or interrupted
   small : BOOLEAN,                \* at most 2 files and 100 lines
   exact : BOOLEAN,                \* exact_validation
   claudeFirst : BOOLEAN,          \* ownership_profile
   quota : {"normal", "critical"},
   hint : {"none", "claude", "codex"},         \* an explicit owner
   lease : {"none", "claude", "codex"},        \* owner of a validated lease
   closes : BOOLEAN,               \* evidence closes the acceptance
   delegation : {"yes", "no", "absent"},       \* delegation_value
   role : Roles \cup {"none"},     \* claude_role asked for
   optIn : BOOLEAN,                \* solution_planner_opt_in
   readOnly : BOOLEAN,             \* read_only_task
   structured : BOOLEAN,           \* durable_structured_output
   reduces : BOOLEAN,              \* work reduction of at least 0.30
   bounded : BOOLEAN,              \* goal clear, exploration scope bounded
   open : BOOLEAN,                 \* implementation path not clear
   large : BOOLEAN,                \* multi-phase, big repository, >= 4 files
   durable : BOOLEAN,              \* durable_output_required
   auxiliary : BOOLEAN,            \* auxiliary, independent, review bounded
   tiny : BOOLEAN,                 \* clear solution, local context, full review
   estimates : {"absent", "good", "bad"},
   tax : {"none", "verified", "unverified"},   \* handoff_tax
   history : {"none", "unproven", "proves", "veto"},
   sparkRequested : BOOLEAN, deterministic : BOOLEAN,
   checker : BOOLEAN,              \* a checker has explicit value
   bookend : BOOLEAN]

-----------------------------------------------------------------------------
\* workflow_economics.py, delegation_economy_gate
EconomyGate(f) ==
  First(<<Rule(f.delegation = "no" \/ f.history = "veto" \/ f.estimates = "bad", "reject"),
          Rule(f.estimates = "good" /\ f.tax = "unverified", "canary"),
          Rule(f.estimates = "good", "pass"),
          Rule(f.delegation = "yes" /\ f.history = "proves", "pass"),
          Rule(f.delegation = "yes" /\ f.history = "none" /\ f.auxiliary, "canary"),
          Otherwise("unknown")>>)

TaxVeto(f) == f.tax = "verified" /\ f.estimates = "bad"

-----------------------------------------------------------------------------
\* route-task.py
Lane(f) == First(<<Rule(f.risky, "assured"), Rule(f.recovery, "recovery"),
                   Rule(f.small /\ f.exact, "express"), Otherwise("standard")>>)

\* Calls granted to Codex, Claude and Spark.
RouteBudget(f) ==
  LET lane == Lane(f)
      scarce == f.quota = "critical"
  IN [codex |-> CASE lane = "express" -> 0
                  [] lane = "assured" -> IF f.claudeFirst THEN 1 ELSE 2
                  [] OTHER -> IF scarce /\ ~f.claudeFirst THEN 0 ELSE 1,
      claude |-> CASE lane = "express" -> 1 [] lane = "assured" -> 3 [] OTHER -> 2,
      spark |-> CASE lane = "express" -> 0
                  [] scarce /\ (f.claudeFirst \/ lane = "assured") -> 0
                  [] OTHER -> 1]

PlannerCandidate(f) ==
  f.optIn /\ f.structured /\ (f.claudeFirst \/ f.reduces)
    /\ f.bounded /\ f.open /\ f.large
BatchCandidate(f) == f.role = "batch-builder" /\ f.durable /\ f.auxiliary
ExecutionCandidate(f) ==
  f.role = "execution-builder" /\ f.durable /\ (f.claudeFirst \/ f.auxiliary)
ExploratoryCandidate(f) ==
  f.role = "exploratory-builder" /\ f.claudeFirst /\ f.durable /\ f.bounded

InferredRole(f) ==
  LET asked == First(<<
        Rule(f.role \in Roles \ {"solution-planner"}, f.role),
        Rule(PlannerCandidate(f), "solution-planner"),
        Otherwise("execution-builder")>>)
  IN IF f.bookend /\ asked = "solution-planner" THEN "exploratory-builder" ELSE asked

\* The owner the route starts from: an explicit one, else Codex when the
\* evidence closes the acceptance, else the lease's, else accepted history.
LeaseSelected(f) == f.hint = "none" /\ ~f.closes /\ f.lease # "none"
OwnerHint(f) ==
  First(<<Rule(f.hint # "none", f.hint), Rule(f.closes, "codex"),
          Rule(f.lease # "none", f.lease), Rule(f.history = "veto", "codex"),
          Otherwise("none")>>)

\* The owner and role, with the rule that decided.
Ownership(f) ==
  LET hint == OwnerHint(f)
      worth == EconomyGate(f) \in {"pass", "canary"} \/ hint = "claude"
      codex(source) == [owner |-> "codex", role |-> "none", source |-> source]
      claude(role, source) == [owner |-> "claude", role |-> role, source |-> source]
      leased(source) == IF LeaseSelected(f) THEN "continuation-lease" ELSE source
  IN First(<<
       Rule(f.closes \/ f.delegation = "no" \/ hint = "codex",
            codex(First(<<Rule(f.closes /\ f.hint = "none", "evidence-closed"),
                          Rule(f.hint # "none", "explicit"),
                          Otherwise(leased("codex-default"))>>))),
       Rule(f.readOnly /\ ~(f.structured /\ f.reduces), codex("readonly-without-value")),
       Rule(TaxVeto(f) /\ f.hint = "none" /\ ~LeaseSelected(f), codex("handoff-tax-veto")),
       Rule(f.claudeFirst /\ (~f.readOnly \/ PlannerCandidate(f)),
            claude(InferredRole(f), leased(IF hint = "claude" THEN "explicit"
                                           ELSE "claude-first-default"))),
       Rule(PlannerCandidate(f) /\ worth, claude("solution-planner", leased("positive-gate"))),
       Rule((BatchCandidate(f) \/ ExecutionCandidate(f) \/ ExploratoryCandidate(f)) /\ worth,
            claude(f.role, leased("positive-gate"))),
       Rule(hint = "claude",
            claude(IF f.role = "batch-builder" THEN f.role ELSE "execution-builder",
                   leased("explicit"))),
       Otherwise(codex("economy-gate"))>>)

\* Spark is asked for an estimate only when it is requested, nothing has
\* decided the owner deterministically, and Claude is a candidate.
SparkEstimate(f) ==
  /\ f.sparkRequested /\ ~f.closes /\ f.tax # "verified"
  /\ ~(f.deterministic /\ OwnerHint(f) # "none")
  /\ ~(f.delegation = "no" /\ f.small /\ f.exact /\ f.tiny)
  /\ \/ Ownership(f).owner = "claude" \/ f.recovery
     \/ PlannerCandidate(f) \/ BatchCandidate(f)
     \/ ExecutionCandidate(f) \/ ExploratoryCandidate(f)

SinglePass(f) == Lane(f) = "express" /\ f.exact

DelegationMode(f) ==
  LET gate == EconomyGate(f)
      codex == Ownership(f).owner = "codex"
  IN First(<<Rule(codex /\ gate = "reject", "rejected"), Rule(codex, "direct"),
             Rule(f.claudeFirst /\ f.hint = "none", "claude-first"),
             Rule(gate = "canary", "canary"), Rule(gate = "pass", "proven"),
             Rule(f.hint # "none", "explicit"), Otherwise("unproven")>>)

CommunicationMode(f) ==
  First(<<Rule(LeaseSelected(f), "same-model-single-pass"),
          Rule(Ownership(f).owner = "codex", "direct-codex"),
          Otherwise("bookend-owner-convergence")>>)

Route(f) ==
  [lane |-> Lane(f), budget |-> RouteBudget(f), owner |-> Ownership(f).owner,
   role |-> Ownership(f).role, source |-> Ownership(f).source,
   spark |-> SparkEstimate(f), single |-> SinglePass(f), mode |-> DelegationMode(f),
   checker |-> f.checker /\ ~SinglePass(f) /\ DelegationMode(f) # "canary" /\ ~f.closes,
   communication |-> CommunicationMode(f)]
=============================================================================
