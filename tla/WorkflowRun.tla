----------------------------- MODULE WorkflowRun -----------------------------
(***************************************************************************)
(* run-workflow.py: the thirteen phases of a run, several runs of one      *)
(* repository at a time.  The runs share the two Spark files and the       *)
(* economics history; everything else is in a run's own directory.         *)
(*                                                                         *)
(* The reads and the writes of the shared files are steps of their own:    *)
(* Spark runs for seconds between them, and other runs go on meanwhile.    *)
(***************************************************************************)
EXTENDS SparkAvailability, ReviewLadder, RouteTask

CONSTANTS Runs,             \* invocations of the workflow
          Tasks,            \* names of what a run may be asked to do
          TaskOf,           \* each task with the flags of the run (see TaskShape)
          Evidence          \* what evidence-builder.py may find (see EvidenceShape)

TaskShape(t) == /\ {"facts", "linked", "blocking", "execute", "balanced",
                     "bookend", "authority", "gate", "context", "helper"} = DOMAIN t
                /\ t.facts \in RouteFacts /\ t.linked \subseteq Criteria
                /\ \A flag \in DOMAIN t \ {"facts", "linked"} : t[flag] \in BOOLEAN
EvidenceShape(e) == /\ {"results", "manifest", "diff"} = DOMAIN e
                    /\ e.results \in [Criteria -> ResultStatus]
                    /\ e.manifest.missing \in BOOLEAN
                    /\ e.manifest.verified \subseteq Criteria
                    /\ e.diff \subseteq {"scope_violation", "forbidden_path_modified"}
ASSUME RunInputs == /\ \A t \in Tasks : TaskShape(TaskOf[t])
                    /\ \A e \in Evidence : EvidenceShape(e)

VARIABLES phase,            \* where each run is
          task,             \* the task and the flags of each run
          attempts,         \* Spark attempts of each run: the environments
          calls,            \* model calls of each run that ended well
          evidence,         \* evidence of each run, or NoEvidence
          acceptance, ladder,   \* verdicts of each run, or "none"
          result,           \* result.json of each run
          history           \* runs in economics-history.jsonl

runVars == <<phase, task, attempts, calls, evidence, acceptance, ladder, result, history>>

NoEvidence == [kind |-> "none"]
NoResult == [status |-> "missing"]

-----------------------------------------------------------------------------
\* What route-task.py says of the run's task; bookend ownership is a fact.
Routes == [t \in Tasks |-> Route([TaskOf[t].facts EXCEPT !.bookend = TaskOf[t].bookend])]
Routing(r) == Routes[task[r]]

\* execution-plan.json: is Spark asked, and in which mode.
SparkInvoked(r) == /\ Routing(r).owner = "claude" /\ Routing(r).lane # "express"
                   /\ Routing(r).budget.spark > 0
                   /\ ~TaskOf[task[r]].blocking /\ TaskOf[task[r]].gate
SparkMode(r) == IF Routing(r).spark THEN "execution-cost-estimator" ELSE "task-card-audit"

\* A variant: the ladder alone decides.
FinalDecisionOfLadder(r, status) ==
  IF status = "completed" /\ ladder[r] = "L0-local" THEN "accept" ELSE "escalate"

FinalDecision(r, status) ==
  First(<<Rule(TaskOf[task[r]].blocking /\ ~TaskOf[task[r]].bookend, "split-required"),
          Rule(status = "completed" /\ ladder[r] = "L0-local",
               IF acceptance[r] = "passed" THEN "accept" ELSE "human-review"),
          Rule(status = "completed", "escalate"),
          Rule(status = "routed", IF Routing(r).owner = "codex" THEN "codex-fast-path"
                                  ELSE "claude-dispatch-ready"),
          Otherwise("failed")>>)

Goto(r, p) == phase' = [phase EXCEPT ![r] = p]

\* write_result: the last step of a run that is not killed.
Finish(r, status, failure) ==
  /\ Goto(r, "done")
  /\ result' = [result EXCEPT ![r] =
       [status |-> status, decision |-> FinalDecision(r, status), failure |-> failure]]

-----------------------------------------------------------------------------
Start(r) == /\ phase[r] = "idle" /\ Goto(r, "setup")
            /\ \E t \in Tasks : task' = [task EXCEPT ![r] = t]
            /\ UNCHANGED <<attempts, calls, evidence, acceptance, ladder, result, history, sparkVars>>

\* phase_lint, compose, validate, facts, route, context, plan: nothing in them
\* is shared, so they are one step; any of them may raise.
SetupPhases(r) ==
  /\ phase[r] = "setup" /\ Goto(r, "dispatch")
  /\ UNCHANGED <<task, attempts, calls, evidence, acceptance, ladder, result, history, sparkVars>>

PhaseFails(r) ==
  /\ phase[r] \in {"setup", "evidence", "acceptance", "review-ladder", "handoff", "ledger"}
  /\ Finish(r, "failed", phase[r])
  /\ UNCHANGED <<task, attempts, calls, evidence, acceptance, ladder, history, sparkVars>>

\* phase_dispatch up to the Spark preflight: split, Codex's task, preview.
Dispatch(r) ==
  /\ phase[r] = "dispatch"
  /\ LET t == TaskOf[task[r]]
         stops == \/ t.blocking /\ ~t.bookend
                  \/ Routing(r).owner = "codex"
                  \/ ~t.execute
     IN Goto(r, First(<<Rule(stops, "routed-ledger"), Rule(SparkInvoked(r), "spark"),
                        Otherwise("claude")>>))
  /\ UNCHANGED <<task, attempts, calls, evidence, acceptance, ladder, result, history, sparkVars>>

\* Spark is skipped: circuit open, source root not verified, helper missing.
\* A missing helper opens the circuit, unless it is open already.
SparkSkipped(r) ==
  /\ phase[r] = "spark"
  /\ \/ CircuitOpen(SparkMode(r)) \/ ~TaskOf[task[r]].context
     \/ ~TaskOf[task[r]].helper /\ ~(CachedHost /\ ~TaskOf[task[r]].authority)
  /\ circuit' = IF ~CircuitOpen(SparkMode(r)) /\ ~TaskOf[task[r]].helper
                THEN CircuitFile(SparkMode(r), FALSE) ELSE circuit
  /\ Goto(r, "claude")
  /\ UNCHANGED <<task, attempts, calls, evidence, acceptance, ladder, result, history, hostCache>>

\* The cache asks for the host and this run may not use it: exit code 75.
SparkNeedsHost(r) ==
  /\ phase[r] = "spark" /\ ~CircuitOpen(SparkMode(r)) /\ TaskOf[task[r]].context
  /\ CachedHost /\ ~TaskOf[task[r]].authority
  /\ Finish(r, "failed", "needs-host-execution")
  /\ UNCHANGED <<task, attempts, calls, evidence, acceptance, ladder, history, sparkVars>>

SparkStarts(r) ==
  /\ phase[r] = "spark" /\ ~CircuitOpen(SparkMode(r)) /\ TaskOf[task[r]].context /\ TaskOf[task[r]].helper
  /\ CachedHost => TaskOf[task[r]].authority
  /\ attempts' = [attempts EXCEPT ![r] = Append(@, IF CachedHost THEN "host" ELSE "auto")]
  /\ Goto(r, "spark-running")
  /\ UNCHANGED <<task, calls, evidence, acceptance, ladder, result, history, sparkVars>>

\* The attempt asks for the host; with authority there is one retry on it.
SparkHandsOff(r) ==
  /\ phase[r] = "spark-running"
  /\ hostCache' = HostFile("host-required")
  /\ IF TaskOf[task[r]].authority
     THEN /\ attempts' = [attempts EXCEPT ![r] = Append(@, "host")]
          /\ Goto(r, "spark-retry") /\ UNCHANGED result
     ELSE /\ Finish(r, "failed", "needs-host-execution") /\ UNCHANGED attempts
  /\ UNCHANGED <<task, calls, evidence, acceptance, ladder, history, circuit>>

\* The attempt, or the retry, ends: success, failure or timeout.
SparkEnds(r) ==
  /\ phase[r] \in {"spark-running", "spark-retry"}
  /\ \E ok \in BOOLEAN :
       /\ circuit' = CircuitFile(SparkMode(r), ok)
       /\ Goto(r, IF attempts[r][Len(attempts[r])] = "host"
                  THEN IF ok THEN "spark-host-ok" ELSE "spark-host-bad" ELSE "claude")
       /\ calls' = IF ok THEN [calls EXCEPT ![r] = @ \cup {"spark"}] ELSE calls
  /\ UNCHANGED <<task, attempts, evidence, acceptance, ladder, result, history, hostCache>>

\* The second file: what the host attempt says of the host.
SparkRemembers(r) ==
  /\ phase[r] \in {"spark-host-ok", "spark-host-bad"}
  /\ hostCache' = HostFile(IF phase[r] = "spark-host-ok" THEN "host-available"
                           ELSE "host-suspected-unavailable")
  /\ Goto(r, "claude")
  /\ UNCHANGED <<task, attempts, calls, evidence, acceptance, ladder, result, history, circuit>>

-----------------------------------------------------------------------------
\* dispatch-to-claude.sh returns.
ClaudeSucceeds(r) ==
  /\ phase[r] = "claude"
  /\ calls' = [calls EXCEPT ![r] = @ \cup {"claude"}]
  /\ IF Routing(r).role = "solution-planner"
     THEN Goto(r, "routed-ledger") /\ UNCHANGED result
     ELSE IF TaskOf[task[r]].balanced THEN Finish(r, "completed", "none")
     ELSE Goto(r, "evidence") /\ UNCHANGED result
  /\ UNCHANGED <<task, attempts, evidence, acceptance, ladder, history, sparkVars>>

ClaudeFails(r) ==
  /\ phase[r] = "claude" /\ Finish(r, "failed", "dispatch")
  /\ UNCHANGED <<task, attempts, calls, evidence, acceptance, ladder, history, sparkVars>>

BuildEvidence(r) ==
  /\ phase[r] = "evidence" /\ Goto(r, "acceptance")
  /\ \E e \in Evidence : evidence' = [evidence EXCEPT ![r] = e]
  /\ UNCHANGED <<task, attempts, calls, acceptance, ladder, result, history, sparkVars>>

Composed(r) == [valid |-> TRUE, linked |-> TaskOf[task[r]].linked]

Accept(r) ==
  /\ phase[r] = "acceptance" /\ Goto(r, "review-ladder")
  /\ acceptance' = [acceptance EXCEPT ![r] =
       EvaluateTask(Composed(r), evidence[r].results, evidence[r].manifest,
                    evidence[r].diff, {}).status]
  /\ UNCHANGED <<task, attempts, calls, evidence, ladder, result, history, sparkVars>>

\* The ladder is given no validation results and no diff evidence.
ReviewTier(r) == EvaluateLadder(Composed(r), NoResults, evidence[r].manifest, {}, {}, 1,
                                Routing(r).lane = "assured").tier

Review(r) ==
  /\ phase[r] = "review-ladder" /\ Goto(r, "handoff")
  /\ ladder' = [ladder EXCEPT ![r] = ReviewTier(r)]
  /\ UNCHANGED <<task, attempts, calls, evidence, acceptance, result, history, sparkVars>>

Handoff(r) ==
  /\ phase[r] = "handoff" /\ Goto(r, "ledger")
  /\ UNCHANGED <<task, attempts, calls, evidence, acceptance, ladder, result, history, sparkVars>>

\* phase_ledger: an accepted run goes into the economics history, then the
\* rest of the phase may still fail (Finalize).
Ledger(r) ==
  /\ phase[r] = "ledger" /\ Goto(r, "finalization")
  /\ history' = IF TaskOf[task[r]].execute /\ acceptance[r] = "passed"
                     /\ FinalDecision(r, "completed") = "accept"
                THEN history \cup {r} ELSE history
  /\ UNCHANGED <<task, attempts, calls, evidence, acceptance, ladder, result, sparkVars>>

Finalize(r) ==
  /\ phase[r] = "finalization"
  /\ \/ Finish(r, "completed", "none") \/ Finish(r, "failed", "ledger")
  /\ UNCHANGED <<task, attempts, calls, evidence, acceptance, ladder, history, sparkVars>>

\* The ledger of a run that stopped at its dispatch; an error of it is not
\* caught, and the run ends without a result.
RoutedLedger(r) ==
  /\ phase[r] = "routed-ledger"
  /\ \/ Finish(r, "routed", "none")
     \/ Goto(r, "died") /\ UNCHANGED result
  /\ UNCHANGED <<task, attempts, calls, evidence, acceptance, ladder, history, sparkVars>>

\* A run that is killed stops where it is; no fairness makes it go on.
-----------------------------------------------------------------------------
RunInit == /\ phase = [r \in Runs |-> "idle"]
           /\ task = [r \in Runs |-> CHOOSE t \in Tasks : TRUE]
           /\ attempts = [r \in Runs |-> <<>>]
           /\ calls = [r \in Runs |-> {}]
           /\ evidence = [r \in Runs |-> NoEvidence]
           /\ acceptance = [r \in Runs |-> "none"]
           /\ ladder = [r \in Runs |-> "none"]
           /\ result = [r \in Runs |-> NoResult]
           /\ history = {}

RunStep(r) == \/ Start(r) \/ SetupPhases(r) \/ PhaseFails(r) \/ Dispatch(r)
              \/ SparkSkipped(r) \/ SparkNeedsHost(r) \/ SparkStarts(r)
              \/ SparkHandsOff(r) \/ SparkEnds(r) \/ SparkRemembers(r)
              \/ ClaudeSucceeds(r) \/ ClaudeFails(r) \/ BuildEvidence(r)
              \/ Accept(r) \/ Review(r) \/ Handoff(r) \/ Ledger(r)
              \/ Finalize(r) \/ RoutedLedger(r)
=============================================================================
