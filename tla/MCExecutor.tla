----------------------------- MODULE MCExecutor -----------------------------
(***************************************************************************)
(* Workflow runs and budgeted dispatches in one repository: WorkflowRun    *)
(* and EfficientDispatch act on the same two Spark files.                  *)
(*                                                                         *)
(* The small instance: two runs, two dispatches, any two of them at a      *)
(* time; tasks for Claude (with and without host authority), for Codex,    *)
(* for a planner, in preview, and one that is too big.  A behaviour is     *)
(* one of these, or of two dispatches that share what they learn of the    *)
(* API.                                                                    *)
(***************************************************************************)
EXTENDS WorkflowRun, EfficientDispatch, ApiAvailability, TLC

CONSTANT ActorLimit         \* bound: runs and dispatches that are started
ASSUME ActorBound == ActorLimit \in Nat

executorVars == <<runVars, dispatchVars, sparkVars>>

Room == Cardinality({r \in Runs : phase[r] # "idle"})
          + Cardinality({d \in Dispatches : step[d] # "idle"}) < ActorLimit

ExecutorInit == /\ RunInit /\ DispatchInit
                /\ hostCache = NoFile /\ circuit = NoFile

RunMoves(r) == RunStep(r) /\ (phase[r] = "idle" => Room) /\ UNCHANGED dispatchVars
DispatchMoves(d) == DispatchStep(d) /\ (step[d] = "idle" => Room) /\ UNCHANGED runVars

ExecutorNext ==
  \/ \E r \in Runs : RunMoves(r)
  \/ \E d \in Dispatches : DispatchMoves(d)
  \/ \E j \in Jobs : Prepare(j) /\ UNCHANGED runVars
  \/ ExpireHost /\ UNCHANGED <<runVars, dispatchVars>>
  \/ ExpireCircuit /\ UNCHANGED <<runVars, dispatchVars>>

ExecutorSpec == ExecutorInit /\ [][ExecutorNext]_executorVars

-----------------------------------------------------------------------------

(* A run that decides "accept", and every run in the economics history, is one *)
(* whose Claude call succeeded and whose evidence satisfies both the           *)
(* acceptance and the review ladder, inside the scope (run-workflow.py         *)
(* _final_decision, phase_ledger).                                             *)
AcceptIsEarned ==
  \A r \in Runs :
    (result[r] # NoResult /\ result[r].decision = "accept") \/ r \in history
      => /\ TaskOf[task[r]].execute /\ "claude" \in calls[r]
         /\ evidence[r] # NoEvidence
         /\ evidence[r].diff = {} /\ ~evidence[r].manifest.missing
         /\ Criteria \subseteq evidence[r].manifest.verified

(* No Spark process runs on the host without the caller's authority, a run     *)
(* makes at most one attempt and one retry, and the retry is on the host; a    *)
(* run or a dispatch that asked for the host and has no authority for it has   *)
(* not started Claude (run-workflow.py phase_dispatch, dispatch-efficient.py). *)
HostNeedsAuthority ==
  /\ \A r \in Runs :
       /\ "host" \in {attempts[r][i] : i \in DOMAIN attempts[r]} => TaskOf[task[r]].authority
       /\ Len(attempts[r]) <= 2
       /\ Len(attempts[r]) = 2 => attempts[r][2] = "host"
       /\ result[r] # NoResult /\ result[r].failure = "needs-host-execution"
            => calls[r] = {}
  /\ \A d \in Dispatches :
       /\ "host" \in {tries[d][i] : i \in DOMAIN tries[d]} => hostAuthority[d]
       /\ step[d] = "exit 75" => d \notin started

(* A dispatch that returns has exactly one row in the call ledger when it      *)
(* started Claude, and none when it did not; only one that was killed or is    *)
(* still running has started Claude without a row (dispatch-efficient.py main).*)
LedgerCountsCalls ==
  \A d \in Dispatches :
    LET own == Cardinality({k \in DOMAIN rows : rows[k] = d})
    IN /\ step[d] \in Returned => own = IF d \in started THEN 1 ELSE 0
       /\ own <= 1 /\ (own = 1 => d \in started)

-----------------------------------------------------------------------------

VARIABLE part     \* which of the two this behaviour is about

Ordinary ==
  [risky |-> FALSE, recovery |-> FALSE, small |-> FALSE, exact |-> FALSE,
   claudeFirst |-> TRUE, quota |-> "normal", hint |-> "none", lease |-> "none",
   closes |-> FALSE, delegation |-> "absent", role |-> "none", optIn |-> FALSE,
   readOnly |-> FALSE, structured |-> FALSE, reduces |-> FALSE, bounded |-> FALSE,
   open |-> FALSE, large |-> FALSE, durable |-> FALSE, auxiliary |-> FALSE,
   tiny |-> FALSE, estimates |-> "absent", tax |-> "none", history |-> "none",
   sparkRequested |-> FALSE, deterministic |-> FALSE, checker |-> FALSE,
   bookend |-> FALSE]
Tiny == [Ordinary EXCEPT !.small = TRUE, !.exact = TRUE]
Estimated == [Ordinary EXCEPT !.sparkRequested = TRUE]
ForCodex == [Ordinary EXCEPT !.hint = "codex"]
Planning == [Ordinary EXCEPT !.optIn = TRUE, !.structured = TRUE, !.bounded = TRUE,
                             !.open = TRUE, !.large = TRUE]
Canary == [Ordinary EXCEPT !.claudeFirst = FALSE, !.hint = "claude",
                           !.estimates = "good", !.tax = "unverified"]

Plain == [facts |-> Ordinary, linked |-> {}, blocking |-> FALSE, execute |-> TRUE,
          balanced |-> FALSE, bookend |-> FALSE, authority |-> FALSE, gate |-> TRUE,
          context |-> TRUE, helper |-> TRUE]

MCTaskOf ==
  [plain |-> Plain,
   estimate |-> [Plain EXCEPT !.facts = Estimated, !.authority = TRUE, !.linked = {"ac1"}],
   codex |-> [Plain EXCEPT !.facts = ForCodex],
   planner |-> [Plain EXCEPT !.facts = Planning, !.gate = FALSE],
   tiny |-> [Plain EXCEPT !.facts = Tiny, !.balanced = TRUE],
   big |-> [Plain EXCEPT !.blocking = TRUE],
   nohelper |-> [Plain EXCEPT !.helper = FALSE, !.context = FALSE]]
MCTasks == DOMAIN MCTaskOf

Found(results, verified, diff) ==
  [results |-> results, diff |-> diff, manifest |-> [missing |-> FALSE, verified |-> verified]]
Passed == [c \in Criteria |-> "passed"]
MCEvidence ==
  {Found(NoResults, Criteria, {}), Found(Passed, Criteria, {}),
   Found(NoResults, Criteria, {"scope_violation"})}

J(id, facts) ==
  [id |-> id, key |-> "k", facts |-> facts, within |-> TRUE, gate |-> "auto"]
MCJobOf == [canary |-> J("a", Canary), over |-> [J("a", Ordinary) EXCEPT !.within = FALSE]]
MCJobs == DOMAIN MCJobOf

\* The route learned, one named, no gate but a probe, and no probe of a silent run.
Usual == [route |-> "direct", learns |-> TRUE, required |-> TRUE, mode |-> "adaptive",
          profile |-> TRUE]
MCAsked ==
  {Usual, [Usual EXCEPT !.route = "inherit", !.learns = FALSE, !.profile = FALSE],
   [Usual EXCEPT !.route = "inherit", !.learns = FALSE, !.required = FALSE, !.mode = "always"],
   [Usual EXCEPT !.mode = "off", !.profile = FALSE]}

PartInit == part \in {"executor", "api"} /\ ExecutorInit /\ ApiInit
PartNext ==
  \/ part = "executor" /\ ExecutorNext /\ UNCHANGED <<part, apiVars>>
  \/ part = "api" /\ ApiNext /\ UNCHANGED <<part, executorVars>>
PartSpec == PartInit /\ [][PartNext]_<<part, executorVars, apiVars>>

\* (Dispatchers is Dispatches.)
Symmetry == Permutations(Runs) \cup Permutations(Dispatches)
=============================================================================
