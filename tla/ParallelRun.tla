----------------------------- MODULE ParallelRun -----------------------------
(***************************************************************************)
(* run-parallel-loop.sh: after validation one loop collects                *)
(* finished dispatches and launches the tasks that are ready, at most      *)
(* MaxConcurrency at a time, behind a canary that has to pass first.  A    *)
(* dispatch runs in a background shell that writes its exit status to a    *)
(* file after the gate of parallel-task-gate.py, and that may die before.  *)
(***************************************************************************)
EXTENDS Naturals, FiniteSets, Sequences, SequencesExt, FiniteSetsExt

CONSTANTS N,           \* tasks, numbered in the order of the plan and of their ids
          Broad,       \* scopes that are refused as too broad: src, lib, app...
          Placeholder, \* a base commit that is none: HEAD, main, tbd...
          Plans, HeadCommit, MaxConcurrency

ASSUME RunAssumption == N \in Nat \ {0} /\ MaxConcurrency \in Nat \ {0}
ASSUME PathsAssumption ==
  \A p \in Plans : \A t \in 1..N : \A s \in p.scopes[t] : s \in Seq({s[i] : i \in DOMAIN s})

-----------------------------------------------------------------------------
(* What makes a plan of parallel tasks acceptable (validate-parallel-plan.py) *)
(* and worth planning (assess-parallel-opportunity.py).  A path is the        *)
(* sequence of its segments, <<>> the repository itself; a plan gives each    *)
(* task                                                                       *)
(*   deps      the tasks it names as prerequisites                            *)
(*   scopes    the paths it may write                                         *)
(*   contracts the contracts it owns                                          *)
(*   base      the base commit its card declares                              *)
(*   check     what its card says of its validation: "command" when it gives  *)
(*             one, "owner" when it only names who does it, "none"            *)

Tasks == 1..N

\* normalize_path turns the repository itself into ".", whose children do not start
\* with "./": it is the parent of nothing.
IsParentOrChild(a, b) ==
  \/ a = b
  \/ a # <<>> /\ b # <<>> /\ (IsPrefix(a, b) \/ IsPrefix(b, a))

\* A variant: only a parent that comes first is seen.
OverlapsBelow(p) ==
  \E i, j \in Tasks : i < j /\
    \E a \in p.scopes[i], b \in p.scopes[j] : a = b \/ (a # <<>> /\ IsPrefix(a, b))

Overlaps(p) ==
  \E i, j \in Tasks : i < j /\
    \E a \in p.scopes[i], b \in p.scopes[j] : IsParentOrChild(a, b)

\* The depth-first search finds a cycle when some tasks all wait for one another.
Cyclic(p) ==
  \E waiting \in SUBSET Tasks \ {{}} : \A t \in waiting : p.deps[t] \cap waiting # {}

\* validate_plan
PlanValid(p) ==
  /\ \A t \in Tasks : p.deps[t] \subseteq Tasks /\ t \notin p.deps[t]
  /\ ~Cyclic(p)

\* The constraints on the cards, given the current HEAD.
ScopesDeclared(p) == \A t \in Tasks : p.scopes[t] # {} /\ p.scopes[t] \cap Broad = {}
ContractsApart(p) == \A i, j \in Tasks : i # j => p.contracts[i] \cap p.contracts[j] = {}
BaseAgreed(p, head) == \A t \in Tasks : p.base[t] # Placeholder /\ p.base[t] = head
ChecksNamed(p) == \A t \in Tasks : p.check[t] # "none"

CardsValid(p, head, allowOverlap) ==
  /\ ScopesDeclared(p) /\ (allowOverlap \/ ~Overlaps(p))
  /\ ContractsApart(p) /\ BaseAgreed(p, head) /\ ChecksNamed(p)

\* validate_dispatch_constraints, of a plan, and validate_flat_dispatch_constraints, of
\* cards that come without one and need nothing from each other.
DispatchValid(p, head, allowOverlap) == PlanValid(p) /\ CardsValid(p, head, allowOverlap)

FlatValid(p, head, allowOverlap) ==
  (\A t \in Tasks : p.deps[t] = {}) /\ CardsValid(p, head, allowOverlap)

\* topological_sort: the smallest of the tasks whose prerequisites are placed is next.
SerialOrder(p) ==
  LET placed[n \in 0..N] ==
        IF n = 0 THEN <<>>
        ELSE LET before == placed[n - 1]
                 ready == {t \in Tasks : /\ ~Contains(before, t)
                                         /\ \A d \in p.deps[t] : Contains(before, d)}
             IN IF ready = {} THEN before ELSE Append(before, Min(ready))
  IN placed[N]

\* classify: what is worth a planner call.
ParallelCandidate(p, minutes, flags) ==
  /\ N >= 2
  /\ Cardinality(UNION {p.scopes[t] : t \in Tasks}) >= 2
  /\ ~(minutes > 0 /\ minutes < 10)
  /\ flags = {}

\* The tasks that need one of the failed ones, directly or not.
Dependents(p, failed) ==
  LET reach[n \in 0..N] ==
        IF n = 0 THEN failed
        ELSE reach[n - 1] \cup {t \in Tasks : p.deps[t] \cap reach[n - 1] # {}}
  IN reach[N] \ failed

-----------------------------------------------------------------------------
Jobs == {"none", "dispatch", "gate", "over"}

VARIABLES
  plan,
  phase,     \* "brief", "serial", "planned", "rejected", "running" or "ended"
  state,     \* the .state file of each task
  job,       \* the background shell of each task
  exit,      \* its .exit file: "none" (-1), "zero" or "error"
  turn,      \* of the scheduling loop: "harvest" or "launch"
  canary,    \* the task that goes first, 0 while there is none
  released   \* the others may follow

parallelVars == <<plan, phase, state, job, exit, turn, canary, released>>

ParallelInit ==
  /\ plan \in Plans
  /\ phase = "brief"
  /\ state = [t \in Tasks |-> "pending"]
  /\ job = [t \in Tasks |-> "none"] /\ exit = [t \in Tasks |-> "none"]
  /\ turn = "harvest" /\ canary = 0 /\ released = TRUE

Having(s) == {t \in Tasks : state[t] = s}

-----------------------------------------------------------------------------
\* assess-parallel-opportunity.py only recommends.
Assess ==
  /\ phase = "brief"
  /\ \E minutes \in {0, 9, 10}, flags \in SUBSET {"migration"} :
       phase' = IF ParallelCandidate(plan, minutes, flags) THEN "planned" ELSE "serial"
  /\ UNCHANGED <<plan, state, job, exit, turn, canary, released>>

\* The plan and its cards are validated, or the cards alone when they are given without
\* a plan; a single task needs no canary.
Validate ==
  /\ phase = "planned"
  /\ phase' = IF \/ DispatchValid(plan, HeadCommit, FALSE)
                 \/ FlatValid(plan, HeadCommit, FALSE)
              THEN "running" ELSE "rejected"
  /\ \E rampUp \in BOOLEAN : released' = ~(rampUp /\ N > 1)
  /\ UNCHANGED <<plan, state, job, exit, turn, canary>>

-----------------------------------------------------------------------------
Over == {t \in Having("running") : job[t] = "over"}
Failed == {t \in Over : exit[t] # "zero"}

\* A variant: the direct dependents of a failed task are skipped.
SkippedChildren == {t \in Having("pending") : plan.deps[t] \cap Failed # {}}

\* skip_dependents, or everything when it is the canary that failed.
Skipped ==
  IF ~released /\ canary \in Failed THEN Having("pending")
  ELSE Having("pending") \cap Dependents(plan, Failed)

\* harvest_completed
Harvest ==
  /\ phase = "running" /\ turn = "harvest"
  /\ state' = [t \in Tasks |->
                 IF t \in Over THEN IF t \in Failed THEN "failed" ELSE "completed"
                 ELSE IF t \in Skipped THEN "skipped" ELSE state[t]]
  /\ released' = (released \/ canary \in Over \ Failed)
  /\ turn' = "launch"
  /\ UNCHANGED <<plan, phase, job, exit, canary>>

\* A variant: it is enough that no prerequisite has failed.
ReadyUnlessFailed ==
  {t \in Having("pending") : \A d \in plan.deps[t] : state[d] \notin {"failed", "skipped"}}

\* all_deps_met
Ready == {t \in Having("pending") : \A d \in plan.deps[t] : state[d] = "completed"}

\* The first of the ready tasks, as many as the cap allows, or the canary alone.
Chosen ==
  LET free == MaxConcurrency - Cardinality(Having("running"))
      first == {t \in Ready : Cardinality({u \in Ready : u < t}) < free}
  IN CASE released -> first
       [] ~released /\ canary = 0 /\ Ready # {} -> {Min(Ready)}
       [] OTHER -> {}

Launch ==
  /\ phase = "running" /\ turn = "launch"
  /\ Having("pending") \cup Having("running") # {}
  /\ state' = [t \in Tasks |-> IF t \in Chosen THEN "running" ELSE state[t]]
  /\ job' = [t \in Tasks |-> IF t \in Chosen THEN "dispatch" ELSE job[t]]
  /\ canary' = IF ~released /\ Chosen # {} THEN Min(Chosen) ELSE canary
  /\ turn' = "harvest"
  /\ UNCHANGED <<plan, phase, exit, released>>

Finish ==
  /\ phase = "running" /\ turn = "launch"
  /\ Having("pending") \cup Having("running") = {}
  /\ phase' = "ended"
  /\ UNCHANGED <<plan, state, job, exit, turn, canary, released>>

-----------------------------------------------------------------------------
\* The dispatcher ends; only success leads to the gate.
DispatchEnds(t) ==
  /\ job[t] = "dispatch"
  /\ \/ job' = [job EXCEPT ![t] = "gate"] /\ exit' = exit
     \/ job' = [job EXCEPT ![t] = "over"] /\ exit' = [exit EXCEPT ![t] = "error"]
  /\ UNCHANGED <<plan, phase, state, turn, canary, released>>

\* The gate, on by default, fails without a command, and otherwise as the command does in the worktree.
GateEnds(t) ==
  /\ job[t] = "gate"
  /\ job' = [job EXCEPT ![t] = "over"]
  /\ \E status \in {"zero", "error"} :
       /\ plan.check[t] # "command" => status = "error"
       /\ exit' = [exit EXCEPT ![t] = status]
  /\ UNCHANGED <<plan, phase, state, turn, canary, released>>

\* The background shell is killed before it writes its status.
JobDies(t) ==
  /\ job[t] \in {"dispatch", "gate"}
  /\ job' = [job EXCEPT ![t] = "over"]
  /\ UNCHANGED <<plan, phase, state, exit, turn, canary, released>>

Loop == Assess \/ Validate \/ Harvest \/ Launch \/ Finish
Job(t) == DispatchEnds(t) \/ GateEnds(t) \/ JobDies(t)

ParallelNext == Loop \/ \E t \in Tasks : Job(t)

\* The loop polls until it is done, and a dispatch and a check end: both have timeouts.
ParallelSpec ==
  /\ ParallelInit /\ [][ParallelNext]_parallelVars
  /\ WF_parallelVars(Loop)
  /\ \A t \in Tasks : WF_parallelVars(Job(t))

-----------------------------------------------------------------------------

\* "Non-overlapping write scopes" (references/worktree-and-parallel.md): once a plan
\* runs, no file lies in the scopes of two of its tasks, unless a scope is the repository
\* itself, which the validator does not see to contain anything.
InScope(file, t) == \E s \in plan.scopes[t] : IsPrefix(s, file)
ScopesAreDisjoint ==
  phase \in {"running", "ended"} /\ (\A t \in Tasks : <<>> \notin plan.scopes[t]) =>
    \A i, j \in Tasks : \A file \in plan.scopes[i] \cup plan.scopes[j] :
      i # j => ~(InScope(file, i) /\ InScope(file, j))

\* "A failed prerequisite prevents all transitive dependents from dispatching while
\* unrelated branches continue": what was launched had all its prerequisites completed,
\* and what was skipped has a failed task above it, or a canary that failed.  The order
\* a plan's author is told to follow instead keeps the prerequisites as well.
PrerequisitesHold ==
  /\ \A t \in Tasks :
       /\ state[t] \in {"running", "completed", "failed"} =>
            \A d \in plan.deps[t] : state[d] = "completed"
       /\ state[t] = "skipped" =>
            \/ t \in Dependents(plan, Having("failed"))
            \/ canary # 0 /\ state[canary] = "failed"
  /\ phase = "planned" /\ PlanValid(plan) =>
       LET order == SerialOrder(plan) IN
       /\ ToSet(order) = Tasks
       /\ \A i \in Tasks : plan.deps[order[i]] \subseteq {order[j] : j \in 1..(i - 1)}

\* A plan that was accepted is executed to its end, whatever fails, dies or is skipped.
EveryTaskSettles == (phase = "running") ~> (phase = "ended")
=============================================================================
