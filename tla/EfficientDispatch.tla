-------------------------- MODULE EfficientDispatch --------------------------
(***************************************************************************)
(* The budgeted front door: efficiency-control.py prepares a plan and a    *)
(* context packet for a task, dispatch-efficient.py sends it to Claude.    *)
(* Invocations may overlap: the call ledger and the context cache are read *)
(* and written without a lock, and the ledger row is appended only after   *)
(* Claude has returned.                                                    *)
(***************************************************************************)
EXTENDS SparkAvailability, RouteTask, FiniteSets

CONSTANTS Dispatches,       \* invocations of dispatch-efficient.py
          Jobs,             \* names of what may be dispatched
          JobOf             \* each job's task id, cache key and facts (see JobShape)

\* Two jobs with one key have the same commit, files, symbols, profile and
\* build targets; goal, acceptance and forbidden paths are the job's own.
JobShape(j) == /\ {"id", "key", "facts", "within", "gate"} = DOMAIN j
               /\ j.facts \in RouteFacts
               /\ j.gate \in {"auto", "on", "off"}
               /\ j.within \in BOOLEAN
ASSUME DispatchInputs == \A j \in Jobs : JobShape(JobOf[j])

VARIABLES step,             \* where each invocation is
          job,              \* the plan it executes
          hostAuthority,    \* --host-authority
          seen,             \* ledger rows of the job it counted
          tries,            \* its Spark attempts: the environments
          started,          \* invocations that started Claude
          rows,             \* run-ledger.jsonl: invocations, in order
          plan,             \* execution-plan.json by task id: of which job
          packet,           \* context-packet.json by task id: whose packet it is
          contextCache      \* cached packet by key: whose packet it is

dispatchVars == <<step, job, hostAuthority, seen, tries, started, rows, plan, packet, contextCache>>

JobIds == {JobOf[j].id : j \in Jobs}
Keys == {JobOf[j].key : j \in Jobs}
Plans == [j \in Jobs |-> Route(JobOf[j].facts)]
NoPacket == "none"
NoPlan == "none"
Returned == {"idle", "exit 0", "exit 2", "exit 75"}

-----------------------------------------------------------------------------
\* efficiency-control.py prepare: Spark gate, control-plane budget, cache.
UseSpark(j) == /\ Plans[j].owner = "claude" /\ JobOf[j].gate # "off"
               /\ Plans[j].lane # "express"
               /\ Plans[j].budget.spark > 0
               /\ JobOf[j].within

Prepare(j) ==
  /\ plan' = [plan EXCEPT ![JobOf[j].id] = j]
  /\ IF Plans[j].owner = "codex" \/ ~JobOf[j].within
     THEN UNCHANGED <<packet, contextCache>>
     ELSE /\ packet' = [packet EXCEPT ![JobOf[j].id] =
                          IF contextCache[JobOf[j].key] = NoPacket THEN JobOf[j].id
                          ELSE contextCache[JobOf[j].key]]
          /\ contextCache' = [contextCache EXCEPT ![JobOf[j].key] =
                                IF @ = NoPacket THEN JobOf[j].id ELSE @]
  /\ UNCHANGED <<step, job, hostAuthority, seen, tries, started, rows, sparkVars>>

-----------------------------------------------------------------------------
\* dispatch-efficient.py main.  Counting reads the ledger, and nothing holds
\* the count until the row is appended.
CallsOf(id) == Cardinality({k \in DOMAIN rows : JobOf[job[rows[k]]].id = id})

Enter(d, id) ==
  /\ step[d] = "idle" /\ plan[id] # NoPlan
  /\ job' = [job EXCEPT ![d] = plan[id]]
  /\ \E yes \in BOOLEAN : hostAuthority' = [hostAuthority EXCEPT ![d] = yes]
  /\ seen' = [seen EXCEPT ![d] = CallsOf(id)]
  /\ step' = [step EXCEPT ![d] = "counted"]
  /\ UNCHANGED <<tries, started, rows, plan, packet, contextCache, sparkVars>>

Return(d, code) == step' = [step EXCEPT ![d] = code]

\* A canary's first attempt is classified before it is repeated; a retry
\* without retry state, or without anything new, is refused.
Refuses(d, classified, fresh) ==
  \/ ~JobOf[job[d]].within
  \/ seen[d] > 0 /\ Plans[job[d]].mode = "canary" /\ ~classified
  \/ seen[d] >= Plans[job[d]].budget.claude
  \/ seen[d] > 0 /\ ~fresh

\* A plan without Spark is held back by the host cache all the same, and with
\* authority it renews the cache without an attempt.
Check(d) ==
  /\ step[d] = "counted"
  /\ \E classified, fresh, execute \in BOOLEAN :
       Return(d, First(<<
         Rule(Refuses(d, classified, fresh), "exit 2"),
         Rule(~execute \/ Plans[job[d]].owner = "codex", "exit 0"),
         Rule(CachedHost /\ ~hostAuthority[d], "exit 75"),
         Rule(UseSpark(job[d]), "spark"),
         Otherwise("claude")>>))
  /\ tries' = [tries EXCEPT ![d] =
       IF step'[d] = "spark" THEN <<IF CachedHost THEN "host" ELSE "auto">> ELSE @]
  /\ hostCache' = IF step'[d] = "claude" /\ CachedHost
                  THEN HostFile("host-suspected-unavailable") ELSE hostCache
  /\ UNCHANGED <<job, hostAuthority, seen, started, rows, plan, packet, contextCache, circuit>>

\* A variant: the retry on the host is not subject to the caller's authority.
PreflightRetries(d) ==
  /\ step[d] = "spark" /\ Return(d, "retry")
  /\ hostCache' = HostFile("host-required") /\ tries' = [tries EXCEPT ![d] = Append(@, "host")]
  /\ UNCHANGED <<job, hostAuthority, seen, started, rows, plan, packet, contextCache, circuit>>

\* The preflight returns.  It may ask for the host, succeed, or fail; a
\* success may say that Codex should do the task itself.
PreflightHandsOff(d) ==
  /\ step[d] = "spark"
  /\ hostCache' = HostFile("host-required") /\ UNCHANGED circuit
  /\ Return(d, IF hostAuthority[d] THEN "retry" ELSE "exit 75")
  /\ tries' = [tries EXCEPT ![d] = IF hostAuthority[d] THEN Append(@, "host") ELSE @]
  /\ UNCHANGED <<job, hostAuthority, seen, started, rows, plan, packet, contextCache>>

PreflightEnds(d) ==
  /\ step[d] = "spark"
  /\ \E invoked, codex \in BOOLEAN :
       /\ hostCache' = IF tries[d] = <<"host">>
                       THEN HostFile(IF invoked THEN "host-available"
                                     ELSE "host-suspected-unavailable")
                       ELSE hostCache
       /\ Return(d, IF invoked /\ codex THEN "exit 0" ELSE "claude")
  /\ UNCHANGED <<job, hostAuthority, seen, tries, started, rows, plan, packet, contextCache, circuit>>

RetryEnds(d) ==
  /\ step[d] = "retry"
  /\ \E invoked, codex \in BOOLEAN :
       /\ hostCache' = IF invoked THEN HostFile("host-available") ELSE hostCache
       /\ Return(d, IF invoked /\ codex THEN "exit 0" ELSE "claude")
  /\ UNCHANGED <<job, hostAuthority, seen, tries, started, rows, plan, packet, contextCache, circuit>>

StartClaude(d) ==
  /\ step[d] = "claude" /\ Return(d, "claude-running")
  /\ started' = started \cup {d}
  /\ UNCHANGED <<job, hostAuthority, seen, tries, rows, plan, packet, contextCache, sparkVars>>

\* A variant: only a successful call is written down.
AppendRowOnSuccess(d) ==
  /\ step[d] = "claude-running"
  /\ \/ rows' = Append(rows, d) /\ Return(d, "exit 0")
     \/ UNCHANGED rows /\ Return(d, "exit 2")
  /\ UNCHANGED <<job, hostAuthority, seen, tries, started, plan, packet, contextCache, sparkVars>>

\* Claude returns with any exit code: the row, then the code is passed on.
AppendRow(d) ==
  /\ step[d] = "claude-running"
  /\ rows' = Append(rows, d)
  /\ \E code \in {"exit 0", "exit 2"} : Return(d, code)
  /\ UNCHANGED <<job, hostAuthority, seen, tries, started, plan, packet, contextCache, sparkVars>>

\* An invocation that is killed stops where it is.
-----------------------------------------------------------------------------
DispatchInit ==
  /\ step = [d \in Dispatches |-> "idle"]
  /\ job = [d \in Dispatches |-> CHOOSE j \in Jobs : TRUE]
  /\ hostAuthority = [d \in Dispatches |-> FALSE]
  /\ seen = [d \in Dispatches |-> 0]
  /\ tries = [d \in Dispatches |-> <<>>]
  /\ started = {} /\ rows = <<>>
  /\ plan = [id \in JobIds |-> NoPlan]
  /\ packet = [id \in JobIds |-> NoPacket]
  /\ contextCache = [key \in Keys |-> NoPacket]

DispatchStep(d) ==
  \/ \E id \in JobIds : Enter(d, id)
  \/ Check(d) \/ PreflightHandsOff(d) \/ PreflightEnds(d) \/ RetryEnds(d)
  \/ StartClaude(d) \/ AppendRow(d)
=============================================================================
