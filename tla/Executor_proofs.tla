--------------------------- MODULE Executor_proofs ---------------------------
(***************************************************************************)
(* The front doors, for any number of runs, dispatches, tasks, jobs and    *)
(* criteria: what an accepted run has shown, who may use the host, what    *)
(* the call ledger counts, whose failure a silent run is and what a gate   *)
(* relied on.                                                              *)
(***************************************************************************)
EXTENDS MCExecutor, FiniteSetTheorems, SequenceTheorems, WellFoundedInduction, TLAPS

\* A set of natural numbers that is not empty has a least member.
LEMMA LeastNatural ==
  ASSUME NEW T \in SUBSET Nat, T # {}
  PROVE  \E m \in T : \A n \in T : ~(n < m)
<1> DEFINE Less == OpToRel(<, Nat)
<1>1. IsWellFoundedOn(Less, Nat)
  BY NatLessThanWellFounded
<1> HIDE DEF Less
<1>2. \E m \in T : \A n \in T : ~(<<n, m>> \in Less)
  BY <1>1, WFMin
<1>3. \A m, n \in Nat : n < m => <<n, m>> \in Less
  BY DEF Less, OpToRel
<1>4. QED
  BY <1>2, <1>3

\* The environment of the retry comes after the one of the attempt.
LEMMA AppendToOne ==
  ASSUME NEW x, NEW y
  PROVE  Append(<<x>>, y) = <<x, y>>
<1> DEFINE S == {x, y}
<1>1. <<x>> \in Seq(S) /\ <<x, y>> \in Seq(S) /\ y \in S
  OBVIOUS
<1>2. /\ Len(<<x>>) = 1 /\ <<x>>[1] = x
      /\ Len(<<x, y>>) = 2 /\ <<x, y>>[1] = x /\ <<x, y>>[2] = y
  OBVIOUS
<1> HIDE DEF S
<1>3. /\ Append(<<x>>, y) \in Seq(S) /\ Len(Append(<<x>>, y)) = 2
      /\ Append(<<x>>, y)[1] = x /\ Append(<<x>>, y)[2] = y
  <2>1. /\ Append(<<x>>, y) \in Seq(S) /\ Len(Append(<<x>>, y)) = Len(<<x>>) + 1
        /\ \A i \in 1..Len(<<x>>) : Append(<<x>>, y)[i] = <<x>>[i]
        /\ Append(<<x>>, y)[Len(<<x>>) + 1] = y
    BY <1>1, AppendProperties
  <2> QED
    BY <2>1, <1>2
<1>4. \A i \in 1..2 : Append(<<x>>, y)[i] = <<x, y>>[i]
  BY <1>2, <1>3
<1> QED
  BY <1>1, <1>2, <1>3, <1>4, SeqEqual

-----------------------------------------------------------------------------
(* Chains of rules.                                                         *)

\* One rule of a chain decides: the first that applies, and the last always does.
LEMMA FirstDecides ==
  ASSUME NEW rules, NEW n \in Nat \ {0}, DOMAIN rules = 1..n, rules[n].when
  PROVE  \E k \in 1..n : /\ rules[k].when /\ First(rules) = rules[k].then
                         /\ \A j \in 1..n : j < k => ~rules[j].when
<1> DEFINE Applies(i) == rules[i].when /\ \A j \in 1..(i - 1) : ~rules[j].when
           T == {i \in 1..n : rules[i].when}
<1>1. T \in SUBSET Nat /\ T # {}
  <2>1. n \in T
    OBVIOUS
  <2> QED
    BY <2>1
<1>2. PICK k \in T : \A i \in T : ~(i < k)
  <2> HIDE DEF T
  <2> QED
    BY <1>1, LeastNatural
<1>3. Applies(k) /\ k \in 1..n
  BY <1>2
<1>4. ASSUME NEW i \in 1..n, Applies(i) PROVE i = k
  <2>1. i < k \/ k < i \/ i = k
    BY <1>3
  <2>2. CASE i < k
    BY <1>3, <1>4, <2>2
  <2>3. CASE k < i
    BY <1>3, <1>4, <2>3
  <2> QED
    BY <2>1, <2>2, <2>3
<1>5. (CHOOSE i \in DOMAIN rules : Applies(i)) = k
  <2> HIDE DEF Applies
  <2> QED
    BY <1>3, <1>4
<1>6. First(rules) = rules[k].then
  BY <1>5 DEF First
<1>7. \A j \in 1..n : j < k => ~rules[j].when
  BY <1>2
<1> QED
  BY <1>3, <1>6, <1>7

\* Chains of three to six.
LEMMA FirstOf3 ==
  ASSUME NEW rules, DOMAIN rules = 1..3, rules[3].when
  PROVE  First(rules) =
           IF rules[1].when THEN rules[1].then
           ELSE IF rules[2].when THEN rules[2].then
           ELSE rules[3].then
<1>1. PICK k \in 1..3 : /\ rules[k].when /\ First(rules) = rules[k].then
                        /\ \A j \in 1..3 : j < k => ~rules[j].when
  <2>1. 3 \in Nat \ {0}
    OBVIOUS
  <2> QED
    BY <2>1, FirstDecides
<1>2. k = 1 \/ k = 2 \/ k = 3
  OBVIOUS
<1> QED
  BY <1>1, <1>2

LEMMA FirstOf4 ==
  ASSUME NEW rules, DOMAIN rules = 1..4, rules[4].when
  PROVE  First(rules) =
           IF rules[1].when THEN rules[1].then
           ELSE IF rules[2].when THEN rules[2].then
           ELSE IF rules[3].when THEN rules[3].then
           ELSE rules[4].then
<1>1. PICK k \in 1..4 : /\ rules[k].when /\ First(rules) = rules[k].then
                        /\ \A j \in 1..4 : j < k => ~rules[j].when
  <2>1. 4 \in Nat \ {0}
    OBVIOUS
  <2> QED
    BY <2>1, FirstDecides
<1>2. k = 1 \/ k = 2 \/ k = 3 \/ k = 4
  OBVIOUS
<1> QED
  BY <1>1, <1>2

LEMMA FirstOf5 ==
  ASSUME NEW rules, DOMAIN rules = 1..5, rules[5].when
  PROVE  First(rules) =
           IF rules[1].when THEN rules[1].then
           ELSE IF rules[2].when THEN rules[2].then
           ELSE IF rules[3].when THEN rules[3].then
           ELSE IF rules[4].when THEN rules[4].then
           ELSE rules[5].then
<1>1. PICK k \in 1..5 : /\ rules[k].when /\ First(rules) = rules[k].then
                        /\ \A j \in 1..5 : j < k => ~rules[j].when
  <2>1. 5 \in Nat \ {0}
    OBVIOUS
  <2> QED
    BY <2>1, FirstDecides
<1>2. k = 1 \/ k = 2 \/ k = 3 \/ k = 4 \/ k = 5
  OBVIOUS
<1> QED
  BY <1>1, <1>2

LEMMA FirstOf6 ==
  ASSUME NEW rules, DOMAIN rules = 1..6, rules[6].when
  PROVE  First(rules) =
           IF rules[1].when THEN rules[1].then
           ELSE IF rules[2].when THEN rules[2].then
           ELSE IF rules[3].when THEN rules[3].then
           ELSE IF rules[4].when THEN rules[4].then
           ELSE IF rules[5].when THEN rules[5].then
           ELSE rules[6].then
<1>1. PICK k \in 1..6 : /\ rules[k].when /\ First(rules) = rules[k].then
                        /\ \A j \in 1..6 : j < k => ~rules[j].when
  <2>1. 6 \in Nat \ {0}
    OBVIOUS
  <2> QED
    BY <2>1, FirstDecides
<1>2. k = 1 \/ k = 2 \/ k = 3 \/ k = 4 \/ k = 5 \/ k = 6
  OBVIOUS
<1> QED
  BY <1>1, <1>2

-----------------------------------------------------------------------------
(* The acceptance and the review ladder.                                    *)

\* A task that validates passes the acceptance only inside its scope, with
\* nothing missing.
LEMMA PassedIsInScope ==
  ASSUME NEW t, NEW results, NEW m, NEW diff, NEW remote, t.valid,
         EvaluateTask(t, results, m, diff, remote).status = "passed"
  PROVE  diff = {} /\ ~m.missing
<1>1. MechanicalFailures(t, m, diff) = {}
  BY DEF EvaluateTask
<1> QED
  BY <1>1 DEF MechanicalFailures

\* Without validation results a criterion is satisfied only if no validation
\* is linked to it and the manifest verifies it, and none has failed.
LEMMA RowsWithoutResults ==
  ASSUME NEW t, NEW m, NEW c \in Criteria
  PROVE  /\ RowStatus(t, c, NoResults, m, {}) = "satisfied" => c \in m.verified
         /\ RowStatus(t, c, NoResults, m, {}) # "failed"
<1>1. NoResults[c] = "not-run"
  BY DEF NoResults
<1> QED
  BY <1>1 DEF RowStatus

\* The ladder that knows no results stays local only if something is missing or
\* the manifest verifies every criterion.
LEMMA LocalIsVerified ==
  ASSUME NEW t, NEW m, NEW escalate \in BOOLEAN, t.valid,
         EvaluateLadder(t, NoResults, m, {}, {}, 1, escalate).tier = "L0-local"
  PROVE  m.missing \/ Criteria \subseteq m.verified
<1> DEFINE a == EvaluateTask(t, NoResults, m, {}, {})
           model == Recovery(InferClassification(a, t), 1, escalate)
           verdict(tier, action, w) ==
             [acceptance |-> a, tier |-> tier, action |-> action, model |-> w]
<1>1. DOMAIN a.rows = Criteria /\ \A c \in Criteria : a.rows[c] = RowStatus(t, c, NoResults, m, {})
  BY DEF EvaluateTask
<1>2. a.mechanical # {} => m.missing
  BY DEF EvaluateTask, MechanicalFailures
<1>3. a.status = "passed" => \A c \in Criteria : a.rows[c] = "satisfied"
  BY <1>1 DEF EvaluateTask
<1>4. InferClassification(a, t) = "unknown"
  <2> HIDE DEF a
  <2> QED
    BY <1>1, RowsWithoutResults DEF InferClassification
<1>5. model = IF escalate THEN "codex" ELSE "spark"
  <2> DEFINE rules == <<Rule("unknown" \in Infrastructure, "none"),
                        Rule(escalate \/ 1 >= 3, "codex"),
                        Rule("unknown" \in {"compile", "test"} /\ 1 < 2, "claude"),
                        Otherwise("spark")>>
  <2>1. DOMAIN rules = 1..4
    OBVIOUS
  <2>2. ~rules[1].when
    <3>1. "unknown" \notin Infrastructure
      BY DEF Infrastructure
    <3> QED
      BY <3>1 DEF Rule
  <2>3. rules[2].when <=> escalate
    BY DEF Rule
  <2>4. ~rules[3].when /\ rules[4].when
    BY DEF Rule, Otherwise
  <2>5. rules[2].then = "codex" /\ rules[4].then = "spark"
    BY DEF Rule, Otherwise
  <2>6. Recovery("unknown", 1, escalate) = First(rules)
    BY DEF Recovery
  <2> HIDE DEF rules
  <2>7. First(rules) = IF escalate THEN "codex" ELSE "spark"
    BY <2>1, <2>2, <2>3, <2>4, <2>5, FirstOf4
  <2> QED
    BY <2>6, <2>7, <1>4
<1> HIDE DEF model
<1>6. EvaluateLadder(t, NoResults, m, {}, {}, 1, escalate).tier
        = IF a.mechanical # {} THEN "L0-local"
          ELSE IF a.status = "passed" THEN "L0-local"
          ELSE IF model = "codex" THEN "L2-codex"
          ELSE IF model = "spark" THEN "L1-spark" ELSE "L0-local"
  <2> DEFINE rules ==
       <<Rule(a.mechanical # {}, verdict("L0-local", "local-revision", "none")),
         Rule(a.status = "passed", verdict("L0-local", "human-review", "none")),
         Rule(model = "codex", verdict("L2-codex", "codex-review", "codex")),
         Rule(model = "spark", verdict("L1-spark", "spark-review", "spark")),
         Rule(model = "claude", verdict("L0-local", "claude-revision", "claude")),
         Otherwise(verdict("L0-local", "local-or-human", "none"))>>
  <2>1. EvaluateLadder(t, NoResults, m, {}, {}, 1, escalate) = First(rules)
    BY DEF EvaluateLadder, model
  <2> HIDE DEF a
  <2>2. DOMAIN rules = 1..6
    OBVIOUS
  <2>3. /\ rules[1].when <=> a.mechanical # {}
        /\ rules[2].when <=> a.status = "passed"
        /\ rules[3].when <=> model = "codex"
        /\ rules[4].when <=> model = "spark"
        /\ rules[6].when
    BY DEF Rule, Otherwise
  <2>4. /\ rules[1].then.tier = "L0-local" /\ rules[2].then.tier = "L0-local"
        /\ rules[3].then.tier = "L2-codex" /\ rules[4].then.tier = "L1-spark"
        /\ rules[5].then.tier = "L0-local" /\ rules[6].then.tier = "L0-local"
    BY DEF Rule, Otherwise
  <2> HIDE DEF rules
  <2>5. First(rules) =
          IF rules[1].when THEN rules[1].then ELSE IF rules[2].when THEN rules[2].then
          ELSE IF rules[3].when THEN rules[3].then ELSE IF rules[4].when THEN rules[4].then
          ELSE IF rules[5].when THEN rules[5].then ELSE rules[6].then
    BY <2>2, <2>3, FirstOf6
  <2> QED
    BY <2>1, <2>3, <2>4, <2>5
<1> HIDE DEF a
<1>7. CASE a.mechanical # {}
  BY <1>7, <1>2
<1>8. CASE a.mechanical = {} /\ a.status = "passed"
  BY <1>8, <1>1, <1>3, RowsWithoutResults
<1>9. CASE a.mechanical = {} /\ a.status # "passed"
  BY <1>5, <1>6, <1>9
<1> QED
  BY <1>7, <1>8, <1>9

\* A run decides "accept" only where both verdicts are for it.
LEMMA AcceptNeedsBoth ==
  ASSUME NEW r, NEW status, FinalDecision(r, status) = "accept"
  PROVE  ladder[r] = "L0-local" /\ acceptance[r] = "passed"
<1> DEFINE rules ==
     <<Rule(TaskOf[task[r]].blocking /\ ~TaskOf[task[r]].bookend, "split-required"),
       Rule(status = "completed" /\ ladder[r] = "L0-local",
            IF acceptance[r] = "passed" THEN "accept" ELSE "human-review"),
       Rule(status = "completed", "escalate"),
       Rule(status = "routed", IF Routing(r).owner = "codex" THEN "codex-fast-path"
                               ELSE "claude-dispatch-ready"),
       Otherwise("failed")>>
<1>1. FinalDecision(r, status) = First(rules)
  BY DEF FinalDecision
<1>2. DOMAIN rules = 1..5
  OBVIOUS
<1>3. /\ rules[1].then # "accept" /\ rules[3].then # "accept"
      /\ rules[4].then # "accept" /\ rules[5].then # "accept" /\ rules[5].when
  BY DEF Rule, Otherwise
<1>4. /\ rules[2].when => ladder[r] = "L0-local"
      /\ rules[2].then = "accept" => acceptance[r] = "passed"
  BY DEF Rule
<1> HIDE DEF rules
<1>5. First(rules) = IF rules[1].when THEN rules[1].then
                     ELSE IF rules[2].when THEN rules[2].then
                     ELSE IF rules[3].when THEN rules[3].then
                     ELSE IF rules[4].when THEN rules[4].then ELSE rules[5].then
  BY <1>2, <1>3, FirstOf5
<1> QED
  BY <1>1, <1>3, <1>4, <1>5

-----------------------------------------------------------------------------
(* The inductive invariant of the runs.                                     *)

BeforeSpark == {"idle", "setup", "dispatch", "spark"}
Executing == {"spark", "spark-running", "spark-retry", "spark-host-ok", "spark-host-bad",
              "claude", "evidence", "acceptance", "review-ladder", "handoff", "ledger",
              "finalization"}
Collected == {"acceptance", "review-ladder", "handoff", "ledger", "finalization"}
Unjudged == BeforeSpark \cup {"spark-running", "spark-retry", "spark-host-ok",
                              "spark-host-bad", "claude", "evidence", "acceptance"}

\* Every variable of the runs is a function on them.
RunTypes ==
  /\ phase = [r \in Runs |-> phase[r]] /\ task = [r \in Runs |-> task[r]]
  /\ attempts = [r \in Runs |-> attempts[r]] /\ calls = [r \in Runs |-> calls[r]]
  /\ evidence = [r \in Runs |-> evidence[r]] /\ acceptance = [r \in Runs |-> acceptance[r]]
  /\ ladder = [r \in Runs |-> ladder[r]] /\ result = [r \in Runs |-> result[r]]

\* How far a run has come is what it has in hand.
Progress(r) ==
  /\ phase[r] # "idle" => task[r] \in Tasks
  /\ phase[r] \in Executing => TaskOf[task[r]].execute
  /\ phase[r] = "evidence" \/ phase[r] \in Collected => "claude" \in calls[r]
  /\ phase[r] \in Collected => evidence[r] \in Evidence
  /\ phase[r] \in Unjudged => acceptance[r] = "none" /\ ladder[r] = "none"
  /\ result[r] # NoResult => phase[r] = "done"

\* A verdict that is for the run says what the evidence shows.
Verdicts(r) ==
  /\ acceptance[r] = "passed" =>
       /\ TaskOf[task[r]].execute /\ "claude" \in calls[r] /\ evidence[r] \in Evidence
       /\ evidence[r].diff = {} /\ ~evidence[r].manifest.missing
  /\ ladder[r] = "L0-local" =>
       evidence[r].manifest.missing \/ Criteria \subseteq evidence[r].manifest.verified
  /\ result[r] # NoResult /\ result[r].decision = "accept" =>
       acceptance[r] = "passed" /\ ladder[r] = "L0-local"
  /\ r \in history =>
       /\ acceptance[r] = "passed" /\ ladder[r] = "L0-local"
       /\ phase[r] \in {"finalization", "done"}

\* At most one attempt and one retry; the retry, and the host, need authority.
Tried(r) ==
  /\ phase[r] \in BeforeSpark => attempts[r] = <<>>
  /\ phase[r] = "spark-running" => attempts[r] \in {<<"auto">>, <<"host">>}
  /\ attempts[r] \in {<<>>, <<"auto">>, <<"host">>, <<"auto", "host">>, <<"host", "host">>}
  /\ attempts[r] \notin {<<>>, <<"auto">>} => TaskOf[task[r]].authority
  /\ phase[r] \in BeforeSpark \cup {"spark-running"} => calls[r] = {}
  /\ result[r] # NoResult /\ result[r].failure = "needs-host-execution" => calls[r] = {}

RunGood(r) == Progress(r) /\ Verdicts(r) /\ Tried(r)
RunInvariant == RunTypes /\ \A r \in Runs : RunGood(r)


\* What a step of one run leaves alone of the others.
Untouched(q) ==
  \A r \in Runs \ {q} :
    /\ phase'[r] = phase[r] /\ task'[r] = task[r] /\ attempts'[r] = attempts[r]
    /\ calls'[r] = calls[r] /\ evidence'[r] = evidence[r]
    /\ acceptance'[r] = acceptance[r] /\ ladder'[r] = ladder[r] /\ result'[r] = result[r]
    /\ (r \in history' <=> r \in history)

\* A run that a step leaves alone stays as good as it was.
LEMMA UntouchedStaysGood ==
  ASSUME NEW q \in Runs, NEW r \in Runs \ {q}, Untouched(q), RunGood(r)
  PROVE  RunGood(r)'
<1>1. Progress(r)'
  BY DEF Untouched, RunGood, Progress
<1>2. Verdicts(r)'
  BY DEF Untouched, RunGood, Verdicts
<1>3. Tried(r)'
  BY DEF Untouched, RunGood, Tried
<1> QED
  BY <1>1, <1>2, <1>3 DEF RunGood

\* The result a run ends with.
LEMMA FinishWrites ==
  ASSUME NEW q \in Runs, NEW status \in {"completed", "failed", "routed"}, NEW failure,
         RunTypes, Finish(q, status, failure)
  PROVE  /\ phase'[q] = "done" /\ result'[q] # NoResult /\ result'[q].failure = failure
         /\ result'[q].decision = FinalDecision(q, status)
<1>1. result'[q] = [status |-> status, decision |-> FinalDecision(q, status),
                    failure |-> failure]
  BY DEF RunTypes, Finish
<1>2. result'[q].status # NoResult.status
  BY <1>1 DEF NoResult
<1>3. phase'[q] = "done"
  BY DEF RunTypes, Finish, Goto
<1>4. result'[q].decision = FinalDecision(q, status) /\ result'[q].failure = failure
  BY <1>1
<1> QED
  BY <1>2, <1>3, <1>4

\* A run that finishes decides from the verdicts it has.
LEMMA FinishIsEarned ==
  ASSUME NEW q \in Runs, NEW status \in {"completed", "failed", "routed"}, NEW failure,
         RunTypes, RunGood(q), Finish(q, status, failure), calls[q] \subseteq calls'[q],
         UNCHANGED <<task, evidence, acceptance, ladder, history>>
  PROVE  Verdicts(q)'
<1>1. /\ phase'[q] = "done" /\ result'[q].decision = FinalDecision(q, status)
  BY FinishWrites
<1>2. result'[q].decision = "accept" => acceptance[q] = "passed" /\ ladder[q] = "L0-local"
  BY <1>1, AcceptNeedsBoth
<1> QED
  BY <1>1, <1>2 DEF RunGood, Verdicts

\* Every step of a run keeps the invariant of the runs.
LEMMA RunKeeps ==
  ASSUME RunInvariant, NEW q \in Runs, RunStep(q)
  PROVE  RunInvariant'
<1> USE DEF RunInvariant, BeforeSpark, Executing, Collected, Unjudged
<1>1. RunTypes /\ RunGood(q)
  OBVIOUS
<1> SUFFICES RunTypes' /\ Untouched(q) /\ RunGood(q)'
  BY UntouchedStaysGood
<1>2. CASE Start(q)
  <2> USE <1>2
  <2>1. RunTypes' /\ Untouched(q)
    BY <1>1 DEF Start, Goto, RunTypes, Untouched
  <2>2. Progress(q)'
    BY <1>1 DEF Start, Goto, RunTypes, RunGood, Progress
  <2>3. Verdicts(q)'
    BY <1>1 DEF Start, Goto, RunTypes, RunGood, Progress, Verdicts
  <2>4. Tried(q)'
    BY <1>1 DEF Start, Goto, RunTypes, RunGood, Progress, Tried
  <2> QED
    BY <2>1, <2>2, <2>3, <2>4 DEF RunGood
<1>3. CASE SetupPhases(q)
  <2> USE <1>3
  <2>1. RunTypes' /\ Untouched(q)
    BY <1>1 DEF SetupPhases, Goto, RunTypes, Untouched
  <2>2. Progress(q)'
    BY <1>1 DEF SetupPhases, Goto, RunTypes, RunGood, Progress
  <2>3. Verdicts(q)'
    BY <1>1 DEF SetupPhases, Goto, RunTypes, RunGood, Progress, Verdicts
  <2>4. Tried(q)'
    BY <1>1 DEF SetupPhases, Goto, RunTypes, RunGood, Progress, Tried
  <2> QED
    BY <2>1, <2>2, <2>3, <2>4 DEF RunGood
<1>4. CASE PhaseFails(q)
  <2> USE <1>4
  <2>1. RunTypes' /\ Untouched(q)
    BY <1>1 DEF PhaseFails, Goto, Finish, RunTypes, Untouched
  <2>2. Progress(q)'
    BY <1>1 DEF PhaseFails, Goto, Finish, RunTypes, RunGood, Progress
  <2>3. Verdicts(q)'
    <3>1. Finish(q, "failed", phase[q])
      BY DEF PhaseFails
    <3> QED
      BY FinishIsEarned, <1>1, <3>1 DEF PhaseFails
  <2>4. Tried(q)'
    BY <1>1 DEF PhaseFails, Goto, Finish, RunTypes, RunGood, Progress, Tried
  <2> QED
    BY <2>1, <2>2, <2>3, <2>4 DEF RunGood
<1>5. CASE Dispatch(q)
  <2> USE <1>5
  <2> DEFINE stops == \/ TaskOf[task[q]].blocking /\ ~TaskOf[task[q]].bookend
                      \/ Routing(q).owner = "codex" \/ ~TaskOf[task[q]].execute
             rules == <<Rule(stops, "routed-ledger"), Rule(SparkInvoked(q), "spark"),
                        Otherwise("claude")>>
  <2>1. phase[q] = "dispatch" /\ phase'[q] = First(rules)
    BY <1>1 DEF Dispatch, Goto, RunTypes
  <2>2. First(rules) \in {"routed-ledger", "spark", "claude"}
        /\ (First(rules) # "routed-ledger" => TaskOf[task[q]].execute)
    <3>1. DOMAIN rules = 1..3
      OBVIOUS
    <3>2. /\ rules[1].then = "routed-ledger" /\ rules[2].then = "spark"
          /\ rules[3].then = "claude" /\ rules[3].when
          /\ (~rules[1].when => TaskOf[task[q]].execute)
      BY DEF Rule, Otherwise
    <3> HIDE DEF rules
    <3> QED
      BY <3>1, <3>2, FirstOf3
  <2> HIDE DEF rules
  <2>3. UNCHANGED <<task, attempts, calls, evidence, acceptance, ladder, result, history>>
    BY DEF Dispatch
  <2>4. RunTypes' /\ Untouched(q)
    BY <1>1 DEF Dispatch, Goto, RunTypes, Untouched
  <2>5. Progress(q)'
    BY <1>1, <2>1, <2>2, <2>3 DEF RunGood, Progress
  <2>6. Verdicts(q)'
    BY <1>1, <2>1, <2>2, <2>3 DEF RunGood, Progress, Verdicts, Unjudged, BeforeSpark
  <2>7. Tried(q)'
    BY <1>1, <2>1, <2>2, <2>3 DEF RunGood, Tried, BeforeSpark
  <2> QED
    BY <2>4, <2>5, <2>6, <2>7 DEF RunGood
<1>6. CASE SparkSkipped(q)
  <2> USE <1>6
  <2>1. RunTypes' /\ Untouched(q)
    BY <1>1 DEF SparkSkipped, Goto, RunTypes, Untouched
  <2>2. Progress(q)'
    BY <1>1 DEF SparkSkipped, Goto, RunTypes, RunGood, Progress
  <2>3. Verdicts(q)'
    BY <1>1 DEF SparkSkipped, Goto, RunTypes, RunGood, Progress, Verdicts
  <2>4. Tried(q)'
    BY <1>1 DEF SparkSkipped, Goto, RunTypes, RunGood, Progress, Tried
  <2> QED
    BY <2>1, <2>2, <2>3, <2>4 DEF RunGood
<1>7. CASE SparkNeedsHost(q)
  <2> USE <1>7
  <2>1. RunTypes' /\ Untouched(q)
    BY <1>1 DEF SparkNeedsHost, Goto, Finish, RunTypes, Untouched
  <2>2. Progress(q)'
    BY <1>1 DEF SparkNeedsHost, Goto, Finish, RunTypes, RunGood, Progress
  <2>3. Verdicts(q)'
    BY FinishIsEarned, <1>1 DEF SparkNeedsHost
  <2>4. Tried(q)'
    BY <1>1 DEF SparkNeedsHost, Goto, Finish, RunTypes, RunGood, Progress, Tried
  <2> QED
    BY <2>1, <2>2, <2>3, <2>4 DEF RunGood
<1>8. CASE SparkStarts(q)
  <2> USE <1>8
  <2>1. RunTypes' /\ Untouched(q)
    BY <1>1 DEF SparkStarts, Goto, RunTypes, Untouched
  <2>2. Progress(q)'
    BY <1>1 DEF SparkStarts, Goto, RunTypes, RunGood, Progress
  <2>3. Verdicts(q)'
    BY <1>1 DEF SparkStarts, Goto, RunTypes, RunGood, Progress, Verdicts
  <2>4. Tried(q)'
    BY <1>1 DEF SparkStarts, Goto, RunTypes, RunGood, Progress, Tried
  <2> QED
    BY <2>1, <2>2, <2>3, <2>4 DEF RunGood
<1>9. CASE SparkHandsOff(q)
  <2> USE <1>9
  <2>1. RunTypes' /\ Untouched(q)
    BY <1>1 DEF SparkHandsOff, Goto, Finish, RunTypes, Untouched
  <2>2. Progress(q)'
    BY <1>1 DEF SparkHandsOff, Goto, Finish, RunTypes, RunGood, Progress
  <2>3. Verdicts(q)'
    <3>1. CASE Finish(q, "failed", "needs-host-execution")
      BY FinishIsEarned, <1>1, <3>1 DEF SparkHandsOff
    <3>2. CASE Goto(q, "spark-retry") /\ UNCHANGED result
      BY <3>2, <1>1 DEF SparkHandsOff, Goto, RunTypes, RunGood, Progress, Verdicts, Unjudged
    <3> QED
      BY <3>1, <3>2 DEF SparkHandsOff
  <2>4. Tried(q)'
    <3>1. /\ phase[q] = "spark-running" /\ attempts[q] \in {<<"auto">>, <<"host">>}
          /\ calls'[q] = {} /\ task' = task /\ result[q] = NoResult
      BY <1>1 DEF SparkHandsOff, RunGood, Tried, Progress
    <3>2. CASE TaskOf[task[q]].authority
      <4>1. /\ attempts'[q] = Append(attempts[q], "host") /\ phase'[q] = "spark-retry"
            /\ result' = result
        BY <3>2, <1>1 DEF SparkHandsOff, Goto, RunTypes
      <4>2. attempts'[q] \in {<<"auto", "host">>, <<"host", "host">>}
        <5>1. /\ Append(<<"auto">>, "host") = <<"auto", "host">>
              /\ Append(<<"host">>, "host") = <<"host", "host">>
          BY AppendToOne
        <5> QED
          BY <3>1, <4>1, <5>1
      <4> QED
        BY <3>1, <3>2, <4>1, <4>2 DEF Tried, BeforeSpark
    <3>3. CASE ~TaskOf[task[q]].authority
      <4>1. phase'[q] = "done" /\ attempts' = attempts
        BY <3>3, <1>1, FinishWrites DEF SparkHandsOff
      <4> QED
        BY <3>1, <4>1, <1>1 DEF RunGood, Tried, BeforeSpark
    <3> QED
      BY <3>2, <3>3
  <2> QED
    BY <2>1, <2>2, <2>3, <2>4 DEF RunGood
<1>10. CASE SparkEnds(q)
  <2> USE <1>10
  <2>1. RunTypes' /\ Untouched(q)
    BY <1>1 DEF SparkEnds, Goto, RunTypes, Untouched
  <2>2. Progress(q)'
    BY <1>1 DEF SparkEnds, Goto, RunTypes, RunGood, Progress
  <2>3. Verdicts(q)'
    BY <1>1 DEF SparkEnds, Goto, RunTypes, RunGood, Progress, Verdicts
  <2>4. Tried(q)'
    BY <1>1 DEF SparkEnds, Goto, RunTypes, RunGood, Progress, Tried
  <2> QED
    BY <2>1, <2>2, <2>3, <2>4 DEF RunGood
<1>11. CASE SparkRemembers(q)
  <2> USE <1>11
  <2>1. RunTypes' /\ Untouched(q)
    BY <1>1 DEF SparkRemembers, Goto, RunTypes, Untouched
  <2>2. Progress(q)'
    BY <1>1 DEF SparkRemembers, Goto, RunTypes, RunGood, Progress
  <2>3. Verdicts(q)'
    BY <1>1 DEF SparkRemembers, Goto, RunTypes, RunGood, Progress, Verdicts
  <2>4. Tried(q)'
    BY <1>1 DEF SparkRemembers, Goto, RunTypes, RunGood, Progress, Tried
  <2> QED
    BY <2>1, <2>2, <2>3, <2>4 DEF RunGood
<1>12. CASE ClaudeSucceeds(q)
  <2> USE <1>12
  <2>1. RunTypes' /\ Untouched(q)
    BY <1>1 DEF ClaudeSucceeds, Goto, Finish, RunTypes, Untouched
  <2>2. Progress(q)'
    BY <1>1 DEF ClaudeSucceeds, Goto, Finish, RunTypes, RunGood, Progress
  <2>3. Verdicts(q)'
    <3>1. calls[q] \subseteq calls'[q]
      BY <1>1 DEF ClaudeSucceeds, RunTypes
    <3>2. CASE Finish(q, "completed", "none")
      BY FinishIsEarned, <1>1, <3>1, <3>2 DEF ClaudeSucceeds
    <3>3. CASE UNCHANGED result /\ phase'[q] # "idle"
      BY <3>1, <3>3, <1>1 DEF ClaudeSucceeds, RunTypes, RunGood, Verdicts, Progress, Unjudged
    <3> QED
      BY <3>2, <3>3, <1>1 DEF ClaudeSucceeds, Goto, RunTypes
  <2>4. Tried(q)'
    BY <1>1 DEF ClaudeSucceeds, Goto, Finish, RunTypes, RunGood, Progress, Tried
  <2> QED
    BY <2>1, <2>2, <2>3, <2>4 DEF RunGood
<1>13. CASE ClaudeFails(q)
  <2> USE <1>13
  <2>1. RunTypes' /\ Untouched(q)
    BY <1>1 DEF ClaudeFails, Goto, Finish, RunTypes, Untouched
  <2>2. Progress(q)'
    BY <1>1 DEF ClaudeFails, Goto, Finish, RunTypes, RunGood, Progress
  <2>3. Verdicts(q)'
    BY FinishIsEarned, <1>1 DEF ClaudeFails
  <2>4. Tried(q)'
    BY <1>1 DEF ClaudeFails, Goto, Finish, RunTypes, RunGood, Progress, Tried
  <2> QED
    BY <2>1, <2>2, <2>3, <2>4 DEF RunGood
<1>14. CASE BuildEvidence(q)
  <2> USE <1>14
  <2>1. RunTypes' /\ Untouched(q)
    BY <1>1 DEF BuildEvidence, Goto, RunTypes, Untouched
  <2>2. Progress(q)'
    BY <1>1 DEF BuildEvidence, Goto, RunTypes, RunGood, Progress
  <2>3. Verdicts(q)'
    BY <1>1 DEF BuildEvidence, Goto, RunTypes, RunGood, Progress, Verdicts
  <2>4. Tried(q)'
    BY <1>1 DEF BuildEvidence, Goto, RunTypes, RunGood, Progress, Tried
  <2> QED
    BY <2>1, <2>2, <2>3, <2>4 DEF RunGood
<1>15. CASE Accept(q)
  <2> USE <1>15
  <2>1. RunTypes' /\ Untouched(q)
    BY <1>1 DEF Accept, Goto, RunTypes, Untouched
  <2>2. Progress(q)'
    BY <1>1 DEF Accept, Goto, RunTypes, RunGood, Progress
  <2>3. Verdicts(q)'
    <3>1. /\ phase[q] = "acceptance" /\ phase'[q] = "review-ladder"
          /\ acceptance'[q] = EvaluateTask(Composed(q), evidence[q].results,
                                evidence[q].manifest, evidence[q].diff, {}).status
          /\ UNCHANGED <<task, calls, evidence, ladder, result, history>>
      BY <1>1 DEF Accept, Goto, RunTypes
    <3>2. acceptance'[q] = "passed" => evidence[q].diff = {} /\ ~evidence[q].manifest.missing
      BY <3>1, PassedIsInScope DEF Composed
    <3>3. /\ acceptance[q] = "none" /\ ladder[q] = "none" /\ TaskOf[task[q]].execute
          /\ "claude" \in calls[q] /\ evidence[q] \in Evidence /\ result[q] = NoResult
          /\ q \notin history
      BY <1>1, <3>1 DEF RunGood, Progress, Verdicts, Unjudged, Executing, Collected
    <3> QED
      BY <3>1, <3>2, <3>3 DEF Verdicts
  <2>4. Tried(q)'
    BY <1>1 DEF Accept, Goto, RunTypes, RunGood, Progress, Tried
  <2> QED
    BY <2>1, <2>2, <2>3, <2>4 DEF RunGood
<1>16. CASE Review(q)
  <2> USE <1>16
  <2>1. RunTypes' /\ Untouched(q)
    BY <1>1 DEF Review, Goto, RunTypes, Untouched
  <2>2. Progress(q)'
    BY <1>1 DEF Review, Goto, RunTypes, RunGood, Progress
  <2>3. Verdicts(q)'
    <3>1. /\ phase[q] = "review-ladder" /\ phase'[q] = "handoff"
          /\ ladder'[q] = ReviewTier(q)
          /\ UNCHANGED <<task, calls, evidence, acceptance, result, history>>
      BY <1>1 DEF Review, Goto, RunTypes
    <3>2. ladder'[q] = "L0-local" => \/ evidence[q].manifest.missing
                                     \/ Criteria \subseteq evidence[q].manifest.verified
      <4>1. (Routing(q).lane = "assured") \in BOOLEAN /\ Composed(q).valid
        BY DEF Composed
      <4> QED
        BY <3>1, <4>1, LocalIsVerified DEF ReviewTier
    <3>3. result[q] = NoResult /\ q \notin history
      BY <1>1, <3>1 DEF RunGood, Progress, Verdicts
    <3> QED
      BY <1>1, <3>1, <3>2, <3>3 DEF RunGood, Verdicts
  <2>4. Tried(q)'
    BY <1>1 DEF Review, Goto, RunTypes, RunGood, Progress, Tried
  <2> QED
    BY <2>1, <2>2, <2>3, <2>4 DEF RunGood
<1>17. CASE Handoff(q)
  <2> USE <1>17
  <2>1. RunTypes' /\ Untouched(q)
    BY <1>1 DEF Handoff, Goto, RunTypes, Untouched
  <2>2. Progress(q)'
    BY <1>1 DEF Handoff, Goto, RunTypes, RunGood, Progress
  <2>3. Verdicts(q)'
    BY <1>1 DEF Handoff, Goto, RunTypes, RunGood, Progress, Verdicts
  <2>4. Tried(q)'
    BY <1>1 DEF Handoff, Goto, RunTypes, RunGood, Progress, Tried
  <2> QED
    BY <2>1, <2>2, <2>3, <2>4 DEF RunGood
<1>18. CASE Ledger(q)
  <2> USE <1>18
  <2>1. RunTypes' /\ Untouched(q)
    BY <1>1 DEF Ledger, Goto, RunTypes, Untouched
  <2>2. Progress(q)'
    BY <1>1 DEF Ledger, Goto, RunTypes, RunGood, Progress
  <2>3. Verdicts(q)'
    <3>1. /\ phase[q] = "ledger" /\ phase'[q] = "finalization"
          /\ UNCHANGED <<task, calls, evidence, acceptance, ladder, result>>
          /\ (q \in history' => q \in history \/ FinalDecision(q, "completed") = "accept")
      BY <1>1 DEF Ledger, Goto, RunTypes
    <3>2. q \in history' => acceptance[q] = "passed" /\ ladder[q] = "L0-local"
      BY <1>1, <3>1, AcceptNeedsBoth DEF RunGood, Verdicts
    <3>3. result[q] = NoResult
      BY <1>1, <3>1 DEF RunGood, Progress
    <3> QED
      BY <1>1, <3>1, <3>2, <3>3 DEF RunGood, Verdicts
  <2>4. Tried(q)'
    BY <1>1 DEF Ledger, Goto, RunTypes, RunGood, Progress, Tried
  <2> QED
    BY <2>1, <2>2, <2>3, <2>4 DEF RunGood
<1>19. CASE Finalize(q)
  <2> USE <1>19
  <2>1. RunTypes' /\ Untouched(q)
    BY <1>1 DEF Finalize, Goto, Finish, RunTypes, Untouched
  <2>2. Progress(q)'
    BY <1>1 DEF Finalize, Goto, Finish, RunTypes, RunGood, Progress
  <2>3. Verdicts(q)'
    <3>1. calls[q] \subseteq calls'[q]
      BY DEF Finalize
    <3>2. Finish(q, "completed", "none") \/ Finish(q, "failed", "ledger")
      BY DEF Finalize
    <3> QED
      BY FinishIsEarned, <1>1, <3>1, <3>2 DEF Finalize
  <2>4. Tried(q)'
    BY <1>1 DEF Finalize, Goto, Finish, RunTypes, RunGood, Progress, Tried
  <2> QED
    BY <2>1, <2>2, <2>3, <2>4 DEF RunGood
<1>20. CASE RoutedLedger(q)
  <2> USE <1>20
  <2>1. RunTypes' /\ Untouched(q)
    BY <1>1 DEF RoutedLedger, Goto, Finish, RunTypes, Untouched
  <2>2. Progress(q)'
    BY <1>1 DEF RoutedLedger, Goto, Finish, RunTypes, RunGood, Progress
  <2>3. Verdicts(q)'
    <3>1. CASE Finish(q, "routed", "none")
      BY FinishIsEarned, <1>1, <3>1 DEF RoutedLedger
    <3>2. CASE Goto(q, "died") /\ UNCHANGED result
      BY <3>2, <1>1 DEF RoutedLedger, Goto, RunTypes, RunGood, Verdicts
    <3> QED
      BY <3>1, <3>2 DEF RoutedLedger
  <2>4. Tried(q)'
    BY <1>1 DEF RoutedLedger, Goto, Finish, RunTypes, RunGood, Progress, Tried
  <2> QED
    BY <2>1, <2>2, <2>3, <2>4 DEF RunGood
<1> QED
  BY <1>2, <1>3, <1>4, <1>5, <1>6, <1>7, <1>8, <1>9, <1>10, <1>11, <1>12, <1>13, <1>14, <1>15,
     <1>16, <1>17, <1>18, <1>19, <1>20 DEF RunStep

-----------------------------------------------------------------------------
(* The inductive invariant of the dispatches.                               *)

DispatchTypes ==
  /\ step = [d \in Dispatches |-> step[d]]
  /\ hostAuthority = [d \in Dispatches |-> hostAuthority[d]]
  /\ tries = [d \in Dispatches |-> tries[d]]
  /\ started \subseteq Dispatches /\ rows \in Seq(Dispatches)

\* Spark is tried before Claude starts, and on the host only with authority.
Preflight(d) ==
  /\ step[d] \in {"idle", "counted"} => tries[d] = <<>>
  /\ step[d] = "spark" => tries[d] \in {<<"auto">>, <<"host">>}
  /\ tries[d] \in {<<>>, <<"auto">>, <<"host">>, <<"auto", "host">>, <<"host", "host">>}
  /\ tries[d] \notin {<<>>, <<"auto">>} => hostAuthority[d]

\* The rows are those of the dispatches whose Claude has returned.
HasRow(d) == \E k \in DOMAIN rows : rows[k] = d
Counted(d) ==
  /\ d \in started => step[d] \in {"claude-running", "exit 0", "exit 2"}
  /\ step[d] = "claude-running" => d \in started
  /\ HasRow(d) <=> d \in started /\ step[d] # "claude-running"

RowsDiffer == \A k, n \in DOMAIN rows : rows[k] = rows[n] => k = n

DispatchInvariant ==
  /\ DispatchTypes /\ RowsDiffer
  /\ \A d \in Dispatches : Preflight(d) /\ Counted(d)


Elsewhere(e) ==
  \A d \in Dispatches \ {e} :
    /\ step'[d] = step[d] /\ hostAuthority'[d] = hostAuthority[d] /\ tries'[d] = tries[d]
    /\ (d \in started' <=> d \in started) /\ (HasRow(d)' <=> HasRow(d))

\* A dispatch that a step leaves alone stays as good as it was.
LEMMA ElsewhereStaysGood ==
  ASSUME NEW e \in Dispatches, NEW d \in Dispatches \ {e}, Elsewhere(e),
         Preflight(d), Counted(d)
  PROVE  Preflight(d)' /\ Counted(d)'
<1>1. Preflight(d)'
  BY DEF Elsewhere, Preflight
<1>2. Counted(d)'
  <2> DEFINE before == HasRow(d)
             after == HasRow(d)'
  <2>1. after <=> before
    BY DEF Elsewhere
  <2>2. before <=> d \in started /\ step[d] # "claude-running"
    BY DEF Counted
  <2>3. step'[d] = step[d] /\ (d \in started' <=> d \in started)
    BY DEF Elsewhere
  <2> HIDE DEF before, after
  <2>4. after <=> d \in started' /\ step'[d] # "claude-running"
    BY <2>1, <2>2, <2>3
  <2> QED
    BY <2>3, <2>4 DEF Counted, after
<1> QED
  BY <1>1, <1>2

\* Every step of a dispatch keeps the invariant of the dispatches.
LEMMA DispatchKeeps ==
  ASSUME DispatchInvariant, NEW e \in Dispatches, DispatchStep(e)
  PROVE  DispatchInvariant'
<1>1. DispatchTypes /\ RowsDiffer /\ Preflight(e) /\ Counted(e)
  BY DEF DispatchInvariant
<1> SUFFICES DispatchTypes' /\ RowsDiffer' /\ Elsewhere(e) /\ Preflight(e)' /\ Counted(e)'
  BY ElsewhereStaysGood DEF DispatchInvariant
<1>2. CASE \E id \in JobIds : Enter(e, id)
  <2> USE <1>2
  <2>1. DispatchTypes'
    BY <1>1 DEF Enter, Return, DispatchTypes
  <2>2. Elsewhere(e) /\ RowsDiffer'
    BY <1>1 DEF Enter, Return, DispatchTypes, RowsDiffer, Elsewhere, HasRow
  <2>3. Preflight(e)'
    BY <1>1 DEF Enter, Return, DispatchTypes, Preflight
  <2>4. Counted(e)'
    BY <1>1 DEF Enter, Return, DispatchTypes, Counted, HasRow
  <2> QED
    BY <2>1, <2>2, <2>3, <2>4
<1>3. CASE Check(e)
  <2> USE <1>3
  <2>1. /\ step[e] = "counted" /\ UNCHANGED <<hostAuthority, started, rows>>
        /\ tries'[e] = IF step'[e] = "spark" THEN <<IF CachedHost THEN "host" ELSE "auto">>
                       ELSE tries[e]
    BY <1>1 DEF Check, DispatchTypes
  <2>2. /\ step'[e] \in {"exit 2", "exit 0", "exit 75", "spark", "claude"}
        /\ step'[e] = "spark" => ~CachedHost \/ hostAuthority[e]
    <3>1. PICK classified, fresh, execute \in BOOLEAN :
            Return(e, First(<<
              Rule(Refuses(e, classified, fresh), "exit 2"),
              Rule(~execute \/ Plans[job[e]].owner = "codex", "exit 0"),
              Rule(CachedHost /\ ~hostAuthority[e], "exit 75"),
              Rule(UseSpark(job[e]), "spark"),
              Otherwise("claude")>>))
      BY DEF Check
    <3> DEFINE rules == <<Rule(Refuses(e, classified, fresh), "exit 2"),
                          Rule(~execute \/ Plans[job[e]].owner = "codex", "exit 0"),
                          Rule(CachedHost /\ ~hostAuthority[e], "exit 75"),
                          Rule(UseSpark(job[e]), "spark"),
                          Otherwise("claude")>>
    <3>2. step'[e] = First(rules)
      BY <3>1, <1>1 DEF Return, DispatchTypes
    <3>3. DOMAIN rules = 1..5
      OBVIOUS
    <3>4. /\ rules[1].then = "exit 2" /\ rules[2].then = "exit 0" /\ rules[3].then = "exit 75"
          /\ rules[4].then = "spark" /\ rules[5].then = "claude" /\ rules[5].when
          /\ rules[3].when <=> CachedHost /\ ~hostAuthority[e]
      BY DEF Rule, Otherwise
    <3> HIDE DEF rules
    <3>5. First(rules) = IF rules[1].when THEN rules[1].then
                         ELSE IF rules[2].when THEN rules[2].then
                         ELSE IF rules[3].when THEN rules[3].then
                         ELSE IF rules[4].when THEN rules[4].then ELSE rules[5].then
      BY <3>3, <3>4, FirstOf5
    <3> QED
      BY <3>2, <3>4, <3>5
  <2>3. DispatchTypes'
    BY <1>1 DEF Check, Return, DispatchTypes
  <2>4. Elsewhere(e) /\ RowsDiffer'
    BY <1>1 DEF Check, Return, DispatchTypes, RowsDiffer, Elsewhere, HasRow
  <2>5. Preflight(e)'
    <3>1. step'[e] = "spark" => tries'[e] \in {<<"auto">>, <<"host">>}
                                 /\ (tries'[e] = <<"host">> => hostAuthority[e])
      BY <2>1, <2>2 DEF CachedHost
    <3>2. step'[e] # "spark" => tries'[e] = <<>>
      BY <2>1, <1>1 DEF Preflight
    <3> QED
      BY <2>1, <2>2, <3>1, <3>2 DEF Preflight
  <2>6. Counted(e)'
    BY <2>1, <2>2, <1>1 DEF Counted, HasRow
  <2> QED
    BY <2>3, <2>4, <2>5, <2>6
<1>4. CASE PreflightHandsOff(e)
  <2> USE <1>4
  <2>1. DispatchTypes'
    BY <1>1 DEF PreflightHandsOff, Return, DispatchTypes
  <2>2. Elsewhere(e) /\ RowsDiffer'
    BY <1>1 DEF PreflightHandsOff, Return, DispatchTypes, RowsDiffer, Elsewhere, HasRow
  <2>3. Preflight(e)'
    <3>1. /\ step[e] = "spark" /\ tries[e] \in {<<"auto">>, <<"host">>}
          /\ hostAuthority' = hostAuthority
          /\ step'[e] = (IF hostAuthority[e] THEN "retry" ELSE "exit 75")
          /\ tries'[e] = (IF hostAuthority[e] THEN Append(tries[e], "host") ELSE tries[e])
      BY <1>1 DEF PreflightHandsOff, Return, DispatchTypes, Preflight
    <3>2. /\ Append(<<"auto">>, "host") = <<"auto", "host">>
          /\ Append(<<"host">>, "host") = <<"host", "host">>
      BY AppendToOne
    <3>3. CASE hostAuthority[e]
      <4>1. tries'[e] \in {<<"auto", "host">>, <<"host", "host">>} /\ step'[e] = "retry"
        BY <3>1, <3>2, <3>3
      <4> QED
        BY <3>1, <3>3, <4>1 DEF Preflight
    <3>4. CASE ~hostAuthority[e]
      BY <3>1, <3>4, <1>1 DEF Preflight
    <3> QED
      BY <3>3, <3>4
  <2>4. Counted(e)'
    BY <1>1 DEF PreflightHandsOff, Return, DispatchTypes, Counted, HasRow
  <2> QED
    BY <2>1, <2>2, <2>3, <2>4
<1>5. CASE PreflightEnds(e)
  <2> USE <1>5
  <2>1. DispatchTypes'
    BY <1>1 DEF PreflightEnds, Return, DispatchTypes
  <2>2. Elsewhere(e) /\ RowsDiffer'
    BY <1>1 DEF PreflightEnds, Return, DispatchTypes, RowsDiffer, Elsewhere, HasRow
  <2>3. Preflight(e)'
    BY <1>1 DEF PreflightEnds, Return, DispatchTypes, Preflight
  <2>4. Counted(e)'
    BY <1>1 DEF PreflightEnds, Return, DispatchTypes, Counted, HasRow
  <2> QED
    BY <2>1, <2>2, <2>3, <2>4
<1>6. CASE RetryEnds(e)
  <2> USE <1>6
  <2>1. DispatchTypes'
    BY <1>1 DEF RetryEnds, Return, DispatchTypes
  <2>2. Elsewhere(e) /\ RowsDiffer'
    BY <1>1 DEF RetryEnds, Return, DispatchTypes, RowsDiffer, Elsewhere, HasRow
  <2>3. Preflight(e)'
    BY <1>1 DEF RetryEnds, Return, DispatchTypes, Preflight
  <2>4. Counted(e)'
    BY <1>1 DEF RetryEnds, Return, DispatchTypes, Counted, HasRow
  <2> QED
    BY <2>1, <2>2, <2>3, <2>4
<1>7. CASE StartClaude(e)
  <2> USE <1>7
  <2>1. DispatchTypes'
    BY <1>1 DEF StartClaude, Return, DispatchTypes
  <2>2. Elsewhere(e) /\ RowsDiffer'
    BY <1>1 DEF StartClaude, Return, DispatchTypes, RowsDiffer, Elsewhere, HasRow
  <2>3. Preflight(e)'
    BY <1>1 DEF StartClaude, Return, DispatchTypes, Preflight
  <2>4. Counted(e)'
    BY <1>1 DEF StartClaude, Return, DispatchTypes, Counted, HasRow
  <2> QED
    BY <2>1, <2>2, <2>3, <2>4
<1>8. CASE AppendRow(e)
  <2> USE <1>8
  <2>1. /\ step[e] = "claude-running" /\ rows' = Append(rows, e)
        /\ step' = [step EXCEPT ![e] = step'[e]] /\ step'[e] \in {"exit 0", "exit 2"}
        /\ UNCHANGED <<hostAuthority, tries, started>>
    BY <1>1 DEF AppendRow, Return, DispatchTypes
  <2>2. rows' \in Seq(Dispatches) /\ Len(rows') = Len(rows) + 1 /\ Len(rows) \in Nat
    <3>1. rows \in Seq(Dispatches)
      BY <1>1 DEF DispatchTypes
    <3>2. Append(rows, e) \in Seq(Dispatches) /\ Len(Append(rows, e)) = Len(rows) + 1
      BY <3>1, AppendProperties
    <3>3. Len(rows) \in Nat
      BY <3>1
    <3> QED
      BY <2>1, <3>2, <3>3
  <2>3. /\ DOMAIN rows = 1..Len(rows) /\ DOMAIN rows' = 1..(Len(rows) + 1)
        /\ \A k \in 1..Len(rows) : rows'[k] = rows[k]
        /\ rows'[Len(rows) + 1] = e
    <3>1. DOMAIN rows = 1..Len(rows) /\ DOMAIN rows' = 1..Len(rows')
      BY <2>2, <1>1, LenProperties DEF DispatchTypes
    <3>2. /\ \A k \in 1..Len(rows) : Append(rows, e)[k] = rows[k]
          /\ Append(rows, e)[Len(rows) + 1] = e
      BY <1>1, AppendProperties DEF DispatchTypes
    <3> QED
      BY <3>1, <3>2, <2>1, <2>2
  <2>4. ~HasRow(e) /\ e \in started
    BY <2>1, <1>1 DEF Counted
  <2>5. Len(rows) + 1 \in DOMAIN rows'
    BY <2>2, <2>3
  <2>6. DispatchTypes'
    BY <2>1, <2>2, <1>1 DEF DispatchTypes
  <2>7. Elsewhere(e) /\ RowsDiffer'
    <3>1. \A d \in Dispatches \ {e} : HasRow(d)' <=> HasRow(d)
      BY <2>2, <2>3 DEF HasRow
    <3>2. RowsDiffer'
      BY <1>1, <2>2, <2>3, <2>4 DEF RowsDiffer, HasRow
    <3> QED
      BY <3>1, <3>2, <2>1, <1>1 DEF Elsewhere, DispatchTypes
  <2>8. Preflight(e)'
    BY <1>1 DEF AppendRow, Return, DispatchTypes, Preflight
  <2>9. Counted(e)'
    BY <1>1, <2>1, <2>2, <2>3, <2>5 DEF Counted, HasRow
  <2> QED
    BY <2>6, <2>7, <2>8, <2>9
<1> QED
  BY <1>2, <1>3, <1>4, <1>5, <1>6, <1>7, <1>8 DEF DispatchStep

-----------------------------------------------------------------------------
(* The front doors together.                                                *)

\* Both invariants hold while runs and dispatches share the Spark files
\* (run-workflow.py, dispatch-efficient.py).
THEOREM ExecutorSound == ExecutorSpec => [](RunInvariant /\ DispatchInvariant)
<1>1. ExecutorInit => RunInvariant /\ DispatchInvariant
  <2> SUFFICES ASSUME ExecutorInit PROVE RunInvariant /\ DispatchInvariant
    OBVIOUS
  <2>1. RunInvariant
    BY DEF ExecutorInit, RunInit, RunInvariant, RunTypes, RunGood, Progress, Verdicts, Tried,
           Executing, Collected
  <2>2. DispatchInvariant
    <3>1. rows = <<>> /\ rows \in Seq(Dispatches) /\ DOMAIN rows = {}
      BY DEF ExecutorInit, DispatchInit
    <3> QED
      BY <3>1 DEF ExecutorInit, DispatchInit, DispatchInvariant, DispatchTypes, RowsDiffer,
                  Preflight, Counted, HasRow
  <2> QED
    BY <2>1, <2>2
<1>2. RunInvariant /\ DispatchInvariant /\ [ExecutorNext]_executorVars
        => RunInvariant' /\ DispatchInvariant'
  <2> SUFFICES ASSUME RunInvariant, DispatchInvariant, [ExecutorNext]_executorVars
               PROVE  RunInvariant' /\ DispatchInvariant'
    OBVIOUS
  <2>1. ASSUME UNCHANGED runVars PROVE RunInvariant'
    BY <2>1 DEF runVars, RunInvariant, RunTypes, RunGood, Progress, Verdicts, Tried
  <2>2. ASSUME UNCHANGED <<step, hostAuthority, tries, started, rows>>
        PROVE  DispatchInvariant'
    BY <2>2 DEF DispatchInvariant, DispatchTypes, RowsDiffer, Preflight, Counted, HasRow
  <2>3. ASSUME NEW r \in Runs, RunMoves(r) PROVE RunInvariant' /\ DispatchInvariant'
    BY <2>2, <2>3, RunKeeps DEF RunMoves, dispatchVars
  <2>4. ASSUME NEW d \in Dispatches, DispatchMoves(d)
        PROVE  RunInvariant' /\ DispatchInvariant'
    BY <2>1, <2>4, DispatchKeeps DEF DispatchMoves
  <2>5. ASSUME NEW j \in Jobs, Prepare(j), UNCHANGED runVars
        PROVE  RunInvariant' /\ DispatchInvariant'
    BY <2>1, <2>2, <2>5 DEF Prepare
  <2>6. CASE UNCHANGED <<runVars, dispatchVars>>
    BY <2>1, <2>2, <2>6 DEF dispatchVars
  <2> QED
    BY <2>3, <2>4, <2>5, <2>6 DEF ExecutorNext, executorVars
<1> QED
  BY <1>1, <1>2, PTL DEF ExecutorSpec

\* A run that decides "accept", or is in the economics history, ran Claude and has
\* evidence that satisfies the acceptance and the ladder (run-workflow.py
\* _final_decision, phase_ledger).
THEOREM AcceptsAreEarned == ExecutorSpec => []AcceptIsEarned
<1>1. RunInvariant => AcceptIsEarned
  <2> SUFFICES ASSUME RunInvariant, NEW r \in Runs,
                      (result[r] # NoResult /\ result[r].decision = "accept") \/ r \in history
               PROVE  /\ TaskOf[task[r]].execute /\ "claude" \in calls[r]
                      /\ evidence[r] # NoEvidence
                      /\ evidence[r].diff = {} /\ ~evidence[r].manifest.missing
                      /\ Criteria \subseteq evidence[r].manifest.verified
    BY DEF AcceptIsEarned
  <2>1. acceptance[r] = "passed" /\ ladder[r] = "L0-local"
    BY DEF RunInvariant, RunGood, Verdicts
  <2>2. /\ TaskOf[task[r]].execute /\ "claude" \in calls[r] /\ evidence[r] \in Evidence
        /\ evidence[r].diff = {} /\ ~evidence[r].manifest.missing
        /\ Criteria \subseteq evidence[r].manifest.verified
    BY <2>1 DEF RunInvariant, RunGood, Verdicts
  <2>3. DOMAIN evidence[r] # DOMAIN NoEvidence
    BY <2>2, RunInputs DEF EvidenceShape, NoEvidence
  <2> QED
    BY <2>2, <2>3
<1> QED
  BY <1>1, ExecutorSound, PTL

\* Spark runs on the host only for a caller with authority, at most twice in a run,
\* and who is sent to the host has not started Claude (run-workflow.py
\* phase_dispatch, dispatch-efficient.py).
THEOREM HostsNeedAuthority == ExecutorSpec => []HostNeedsAuthority
<1>1. RunInvariant /\ DispatchInvariant => HostNeedsAuthority
  <2> SUFFICES ASSUME RunInvariant, DispatchInvariant PROVE HostNeedsAuthority
    OBVIOUS
  <2> DEFINE Environments(t) == {t[i] : i \in DOMAIN t}
             Sequences5 == {<<>>, <<"auto">>, <<"host">>, <<"auto", "host">>, <<"host", "host">>}
  <2>1. ASSUME NEW t \in Sequences5
        PROVE  /\ "host" \in Environments(t) => t \notin {<<>>, <<"auto">>}
               /\ Len(t) <= 2 /\ (Len(t) = 2 => t[2] = "host")
    <3>1. CASE t = <<>>
      BY <3>1
    <3>2. CASE t = <<"auto">>
      BY <3>2
    <3>3. CASE t = <<"host">>
      BY <3>3
    <3>4. CASE t = <<"auto", "host">>
      BY <3>4
    <3>5. CASE t = <<"host", "host">>
      BY <3>5
    <3> QED
      BY <3>1, <3>2, <3>3, <3>4, <3>5
  <2>2. ASSUME NEW r \in Runs
        PROVE  /\ attempts[r] \in Sequences5
               /\ attempts[r] \notin {<<>>, <<"auto">>} => TaskOf[task[r]].authority
               /\ result[r] # NoResult /\ result[r].failure = "needs-host-execution"
                    => calls[r] = {}
    BY DEF RunInvariant, RunGood, Tried
  <2>3. ASSUME NEW d \in Dispatches
        PROVE  /\ tries[d] \in Sequences5
               /\ tries[d] \notin {<<>>, <<"auto">>} => hostAuthority[d]
               /\ step[d] = "exit 75" => d \notin started
    BY DEF DispatchInvariant, Preflight, Counted
  <2> HIDE DEF Sequences5
  <2> QED
    BY <2>1, <2>2, <2>3 DEF HostNeedsAuthority
<1> QED
  BY <1>1, ExecutorSound, PTL

\* A dispatch that returned has one row in the call ledger if it started Claude, and
\* none otherwise (dispatch-efficient.py main).
THEOREM LedgersCountCalls == ExecutorSpec => []LedgerCountsCalls
<1>1. DispatchInvariant => LedgerCountsCalls
  <2> SUFFICES ASSUME DispatchInvariant, NEW d \in Dispatches
               PROVE  LET own == Cardinality({k \in DOMAIN rows : rows[k] = d})
                      IN /\ step[d] \in Returned => own = IF d \in started THEN 1 ELSE 0
                         /\ own <= 1 /\ (own = 1 => d \in started)
    BY DEF LedgerCountsCalls
  <2> DEFINE Own == {k \in DOMAIN rows : rows[k] = d}
  <2>1. CASE HasRow(d)
    <3>1. PICK k \in DOMAIN rows : rows[k] = d
      BY <2>1 DEF HasRow
    <3>2. Own = {k}
      BY <3>1 DEF DispatchInvariant, RowsDiffer
    <3>3. Cardinality(Own) = 1
      BY <3>2, FS_Singleton
    <3>4. d \in started
      BY <2>1 DEF DispatchInvariant, Counted
    <3> QED
      BY <3>3, <3>4
  <2>2. CASE ~HasRow(d)
    <3>1. Own = {}
      BY <2>2 DEF HasRow
    <3>2. Cardinality(Own) = 0
      BY <3>1, FS_EmptySet
    <3>3. step[d] \in Returned => d \notin started
      BY <2>2 DEF DispatchInvariant, Counted, Returned
    <3> QED
      BY <3>2, <3>3
  <2> QED
    BY <2>1, <2>2
<1> QED
  BY <1>1, ExecutorSound, PTL

-----------------------------------------------------------------------------
(* The inductive invariant of the availability.                             *)

Answers == {"available", "inconclusive", "unavailable"}
LastSteps == {"ended", "probed", "classified"}

\* What is recorded as available, and not too old, was.
RecordIsProven ==
  availability.status = "available" =>
    /\ "fresh" \in DOMAIN availability
    /\ availability.fresh => availability.route \in proven

\* What a dispatch knows of itself, g, at every place.
Knows(g) ==
  /\ DOMAIN g = DOMAIN NoAttempt
  /\ g.at = "idle" => g.startup = "not-run"
  /\ g.at \in {"idle", "gate", "checked", "late", "startup"} => ~g.observed
  /\ g.at = "startup" => ~g.required
  /\ g.at \in LastSteps /\ g.evidence # "none" => g.route \in proven
  /\ g.required /\ g.startup = "available" => g.backed

\* An answer that is used is one to this run's own question.
Answered(g) ==
  /\ g.observed /\ g.at \in {"running", "ended"} =>
       g.again \in Answers /\ (g.again = "available" => g.live)
  /\ g.at = "probed" /\ g.evidence = "none" /\ g.mode # "off" =>
       g.again \in Answers /\ (g.again = "available" => g.live)
  /\ g.at \notin {"classified", "over"} => g.class = "none"
  /\ g.class \in CountedFailures => g.evidence # "none" \/ g.live \/ g.mode = "off"

ApiInvariant ==
  /\ attempt = [d \in Dispatchers |-> attempt[d]] /\ RecordIsProven
  /\ \A d \in Dispatchers : Knows(attempt[d]) /\ Answered(attempt[d])


Fields == {"at", "route", "learns", "required", "mode", "profile", "startup", "tools",
           "again", "observed", "evidence", "end", "class", "backed", "live"}

\* The fields of an attempt.
LEMMA FieldNames == DOMAIN NoAttempt = Fields
BY DEF NoAttempt, Fields

\* A step that is about dispatch d alone, and takes nothing back.
StepOf(d) ==
  /\ attempt' = [e \in Dispatchers |-> attempt'[e]]
  /\ \A e \in Dispatchers \ {d} : attempt'[e] = attempt[e]
  /\ proven \subseteq proven'

\* What an attempt becomes, field by field.
LEMMA Becoming ==
  ASSUME NEW d \in Dispatchers, NEW with, ApiInvariant, proven \subseteq proven',
         Becomes(d, with)
  PROVE  /\ StepOf(d)
         /\ DOMAIN attempt'[d] = Fields
         /\ \A x \in Fields : attempt'[d][x] = IF x \in DOMAIN with THEN with[x]
                                               ELSE attempt[d][x]
<1>1. attempt = [e \in Dispatchers |-> attempt[e]] /\ DOMAIN attempt[d] = Fields
  BY FieldNames DEF ApiInvariant, Knows
<1>2. attempt' = [attempt EXCEPT ![d] = Updated(attempt[d], with)]
  BY DEF Becomes
<1>3. /\ attempt' = [e \in Dispatchers |-> attempt'[e]]
      /\ \A e \in Dispatchers \ {d} : attempt'[e] = attempt[e]
      /\ attempt'[d] = Updated(attempt[d], with)
  BY <1>1, <1>2
<1>4. attempt'[d] = [x \in Fields |-> IF x \in DOMAIN with THEN with[x] ELSE attempt[d][x]]
  BY <1>1, <1>3 DEF Updated
<1> QED
  BY <1>3, <1>4 DEF StepOf

\* A step of one dispatch is checked on that dispatch.
LEMMA OthersStayGood ==
  ASSUME NEW d \in Dispatchers, ApiInvariant, StepOf(d), RecordIsProven',
         Knows(attempt[d])', Answered(attempt[d])'
  PROVE  ApiInvariant'
<1>1. ASSUME NEW e \in Dispatchers \ {d} PROVE Knows(attempt[e])' /\ Answered(attempt[e])'
  <2>1. attempt'[e] = attempt[e] /\ Knows(attempt[e]) /\ Answered(attempt[e])
    BY DEF ApiInvariant, StepOf
  <2>2. Answered(attempt[e])'
    BY <2>1 DEF Answered
  <2>3. Knows(attempt[e])'
    BY <2>1 DEF Knows, StepOf
  <2> QED
    BY <2>2, <2>3
<1> QED
  BY <1>1 DEF ApiInvariant, StepOf

\* A probe records what it saw.
LEMMA ProbeRecords ==
  ASSUME NEW d, NEW x, RecordIsProven, Probe(d, x)
  PROVE  RecordIsProven' /\ proven \subseteq proven'
<1>1. CASE x.says = "available"
  <2>1. availability' = Available(attempt[d].route, x.lists, x.lists)
        /\ proven' = proven \cup {attempt[d].route}
    BY <1>1 DEF Probe
  <2>2. availability'.route = attempt[d].route /\ "fresh" \in DOMAIN availability'
    BY <2>1 DEF Available
  <2> QED
    BY <2>1, <2>2 DEF RecordIsProven
<1>2. CASE x.says # "available"
  BY <1>2 DEF Probe, RecordIsProven, Suspected
<1> QED
  BY <1>1, <1>2

\* An exchange always answers.
LEMMA ExchangeAnswers ==
  ASSUME NEW x \in Exchanges
  PROVE  x.says \in Answers
BY DEF Exchanges, Exchange, Answers


\* An attempt that is over keeps what the properties are about.
LEMMA Ending ==
  ASSUME NEW d \in Dispatchers, ApiInvariant, proven \subseteq proven', RecordIsProven',
         Becomes(d, Over)
  PROVE  ApiInvariant'
<1>1. Knows(attempt[d]) /\ Answered(attempt[d])
  BY DEF ApiInvariant
<1>2. StepOf(d) /\ DOMAIN attempt'[d] = DOMAIN NoAttempt
  BY Becoming, FieldNames
<1>3. /\ attempt'[d].at = "over" /\ ~attempt'[d].observed
      /\ attempt'[d].required = attempt[d].required /\ attempt'[d].mode = attempt[d].mode
      /\ attempt'[d].startup = attempt[d].startup /\ attempt'[d].class = attempt[d].class
      /\ attempt'[d].evidence = attempt[d].evidence
      /\ attempt'[d].backed = attempt[d].backed /\ attempt'[d].live = attempt[d].live
  BY Becoming DEF Fields, Over
<1>4. Knows(attempt[d])'
  BY <1>1, <1>2, <1>3 DEF Knows, LastSteps
<1>5. Answered(attempt[d])'
  BY <1>1, <1>3 DEF Answered, LastSteps
<1> QED
  BY <1>2, <1>4, <1>5, OthersStayGood

\* An attempt that is not classified yet does not count.
LEMMA NoneIsNotCounted == "none" \notin CountedFailures
BY DEF CountedFailures

\* The steps of a dispatch before its worktree is made.
LEMMA BeginDispatchKeeps ==
  ASSUME ApiInvariant, NEW d \in Dispatchers, BeginDispatch(d)
  PROVE  ApiInvariant'
<1>1. Knows(attempt[d]) /\ Answered(attempt[d]) /\ RecordIsProven
  BY DEF ApiInvariant
<1>2. At(d, "idle")
  BY DEF BeginDispatch
<1>3. PICK j \in Asked :
        Becomes(d, [at |-> IF j.required THEN "gate" ELSE "late",
                    route |-> Resolve(j.route, j.learns), learns |-> StillLearns(j.learns),
                    required |-> j.required, mode |-> j.mode, profile |-> j.profile])
  BY DEF BeginDispatch
<1>4. Becomes(d, [at |-> IF j.required THEN "gate" ELSE "late", route |-> Resolve(j.route,
                  j.learns), learns |-> StillLearns(j.learns), required |-> j.required,
                  mode |-> j.mode, profile |-> j.profile])
  BY <1>3
<1>5. proven \subseteq proven' /\ RecordIsProven'
  BY <1>1 DEF BeginDispatch, RecordIsProven
<1>6. StepOf(d) /\ DOMAIN attempt'[d] = DOMAIN NoAttempt
  BY <1>4, <1>5, Becoming, FieldNames
<1>7. /\ attempt'[d].at = (IF j.required THEN "gate" ELSE "late")
      /\ attempt'[d].route = Resolve(j.route, j.learns)
      /\ attempt'[d].required = j.required /\ attempt'[d].mode = j.mode
      /\ attempt'[d].startup = attempt[d].startup /\ attempt'[d].observed = attempt[d].observed
      /\ attempt'[d].again = attempt[d].again /\ attempt'[d].evidence = attempt[d].evidence
      /\ attempt'[d].class = attempt[d].class /\ attempt'[d].backed = attempt[d].backed
      /\ attempt'[d].live = attempt[d].live
  BY <1>4, <1>5, Becoming DEF Fields
<1>8. Knows(attempt[d])'
  BY <1>1, <1>5, <1>6, <1>7, <1>2 DEF At, Knows, LastSteps
<1>9. Answered(attempt[d])'
  BY <1>1, <1>7, NoneIsNotCounted, <1>2 DEF At, Answered, Answers, LastSteps
<1> QED
  BY <1>5, <1>6, <1>8, <1>9, OthersStayGood

LEMMA GateFromCacheKeeps ==
  ASSUME ApiInvariant, NEW d \in Dispatchers, GateFromCache(d)
  PROVE  ApiInvariant'
<1>1. Knows(attempt[d]) /\ Answered(attempt[d]) /\ RecordIsProven
  BY DEF ApiInvariant
<1>2. At(d, "gate") /\ proven' = proven
  BY DEF GateFromCache
<1>3. attempt[d].route \in proven
  BY <1>1 DEF GateFromCache, MayUseCache, Cached, RecordIsProven
<1>4. Becomes(d, [at |-> "checked", startup |-> "available",
                  tools |-> availability.verified /\ availability.listed,
                  backed |-> attempt[d].route \in proven'])
  BY DEF GateFromCache, Gated
<1>5. proven \subseteq proven' /\ RecordIsProven'
  BY <1>1 DEF GateFromCache, RecordIsProven
<1>6. StepOf(d) /\ DOMAIN attempt'[d] = DOMAIN NoAttempt
  BY <1>4, <1>5, Becoming, FieldNames
<1>7. /\ attempt'[d].at = "checked" /\ attempt'[d].route = attempt[d].route
      /\ attempt'[d].required = attempt[d].required /\ attempt'[d].mode = attempt[d].mode
      /\ attempt'[d].startup = "available" /\ attempt'[d].observed = attempt[d].observed
      /\ attempt'[d].again = attempt[d].again /\ attempt'[d].evidence = attempt[d].evidence
      /\ attempt'[d].class = attempt[d].class
      /\ attempt'[d].backed = (attempt[d].route \in proven')
      /\ attempt'[d].live = attempt[d].live
  BY <1>4, <1>5, Becoming DEF Fields
<1>8. Knows(attempt[d])'
  BY <1>1, <1>5, <1>6, <1>7, <1>2, <1>3 DEF At, Knows, LastSteps
<1>9. Answered(attempt[d])'
  BY <1>1, <1>7, NoneIsNotCounted, <1>2, <1>3 DEF At, Answered, Answers, LastSteps
<1> QED
  BY <1>5, <1>6, <1>8, <1>9, OthersStayGood

LEMMA GateLiveKeeps ==
  ASSUME ApiInvariant, NEW d \in Dispatchers, GateLive(d)
  PROVE  ApiInvariant'
<1>1. Knows(attempt[d]) /\ Answered(attempt[d]) /\ RecordIsProven
  BY DEF ApiInvariant
<1>2. At(d, "gate")
  BY DEF GateLive
<1>3. PICK x \in Exchanges :
        /\ IF x.says = "available"
           THEN /\ availability' = Available(attempt[d].route, TRUE, x.lists)
                /\ proven' = proven \cup {attempt[d].route}
           ELSE UNCHANGED <<availability, proven>>
        /\ Gated(d, x.says, x.lists)
  BY DEF GateLive
<1>4. x.says = "available" => attempt[d].route \in proven'
  BY <1>3
<1>5. Becomes(d, [at |-> "checked", startup |-> x.says, tools |-> x.lists,
                  backed |-> attempt[d].route \in proven'])
  BY <1>3 DEF Gated
<1>6. proven \subseteq proven' /\ RecordIsProven'
  BY <1>1, <1>3 DEF RecordIsProven, Available
<1>7. StepOf(d) /\ DOMAIN attempt'[d] = DOMAIN NoAttempt
  BY <1>5, <1>6, Becoming, FieldNames
<1>8. /\ attempt'[d].at = "checked" /\ attempt'[d].route = attempt[d].route
      /\ attempt'[d].required = attempt[d].required /\ attempt'[d].mode = attempt[d].mode
      /\ attempt'[d].startup = x.says /\ attempt'[d].observed = attempt[d].observed
      /\ attempt'[d].again = attempt[d].again /\ attempt'[d].evidence = attempt[d].evidence
      /\ attempt'[d].class = attempt[d].class
      /\ attempt'[d].backed = (attempt[d].route \in proven')
      /\ attempt'[d].live = attempt[d].live
  BY <1>5, <1>6, Becoming DEF Fields
<1>9. Knows(attempt[d])'
  BY <1>1, <1>6, <1>7, <1>8, <1>2, <1>4 DEF At, Knows, LastSteps
<1>10. Answered(attempt[d])'
  BY <1>1, <1>8, NoneIsNotCounted, <1>2, <1>4 DEF At, Answered, Answers, LastSteps
<1> QED
  BY <1>6, <1>7, <1>9, <1>10, OthersStayGood

LEMMA LeaveGateKeeps ==
  ASSUME ApiInvariant, NEW d \in Dispatchers, LeaveGate(d)
  PROVE  ApiInvariant'
<1>1. Knows(attempt[d]) /\ Answered(attempt[d]) /\ RecordIsProven
  BY DEF ApiInvariant
<1>2. proven \subseteq proven' /\ RecordIsProven'
  BY <1>1 DEF LeaveGate, RecordIsProven
<1>3. CASE Blocked(d)
  BY <1>2, <1>3, Ending DEF Blocked
<1>4. CASE Becomes(d, [at |-> "late"])
  <2>1. At(d, "checked")
    BY DEF LeaveGate
  <2>2. Becomes(d, [at |-> "late"])
    BY <1>4
  <2>3. proven \subseteq proven' /\ RecordIsProven'
    BY <1>2
  <2>4. StepOf(d) /\ DOMAIN attempt'[d] = DOMAIN NoAttempt
    BY <2>2, <2>3, Becoming, FieldNames
  <2>5. /\ attempt'[d].at = "late" /\ attempt'[d].route = attempt[d].route
        /\ attempt'[d].required = attempt[d].required /\ attempt'[d].mode = attempt[d].mode
        /\ attempt'[d].startup = attempt[d].startup
        /\ attempt'[d].observed = attempt[d].observed
        /\ attempt'[d].again = attempt[d].again /\ attempt'[d].evidence = attempt[d].evidence
        /\ attempt'[d].class = attempt[d].class /\ attempt'[d].backed = attempt[d].backed
        /\ attempt'[d].live = attempt[d].live
    BY <2>2, <2>3, Becoming DEF Fields
  <2>6. Knows(attempt[d])'
    BY <1>1, <2>3, <2>4, <2>5, <2>1 DEF At, Knows, LastSteps
  <2>7. Answered(attempt[d])'
    BY <1>1, <2>5, NoneIsNotCounted, <2>1 DEF At, Answered, Answers, LastSteps
  <2> QED
    BY <2>3, <2>4, <2>6, <2>7, OthersStayGood
<1> QED
  BY <1>3, <1>4 DEF LeaveGate

\* The steps up to the start of the model.
LEMMA ResolveAgainKeeps ==
  ASSUME ApiInvariant, NEW d \in Dispatchers, ResolveAgain(d)
  PROVE  ApiInvariant'
<1>1. Knows(attempt[d]) /\ Answered(attempt[d]) /\ RecordIsProven
  BY DEF ApiInvariant
<1>2. At(d, "late")
  BY DEF ResolveAgain
<1>3. Becomes(d, [at |-> IF attempt[d].required \/ attempt[d].mode # "always"
                         THEN "running" ELSE "startup",
                  route |-> Resolve(attempt[d].route, attempt[d].learns)])
  BY DEF ResolveAgain
<1>4. proven \subseteq proven' /\ RecordIsProven'
  BY <1>1 DEF ResolveAgain, RecordIsProven
<1>5. StepOf(d) /\ DOMAIN attempt'[d] = DOMAIN NoAttempt
  BY <1>3, <1>4, Becoming, FieldNames
<1>6. /\ attempt'[d].at = (IF attempt[d].required \/ attempt[d].mode # "always"
                             THEN "running" ELSE "startup")
      /\ attempt'[d].route = Resolve(attempt[d].route, attempt[d].learns)
      /\ attempt'[d].required = attempt[d].required /\ attempt'[d].mode = attempt[d].mode
      /\ attempt'[d].startup = attempt[d].startup /\ attempt'[d].observed = attempt[d].observed
      /\ attempt'[d].again = attempt[d].again /\ attempt'[d].evidence = attempt[d].evidence
      /\ attempt'[d].class = attempt[d].class /\ attempt'[d].backed = attempt[d].backed
      /\ attempt'[d].live = attempt[d].live
  BY <1>3, <1>4, Becoming DEF Fields
<1>7. Knows(attempt[d])'
  BY <1>1, <1>4, <1>5, <1>6, <1>2 DEF At, Knows, LastSteps
<1>8. Answered(attempt[d])'
  BY <1>1, <1>6, NoneIsNotCounted, <1>2 DEF At, Knows, Answered, Answers, LastSteps
<1> QED
  BY <1>4, <1>5, <1>7, <1>8, OthersStayGood

LEMMA StartupProbeKeeps ==
  ASSUME ApiInvariant, NEW d \in Dispatchers, StartupProbe(d)
  PROVE  ApiInvariant'
<1>1. Knows(attempt[d]) /\ Answered(attempt[d]) /\ RecordIsProven
  BY DEF ApiInvariant
<1>2. PICK x \in Exchanges :
        /\ Probe(d, x)
        /\ Blocked(d) \/ Becomes(d, [at |-> "running", startup |-> x.says])
  BY DEF StartupProbe
<1>3. proven \subseteq proven' /\ RecordIsProven'
  BY <1>1, <1>2, ProbeRecords
<1>4. CASE Blocked(d)
  BY <1>3, <1>4, Ending DEF Blocked
<1>5. CASE Becomes(d, [at |-> "running", startup |-> x.says])
  <2>1. At(d, "startup")
    BY DEF StartupProbe
  <2>2. Becomes(d, [at |-> "running", startup |-> x.says])
    BY <1>5
  <2>3. proven \subseteq proven' /\ RecordIsProven'
    BY <1>3
  <2>4. StepOf(d) /\ DOMAIN attempt'[d] = DOMAIN NoAttempt
    BY <2>2, <2>3, Becoming, FieldNames
  <2>5. /\ attempt'[d].at = "running" /\ attempt'[d].route = attempt[d].route
        /\ attempt'[d].required = attempt[d].required /\ attempt'[d].mode = attempt[d].mode
        /\ attempt'[d].startup = x.says /\ attempt'[d].observed = attempt[d].observed
        /\ attempt'[d].again = attempt[d].again /\ attempt'[d].evidence = attempt[d].evidence
        /\ attempt'[d].class = attempt[d].class /\ attempt'[d].backed = attempt[d].backed
        /\ attempt'[d].live = attempt[d].live
    BY <2>2, <2>3, Becoming DEF Fields
  <2>6. Knows(attempt[d])'
    BY <1>1, <2>3, <2>4, <2>5, <2>1 DEF At, Knows, LastSteps
  <2>7. Answered(attempt[d])'
    BY <1>1, <2>5, NoneIsNotCounted, <2>1 DEF At, Knows, Answered, Answers, LastSteps
  <2> QED
    BY <2>3, <2>4, <2>6, <2>7, OthersStayGood
<1> QED
  BY <1>2, <1>4, <1>5

\* The steps of the run and of what is made of it.
LEMMA ObserveKeeps ==
  ASSUME ApiInvariant, NEW d \in Dispatchers, Observe(d)
  PROVE  ApiInvariant'
<1>1. Knows(attempt[d]) /\ Answered(attempt[d]) /\ RecordIsProven
  BY DEF ApiInvariant
<1>2. At(d, "running")
  BY DEF Observe
<1>3. PICK x \in Exchanges :
        /\ Probe(d, x)
        /\ Becomes(d, [observed |-> TRUE, again |-> x.says, live |-> x.says = "available"])
  BY DEF Observe
<1>4. x.says \in Answers
  BY ExchangeAnswers
<1>5. Becomes(d, [observed |-> TRUE, again |-> x.says, live |-> x.says = "available"])
  BY <1>3
<1>6. proven \subseteq proven' /\ RecordIsProven'
  BY <1>1, <1>3, ProbeRecords
<1>7. StepOf(d) /\ DOMAIN attempt'[d] = DOMAIN NoAttempt
  BY <1>5, <1>6, Becoming, FieldNames
<1>8. /\ attempt'[d].at = attempt[d].at /\ attempt'[d].route = attempt[d].route
      /\ attempt'[d].required = attempt[d].required /\ attempt'[d].mode = attempt[d].mode
      /\ attempt'[d].startup = attempt[d].startup /\ attempt'[d].observed = TRUE
      /\ attempt'[d].again = x.says /\ attempt'[d].evidence = attempt[d].evidence
      /\ attempt'[d].class = attempt[d].class /\ attempt'[d].backed = attempt[d].backed
      /\ attempt'[d].live = (x.says = "available")
  BY <1>5, <1>6, Becoming DEF Fields
<1>9. Knows(attempt[d])'
  BY <1>1, <1>6, <1>7, <1>8, <1>2, <1>4 DEF At, Knows, LastSteps
<1>10. Answered(attempt[d])'
  BY <1>1, <1>8, NoneIsNotCounted, <1>2, <1>4 DEF At, Answered, Answers, LastSteps
<1> QED
  BY <1>6, <1>7, <1>9, <1>10, OthersStayGood

LEMMA ModelEndsKeeps ==
  ASSUME ApiInvariant, NEW d \in Dispatchers, ModelEnds(d)
  PROVE  ApiInvariant'
<1>1. Knows(attempt[d]) /\ Answered(attempt[d]) /\ RecordIsProven
  BY DEF ApiInvariant
<1>2. At(d, "running")
  BY DEF ModelEnds
<1>3. PICK said \in {"none", "acknowledgement", "work"}, ending \in {"exit", "error", "timeout"} :
        /\ Becomes(d, [at |-> "ended", evidence |-> said, end |-> ending])
        /\ proven' = IF said = "none" THEN proven ELSE proven \cup {attempt[d].route}
  BY DEF ModelEnds
<1>4. said # "none" => attempt[d].route \in proven'
  BY <1>3
<1>5. Becomes(d, [at |-> "ended", evidence |-> said, end |-> ending])
  BY <1>3
<1>6. proven \subseteq proven' /\ RecordIsProven'
  BY <1>1, <1>3 DEF ModelEnds, RecordIsProven
<1>7. StepOf(d) /\ DOMAIN attempt'[d] = DOMAIN NoAttempt
  BY <1>5, <1>6, Becoming, FieldNames
<1>8. /\ attempt'[d].at = "ended" /\ attempt'[d].route = attempt[d].route
      /\ attempt'[d].required = attempt[d].required /\ attempt'[d].mode = attempt[d].mode
      /\ attempt'[d].startup = attempt[d].startup /\ attempt'[d].observed = attempt[d].observed
      /\ attempt'[d].again = attempt[d].again /\ attempt'[d].evidence = said
      /\ attempt'[d].class = attempt[d].class /\ attempt'[d].backed = attempt[d].backed
      /\ attempt'[d].live = attempt[d].live
  BY <1>5, <1>6, Becoming DEF Fields
<1>9. Knows(attempt[d])'
  BY <1>1, <1>6, <1>7, <1>8, <1>2, <1>4 DEF At, Knows, LastSteps
<1>10. Answered(attempt[d])'
  BY <1>1, <1>8, NoneIsNotCounted, <1>2, <1>4 DEF At, Answered, Answers, LastSteps
<1> QED
  BY <1>6, <1>7, <1>9, <1>10, OthersStayGood

LEMMA ProbeZeroOutputKeeps ==
  ASSUME ApiInvariant, NEW d \in Dispatchers, ProbeZeroOutput(d)
  PROVE  ApiInvariant'
<1>1. Knows(attempt[d]) /\ Answered(attempt[d]) /\ RecordIsProven
  BY DEF ApiInvariant
<1>2. At(d, "ended")
  BY DEF ProbeZeroOutput
<1>3. CASE NeedsProbe(attempt[d])
  <2>1. PICK x \in Exchanges :
          /\ Probe(d, x)
          /\ Becomes(d, [at |-> "probed", again |-> x.says, live |-> x.says = "available"])
    BY <1>3 DEF ProbeZeroOutput
  <2>2. x.says \in Answers
    BY ExchangeAnswers
  <2>3. Becomes(d, [at |-> "probed", again |-> x.says, live |-> x.says = "available"])
    BY <2>1
  <2>4. proven \subseteq proven' /\ RecordIsProven'
    BY <1>1, <2>1, ProbeRecords
  <2>5. StepOf(d) /\ DOMAIN attempt'[d] = DOMAIN NoAttempt
    BY <2>3, <2>4, Becoming, FieldNames
  <2>6. /\ attempt'[d].at = "probed" /\ attempt'[d].route = attempt[d].route
        /\ attempt'[d].required = attempt[d].required /\ attempt'[d].mode = attempt[d].mode
        /\ attempt'[d].startup = attempt[d].startup
        /\ attempt'[d].observed = attempt[d].observed
        /\ attempt'[d].again = x.says /\ attempt'[d].evidence = attempt[d].evidence
        /\ attempt'[d].class = attempt[d].class /\ attempt'[d].backed = attempt[d].backed
        /\ attempt'[d].live = (x.says = "available")
    BY <2>3, <2>4, Becoming DEF Fields
  <2>7. Knows(attempt[d])'
    BY <1>1, <2>4, <2>5, <2>6, <1>2, <2>2 DEF At, Knows, LastSteps
  <2>8. Answered(attempt[d])'
    BY <1>1, <2>6, NoneIsNotCounted, <1>2, <2>2 DEF At, Answered, Answers, LastSteps
  <2> QED
    BY <2>4, <2>5, <2>7, <2>8, OthersStayGood
<1>4. CASE ~NeedsProbe(attempt[d])
  <2>1. Becomes(d, [at |-> "probed",
                    again |-> IF attempt[d].evidence = "none" THEN attempt[d].again ELSE "not-run"])
    BY <1>4 DEF ProbeZeroOutput
  <2>2. proven \subseteq proven' /\ RecordIsProven'
    BY <1>1, <1>4 DEF ProbeZeroOutput, RecordIsProven
  <2>3. StepOf(d) /\ DOMAIN attempt'[d] = DOMAIN NoAttempt
    BY <2>1, <2>2, Becoming, FieldNames
  <2>4. /\ attempt'[d].at = "probed" /\ attempt'[d].route = attempt[d].route
        /\ attempt'[d].required = attempt[d].required /\ attempt'[d].mode = attempt[d].mode
        /\ attempt'[d].startup = attempt[d].startup
        /\ attempt'[d].observed = attempt[d].observed
        /\ attempt'[d].again = (IF attempt[d].evidence = "none" THEN attempt[d].again
                                ELSE "not-run")
        /\ attempt'[d].evidence = attempt[d].evidence
        /\ attempt'[d].class = attempt[d].class /\ attempt'[d].backed = attempt[d].backed
        /\ attempt'[d].live = attempt[d].live
    BY <2>1, <2>2, Becoming DEF Fields
  <2>5. Knows(attempt[d])'
    BY <1>1, <2>2, <2>3, <2>4, <1>2, <1>4 DEF At, Knows, LastSteps
  <2>6. Answered(attempt[d])'
    BY <1>1, <2>4, NoneIsNotCounted, <1>2, <1>4 DEF At, NeedsProbe, Answered, Answers, LastSteps
  <2> QED
    BY <2>2, <2>3, <2>5, <2>6, OthersStayGood
<1> QED
  BY <1>3, <1>4

\* A run that said nothing, and whose probe did not find the API there, fails of
\* its transport: the model is not to blame.
LEMMA SilentFailuresAreNotCounted ==
  ASSUME NEW g, g.evidence = "none", g.again \in {"inconclusive", "unavailable"}
  PROVE  FailureClass(AttemptOf(g), FALSE) \notin CountedFailures
<1> DEFINE outcome == DispatchOutcome(g)
           x == AttemptOf(g)
<1>1. outcome \in {"api-error", "network_error"}
  <2> DEFINE rules ==
        <<Rule(g.end = "error", IF g.evidence = "work" THEN "error-with-diff" ELSE "api-error"),
          Rule(g.again \in {"unavailable", "inconclusive"}, "network_error"),
          Rule(g.end = "timeout" /\ g.startup = "available", "execution_timeout"),
          Rule(g.end = "timeout", "timeout"),
          Rule(g.evidence = "work", "success"),
          Otherwise("no_useful_progress")>>
  <2>1. outcome = First(rules)
    BY DEF DispatchOutcome
  <2>2. DOMAIN rules = 1..6
    OBVIOUS
  <2>3. /\ rules[1].then = "api-error" /\ rules[2].then = "network_error"
        /\ rules[2].when /\ rules[6].when
    BY DEF Rule, Otherwise
  <2> HIDE DEF rules
  <2> QED
    BY <2>1, <2>2, <2>3, FirstOf6
<1> HIDE DEF outcome
<1>2. /\ x.outcome = "other" /\ ~x.report /\ ~x.mismatch /\ x.direction = "unknown"
      /\ x.progress = "none" /\ x.transport /\ ~x.approval
  BY <1>1 DEF AttemptOf, outcome
<1> HIDE DEF x
<1>3. ~Useful(x, FALSE) /\ Transport(x) /\ ~Interacted(x, FALSE)
  BY <1>2 DEF Useful, Transport, Interacted
<1> DEFINE rules ==
     <<Rule(x.outcome = "runtime_evidence_error", "control-plane-evidence-error"),
       Rule(x.direction = "off-plan", "direction-deviation"),
       Rule(x.mismatch /\ ~FALSE, "report-evidence-mismatch"),
       Rule(Useful(x, FALSE) /\ x.outcome = "success", "none"),
       Rule(Useful(x, FALSE), "recoverable-evidence"),
       Rule(x.approval, "external-approval-blocker"),
       Rule(x.outcome = "execution_timeout" /\ x.progress # "blocker", "model-no-progress"),
       Rule(Transport(x) /\ ~Interacted(x, FALSE), "transient-transport"),
       Rule(x.progress = "acknowledgement", "acknowledgement-only"),
       Rule(x.clean, "model-no-progress"),
       Otherwise("unclassified-execution-failure")>>
<1>4. FailureClass(x, FALSE) = First(rules)
  BY DEF FailureClass
<1>5. DOMAIN rules = 1..11
  OBVIOUS
<1>6. /\ ~rules[1].when /\ ~rules[2].when /\ ~rules[3].when /\ ~rules[4].when
      /\ ~rules[5].when /\ ~rules[6].when /\ ~rules[7].when
  BY <1>2, <1>3 DEF Rule
<1>7. rules[8].when /\ rules[8].then = "transient-transport" /\ rules[11].when
  BY <1>3 DEF Rule, Otherwise
<1> HIDE DEF rules
<1>8. PICK k \in 1..11 : /\ rules[k].when /\ First(rules) = rules[k].then
                         /\ \A j \in 1..11 : j < k => ~rules[j].when
  <2>1. 11 \in Nat \ {0}
    OBVIOUS
  <2> QED
    BY <2>1, <1>5, <1>7, FirstDecides
<1>9. k = 8
  <2>1. ~(8 < k)
    BY <1>7, <1>8
  <2>2. k \in 1..8
    BY <2>1
  <2>3. k \notin 1..7
    <3>1. \A n \in 1..7 : n = 1 \/ n = 2 \/ n = 3 \/ n = 4 \/ n = 5 \/ n = 6 \/ n = 7
      OBVIOUS
    <3> QED
      BY <3>1, <1>6, <1>8
  <2> QED
    BY <2>2, <2>3
<1> QED
  BY <1>4, <1>7, <1>8, <1>9 DEF CountedFailures, x

LEMMA ClassifyKeeps ==
  ASSUME ApiInvariant, NEW d \in Dispatchers, Classify(d)
  PROVE  ApiInvariant'
<1>1. Knows(attempt[d]) /\ Answered(attempt[d]) /\ RecordIsProven
  BY DEF ApiInvariant
<1>2. At(d, "probed")
  BY DEF Classify
<1>3. FailureClass(AttemptOf(attempt[d]), attempt[d].evidence = "work") \in CountedFailures
        => attempt[d].evidence # "none" \/ attempt[d].live \/ attempt[d].mode = "off"
  <2>1. CASE attempt[d].evidence = "none" /\ ~attempt[d].live /\ attempt[d].mode # "off"
    <3>1. attempt[d].again \in {"inconclusive", "unavailable"}
      BY <2>1, <1>1, <1>2 DEF Answered, Answers, At
    <3>2. (attempt[d].evidence = "work") = FALSE
      BY <2>1
    <3> QED
      BY <2>1, <3>1, <3>2, SilentFailuresAreNotCounted
  <2> QED
    BY <2>1
<1>4. Becomes(d, [at |-> "classified", class |-> FailureClass(AttemptOf(attempt[d]),
                  attempt[d].evidence = "work")])
  BY DEF Classify
<1>5. proven \subseteq proven' /\ RecordIsProven'
  BY <1>1 DEF Classify, RecordIsProven
<1>6. StepOf(d) /\ DOMAIN attempt'[d] = DOMAIN NoAttempt
  BY <1>4, <1>5, Becoming, FieldNames
<1>7. /\ attempt'[d].at = "classified" /\ attempt'[d].route = attempt[d].route
      /\ attempt'[d].required = attempt[d].required /\ attempt'[d].mode = attempt[d].mode
      /\ attempt'[d].startup = attempt[d].startup /\ attempt'[d].observed = attempt[d].observed
      /\ attempt'[d].again = attempt[d].again /\ attempt'[d].evidence = attempt[d].evidence
      /\ attempt'[d].class = (FailureClass(AttemptOf(attempt[d]), attempt[d].evidence = "work"))
      /\ attempt'[d].backed = attempt[d].backed
      /\ attempt'[d].live = attempt[d].live
  BY <1>4, <1>5, Becoming DEF Fields
<1>8. Knows(attempt[d])'
  BY <1>1, <1>5, <1>6, <1>7, <1>2, <1>3 DEF At, Knows, LastSteps
<1>9. Answered(attempt[d])'
  BY <1>1, <1>7, NoneIsNotCounted, <1>2, <1>3 DEF At, Answered, Answers, LastSteps
<1> QED
  BY <1>5, <1>6, <1>8, <1>9, OthersStayGood

LEMMA RememberKeeps ==
  ASSUME ApiInvariant, NEW d \in Dispatchers, Remember(d)
  PROVE  ApiInvariant'
<1>1. Knows(attempt[d]) /\ Answered(attempt[d]) /\ RecordIsProven
  BY DEF ApiInvariant
<1>2. At(d, "classified") /\ Becomes(d, Over) /\ proven' = proven
  BY DEF Remember
<1>3. RecordIsProven'
  <2>1. CASE attempt[d].evidence = "none"
    BY <1>1, <1>2, <2>1 DEF Remember, RecordIsProven
  <2>2. CASE attempt[d].evidence # "none"
    <3>1. attempt[d].route \in proven
      BY <1>1, <1>2, <2>2 DEF Knows, At, LastSteps
    <3>2. availability' = Available(attempt[d].route, attempt[d].tools, attempt[d].tools)
      BY <2>2 DEF Remember
    <3>3. availability'.route = attempt[d].route /\ "fresh" \in DOMAIN availability'
      BY <3>2 DEF Available
    <3> QED
      BY <1>2, <3>1, <3>3 DEF RecordIsProven
  <2> QED
    BY <2>1, <2>2
<1> QED
  BY <1>2, <1>3, Ending

\* The record grows old.
LEMMA ExpireKeeps ==
  ASSUME ApiInvariant, Expire
  PROVE  ApiInvariant'
<1>1. RecordIsProven'
  BY DEF ApiInvariant, Expire, RecordIsProven
<1>2. ASSUME NEW d \in Dispatchers PROVE Knows(attempt[d])' /\ Answered(attempt[d])'
  <2>1. attempt' = attempt /\ attempt[d].at \notin LastSteps
    BY DEF Expire, LastSteps
  <2>2. Knows(attempt[d]) /\ Answered(attempt[d])
    BY DEF ApiInvariant
  <2> QED
    BY <2>1, <2>2 DEF Knows, Answered
<1> QED
  BY <1>1, <1>2 DEF ApiInvariant, Expire

\* What a dispatch knows of the API, and what is recorded of it, is so
\* (dispatch-to-claude.sh, claude-api-availability.py).
THEOREM ApiSound == ApiInit /\ [][ApiNext]_apiVars => []ApiInvariant
<1>1. ApiInit => ApiInvariant
  BY DEF ApiInit, ApiInvariant, RecordIsProven, Knows, Answered, NoAttempt, LastSteps,
     CountedFailures
<1>2. ApiInvariant /\ [ApiNext]_apiVars => ApiInvariant'
  <2> SUFFICES ASSUME ApiInvariant, [ApiNext]_apiVars PROVE ApiInvariant'
    OBVIOUS
  <2>1. CASE ApiNext
    BY <2>1, ExpireKeeps, BeginDispatchKeeps, GateFromCacheKeeps, GateLiveKeeps,
       LeaveGateKeeps, ResolveAgainKeeps, StartupProbeKeeps, ObserveKeeps, ModelEndsKeeps,
       ProbeZeroOutputKeeps, ClassifyKeeps, RememberKeeps DEF ApiNext
  <2>2. CASE UNCHANGED apiVars
    BY <2>2 DEF apiVars, ApiInvariant, RecordIsProven, Knows, Answered
  <2> QED
    BY <2>1, <2>2
<1> QED
  BY <1>1, <1>2, PTL

\* A failure that counts toward a takeover is one of a model that was there to fail
\* (dispatch-to-claude.sh, claude-api-availability.py).
THEOREM FailuresAreTheModels == ApiInit /\ [][ApiNext]_apiVars => []FailureIsTheModels
<1>1. ApiInvariant => FailureIsTheModels
  BY DEF ApiInvariant, Answered, FailureIsTheModels
<1> QED
  BY <1>1, ApiSound, PTL

\* A dispatch that got through the gate relied on an exchange within the time to live
\* (dispatch-to-claude.sh, claude-api-availability.py check).
THEOREM GatesAreBacked == ApiInit /\ [][ApiNext]_apiVars => []GateIsBacked
<1>1. ApiInvariant => GateIsBacked
  BY DEF ApiInvariant, Knows, GateIsBacked
<1> QED
  BY <1>1, ApiSound, PTL
=============================================================================
