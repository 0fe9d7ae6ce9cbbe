--------------------------- MODULE DispatchEvidence ---------------------------
(***************************************************************************)
(* How dispatch-to-claude.sh decides, once Claude has exited, whether a    *)
(* task is ready for the semantic review: the report is an artifact        *)
(* (validate-claude-report.py), its claims agree with the worktree         *)
(* (verify-claude-report.py), and what a test-writing Checker left passes  *)
(* its contract (enforce-checker-contract.py), which runs commands that    *)
(* pass, fail, crash, or leave a file behind.                              *)
(*                                                                         *)
(* Every path is a Python file.  A changed test file that is not empty     *)
(* declares one new test.                                                  *)
(***************************************************************************)
EXTENDS Naturals, FiniteSets

CONSTANTS SourcePaths, TestPaths,
          AcceptanceIds,   \* of the task card's acceptance-to-test ids
          Cards,           \* the task cards that are looked at
          MaxFaults,       \* bound: how many things a report gets wrong or leaves out
          MaxLeft,         \* bound: paths the commands of the contract change
          Unsaid           \* a claim that is not made

ASSUME EvidenceAssumption == MaxFaults \in Nat

Paths == SourcePaths \cup TestPaths
Changes == {"none", "modified", "new", "empty"}      \* empty, or deleted

VARIABLES
  card,      \* what the task asks for
  stage,     \* where the dispatch is
  work,      \* how each path of the worktree differs from the start commit
  report,    \* CLAUDE_REPORT.md
  seen,      \* the worktree when the report was verified
  verdict,   \* its consistency: status and validation_status
  contract,  \* the enforcement: what was listed, what is to be run, violations
  ran,       \* history: the commands of the contract that passed
  completion

evidenceVars == <<card, stage, work, report, seen, verdict, contract, ran, completion>>

Changed(w) == {p \in Paths : w[p] # "none"}
Untracked(w) == {p \in Paths : w[p] = "new"}
TestsDeclared(w) == Cardinality({p \in TestPaths : w[p] \in {"modified", "new"}})

-----------------------------------------------------------------------------
(* verify-claude-report.py                                                  *)

\* What a report says when it says everything, and truly.
TrueReport(c, w) ==
  [form |-> "complete", files |-> Changed(w), prose |-> Changed(w),
   count |-> Cardinality(Changed(w)), clean |-> "yes", tests |-> TestsDeclared(w),
   command |-> TRUE, exit |-> 0, checks |-> 0, details |-> TRUE,
   supported |-> c.ids, unsupported |-> {}]

\* The dispatcher's draft, before Claude replaces it.
SeededReport(c, w) == [TrueReport(c, w) EXCEPT !.form = "seeded"]

\* One thing is wrong, or is not said.
Faulty(r) ==
       {[r EXCEPT !.form = f] : f \in {"malformed", "progress-copy"}}
  \cup {[r EXCEPT !.files = f] : f \in {{}} \cup {{p} : p \in Paths}}
  \cup {[r EXCEPT !.prose = f] : f \in {{}} \cup {{p} : p \in Paths}}
  \cup {[r EXCEPT !.count = n] : n \in {0, Unsaid}}
  \cup {[r EXCEPT !.clean = s] : s \in {"no", "standard", "unsaid"}}
  \cup {[r EXCEPT !.tests = n] : n \in {0, 1, Unsaid}}
  \cup {[r EXCEPT !.command = FALSE], [r EXCEPT !.exit = 1], [r EXCEPT !.exit = Unsaid],
        [r EXCEPT !.checks = 1], [r EXCEPT !.checks = Unsaid], [r EXCEPT !.details = FALSE]}
  \cup {[r EXCEPT !.supported = @ \ {i}] : i \in r.supported}
  \cup {[r EXCEPT !.supported = @ \ {i}, !.unsupported = @ \cup {i}] : i \in r.supported}

Reports(c, w) ==
  LET faulty[n \in 0..MaxFaults] ==
        IF n = 0 THEN {TrueReport(c, w)}
        ELSE faulty[n - 1] \cup UNION {Faulty(r) : r \in faulty[n - 1]}
  IN faulty[MaxFaults]

\* validate-claude-report.py: no draft, no copy of the progress file, and all the
\* sections.
ValidReport(r) == r.form = "complete"

\* The machine-readable claims, or else the report's own list.
ClaimedFiles(r) == IF r.files # {} THEN r.files ELSE r.prose

ClaimsClean(r) == r.clean = "yes" \/ (r.clean = "standard" /\ ClaimedFiles(r) # {})

\* An exit that is claimed outweighs what the section of checks says.
ValidationStatus(c, r) ==
  CASE ~c.validation -> "not-required"
    [] c.validation /\ r.checks = Unsaid /\ (~r.command \/ r.exit = Unsaid) -> "missing-evidence"
    [] c.validation /\ r.exit = Unsaid /\ r.checks # Unsaid ->
         IF r.checks = 0 THEN "claimed-unverified" ELSE "failed"
    [] OTHER -> IF r.exit = 0 THEN "claimed-unverified" ELSE "failed"

Conflicts(c, w, r) ==
  LET claimed == ClaimedFiles(r)
      changedTests == Changed(w) \cap TestPaths IN
  \/ claimed # {} /\ claimed # Changed(w)
  \/ r.prose # {} /\ r.prose # Changed(w)
  \/ IF r.count # Unsaid THEN r.count # Cardinality(Changed(w))
     ELSE claimed # {} /\ Cardinality(claimed) # Cardinality(Changed(w))
  \/ ClaimsClean(r) /\ ~(Untracked(w) \subseteq claimed)
  \/ r.tests # Unsaid /\ (r.tests # TestsDeclared(w) \/ (r.tests > 0 /\ changedTests = {}))
  \/ c.tests /\ changedTests = {}
  \/ ~r.details                         \* symbols and resolved findings
  \/ r.unsupported # {}
  \/ ValidationStatus(c, r) = "failed"

\* A variant: what is claimed counts as covered.
LacksClaimsOfAnyKind(c, w, r) ==
  \/ ClaimedFiles(r) = {}
  \/ r.clean # "no" /\ ~ClaimsClean(r)
  \/ c.tests /\ r.tests = Unsaid /\ Changed(w) \cap TestPaths # {}
  \/ ValidationStatus(c, r) = "missing-evidence"
  \/ r.supported \cup r.unsupported = {} /\ c.ids # {}

LacksClaims(c, w, r) ==
  \/ ClaimedFiles(r) = {}
  \/ r.clean # "no" /\ ~ClaimsClean(r)
  \/ c.tests /\ r.tests = Unsaid /\ Changed(w) \cap TestPaths # {}
  \/ ValidationStatus(c, r) = "missing-evidence"
  \/ ~(c.ids \subseteq r.supported \cup r.unsupported)

Status(c, w, r) ==
  CASE Conflicts(c, w, r) -> "conflict"
    [] ~Conflicts(c, w, r) /\ LacksClaims(c, w, r) -> "insufficient-claims"
    [] OTHER -> "matched"

-----------------------------------------------------------------------------
(* enforce-checker-contract.py                                              *)

\* How a command ends: it passes, fails or times out, or takes the
\* interpreter down.
Endings == {"pass", "fail", "crash"}

\* What a command may do to the worktree besides: leave a file, spoil one.
LeftBy(w) ==
  {w} \cup {left \in {[w EXCEPT ![p] = "new"] : p \in Paths \ Changed(w)}
                     \cup {[w EXCEPT ![p] = "empty"] : p \in Changed(w)} :
              Cardinality({p \in Paths : left[p] # seen[p]}) <= MaxLeft}

NoContract == [pc |-> "off", listed |-> {}, todo |-> {}, violations |-> {}]

Violate(kind) == [contract EXCEPT !.violations = @ \cup {kind}]

\* The files whose commands are known: any with the card's template, else tests.
HasCommand(p) == card.template = "valid" \/ (card.template = "none" /\ p \in TestPaths)

\* A crashed pytest run may be repeated file by file, but only when it names its
\* files and all of them are tests this task changed.
Groups == IF card.targets \subseteq contract.listed \cap TestPaths THEN card.targets ELSE {}

\* A variant: no group failed, because there is none.
RecoveredWithoutGroups(groups, passed) == groups \subseteq passed

Recovered(groups, passed) == groups # {} /\ groups \subseteq passed

ListChanges ==
  /\ stage = "enforce" /\ contract.pc = "off"
  /\ contract' = [pc |-> "files", listed |-> Changed(work), todo |-> Changed(work),
                  violations |-> (IF card.scope = {} THEN {"missing-write-paths"} ELSE {})
                          \cup (IF Changed(work) = {} THEN {"no-test-file-output"} ELSE {})]
  /\ UNCHANGED <<card, stage, work, report, seen, verdict, ran, completion>>

\* One listed file: scope and presence, py_compile, then its own command.
CheckFile ==
  /\ contract.pc = "files"
  /\ UNCHANGED <<card, stage, report, seen, verdict, completion>>
  /\ \E p \in contract.todo :
       LET checked(k) == [Violate(k) EXCEPT !.todo = @ \ {p}] IN
       \/ /\ p \notin card.scope
          /\ contract' = checked("out-of-scope") /\ UNCHANGED <<work, ran>>
       \/ /\ p \in card.scope /\ work[p] \in {"none", "empty"}
          /\ contract' = checked("missing-or-empty") /\ UNCHANGED <<work, ran>>
       \/ /\ p \in card.scope /\ work[p] \notin {"none", "empty"}
          /\ work' \in LeftBy(work)
          /\ \/ contract' = checked("validation-failed") /\ ran' = ran
             \/ /\ HasCommand(p)
                /\ contract' = [contract EXCEPT !.todo = @ \ {p}]
                /\ ran' = ran \cup {<<"file", p>>}
             \/ /\ ~HasCommand(p) /\ ran' = ran
                /\ contract' = checked(IF card.template = "unsafe" THEN "invalid-validation-command"
                                       ELSE "missing-per-file-validation")

\* The card's exact command, once every file is in order.
RunExact ==
  /\ contract.pc = "files" /\ contract.todo = {}
  /\ UNCHANGED <<card, stage, report, seen, verdict, completion>>
  /\ \/ /\ contract.violations # {} \/ card.exact = "none"
        /\ contract' = [contract EXCEPT !.pc = "done"] /\ UNCHANGED <<work, ran>>
     \/ /\ contract.violations = {} /\ card.exact = "unsafe"
        /\ contract' = [Violate("invalid-exact-command") EXCEPT !.pc = "done"]
        /\ UNCHANGED <<work, ran>>
     \/ /\ contract.violations = {} /\ card.exact = "safe"
        /\ work' \in LeftBy(work)
        /\ \E e \in Endings :
             /\ ran' = IF e = "pass" THEN ran \cup {<<"exact", "command">>} ELSE ran
             /\ contract' = CASE e = "pass" -> [contract EXCEPT !.pc = "done"]
                              [] e = "fail" -> [Violate("exact-failed") EXCEPT !.pc = "done"]
                              [] OTHER      -> [contract EXCEPT !.pc = "groups"]

\* recover_pytest_crash: every group is run, whatever the others gave.
RecoverCrash ==
  /\ contract.pc = "groups"
  /\ \E passed \in SUBSET Groups :
       /\ ran' = ran \cup {<<"group", t>> : t \in passed}
       /\ contract' = [(IF Recovered(Groups, passed) THEN contract
                        ELSE Violate("exact-environment-crash")) EXCEPT !.pc = "done"]
  /\ work' \in LeftBy(work)
  /\ UNCHANGED <<card, stage, report, seen, verdict, completion>>

\* An exception leaves no receipt; the dispatcher takes it for a violation.
EnforcerRaises ==
  /\ contract.pc \in {"files", "groups"}
  /\ contract' = [Violate("no-receipt") EXCEPT !.pc = "done"]
  /\ UNCHANGED <<card, stage, work, report, seen, verdict, ran, completion>>

ContractPassed == contract.pc = "done" /\ contract.violations = {}

-----------------------------------------------------------------------------
(* dispatch-to-claude.sh, after the child has exited                        *)

EvidenceInit ==
  /\ card \in Cards /\ stage = "claude"
  /\ work = [p \in Paths |-> "none"]
  /\ report = SeededReport(card, work)
  /\ seen = work /\ verdict = [status |-> "not-run", validation |-> "unknown"]
  /\ contract = NoContract /\ ran = {} /\ completion = "needs-review"

\* Claude leaves its changes, and a report about them or the draft.
ClaudeExits ==
  /\ stage = "claude" /\ stage' = "verify"
  /\ work' \in [Paths -> Changes]
  /\ report' \in {SeededReport(card, work')} \cup Reports(card, work')
  /\ UNCHANGED <<card, seen, verdict, contract, ran, completion>>

\* The enforcement is for a Checker that writes tests and did something.
VerifyReport ==
  /\ stage = "verify"
  /\ seen' = work
  /\ \/ /\ ValidReport(report)
        /\ verdict' = [status |-> Status(card, work, report),
                       validation |-> ValidationStatus(card, report)]
     \/ /\ ValidReport(report)                        \* the helper fails
        /\ verdict' = [status |-> "error", validation |-> "unknown"]
     \/ ~ValidReport(report) /\ UNCHANGED verdict
  /\ stage' = IF card.checker /\ (Changed(work) # {} \/ ValidReport(report))
              THEN "enforce" ELSE "outcome"
  /\ UNCHANGED <<card, work, report, contract, ran, completion>>

\* What passes the contract is verified, whatever the report said of it.
TakeReceipt ==
  /\ stage = "enforce" /\ contract.pc = "done"
  /\ stage' = "outcome"
  /\ verdict' = IF ContractPassed THEN [verdict EXCEPT !.validation = "verified"] ELSE verdict
  /\ UNCHANGED <<card, work, report, seen, contract, ran, completion>>

\* How the transport ended, as far as it decides: nothing went wrong, the
\* staged writes or the evidence failed, the call failed, the tail timed out.
Transports == {"clean", "staging-failed", "no-evidence", "call-failed", "blocked", "tail-incomplete"}

Ready ==
  /\ verdict.status = "matched"
  /\ verdict.validation \notin {"missing-evidence", "claimed-unverified", "failed", "unknown"}

Outcome(transport) ==
  CASE transport = "staging-failed" -> "needs-revision"
    [] transport = "no-evidence" -> "external-blocked"
    [] contract.violations # {} /\ transport \notin {"staging-failed", "no-evidence"} -> "needs-revision"
    [] contract.violations = {} /\ transport = "call-failed" -> "incomplete"
    [] contract.violations = {} /\ transport = "blocked" -> "external-blocked"
    [] contract.violations = {} /\ transport = "tail-incomplete" -> "needs-review"
    [] OTHER -> IF Changed(seen) = {} /\ ~ValidReport(report) THEN "incomplete"
                ELSE IF Ready THEN "semantic-review-required" ELSE "needs-review"

Conclude ==
  /\ stage = "outcome" /\ stage' = "concluded"
  /\ \E t \in Transports : completion' = Outcome(t)
  /\ UNCHANGED <<card, work, report, seen, verdict, contract, ran>>

EvidenceNext ==
  \/ ClaudeExits \/ VerifyReport \/ ListChanges \/ CheckFile \/ RunExact \/ RecoverCrash
  \/ EnforcerRaises \/ TakeReceipt \/ Conclude

EvidenceSpec == EvidenceInit /\ [][EvidenceNext]_evidenceVars

-----------------------------------------------------------------------------
(* Properties                                                               *)

\* A dispatch is only called ready for the semantic review on a real report whose
\* list of files is the list of changes it was verified against, whose number of
\* tests is right where tests are asked for, and which shows a test for each of the
\* task's acceptance ids; a validation the task asks for was really run, not
\* claimed (verify-claude-report.py:257-514, dispatch-to-claude.sh:8777-8793).
ReadyIsBacked ==
  completion = "semantic-review-required" =>
    /\ ValidReport(report)
    /\ ClaimedFiles(report) = Changed(seen)
    /\ card.tests => /\ Changed(seen) \cap TestPaths # {}
                     /\ report.tests = TestsDeclared(seen)
    /\ card.ids = report.supported
    /\ card.validation => ContractPassed

\* A contract that passed has run what it stands for: there are changed files, all
\* in scope, each with its own command passed, and the exact command passed, or
\* crashed and then passed on each of the changed test files it names
\* (enforce-checker-contract.py:178-287).
PassedContractWasRun ==
  ContractPassed =>
    /\ contract.listed # {} /\ contract.listed \subseteq card.scope
    /\ \A p \in contract.listed : <<"file", p>> \in ran
    /\ card.exact # "none" =>
         \/ <<"exact", "command">> \in ran
         \/ /\ card.targets # {} /\ card.targets \subseteq contract.listed
            /\ \A t \in card.targets : <<"group", t>> \in ran
=============================================================================
