------------------------------- MODULE LoopRun -------------------------------
(***************************************************************************)
(* run-loop.sh: dispatch to Claude, review by Codex, decide, and revise, a *)
(* bounded number of times.  Every step is followed by an event in the     *)
(* log; an event that cannot be written ends the shell (set -e), and it    *)
(* may be killed at any time.                                              *)
(*                                                                         *)
(* First the append-only log (event_writer.py) and the programs that read  *)
(* it afterwards: validate-run-events.py, replay-run.py and resume-run.py, *)
(* which has nothing but the log.  A line is an event, or Torn: text that  *)
(* is no JSON.                                                             *)
(***************************************************************************)
EXTENDS Naturals, Sequences, SequencesExt, FiniteSets

CONSTANTS MaxIterations,
          MaxDamage          \* bound: lines repeated or cut short by appends

ASSUME LoopAssumption ==
  /\ MaxIterations \in Nat \ {0} /\ MaxDamage \in Nat

-----------------------------------------------------------------------------
(* The log.                                                                 *)

None == 0                       \* JSON null, for ids and iterations
Torn == [event |-> "torn"]
IsEvent(line) == line # Torn

Phases == {"setup", "dispatch", "review", "decision", "finalization"}

Event(name, phase, iteration, id) ==
  [event |-> name, phase |-> phase, iteration |-> iteration, id |-> id, parent |-> None]

\* _locked_append: an event without a parent gets the last line's id.
Linkable(log, e) == e.parent # None \/ log = <<>> \/ IsEvent(Last(log))
Linked(log, e) ==
  IF e.parent = None /\ log # <<>> THEN [e EXCEPT !.parent = Last(log).id] ELSE e

\* The line is written at the end of the file: behind a piece without a newline
\* it completes that piece's line, which stays no JSON.
WriteLine(log, line) == IF log # <<>> /\ ~IsEvent(Last(log)) THEN log ELSE Append(log, line)

\* What one call of append may leave in the file, and whether it returns.  It is
\* retried after an OSError with the same event, whose parent is then set: the
\* write may have been complete (only fsync failed), cut short or not begun.
Appends(log, e) ==
  LET linked == Linked(log, e)
      whole == WriteLine(log, linked)
      cut == WriteLine(log, Torn)
      again(file) == Append(file, Linked(file, linked)) IN
  IF ~Linkable(log, e) THEN {[log |-> log, returns |-> FALSE]}
  ELSE {[log |-> whole, returns |-> TRUE],
        [log |-> again(whole), returns |-> TRUE],
        [log |-> cut, returns |-> Linkable(cut, linked)],
        [log |-> log, returns |-> FALSE],
        [log |-> whole, returns |-> FALSE]}

Readable(log) == \A i \in DOMAIN log : IsEvent(log[i])
Ids(log) == {log[i].id : i \in {j \in DOMAIN log : IsEvent(log[j])}}

-----------------------------------------------------------------------------
\* validate_events_log: ids are unique, and a parent is on an earlier line than
\* its child (of two lines with one id the later one counts).
LineOf(log, id) == SelectLastInSeq(log, LAMBDA line : IsEvent(line) /\ line.id = id)
LogIsValid(log) ==
  /\ Readable(log)
  /\ Cardinality(Ids(log)) = Len(log)
  /\ \A i \in DOMAIN log : log[i].parent # None => LineOf(log, log[i].parent) \in 1..(i - 1)

\* replay_events: the phases follow each other, from "setup" on.  Lines that are
\* no JSON are skipped with a warning.
ValidNext ==
  [setup |-> {"dispatch"}, dispatch |-> {"review", "dispatch"}, review |-> {"decision"},
   decision |-> {"dispatch", "finalization"}, finalization |-> {}]
Follows(from, to) == to = from \/ to \in ValidNext[from]
ReplayIsValid(log) ==
  \A j \in DOMAIN log : IsEvent(log[j]) =>
    LET before == {i \in 1..(j - 1) : IsEvent(log[i])} IN
    Follows(IF before = {} THEN "setup" ELSE log[Max(before)].phase, log[j].phase)

-----------------------------------------------------------------------------
\* A variant: the parents are not looked at.
ChainIsSound(log) == Readable(log) /\ log # <<>>

\* load_events: every line's parent is the line before it.
ChainHolds(log) ==
  /\ Readable(log) /\ log # <<>>
  /\ \A i \in DOMAIN log : log[i].parent = (IF i = 1 THEN None ELSE log[i - 1].id)

Has(log, name) == Readable(log) /\ \E i \in DOMAIN log : log[i].event = name

\* determine_resume_type: an unreadable log counts as an empty one.
ResumeType(log, corrupted) ==
  CASE corrupted -> "unsafe-corrupted"
    [] ~corrupted /\ (Has(log, "run_complete") \/ Has(log, "decision")) -> "resume-from-decision"
    [] OTHER ->
         IF \/ Has(log, "review_complete")
            \/ Has(log, "dispatch_complete") /\ Has(log, "review_failed")
         THEN "resume-from-review"
         ELSE IF Has(log, "dispatch_complete") THEN "resume-from-dispatch"
         ELSE IF Has(log, "dispatch_incomplete") THEN "resume-from-partial-diff"
         ELSE "requires-human"

\* build_resume_plan, apply_resume: the plan is acted on only when it is safe.
ResumeIsSafe(log, corrupted) ==
  /\ ChainHolds(log) /\ ~corrupted
  /\ ResumeType(log, corrupted) \notin {"unsafe-corrupted", "requires-human"}

\* find_latest_safe_point: the iteration of the last event that names one.
LatestIteration(log) ==
  LET named == {i \in DOMAIN log : log[i].iteration # None} IN
  IF named = {} THEN None ELSE log[CHOOSE i \in named : \A j \in named : j <= i].iteration

-----------------------------------------------------------------------------
(* The loop.                                                                *)

Decisions == {"ACCEPT", "REVISE", "SPLIT", "REJECT", "unknown"}

VARIABLES
  owner,      \* the owner route-task.py gives the task card
  adaptive,   \* the timeout is the loop's to adapt, not the user's
  pc,         \* the step of the shell
  iteration,
  decision,   \* the last review's
  log,
  ids,        \* number of event ids generated
  done        \* what really happened: steps with their iteration

vars == <<owner, adaptive, pc, iteration, decision, log, ids, done>>

Init ==
  /\ owner \in {"codex-fast-path", "claude-builder"}
  /\ adaptive \in BOOLEAN
  /\ pc = "start" /\ iteration = 1 /\ decision = "none"
  /\ log = <<>> /\ ids = 0 /\ done = {}

\* write_loop_event, and the step that follows when it returns.
Write(name, phase, it, next) ==
  \E a \in Appends(log, Event(name, phase, it, ids + 1)) :
    /\ Len(a.log) - Cardinality(Ids(a.log)) <= MaxDamage
    /\ log' = a.log
    /\ ids' = ids + 1
    /\ pc' = IF a.returns THEN next ELSE "dead"

Start ==
  /\ pc = "start"
  /\ IF owner = "codex-fast-path" THEN Write("stop", "decision", None, "exit")
                                  ELSE Write("run_start", "setup", None, "loop")
  /\ UNCHANGED <<owner, adaptive, iteration, decision, done>>

StartIteration ==
  /\ pc = "loop"
  /\ Write("iteration_start", "dispatch", iteration, "timeout")
  /\ UNCHANGED <<owner, adaptive, iteration, decision, done>>

ChooseTimeout ==
  /\ pc = "timeout"
  /\ Write(IF adaptive THEN "adaptive_timeout_applied" ELSE "adaptive_timeout_skipped",
           "dispatch", iteration, "dispatch")
  /\ UNCHANGED <<owner, adaptive, iteration, decision, done>>

\* The dispatcher's own failure ends the shell (pipefail) without an event.
Dispatch ==
  /\ pc = "dispatch"
  /\ \E result \in {"failed", "incomplete", "complete"} :
       /\ pc' = IF result = "failed" THEN "dead" ELSE result
       /\ done' = IF result = "complete" THEN done \cup {<<"dispatch", iteration>>} ELSE done
  /\ UNCHANGED <<owner, adaptive, iteration, decision, log, ids>>

\* A variant: an incomplete dispatch is reported like a complete one.
ReportDispatchLoosely ==
  /\ pc \in {"incomplete", "complete"}
  /\ Write("dispatch_complete", "dispatch", iteration, "observe")
  /\ UNCHANGED <<owner, adaptive, iteration, decision, done>>

ReportDispatch ==
  /\ \/ pc = "incomplete" /\ Write("dispatch_incomplete", "dispatch", iteration, "exit")
     \/ pc = "complete" /\ Write("dispatch_complete", "dispatch", iteration, "observe")
  /\ UNCHANGED <<owner, adaptive, iteration, decision, done>>

ObserveTimeout ==
  /\ pc = "observe"
  /\ IF adaptive
     THEN Write("adaptive_timeout_observed", "dispatch", iteration, "review")
     ELSE pc' = "review" /\ UNCHANGED <<log, ids>>
  /\ UNCHANGED <<owner, adaptive, iteration, decision, done>>

\* The review command, and its decision file (absent, or without a decision).
Review ==
  /\ pc = "review"
  /\ \/ pc' = "review-failed" /\ UNCHANGED <<decision, done>>
     \/ /\ decision' \in Decisions \cup {"absent", "empty"}
        /\ pc' = "reviewed"
        /\ done' = done \cup {<<"review", iteration>>}
                        \cup (IF decision' \in Decisions THEN {<<"decision", iteration>>} ELSE {})
  /\ UNCHANGED <<owner, adaptive, iteration, log, ids>>

ReportReview ==
  /\ \/ pc = "review-failed" /\ Write("review_failed", "review", iteration, "exit")
     \/ pc = "reviewed" /\ Write("review_complete", "review", iteration, "extract")
  /\ UNCHANGED <<owner, adaptive, iteration, decision, done>>

ExtractDecision ==
  /\ pc = "extract"
  /\ CASE decision = "absent" -> Write("stop", "review", iteration, "exit")
       [] decision = "empty" -> Write("stop", "decision", iteration, "exit")
       [] OTHER -> Write("decision", "decision", iteration, "decided")
  /\ UNCHANGED <<owner, adaptive, iteration, decision, done>>

\* REVISE: the counter goes up before it is compared with the bound.
Revise ==
  /\ pc = "decided" /\ decision = "REVISE"
  /\ iteration' = iteration + 1
  /\ IF iteration + 1 > MaxIterations
     THEN Write("stop", "finalization", iteration, "exit")
     ELSE Write("revision_task_created", "decision", iteration + 1, "loop")
  /\ UNCHANGED <<owner, adaptive, decision, done>>

Conclude ==
  /\ pc = "decided" /\ decision # "REVISE"
  /\ Write("stop", "finalization", iteration, "exit")
  /\ UNCHANGED <<owner, adaptive, iteration, decision, done>>

\* The shell is killed, between two steps or in the middle of a write.
Kill ==
  /\ pc \notin {"exit", "dead"}
  /\ pc' = "dead"
  /\ log' \in {log, WriteLine(log, Torn)}
  /\ UNCHANGED <<owner, adaptive, iteration, decision, ids, done>>

Next ==
  \/ Start \/ StartIteration \/ ChooseTimeout \/ Dispatch \/ ReportDispatch
  \/ ObserveTimeout \/ Review \/ ReportReview \/ ExtractDecision
  \/ Revise \/ Conclude \/ Kill

Spec == Init /\ [][Next]_vars

-----------------------------------------------------------------------------
\* The programs that read the log the loop leaves, whatever retried, torn or killed
\* write it ends with, understand it alike.  Of a task that Claude owns replay-run.py
\* finds no invalid phase transition (the fast path's only event, a stop in phase
\* "decision", is one); and a log that resume-run.py would act on has no line cut
\* short, and no event but the first twice.  (The first copied has itself as its
\* parent: load_events takes that for the chain, validate-run-events.py refuses it.)
LogIsUnderstood ==
  /\ owner = "claude-builder" => ReplayIsValid(log)
  /\ ResumeIsSafe(log, FALSE) =>
       \/ LogIsValid(log)
       \/ /\ log[2] = [log[1] EXCEPT !.parent = log[1].id]
          /\ Cardinality(Ids(log)) = Len(log) - 1

\* What a safe plan builds on has really happened, in the iteration the plan
\* names: evidence to review, a review, or a failed review of that evidence.
\* (A decision is looked for in all iterations, also before the newest one.)
ResumePointWasReached ==
  LET type == ResumeType(log, FALSE)
      latest == LatestIteration(log) IN
  ResumeIsSafe(log, FALSE) =>
    /\ type \in {"resume-from-dispatch", "resume-from-review"} => <<"dispatch", latest>> \in done
    /\ type = "resume-from-review" /\ ~Has(log, "review_failed") => <<"review", latest>> \in done
    /\ type = "resume-from-partial-diff" => <<"dispatch", latest>> \notin done
    /\ type = "resume-from-decision" => \E i \in 1..latest : <<"decision", i>> \in done
=============================================================================
