----------------------------- MODULE TaskMonitor -----------------------------
(***************************************************************************)
(* One dispatch that runs, and what is said of it from outside.  The       *)
(* dispatcher (dispatch-to-claude.sh) leaves pid files, process            *)
(* identities, a progress log, an append-only log of events and, at its    *)
(* end, an outcome.  monitor-claude.sh wait sleeps on the log of events,   *)
(* and claude-monitor-decision.py reads all of it, one file after the      *)
(* other while they change, and gives one decision.                        *)
(*                                                                         *)
(* No event of the log carries a monitor level, so the decisions that need *)
(* one are left out.  An observer keeps nothing from one look to the next: *)
(* one look, begun at any moment, stands for all of them.                  *)
(***************************************************************************)
EXTENDS Naturals, Sequences, SequencesExt

CONSTANTS MaxEvents,    \* bound: events while the model works
          Executions,   \* what they say of it: "waiting-tool", "implementation-idle"
          Sights        \* what the observer sees of other processes: "same",
                        \* "other-namespace", "hidden"

Roles == {"dispatcher", "claude", "checker"}

VARIABLES
  point,     \* of the dispatcher
  alive,     \* the processes that run
  pid,       \* the roles whose pid file is there
  identity,  \* the roles whose process identity was captured
  log,       \* progress.log: the marks an observer looks for
  events,    \* monitor-events.log, in order
  evidence,  \* the worktree: product change, report, what the progress file claims
  outcome,   \* outcome.json
  sight,
  look,      \* the observer: its wait, then its snapshot
  answer     \* the last decision

taskVars == <<point, alive, pid, identity, log, events, evidence, outcome>>
monitorVars == <<taskVars, sight, look, answer>>

\* Every event is read by monitor-claude.sh; the snapshot only knows those that
\* monitor_event wrote, with their prefix.
Event(kind, running, execution) ==
  [kind |-> kind, running |-> running, execution |-> execution, prefix |-> TRUE,
   product |-> evidence.product]

Says(e) == events' = Append(events, e)

MonitorInit ==
  /\ point = "new" /\ alive = {} /\ pid = {} /\ identity = {}
  /\ log = {} /\ events = <<>> /\ outcome = "none"
  /\ evidence = [product |-> FALSE, report |-> "none", finish |-> FALSE]
  /\ sight \in Sights
  /\ look = [at |-> "idle"] /\ answer = [decision |-> "none"]

-----------------------------------------------------------------------------
(* The dispatcher                                                           *)

\* Its identity is there before its pid.
Begin ==
  /\ point = "new" /\ point' = "captured"
  /\ alive' = {"dispatcher"} /\ identity' = {"dispatcher"}
  /\ UNCHANGED <<pid, log, events, evidence, outcome>>

\* With its pid file the dispatcher seeds the worktree and the report.
WritePid ==
  /\ point = "captured" /\ point' = "seeded"
  /\ pid' = {"dispatcher"}
  /\ evidence' = [evidence EXCEPT !.report = "seeded"]
  /\ UNCHANGED <<alive, identity, log, events, outcome>>

Launch ==
  /\ point = "seeded" /\ point' = "launched"
  /\ alive' = alive \cup {"claude"}
  /\ UNCHANGED <<pid, identity, log, events, evidence, outcome>>

WriteClaudePid ==
  /\ point = "launched" /\ point' = "capturing"
  /\ pid' = pid \cup {"claude"}
  /\ UNCHANGED <<alive, identity, log, events, evidence, outcome>>

\* The capture may fail; the start is announced anyway.
Announce ==
  /\ point = "capturing" /\ point' = "watching"
  /\ identity' \in {identity, identity \cup {"claude"}}
  /\ log' = log \cup {"started"}
  /\ Says(Event("started", TRUE, "unknown"))
  /\ UNCHANGED <<alive, pid, evidence, outcome>>

MaterialChange ==
  /\ point = "watching" /\ evidence.product
  /\ Len(events) < MaxEvents
  /\ \E x \in Executions : Says(Event("material", TRUE, x))
  /\ UNCHANGED <<point, alive, pid, identity, log, evidence, outcome>>

NoticeExit ==
  /\ point = "watching" /\ "claude" \notin alive
  /\ point' = "finalizing"
  /\ log' = log \cup {"child-exited"}
  /\ Says(Event("child-exited", FALSE, "unknown"))
  /\ UNCHANGED <<alive, pid, identity, evidence, outcome>>

\* The Checker captures its own identity, before or after its pid file is there.
StartChecker ==
  /\ point = "finalizing" /\ point' = "checking"
  /\ alive' = alive \cup {"checker"}
  /\ UNCHANGED <<pid, identity, log, events, evidence, outcome>>

WriteCheckerPid ==
  /\ point = "checking" /\ "checker" \notin pid
  /\ pid' = pid \cup {"checker"}
  /\ UNCHANGED <<point, alive, identity, log, events, evidence, outcome>>

WriteOutcome ==
  /\ \/ point = "finalizing"
     \/ point = "checking" /\ "checker" \in pid /\ "checker" \notin alive
  /\ point' = "concluded"
  /\ outcome' \in {"awaiting-review", "plain"}
  /\ UNCHANGED <<alive, pid, identity, log, events, evidence>>

Report ==
  /\ point = "concluded" /\ point' = "reported"
  /\ log' = log \cup {"final"}
  /\ Says(Event("terminal", FALSE, "unknown"))
  /\ UNCHANGED <<alive, pid, identity, evidence, outcome>>

\* The exit handler removes the pid files.
Exit ==
  /\ point = "reported" /\ point' = "gone"
  /\ pid' = {} /\ alive' = alive \ {"dispatcher"}
  /\ UNCHANGED <<identity, log, events, evidence, outcome>>

Launched == point \in {"launched", "capturing", "watching", "finalizing", "checking", "concluded"}

\* An error or a signal that can be caught, before the end is reported: Claude is
\* stopped, which is confirmed if its identity is known; the event is written
\* without its prefix.
Abort ==
  /\ point = "seeded" \/ Launched
  /\ \E stopped \in IF "claude" \in alive \cap identity THEN BOOLEAN ELSE {TRUE} :
       /\ alive' = IF stopped THEN alive \ {"claude"} ELSE alive
       /\ point' = IF stopped /\ "claude" \in identity THEN "aborting" ELSE "failing"
  /\ outcome' = IF outcome = "none" THEN "interrupted" ELSE outcome
  /\ Says([Event("terminal", FALSE, "unknown") EXCEPT !.prefix = FALSE])
  /\ UNCHANGED <<pid, identity, log, evidence>>

AbortExit ==
  /\ point \in {"aborting", "failing"} /\ point' = "gone"
  /\ pid' = IF point = "aborting" THEN {} ELSE pid \ {"dispatcher"}
  /\ alive' = alive \ {"dispatcher"}
  /\ UNCHANGED <<identity, log, events, evidence, outcome>>

KillDispatcher ==
  /\ "dispatcher" \in alive
  /\ point' = "killed" /\ alive' = alive \ {"dispatcher"}
  /\ UNCHANGED <<pid, identity, log, events, evidence, outcome>>

\* The model changes the product, writes its report, claims to be finished.
ClaudeWorks ==
  /\ "claude" \in alive
  /\ evidence' \in {[evidence EXCEPT !.product = TRUE], [evidence EXCEPT !.report = "valid"],
                    [evidence EXCEPT !.finish = TRUE]}
  /\ UNCHANGED <<point, alive, pid, identity, log, events, outcome>>

ModelExits ==
  /\ "claude" \in alive /\ alive' = alive \ {"claude"}
  /\ UNCHANGED <<point, pid, identity, log, events, evidence, outcome>>

CheckerCaptures ==
  /\ "checker" \in alive /\ "checker" \notin identity
  /\ identity' = identity \cup {"checker"}
  /\ UNCHANGED <<point, alive, pid, log, events, evidence, outcome>>

CheckerExits ==
  /\ "checker" \in alive /\ alive' = alive \ {"checker"}
  /\ UNCHANGED <<point, pid, identity, log, events, evidence, outcome>>

DispatcherStep ==
  \/ Begin \/ WritePid \/ Launch \/ WriteClaudePid \/ Announce
  \/ MaterialChange \/ NoticeExit \/ StartChecker \/ WriteCheckerPid \/ WriteOutcome
  \/ Report \/ Exit \/ Abort \/ AbortExit

Task ==
  /\ DispatcherStep \/ KillDispatcher \/ ClaudeWorks \/ ModelExits \/ CheckerCaptures \/ CheckerExits
  /\ UNCHANGED <<sight, look, answer>>

-----------------------------------------------------------------------------
(* What the observer asks of a process                                      *)

\* role_state with an identity file: a pid alone is never trusted.  In another pid
\* namespace the recorded pid is nobody's or a stranger's.
RoleState(r) ==
  CASE r \notin pid -> "missing"
    [] r \in pid /\ r \notin identity -> "visibility-unknown"
    [] r \in pid \cap identity /\ r \in alive /\ sight = "same" -> "running"
    [] r \in pid \cap identity /\ r \in alive /\ sight = "hidden" -> "visibility-unknown"
    [] OTHER -> "not-running"

-----------------------------------------------------------------------------
(* monitor-claude.sh wait                                                   *)

IsBoundary(e, until) ==
  e.kind = "terminal" \/ (until = "material" /\ e.kind = "material" /\ e.product)

Boundaries(until, from, to) == {i \in from..to : IsBoundary(events[i], until)}

LastIsTerminal == events # <<>> /\ Last(events).kind = "terminal"

Ends(kind) == look' = [at |-> "waited", ended |-> kind, found |-> look.found]
OnlyLooks == UNCHANGED <<taskVars, sight, answer>>

StartWait ==
  /\ look.at = "idle" /\ OnlyLooks
  /\ \E until \in {"terminal", "material"} :
       look' = [at |-> "first", until |-> until, seen |-> Len(events), count |-> 0,
                found |-> "none"]

\* What was there before the wait counts.
ReadFirst ==
  /\ look.at = "first" /\ OnlyLooks
  /\ IF LastIsTerminal \/ (look.until = "material" /\ Boundaries("material", 1, Len(events)) # {})
     THEN Ends("boundary")
     ELSE look' = [look EXCEPT !.at = "sleeping"]

CountEvents ==
  /\ look.at = "sleeping" /\ OnlyLooks
  /\ look' = [look EXCEPT !.at = "counted", !.count = Len(events)]

ReadNew ==
  /\ look.at = "counted" /\ OnlyLooks
  /\ IF Boundaries(look.until, look.seen + 1, look.count) # {} THEN Ends("boundary")
     ELSE look' = [look EXCEPT !.at = "asking", !.seen = look.count]

TimeOut == look.at = "asking" /\ Ends("timeout") /\ OnlyLooks

AskForDispatcher ==
  /\ look.at = "asking" /\ OnlyLooks
  /\ LET state == RoleState("dispatcher") IN
     look' = IF state = "running" THEN [look EXCEPT !.at = "sleeping", !.count = 0]
             ELSE [look EXCEPT !.at = "doubting", !.found = point]

\* A variant: the last event that was seen, not the last there is.
LastWordSeen == look.seen > 0 /\ events[look.seen].kind = "terminal"

LastWord == LastIsTerminal

\* The dispatcher may have ended since the events were counted.
ReadLast ==
  /\ look.at = "doubting" /\ OnlyLooks
  /\ IF LastWord THEN Ends("boundary") ELSE Ends("visibility-unknown")

-----------------------------------------------------------------------------
(* claude-monitor-decision.py snapshot                                      *)

\* The snapshot knows the last event with a prefix.
NoEvent == [kind |-> "none", running |-> FALSE, execution |-> "unknown", prefix |-> TRUE,
            product |-> FALSE]
LastEvent ==
  LET known == {i \in DOMAIN events : events[i].prefix} IN
  IF known = {} THEN NoEvent ELSE events[CHOOSE i \in known : \A j \in known : j <= i]

\* After a boundary, or on its own: the outcome first, then the log, the event.
StartSnapshot ==
  /\ look.at = "idle" \/ (look.at = "waited" /\ look.ended = "boundary")
  /\ look' = [at |-> "outcome", over |-> point = "gone", outcome |-> outcome]
  /\ OnlyLooks

ReadLog ==
  /\ look.at = "outcome" /\ OnlyLooks
  /\ look' = [at |-> "log", over |-> look.over, outcome |-> look.outcome, log |-> log]

ReadEvent ==
  /\ look.at = "log" /\ OnlyLooks
  /\ look' = [at |-> "dispatcher", over |-> look.over, outcome |-> look.outcome, log |-> look.log,
              event |-> LastEvent, states |-> [r \in Roles |-> "unread"]]

\* The roles, one after the other.
NextRole == [dispatcher |-> "claude", claude |-> "checker", checker |-> "worktree"]

ReadRole ==
  /\ look.at \in Roles /\ OnlyLooks
  /\ look' = [look EXCEPT !.at = NextRole[look.at], !.states[look.at] = RoleState(look.at)]

Some(state, roles) == \E r \in roles : look.states[r] = state

Terminal ==
  \/ look.log \cap {"child-exited", "final"} # {}
  \/ look.event.kind = "terminal"
ObservedRunning == look.event.running /\ ~Terminal
Visibility == Some("visibility-unknown", Roles)
Running == Some("running", {"claude", "checker"})

\* A variant: the roles that work, without the dispatcher.
OverallOfWorkers == Some("running", {"claude", "checker"})

Overall == Some("running", Roles)

RoleConflicts ==
  \/ Terminal /\ Overall
  \/ look.event.running /\ ~Running /\ ~Visibility /\ ~Terminal
  \/ look.event.kind \in {"material", "terminal"} /\ look.event.product # evidence.product

\* evidence_state, of what the worktree holds now: a seeded report is none.
EvidenceState ==
  IF evidence.report = "valid"
  THEN IF evidence.product THEN "diff + valid report" ELSE "valid report without diff"
  ELSE IF evidence.product THEN "diff without report" ELSE "no valid report"

OperatorState ==
  CASE look.outcome \in {"awaiting-review", "plain"} -> look.outcome
    [] look.outcome \notin {"awaiting-review", "plain"} /\ Terminal
       /\ EvidenceState = "diff without report" -> "awaiting-review"
    [] OTHER -> IF Terminal THEN "terminal" ELSE "running-or-unresolved"

\* Of what the log and the status say of errors, one kind has a decision of its own.
ErrorCategories == {"direction-deviation", "other"}

\* The first that applies.
Decision(errors) ==
  LET effective == Running \/ ObservedRunning IN
  IF Visibility /\ ~Terminal /\ ~ObservedRunning THEN <<"visibility-unknown", "high">>
  ELSE IF Terminal /\ ~Overall THEN <<"terminal", "high">>
  ELSE IF effective /\ evidence.finish THEN <<"continue", "high">>
  ELSE IF "direction-deviation" \in errors THEN <<"interrupt-candidate", "high">>
  ELSE IF effective /\ look.event.execution = "waiting-tool" THEN <<"continue", "medium">>
  ELSE IF effective /\ look.event.execution = "implementation-idle" THEN <<"inspect", "high">>
  ELSE IF RoleConflicts \/ errors # {} THEN <<"inspect", "medium">>
  ELSE IF effective THEN <<"continue", "high">>
  ELSE IF evidence.product \/ evidence.report # "none" THEN <<"terminal", "medium">>
  ELSE <<"inspect", "low">>

\* Last, the worktree: product, report and progress file; then the decision.
Decide ==
  /\ look.at = "worktree" /\ look' = [at |-> "over"]
  /\ \E errors \in SUBSET ErrorCategories :
       answer' = [decision |-> Decision(errors)[1], confidence |-> Decision(errors)[2],
                  operator |-> OperatorState, over |-> look.over]
  /\ UNCHANGED <<taskVars, sight>>

Observer ==
  \/ StartWait \/ ReadFirst \/ CountEvents \/ ReadNew \/ TimeOut \/ AskForDispatcher \/ ReadLast
  \/ StartSnapshot \/ ReadLog \/ ReadEvent \/ ReadRole \/ Decide

MonitorNext == Task \/ Observer
MonitorSpec == MonitorInit /\ [][MonitorNext]_monitorVars

-----------------------------------------------------------------------------
(* Properties                                                               *)

\* A wait only gives up on a dispatcher it can see when that was killed, or had not
\* yet said who it is: the boundary of one that ended by itself, even between the
\* last count of the events and the question whether it runs, is found
\* (monitor-claude.sh:193-244).
NoBoundaryIsLost ==
  look.at = "waited" /\ look.ended = "visibility-unknown" /\ sight = "same" =>
    look.found \in {"new", "captured", "killed"}

\* Once a snapshot calls a task terminal, with high confidence, although its files
\* were read at seven different moments, Claude does not run any more, and neither
\* does a dispatcher that can be seen (claude-monitor-decision.py:430-560).
TerminalIsOver ==
  answer.decision = "terminal" /\ answer.confidence = "high" =>
    "claude" \notin alive /\ (sight = "same" => "dispatcher" \notin alive)

\* A dispatch that was aborted and has ended is not said to go on: "terminal
\* evidence still wins" (claude-monitor-decision.py:461-463).
AbortIsSeen ==
  answer.decision = "continue" => ~answer.over
=============================================================================
