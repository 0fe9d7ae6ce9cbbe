--------------------------- MODULE WorkflowState ---------------------------
(***************************************************************************)
(* The Workflow State IR of scripts/workflow_state.py: a state file, the    *)
(* event log it is derived from, and the two programs that write them under *)
(* the state lock, apply-workflow-delta.py (Writers) and                    *)
(* recover-workflow-state.py --apply (Recoverers).                          *)
(*                                                                          *)
(* A state's id hashes its parent's id, its revision and its content, so a  *)
(* state is represented by the sequence of mutations that led to it, and    *)
(* equal ids are equal sequences.                                           *)
(***************************************************************************)
EXTENDS Naturals, Sequences, FiniteSets

CONSTANTS Writers,       \* calls of apply-workflow-delta.py
          Recoverers,    \* calls of recover-workflow-state.py --apply
          Mutations,     \* the [type, id, refs] an event may carry
          Batches,       \* the sequences of mutations a delta may hold
          FirstPhase,    \* the phase of the initial state
          AcceptanceIds, \* the acceptance items of the task
          MaxRevision,   \* bound on the revisions deltas are drafted for
          None

Procs == Writers \cup Recoverers
States == Seq(Mutations)
Events == [base : States \cup {None}, new : States]

ASSUME ProcsAssumption == /\ Writers \cap Recoverers = {}
                          /\ None \notin Procs
ASSUME StatesAssumption == /\ None \notin States
                           /\ Batches \subseteq States \ {<<>>}
ASSUME BoundAssumption == MaxRevision \in Nat

VARIABLES state,     \* WORKFLOW_STATE.json, None when it does not exist
          log,       \* the complete events of WORKFLOW_EVENTS.jsonl
          end,       \* how its text ends: "whole", "open" (the last event has
                     \* no newline), "torn" (some line is no JSON)
          receipt,   \* WORKFLOW_RECOVERY_RECEIPT.json
          lock,      \* who holds the flock on WORKFLOW_STATE.json.lock
          pc, job,   \* where each process is, and what it knows
          reported   \* the transitions that callers were told succeeded

vars == <<state, log, end, receipt, lock, pc, job, reported>>

-----------------------------------------------------------------------------
(* apply_mutation: when a mutation is legal in a state.                     *)

Adds == [constraints         |-> "constraint-added",
         accepted_decisions  |-> "decision-accepted",
         rejected_hypotheses |-> "hypothesis-rejected",
         open_questions      |-> "question-opened",
         evidence_refs       |-> "evidence-added"]

Removes == [accepted_decisions  |-> "decision-invalidated",
            rejected_hypotheses |-> "hypothesis-reopened",
            open_questions      |-> "question-resolved"]

NeedsEvidence == {"decision-invalidated", "hypothesis-rejected", "hypothesis-reopened"}

PhaseTransitions == [planning       |-> {"implementation", "complete"},
                     implementation |-> {"verification", "revision"},
                     verification   |-> {"review", "revision"},
                     review         |-> {"revision", "complete"},
                     revision       |-> {"implementation", "verification"},
                     complete       |-> {}]

\* Mutation i of s is about item id and no later one of type t undoes it.
StandsUnless(s, i, t, id) ==
  \A j \in i + 1 .. Len(s) : ~(s[j].type = t /\ s[j].id = id)

\* The item id is in the collection c of state s.
Holds(s, c, id) ==
  \E i \in 1 .. Len(s) :
    /\ s[i].type = Adds[c] /\ s[i].id = id
    /\ c \in DOMAIN Removes => StandsUnless(s, i, Removes[c], id)

Frozen(s, id) ==
  \E i \in 1 .. Len(s) :
    /\ s[i].type = "decision-frozen" /\ s[i].id = id
    /\ StandsUnless(s, i, "decision-invalidated", id)

\* The value of a field that each mutation of type t overwrites.
Current(s, t, first) ==
  LET sets == {i \in 1 .. Len(s) : s[i].type = t}
  IN IF sets = {} THEN first
     ELSE s[CHOOSE i \in sets : \A j \in sets : j <= i].id

Applicable(s, m) ==
  /\ \A ref \in m.refs : Holds(s, "evidence_refs", ref)
  /\ m.type \in NeedsEvidence => m.refs # {}
  /\ \A c \in DOMAIN Adds : m.type = Adds[c] => ~Holds(s, c, m.id)
  /\ \A c \in DOMAIN Removes : m.type = Removes[c] => Holds(s, c, m.id)
  /\ m.type = "decision-frozen" =>
       Holds(s, "accepted_decisions", m.id) /\ ~Frozen(s, m.id)
  /\ m.type = "acceptance-updated" => m.id \in AcceptanceIds
  /\ m.type = "phase-changed" =>
       m.id \in PhaseTransitions[Current(s, "phase-changed", FirstPhase)]

-----------------------------------------------------------------------------
(* Event chains.                                                            *)

\* The state after the first i mutations of a batch.
After(s, batch, i) == s \o SubSeq(batch, 1, i)

AllApplicable(s, batch) ==
  \A i \in 1 .. Len(batch) : Applicable(After(s, batch, i - 1), batch[i])

\* finalize_transition, once for each mutation of a batch.
EventsOf(s, batch) ==
  [i \in 1 .. Len(batch) |->
     [base |-> After(s, batch, i - 1), new |-> After(s, batch, i)]]

Newest(l) == l[Len(l)].new

\* What replay_events accepts.
Replays(l) ==
  /\ Len(l) > 0
  /\ l[1] = [base |-> None, new |-> <<>>]
  /\ \A i \in 2 .. Len(l) :
       /\ l[i].base = l[i - 1].new
       /\ \E m \in Mutations : /\ Applicable(l[i].base, m)
                               /\ l[i].new = Append(l[i].base, m)

\* load_events: one line that is no JSON, and nothing can be read any more.
Readable == end # "torn"

\* A variant: without the fsync the events may be lost.
WriteEventsUnsynced(s, batch) ==
  /\ log' \in {log, log \o EventsOf(s, batch)}
  /\ end' = IF end = "whole" THEN "whole" ELSE "torn"

\* append_events runs to its end.  An event that follows an open line joins it.
WriteEvents(s, batch) ==
  /\ log' = log \o EventsOf(s, batch)
  /\ end' = IF end = "whole" THEN "whole" ELSE "torn"

\* append_events is cut short after k events, perhaps inside a line or just
\* before a newline: the process is killed, or the write or the flush fails.
WritePart(s, batch) ==
  \E k \in 0 .. Len(batch), how \in {"whole", "open", "torn"} :
    /\ k = 0 => how \in {end, "torn"}
    /\ k = Len(batch) /\ how = "torn" => end # "whole"
    /\ end = "open" /\ k > 0 => how = "torn"
    /\ end = "torn" => how = "torn"
    /\ log' = log \o SubSeq(EventsOf(s, batch), 1, k)
    /\ end' = how

-----------------------------------------------------------------------------
(* Processes.  base and batch are a writer's delta, seen is the state file  *)
(* as it was read, chain the event log as it was read.                      *)

Nothing == [base |-> None, batch |-> <<>>, seen |-> None, chain |-> <<>>]

Init ==
  \* init-workflow-state.py ended, or was stopped between its two writes or
  \* within the first one.
  /\ \/ state = <<>> /\ end = "whole"
     \/ state = None /\ end \in {"whole", "open"}
  /\ log = <<[base |-> None, new |-> <<>>]>>
  /\ receipt = None
  /\ lock = None
  /\ pc = [p \in Procs |-> "idle"]
  /\ job = [p \in Procs |-> Nothing]
  /\ reported = {}

Goto(p, place) == pc' = [pc EXCEPT ![p] = place]

\* p ends and the kernel releases its flock.
Leave(p) ==
  /\ pc' = [pc EXCEPT ![p] = "idle"]
  /\ job' = [job EXCEPT ![p] = Nothing]
  /\ lock' = IF lock = p THEN None ELSE lock

Acquire(p) ==
  /\ lock = None
  /\ lock' = p
  /\ UNCHANGED <<state, log, end, receipt, reported>>

\* A delta is written for the state its author sees, before the lock is taken.
Draft(w) ==
  /\ pc[w] = "idle"
  /\ state # None
  /\ \E batch \in Batches :
       /\ Len(state) + Len(batch) <= MaxRevision
       /\ job' = [job EXCEPT ![w].base = state, ![w].batch = batch]
  /\ Goto(w, "drafted")
  /\ UNCHANGED <<state, log, end, receipt, lock, reported>>

StartApply(w) ==
  /\ pc[w] = "drafted"
  /\ Acquire(w)
  /\ Goto(w, "reading")
  /\ UNCHANGED job

ReadState(w) ==
  /\ pc[w] = "reading"
  /\ IF state = None
     THEN Leave(w)
     ELSE /\ job' = [job EXCEPT ![w].seen = state]
          /\ Goto(w, "checking")
          /\ UNCHANGED lock
  /\ UNCHANGED <<state, log, end, receipt, reported>>

\* The log ends in the state read, which is the one the delta is for, and
\* every mutation of the delta is legal.
MayApply(w) ==
  /\ Readable
  /\ Newest(log) = job[w].seen
  /\ job[w].base = job[w].seen
  /\ AllApplicable(job[w].seen, job[w].batch)

CheckDelta(w) ==
  /\ pc[w] = "checking"
  /\ IF MayApply(w)
     THEN Goto(w, "appending") /\ UNCHANGED <<lock, job>>
     ELSE Leave(w)
  /\ UNCHANGED <<state, log, end, receipt, reported>>

AppendEvents(w) ==
  /\ pc[w] = "appending"
  /\ WriteEvents(job[w].seen, job[w].batch)
  /\ Goto(w, "replacing")
  /\ UNCHANGED <<state, receipt, lock, job, reported>>

AppendCutShort(w) ==
  /\ pc[w] = "appending"
  /\ WritePart(job[w].seen, job[w].batch)
  /\ Leave(w)
  /\ UNCHANGED <<state, receipt, reported>>

ReplaceState(w) ==
  /\ pc[w] = "replacing"
  /\ state' = job[w].seen \o job[w].batch
  /\ Goto(w, "reporting")
  /\ UNCHANGED <<log, end, receipt, lock, job, reported>>

Report(w) ==
  /\ pc[w] = "reporting"
  /\ reported' = reported \cup
       {[base |-> job[w].base, new |-> job[w].seen \o job[w].batch]}
  /\ Leave(w)
  /\ UNCHANGED <<state, log, end, receipt>>

\* A variant: recovery does not take the lock.
StartRecoveryUnlocked(r) ==
  /\ pc[r] = "idle"
  /\ Goto(r, "replaying")
  /\ UNCHANGED <<state, log, end, receipt, reported, lock, job>>

StartRecovery(r) ==
  /\ pc[r] = "idle"
  /\ Acquire(r)
  /\ Goto(r, "replaying")
  /\ UNCHANGED job

\* assess: the event log first ...
ReadChain(r) ==
  /\ pc[r] = "replaying"
  /\ IF Readable /\ Replays(log)
     THEN /\ job' = [job EXCEPT ![r].chain = log]
          /\ Goto(r, "assessing")
          /\ UNCHANGED lock
     ELSE Leave(r)
  /\ UNCHANGED <<state, log, end, receipt, reported>>

\* ... then the state file: "state-missing" and "event-ahead" are recovered,
\* "in-sync", "state-ahead" and "diverged" are not.
Recoverable(chain, current) ==
  /\ current # Newest(chain)
  /\ current = None \/ \E i \in 1 .. Len(chain) - 1 : chain[i].new = current

Assess(r) ==
  /\ pc[r] = "assessing"
  /\ IF Recoverable(job[r].chain, state)
     THEN /\ job' = [job EXCEPT ![r].seen = state]
          /\ Goto(r, "recovering")
          /\ UNCHANGED lock
     ELSE Leave(r)
  /\ UNCHANGED <<state, log, end, receipt, reported>>

RecoverState(r) ==
  /\ pc[r] = "recovering"
  /\ state' = Newest(job[r].chain)
  /\ Goto(r, "receipting")
  /\ UNCHANGED <<log, end, receipt, lock, job, reported>>

\* build_receipt takes the report of assess and hashes the log as it is now.
WriteReceipt(r) ==
  /\ pc[r] = "receipting"
  /\ receipt' = [before |-> job[r].seen, after |-> Newest(job[r].chain),
                 count |-> Len(job[r].chain), hashed |-> log]
  /\ Leave(r)
  /\ UNCHANGED <<state, log, end, reported>>

\* A process is killed between two of its steps, or a file operation fails.
Die(p) ==
  /\ pc[p] # "idle"
  /\ Leave(p)
  /\ UNCHANGED <<state, log, end, receipt, reported>>

WriterStep(w) ==
  \/ Draft(w) \/ StartApply(w) \/ ReadState(w) \/ CheckDelta(w)
  \/ AppendEvents(w) \/ AppendCutShort(w) \/ ReplaceState(w) \/ Report(w)

RecovererStep(r) ==
  \/ StartRecovery(r) \/ ReadChain(r) \/ Assess(r) \/ RecoverState(r)
  \/ WriteReceipt(r)

Next ==
  \/ \E w \in Writers : WriterStep(w)
  \/ \E r \in Recoverers : RecovererStep(r)
  \/ \E p \in Procs : Die(p)

Spec == Init /\ [][Next]_vars

-----------------------------------------------------------------------------
(* Properties.                                                              *)

Receipts == [before : States \cup {None}, after : States,
             count : Nat, hashed : Seq(Events)]

TypeOK ==
  /\ state \in States \cup {None}
  /\ log \in Seq(Events)
  /\ end \in {"whole", "open", "torn"}
  /\ receipt \in Receipts \cup {None}
  /\ lock \in Procs \cup {None}
  /\ pc \in [Procs -> {"idle", "drafted", "reading", "checking", "appending",
                       "replacing", "reporting", "replaying", "assessing",
                       "recovering", "receipting"}]
  /\ job \in [Procs -> [base : States \cup {None}, batch : States,
                        seen : States \cup {None}, chain : Seq(Events)]]
  /\ reported \in SUBSET [base : States, new : States]

\* Whatever is interrupted and whoever writes when, the events that are on
\* disk form one unbroken chain of legal mutations, which recovery can replay
\* (workflow_state.py:517-555).
LogReplays == Replays(log)

\* "No state can exist untraced" (apply-workflow-delta.py:56-57): the state
\* file never holds a state that the event log does not lead to.
StateIsTraced == state # None => \E i \in 1 .. Len(log) : log[i].new = state

\* A transition that was reported to its caller is never lost: it is part of
\* the history that every later state continues, whatever is interrupted and
\* recovered afterwards (apply-workflow-delta.py:58-63).
ReportedTransitionsAreKept ==
  \A t \in reported :
    \E i, j \in 1 .. Len(log) : i < j /\ log[i].new = t.base /\ log[j].new = t.new

\* Of the deltas drafted for one base at most one is ever accepted
\* (apply-workflow-delta.py:35-36): the others see a later state, even if the
\* one that won was interrupted and recovered.
OneDeltaPerBase ==
  \A t, u \in reported : t.base = u.base => t.new = u.new

\* A recovery receipt tells the truth about one moment of the log: the log it
\* hashes has the events it counts, ends in the state it restored, and holds
\* the state it replaced (recover-workflow-state.py:89-109, 138-141).
ReceiptIsTrue ==
  receipt # None =>
    /\ Len(receipt.hashed) = receipt.count
    /\ Newest(receipt.hashed) = receipt.after
    /\ Recoverable(receipt.hashed, receipt.before)

\* The two files implement one growing history with a view of it.
Chain == INSTANCE StateChain WITH history <- Newest(log), view <- state
ImplementsStateChain == Chain!Spec
=============================================================================
