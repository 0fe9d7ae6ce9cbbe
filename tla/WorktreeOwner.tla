---------------------------- MODULE WorktreeOwner ----------------------------
(***************************************************************************)
(* Who may write one dirty product worktree.  A dispatch of                *)
(* dispatch-to-claude.sh starts Claude in it: the fresh one that creates   *)
(* it, a retry in place, a reviewed continuation (an approval written by   *)
(* prepare-worktree-continuation.py) or an advisor continuation (an answer *)
(* prepared by prepare-advisor-continuation.py).  prepare-codex-takeover   *)
(* gives the worktree to Codex after two counted failures.  A dispatcher   *)
(* checks, reserves, reads the takeover markers and starts Claude in       *)
(* separate steps, and may be killed between any two of them.              *)
(***************************************************************************)
EXTENDS AttemptClass, FiniteSets

CONSTANTS Dispatches,      \* task ids, one for each run of the dispatcher
          FreshDispatch,   \* the one that creates the worktree
          Approvals,       \* ids of reviewed-continuation approvals
          Paths,           \* product paths
          MaxVersion,      \* bound: writes to one path
          Outcomes,        \* the attempts a run may turn out to be
          None

ASSUME WorktreeAssumption ==
  /\ FreshDispatch \in Dispatches /\ None \notin Dispatches
  /\ MaxVersion \in Nat
  /\ Outcomes \subseteq Attempts

Contents == [Paths -> 0..MaxVersion]      \* 0: as committed
NoApproval == [prior |-> None]
NoAnswer == [resume |-> FALSE]
Kinds == {"fresh", "retry", "reviewed", "advisor"}
Job(kind, prior, approval) == [kind |-> kind, prior |-> prior, approval |-> approval]
NoJob == Job("none", None, None)

VARIABLES
  job,       \* what each dispatch was asked to do
  pc,        \* where its dispatcher is
  claude,    \* its Claude process
  class,     \* its attempt classification: the files beside its runtime receipt
  approval,  \* approval files
  slot,      \* per approval: the dispatch of its lease directory, and consumed
  lock,      \* per task: the dispatches of its retry and advisor lock directories
  answer,    \* per task: the advisor packet with its validated answer
  used,      \* tasks whose advisor answer is marked consumed
  content,   \* the worktree
  marker,    \* the codex-write-owner file
  takeover   \* the takeover process

vars == <<job, pc, claude, class, approval, slot, lock, answer, used, content,
          marker, takeover>>
control == <<approval, answer, marker, takeover>>

-----------------------------------------------------------------------------
\* The dispatcher runs between its validation and its exit.
Alive(d) == pc[d] \in {"validated", "reserved", "ready", "armed", "running", "concluded"}

\* runtime.json exists: it is written after the marker check.
Recorded(d) == pc[d] \in {"ready", "armed", "running", "concluded", "ended", "killed"}

\* A variant: only the dispatcher's process is looked at.
DispatcherGone(t) == ~Alive(t)

\* The processes recorded for task t are gone (process identities, by pid,
\* start time and command line; a reused pid is not the process).
WritersGone(t) == ~Alive(t) /\ claude[t] # "running"

Changed == {p \in Paths : content[p] # 0}
Marked == marker.status # "none"

\* validate_runtime: the runs whose worktree may be continued under review.
Reviewable(t) ==
  /\ Recorded(t) /\ job[t].kind \in {"fresh", "reviewed", "advisor"}
  /\ ~Marked /\ WritersGone(t)

\* prepare: the accepted paths are exactly the current changes.  (The new paths
\* it allows only decide the outcome reported after the run.)
Prepare(a, t) ==
  /\ approval[a] = NoApproval /\ Reviewable(t)
  /\ Changed # {}
  /\ approval' = [approval EXCEPT ![a] = [prior |-> t, state |-> content]]
  /\ UNCHANGED <<job, pc, claude, class, slot, lock, answer, used, content, marker,
                 takeover>>

\* prepare-advisor-continuation.py: a packet bound to the worktree's hash, and
\* the advisor's answer, which may or may not be resumed.
AskAdvisor(t, resume) ==
  /\ class[t] = "advise" /\ answer[t] = NoAnswer
  /\ answer' = [answer EXCEPT ![t] = [resume |-> resume, state |-> content]]
  /\ UNCHANGED <<job, pc, claude, class, approval, slot, lock, used, content, marker,
                 takeover>>

-----------------------------------------------------------------------------
\* The dispatcher's steps.  Each kind is validated first.
Begins(d, j) ==
  /\ pc[d] = "idle"
  /\ job' = [job EXCEPT ![d] = j] /\ pc' = [pc EXCEPT ![d] = "validated"]
  /\ UNCHANGED <<claude, class, slot, lock, used, content, control>>

BeginFresh(d) == d = FreshDispatch /\ Begins(d, Job("fresh", None, None))

BeginRetry(d, t) ==
  /\ Recorded(t) /\ WritersGone(t)
  /\ Changed = {}
  /\ job[t].kind # "retry"              \* retry_ordinal below 1
  /\ Begins(d, Job("retry", t, None))

\* validate, then the test for the consumed directory.
BeginReviewed(d, a) ==
  /\ approval[a] # NoApproval /\ Reviewable(approval[a].prior)
  /\ content = approval[a].state
  /\ ~slot[a].consumed
  /\ Begins(d, Job("reviewed", approval[a].prior, a))

\* The answer is for this state of the worktree, may be resumed and is unused.
BeginAdvisor(d, t) ==
  /\ Recorded(t) /\ WritersGone(t)
  /\ answer[t].resume /\ answer[t].state = content /\ t \notin used
  /\ Begins(d, Job("advisor", t, None))

\* mkdir of the lease or lock directory; the advisor's answer is consumed here.
MayReserve(d) ==
  CASE job[d].kind = "reviewed" -> slot[job[d].approval].lease = None
    [] job[d].kind \in {"retry", "advisor"} -> lock[job[d].prior][job[d].kind] = None
    [] OTHER -> TRUE

Reserve(d) ==
  /\ pc[d] = "validated" /\ MayReserve(d)
  /\ pc' = [pc EXCEPT ![d] = "reserved"]
  /\ slot' = IF job[d].kind = "reviewed"
             THEN [slot EXCEPT ![job[d].approval].lease = d] ELSE slot
  /\ lock' = IF job[d].kind \in {"retry", "advisor"}
             THEN [lock EXCEPT ![job[d].prior][job[d].kind] = d] ELSE lock
  /\ used' = IF job[d].kind = "advisor" THEN used \cup {job[d].prior} ELSE used
  /\ UNCHANGED <<job, claude, class, content, control>>

ReserveRefused(d) ==
  /\ pc[d] = "validated" /\ ~MayReserve(d)
  /\ pc' = [pc EXCEPT ![d] = "refused"]
  /\ UNCHANGED <<job, claude, class, slot, lock, used, content, control>>

\* The EXIT trap removes what the dispatcher still holds.
Release(d) ==
  /\ slot' = [a \in Approvals |->
                IF slot[a].lease = d THEN [slot[a] EXCEPT !.lease = None] ELSE slot[a]]
  /\ lock' = [t \in Dispatches |-> [k \in {"retry", "advisor"} |->
                IF lock[t][k] = d THEN None ELSE lock[t][k]]]

\* The takeover markers are read; then runtime.json is written.
ReadMarker(d) ==
  /\ pc[d] = "reserved" /\ ~Marked
  /\ pc' = [pc EXCEPT ![d] = "ready"]
  /\ UNCHANGED <<job, claude, class, slot, lock, used, content, control>>

\* Any exit before Claude starts: the marker, a failed preflight, exit 75.
Leave(d) ==
  /\ pc[d] \in {"reserved", "ready"}
  /\ pc' = [pc EXCEPT ![d] = IF Recorded(d) THEN "ended" ELSE "refused"]
  /\ Release(d)
  /\ UNCHANGED <<job, claude, class, used, content, control>>

\* A variant: the second mkdir's result is not looked at.
MayArmAgain(d) == TRUE

\* The approval is consumed when the launch is imminent.
MayArm(d) == job[d].kind = "reviewed" => ~slot[job[d].approval].consumed

Arm(d) ==
  /\ pc[d] = "ready" /\ MayArm(d)
  /\ pc' = [pc EXCEPT ![d] = "armed"]
  /\ slot' = IF job[d].kind = "reviewed"
             THEN [slot EXCEPT ![job[d].approval] = [lease |-> None, consumed |-> TRUE]]
             ELSE slot
  /\ UNCHANGED <<job, claude, class, lock, used, content, control>>

ArmRefused(d) == pc[d] = "ready" /\ ~MayArm(d) /\ Leave(d)

Launch(d) ==
  /\ pc[d] = "armed"
  /\ pc' = [pc EXCEPT ![d] = "running"] /\ claude' = [claude EXCEPT ![d] = "running"]
  /\ UNCHANGED <<job, class, slot, lock, used, content, control>>

ClaudeWrites(d, p) ==
  /\ claude[d] = "running" /\ content[p] < MaxVersion
  /\ content' = [content EXCEPT ![p] = @ + 1]
  /\ UNCHANGED <<job, pc, claude, class, slot, lock, used, control>>

ClaudeEnds(d) ==
  /\ claude[d] = "running" /\ claude' = [claude EXCEPT ![d] = "gone"]
  /\ UNCHANGED <<job, pc, class, slot, lock, used, content, control>>

\* The attempt is classified; a second counted failure, of a retry of a first
\* one, issues a takeover candidate (build-takeover-receipt.py).
ClassOf(x) ==
  IF FailureClass(x, Changed # {}) \in CountedFailures THEN "counted"
  ELSE IF AdvisorEligible(x, Changed # {}, FALSE) THEN "advise"
  ELSE "other"

Conclude(d, x) ==
  /\ pc[d] = "running" /\ claude[d] = "gone"
  /\ pc' = [pc EXCEPT ![d] = "concluded"]
  /\ class' = [class EXCEPT ![d] = ClassOf(x)]
  /\ UNCHANGED <<job, claude, slot, lock, used, content, control>>

Candidate(t) ==
  /\ Recorded(t) /\ job[t].kind = "retry"
  /\ class[t] = "counted" /\ class[job[t].prior] = "counted"

Exit(d) ==
  /\ pc[d] = "concluded"
  /\ pc' = [pc EXCEPT ![d] = "ended"] /\ Release(d)
  /\ UNCHANGED <<job, claude, class, used, content, control>>

\* SIGKILL: no handler runs, the directories stay and Claude goes on.
Kill(d) ==
  /\ Alive(d) /\ pc' = [pc EXCEPT ![d] = IF Recorded(d) THEN "killed" ELSE "refused"]
  /\ UNCHANGED <<job, claude, class, slot, lock, used, content, control>>

-----------------------------------------------------------------------------
\* prepare-codex-takeover.py
files == <<job, approval, answer, used>>

\* The deny marker comes before the processes are stopped.
TakeoverMarks(t) ==
  /\ takeover.at \in {"idle", "failed"} /\ Candidate(t)
  /\ marker' = [status |-> "takeover-in-progress", task |-> t]
  /\ takeover' = [at |-> "marked", task |-> t]
  /\ UNCHANGED <<files, pc, claude, class, slot, lock, content>>

\* The recorded process trees end on SIGTERM, where the dispatcher's handler
\* releases, or on SIGKILL, where nothing does.
TakeoverStops(gently) ==
  LET t == takeover.task
  IN /\ takeover.at = "marked"
     /\ pc' = [pc EXCEPT ![t] = IF Alive(t) THEN (IF gently THEN "ended" ELSE "killed")
                                ELSE @]
     /\ claude' = [claude EXCEPT ![t] = IF @ = "running" THEN "gone" ELSE @]
     /\ IF gently /\ Alive(t) THEN Release(t) ELSE UNCHANGED <<slot, lock>>
     /\ takeover' = [takeover EXCEPT !.at = "stopped"]
     /\ UNCHANGED <<files, class, content, marker>>

\* The first of the equal samples the grant needs.
TakeoverSamples ==
  /\ takeover.at = "stopped"
  /\ takeover' = [at |-> "sampled", task |-> takeover.task, sample |-> content]
  /\ UNCHANGED <<files, pc, claude, class, slot, lock, content, marker>>

TakeoverGrants ==
  /\ takeover.at = "sampled" /\ content = takeover.sample
  /\ takeover' = [takeover EXCEPT !.at = "granted"]
  /\ marker' = [status |-> "authorized", task |-> takeover.task]
  /\ UNCHANGED <<files, pc, claude, class, slot, lock, content>>

\* A survivor, an unproven pid, or a sample that differs: the marker stays.
TakeoverFails ==
  /\ takeover.at \in {"marked", "stopped", "sampled"}
  /\ takeover.at = "sampled" => content # takeover.sample
  /\ takeover' = [at |-> "failed", task |-> takeover.task]
  /\ UNCHANGED <<files, pc, claude, class, slot, lock, content, marker>>

-----------------------------------------------------------------------------
WorktreeInit ==
  /\ job = [d \in Dispatches |-> NoJob] /\ pc = [d \in Dispatches |-> "idle"]
  /\ claude = [d \in Dispatches |-> "none"] /\ class = [d \in Dispatches |-> "none"]
  /\ approval = [a \in Approvals |-> NoApproval]
  /\ slot = [a \in Approvals |-> [lease |-> None, consumed |-> FALSE]]
  /\ lock = [t \in Dispatches |-> [k \in {"retry", "advisor"} |-> None]]
  /\ answer = [t \in Dispatches |-> NoAnswer] /\ used = {}
  /\ content = [p \in Paths |-> 0]
  /\ marker = [status |-> "none"] /\ takeover = [at |-> "idle"]

WorktreeNext ==
  \/ \E a \in Approvals, t \in Dispatches : Prepare(a, t)
  \/ \E t \in Dispatches, resume \in BOOLEAN : AskAdvisor(t, resume)
  \/ \E d \in Dispatches :
       \/ BeginFresh(d) \/ Reserve(d) \/ ReserveRefused(d) \/ ReadMarker(d) \/ Leave(d)
       \/ Arm(d) \/ ArmRefused(d) \/ Launch(d) \/ ClaudeEnds(d) \/ Exit(d) \/ Kill(d)
       \/ TakeoverMarks(d)
       \/ \E t \in Dispatches : BeginRetry(d, t) \/ BeginAdvisor(d, t)
       \/ \E a \in Approvals : BeginReviewed(d, a)
       \/ \E p \in Paths : ClaudeWrites(d, p)
       \/ \E x \in Outcomes : Conclude(d, x)
  \/ \E gently \in BOOLEAN : TakeoverStops(gently)
  \/ TakeoverSamples \/ TakeoverGrants \/ TakeoverFails

WorktreeSpec == WorktreeInit /\ [][WorktreeNext]_vars

-----------------------------------------------------------------------------
\* An approval starts Claude at most once, however many dispatches validate it,
\* leave it again before the launch, or are killed on the way.
OneStartPerApproval ==
  \A d, e \in Dispatches :
    (/\ job[d].kind = "reviewed" /\ job[e].kind = "reviewed"
     /\ job[d].approval = job[e].approval
     /\ claude[d] # "none" /\ claude[e] # "none") => d = e

\* A dispatch never writes together with the one it continues, not even when
\* that one's dispatcher was killed and left its Claude behind.
ParentIsGone ==
  \A d \in Dispatches :
    claude[d] = "running" /\ job[d].prior # None =>
      claude[job[d].prior] # "running" /\ ~Alive(job[d].prior)
=============================================================================
