----------------------------- MODULE BookendTask -----------------------------
(***************************************************************************)
(* The durable Bookend task of scripts/bookend-task.py: one supervisor     *)
(* process drives a frozen task through execution epochs of Claude, wakes  *)
(* Codex for a review or a checkpoint, and waits for the verdict file that *)
(* a Codex command line writes.                                            *)
(*                                                                         *)
(* All processes share bookend-state.json.  update_state loads the file,   *)
(* merges its updates and replaces the file; nothing locks it.  Each       *)
(* update is therefore two steps here: the action that decides it fills    *)
(* the process's buffer with the merged record (Update), and StoreState    *)
(* replaces the file by the buffer.                                        *)
(***************************************************************************)
EXTENDS Integers, FiniteSets, TLC

CONSTANTS
  Supervisors,    \* "bookend supervise" processes started on the task
  Reviewers,      \* Codex shells that run review-verdict and checkpoint-verdict
  Readers,        \* shells that run review-input
  MaxEpochs,      \* max_epochs of the submitted task
  MaxRevisions,   \* max_revision_rounds
  MaxCheckpoints, \* max_checkpoints: 1 in balanced mode, else 0
  None            \* no process, no file

ASSUME SupervisorsAssumption == None \notin Supervisors
ASSUME MaxEpochsAssumption == MaxEpochs \in Nat \ {0}
ASSUME MaxRevisionsAssumption == MaxRevisions \in Nat
ASSUME MaxCheckpointsAssumption == MaxCheckpoints \in Nat

VARIABLES
  st,           \* bookend-state.json
  lock,         \* supervisor.lock: the supervisor that created it
  executor,     \* the executor process of an epoch and the inputs it was given
  result,       \* epoch-result.json of the last epoch, as classify_result sees it
  projection,   \* review-projection.json: the epoch it projects, 0 when absent
  request,      \* codex-wake-request.json
  verdict,      \* review-verdict.json
  cpVerdict,    \* checkpoint-verdict.json
  wakes,        \* codex_wakeup_requested events in bookend-events.jsonl, by kind
  pc, buf, after, \* of each supervisor: step, the record of its last update_state, next step
  ep, rev,        \* of each supervisor: the loop's epoch, rev_count at DONE_CANDIDATE
  cl,           \* of each Codex shell: step and what it read before writing
  rd            \* of each review-input: step, the request it read, the record to write

files == <<projection, request, verdict, cpVerdict, wakes>>
shells == <<cl, rd>>
supVars == <<pc, buf, after, ep, rev>>
vars == <<st, lock, executor, result, files, supVars, shells>>

-----------------------------------------------------------------------------
(* The durable record *)

TerminalStates ==
  {"review_ready", "semantic_blocked", "runtime_blocked",
   "authority_blocked", "budget_exhausted"}
CodexWakeStates ==
  {"review_ready", "checkpoint_ready", "revision_pending", "semantic_blocked"}
LiveStates ==
  {"submitted", "converging", "classifying", "recovering", "projecting",
   "revision_pending", "checkpoint_ready"}
States == TerminalStates \cup LiveStates

Recoveries ==
  {"none", "same-owner-next-epoch", "revision-continue", "checkpoint-resume",
   "window-continue", "convergence-continue"}

TaskState ==
  [state: States, epoch: 0..MaxEpochs, grant: {"not-issued", "issued", "revoked"},
   lease: {"assigned", "active", "paused", "suspended", "released"},
   product: BOOLEAN, receipt: 0..MaxEpochs, recovery: Recoveries,
   revisions: Nat, checkpoints: Nat, requested: BOOLEAN]

Submitted ==
  [state |-> "submitted", epoch |-> 0, grant |-> "not-issued", lease |-> "assigned",
   product |-> FALSE, receipt |-> 0, recovery |-> "none",
   revisions |-> 0, checkpoints |-> 0, requested |-> FALSE]

Terminal == st.state \in TerminalStates

-----------------------------------------------------------------------------
(* What an epoch returns *)

Outcomes ==
  {"done_candidate", "semantic_blocked", "epoch_expired", "checkpoint_trigger",
   "runtime_blocked", "authority_blocked", "budget_exhausted"}

\* The executor's JSON: the state it claims, whether it reports a completed
\* run with passed acceptance, its failure status and whether it exited 75.
RawResults ==
  [claim: Outcomes \cup {"none"}, passed: BOOLEAN,
   failure: {"none", "semantic", "needs-host-execution"}, exit75: BOOLEAN]

ClassifyResult(raw) ==
  IF raw.claim # "none"
  THEN IF raw.claim = "done_candidate" /\ ~raw.passed THEN "runtime_blocked" ELSE raw.claim
  ELSE IF raw.failure = "semantic" THEN "semantic_blocked"
  ELSE IF raw.exit75 \/ raw.failure = "needs-host-execution" THEN "authority_blocked"
  ELSE IF raw.passed THEN "done_candidate" ELSE "runtime_blocked"

\* proof: the artifact that must back the outcome - the continuation receipt
\* of epoch_expired ("none" when continuation_safe is not true), the receipt
\* of semantic_blocked, the hash-bound diff of done_candidate.
Results ==
  [outcome: Outcomes, product: BOOLEAN, proof: {"none", "valid", "invalid"}]

ProvedOutcomes == {"done_candidate", "semantic_blocked", "epoch_expired"}

NoResult == [outcome |-> "runtime_blocked", product |-> FALSE, proof |-> "none"]

Executors == [epoch: 1..MaxEpochs, receipt: 0..MaxEpochs]

ReviewKinds == {"final-review", "delta-review"}
Requests ==
  [kind: ReviewKinds \cup {"semantic-escalation"}, epoch: 1..MaxEpochs,
   projection: 0..MaxEpochs]

-----------------------------------------------------------------------------
SupervisorSteps ==
  {"off", "check", "epoch", "launch", "running", "classify", "decide", "project",
   "wake", "pend", "await_review", "await_checkpoint", "store", "done", "dead"}

Verdicts == [action: {"accept", "revise"}, round: Nat]
CheckpointVerdicts == [action: {"continue", "stop"}, epoch: Nat]

Idle == [step |-> "idle", saw |-> 0]
IdleReader == [step |-> "idle", request |-> None, buf |-> Submitted]

Init ==
  /\ st = Submitted
  /\ lock = None
  /\ executor = None
  /\ result = NoResult
  /\ projection = 0
  /\ request = None
  /\ verdict = None
  /\ cpVerdict = None
  /\ wakes = [review |-> 0, checkpoint |-> 0]
  /\ pc = [p \in Supervisors |-> "off"]
  /\ buf = [p \in Supervisors |-> Submitted]
  /\ after = [p \in Supervisors |-> "done"]
  /\ ep = [p \in Supervisors |-> 0]
  /\ rev = [p \in Supervisors |-> 0]
  /\ cl = [c \in Reviewers |-> Idle]
  /\ rd = [c \in Readers |-> IdleReader]

\* update_state, first half: the record loaded now, merged with the updates
\* and about to be written; StoreState(p) writes it and goes on with next.
Update(p, record, next) ==
  /\ buf' = [buf EXCEPT ![p] = record]
  /\ pc' = [pc EXCEPT ![p] = "store"]
  /\ after' = [after EXCEPT ![p] = next]

\* Leave the loop with a terminal state; the owner lease is suspended.
Stop(p, state) ==
  /\ Update(p, [st EXCEPT !.state = state, !.lease = "suspended"], "done")
  /\ UNCHANGED ep

\* A variant: the same epoch is run again.
RecoverSameEpoch(p, record) ==
  /\ Update(p, record, "epoch")
  /\ UNCHANGED ep

\* Go on with the next iteration of the epoch loop.
Recover(p, record) ==
  /\ Update(p, record, "epoch")
  /\ ep' = [ep EXCEPT ![p] = @ + 1]

StoreState(p) ==
  /\ pc[p] = "store"
  /\ st' = buf[p]
  /\ pc' = [pc EXCEPT ![p] = after[p]]
  /\ UNCHANGED <<lock, executor, result, files, buf, after, ep, rev, shells>>

-----------------------------------------------------------------------------
(* supervise *)

\* A variant: the lock of a killed supervisor is taken over.
AcquireFromDead(p) ==
  /\ pc[p] = "off"
  /\ lock # None => pc[lock] = "dead"
  /\ lock' = p
  /\ pc' = [pc EXCEPT ![p] = "check"]
  /\ UNCHANGED <<st, executor, result, files, buf, after, ep, rev, shells>>

\* acquire_supervisor creates supervisor.lock with O_EXCL.
Acquire(p) ==
  /\ pc[p] = "off"
  /\ lock = None
  /\ lock' = p
  /\ pc' = [pc EXCEPT ![p] = "check"]
  /\ UNCHANGED <<st, executor, result, files, buf, after, ep, rev, shells>>

\* The lock file exists: BookendError, and cmd_supervise turns every
\* BookendError into a runtime_blocked record, whoever owns the task.
AcquireRefused(p) ==
  /\ pc[p] = "off"
  /\ lock # None
  /\ Update(p, [st EXCEPT !.state = "runtime_blocked"], "done")
  /\ UNCHANGED <<st, lock, executor, result, files, ep, rev, shells>>

SourceUnchanged(p) ==
  /\ pc[p] = "check"
  /\ pc' = [pc EXCEPT ![p] = "epoch"]
  /\ ep' = [ep EXCEPT ![p] = 1]
  /\ UNCHANGED <<st, lock, executor, result, files, buf, after, rev, shells>>

\* The frozen contract's hash or the source HEAD changed since the freeze, or
\* git failed.
SourceChanged(p) ==
  /\ pc[p] = "check"
  /\ Update(p, [st EXCEPT !.state = "runtime_blocked"], "done")
  /\ UNCHANGED <<st, lock, executor, result, files, ep, rev, shells>>

\* The head of the epoch loop: the write grant is issued to Claude.
BeginEpoch(p) ==
  /\ pc[p] = "epoch"
  /\ ep[p] <= MaxEpochs
  /\ Update(p, [st EXCEPT !.state = "converging", !.epoch = ep[p],
                          !.grant = "issued", !.lease = "active"], "launch")
  /\ UNCHANGED <<st, lock, executor, result, files, ep, rev, shells>>

EpochsExhausted(p) ==
  /\ pc[p] = "epoch"
  /\ ep[p] > MaxEpochs
  /\ Stop(p, "budget_exhausted")
  /\ UNCHANGED <<st, lock, executor, result, files, rev, shells>>

\* run_epoch, up to the child process: the environment is taken from the
\* record as it is now.
LaunchExecutor(p) ==
  /\ pc[p] = "launch"
  /\ executor' = [epoch |-> ep[p], receipt |-> st.receipt]
  /\ pc' = [pc EXCEPT ![p] = "running"]
  /\ UNCHANGED <<st, lock, result, files, buf, after, ep, rev, shells>>

\* The executor exits; run_epoch persists its result.  An executor whose
\* supervisor died exits too, and nobody reads what it returned.
ExecutorExit ==
  /\ executor # None
  /\ executor' = None
  /\ \E raw \in RawResults, product \in BOOLEAN, proof \in {"none", "valid", "invalid"} :
        /\ ClassifyResult(raw) \notin ProvedOutcomes => proof = "none"
        /\ result' = [outcome |-> ClassifyResult(raw), product |-> product, proof |-> proof]
  /\ pc' = [p \in Supervisors |-> IF pc[p] = "running" THEN "classify" ELSE pc[p]]
  /\ UNCHANGED <<st, lock, files, buf, after, ep, rev, shells>>

Classify(p) ==
  /\ pc[p] = "classify"
  /\ Update(p, [st EXCEPT !.state = "classifying", !.grant = "revoked",
                          !.product = @ \/ result.product], "decide")
  /\ UNCHANGED <<st, lock, executor, result, files, ep, rev, shells>>

Decides(p, outcome) == pc[p] = "decide" /\ result.outcome = outcome

\* epoch_expired with continuation_safe: the same owner goes on in the next
\* epoch.  This path leaves convergence_receipt as it was.
ExpiredContinue(p) ==
  /\ Decides(p, "epoch_expired")
  /\ result.proof = "valid"
  /\ ep[p] < MaxEpochs
  /\ Recover(p, [st EXCEPT !.state = "recovering", !.recovery = "same-owner-next-epoch"])
  /\ UNCHANGED <<st, lock, executor, result, files, rev, shells>>

ExpiredStop(p) ==
  /\ Decides(p, "epoch_expired")
  /\ \/ result.proof = "invalid" /\ Stop(p, "runtime_blocked")
     \/ result.proof = "valid" /\ ep[p] = MaxEpochs /\ Stop(p, "budget_exhausted")
  /\ UNCHANGED <<st, lock, executor, result, files, rev, shells>>

DoneCandidate(p) ==
  /\ Decides(p, "done_candidate")
  /\ rev' = [rev EXCEPT ![p] = buf[p].revisions]
  /\ Update(p, [st EXCEPT !.state = "projecting"], "project")
  /\ UNCHANGED <<st, lock, executor, result, files, ep, shells>>

\* build_projection: review-projection.json and the capsule have one name for
\* all epochs.
BuildProjection(p) ==
  /\ pc[p] = "project"
  /\ result.proof = "valid"
  /\ projection' = ep[p]
  /\ pc' = [pc EXCEPT ![p] = "wake"]
  /\ UNCHANGED <<st, lock, executor, result, request, verdict, cpVerdict, wakes,
                 buf, after, ep, rev, shells>>

ProjectionFailed(p) ==
  /\ pc[p] = "project"
  /\ result.proof # "valid"
  /\ Stop(p, "runtime_blocked")
  /\ UNCHANGED <<st, lock, executor, result, files, rev, shells>>

SemanticBlock(p) ==
  /\ Decides(p, "semantic_blocked")
  /\ \/ /\ result.proof = "valid"
        /\ pc' = [pc EXCEPT ![p] = "wake"]
        /\ UNCHANGED <<buf, after, ep>>
     \/ /\ result.proof # "valid"
        /\ Stop(p, "runtime_blocked")
  /\ UNCHANGED <<st, lock, executor, result, files, rev, shells>>

WakeKind(p) ==
  IF result.outcome = "semantic_blocked" THEN "semantic-escalation"
  ELSE IF rev[p] > 0 THEN "delta-review" ELSE "final-review"

\* emit_wake_request replaces codex-wake-request.json.
EmitWakeRequest(p) ==
  /\ pc[p] = "wake"
  /\ request' = [kind |-> WakeKind(p), epoch |-> ep[p],
                 projection |-> IF result.outcome = "done_candidate" THEN projection ELSE 0]
  /\ wakes' = [wakes EXCEPT !.review = @ + 1]
  /\ pc' = [pc EXCEPT ![p] = "pend"]
  /\ UNCHANGED <<st, lock, executor, result, projection, verdict, cpVerdict,
                 buf, after, ep, rev, shells>>

EnterRevisionPending(p) ==
  /\ pc[p] = "pend"
  /\ result.outcome = "done_candidate"
  /\ Update(p, [st EXCEPT !.state = "revision_pending", !.lease = "paused",
                          !.requested = TRUE], "await_review")
  /\ UNCHANGED <<st, lock, executor, result, files, ep, rev, shells>>

EnterSemanticBlocked(p) ==
  /\ pc[p] = "pend"
  /\ result.outcome = "semantic_blocked"
  /\ Update(p, [st EXCEPT !.state = "semantic_blocked", !.lease = "suspended",
                          !.requested = TRUE], "done")
  /\ UNCHANGED <<st, lock, executor, result, files, ep, rev, shells>>

\* wait_for_review_verdict: any verdict file of this task and contract will
\* do; nothing deletes the file and its revision_count is not looked at.
ReviewVerdictSeen(p) ==
  /\ pc[p] = "await_review"
  /\ verdict # None

ReviewAccepted(p) ==
  /\ ReviewVerdictSeen(p)
  /\ verdict.action = "accept"
  /\ Update(p, [st EXCEPT !.state = "review_ready", !.lease = "released"], "done")
  /\ UNCHANGED <<st, lock, executor, result, files, ep, rev, shells>>

AlwaysMayCheckpoint(p) == TRUE

\* rev_count < max_rev, and cp_count < max_cp.
MayRevise(p) == rev[p] < MaxRevisions
MayCheckpoint(p) == buf[p].checkpoints < MaxCheckpoints

\* A variant: an existing receipt is kept.
ReceiptOnce(p) == IF st.receipt # 0 \/ ~buf[p].product THEN st.receipt ELSE ep[p]

\* generate_convergence_receipt runs when a product worktree is recorded; where
\* it may fail, the action says so.
Receipt(p) == IF buf[p].product THEN ep[p] ELSE 0

\* The revision is granted: ok says whether its convergence receipt is made.
ReviewRevise(p) ==
  /\ ReviewVerdictSeen(p)
  /\ verdict.action = "revise"
  /\ MayRevise(p)
  /\ \E ok \in BOOLEAN :
        \/ /\ ok
           /\ Recover(p, [st EXCEPT !.state = "recovering", !.recovery = "revision-continue",
                                    !.revisions = rev[p] + 1,
                                    !.receipt = Receipt(p)])
        \/ /\ ~ok /\ buf[p].product
           /\ Stop(p, "runtime_blocked")
  /\ UNCHANGED <<st, lock, executor, result, files, rev, shells>>

RevisionsExhausted(p) ==
  /\ ReviewVerdictSeen(p)
  /\ verdict.action = "revise"
  /\ ~MayRevise(p)
  /\ Stop(p, "runtime_blocked")
  /\ UNCHANGED <<st, lock, executor, result, files, rev, shells>>

\* A variant: the wait has no timeout.
ReviewWaitsForever(p) ==
  /\ pc[p] = "await_review"
  /\ FALSE
  /\ UNCHANGED vars

ReviewTimeout(p) ==
  /\ pc[p] = "await_review"
  /\ Stop(p, "runtime_blocked")
  /\ UNCHANGED <<st, lock, executor, result, files, rev, shells>>

AuthorityOrBudgetBlocked(p) ==
  /\ pc[p] = "decide"
  /\ result.outcome \in {"authority_blocked", "budget_exhausted"}
  /\ Stop(p, result.outcome)
  /\ UNCHANGED <<st, lock, executor, result, files, rev, shells>>

\* emit_checkpoint_wake_request: only its event is kept here; the request file
\* is written for Codex to read and no step depends on it.
EmitCheckpointWakeRequest == wakes' = [wakes EXCEPT !.checkpoint = @ + 1]

CheckpointWake(p) ==
  /\ Decides(p, "checkpoint_trigger")
  /\ MayCheckpoint(p)
  /\ Update(p, [st EXCEPT !.state = "checkpoint_ready", !.lease = "paused",
                          !.checkpoints = buf[p].checkpoints + 1,
                          !.receipt = Receipt(p)], "await_checkpoint")
  /\ EmitCheckpointWakeRequest
  /\ UNCHANGED <<st, lock, executor, result, projection, request, verdict, cpVerdict,
                 ep, rev, shells>>

\* The checkpoint budget is spent: continue without waking Codex.
WindowContinue(p) ==
  /\ Decides(p, "checkpoint_trigger")
  /\ ~MayCheckpoint(p)
  /\ Recover(p, [st EXCEPT !.state = "recovering", !.recovery = "window-continue",
                           !.receipt = Receipt(p)])
  /\ UNCHANGED <<st, lock, executor, result, files, rev, shells>>

CheckpointReceiptFailed(p) ==
  /\ Decides(p, "checkpoint_trigger")
  /\ buf[p].product
  /\ Stop(p, "runtime_blocked")
  /\ UNCHANGED <<st, lock, executor, result, files, rev, shells>>

\* wait_for_checkpoint_verdict: any verdict file of this task and contract; its
\* epoch is not looked at.  "continue" stands for continue_with_guidance too:
\* the guidance is stored and no epoch is given it.
CheckpointVerdictSeen(p) ==
  /\ pc[p] = "await_checkpoint"
  /\ cpVerdict # None

CheckpointContinue(p) ==
  /\ CheckpointVerdictSeen(p)
  /\ cpVerdict.action = "continue"
  /\ Recover(p, [st EXCEPT !.state = "recovering", !.recovery = "checkpoint-resume"])
  /\ UNCHANGED <<st, lock, executor, result, files, rev, shells>>

CheckpointStop(p) ==
  /\ CheckpointVerdictSeen(p)
  /\ cpVerdict.action = "stop"
  /\ Stop(p, "runtime_blocked")
  /\ UNCHANGED <<st, lock, executor, result, files, rev, shells>>

CheckpointTimeout(p) ==
  /\ pc[p] = "await_checkpoint"
  /\ Stop(p, "runtime_blocked")
  /\ UNCHANGED <<st, lock, executor, result, files, rev, shells>>

NotConverged ==
  \/ result.outcome = "runtime_blocked"
  \/ result.outcome = "epoch_expired" /\ result.proof = "none"

\* A failure that is not semantic: the same owner converges in the next epoch.
ConvergenceContinue(p) ==
  /\ pc[p] = "decide"
  /\ NotConverged
  /\ ep[p] < MaxEpochs
  /\ Recover(p, [st EXCEPT !.state = "recovering", !.recovery = "convergence-continue",
                           !.receipt = Receipt(p)])
  /\ UNCHANGED <<st, lock, executor, result, files, rev, shells>>

ConvergenceStop(p) ==
  /\ pc[p] = "decide"
  /\ NotConverged
  /\ ep[p] = MaxEpochs \/ buf[p].product   \* no epoch left, or no receipt
  /\ Stop(p, "runtime_blocked")
  /\ UNCHANGED <<st, lock, executor, result, files, rev, shells>>

\* The process is killed or the host goes down: the record and the lock stay.
Crash(p) ==
  /\ pc[p] \notin {"off", "done", "dead"}
  /\ pc' = [pc EXCEPT ![p] = "dead"]
  /\ UNCHANGED <<st, lock, executor, result, files, buf, after, ep, rev, shells>>

-----------------------------------------------------------------------------
(* The command lines of Codex.  Each checks the record first and writes its  *)
(* file in a later step.                                                     *)

BeginReviewVerdict(c) ==
  /\ cl[c].step = "idle"
  /\ st.state = "revision_pending"
  /\ cl' = [cl EXCEPT ![c] = [step |-> "review", saw |-> st.revisions]]
  /\ UNCHANGED <<st, lock, executor, result, files, supVars, rd>>

WriteReviewVerdict(c) ==
  /\ cl[c].step = "review"
  /\ \E action \in {"accept", "revise"} : verdict' = [action |-> action, round |-> cl[c].saw]
  /\ cl' = [cl EXCEPT ![c] = Idle]
  /\ UNCHANGED <<st, lock, executor, result, projection, request, cpVerdict, wakes,
                 supVars, rd>>

BeginCheckpointVerdict(c) ==
  /\ cl[c].step = "idle"
  /\ st.state = "checkpoint_ready"
  /\ cl' = [cl EXCEPT ![c] = [step |-> "checkpoint", saw |-> st.epoch]]
  /\ UNCHANGED <<st, lock, executor, result, files, supVars, rd>>

WriteCheckpointVerdict(c) ==
  /\ cl[c].step = "checkpoint"
  /\ \E action \in {"continue", "stop"} : cpVerdict' = [action |-> action, epoch |-> cl[c].saw]
  /\ cl' = [cl EXCEPT ![c] = Idle]
  /\ UNCHANGED <<st, lock, executor, result, projection, request, verdict, wakes,
                 supVars, rd>>

\* cmd_review_input up to the load of the wake request.
ReadRequest(c) ==
  /\ rd[c].step = "idle"
  /\ st.state \in CodexWakeStates
  /\ st.requested /\ request # None
  /\ rd' = [rd EXCEPT ![c] = [step |-> "validate", request |-> request, buf |-> Submitted]]
  /\ UNCHANGED <<st, lock, executor, result, files, supVars, cl>>

\* validate_review_request passes: every hash in the request is the hash of
\* the file it names.
InputValid(c) ==
  /\ rd[c].step = "validate"
  /\ rd[c].request.kind \in ReviewKinds => rd[c].request.projection = projection
  /\ rd' = [rd EXCEPT ![c] = IdleReader]
  /\ UNCHANGED <<st, lock, executor, result, files, supVars, cl>>

\* It fails: the projection was rebuilt, or a bound artifact was edited.  The
\* reader revokes the wake-up.
InputStale(c) ==
  /\ rd[c].step = "validate"
  /\ rd' = [rd EXCEPT ![c].step = "store",
                      ![c].buf = [st EXCEPT !.state = "runtime_blocked",
                                            !.lease = "suspended", !.requested = FALSE]]
  /\ UNCHANGED <<st, lock, executor, result, files, supVars, cl>>

StoreRevocation(c) ==
  /\ rd[c].step = "store"
  /\ st' = rd[c].buf
  /\ rd' = [rd EXCEPT ![c] = IdleReader]
  /\ UNCHANGED <<lock, executor, result, files, supVars, cl>>

-----------------------------------------------------------------------------
Supervise(p) ==
  \/ Acquire(p) \/ AcquireRefused(p) \/ StoreState(p)
  \/ SourceUnchanged(p) \/ SourceChanged(p)
  \/ BeginEpoch(p) \/ EpochsExhausted(p) \/ LaunchExecutor(p) \/ Classify(p)
  \/ ExpiredContinue(p) \/ ExpiredStop(p)
  \/ DoneCandidate(p) \/ BuildProjection(p) \/ ProjectionFailed(p)
  \/ EmitWakeRequest(p) \/ EnterRevisionPending(p)
  \/ SemanticBlock(p) \/ EnterSemanticBlocked(p)
  \/ ReviewAccepted(p) \/ ReviewRevise(p) \/ RevisionsExhausted(p) \/ ReviewTimeout(p)
  \/ AuthorityOrBudgetBlocked(p)
  \/ CheckpointWake(p) \/ WindowContinue(p) \/ CheckpointReceiptFailed(p)
  \/ CheckpointContinue(p) \/ CheckpointStop(p) \/ CheckpointTimeout(p)
  \/ ConvergenceContinue(p) \/ ConvergenceStop(p)

Codex(c) ==
  \/ BeginReviewVerdict(c) \/ WriteReviewVerdict(c)
  \/ BeginCheckpointVerdict(c) \/ WriteCheckpointVerdict(c)

ReviewInput(c) ==
  ReadRequest(c) \/ InputValid(c) \/ InputStale(c) \/ StoreRevocation(c)

Next ==
  \/ \E p \in Supervisors : Supervise(p) \/ Crash(p)
  \/ ExecutorExit
  \/ \E c \in Reviewers : Codex(c)
  \/ \E c \in Readers : ReviewInput(c)

Spec == Init /\ [][Next]_vars

\* The operating system runs every process: a supervisor that is not killed
\* takes its next step in the end - a wait ends by its verdict or its one-hour
\* timeout - and every executor exits.  Nothing is owed by Codex.
FairSpec ==
  /\ Spec
  /\ \A p \in Supervisors : WF_vars(Supervise(p))
  /\ WF_vars(ExecutorExit)

-----------------------------------------------------------------------------
(* Properties *)

TypeOK ==
  /\ st \in TaskState
  /\ lock \in Supervisors \cup {None}
  /\ executor \in Executors \cup {None}
  /\ result \in Results
  /\ projection \in 0..MaxEpochs
  /\ request \in Requests \cup {None}
  /\ verdict \in Verdicts \cup {None}
  /\ cpVerdict \in CheckpointVerdicts \cup {None}
  /\ wakes \in [review: Nat, checkpoint: Nat]
  /\ pc \in [Supervisors -> SupervisorSteps]
  /\ buf \in [Supervisors -> TaskState]
  /\ after \in [Supervisors -> SupervisorSteps]
  /\ ep \in [Supervisors -> 0..(MaxEpochs + 1)]
  /\ rev \in [Supervisors -> Nat]
  /\ cl \in [Reviewers -> [step: {"idle", "review", "checkpoint"}, saw: Nat]]
  /\ rd \in [Readers -> [step: {"idle", "validate", "store"},
                         request: Requests \cup {None}, buf: TaskState]]

\* An executor runs only under the supervisor that created supervisor.lock, in
\* that supervisor's current epoch, and the supervisor does nothing else
\* meanwhile - whatever other supervise and review-input processes do to the
\* record (acquire_supervisor, run_epoch).
ExecutorIsSupervised ==
  executor # None =>
    /\ lock # None
    /\ executor.epoch = ep[lock]
    /\ pc[lock] \in {"running", "dead"}

\* No epoch's executor is launched while another one still runs, also when its
\* supervisor was killed and supervise is called again: "a single writer".
WritersNeverOverlap ==
  [][executor # None => executor' = executor \/ executor' = None]_vars

\* Codex is woken at most once per epoch, so at most max_epochs times, even
\* when a lost update of the record resets the counters (emit_wake_request,
\* emit_checkpoint_wake_request).
WakesBoundedByEpochs == wakes.review + wakes.checkpoint <= MaxEpochs

\* Before every epoch that continues in a known product worktree, except after
\* epoch_expired, the recorded convergence receipt is that of the epoch that
\* just ended: the one the dispatcher will accept.
RecoveryHasFreshReceipt ==
  st.state = "recovering" /\ st.recovery # "same-owner-next-epoch" =>
    st.receipt = (IF st.product THEN st.epoch ELSE 0)

\* Unless a supervisor is killed, the task reaches a terminal state and stays
\* there: no loop of the supervisor and no wait for Codex is endless.
EveryTaskStops == <>[](Terminal \/ \E p \in Supervisors : pc[p] = "dead")

\* The record read as the abstract lifecycle.
Turn ==
  CASE st.state \in {"submitted", "recovering"} -> "idle"
    [] st.state = "converging" -> "claude"
    [] st.state \in {"classifying", "projecting"} -> "tools"
    [] st.state = "revision_pending" -> "review"
    [] st.state = "checkpoint_ready" -> "checkpoint"
    [] OTHER -> "closed"

Lifecycle == INSTANCE TaskLifecycle
  WITH turn <- Turn, epoch <- st.epoch,
       revisions <- st.revisions, checkpoints <- st.checkpoints

\* One supervisor's updates of the record, taken one by one, are steps of the
\* lifecycle: turns alternate, budgets hold, closed is final.
ImplementsLifecycle == Lifecycle!Spec

\* Supervisors do the same, whichever does it.
Symmetry == Permutations(Supervisors)
=============================================================================
