-------------------------- MODULE BookendTask_proofs --------------------------
(***************************************************************************)
(* Safety of the Bookend task for every set of supervise, review-verdict   *)
(* and review-input processes and every value of the budgets, with crashes *)
(* and lost updates of the record.                                         *)
(*                                                                         *)
(* At(p) is where supervisor p is, or will be when its pending update is   *)
(* stored.  Everything rests on Owns: only the creator of supervisor.lock  *)
(* is ever inside the epoch loop.  The last section is about a task with   *)
(* one supervise call and no review-input: its record goes through the     *)
(* lifecycle of TaskLifecycle.                                             *)
(***************************************************************************)
EXTENDS BookendTask, TLAPS

At(p) == IF pc[p] = "store" THEN after[p] ELSE pc[p]

LoopSteps ==
  {"launch", "running", "classify", "decide", "project", "wake", "pend",
   "await_review", "await_checkpoint"}

\* The loop variable of a supervisor inside the loop is an epoch of the task.
EpochInRange ==
  \A p \in Supervisors :
    /\ At(p) \in LoopSteps => ep[p] \in 1..MaxEpochs
    /\ At(p) = "epoch" => ep[p] \in 1..(MaxEpochs + 1)
    /\ At(p) # "store"

Owns ==
  \A p \in Supervisors : At(p) \in LoopSteps \cup {"check", "epoch"} => lock = p

TypeInv == TypeOK /\ EpochInRange

USE SupervisorsAssumption, MaxEpochsAssumption, MaxRevisionsAssumption, MaxCheckpointsAssumption
    DEF LoopSteps

\* A step of update_state keeps the types, given what its caller guarantees.
LEMMA UpdateType ==
  ASSUME TypeInv, NEW p \in Supervisors, NEW record \in TaskState,
         NEW next \in SupervisorSteps \ {"store"}, Update(p, record, next),
         UNCHANGED <<st, lock, executor, result, projection, request, verdict, cpVerdict, shells>>,
         wakes' \in [review: Nat, checkpoint: Nat],
         rev' \in [Supervisors -> Nat],
         ep' \in [Supervisors -> 0..(MaxEpochs + 1)],
         \A q \in Supervisors \ {p} : ep'[q] = ep[q],
         next \in LoopSteps => ep'[p] \in 1..MaxEpochs,
         next = "epoch" => ep'[p] \in 1..(MaxEpochs + 1)
  PROVE  TypeInv'
<1>1. /\ pc' \in [Supervisors -> SupervisorSteps]
      /\ buf' \in [Supervisors -> TaskState]
      /\ after' \in [Supervisors -> SupervisorSteps]
      /\ pc'[p] = "store" /\ after'[p] = next
      /\ \A q \in Supervisors \ {p} : pc'[q] = pc[q] /\ after'[q] = after[q]
  BY DEF TypeInv, TypeOK, Update, SupervisorSteps
<1>2. TypeOK'
  BY <1>1 DEF TypeInv, TypeOK, shells
<1>3. EpochInRange'
  <2> SUFFICES ASSUME NEW q \in Supervisors
               PROVE  /\ At(q)' \in LoopSteps => ep'[q] \in 1..MaxEpochs
                      /\ At(q)' = "epoch" => ep'[q] \in 1..(MaxEpochs + 1)
                      /\ At(q)' # "store"
    BY DEF EpochInRange
  <2>1. CASE q = p
    BY <1>1, <2>1 DEF At
  <2>2. CASE q # p
    BY <1>1, <2>2 DEF At, TypeInv, EpochInRange
  <2> QED BY <2>1, <2>2
<1> QED BY <1>2, <1>3 DEF TypeInv

\* A step that only moves the program counter keeps the types.
LEMMA MoveType ==
  ASSUME TypeInv, NEW p \in Supervisors,
         NEW step \in SupervisorSteps \ {"store"}, pc' = [pc EXCEPT ![p] = step],
         UNCHANGED <<cl, rd, buf, after>>,
         st' \in TaskState, lock' \in Supervisors \cup {None},
         executor' \in Executors \cup {None}, result' \in Results,
         projection' \in 0..MaxEpochs, request' \in Requests \cup {None},
         UNCHANGED <<verdict, cpVerdict>>,
         wakes' \in [review: Nat, checkpoint: Nat],
         rev' \in [Supervisors -> Nat],
         ep' \in [Supervisors -> 0..(MaxEpochs + 1)],
         \A q \in Supervisors \ {p} : ep'[q] = ep[q],
         step \in LoopSteps => ep'[p] \in 1..MaxEpochs,
         step = "epoch" => ep'[p] \in 1..(MaxEpochs + 1)
  PROVE  TypeInv'
<1>1. /\ pc' \in [Supervisors -> SupervisorSteps]
      /\ pc'[p] = step
      /\ \A q \in Supervisors \ {p} : pc'[q] = pc[q]
  BY DEF TypeInv, TypeOK
<1>2. TypeOK'
  BY <1>1 DEF TypeInv, TypeOK
<1>3. EpochInRange'
  <2> SUFFICES ASSUME NEW q \in Supervisors
               PROVE  /\ At(q)' \in LoopSteps => ep'[q] \in 1..MaxEpochs
                      /\ At(q)' = "epoch" => ep'[q] \in 1..(MaxEpochs + 1)
                      /\ At(q)' # "store"
    BY DEF EpochInRange
  <2>1. CASE q = p
    BY <1>1, <2>1 DEF At
  <2>2. CASE q # p
    BY <1>1, <2>2 DEF At, TypeInv, EpochInRange
  <2> QED BY <2>1, <2>2
<1> QED BY <1>2, <1>3 DEF TypeInv

\* The records update_state merges, for a loaded record s, an epoch e of the
\* loop, a receipt r and a counter n.
LEMMA RecordType ==
  ASSUME NEW s \in TaskState, NEW e \in 1..MaxEpochs, NEW r \in 0..MaxEpochs, NEW n \in Nat
  PROVE  /\ [s EXCEPT !.state = "converging", !.epoch = e, !.grant = "issued",
                      !.lease = "active"] \in TaskState
         /\ [s EXCEPT !.state = "checkpoint_ready", !.lease = "paused",
                      !.checkpoints = n, !.receipt = r] \in TaskState
         /\ \A how \in {"window-continue", "convergence-continue"} :
              [s EXCEPT !.state = "recovering", !.recovery = how, !.receipt = r] \in TaskState
         /\ [s EXCEPT !.state = "recovering", !.recovery = "revision-continue",
                      !.revisions = n, !.receipt = r] \in TaskState
<1> USE DEF TaskState, States, LiveStates, TerminalStates, Recoveries
<1>1. [s EXCEPT !.state = "converging", !.epoch = e, !.grant = "issued",
                !.lease = "active"] \in TaskState
  <2>1. e \in 0..MaxEpochs
    OBVIOUS
  <2> QED BY <2>1
<1>2. [s EXCEPT !.state = "checkpoint_ready", !.lease = "paused",
                !.checkpoints = n, !.receipt = r] \in TaskState
  OBVIOUS
<1>3. ASSUME NEW how \in {"window-continue", "convergence-continue"}
      PROVE  [s EXCEPT !.state = "recovering", !.recovery = how, !.receipt = r] \in TaskState
  OBVIOUS
<1>4. [s EXCEPT !.state = "recovering", !.recovery = "revision-continue",
                !.revisions = n, !.receipt = r] \in TaskState
  OBVIOUS
<1> QED BY <1>1, <1>2, <1>3, <1>4 DEF TaskState

\* Every action of supervise keeps the types.
LEMMA SuperviseType ==
  ASSUME TypeInv, NEW p \in Supervisors, Supervise(p)
  PROVE  TypeInv'
<1> USE DEF TypeInv, TypeOK, SupervisorSteps, files, shells
<1>0. ASSUME NEW step \in LoopSteps, pc[p] = step PROVE ep[p] \in 1..MaxEpochs
  BY <1>0 DEF EpochInRange, At
<1>r. /\ st \in TaskState
      /\ rev[p] + 1 \in Nat
      /\ ep[p] \in 1..MaxEpochs => Receipt(p) \in 0..MaxEpochs
      /\ buf[p].checkpoints + 1 \in Nat
  <2>1. buf[p] \in TaskState /\ rev[p] \in Nat
    OBVIOUS
  <2>2. buf[p].checkpoints \in Nat /\ ep[p] \in 1..MaxEpochs => Receipt(p) \in 0..MaxEpochs
    BY <2>1 DEF TaskState, Receipt
  <2> QED BY <2>1, <2>2 DEF TaskState
<1>1. CASE Acquire(p)
  BY <1>1, MoveType DEF Acquire
<1>2. CASE AcquireRefused(p)
  <2>1. [st EXCEPT !.state = "runtime_blocked"] \in TaskState
    BY <1>2 DEF AcquireRefused, TaskState, States, TerminalStates, LiveStates, Recoveries
  <2> QED BY <1>2, <2>1, UpdateType DEF AcquireRefused
<1>3. CASE StoreState(p)
  <2>1. At(p)' = At(p) /\ \A q \in Supervisors \ {p} : At(q)' = At(q)
    BY <1>3 DEF StoreState, At, EpochInRange
  <2>2. EpochInRange'
    BY <1>3, <2>1 DEF StoreState, EpochInRange
  <2>3. after[p] \in SupervisorSteps /\ buf[p] \in TaskState
    OBVIOUS
  <2> QED BY <1>3, <2>2, <2>3 DEF StoreState
<1>4. CASE SourceUnchanged(p)
  <2>1. 1 \in 1..MaxEpochs /\ 1 \in 1..(MaxEpochs + 1)
    OBVIOUS
  <2>2. ep' \in [Supervisors -> 0..(MaxEpochs + 1)]
    BY <1>4, <2>1 DEF SourceUnchanged
  <2> QED BY <1>4, <2>1, <2>2, MoveType DEF SourceUnchanged
<1>5. CASE SourceChanged(p)
  <2>1. [st EXCEPT !.state = "runtime_blocked"] \in TaskState
    BY <1>5 DEF SourceChanged, TaskState, States, TerminalStates, LiveStates, Recoveries
  <2> QED BY <1>5, <2>1, UpdateType DEF SourceChanged
<1>6. CASE BeginEpoch(p)
  <2>1. ep[p] \in 1..MaxEpochs
    BY <1>6 DEF BeginEpoch, EpochInRange, At
  <2>2. [st EXCEPT !.state = "converging", !.epoch = ep[p], !.grant = "issued",
                   !.lease = "active"] \in TaskState
    BY <2>1, <1>r, RecordType
  <2> QED BY <1>6, <2>1, <2>2, UpdateType DEF BeginEpoch
<1>7. CASE EpochsExhausted(p)
  <2>1. [st EXCEPT !.state = "budget_exhausted", !.lease = "suspended"] \in TaskState
    BY <1>7 DEF EpochsExhausted, TaskState, States, TerminalStates, LiveStates, Recoveries
  <2> QED BY <1>7, <2>1, UpdateType DEF EpochsExhausted, Stop
<1>8. CASE LaunchExecutor(p)
  <2>1. ep[p] \in 1..MaxEpochs
    BY <1>8, <1>0 DEF LaunchExecutor
  <2>2. [epoch |-> ep[p], receipt |-> st.receipt] \in Executors
    BY <2>1 DEF Executors, TaskState
  <2> QED BY <1>8, <2>1, <2>2, MoveType DEF LaunchExecutor
<1>9. CASE Classify(p)
  <2>1. ep[p] \in 1..MaxEpochs
    BY <1>9, <1>0 DEF Classify, Decides, ReviewVerdictSeen
  <2>2. [st EXCEPT !.state = "classifying", !.grant = "revoked",
                   !.product = @ \/ result.product] \in TaskState
    BY <2>1 DEF TaskState, States, TerminalStates, LiveStates, Recoveries, Results, Receipt
  <2> QED BY <1>9, <2>1, <2>2, UpdateType DEF Classify, Decides, ReviewVerdictSeen
<1>10. CASE ExpiredContinue(p)
  <2>1. ep[p] \in 1..MaxEpochs
    BY <1>10, <1>0 DEF ExpiredContinue, Decides, ReviewVerdictSeen
  <2>2. [st EXCEPT !.state = "recovering", !.recovery = "same-owner-next-epoch"] \in TaskState
    BY <2>1 DEF TaskState, States, TerminalStates, LiveStates, Recoveries, Results, Receipt
  <2> QED BY <1>10, <2>1, <2>2, UpdateType DEF ExpiredContinue, Decides, ReviewVerdictSeen, Recover
<1>11. CASE ExpiredStop(p)
  <2>1. /\ [st EXCEPT !.state = "runtime_blocked", !.lease = "suspended"] \in TaskState
        /\ [st EXCEPT !.state = "budget_exhausted", !.lease = "suspended"] \in TaskState
    BY DEF TaskState, States, TerminalStates, LiveStates, Recoveries
  <2> QED BY <1>11, <2>1, UpdateType DEF ExpiredStop, Stop
<1>12. CASE DoneCandidate(p)
  <2>1. ep[p] \in 1..MaxEpochs
    BY <1>12, <1>0 DEF DoneCandidate, Decides
  <2>2. [st EXCEPT !.state = "projecting"] \in TaskState
    BY DEF TaskState, States, TerminalStates, LiveStates, Recoveries
  <2>3. [rev EXCEPT ![p] = buf[p].revisions] \in [Supervisors -> Nat]
    BY DEF TaskState
  <2> QED BY <1>12, <2>1, <2>2, <2>3, UpdateType DEF DoneCandidate
<1>13. CASE BuildProjection(p)
  <2>1. ep[p] \in 1..MaxEpochs
    BY <1>13, <1>0 DEF BuildProjection
  <2>2. projection' \in 0..MaxEpochs /\ "wake" \in LoopSteps
    BY <1>13, <2>1 DEF BuildProjection
  <2> QED BY <1>13, <2>1, <2>2, MoveType DEF BuildProjection
<1>14. CASE ProjectionFailed(p)
  <2>1. [st EXCEPT !.state = "runtime_blocked", !.lease = "suspended"] \in TaskState
    BY <1>14 DEF ProjectionFailed, TaskState, States, TerminalStates, LiveStates, Recoveries
  <2> QED BY <1>14, <2>1, UpdateType DEF ProjectionFailed, Stop
<1>15. CASE SemanticBlock(p)
  <2>1. ep[p] \in 1..MaxEpochs
    BY <1>15, <1>0 DEF SemanticBlock, Decides
  <2>2. [st EXCEPT !.state = "runtime_blocked", !.lease = "suspended"] \in TaskState
    BY DEF TaskState, States, TerminalStates, LiveStates, Recoveries
  <2>3. CASE result.proof = "valid"
    BY <1>15, <2>1, <2>3, MoveType DEF SemanticBlock
  <2>4. CASE result.proof # "valid"
    BY <1>15, <2>2, <2>4, UpdateType DEF SemanticBlock, Stop
  <2> QED BY <2>3, <2>4
<1>16. CASE EmitWakeRequest(p)
  <2>1. ep[p] \in 1..MaxEpochs
    BY <1>16, <1>0 DEF EmitWakeRequest
  <2>2. request' \in Requests
    BY <1>16, <2>1 DEF EmitWakeRequest, WakeKind, Requests, ReviewKinds
  <2>3. wakes' \in [review: Nat, checkpoint: Nat]
    BY <1>16 DEF EmitWakeRequest
  <2> QED BY <1>16, <2>1, <2>2, <2>3, MoveType DEF EmitWakeRequest
<1>17. CASE EnterRevisionPending(p)
  <2>1. ep[p] \in 1..MaxEpochs
    BY <1>17, <1>0 DEF EnterRevisionPending, Decides, ReviewVerdictSeen
  <2>2. [st EXCEPT !.state = "revision_pending", !.lease = "paused",
                   !.requested = TRUE] \in TaskState
    BY <2>1 DEF TaskState, States, TerminalStates, LiveStates, Recoveries, Results, Receipt
  <2> QED BY <1>17, <2>1, <2>2, UpdateType DEF EnterRevisionPending, Decides, ReviewVerdictSeen
<1>18. CASE EnterSemanticBlocked(p)
  <2>1. [st EXCEPT !.state = "semantic_blocked", !.lease = "suspended",
                   !.requested = TRUE] \in TaskState
    BY <1>18 DEF EnterSemanticBlocked, TaskState, States, TerminalStates, LiveStates, Recoveries
  <2> QED BY <1>18, <2>1, UpdateType DEF EnterSemanticBlocked
<1>19. CASE ReviewAccepted(p)
  <2>1. [st EXCEPT !.state = "review_ready", !.lease = "released"] \in TaskState
    BY <1>19 DEF ReviewAccepted, TaskState, States, TerminalStates, LiveStates, Recoveries
  <2> QED BY <1>19, <2>1, UpdateType DEF ReviewAccepted
<1>20. CASE ReviewRevise(p)
  <2>1. ep[p] \in 1..MaxEpochs
    BY <1>20, <1>0 DEF ReviewRevise, ReviewVerdictSeen
  <2>2. [st EXCEPT !.state = "recovering", !.recovery = "revision-continue",
                   !.revisions = rev[p] + 1, !.receipt = Receipt(p)] \in TaskState
    BY <2>1, <1>r, RecordType
  <2>3. [st EXCEPT !.state = "runtime_blocked", !.lease = "suspended"] \in TaskState
    BY DEF TaskState, States, TerminalStates, LiveStates, Recoveries
  <2>4. CASE Recover(p, [st EXCEPT !.state = "recovering", !.recovery = "revision-continue",
                                    !.revisions = rev[p] + 1, !.receipt = Receipt(p)])
    <3>1. ep' = [ep EXCEPT ![p] = @ + 1] /\ ep[p] + 1 \in 1..(MaxEpochs + 1)
      BY <2>1, <2>4 DEF Recover
    <3>2. /\ ep' \in [Supervisors -> 0..(MaxEpochs + 1)]
          /\ ep'[p] \in 1..(MaxEpochs + 1)
          /\ \A q \in Supervisors \ {p} : ep'[q] = ep[q]
      BY <3>1
    <3> QED BY <1>20, <2>2, <2>4, <3>2, UpdateType DEF ReviewRevise, Recover
  <2>5. CASE Stop(p, "runtime_blocked")
    BY <1>20, <2>3, <2>5, UpdateType DEF ReviewRevise, Stop
  <2> QED BY <1>20, <2>4, <2>5 DEF ReviewRevise
<1>21. CASE RevisionsExhausted(p)
  <2>1. [st EXCEPT !.state = "runtime_blocked", !.lease = "suspended"] \in TaskState
    BY <1>21 DEF RevisionsExhausted, TaskState, States, TerminalStates, LiveStates, Recoveries
  <2> QED BY <1>21, <2>1, UpdateType DEF RevisionsExhausted, Stop
<1>22. CASE ReviewTimeout(p)
  <2>1. [st EXCEPT !.state = "runtime_blocked", !.lease = "suspended"] \in TaskState
    BY <1>22 DEF ReviewTimeout, TaskState, States, TerminalStates, LiveStates, Recoveries
  <2> QED BY <1>22, <2>1, UpdateType DEF ReviewTimeout, Stop
<1>23. CASE AuthorityOrBudgetBlocked(p)
  <2>1. [st EXCEPT !.state = result.outcome, !.lease = "suspended"] \in TaskState
    BY <1>23 DEF AuthorityOrBudgetBlocked, TaskState, States, TerminalStates, LiveStates, Recoveries
  <2> QED BY <1>23, <2>1, UpdateType DEF AuthorityOrBudgetBlocked, Stop
<1>24. CASE CheckpointWake(p)
  <2>1. ep[p] \in 1..MaxEpochs
    BY <1>24, <1>0 DEF CheckpointWake, EmitCheckpointWakeRequest, Decides
  <2>2. [st EXCEPT !.state = "checkpoint_ready", !.lease = "paused",
                   !.checkpoints = buf[p].checkpoints + 1, !.receipt = Receipt(p)] \in TaskState
    BY <2>1, <1>r, RecordType
  <2>3. wakes' \in [review: Nat, checkpoint: Nat]
    BY <1>24 DEF CheckpointWake, EmitCheckpointWakeRequest
  <2> QED BY <1>24, <2>1, <2>2, <2>3, UpdateType DEF CheckpointWake, EmitCheckpointWakeRequest
<1>25. CASE WindowContinue(p)
  <2>1. ep[p] \in 1..MaxEpochs
    BY <1>25, <1>0 DEF WindowContinue, Decides, ReviewVerdictSeen
  <2>2. [st EXCEPT !.state = "recovering", !.recovery = "window-continue",
                   !.receipt = Receipt(p)] \in TaskState
    BY <2>1, <1>r, RecordType
  <2> QED BY <1>25, <2>1, <2>2, UpdateType DEF WindowContinue, Decides, ReviewVerdictSeen, Recover
<1>26. CASE CheckpointReceiptFailed(p)
  <2>1. [st EXCEPT !.state = "runtime_blocked", !.lease = "suspended"] \in TaskState
    BY <1>26 DEF CheckpointReceiptFailed, TaskState, States, TerminalStates, LiveStates, Recoveries
  <2> QED BY <1>26, <2>1, UpdateType DEF CheckpointReceiptFailed, Stop
<1>27. CASE CheckpointContinue(p)
  <2>1. ep[p] \in 1..MaxEpochs
    BY <1>27, <1>0 DEF CheckpointContinue, CheckpointVerdictSeen, Decides, ReviewVerdictSeen
  <2>2. [st EXCEPT !.state = "recovering", !.recovery = "checkpoint-resume"] \in TaskState
    BY <2>1 DEF TaskState, States, TerminalStates, LiveStates, Recoveries, Results, Receipt
  <2> QED BY <1>27, <2>1, <2>2, UpdateType DEF CheckpointContinue, CheckpointVerdictSeen,
                                               Decides, ReviewVerdictSeen, Recover
<1>28. CASE CheckpointStop(p)
  <2>1. [st EXCEPT !.state = "runtime_blocked", !.lease = "suspended"] \in TaskState
    BY <1>28 DEF CheckpointStop, CheckpointVerdictSeen, TaskState, States, TerminalStates,
                 LiveStates, Recoveries
  <2> QED BY <1>28, <2>1, UpdateType DEF CheckpointStop, CheckpointVerdictSeen, Stop
<1>29. CASE CheckpointTimeout(p)
  <2>1. [st EXCEPT !.state = "runtime_blocked", !.lease = "suspended"] \in TaskState
    BY <1>29 DEF CheckpointTimeout, TaskState, States, TerminalStates, LiveStates, Recoveries
  <2> QED BY <1>29, <2>1, UpdateType DEF CheckpointTimeout, Stop
<1>30. CASE ConvergenceContinue(p)
  <2>1. ep[p] \in 1..MaxEpochs
    BY <1>30, <1>0 DEF ConvergenceContinue, Decides, ReviewVerdictSeen
  <2>2. [st EXCEPT !.state = "recovering", !.recovery = "convergence-continue",
                   !.receipt = Receipt(p)] \in TaskState
    BY <2>1, <1>r, RecordType
  <2> QED BY <1>30, <2>1, <2>2, UpdateType DEF ConvergenceContinue, Decides, ReviewVerdictSeen,
                                               Recover
<1>31. CASE ConvergenceStop(p)
  <2>1. [st EXCEPT !.state = "runtime_blocked", !.lease = "suspended"] \in TaskState
    BY <1>31 DEF ConvergenceStop, TaskState, States, TerminalStates, LiveStates, Recoveries
  <2> QED BY <1>31, <2>1, UpdateType DEF ConvergenceStop, Stop
<1> QED
  BY <1>1, <1>2, <1>3, <1>4, <1>5, <1>6, <1>7, <1>8, <1>9, <1>10, <1>11, <1>12,
     <1>13, <1>14, <1>15, <1>16, <1>17, <1>18, <1>19, <1>20, <1>21, <1>22, <1>23,
     <1>24, <1>25, <1>26, <1>27, <1>28, <1>29, <1>30, <1>31 DEF Supervise

\* What a supervisor, an executor, a Codex shell, a reader or a crash does
\* keeps the types.
LEMMA NextType == TypeInv /\ [Next]_vars => TypeInv'
<1> SUFFICES ASSUME TypeInv, [Next]_vars PROVE TypeInv'
  OBVIOUS
<1>1. ASSUME NEW p \in Supervisors, Supervise(p) PROVE TypeInv'
  BY <1>1, SuperviseType
<1>2. ASSUME NEW p \in Supervisors, Crash(p) PROVE TypeInv'
  BY <1>2, MoveType DEF Crash, TypeInv, TypeOK, SupervisorSteps, files, shells
<1>3. CASE ExecutorExit
  <2>1. result' \in Results
    BY <1>3 DEF ExecutorExit, Results, RawResults, ClassifyResult, Outcomes
  <2>2. /\ pc' \in [Supervisors -> SupervisorSteps]
        /\ \A p \in Supervisors : pc'[p] = pc[p] \/ (pc[p] = "running" /\ pc'[p] = "classify")
    BY <1>3 DEF ExecutorExit, TypeInv, TypeOK, SupervisorSteps
  <2>3. EpochInRange'
    BY <1>3, <2>2 DEF ExecutorExit, TypeInv, EpochInRange, At
  <2> QED BY <1>3, <2>1, <2>2, <2>3 DEF ExecutorExit, TypeInv, TypeOK, files, shells
<1>4. ASSUME NEW c \in Reviewers, Codex(c) PROVE TypeInv'
  <2>1. EpochInRange'
    BY <1>4 DEF Codex, BeginReviewVerdict, WriteReviewVerdict, BeginCheckpointVerdict,
                WriteCheckpointVerdict, TypeInv, EpochInRange, At, supVars
  <2> USE DEF TypeInv, TypeOK, files, supVars
  <2> DEFINE ShellStates == [step: {"idle", "review", "checkpoint"}, saw: Nat]
  <2>2. CASE BeginReviewVerdict(c) \/ BeginCheckpointVerdict(c)
    <3>1. st.revisions \in Nat /\ st.epoch \in Nat
      BY DEF TaskState
    <3>2. /\ [step |-> "review", saw |-> st.revisions] \in ShellStates
          /\ [step |-> "checkpoint", saw |-> st.epoch] \in ShellStates
      BY <3>1
    <3>3. PICK s \in ShellStates : cl' = [cl EXCEPT ![c] = s]
      BY <2>2, <3>2 DEF BeginReviewVerdict, BeginCheckpointVerdict
    <3>4. cl' \in [Reviewers -> ShellStates]
      BY <3>3
    <3>5. UNCHANGED <<st, lock, executor, result, files, supVars, rd>>
      BY <2>2 DEF BeginReviewVerdict, BeginCheckpointVerdict
    <3> HIDE DEF ShellStates
    <3> QED BY <2>1, <3>4, <3>5 DEF ShellStates
  <2>3. CASE WriteReviewVerdict(c)
    BY <2>1, <2>3 DEF WriteReviewVerdict, Idle, Verdicts
  <2>4. CASE WriteCheckpointVerdict(c)
    BY <2>1, <2>4 DEF WriteCheckpointVerdict, Idle, CheckpointVerdicts
  <2> QED BY <1>4, <2>2, <2>3, <2>4 DEF Codex
<1>5. ASSUME NEW c \in Readers, ReviewInput(c) PROVE TypeInv'
  <2>1. EpochInRange'
    BY <1>5 DEF ReviewInput, ReadRequest, InputValid, InputStale, StoreRevocation,
                TypeInv, EpochInRange, At, supVars
  <2>2. Submitted \in TaskState
    BY DEF Submitted, TaskState, States, LiveStates, Recoveries
  <2> DEFINE ReaderStates == [step: {"idle", "validate", "store"},
                              request: Requests \cup {None}, buf: TaskState]
  <2>3. /\ st \in TaskState /\ request \in Requests \cup {None}
        /\ rd \in [Readers -> ReaderStates] /\ rd[c] \in ReaderStates
    BY DEF TypeInv, TypeOK
  <2>4. ASSUME NEW s \in ReaderStates, rd' = [rd EXCEPT ![c] = s], st' \in TaskState,
               UNCHANGED <<lock, executor, result, files, supVars, cl>>
        PROVE  TypeInv'
    <3>1. rd' \in [Readers -> ReaderStates]
      BY <2>3, <2>4
    <3> HIDE DEF ReaderStates
    <3> QED BY <2>1, <2>4, <3>1 DEF TypeInv, TypeOK, files, supVars, ReaderStates
  <2>5. CASE ReadRequest(c)
    <3>1. [step |-> "validate", request |-> request, buf |-> Submitted] \in ReaderStates
      BY <2>2, <2>3
    <3> HIDE DEF ReaderStates
    <3> QED BY <2>3, <2>4, <2>5, <3>1 DEF ReadRequest
  <2>6. IdleReader \in ReaderStates
    BY <2>2 DEF IdleReader
  <2>7. CASE InputValid(c)
    <3> HIDE DEF ReaderStates
    <3> QED BY <2>3, <2>4, <2>6, <2>7 DEF InputValid
  <2>8. CASE InputStale(c)
    <3> DEFINE revoked == [st EXCEPT !.state = "runtime_blocked", !.lease = "suspended",
                                     !.requested = FALSE]
    <3>1. revoked \in TaskState
      BY <2>3 DEF TaskState, States, TerminalStates
    <3> HIDE DEF revoked
    <3>2. [rd[c] EXCEPT !.step = "store", !.buf = revoked] \in ReaderStates
      BY <2>3, <3>1
    <3>3. rd' = [rd EXCEPT ![c] = [rd[c] EXCEPT !.step = "store", !.buf = revoked]]
      BY <2>3, <2>8 DEF InputStale, revoked
    <3>4. UNCHANGED <<st, lock, executor, result, files, supVars, cl>>
      BY <2>8 DEF InputStale
    <3> HIDE DEF ReaderStates
    <3> QED BY <2>3, <2>4, <3>2, <3>3, <3>4
  <2>9. CASE StoreRevocation(c)
    <3>1. st' \in TaskState
      BY <2>3, <2>9 DEF StoreRevocation
    <3>2. rd' = [rd EXCEPT ![c] = IdleReader]
          /\ UNCHANGED <<lock, executor, result, files, supVars, cl>>
      BY <2>9 DEF StoreRevocation
    <3> HIDE DEF ReaderStates
    <3> QED BY <2>4, <2>6, <3>1, <3>2
  <2> QED BY <1>5, <2>5, <2>7, <2>8, <2>9 DEF ReviewInput
<1>6. CASE UNCHANGED vars
  BY <1>6 DEF vars, files, supVars, shells, TypeInv, TypeOK, EpochInRange, At
<1> QED BY <1>1, <1>2, <1>3, <1>4, <1>5, <1>6 DEF Next

\* The submitted task has its types.
LEMMA InitType == Init => TypeInv
<1> SUFFICES ASSUME Init PROVE TypeInv
  OBVIOUS
<1>1. Submitted \in TaskState
  BY DEF Submitted, TaskState, States, LiveStates, Recoveries
<1>2. NoResult \in Results
  BY DEF NoResult, Results, Outcomes
<1> QED BY <1>1, <1>2 DEF Init, TypeInv, TypeOK, EpochInRange, At, SupervisorSteps,
                          Idle, IdleReader

\* The state of the task, of every process and of every file has its type:
\* supervise, run_epoch, classify_result and the Codex command lines.
THEOREM TypeCorrect == Spec => []TypeOK
<1>1. TypeInv => TypeOK
  BY DEF TypeInv
<1> QED BY <1>1, InitType, NextType, PTL DEF Spec

-----------------------------------------------------------------------------
(* What the steps of a supervisor do to its place in the loop, to the lock,  *)
(* to the executor and to the number of wake-ups.                            *)

Woken == wakes.review + wakes.checkpoint

Quiet == UNCHANGED <<executor, wakes>>

Enters(p) ==
  pc[p] = "off" /\ lock = None /\ lock' = p /\ At(p)' = "check" /\ Quiet /\ UNCHANGED ep
Leaves(p) == At(p)' = "done" /\ Quiet /\ UNCHANGED lock
Stays(p) == At(p)' = At(p) /\ Quiet /\ UNCHANGED <<lock, ep>>
Starts(p) == pc[p] = "check" /\ At(p)' = "epoch" /\ ep'[p] = 1 /\ Quiet /\ UNCHANGED lock
Advances(p) ==
  /\ \/ pc[p] = "epoch" /\ At(p)' = "launch"
     \/ pc[p] \in {"classify", "decide", "project"} /\ At(p)' \in {"decide", "project", "wake"}
     \/ pc[p] = "pend" /\ At(p)' = "await_review"
  /\ Quiet /\ UNCHANGED <<lock, ep>>
Launches(p) ==
  /\ pc[p] = "launch" /\ pc'[p] = "running"
  /\ executor'.epoch = ep[p]
  /\ UNCHANGED <<lock, ep, wakes>>
Wakes(p) ==
  /\ \/ pc[p] = "wake" /\ At(p)' = "pend"
     \/ pc[p] = "decide" /\ At(p)' = "await_checkpoint"
  /\ Woken' = Woken + 1
  /\ UNCHANGED <<lock, ep, executor>>
Recovers(p) ==
  /\ pc[p] \in {"decide", "await_review", "await_checkpoint"}
  /\ At(p)' = "epoch" /\ ep'[p] = ep[p] + 1 /\ Quiet /\ UNCHANGED lock

\* Every action of supervise is one of these steps, of the one process that
\* takes it.
LEMMA SuperviseControl ==
  ASSUME TypeInv, NEW p \in Supervisors, Supervise(p)
  PROVE  /\ pc[p] \notin {"running", "done", "dead"}
         /\ \A q \in Supervisors \ {p} :
              pc'[q] = pc[q] /\ after'[q] = after[q] /\ ep'[q] = ep[q]
         /\ \/ Enters(p) \/ Leaves(p) \/ Stays(p) \/ Starts(p)
            \/ Advances(p) \/ Launches(p) \/ Wakes(p) \/ Recovers(p)
<1> USE DEF At, Quiet, files
<1>0. /\ pc \in [Supervisors -> SupervisorSteps]
      /\ after \in [Supervisors -> SupervisorSteps]
      /\ ep \in [Supervisors -> 0..(MaxEpochs + 1)]
      /\ wakes \in [review: Nat, checkpoint: Nat]
  BY DEF TypeInv, TypeOK
<1>1. CASE Acquire(p)
  BY <1>0, <1>1 DEF Acquire, Enters
<1>2. CASE StoreState(p)
  <2>1. after[p] # "store"
    BY <1>2 DEF StoreState, TypeInv, EpochInRange
  <2> QED BY <1>0, <1>2, <2>1 DEF StoreState, Stays
<1>3. CASE SourceUnchanged(p)
  BY <1>0, <1>3 DEF SourceUnchanged, Starts
<1>4. CASE LaunchExecutor(p)
  BY <1>0, <1>4 DEF LaunchExecutor, Launches
<1>5. CASE BeginEpoch(p) \/ Classify(p) \/ DoneCandidate(p) \/ EnterRevisionPending(p)
  BY <1>0, <1>5 DEF BeginEpoch, Classify, DoneCandidate, EnterRevisionPending, Decides,
                    Update, Advances
<1>6. CASE BuildProjection(p)
  BY <1>0, <1>6 DEF BuildProjection, Advances
<1>7. CASE SemanticBlock(p)
  BY <1>0, <1>7 DEF SemanticBlock, Decides, Stop, Update, Advances, Leaves
<1>8. CASE EmitWakeRequest(p)
  <2>1. Woken' = Woken + 1
    BY <1>0, <1>8 DEF EmitWakeRequest, Woken
  <2> QED BY <1>0, <1>8, <2>1 DEF EmitWakeRequest, Wakes
<1>9. CASE CheckpointWake(p)
  <2>1. Woken' = Woken + 1
    BY <1>0, <1>9 DEF CheckpointWake, EmitCheckpointWakeRequest, Woken
  <2> QED BY <1>0, <1>9, <2>1 DEF CheckpointWake, EmitCheckpointWakeRequest, Decides, Update, Wakes
<1>10. CASE ReviewRevise(p)
  BY <1>0, <1>10 DEF ReviewRevise, ReviewVerdictSeen, Recover, Stop, Update, Recovers, Leaves
<1>11. CASE ExpiredContinue(p) \/ WindowContinue(p) \/ CheckpointContinue(p)
            \/ ConvergenceContinue(p)
  BY <1>0, <1>11 DEF ExpiredContinue, WindowContinue, CheckpointContinue, CheckpointVerdictSeen,
                     ConvergenceContinue,
                     Decides, Recover, Update, Recovers
<1>12. CASE AcquireRefused(p) \/ SourceChanged(p) \/ EnterSemanticBlocked(p) \/ ReviewAccepted(p)
  BY <1>0, <1>12 DEF AcquireRefused, SourceChanged, EnterSemanticBlocked, ReviewAccepted,
                     ReviewVerdictSeen, Update, Leaves
<1>13. CASE EpochsExhausted(p) \/ ExpiredStop(p) \/ ProjectionFailed(p) \/ RevisionsExhausted(p)
            \/ ReviewTimeout(p) \/ AuthorityOrBudgetBlocked(p)
  BY <1>0, <1>13 DEF EpochsExhausted, ExpiredStop, ProjectionFailed, RevisionsExhausted,
                     ReviewTimeout, AuthorityOrBudgetBlocked, Decides, ReviewVerdictSeen,
                     Stop, Update, Leaves
<1>14. CASE CheckpointReceiptFailed(p) \/ CheckpointStop(p) \/ CheckpointTimeout(p)
            \/ ConvergenceStop(p)
  BY <1>0, <1>14 DEF CheckpointReceiptFailed, CheckpointStop, CheckpointVerdictSeen,
                     CheckpointTimeout, ConvergenceStop,
                     Decides, Stop, Update, Leaves
<1> QED
  BY <1>1, <1>2, <1>3, <1>4, <1>5, <1>6, <1>7, <1>8, <1>9, <1>10, <1>11, <1>12, <1>13, <1>14
     DEF Supervise

\* The other steps leave the lock, the wake-ups and every loop variable alone.
LEMMA OtherControl ==
  ASSUME TypeInv, [Next]_vars, ~ \E p \in Supervisors : Supervise(p)
  PROVE  /\ UNCHANGED <<lock, wakes, ep, after>>
         /\ executor' \in {executor, None}
         /\ \A p \in Supervisors :
              \/ pc'[p] = pc[p]
              \/ pc'[p] = "dead"
              \/ pc[p] = "running" /\ pc'[p] = "classify" /\ executor' = None
<1>0. pc \in [Supervisors -> SupervisorSteps]
  BY DEF TypeInv, TypeOK
<1>1. ASSUME NEW p \in Supervisors, Crash(p)
      PROVE  /\ UNCHANGED <<lock, wakes, ep, after, executor>>
             /\ \A q \in Supervisors : pc'[q] = pc[q] \/ pc'[q] = "dead"
  BY <1>0, <1>1 DEF Crash, files
<1>2. CASE ExecutorExit
  BY <1>0, <1>2 DEF ExecutorExit, files
<1>3. ASSUME NEW c \in Reviewers, Codex(c) PROVE UNCHANGED <<lock, wakes, supVars, executor>>
  BY <1>3 DEF Codex, BeginReviewVerdict, WriteReviewVerdict, BeginCheckpointVerdict,
              WriteCheckpointVerdict, files
<1>4. ASSUME NEW c \in Readers, ReviewInput(c) PROVE UNCHANGED <<lock, wakes, supVars, executor>>
  BY <1>4 DEF ReviewInput, ReadRequest, InputValid, InputStale, StoreRevocation, files
<1>5. CASE UNCHANGED vars
  BY <1>5 DEF vars, files, supVars
<1> QED BY <1>1, <1>2, <1>3, <1>4, <1>5 DEF Next, supVars

-----------------------------------------------------------------------------
\* The wake-ups of the epochs that are over, and of this one once its request
\* is out: the owner's loop variable bounds them, whatever the record says.
WakeInv ==
  /\ Woken <= MaxEpochs
  /\ lock = None => Woken = 0
  /\ \A p \in Supervisors :
       /\ At(p) = "check" => Woken = 0
       /\ At(p) \in {"epoch", "launch", "running", "classify", "decide", "project", "wake"} =>
            Woken <= ep[p] - 1
       /\ At(p) \in {"pend", "await_review", "await_checkpoint"} => Woken <= ep[p]

SafeInv == TypeInv /\ Owns /\ ExecutorIsSupervised /\ WakeInv

\* The submitted task is safe: no supervisor, no executor, no wake-up.
LEMMA InitSafe == Init => SafeInv
<1> SUFFICES ASSUME Init PROVE SafeInv
  OBVIOUS
<1>1. TypeInv
  BY InitType
<1>2. \A p \in Supervisors : At(p) = "off"
  BY DEF Init, At
<1> QED BY <1>1, <1>2 DEF Init, SafeInv, Owns, ExecutorIsSupervised, WakeInv, Woken

\* Supervisor p, seen by the others: they stay where they are.
LEMMA SuperviseSafe ==
  ASSUME SafeInv, TypeInv', NEW p \in Supervisors, Supervise(p)
  PROVE  /\ Owns' /\ ExecutorIsSupervised' /\ WakeInv'
         /\ executor # None => executor' = executor
<1>1. /\ pc[p] \notin {"running", "done", "dead"}
      /\ \A q \in Supervisors \ {p} : pc'[q] = pc[q] /\ ep'[q] = ep[q] /\ At(q)' = At(q)
      /\ \/ Enters(p) \/ Leaves(p) \/ Stays(p) \/ Starts(p)
         \/ Advances(p) \/ Launches(p) \/ Wakes(p) \/ Recovers(p)
  BY SuperviseControl DEF SafeInv, At
<1>2. /\ lock \in Supervisors \cup {None}
      /\ ep \in [Supervisors -> 0..(MaxEpochs + 1)]
      /\ Woken \in Nat
      /\ EpochInRange /\ EpochInRange'
  BY DEF SafeInv, TypeInv, TypeOK, Woken
<1>3. pc[p] # "store" => At(p) = pc[p]
  BY DEF At
<1>4. Owns'
  <2>1. lock' = lock \/ (Enters(p) /\ lock' = p)
    BY <1>1 DEF Enters, Leaves, Stays, Starts, Advances, Launches, Wakes, Recovers
  <2>2. \A q \in Supervisors \ {p} : At(q)' \in LoopSteps \cup {"check", "epoch"} => lock = q
    BY <1>1 DEF SafeInv, Owns
  <2>3. At(p)' \in LoopSteps \cup {"check", "epoch"} =>
          Enters(p) \/ At(p) \in LoopSteps \cup {"check", "epoch"}
    BY <1>1, <1>3 DEF Leaves, Stays, Starts, Advances, Launches, Wakes, Recovers
  <2>4. Enters(p) => \A q \in Supervisors \ {p} : At(q)' \notin LoopSteps \cup {"check", "epoch"}
    BY <2>2 DEF Enters
  <2>5. CASE Enters(p)
    BY <2>4, <2>5 DEF Owns, Enters
  <2>6. CASE ~Enters(p)
    BY <2>1, <2>2, <2>3, <2>6 DEF Owns, SafeInv
  <2> QED BY <2>5, <2>6
<1>5. ExecutorIsSupervised' /\ (executor # None => executor' = executor)
  <2>1. CASE Launches(p)
    <3>1. lock = p
      BY <1>3, <2>1 DEF SafeInv, Owns, Launches
    <3>2. executor = None
      BY <2>1, <3>1 DEF SafeInv, ExecutorIsSupervised, Launches
    <3> QED BY <1>1, <2>1, <3>1, <3>2 DEF Launches, ExecutorIsSupervised
  <2>2. CASE ~Launches(p)
    <3>1. executor' = executor
      BY <1>1, <2>2 DEF Enters, Leaves, Stays, Starts, Advances, Wakes, Recovers, Quiet
    <3>2. executor # None => lock \in Supervisors \ {p} /\ lock' = lock
      BY <1>1, <1>2, <2>2 DEF SafeInv, ExecutorIsSupervised, Enters, Leaves, Stays, Starts,
                              Advances, Wakes, Recovers
    <3> QED BY <1>1, <3>1, <3>2 DEF SafeInv, ExecutorIsSupervised
  <2> QED BY <2>1, <2>2
<1>6. WakeInv'
  <2>1. CASE Enters(p)
    BY <1>1, <2>1, <1>4 DEF SafeInv, WakeInv, Enters, Quiet, Woken, Owns
  <2>2. CASE ~Enters(p)
    <3>1. lock' = lock
      BY <1>1, <2>2 DEF Leaves, Stays, Starts, Advances, Launches, Wakes, Recovers
    <3>2. CASE Wakes(p)
      <4>1. lock = p /\ ep[p] \in 1..MaxEpochs /\ Woken <= ep[p] - 1
        BY <1>2, <1>3, <3>2 DEF SafeInv, Owns, WakeInv, EpochInRange, Wakes
      <4>2. \A q \in Supervisors \ {p} : At(q)' \notin LoopSteps \cup {"check", "epoch"}
        BY <1>4, <3>1, <4>1 DEF Owns
      <4> QED BY <1>1, <1>2, <3>1, <3>2, <4>1, <4>2 DEF WakeInv, Wakes
    <3>3. CASE ~Wakes(p)
      <4>1. Woken' = Woken
        BY <1>1, <2>2, <3>3 DEF Leaves, Stays, Starts, Advances, Launches, Recovers, Quiet, Woken
      <4>2. /\ At(p)' = "check" => Woken = 0
            /\ At(p)' \in {"epoch", "launch", "running", "classify", "decide", "project", "wake"}
                 => Woken <= ep'[p] - 1
            /\ At(p)' \in {"pend", "await_review", "await_checkpoint"} => Woken <= ep'[p]
        <5> USE <1>2, <1>3 DEF SafeInv, WakeInv
        <5>1. CASE Leaves(p) \/ Starts(p)
          BY <5>1 DEF Leaves, Starts
        <5>2. CASE Stays(p)
          BY <5>2 DEF Stays
        <5>3. CASE Advances(p)
          BY <5>3 DEF Advances
        <5>4. CASE Launches(p)
          BY <5>4 DEF Launches, At
        <5>5. CASE Recovers(p)
          BY <5>5 DEF Recovers
        <5> QED BY <1>1, <2>2, <3>3, <5>1, <5>2, <5>3, <5>4, <5>5
      <4> QED BY <1>1, <3>1, <4>1, <4>2 DEF SafeInv, WakeInv
    <3> QED BY <3>2, <3>3
  <2> QED BY <2>1, <2>2
<1> QED BY <1>4, <1>5, <1>6

\* Whatever happens, the safety invariant holds and a running executor stays
\* the only one.
LEMMA NextSafe ==
  SafeInv /\ [Next]_vars => SafeInv' /\ (executor # None => executor' \in {executor, None})
<1> SUFFICES ASSUME SafeInv, [Next]_vars
             PROVE  SafeInv' /\ (executor # None => executor' \in {executor, None})
  OBVIOUS
<1>1. TypeInv /\ TypeInv'
  BY NextType DEF SafeInv
<1>2. ASSUME NEW p \in Supervisors, Supervise(p)
      PROVE  SafeInv' /\ (executor # None => executor' \in {executor, None})
  BY <1>1, <1>2, SuperviseSafe DEF SafeInv
<1>3. CASE ~ \E p \in Supervisors : Supervise(p)
  <2>1. /\ UNCHANGED <<lock, wakes, ep, after>>
        /\ executor' \in {executor, None}
        /\ \A p \in Supervisors :
             \/ pc'[p] = pc[p]
             \/ pc'[p] = "dead"
             \/ pc[p] = "running" /\ pc'[p] = "classify" /\ executor' = None
    BY <1>1, <1>3, OtherControl
  <2>2. \A p \in Supervisors :
          At(p)' = At(p) \/ At(p)' = "dead" \/ (At(p) = "running" /\ At(p)' = "classify")
    BY <2>1 DEF At
  <2>3. Owns' /\ WakeInv'
    BY <2>1, <2>2 DEF SafeInv, Owns, WakeInv, Woken
  <2>4. ExecutorIsSupervised'
    BY <1>1, <2>1 DEF SafeInv, ExecutorIsSupervised, TypeInv, TypeOK
  <2> QED BY <1>1, <2>1, <2>3, <2>4 DEF SafeInv
<1> QED BY <1>2, <1>3

\* An executor runs only under the creator of supervisor.lock, which waits for
\* it or was killed (acquire_supervisor, run_epoch).
THEOREM SupervisedExecutor == Spec => []ExecutorIsSupervised
<1>1. SafeInv => ExecutorIsSupervised
  BY DEF SafeInv
<1> QED BY <1>1, InitSafe, NextSafe, PTL DEF Spec

\* Two executors never overlap, also after a crash and a second supervise.
THEOREM SingleWriter == Spec => WritersNeverOverlap
<1>1. SafeInv /\ [Next]_vars => [executor # None => executor' = executor \/ executor' = None]_vars
  BY NextSafe
<1> QED BY <1>1, InitSafe, NextSafe, PTL DEF Spec, WritersNeverOverlap

\* Codex is woken at most max_epochs times, whatever happens to the counters of
\* the record (emit_wake_request, emit_checkpoint_wake_request).
THEOREM WakesBounded == Spec => []WakesBoundedByEpochs
<1>1. SafeInv => WakesBoundedByEpochs
  BY DEF SafeInv, WakeInv, Woken, WakesBoundedByEpochs
<1> QED BY <1>1, InitSafe, NextSafe, PTL DEF Spec


-----------------------------------------------------------------------------
(* One supervise call, and no review-input: updates of the record are not    *)
(* lost then, and the record can be trusted.                                 *)

\* The turn of a record, as Turn reads it from st.
TurnOf(r) ==
  CASE r.state \in {"submitted", "recovering"} -> "idle"
    [] r.state = "converging" -> "claude"
    [] r.state \in {"classifying", "projecting"} -> "tools"
    [] r.state = "revision_pending" -> "review"
    [] r.state = "checkpoint_ready" -> "checkpoint"
    [] OTHER -> "closed"

\* Record q has the counters of record r.
Unmoved(r, q) == q.epoch = r.epoch /\ q.revisions = r.revisions /\ q.checkpoints = r.checkpoints

\* Record q follows record r in the lifecycle, or says the same.
Moves(r, q) ==
  \/ TurnOf(q) = TurnOf(r) /\ Unmoved(r, q)
  \/ /\ TurnOf(r) = "idle" /\ TurnOf(q) = "claude"
     /\ r.epoch < MaxEpochs /\ q.epoch = r.epoch + 1
     /\ q.revisions = r.revisions /\ q.checkpoints = r.checkpoints
  \/ TurnOf(r) = "claude" /\ TurnOf(q) = "tools" /\ Unmoved(r, q)
  \/ TurnOf(r) = "tools" /\ TurnOf(q) = "review" /\ Unmoved(r, q)
  \/ /\ TurnOf(r) = "tools" /\ TurnOf(q) = "checkpoint"
     /\ r.checkpoints < MaxCheckpoints /\ q.checkpoints = r.checkpoints + 1
     /\ q.epoch = r.epoch /\ q.revisions = r.revisions
  \/ /\ TurnOf(r) = "review" /\ TurnOf(q) = "idle"
     /\ r.revisions < MaxRevisions /\ q.revisions = r.revisions + 1
     /\ q.epoch = r.epoch /\ q.checkpoints = r.checkpoints
  \/ TurnOf(r) \in {"tools", "checkpoint"} /\ TurnOf(q) = "idle" /\ Unmoved(r, q)
  \/ TurnOf(r) \in {"idle", "tools", "review", "checkpoint"} /\ TurnOf(q) = "closed" /\ Unmoved(r, q)

\* The receipt is that of the record's own epoch.
Receipted(r) == r.receipt = (IF r.product THEN r.epoch ELSE 0)
\* What RecoveryHasFreshReceipt says of a record.
Fresh(r) == r.state = "recovering" /\ r.recovery # "same-owner-next-epoch" => Receipted(r)

\* What the record says, once it is stored, at each step of the supervisor.
Tells(s) ==
  /\ At(s) \in {"off", "check"} => buf[s] = Submitted
  /\ At(s) = "epoch" => buf[s].state \in {"submitted", "recovering"} /\ ep[s] = buf[s].epoch + 1
  /\ At(s) \in LoopSteps => ep[s] = buf[s].epoch
  /\ At(s) \in {"launch", "running", "classify"} => buf[s].state = "converging"
  /\ At(s) \in {"decide", "project", "wake", "pend"} =>
       buf[s].state \in {"classifying", "projecting"}
  /\ At(s) \in {"project", "wake", "pend"} /\ result.outcome = "done_candidate" =>
       rev[s] = buf[s].revisions
  /\ At(s) = "await_review" => buf[s].state = "revision_pending" /\ rev[s] = buf[s].revisions
  /\ At(s) = "await_checkpoint" => buf[s].state = "checkpoint_ready" /\ Receipted(buf[s])

\* Nobody else writes the record: what supervisor s has stored last is in the file, and what
\* it stores next follows it.
SoleInv(s) ==
  /\ pc[s] \notin {"store", "dead"} => st = buf[s]
  /\ pc[s] = "store" => Moves(st, buf[s])
  /\ Fresh(st) /\ Fresh(buf[s])
  /\ pc[s] # "dead" => Tells(s)

\* A submitted task tells what it is.
LEMMA SoleInit == ASSUME NEW s, Supervisors = {s}, Init PROVE SoleInv(s)
BY DEF Init, SoleInv, Fresh, Tells, At, Submitted

\* An update of the record that is a move of the lifecycle, with what it says.
LEMMA SoleUpdate ==
  ASSUME NEW s, Supervisors = {s}, TypeInv, SoleInv(s), NEW r \in TaskState, NEW next,
         pc[s] \notin {"store", "dead"}, Update(s, r, next), UNCHANGED <<st, result>>,
         next \notin {"store", "off", "check"},
         Moves(st, r), Fresh(r),
         next = "epoch" => r.state \in {"submitted", "recovering"} /\ ep'[s] = r.epoch + 1,
         next \in LoopSteps => ep'[s] = r.epoch,
         next \in {"launch", "running", "classify"} => r.state = "converging",
         next \in {"decide", "project", "wake", "pend"} => r.state \in {"classifying", "projecting"},
         next \in {"project", "wake", "pend"} /\ result.outcome = "done_candidate" =>
           rev'[s] = r.revisions,
         next = "await_review" => r.state = "revision_pending" /\ rev'[s] = r.revisions,
         next = "await_checkpoint" => r.state = "checkpoint_ready" /\ Receipted(r)
  PROVE  SoleInv(s)'
<1>1. /\ pc \in [Supervisors -> SupervisorSteps] /\ after \in [Supervisors -> SupervisorSteps]
      /\ buf \in [Supervisors -> TaskState]
  BY DEF TypeInv, TypeOK
<1>2. pc'[s] = "store" /\ buf'[s] = r /\ after'[s] = next /\ At(s)' = next
  BY <1>1 DEF Update, At
<1>3. Tells(s)'
  BY <1>2 DEF Tells
<1> QED
  BY <1>2, <1>3 DEF SoleInv, Moves, Fresh, Unmoved, TurnOf, Receipted

\* A step that leaves the record, pending or stored, as it is.
LEMMA SoleMove ==
  ASSUME NEW s, Supervisors = {s}, TypeInv, SoleInv(s), UNCHANGED <<st, buf>>,
         pc[s] \notin {"store", "dead"}, pc'[s] \notin {"store", "dead"}, Tells(s)'
  PROVE  SoleInv(s)'
BY DEF SoleInv, Fresh, Receipted

\* Record q ends what record r was about.
Ends(r, q) == q.state \in TerminalStates /\ Unmoved(r, q)

\* The records with which a supervisor stops.
LEMMA EndRecords ==
  ASSUME NEW r \in TaskState, NEW state \in TerminalStates, NEW lease \in {"suspended", "released"}
  PROVE  /\ [r EXCEPT !.state = state] \in TaskState
         /\ Ends(r, [r EXCEPT !.state = state])
         /\ [r EXCEPT !.state = state, !.lease = lease] \in TaskState
         /\ Ends(r, [r EXCEPT !.state = state, !.lease = lease])
         /\ [r EXCEPT !.state = state, !.lease = lease, !.requested = TRUE] \in TaskState
         /\ Ends(r, [r EXCEPT !.state = state, !.lease = lease, !.requested = TRUE])
<1>1. state \in States
  BY DEF States
<1> QED
  BY <1>1 DEF TaskState, Ends, Unmoved

\* Every step of supervise stores or prepares a record that follows the one before.
LEMMA SoleSupervise ==
  ASSUME NEW s, Supervisors = {s}, SafeInv, SoleInv(s), Supervise(s)
  PROVE  SoleInv(s)'
<1> USE DEF files
<1>0. /\ TypeInv /\ st \in TaskState /\ result \in Results
      /\ pc \in [Supervisors -> SupervisorSteps] /\ after \in [Supervisors -> SupervisorSteps]
      /\ buf \in [Supervisors -> TaskState]
      /\ ep \in [Supervisors -> 0..(MaxEpochs + 1)] /\ rev \in [Supervisors -> Nat]
      /\ buf[s] \in TaskState /\ ep[s] \in 0..(MaxEpochs + 1) /\ rev[s] \in Nat
  BY DEF SafeInv, TypeInv, TypeOK
<1>1. pc[s] # "dead" /\ Tells(s) /\ Fresh(st) /\ Fresh(buf[s])
  BY SuperviseControl DEF SafeInv, SoleInv
<1>2. pc[s] # "store" => st = buf[s] /\ At(s) = pc[s]
  BY <1>1 DEF SoleInv, At
<1>3. /\ st.epoch \in 0..MaxEpochs /\ st.revisions \in Nat /\ st.checkpoints \in Nat
      /\ At(s) \in LoopSteps => ep[s] \in 1..MaxEpochs
  BY <1>0 DEF TaskState, TypeInv, EpochInRange
<1>a. CASE StoreState(s)
  <2>1. st' = buf[s] /\ pc'[s] = after[s] /\ buf' = buf /\ ep' = ep /\ rev' = rev /\ result' = result
    BY <1>a, <1>0 DEF StoreState
  <2>2. At(s)' = At(s) /\ At(s) # "store"
    BY <1>a, <1>0, <2>1 DEF StoreState, At, TypeInv, EpochInRange
  <2>3. Tells(s)'
    BY <1>1, <2>1, <2>2 DEF Tells
  <2>4. pc'[s] # "store"
    BY <1>a, <2>1, <2>2 DEF StoreState, At
  <2> QED
    BY <1>1, <2>1, <2>3, <2>4 DEF SoleInv, Fresh, Receipted
<1>b. CASE Acquire(s) \/ SourceUnchanged(s) \/ LaunchExecutor(s) \/ BuildProjection(s) \/ EmitWakeRequest(s)
  <2>1. /\ pc[s] \in {"off", "check", "launch", "project", "wake"}
        /\ pc'[s] \in {"check", "epoch", "running", "wake", "pend"}
        /\ UNCHANGED <<st, buf, rev, result>>
    BY <1>b, <1>0 DEF Acquire, SourceUnchanged, LaunchExecutor, BuildProjection, EmitWakeRequest
  <2>2. At(s)' = pc'[s]
    BY <2>1 DEF At
  <2>3. Tells(s)'
    BY <1>b, <1>0, <1>1, <1>2, <2>1, <2>2
       DEF Tells, Acquire, SourceUnchanged, LaunchExecutor, BuildProjection, EmitWakeRequest, Submitted
  <2> QED
    BY <1>0, <2>1, <2>3, SoleMove
<1>c. ASSUME NEW r \in TaskState, Ends(st, r), Update(s, r, "done"), UNCHANGED <<st, result>>,
             pc[s] \notin {"store", "dead", "done", "launch", "running", "classify"}
      PROVE  SoleInv(s)'
  <2>1. TurnOf(st) \in {"idle", "tools", "review", "checkpoint"}
    BY <1>0, <1>1, <1>2, <1>c DEF Tells, TurnOf, Submitted, SupervisorSteps
  <2>2. Moves(st, r) /\ Fresh(r)
    BY <1>c, <2>1 DEF Moves, TurnOf, TerminalStates, Fresh, Ends
  <2> QED
    BY <1>0, <1>c, <2>2, SoleUpdate
<1>r. ASSUME NEW state \in TerminalStates, Stop(s, state), UNCHANGED <<st, result>>,
             pc[s] \notin {"store", "dead", "done", "launch", "running", "classify"}
      PROVE  SoleInv(s)'
  BY <1>0, <1>c, <1>r, EndRecords DEF Stop
<1>d. CASE BeginEpoch(s)
  <2> DEFINE r == [st EXCEPT !.state = "converging", !.epoch = ep[s], !.grant = "issued", !.lease = "active"]
  <2>1. /\ Update(s, r, "launch") /\ UNCHANGED <<st, result, ep>> /\ pc[s] = "epoch" /\ ep[s] <= MaxEpochs
    BY <1>d DEF BeginEpoch
  <2>2. st.state \in {"submitted", "recovering"} /\ ep[s] = st.epoch + 1
    BY <2>1, <1>1, <1>2 DEF Tells
  <2>3. /\ r.state = "converging" /\ r.epoch = ep[s]
        /\ r.revisions = st.revisions /\ r.checkpoints = st.checkpoints
    BY <1>0 DEF TaskState
  <2>5. r \in TaskState
    <3>1. "converging" \in States /\ ep[s] \in 0..MaxEpochs
      BY <1>0, <2>1 DEF States, LiveStates
    <3> QED
      BY <1>0, <3>1 DEF TaskState
  <2> HIDE DEF r
  <2>4. Moves(st, r) /\ Fresh(r)
    BY <1>3, <2>1, <2>2, <2>3 DEF Moves, TurnOf, Fresh
  <2> QED
    BY <1>0, <2>1, <2>3, <2>4, <2>5, SoleUpdate
<1>e. CASE Classify(s)
  <2> DEFINE r == [st EXCEPT !.state = "classifying", !.grant = "revoked", !.product = @ \/ result.product]
  <2>1. /\ Update(s, r, "decide") /\ UNCHANGED <<st, result, ep>> /\ pc[s] = "classify"
    BY <1>e DEF Classify
  <2>2. st.state = "converging" /\ ep[s] = st.epoch
    BY <2>1, <1>1, <1>2 DEF Tells
  <2>3. r \in TaskState /\ r.state = "classifying" /\ Unmoved(st, r)
    BY <1>0 DEF TaskState, States, LiveStates, Results, Unmoved
  <2> HIDE DEF r
  <2>4. Moves(st, r) /\ Fresh(r)
    BY <2>2, <2>3 DEF Moves, TurnOf, Fresh
  <2> QED
    BY <1>0, <2>1, <2>2, <2>3, <2>4, SoleUpdate DEF Unmoved
<1>f. CASE DoneCandidate(s)
  <2> DEFINE r == [st EXCEPT !.state = "projecting"]
  <2>1. /\ Update(s, r, "project") /\ UNCHANGED <<st, result, ep>> /\ pc[s] = "decide"
        /\ rev' = [rev EXCEPT ![s] = buf[s].revisions]
    BY <1>f DEF DoneCandidate, Decides
  <2>2. st.state \in {"classifying", "projecting"} /\ ep[s] = st.epoch /\ rev'[s] = st.revisions
    BY <2>1, <1>0, <1>1, <1>2 DEF Tells
  <2>3. r \in TaskState /\ r.state = "projecting" /\ Unmoved(st, r)
    BY <1>0 DEF TaskState, States, LiveStates, Unmoved
  <2> HIDE DEF r
  <2>4. Moves(st, r) /\ Fresh(r)
    BY <2>2, <2>3 DEF Moves, TurnOf, Fresh
  <2> QED
    BY <1>0, <2>1, <2>2, <2>3, <2>4, SoleUpdate DEF Unmoved
<1>g. CASE EnterRevisionPending(s)
  <2> DEFINE r == [st EXCEPT !.state = "revision_pending", !.lease = "paused", !.requested = TRUE]
  <2>1. /\ Update(s, r, "await_review") /\ UNCHANGED <<st, result, ep, rev>> /\ pc[s] = "pend"
        /\ result.outcome = "done_candidate"
    BY <1>g DEF EnterRevisionPending
  <2>2. st.state \in {"classifying", "projecting"} /\ ep[s] = st.epoch /\ rev[s] = st.revisions
    BY <2>1, <1>1, <1>2 DEF Tells
  <2>3. r \in TaskState /\ r.state = "revision_pending" /\ Unmoved(st, r)
    BY <1>0 DEF TaskState, States, LiveStates, Unmoved
  <2> HIDE DEF r
  <2>4. Moves(st, r) /\ Fresh(r)
    BY <2>2, <2>3 DEF Moves, TurnOf, Fresh
  <2> QED
    BY <1>0, <2>1, <2>2, <2>3, <2>4, SoleUpdate DEF Unmoved
<1>h. CASE CheckpointWake(s)
  <2> DEFINE r == [st EXCEPT !.state = "checkpoint_ready", !.lease = "paused",
                          !.checkpoints = buf[s].checkpoints + 1, !.receipt = Receipt(s)]
  <2>1. /\ Update(s, r, "await_checkpoint") /\ UNCHANGED <<st, result, ep, rev>> /\ pc[s] = "decide"
        /\ buf[s].checkpoints < MaxCheckpoints
    BY <1>h DEF CheckpointWake, Decides, MayCheckpoint
  <2>2. st.state \in {"classifying", "projecting"} /\ ep[s] = st.epoch /\ st = buf[s]
    BY <2>1, <1>1, <1>2 DEF Tells
  <2>3. /\ r.state = "checkpoint_ready" /\ Receipted(r)
        /\ r.epoch = st.epoch /\ r.revisions = st.revisions /\ r.checkpoints = st.checkpoints + 1
    BY <1>0, <2>2 DEF TaskState, Receipt, Receipted
  <2>5. r \in TaskState
    <3>1. /\ buf[s].checkpoints + 1 \in Nat /\ "checkpoint_ready" \in States
          /\ Receipt(s) \in 0..MaxEpochs
      BY <1>0, <1>3, <2>1, <2>2 DEF TaskState, States, LiveStates, Receipt
    <3> QED
      BY <1>0, <3>1 DEF TaskState
  <2> HIDE DEF r
  <2>4. Moves(st, r) /\ Fresh(r)
    BY <2>1, <2>2, <2>3 DEF Moves, TurnOf, Fresh
  <2> QED
    BY <1>0, <2>1, <2>2, <2>3, <2>4, <2>5, SoleUpdate
<1>i. ASSUME NEW r \in TaskState, Recover(s, r), UNCHANGED <<st, result>>, r.state = "recovering",
             pc[s] \in {"decide", "await_review", "await_checkpoint"},
             Fresh(r), r.epoch = st.epoch, r.checkpoints = st.checkpoints,
             \/ r.revisions = st.revisions /\ pc[s] # "await_review"
             \/ pc[s] = "await_review" /\ r.revisions = st.revisions + 1 /\ st.revisions < MaxRevisions
      PROVE  SoleInv(s)'
  <2>1. /\ ep[s] = st.epoch /\ ep'[s] = ep[s] + 1 /\ Update(s, r, "epoch")
        /\ pc[s] = "decide" => st.state \in {"classifying", "projecting"}
        /\ pc[s] = "await_review" => st.state = "revision_pending"
        /\ pc[s] = "await_checkpoint" => st.state = "checkpoint_ready"
    BY <1>0, <1>1, <1>2, <1>i DEF Tells, Recover
  <2>2. Moves(st, r)
    BY <1>i, <2>1 DEF Moves, TurnOf, Unmoved
  <2> QED
    BY <1>0, <1>i, <2>1, <2>2, SoleUpdate
<1>j. CASE ExpiredContinue(s)
  <2> DEFINE r == [st EXCEPT !.state = "recovering", !.recovery = "same-owner-next-epoch"]
  <2>1. Recover(s, r) /\ UNCHANGED <<st, result>> /\ pc[s] = "decide"
    BY <1>j DEF ExpiredContinue, Decides
  <2>2. /\ r \in TaskState /\ r.state = "recovering" /\ Fresh(r) /\ r.epoch = st.epoch
        /\ r.revisions = st.revisions /\ r.checkpoints = st.checkpoints
    BY <1>0 DEF TaskState, States, LiveStates, Recoveries, Fresh
  <2> HIDE DEF r
  <2> QED
    BY <1>i, <2>1, <2>2
<1>k. CASE WindowContinue(s) \/ ConvergenceContinue(s)
  <2> DEFINE R(recovery) == [st EXCEPT !.state = "recovering", !.recovery = recovery,
                                       !.receipt = Receipt(s)]
  <2>1. PICK recovery \in Recoveries : Recover(s, R(recovery))
    BY <1>k DEF WindowContinue, ConvergenceContinue, Recoveries
  <2>2. UNCHANGED <<st, result>> /\ pc[s] = "decide"
    BY <1>k DEF WindowContinue, ConvergenceContinue, Decides
  <2>3. ep[s] = st.epoch /\ st = buf[s] /\ Receipt(s) \in 0..MaxEpochs
    BY <2>2, <1>1, <1>2, <1>3 DEF Tells, Receipt
  <2>4. /\ R(recovery) \in TaskState /\ R(recovery).state = "recovering" /\ Receipted(R(recovery))
        /\ R(recovery).epoch = st.epoch /\ R(recovery).revisions = st.revisions
        /\ R(recovery).checkpoints = st.checkpoints
    BY <1>0, <2>3 DEF TaskState, States, LiveStates, Receipted, Receipt
  <2>5. Fresh(R(recovery))
    BY <2>4 DEF Fresh
  <2> HIDE DEF R
  <2> QED
    BY <1>i, <2>1, <2>2, <2>4, <2>5
<1>l. CASE CheckpointContinue(s)
  <2> DEFINE r == [st EXCEPT !.state = "recovering", !.recovery = "checkpoint-resume"]
  <2>1. Recover(s, r) /\ UNCHANGED <<st, result>> /\ pc[s] = "await_checkpoint"
    BY <1>l DEF CheckpointContinue, CheckpointVerdictSeen
  <2>2. Receipted(st)
    BY <2>1, <1>1, <1>2 DEF Tells
  <2>3. /\ r \in TaskState /\ r.state = "recovering" /\ Receipted(r) /\ r.epoch = st.epoch
        /\ r.revisions = st.revisions /\ r.checkpoints = st.checkpoints
    BY <1>0, <2>2 DEF TaskState, States, LiveStates, Recoveries, Receipted
  <2> HIDE DEF r
  <2> QED
    BY <1>i, <2>1, <2>3 DEF Fresh
<1>m. CASE ReviewRevise(s)
  <2> DEFINE r == [st EXCEPT !.state = "recovering", !.recovery = "revision-continue",
                             !.revisions = rev[s] + 1, !.receipt = Receipt(s)]
  <2>1. /\ Recover(s, r) \/ Stop(s, "runtime_blocked")
        /\ UNCHANGED <<st, result>> /\ pc[s] = "await_review" /\ rev[s] < MaxRevisions
    BY <1>m DEF ReviewRevise, ReviewVerdictSeen, MayRevise
  <2>2. ep[s] = st.epoch /\ st = buf[s] /\ rev[s] = st.revisions /\ Receipt(s) \in 0..MaxEpochs
    BY <2>1, <1>1, <1>2, <1>3 DEF Tells, Receipt
  <2>3. /\ r.state = "recovering" /\ Receipted(r) /\ r.epoch = st.epoch
        /\ r.revisions = st.revisions + 1 /\ r.checkpoints = st.checkpoints
    BY <1>0, <2>2 DEF TaskState, Receipted, Receipt
  <2>6. r \in TaskState
    <3>1. rev[s] + 1 \in Nat /\ "recovering" \in States /\ "revision-continue" \in Recoveries
      BY <1>0 DEF States, LiveStates, Recoveries
    <3> QED
      BY <1>0, <2>2, <3>1 DEF TaskState
  <2> HIDE DEF r
  <2>4. CASE Recover(s, r)
    BY <1>i, <2>1, <2>2, <2>3, <2>4, <2>6 DEF Fresh
  <2>5. CASE Stop(s, "runtime_blocked")
    BY <1>r, <2>1, <2>5 DEF TerminalStates
  <2> QED
    BY <2>1, <2>4, <2>5
<1>n. CASE SemanticBlock(s)
  <2>1. pc[s] = "decide" /\ UNCHANGED <<st, result, rev>> /\ result.outcome = "semantic_blocked"
    BY <1>n DEF SemanticBlock, Decides
  <2>2. CASE Stop(s, "runtime_blocked")
    BY <1>r, <2>1, <2>2 DEF TerminalStates
  <2>3. CASE pc' = [pc EXCEPT ![s] = "wake"] /\ UNCHANGED <<buf, after, ep>>
    <3>1. At(s)' = "wake" /\ pc'[s] = "wake"
      BY <1>0, <2>3 DEF At
    <3>2. Tells(s)'
      BY <1>1, <1>2, <2>1, <2>3, <3>1 DEF Tells
    <3> QED
      BY <1>0, <2>1, <2>3, <3>1, <3>2, SoleMove
  <2> QED
    BY <1>n, <2>2, <2>3 DEF SemanticBlock
<1>o. CASE AcquireRefused(s) \/ SourceChanged(s) \/ EnterSemanticBlocked(s) \/ ReviewAccepted(s)
  <2>1. {"runtime_blocked", "semantic_blocked", "review_ready"} \subseteq TerminalStates
    BY DEF TerminalStates
  <2> QED
    BY <1>0, <1>c, <1>o, <2>1, EndRecords
       DEF AcquireRefused, SourceChanged, EnterSemanticBlocked, ReviewAccepted, ReviewVerdictSeen
<1>p. CASE EpochsExhausted(s) \/ ExpiredStop(s) \/ ProjectionFailed(s) \/ RevisionsExhausted(s)
            \/ ReviewTimeout(s)
  BY <1>r, <1>p DEF EpochsExhausted, ExpiredStop, ProjectionFailed, RevisionsExhausted,
                    ReviewTimeout, Decides, ReviewVerdictSeen, TerminalStates
<1>q. CASE CheckpointReceiptFailed(s) \/ CheckpointStop(s) \/ CheckpointTimeout(s)
            \/ ConvergenceStop(s) \/ AuthorityOrBudgetBlocked(s)
  BY <1>r, <1>q DEF CheckpointReceiptFailed, CheckpointStop, CheckpointVerdictSeen,
                    CheckpointTimeout, ConvergenceStop, AuthorityOrBudgetBlocked,
                    Decides, TerminalStates
<1> QED
  BY <1>a, <1>b, <1>d, <1>e, <1>f, <1>g, <1>h, <1>j, <1>k, <1>l, <1>m, <1>n, <1>o, <1>p, <1>q
     DEF Supervise

\* What the others do does not touch the record.
LEMMA SoleNext ==
  ASSUME NEW s, Supervisors = {s}, Readers = {}, SafeInv, SoleInv(s), [Next]_vars
  PROVE  SoleInv(s)' /\ (st' = st \/ Moves(st, st'))
<1>0. /\ TypeInv /\ pc \in [Supervisors -> SupervisorSteps] /\ lock \in Supervisors \cup {None}
  BY DEF SafeInv, TypeInv, TypeOK
<1>1. CASE Supervise(s)
  <2>1. SoleInv(s)'
    BY <1>1, SoleSupervise
  <2>2. st' = st \/ (pc[s] = "store" /\ st' = buf[s])
    BY <1>1 DEF Supervise, Acquire, AcquireRefused, StoreState, SourceUnchanged, SourceChanged,
         BeginEpoch, EpochsExhausted, LaunchExecutor, Classify, ExpiredContinue, ExpiredStop,
         DoneCandidate, BuildProjection, ProjectionFailed, EmitWakeRequest, EnterRevisionPending,
         SemanticBlock, EnterSemanticBlocked, ReviewAccepted, ReviewRevise, RevisionsExhausted,
         ReviewTimeout, AuthorityOrBudgetBlocked, CheckpointWake, WindowContinue,
         CheckpointReceiptFailed, CheckpointContinue, CheckpointStop, CheckpointTimeout,
         ConvergenceContinue, ConvergenceStop
  <2> QED
    BY <2>1, <2>2 DEF SoleInv
<1>2. CASE Crash(s)
  BY <1>0, <1>2 DEF Crash, SoleInv, Fresh, Receipted
<1>3. CASE ExecutorExit
  <2>1. pc[s] \in {"running", "dead"} /\ UNCHANGED <<st, buf, after, ep, rev>>
    BY <1>0, <1>3 DEF ExecutorExit, SafeInv, ExecutorIsSupervised
  <2>2. pc'[s] = IF pc[s] = "running" THEN "classify" ELSE pc[s]
    BY <1>0, <1>3 DEF ExecutorExit
  <2>3. CASE pc[s] = "dead"
    BY <2>1, <2>2, <2>3 DEF SoleInv, Fresh, Receipted
  <2>4. CASE pc[s] = "running"
    <3>1. At(s) = "running" /\ At(s)' = "classify"
      BY <2>2, <2>4 DEF At
    <3>2. Tells(s)'
      BY <2>1, <2>4, <3>1 DEF SoleInv, Tells
    <3> QED
      BY <1>0, <2>1, <2>2, <2>4, <3>2, SoleMove
  <2> QED
    BY <2>1, <2>3, <2>4
<1>4. ASSUME NEW c \in Reviewers, Codex(c) PROVE UNCHANGED <<st, result, supVars>>
  BY <1>4 DEF Codex, BeginReviewVerdict, WriteReviewVerdict, BeginCheckpointVerdict,
              WriteCheckpointVerdict, files
<1>5. CASE UNCHANGED <<st, result, supVars>>
  BY <1>5 DEF SoleInv, Tells, At, Fresh, Receipted, supVars, Moves, TurnOf, Unmoved
<1> QED
  BY <1>1, <1>2, <1>3, <1>4, <1>5 DEF Next, vars

\* For a single supervise call: every recovery but that of an expired epoch has the receipt
\* of the epoch before it, in every state of every crash.
THEOREM RecoveriesAreReceipted ==
  ASSUME NEW s, Supervisors = {s}, Readers = {}
  PROVE  Spec => []RecoveryHasFreshReceipt
<1>1. Init => SafeInv /\ SoleInv(s)
  BY InitSafe, SoleInit
<1>2. SafeInv /\ SoleInv(s) /\ [Next]_vars => (SafeInv /\ SoleInv(s))'
  BY NextSafe, SoleNext
<1>3. SoleInv(s) => RecoveryHasFreshReceipt
  BY DEF SoleInv, Fresh, Receipted, RecoveryHasFreshReceipt
<1> QED
  BY <1>1, <1>2, <1>3, PTL DEF Spec

\* A move of the record is a step of the lifecycle.
LEMMA MovesAreSteps ==
  ASSUME st' = st \/ Moves(st, st')
  PROVE  [Lifecycle!Next]_Lifecycle!vars
<1>1. Turn = TurnOf(st) /\ Turn' = TurnOf(st')
  BY DEF Turn, TurnOf
<1> QED
  BY <1>1 DEF Moves, Unmoved, Lifecycle!Next, Lifecycle!vars, Lifecycle!GiveTurn, Lifecycle!EndTurn,
       Lifecycle!AskReview, Lifecycle!AskCheckpoint, Lifecycle!Revise, Lifecycle!Resume, Lifecycle!Close

\* A single supervise call implements the lifecycle, whatever Codex answers, the executor
\* returns and wherever it is killed.
THEOREM SupervisorImplementsLifecycle ==
  ASSUME NEW s, Supervisors = {s}, Readers = {}
  PROVE  Spec => ImplementsLifecycle
<1>1. Init => SafeInv /\ SoleInv(s) /\ Lifecycle!Init
  BY InitSafe, SoleInit DEF Init, Submitted, Lifecycle!Init, Turn
<1>2. SafeInv /\ SoleInv(s) /\ [Next]_vars => (SafeInv /\ SoleInv(s))' /\ [Lifecycle!Next]_Lifecycle!vars
  BY NextSafe, SoleNext, MovesAreSteps
<1> QED
  BY <1>1, <1>2, PTL DEF Spec, ImplementsLifecycle, Lifecycle!Spec
=============================================================================
