---------------------------- MODULE Worktree_proofs ----------------------------
(***************************************************************************)
(* Who writes a product worktree, for any number of dispatches, approvals  *)
(* and paths.  An approval is spent by the one dispatch that arms itself   *)
(* with it (Spent, OneOwner), and what a dispatch continues is over for    *)
(* good (PriorIsOver): no step brings an ended or killed dispatch back.    *)
(*                                                                         *)
(* And who removes one, for any number of tasks and cleaning runs.  What a *)
(* run listed gets older while it works; what it may rely on is that a     *)
(* task only goes onward: a worktree that was added may go and does not    *)
(* come back, and while it is here it keeps its task's outcome (Onward).   *)
(*                                                                         *)
(* And what is written in one after advice was taken (AdviceBoundsChanges).*)
(***************************************************************************)
EXTENDS WorktreeOwner, RuntimeCleanup, AdvisorCall, TLAPS

Stations == {"idle", "validated", "reserved", "ready", "armed", "running",
             "concluded", "ended", "refused", "killed"}
Lives == {"none", "running", "gone"}
Asked == [kind : Kinds \cup {"none"}, prior : Dispatches \cup {None},
          approval : Approvals \cup {None}]
Slots == [lease : Dispatches \cup {None}, consumed : BOOLEAN]

\* The part of the type invariant that the other invariants rest on.
Typed ==
  /\ job \in [Dispatches -> Asked]
  /\ pc \in [Dispatches -> Stations]
  /\ claude \in [Dispatches -> Lives]
  /\ slot \in [Approvals -> Slots]

\* Prepared approvals name a dispatch.
Named == \A a \in Approvals : approval[a] = NoApproval \/ approval[a].prior \in Dispatches

\* Claude is there only behind a launch.
Behind == \A d \in Dispatches :
  claude[d] # "none" => pc[d] \in {"running", "concluded", "ended", "killed"}

HasApproval == \A d \in Dispatches : job[d].kind = "reviewed" => job[d].approval \in Approvals

Started(d) == pc[d] = "armed" \/ claude[d] # "none"
Spent == \A d \in Dispatches :
  job[d].kind = "reviewed" /\ Started(d) => slot[job[d].approval].consumed
OneOwner == \A d, e \in Dispatches :
  /\ job[d].kind = "reviewed" /\ job[e].kind = "reviewed"
  /\ job[d].approval = job[e].approval
  /\ Started(d) /\ Started(e)
  => d = e

Gone(t) == pc[t] \in {"ended", "killed"} /\ claude[t] # "running"
PriorIsOver == \A d \in Dispatches : job[d].prior # None => Gone(job[d].prior)

IInv == Typed /\ Named /\ Behind /\ HasApproval /\ Spent /\ OneOwner /\ PriorIsOver

-----------------------------------------------------------------------------
\* A run whose processes are gone, and that left a receipt, is over.
LEMMA GoneForGood ==
  ASSUME Typed, NEW t \in Dispatches, Recorded(t), WritersGone(t)
  PROVE  Gone(t)
BY DEF Typed, Stations, Lives, Recorded, WritersGone, Alive, Gone

LEMMA InitHolds == WorktreeInit => IInv
BY WorktreeAssumption
   DEF WorktreeInit, IInv, Typed, Named, Behind, HasApproval, Started, Spent, OneOwner,
       PriorIsOver, Asked, Stations, Lives, Slots, NoJob, Job, Kinds

\* Every step leaves the kinds of values alone.
LEMMA TypedIsKept ==
  ASSUME Typed, Named, [WorktreeNext]_vars
  PROVE  Typed'
<1> USE WorktreeAssumption DEF Typed, Asked, Stations, Lives, Slots
<1>1. ASSUME NEW d \in Dispatches, BeginFresh(d) PROVE Typed'
  BY <1>1 DEF BeginFresh, Begins, Job, Kinds, control
<1>2. ASSUME NEW d \in Dispatches, NEW t \in Dispatches, BeginRetry(d, t) \/ BeginAdvisor(d, t)
      PROVE  Typed'
  BY <1>2 DEF BeginRetry, BeginAdvisor, Begins, Job, Kinds, control
<1>3. ASSUME NEW d \in Dispatches, NEW a \in Approvals, BeginReviewed(d, a) PROVE Typed'
  BY <1>3 DEF BeginReviewed, Begins, Job, Kinds, control, Named
<1>4. ASSUME NEW d \in Dispatches, Reserve(d) PROVE Typed'
  BY <1>4 DEF Reserve, control
<1>5. ASSUME NEW d \in Dispatches, Leave(d) PROVE Typed'
  BY <1>5 DEF Leave, Release, control
<1>6. ASSUME NEW d \in Dispatches, Arm(d) PROVE Typed'
  BY <1>6 DEF Arm, control
<1>7. ASSUME NEW d \in Dispatches, ReserveRefused(d) \/ ReadMarker(d) \/ Launch(d)
                                   \/ ClaudeEnds(d) \/ Kill(d)
      PROVE  Typed'
  BY <1>7 DEF ReserveRefused, ReadMarker, Launch, ClaudeEnds, Kill, control
<1>8. ASSUME NEW d \in Dispatches, Exit(d) PROVE Typed'
  BY <1>8 DEF Exit, Release, control
<1>9. ASSUME NEW d \in Dispatches, NEW x \in Outcomes, Conclude(d, x) PROVE Typed'
  BY <1>9 DEF Conclude, control
<1>10. ASSUME NEW gently \in BOOLEAN, TakeoverStops(gently) PROVE Typed'
  <2> DEFINE t == takeover.task
  <2>1. pc' \in [Dispatches -> Stations]
    BY <1>10 DEF TakeoverStops
  <2>2. claude' \in [Dispatches -> Lives]
    <3>1. claude' = [claude EXCEPT ![t] = IF claude[t] = "running" THEN "gone" ELSE claude[t]]
      BY <1>10 DEF TakeoverStops
    <3> QED BY <3>1
  <2>3. slot' \in [Approvals -> Slots]
    BY <1>10 DEF TakeoverStops, Release
  <2> QED BY <1>10, <2>1, <2>2, <2>3 DEF TakeoverStops, files
<1>11. ASSUME NEW d \in Dispatches, NEW p \in Paths, ClaudeWrites(d, p) PROVE Typed'
  BY <1>11 DEF ClaudeWrites, control
<1>12. CASE \/ \E a \in Approvals, t \in Dispatches : Prepare(a, t)
            \/ \E t \in Dispatches, resume \in BOOLEAN : AskAdvisor(t, resume)
            \/ \E d \in Dispatches : TakeoverMarks(d)
            \/ TakeoverSamples \/ TakeoverGrants \/ TakeoverFails
            \/ UNCHANGED vars
  BY <1>12 DEF Prepare, AskAdvisor, TakeoverMarks, TakeoverSamples, TakeoverGrants,
               TakeoverFails, files, vars, control
<1> QED
  BY <1>1, <1>2, <1>3, <1>4, <1>5, <1>6, <1>7, <1>8, <1>9, <1>10, <1>11, <1>12
     DEF WorktreeNext, ArmRefused

-----------------------------------------------------------------------------
\* Nothing that is over comes back, and nothing that continues it changes.
LEMMA GoneIsKept ==
  ASSUME Typed, Behind, [WorktreeNext]_vars, NEW t \in Dispatches, Gone(t)
  PROVE  Gone(t)'
<1> USE DEF Typed, Asked, Stations, Lives, Slots, Behind, Gone
<1>1. ASSUME NEW d \in Dispatches, NEW j, Begins(d, j) PROVE Gone(t)'
  BY <1>1 DEF Begins
<1>2. ASSUME NEW d \in Dispatches, Reserve(d) \/ ReserveRefused(d) \/ ReadMarker(d)
                                   \/ Leave(d) \/ Arm(d) \/ Launch(d)
                                   \/ ClaudeEnds(d) \/ Exit(d) \/ Kill(d)
      PROVE  Gone(t)'
  BY <1>2 DEF Reserve, ReserveRefused, ReadMarker, Leave, Arm, Launch, ClaudeEnds, Exit, Kill, Alive
<1>3. ASSUME NEW d \in Dispatches, NEW x \in Outcomes, Conclude(d, x) PROVE Gone(t)'
  BY <1>3 DEF Conclude
<1>4. ASSUME NEW gently \in BOOLEAN, TakeoverStops(gently) PROVE Gone(t)'
  BY <1>4 DEF TakeoverStops, Alive
<1>5. CASE pc' = pc /\ claude' = claude
  BY <1>5
<1> QED
  BY <1>1, <1>2, <1>3, <1>4, <1>5
     DEF WorktreeNext, ArmRefused, BeginFresh, BeginRetry, BeginAdvisor, BeginReviewed,
         ClaudeWrites, Prepare, AskAdvisor, TakeoverMarks, TakeoverSamples, TakeoverGrants,
         TakeoverFails, vars

-----------------------------------------------------------------------------
\* A launch is behind every Claude, and a reviewed run has an approval.
LEMMA ShapeIsKept ==
  ASSUME IInv, [WorktreeNext]_vars
  PROVE  Named' /\ Behind' /\ HasApproval'
<1> USE WorktreeAssumption
    DEF IInv, Typed, Asked, Stations, Lives, Slots, Named, Behind, HasApproval, NoApproval
<1>1. ASSUME NEW d \in Dispatches, NEW kind, NEW t, NEW a, Begins(d, Job(kind, t, a)),
             kind = "reviewed" => a \in Approvals
      PROVE  Named' /\ Behind' /\ HasApproval'
  BY <1>1 DEF Begins, Job, control
<1>2. ASSUME NEW d \in Dispatches,
             Reserve(d) \/ ReserveRefused(d) \/ ReadMarker(d) \/ Leave(d) \/ Arm(d)
               \/ Launch(d) \/ ClaudeEnds(d) \/ Exit(d) \/ Kill(d)
      PROVE  Named' /\ Behind' /\ HasApproval'
  BY <1>2 DEF Reserve, ReserveRefused, ReadMarker, Leave, Arm, Launch, ClaudeEnds, Exit,
              Kill, Alive, Recorded, control
<1>3. ASSUME NEW d \in Dispatches, NEW x \in Outcomes, Conclude(d, x)
      PROVE  Named' /\ Behind' /\ HasApproval'
  BY <1>3 DEF Conclude, control
<1>4. ASSUME NEW gently \in BOOLEAN, TakeoverStops(gently)
      PROVE  Named' /\ Behind' /\ HasApproval'
  BY <1>4 DEF TakeoverStops, Alive, files
<1>5. ASSUME NEW a \in Approvals, NEW t \in Dispatches, Prepare(a, t)
      PROVE  Named' /\ Behind' /\ HasApproval'
  BY <1>5 DEF Prepare
<1>6. CASE UNCHANGED <<job, pc, claude, approval>>
  BY <1>6
<1> QED
  BY <1>1, <1>2, <1>3, <1>4, <1>5, <1>6
     DEF WorktreeNext, ArmRefused, BeginFresh, BeginRetry, BeginAdvisor, BeginReviewed,
         ClaudeWrites, AskAdvisor, TakeoverMarks, TakeoverSamples, TakeoverGrants,
         TakeoverFails, vars, control, files

\* Only arming starts a dispatch, only with an unspent approval; nothing unspends it.
LEMMA OwnershipIsKept ==
  ASSUME IInv, [WorktreeNext]_vars
  PROVE  Spent' /\ OneOwner'
<1> USE DEF IInv, Typed, Asked, Stations, Lives, Slots, Behind, HasApproval, Spent, OneOwner,
            Started
<1>1. ASSUME NEW d \in Dispatches, NEW j, Begins(d, j) PROVE Spent' /\ OneOwner'
  <2>1. ASSUME NEW e \in Dispatches, Started(e)' PROVE Started(e) /\ job'[e] = job[e]
    BY <1>1, <2>1 DEF Begins
  <2>2. slot' = slot
    BY <1>1 DEF Begins
  <2> QED BY <2>1, <2>2
<1>2. ASSUME NEW d \in Dispatches, Arm(d) PROVE Spent' /\ OneOwner'
  <2>1. ASSUME NEW e \in Dispatches, e # d PROVE Started(e)' <=> Started(e)
    BY <1>2, <2>1 DEF Arm
  <2>2. job' = job /\ \A a \in Approvals : slot[a].consumed => slot'[a].consumed
    BY <1>2 DEF Arm, control
  <2>3. job[d].kind = "reviewed" =>
          ~slot[job[d].approval].consumed /\ slot'[job[d].approval].consumed
    BY <1>2 DEF Arm, MayArm
  <2> QED BY <2>1, <2>2, <2>3
<1>3. ASSUME job' = job,
             \A e \in Dispatches : Started(e)' => Started(e),
             \A a \in Approvals : slot'[a].consumed = slot[a].consumed
      PROVE  Spent' /\ OneOwner'
  BY <1>3
<1>4. ASSUME NEW d \in Dispatches, Release(d)
      PROVE  \A a \in Approvals : slot'[a].consumed = slot[a].consumed
  BY <1>4 DEF Release
<1>5. ASSUME NEW d \in Dispatches, Leave(d) \/ Exit(d) PROVE Spent' /\ OneOwner'
  BY <1>3, <1>4, <1>5 DEF Leave, Exit, Recorded
<1>6. ASSUME NEW d \in Dispatches,
             Reserve(d) \/ ReserveRefused(d) \/ ReadMarker(d) \/ Launch(d) \/ ClaudeEnds(d)
               \/ Kill(d)
      PROVE  Spent' /\ OneOwner'
  BY <1>3, <1>6 DEF Reserve, ReserveRefused, ReadMarker, Launch, ClaudeEnds, Kill, Recorded
<1>7. ASSUME NEW d \in Dispatches, NEW x \in Outcomes, Conclude(d, x)
      PROVE  Spent' /\ OneOwner'
  BY <1>3, <1>7 DEF Conclude
<1>8. ASSUME NEW gently \in BOOLEAN, TakeoverStops(gently) PROVE Spent' /\ OneOwner'
  <2>1. \A a \in Approvals : slot'[a].consumed = slot[a].consumed
    BY <1>8 DEF TakeoverStops, Release
  <2>2. \A e \in Dispatches : Started(e)' => Started(e)
    BY <1>8 DEF TakeoverStops
  <2> QED BY <1>3, <1>8, <2>1, <2>2 DEF TakeoverStops, files
<1>9. CASE UNCHANGED <<job, pc, claude, slot>>
  BY <1>9
<1> QED
  BY <1>1, <1>2, <1>5, <1>6, <1>7, <1>8, <1>9
     DEF WorktreeNext, ArmRefused, BeginFresh, BeginRetry, BeginAdvisor, BeginReviewed,
         ClaudeWrites, Prepare, AskAdvisor, TakeoverMarks, TakeoverSamples, TakeoverGrants,
         TakeoverFails, vars, control, files

\* A dispatch begins behind one that is over, and that one stays over.
LEMMA PriorStaysOver ==
  ASSUME IInv, [WorktreeNext]_vars
  PROVE  PriorIsOver'
<1> USE WorktreeAssumption DEF IInv
<1>1. ASSUME NEW t \in Dispatches, Gone(t) PROVE Gone(t)'
  BY <1>1, GoneIsKept
<1>2. ASSUME NEW d \in Dispatches, NEW kind, NEW t \in Dispatches, NEW a,
             Begins(d, Job(kind, t, a)), Recorded(t), WritersGone(t)
      PROVE  PriorIsOver'
  <2>1. Gone(t)'
    BY <1>1, <1>2, GoneForGood
  <2> QED BY <1>1, <1>2, <2>1 DEF Begins, Job, PriorIsOver, Typed, Asked
<1>3. ASSUME NEW d \in Dispatches, BeginFresh(d) PROVE PriorIsOver'
  BY <1>1, <1>3 DEF BeginFresh, Begins, Job, PriorIsOver, Typed, Asked
<1>4. ASSUME NEW d \in Dispatches, NEW t \in Dispatches, BeginRetry(d, t) \/ BeginAdvisor(d, t)
      PROVE  PriorIsOver'
  BY <1>2, <1>4 DEF BeginRetry, BeginAdvisor
<1>5. ASSUME NEW d \in Dispatches, NEW a \in Approvals, BeginReviewed(d, a) PROVE PriorIsOver'
  BY <1>2, <1>5 DEF BeginReviewed, Reviewable, Named
<1>6. CASE job' = job
  BY <1>1, <1>6 DEF PriorIsOver, Typed, Asked
<1> QED
  BY <1>3, <1>4, <1>5, <1>6
     DEF WorktreeNext, ArmRefused, Reserve, ReserveRefused, ReadMarker, Leave, Arm, Launch,
         ClaudeEnds, Exit, Kill, ClaudeWrites, Conclude, Prepare, AskAdvisor, TakeoverMarks,
         TakeoverStops, TakeoverSamples, TakeoverGrants, TakeoverFails, vars, files

\* The inductive invariant: the records are well-typed, an approval is spent by the
\* one dispatch that started with it, and what a dispatch continues is over.
THEOREM WorktreeInvariant == WorktreeSpec => []IInv
<1>1. IInv /\ [WorktreeNext]_vars => IInv'
  BY TypedIsKept, ShapeIsKept, OwnershipIsKept, PriorStaysOver DEF IInv
<1> QED BY InitHolds, <1>1, PTL DEF WorktreeSpec

\* For any number of dispatches and approvals: an approval starts Claude at most once.
THEOREM ApprovalsStartOnce == WorktreeSpec => []OneStartPerApproval
<1>1. IInv => OneStartPerApproval
  BY DEF IInv, OneOwner, Started, OneStartPerApproval
<1> QED BY WorktreeInvariant, <1>1, PTL

\* For any number of dispatches: none writes beside the one it continues.
THEOREM ParentsAreGone == WorktreeSpec => []ParentIsGone
<1>1. IInv => ParentIsGone
  BY DEF IInv, PriorIsOver, Gone, ParentIsGone, Alive, Typed, Asked
<1> QED BY WorktreeInvariant, <1>1, PTL

-----------------------------------------------------------------------------
(* The cleanup.                                                             *)

\* A worktree, here or not.
Trees == [here : BOOLEAN, commit : Nat, product : BOOLEAN, control : BOOLEAN]

\* The shape of a listing, and of a run.
IsListing(l) ==
  /\ l = [trees |-> l.trees, left |-> l.left, eligible |-> l.eligible,
          valid |-> l.valid, failed |-> l.failed]
  /\ l.trees \subseteq Tasks /\ l.failed \subseteq Tasks
  /\ DOMAIN l.left \subseteq Tasks /\ l.left = [t \in DOMAIN l.left |-> l.left[t]]

IsRun(r) ==
  \/ r = Resting
  \/ r \in [at : {"protected"}, left : SUBSET Tasks]
  \/ /\ r = [at |-> r.at, list |-> r.list]
     /\ r.at \in {"listed", "applying"} /\ IsListing(r.list)
  \/ /\ r = [at |-> "removing", list |-> r.list, task |-> r.task, commit |-> r.commit,
             head |-> r.head]
     /\ IsListing(r.list) /\ r.task \in Tasks
  \/ /\ r = [at |-> "removed", list |-> r.list, task |-> r.task]
     /\ IsListing(r.list) /\ r.task \in Tasks

CleanupTyped ==
  /\ tree \in [Tasks -> Trees]
  /\ process \in [Tasks -> {"none", "starting", "running", "ended", "died"}]
  /\ artifacts \in [Tasks -> SUBSET Artifacts]
  /\ cleaner = [c \in Cleaners |-> cleaner[c]]
  /\ \A c \in Cleaners : IsRun(cleaner[c])

\* The task's worktree was added: it will not be added again.
Past(t) == process[t] \notin {"none", "starting"}

HereIsBegun ==
  \A t \in Tasks :
    /\ tree[t].here => Past(t) /\ t \in store
    /\ "outcome" \in artifacts[t] => Past(t)

\* Whose outcome a run may remove: its worktree is gone, or has its turn first, or the run
\* will skip it.
OutcomesWait(r) ==
  r.at \in {"listed", "applying", "removing", "removed"} =>
    \A t \in DOMAIN r.list.left : "outcome" \in r.list.left[t] =>
      /\ Past(t)
      /\ tree[t].here => t \in r.list.trees \cup r.list.failed \/ (r.at = "removing" /\ t = r.task)

\* The worktree a run is removing, or has removed.
TakenIsOver(r) ==
  /\ r.at \in {"removing", "removed"} => Past(r.task)
  /\ r.at = "removing" =>
       r.commit <= r.head /\ (tree[r.task].here => "outcome" \in artifacts[r.task])
  /\ r.at = "removed" => ~tree[r.task].here

CleanupInv ==
  /\ CleanupTyped /\ HereIsBegun
  /\ \A c \in Cleaners : OutcomesWait(cleaner[c]) /\ TakenIsOver(cleaner[c])
  /\ RemovalWasEarned /\ BundleIsPreserved

\* What every step does to a task: an added worktree may go and does not come back, and
\* keeps the outcome while it is here.
Onward(t) ==
  /\ Past(t) => Past(t)' /\ (tree'[t].here => tree[t].here)
  /\ "outcome" \in artifacts[t] /\ tree'[t].here => "outcome" \in artifacts'[t]

\* Nothing is there to clean at first.
LEMMA CleanupInitially == CleanupInit => CleanupInv
<1> SUFFICES ASSUME CleanupInit PROVE CleanupInv
  OBVIOUS
<1>1. IsRun(Resting) /\ OutcomesWait(Resting) /\ TakenIsOver(Resting)
  BY DEF IsRun, OutcomesWait, TakenIsOver, Resting
<1>2. /\ cleaner = [c \in Cleaners |-> cleaner[c]]
      /\ \A c \in Cleaners : cleaner[c] = Resting
  BY DEF CleanupInit
<1>3. NoTree \in Trees
  BY DEF NoTree, Trees
<1>4. tree \in [Tasks -> Trees] /\ \A t \in Tasks : ~tree[t].here
  BY <1>3 DEF CleanupInit, NoTree
<1>5. CleanupTyped
  BY <1>1, <1>2, <1>4 DEF CleanupInit, CleanupTyped
<1>6. HereIsBegun /\ RemovalWasEarned /\ BundleIsPreserved
  BY <1>4 DEF CleanupInit, HereIsBegun, RemovalWasEarned, BundleIsPreserved
<1> QED
  BY <1>1, <1>2, <1>5, <1>6 DEF CleanupInv

\* Any listing can be worked through.
LEMMA ListingRuns ==
  ASSUME NEW l, IsListing(l)
  PROVE  /\ IsRun(Applying(l))
         /\ Applying(l).at = "applying" /\ Applying(l).list = l
BY DEF IsRun, Applying

\* What a run's state has, by its place.
LEMMA RunParts ==
  ASSUME NEW r, IsRun(r)
  PROVE  /\ r.at \in {"idle", "protected", "listed", "applying", "removing", "removed"}
         /\ r.at \in {"listed", "applying", "removing", "removed"} => IsListing(r.list)
         /\ r.at \in {"removing", "removed"} => r.task \in Tasks
         /\ r.at = "protected" => r.left \subseteq Tasks
BY DEF IsRun, Resting

\* A run that does nothing stays right.
LEMMA RunStands ==
  ASSUME CleanupInv, \A t \in Tasks : Onward(t), NEW c \in Cleaners, cleaner'[c] = cleaner[c]
  PROVE  IsRun(cleaner'[c]) /\ OutcomesWait(cleaner[c])' /\ TakenIsOver(cleaner[c])'
<1>1. IsRun(cleaner[c]) /\ OutcomesWait(cleaner[c]) /\ TakenIsOver(cleaner[c])
  BY DEF CleanupInv, CleanupTyped
<1>2. ASSUME cleaner[c].at \in {"listed", "applying", "removing", "removed"}
      PROVE  DOMAIN cleaner[c].list.left \subseteq Tasks
  BY <1>1, <1>2 DEF IsRun, IsListing, Resting
<1>3. ASSUME cleaner[c].at \in {"removing", "removed"} PROVE cleaner[c].task \in Tasks
  BY <1>1, <1>3 DEF IsRun, Resting
<1>4. OutcomesWait(cleaner[c])'
  BY <1>1, <1>2 DEF OutcomesWait, Onward
<1>5. TakenIsOver(cleaner[c])'
  BY <1>1, <1>3 DEF TakenIsOver, Onward
<1> QED
  BY <1>1, <1>4, <1>5

\* The steps of tasks and people.
LEMMA EnvironmentKeeps ==
  ASSUME CleanupInv, NEW t \in Tasks,
         \/ Begin(t) \/ AddWorktree(t) \/ Work(t) \/ TaskReports(t) \/ TaskExits(t)
         \/ Handle(t) \/ MoveHead(t) \/ Archive(t)
  PROVE  CleanupInv'
<1> USE DEF env
<1>0. CleanupTyped /\ HereIsBegun
  BY DEF CleanupInv
<1>1. UNCHANGED <<cleaner, removed>>
  BY DEF Begin, AddWorktree, Work, TaskReports, TaskExits, Handle, MoveHead, Archive
<1>2. /\ process' \in [Tasks -> {"none", "starting", "running", "ended", "died"}]
      /\ artifacts' \in [Tasks -> SUBSET Artifacts]
  BY <1>0 DEF CleanupTyped, Begin, AddWorktree, Work, TaskReports, TaskExits, Handle, MoveHead,
              Archive, Artifacts
<1>3. /\ tree' \in [Tasks -> Trees]
      /\ \A u \in Tasks : Past(u) => (tree'[u].here => tree[u].here)
  <2>1. CASE AddWorktree(t)
    BY <1>0, <2>1 DEF CleanupTyped, AddWorktree, Trees, Past
  <2>2. CASE Work(t)
    <3>1. /\ [tree EXCEPT ![t].product = TRUE] \in [Tasks -> Trees]
          /\ [tree EXCEPT ![t].control = TRUE] \in [Tasks -> Trees]
      BY <1>0 DEF CleanupTyped, Trees
    <3>2. tree' \in [Tasks -> Trees] /\ tree[t].here
      BY <2>2, <3>1 DEF Work
    <3>3. \A u \in Tasks \ {t} : tree'[u] = tree[u]
      BY <1>0, <2>2 DEF CleanupTyped, Work
    <3> QED
      BY <3>2, <3>3
  <2>3. CASE Handle(t)
    <3>1. /\ [tree EXCEPT ![t].product = TRUE] \in [Tasks -> Trees]
          /\ [tree EXCEPT ![t].product = FALSE, ![t].control = FALSE] \in [Tasks -> Trees]
      BY <1>0 DEF CleanupTyped, Trees
    <3>2. [tree EXCEPT ![t].product = FALSE, ![t].commit = @ + 1] \in [Tasks -> Trees]
      <4>1. tree[t].commit + 1 \in Nat
        BY <1>0 DEF CleanupTyped, Trees
      <4> QED
        BY <1>0, <4>1 DEF CleanupTyped, Trees
    <3>3. tree' \in [Tasks -> Trees]
      BY <2>3, <3>1, <3>2 DEF Handle
    <3>4. tree[t].here
      BY <2>3 DEF Handle
    <3>5. \A u \in Tasks \ {t} : tree'[u] = tree[u]
      BY <1>0, <2>3 DEF CleanupTyped, Handle
    <3> QED
      BY <3>3, <3>4, <3>5
  <2>4. CASE Begin(t) \/ TaskReports(t) \/ TaskExits(t) \/ MoveHead(t) \/ Archive(t)
    BY <1>0, <2>4 DEF CleanupTyped, Begin, TaskReports, TaskExits, MoveHead, Archive
  <2> QED
    BY <2>1, <2>2, <2>3, <2>4
<1>4. \A u \in Tasks : Past(u) => Past(u)'
  BY <1>0 DEF CleanupTyped, Begin, AddWorktree, Work, TaskReports, TaskExits, Handle, MoveHead,
              Archive, Past
<1>5. \A u \in Tasks : "outcome" \in artifacts[u] => "outcome" \in artifacts'[u]
  BY <1>0 DEF CleanupTyped, Begin, AddWorktree, Work, TaskReports, TaskExits, Handle, MoveHead,
              Archive
<1>6. \A u \in Tasks : Onward(u)
  BY <1>3, <1>4, <1>5 DEF Onward
<1>7. HereIsBegun'
  BY <1>0 DEF CleanupTyped, Begin, AddWorktree, Work, TaskReports, TaskExits, Handle, MoveHead,
              Archive, HereIsBegun, Past
<1>8. BundleIsPreserved'
  <2>1. BundleIsPreserved
    BY DEF CleanupInv
  <2> QED
    BY <1>0, <2>1 DEF CleanupTyped, Begin, AddWorktree, Work, TaskReports, TaskExits, Handle,
         MoveHead, Archive, BundleIsPreserved
<1>9. \A c \in Cleaners : IsRun(cleaner'[c]) /\ OutcomesWait(cleaner[c])' /\ TakenIsOver(cleaner[c])'
  BY <1>1, <1>6, RunStands
<1>10. CleanupTyped' /\ RemovalWasEarned'
  BY <1>0, <1>1, <1>2, <1>9, <1>3 DEF CleanupTyped, CleanupInv, RemovalWasEarned
<1> QED
  BY <1>7, <1>8, <1>9, <1>10 DEF CleanupInv

\* A step of run c: what has to be shown of it.
LEMMA RunKeeps ==
  ASSUME CleanupInv, NEW c \in Cleaners, NEW r, Steps(c, r), UNCHANGED process,
         IsRun(r), OutcomesWait(r)', TakenIsOver(r)',
         \A t \in Tasks : Onward(t),
         tree' \in [Tasks -> Trees],
         artifacts' \in [Tasks -> SUBSET Artifacts],
         \A t \in Tasks : artifacts'[t] \subseteq artifacts[t],
         \A t \in Tasks : tree'[t].here => tree[t].here /\ t \in store',
         RemovalWasEarned'
  PROVE  CleanupInv'
<1>0. CleanupTyped /\ HereIsBegun /\ BundleIsPreserved
  BY DEF CleanupInv
<1>1. cleaner' = [cleaner EXCEPT ![c] = r]
  BY DEF Steps
<1>2. cleaner'[c] = r /\ \A d \in Cleaners \ {c} : cleaner'[d] = cleaner[d]
  BY <1>0, <1>1 DEF CleanupTyped
<1>3. \A d \in Cleaners : IsRun(cleaner'[d]) /\ OutcomesWait(cleaner[d])' /\ TakenIsOver(cleaner[d])'
  <2>1. ASSUME NEW d \in Cleaners \ {c}
        PROVE  IsRun(cleaner'[d]) /\ OutcomesWait(cleaner[d])' /\ TakenIsOver(cleaner[d])'
    BY <1>2, RunStands
  <2>2. IsRun(cleaner'[c]) /\ OutcomesWait(cleaner[c])' /\ TakenIsOver(cleaner[c])'
    BY <1>2 DEF OutcomesWait, TakenIsOver
  <2> QED
    BY <2>1, <2>2
<1>4. CleanupTyped'
  <2>1. cleaner' = [d \in Cleaners |-> cleaner'[d]]
    BY <1>0, <1>1 DEF CleanupTyped
  <2> QED
    BY <1>0, <1>3, <2>1 DEF CleanupTyped
<1>5. HereIsBegun' /\ BundleIsPreserved'
  BY <1>0 DEF HereIsBegun, BundleIsPreserved, Onward, Past
<1> QED
  BY <1>3, <1>4, <1>5 DEF CleanupInv

\* The steps with which a run looks and decides.
LEMMA LookingKeeps ==
  ASSUME CleanupInv, NEW c \in Cleaners,
         \/ Protect(c) \/ List(c) \/ Mark(c, TRUE) \/ Mark(c, FALSE) \/ Apply(c) \/ Stop(c)
         \/ \E t \in Tasks : Turn(c, t)
  PROVE  CleanupInv'
<1> USE DEF env
<1>0. /\ CleanupTyped /\ HereIsBegun /\ BundleIsPreserved /\ RemovalWasEarned
      /\ IsRun(cleaner[c]) /\ OutcomesWait(cleaner[c]) /\ TakenIsOver(cleaner[c])
  BY DEF CleanupInv, CleanupTyped
<1>1. UNCHANGED <<process, tree, artifacts, store, removed>>
  BY DEF Protect, List, Mark, Apply, Stop, Turn
<1>2. ASSUME NEW r, Steps(c, r), IsRun(r), OutcomesWait(r), TakenIsOver(r) PROVE CleanupInv'
  <2>1. OutcomesWait(r)' /\ TakenIsOver(r)'
    BY <1>1, <1>2 DEF OutcomesWait, TakenIsOver, Past
  <2>2. /\ \A t \in Tasks : Onward(t)
        /\ \A t \in Tasks : artifacts'[t] \subseteq artifacts[t]
        /\ \A t \in Tasks : tree'[t].here => tree[t].here /\ t \in store'
        /\ RemovalWasEarned'
    BY <1>0, <1>1 DEF Onward, Past, BundleIsPreserved, RemovalWasEarned
  <2>3. /\ tree' \in [Tasks -> Trees]
        /\ artifacts' \in [Tasks -> SUBSET Artifacts]
    BY <1>0, <1>1 DEF CleanupTyped
  <2> QED
    BY <1>1, <1>2, <2>1, <2>2, <2>3, RunKeeps
<1>3. ASSUME NEW l, IsListing(l), cleaner[c].at \in {"listed", "applying"},
             l.left = cleaner[c].list.left, l.failed = cleaner[c].list.failed,
             l.trees = cleaner[c].list.trees
      PROVE  IsRun(Applying(l)) /\ OutcomesWait(Applying(l)) /\ TakenIsOver(Applying(l))
  BY <1>0, <1>3 DEF IsRun, OutcomesWait, TakenIsOver, Applying
<1>4. IsRun(Resting) /\ OutcomesWait(Resting) /\ TakenIsOver(Resting)
  BY DEF IsRun, OutcomesWait, TakenIsOver, Resting
<1>5. CASE Protect(c)
  <2>1. PICK r : r \in [at : {"protected"}, left : SUBSET Tasks] /\ Steps(c, r)
    <3>1. PICK focus \in {Tasks} \cup {{t} : t \in Tasks} :
            Steps(c, [at |-> "protected", left |-> {t \in focus : ~Active(t)}])
      BY <1>5 DEF Protect
    <3>2. {t \in focus : ~Active(t)} \in SUBSET Tasks
      OBVIOUS
    <3> QED
      BY <3>1, <3>2
  <2> QED
    BY <1>2, <2>1 DEF IsRun, OutcomesWait, TakenIsOver
<1>6. CASE List(c)
  <2> DEFINE looked == cleaner[c].left
             l == Listing(looked)
             r == [at |-> "listed", list |-> l]
  <2>1. looked \subseteq Tasks
    BY <1>0, <1>6 DEF List, IsRun, Resting
  <2>2. IsListing(l) /\ DOMAIN l.left = looked /\ l.trees = {t \in looked : tree[t].here}
    BY <2>1 DEF Listing, IsListing
  <2>3. \A t \in looked : "outcome" \in l.left[t] => "outcome" \in artifacts[t]
    BY DEF Listing
  <2>4. Steps(c, r)
    BY <1>6 DEF List
  <2> HIDE DEF l
  <2>5. IsRun(r) /\ OutcomesWait(r) /\ TakenIsOver(r)
    BY <1>0, <2>1, <2>2, <2>3 DEF IsRun, OutcomesWait, TakenIsOver, HereIsBegun
  <2> HIDE DEF r
  <2> QED
    BY <1>2, <2>4, <2>5
<1>7. CASE Mark(c, TRUE) \/ Apply(c)
  <2>1. IsListing(cleaner[c].list) /\ cleaner[c].at = "listed"
    BY <1>0, <1>7 DEF Mark, Apply, IsRun, Resting
  <2>2. PICK valid : LET l == [cleaner[c].list EXCEPT !.valid = valid] IN Steps(c, Applying(l))
    <3>1. cleaner[c].list = [cleaner[c].list EXCEPT !.valid = cleaner[c].list.valid]
      BY <2>1 DEF IsListing
    <3> QED
      BY <1>7, <3>1 DEF Mark, Apply
  <2> DEFINE l == [cleaner[c].list EXCEPT !.valid = valid]
  <2>3. /\ IsListing(l) /\ l.left = cleaner[c].list.left /\ l.failed = cleaner[c].list.failed
        /\ l.trees = cleaner[c].list.trees
    BY <2>1 DEF IsListing
  <2> QED
    BY <1>2, <1>3, <2>1, <2>2, <2>3
<1>8. CASE Mark(c, FALSE) \/ Stop(c)
  BY <1>2, <1>4, <1>8 DEF Mark, Stop
<1>9. ASSUME NEW t \in Tasks, Turn(c, t) PROVE CleanupInv'
  <2>1. PICK old : old = cleaner[c].list
    OBVIOUS
  <2>2. IsListing(old) /\ cleaner[c].at = "applying" /\ t \in old.trees
    BY <1>0, <1>9, <2>1, RunParts DEF Turn
  <2>3. PICK l : l = [old EXCEPT !.trees = @ \ {t}]
    OBVIOUS
  <2>4. IsListing(l) /\ l.left = old.left /\ l.failed = old.failed /\ l.trees = old.trees \ {t}
    BY <2>2, <2>3 DEF IsListing
  <2>5. PICK skip : skip = [l EXCEPT !.failed = @ \cup {t}]
    OBVIOUS
  <2>6. /\ skip.left = l.left /\ skip.trees = l.trees /\ skip.failed = l.failed \cup {t}
        /\ IsListing(skip)
    BY <2>4, <2>5 DEF IsListing
  <2>7. PICK r : r = [at |-> "removing", list |-> l, task |-> t, commit |-> tree[t].commit,
                      head |-> head[t]]
    OBVIOUS
  <2>8. (Steps(c, r) /\ Eligible(t)) \/ Steps(c, Applying(skip))
    BY <1>9, <2>1, <2>3, <2>5, <2>7 DEF Turn, StillValid, ReceiptValid
  <2>9. OutcomesWait(r) /\ OutcomesWait(Applying(skip))
    <3>1. \A u \in DOMAIN old.left : "outcome" \in old.left[u] =>
            Past(u) /\ (tree[u].here => u \in old.trees \cup old.failed)
      BY <1>0, <2>1, <2>2 DEF OutcomesWait
    <3>2. OutcomesWait(r)
      BY <2>4, <2>7, <3>1 DEF OutcomesWait
    <3>3. OutcomesWait(Applying(skip))
      BY <2>4, <2>6, <3>1, ListingRuns DEF OutcomesWait
    <3> QED
      BY <3>2, <3>3
  <2>10. IsRun(r)
    BY <2>4, <2>7 DEF IsRun
  <2>11. IsRun(Applying(skip)) /\ TakenIsOver(Applying(skip))
    BY <2>6, ListingRuns DEF TakenIsOver
  <2>12. Eligible(t) => TakenIsOver(r)
    BY <1>0, <2>7 DEF Eligible, TakenIsOver, HereIsBegun
  <2> QED
    BY <1>2, <2>8, <2>9, <2>10, <2>11, <2>12
<1> QED
  BY <1>5, <1>6, <1>7, <1>8, <1>9

\* git removes a worktree that is clean, or refuses.
LEMMA GitRemoveKeeps ==
  ASSUME CleanupInv, NEW c \in Cleaners, GitRemove(c)
  PROVE  CleanupInv'
<1> USE DEF env
<1>0. PICK r : r = cleaner[c]
  OBVIOUS
<1>1. /\ CleanupTyped /\ HereIsBegun /\ BundleIsPreserved /\ RemovalWasEarned
      /\ IsRun(r) /\ OutcomesWait(r) /\ TakenIsOver(r)
  BY <1>0 DEF CleanupInv, CleanupTyped
<1>2. PICK t : t = r.task
  OBVIOUS
<1>3. r.at = "removing" /\ IsListing(r.list) /\ t \in Tasks /\ DOMAIN r.list.left \subseteq Tasks
  BY <1>0, <1>1, <1>2, RunParts DEF GitRemove, IsListing
<1> DEFINE clean == tree[t].here /\ ~tree[t].product /\ ~tree[t].control
<1>4. CASE ~clean
  <2>1. PICK l : l = [r.list EXCEPT !.failed = @ \cup {t}]
    OBVIOUS
  <2>2. /\ l.left = r.list.left /\ l.trees = r.list.trees /\ l.failed = r.list.failed \cup {t}
        /\ IsListing(l)
    BY <1>3, <2>1 DEF IsListing
  <2>3. Steps(c, Applying(l)) /\ UNCHANGED <<process, tree, artifacts, store, removed>>
    BY <1>0, <1>2, <1>4, <2>1 DEF GitRemove, Refused
  <2>4. OutcomesWait(Applying(l))
    BY <1>1, <1>2, <1>3, <2>2, ListingRuns DEF OutcomesWait
  <2>5. OutcomesWait(Applying(l))'
    BY <2>3, <2>4 DEF OutcomesWait, Past, Applying
  <2>6. IsRun(Applying(l)) /\ TakenIsOver(Applying(l))'
    BY <2>2, ListingRuns DEF TakenIsOver, Applying
  <2>7. /\ \A u \in Tasks : Onward(u)
        /\ \A u \in Tasks : artifacts'[u] \subseteq artifacts[u]
        /\ \A u \in Tasks : tree'[u].here => tree[u].here /\ u \in store'
        /\ RemovalWasEarned'
    BY <1>1, <2>3 DEF Onward, Past, BundleIsPreserved, RemovalWasEarned
  <2>8. tree' \in [Tasks -> Trees] /\ artifacts' \in [Tasks -> SUBSET Artifacts]
    BY <1>1, <2>3 DEF CleanupTyped
  <2>9. PICK q : q = Applying(l)
    OBVIOUS
  <2> QED
    BY <2>3, <2>5, <2>6, <2>7, <2>8, <2>9, RunKeeps DEF Applying
<1>5. CASE clean
  <2>1. PICK q : q = [at |-> "removed", list |-> r.list, task |-> t]
    OBVIOUS
  <2> DEFINE gone == [tree |-> tree[t], artifacts |-> artifacts[t], commit |-> r.commit,
                      head |-> r.head]
  <2>2. /\ tree' = [tree EXCEPT ![t] = NoTree] /\ removed' = removed \cup {gone}
        /\ Steps(c, q) /\ UNCHANGED <<process, artifacts, store>>
    BY <1>0, <1>2, <1>5, <2>1 DEF GitRemove
  <2>3. tree' \in [Tasks -> Trees] /\ artifacts' \in [Tasks -> SUBSET Artifacts]
    <3>1. NoTree \in Trees
      BY DEF NoTree, Trees
    <3> QED
      BY <1>1, <2>2, <3>1 DEF CleanupTyped
  <2>4. ~tree'[t].here /\ \A u \in Tasks \ {t} : tree'[u] = tree[u]
    BY <1>1, <1>3, <2>2 DEF CleanupTyped, NoTree
  <2>5. gone.commit <= gone.head /\ ~gone.tree.product /\ "outcome" \in gone.artifacts
    BY <1>1, <1>2, <1>3, <1>5 DEF TakenIsOver
  <2>6. RemovalWasEarned'
    BY <1>1, <2>2, <2>5 DEF RemovalWasEarned
  <2>7. IsRun(q)
    BY <1>3, <2>1 DEF IsRun
  <2>8. \A u \in Tasks : (Past(u) <=> Past(u)') /\ (tree'[u].here => tree[u].here)
    BY <2>2, <2>4 DEF Past
  <2>9. OutcomesWait(q)'
    <3>1. \A u \in DOMAIN r.list.left : "outcome" \in r.list.left[u] =>
            Past(u) /\ (tree[u].here => u \in r.list.trees \cup r.list.failed \/ u = t)
      BY <1>1, <1>2, <1>3 DEF OutcomesWait
    <3>2. \A u \in DOMAIN r.list.left : "outcome" \in r.list.left[u] =>
            Past(u)' /\ (tree'[u].here => u \in r.list.trees \cup r.list.failed)
      BY <1>3, <2>4, <2>8, <3>1
    <3> QED
      BY <2>1, <3>2 DEF OutcomesWait
  <2>10. TakenIsOver(q)'
    BY <1>1, <1>2, <1>3, <2>1, <2>4, <2>8 DEF TakenIsOver
  <2>11. /\ \A u \in Tasks : Onward(u)
         /\ \A u \in Tasks : artifacts'[u] \subseteq artifacts[u]
         /\ \A u \in Tasks : tree'[u].here => tree[u].here /\ u \in store'
    BY <1>1, <2>2, <2>8 DEF Onward, BundleIsPreserved
  <2> QED
    BY <2>2, <2>3, <2>6, <2>7, <2>9, <2>10, <2>11, RunKeeps
<1> QED
  BY <1>4, <1>5

\* The session store goes behind the worktree, which is gone for good.
LEMMA RemoveStoreKeeps ==
  ASSUME CleanupInv, NEW c \in Cleaners, RemoveStore(c)
  PROVE  CleanupInv'
<1> USE DEF env
<1>0. PICK r : r = cleaner[c]
  OBVIOUS
<1>1. /\ CleanupTyped /\ HereIsBegun /\ BundleIsPreserved /\ RemovalWasEarned
      /\ IsRun(r) /\ OutcomesWait(r) /\ TakenIsOver(r)
  BY <1>0 DEF CleanupInv, CleanupTyped
<1>2. PICK q : q = Applying(r.list)
  OBVIOUS
<1>3. /\ r.at = "removed" /\ IsListing(r.list) /\ r.task \in Tasks
      /\ Steps(c, q) /\ store' = store \ {r.task}
      /\ UNCHANGED <<process, tree, artifacts, removed>>
  BY <1>0, <1>1, <1>2, RunParts DEF RemoveStore
<1>4. IsRun(q) /\ q.at = "applying" /\ q.list = r.list
  BY <1>2, <1>3, ListingRuns
<1>5. OutcomesWait(q)' /\ TakenIsOver(q)'
  <2>1. OutcomesWait(q)
    BY <1>1, <1>3, <1>4 DEF OutcomesWait
  <2> QED
    BY <1>3, <1>4, <2>1 DEF OutcomesWait, TakenIsOver, Past
<1>6. /\ \A u \in Tasks : Onward(u)
      /\ \A u \in Tasks : artifacts'[u] \subseteq artifacts[u]
      /\ \A u \in Tasks : tree'[u].here => tree[u].here /\ u \in store'
      /\ RemovalWasEarned'
  BY <1>1, <1>3 DEF Onward, Past, BundleIsPreserved, RemovalWasEarned, TakenIsOver
<1>7. tree' \in [Tasks -> Trees] /\ artifacts' \in [Tasks -> SUBSET Artifacts]
  BY <1>1, <1>3 DEF CleanupTyped
<1> QED
  BY <1>3, <1>4, <1>5, <1>6, <1>7, RunKeeps

\* Only the outcome of a task whose worktree is gone is removed.
LEMMA RemoveFileKeeps ==
  ASSUME CleanupInv, NEW c \in Cleaners, NEW t \in Tasks, NEW f \in Artifacts \cup {"receipt"},
         RemoveFile(c, t, f)
  PROVE  CleanupInv'
<1> USE DEF env
<1>0. PICK r : r = cleaner[c]
  OBVIOUS
<1>1. /\ CleanupTyped /\ HereIsBegun /\ BundleIsPreserved /\ RemovalWasEarned
      /\ IsRun(r) /\ OutcomesWait(r) /\ TakenIsOver(r)
  BY <1>0 DEF CleanupInv, CleanupTyped
<1>2. PICK l : l = [r.list EXCEPT !.left[t] = @ \ {f}]
  OBVIOUS
<1>3. PICK q : q = Applying(l)
  OBVIOUS
<1>4. /\ r.at = "applying" /\ IsListing(r.list)
      /\ t \in DOMAIN r.list.left \ (r.list.trees \cup r.list.failed) /\ f \in r.list.left[t]
      /\ Steps(c, q) /\ artifacts' = [artifacts EXCEPT ![t] = @ \ {f}]
      /\ UNCHANGED <<process, tree, store, removed>>
  BY <1>0, <1>1, <1>2, <1>3, RunParts DEF RemoveFile
<1>5. f = "outcome" => ~tree[t].here
  BY <1>1, <1>4 DEF OutcomesWait
<1>6. /\ artifacts' \in [Tasks -> SUBSET Artifacts]
      /\ \A u \in Tasks : artifacts'[u] \subseteq artifacts[u]
      /\ \A u \in Tasks : "outcome" \in artifacts[u] /\ tree[u].here => "outcome" \in artifacts'[u]
  BY <1>1, <1>4, <1>5 DEF CleanupTyped
<1>7. /\ l.trees = r.list.trees /\ l.failed = r.list.failed
      /\ DOMAIN l.left = DOMAIN r.list.left
      /\ \A u \in DOMAIN l.left : l.left[u] \subseteq r.list.left[u]
      /\ IsListing(l)
  <2>1. PICK left : left = [r.list.left EXCEPT ![t] = @ \ {f}]
    OBVIOUS
  <2>2. /\ DOMAIN left = DOMAIN r.list.left /\ left = [u \in DOMAIN left |-> left[u]]
        /\ \A u \in DOMAIN left : left[u] \subseteq r.list.left[u]
    BY <1>4, <2>1 DEF IsListing
  <2>3. l = [r.list EXCEPT !.left = left]
    BY <1>2, <2>1
  <2>4. /\ l.trees = r.list.trees /\ l.failed = r.list.failed /\ l.left = left
        /\ l = [trees |-> l.trees, left |-> l.left, eligible |-> l.eligible,
                valid |-> l.valid, failed |-> l.failed]
    BY <1>4, <2>3 DEF IsListing
  <2> QED
    BY <1>4, <2>2, <2>4 DEF IsListing
<1>8. IsRun(q) /\ q.at = "applying" /\ q.list = l
  BY <1>3, <1>7, ListingRuns
<1>9. OutcomesWait(q)' /\ TakenIsOver(q)'
  <2>1. OutcomesWait(q)
    BY <1>1, <1>4, <1>7, <1>8 DEF OutcomesWait
  <2> QED
    BY <1>4, <1>8, <2>1 DEF OutcomesWait, TakenIsOver, Past
<1>10. /\ \A u \in Tasks : Onward(u)
       /\ \A u \in Tasks : tree'[u].here => tree[u].here /\ u \in store'
       /\ RemovalWasEarned'
  BY <1>1, <1>4, <1>6 DEF Onward, Past, BundleIsPreserved, RemovalWasEarned
<1>11. tree' \in [Tasks -> Trees]
  BY <1>1, <1>4 DEF CleanupTyped
<1> QED
  BY <1>4, <1>6, <1>8, <1>9, <1>10, <1>11, RunKeeps

\* Every step keeps the invariant.
LEMMA CleanupStepKeeps ==
  ASSUME CleanupInv, [CleanupNext]_cleanupVars
  PROVE  CleanupInv'
<1>1. CASE UNCHANGED cleanupVars
  BY <1>1 DEF cleanupVars, CleanupInv, CleanupTyped, HereIsBegun, OutcomesWait, TakenIsOver,
              RemovalWasEarned, BundleIsPreserved, Past
<1> QED
  BY <1>1, EnvironmentKeeps, LookingKeeps, GitRemoveKeeps, RemoveStoreKeeps, RemoveFileKeeps
     DEF CleanupNext

\* The invariant of the cleanup holds in every state it reaches.
THEOREM CleanupInvariant == CleanupSpec => []CleanupInv
BY CleanupInitially, CleanupStepKeeps, PTL DEF CleanupSpec

\* Whatever tasks and runs there are, and however they interleave: a worktree is removed
\* only if its commit was merged when its turn came, with no product uncommitted, and behind
\* its task's outcome.
THEOREM RemovalsWereEarned == CleanupSpec => []RemovalWasEarned
<1>1. CleanupInv => RemovalWasEarned
  BY DEF CleanupInv
<1> QED
  BY <1>1, CleanupInvariant, PTL

\* And a worktree that is still there keeps its session and its task's outcome.
THEOREM BundlesArePreserved == CleanupSpec => []BundleIsPreserved
<1>1. CleanupInv => BundleIsPreserved
  BY DEF CleanupInv
<1> QED
  BY <1>1, CleanupInvariant, PTL

-----------------------------------------------------------------------------
(* The advice.                                                              *)

\* What a continuation has been checked for.  Once it is over nobody writes there, so
\* that the result of its last check stays true.
Advised ==
  /\ resumed.at \in {"running", "over"} =>
       Acceptable(resumed.answer, resumed.packet) /\ resumed.answer.resume
  /\ resumed.at = "over" /\ resumed.passed =>
       InScope(changed, resumed.answer, resumed.packet)

\* What was checked when a continuation began and when it ended is all that is needed:
\* whatever the files say later, and however many questions, paths and scopes there are.
THEOREM AdviceBoundsChanges == AdvisorSpec => []ScopeWasAdvised
<1>1. AdvisorInit => Advised
  BY DEF AdvisorInit, Advised
<1>2. Advised /\ [AdvisorNext]_advisorVars => Advised'
  <2> SUFFICES ASSUME Advised, [AdvisorNext]_advisorVars PROVE Advised'
    OBVIOUS
  <2>1. CASE UNCHANGED <<changed, resumed>>
    BY <2>1 DEF Advised, Acceptable, Binds, Consistent, WithinScope, KeepsForbidden,
                InScope, Writable, Forbidden
  <2>2. CASE Touch
    BY <2>2 DEF Touch, Advised, Acceptable, Binds, Consistent, WithinScope, KeepsForbidden
  <2>3. CASE Resume
    BY <2>3 DEF Resume, Bound, ResumeEligible, Advised
  <2>4. CASE PostRun
    BY <2>4 DEF PostRun, Advised
  <2>5. QED
    BY <2>1, <2>2, <2>3, <2>4
    DEF AdvisorNext, advisorVars, ProofChanges, PreparePacket, PrepareWithAnswer, WritePacket,
        StartCall, BrokerDenies, ModelAnswers, WriteAnswer, CallFails, CallDies, PersonAnswers
<1>3. Advised => ScopeWasAdvised
  BY DEF Advised, ScopeWasAdvised, Acceptable, WithinScope, InScope, Writable, Forbidden
<1>4. QED
  BY <1>1, <1>2, <1>3, PTL DEF AdvisorSpec
===============================================================================
