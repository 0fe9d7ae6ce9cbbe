---------------------------- MODULE RuntimeCleanup ----------------------------
(***************************************************************************)
(* Removing what finished tasks leave in .worktrees (clean_runtime.py).    *)
(* A worktree goes only with a receipt that describes it as it is: its     *)
(* task over, its product clean, its commit part of the current HEAD.  The *)
(* receipt is written by one run and used by the same or a later one,      *)
(* which works through a list made at its beginning, while tasks start and *)
(* end, users edit, commit, merge and check out, and other runs remove.    *)
(*                                                                         *)
(* Every task here has a worktree of its own, on a branch of its own, so   *)
(* removing it loses no commit.  archive-terminal-runtime.py moves the     *)
(* artifacts that are not kept.                                            *)
(***************************************************************************)
EXTENDS Naturals, FiniteSets

CONSTANTS Tasks, Cleaners,
          MaxHead,    \* bound: commits in a worktree
          NoReceipt

VARIABLES
  tree,      \* the worktree: is it here, its commit, product changes, control files
  process,   \* the task's own processes
  artifacts, \* its artifacts in .worktrees
  receipt,   \* its .cleanup-eligible.json
  head,      \* of each worktree's commits, those in the repository's HEAD
  store,     \* the lineage's session store
  cleaner,   \* runs of clean_runtime.py --apply
  removed    \* history: the worktrees when git removed them

cleanupVars == <<tree, process, artifacts, receipt, head, store, cleaner, removed>>

Artifacts == {"identity", "runtime", "outcome"}
NoTree == [here |-> FALSE, commit |-> 0, product |-> FALSE, control |-> FALSE]
Resting == [at |-> "idle"]

CleanupInit ==
  /\ tree = [t \in Tasks |-> NoTree] /\ process = [t \in Tasks |-> "none"]
  /\ artifacts = [t \in Tasks |-> {}] /\ receipt = [t \in Tasks |-> NoReceipt]
  /\ head = [t \in Tasks |-> 0] /\ store = {}
  /\ cleaner = [c \in Cleaners |-> Resting] /\ removed = {}

-----------------------------------------------------------------------------
(* The tasks and the people.                                                *)

\* The dispatcher's identity is there before its worktree.
Begin(t) ==
  /\ process[t] = "none"
  /\ process' = [process EXCEPT ![t] = "starting"]
  /\ artifacts' = [artifacts EXCEPT ![t] = @ \cup {"identity"}]
  /\ UNCHANGED <<tree, receipt, head, store, cleaner, removed>>

AddWorktree(t) ==
  /\ process[t] = "starting"
  /\ process' = [process EXCEPT ![t] = "running"]
  /\ tree' = [tree EXCEPT ![t].here = TRUE]
  /\ artifacts' = [artifacts EXCEPT ![t] = @ \cup {"runtime"}]
  /\ store' = store \cup {t}
  /\ UNCHANGED <<receipt, head, cleaner, removed>>

Work(t) ==
  /\ process[t] = "running" /\ tree[t].here
  /\ tree' \in {[tree EXCEPT ![t].product = TRUE], [tree EXCEPT ![t].control = TRUE]}
  /\ UNCHANGED <<process, artifacts, receipt, head, store, cleaner, removed>>

\* The outcome is written before the dispatcher exits, if it comes to that.
TaskReports(t) ==
  /\ process[t] = "running" /\ tree[t].here
  /\ artifacts' = [artifacts EXCEPT ![t] = @ \cup {"outcome"}]
  /\ UNCHANGED <<tree, process, receipt, head, store, cleaner, removed>>

TaskExits(t) ==
  /\ process[t] \in {"starting", "running"}
  /\ process' = [process EXCEPT ![t] = IF "outcome" \in artifacts[t] THEN "ended" ELSE "died"]
  /\ UNCHANGED <<tree, artifacts, receipt, head, store, cleaner, removed>>

\* The product is edited, committed or thrown away; control files are deleted.
Handle(t) ==
  /\ tree[t].here
  /\ \/ tree' = [tree EXCEPT ![t].product = TRUE]
     \/ /\ tree[t].product /\ tree[t].commit < MaxHead
        /\ tree' = [tree EXCEPT ![t].product = FALSE, ![t].commit = @ + 1]
     \/ tree' = [tree EXCEPT ![t].product = FALSE, ![t].control = FALSE]
  /\ UNCHANGED <<process, artifacts, receipt, head, store, cleaner, removed>>

\* The branch is merged into the repository's HEAD; or HEAD goes to a branch
\* without it.
MoveHead(t) ==
  /\ head' \in {[head EXCEPT ![t] = tree[t].commit], [head EXCEPT ![t] = 0]}
  /\ UNCHANGED <<tree, process, artifacts, receipt, store, cleaner, removed>>

\* archive-terminal-runtime.py on an accepted task: outcome and card are kept.
Archive(t) ==
  /\ process[t] = "ended" /\ tree[t].here /\ "runtime" \in artifacts[t]
  /\ artifacts' = [artifacts EXCEPT ![t] = @ \ {"identity", "runtime"}]
  /\ receipt' = [receipt EXCEPT ![t] = NoReceipt]
  /\ UNCHANGED <<tree, process, head, store, cleaner, removed>>

-----------------------------------------------------------------------------
(* What a run of clean_runtime.py looks at.                                 *)

\* _task_process_state, from the identity files that are there.
Active(t) == "identity" \in artifacts[t] /\ process[t] \in {"starting", "running"}

\* cleanup_eligibility, and what its state_binding covers.
Eligible(t) ==
  /\ tree[t].here /\ ~tree[t].product
  /\ tree[t].commit <= head[t]
  /\ "outcome" \in artifacts[t]
  /\ ~Active(t)
Binding(t) == [tree |-> tree[t], head |-> head, active |-> Active(t)]

\* cleanup_receipt_state is "valid".
ReceiptValid(t) == Eligible(t) /\ receipt[t] = Binding(t)

Steps(c, value) == cleaner' = [cleaner EXCEPT ![c] = value]
env == <<process, head>>

\* The tasks that run are protected; their entries are listed a little later.
\* With --task-id only one task is looked at.
Protect(c) ==
  /\ cleaner[c].at = "idle"
  /\ \E focus \in {Tasks} \cup {{t} : t \in Tasks} :
       Steps(c, [at |-> "protected", left |-> {t \in focus : ~Active(t)}])
  /\ UNCHANGED <<env, tree, artifacts, receipt, store, removed>>

\* What a run has looked at when it begins to remove: the candidates and their entries,
\* and of those that are worktrees the eligibility.
Listing(looked) ==
  LET trees == {t \in looked : tree[t].here} IN
  [trees |-> trees,
   left |-> [t \in looked |-> artifacts[t] \cup
               IF receipt[t] = NoReceipt THEN {} ELSE {"receipt"}],
   eligible |-> [t \in {u \in trees : Eligible(u)} |-> Binding(t)],
   valid |-> {t \in trees : ReceiptValid(t)}, failed |-> {}]

List(c) ==
  /\ cleaner[c].at = "protected"
  /\ Steps(c, [at |-> "listed", list |-> Listing(cleaner[c].left)])
  /\ UNCHANGED <<env, tree, artifacts, receipt, store, removed>>

Applying(list) == [at |-> "applying", list |-> list]

\* --mark-cleanup-eligible writes what was found eligible; without --apply that is
\* all.
Mark(c, apply) ==
  LET list == cleaner[c].list
      marked == DOMAIN list.eligible IN
  /\ cleaner[c].at = "listed"
  /\ receipt' = [t \in Tasks |-> IF t \in marked THEN list.eligible[t] ELSE receipt[t]]
  /\ Steps(c, IF apply THEN Applying([list EXCEPT !.valid = @ \cup marked]) ELSE Resting)
  /\ UNCHANGED <<env, tree, artifacts, store, removed>>

Apply(c) ==
  /\ cleaner[c].at = "listed" /\ Steps(c, Applying(cleaner[c].list))
  /\ UNCHANGED <<env, tree, artifacts, receipt, store, removed>>

\* A variant: the receipt's state is that of the beginning.
StillValidAsListed(t) == TRUE

StillValid(t) == ReceiptValid(t)

\* A worktree's turn, which comes before that of its task's artifacts.
Turn(c, t) ==
  LET list == [cleaner[c].list EXCEPT !.trees = @ \ {t}] IN
  /\ cleaner[c].at = "applying" /\ t \in cleaner[c].list.trees
  /\ Steps(c, IF t \in list.valid /\ StillValid(t)
              THEN [at |-> "removing", list |-> list, task |-> t,
                    commit |-> tree[t].commit, head |-> head[t]]
              ELSE Applying([list EXCEPT !.failed = @ \cup {t}]))
  /\ UNCHANGED <<env, tree, artifacts, receipt, store, removed>>

\* A variant: the task is not remembered as one that failed.
RefusedQuietly(c, t) == Applying(cleaner[c].list)

Refused(c, t) == Applying([cleaner[c].list EXCEPT !.failed = @ \cup {t}])

\* git worktree remove, without --force: modified or untracked files forbid it.
\* The session store goes after the lineage's last worktree.
GitRemove(c) ==
  LET t == cleaner[c].task
      clean == tree[t].here /\ ~tree[t].product /\ ~tree[t].control IN
  /\ cleaner[c].at = "removing"
  /\ IF clean
     THEN /\ tree' = [tree EXCEPT ![t] = NoTree]
          /\ removed' = removed \cup
               {[tree |-> tree[t], artifacts |-> artifacts[t],
                 commit |-> cleaner[c].commit, head |-> cleaner[c].head]}
          /\ Steps(c, [at |-> "removed", list |-> cleaner[c].list, task |-> t])
     ELSE /\ Steps(c, Refused(c, t))
          /\ UNCHANGED <<tree, removed>>
  /\ UNCHANGED <<env, artifacts, receipt, store>>

RemoveStore(c) ==
  /\ cleaner[c].at = "removed"
  /\ store' = store \ {cleaner[c].task}
  /\ Steps(c, Applying(cleaner[c].list))
  /\ UNCHANGED <<env, tree, artifacts, receipt, removed>>

\* A file's turn; those of a task whose worktree was skipped are skipped.
RemoveFile(c, t, f) ==
  LET list == cleaner[c].list IN
  /\ cleaner[c].at = "applying"
  /\ t \in DOMAIN list.left \ (list.trees \cup list.failed)
  /\ f \in list.left[t]
  /\ Steps(c, Applying([list EXCEPT !.left[t] = @ \ {f}]))
  /\ artifacts' = [artifacts EXCEPT ![t] = @ \ {f}]
  /\ receipt' = IF f = "receipt" THEN [receipt EXCEPT ![t] = NoReceipt] ELSE receipt
  /\ UNCHANGED <<env, tree, store, removed>>

\* The run is over, or killed, or was a preview only.
Stop(c) ==
  /\ cleaner[c].at # "idle" /\ Steps(c, Resting)
  /\ UNCHANGED <<env, tree, artifacts, receipt, store, removed>>

CleanupNext ==
  \/ \E t \in Tasks :
       \/ Begin(t) \/ AddWorktree(t) \/ Work(t) \/ TaskReports(t) \/ TaskExits(t)
       \/ Handle(t) \/ MoveHead(t) \/ Archive(t)
  \/ \E c \in Cleaners :
       \/ Protect(c) \/ List(c) \/ Mark(c, TRUE) \/ Mark(c, FALSE) \/ Apply(c)
       \/ GitRemove(c) \/ RemoveStore(c) \/ Stop(c)
       \/ \E t \in Tasks :
            Turn(c, t) \/ \E f \in Artifacts \cup {"receipt"} : RemoveFile(c, t, f)

CleanupSpec == CleanupInit /\ [][CleanupNext]_cleanupVars

-----------------------------------------------------------------------------
\* "Writes a state-bound receipt only when the run is terminal, its worktree HEAD is
\* merged into current HEAD, and no modified or untracked product path remains"
\* (references/worktree-and-parallel.md:34): of every worktree that was removed this
\* was true when its turn came, however long after the listing, and no uncommitted
\* product went with it.
RemovalWasEarned ==
  \A r \in removed :
    /\ r.commit <= r.head
    /\ ~r.tree.product
    /\ "outcome" \in r.artifacts

\* "A missing or stale receipt preserves the complete task bundle": a worktree that is
\* still there keeps the outcome of its task and the session it can be resumed with,
\* also when git refuses to remove it, or the run is killed half way.
BundleIsPreserved ==
  \A t \in Tasks :
    tree[t].here => t \in store /\ (process[t] = "ended" => "outcome" \in artifacts[t])
=============================================================================
