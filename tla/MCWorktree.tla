------------------------------ MODULE MCWorktree ------------------------------
(* A small instance of WorktreeOwner: one fresh dispatch and two more in the  *)
(* same worktree, two approvals; an attempt ends without progress, off plan,  *)
(* with a semantic question, or well.  A behaviour is one of these dispatches *)
(* or one of the tasks whose worktrees are cleaned up, or one of a task's     *)
(* question to an advisor: the three share no state in these models.          *)
EXTENDS WorktreeOwner, RuntimeCleanup, AdvisorCall, TLC

VARIABLE life      \* which of the three

Finished ==
  [outcome |-> "success", clean |-> TRUE, report |-> TRUE, mismatch |-> FALSE,
   reports |-> FALSE, progress |-> "useful", direction |-> "on-plan",
   blocker |-> "none", transport |-> FALSE, approval |-> FALSE]
MCOutcomes ==
  {Finished,
   [Finished EXCEPT !.progress = "none", !.report = FALSE],
   [Finished EXCEPT !.direction = "off-plan"],
   [Finished EXCEPT !.outcome = "other", !.blocker = "semantic"]}

\* Everything may be written, one path only, or whatever is not forbidden.
MCScopes ==
  LET one == CHOOSE x \in Places : TRUE IN
    {[allowed |-> Places, forbidden |-> {}], [allowed |-> {one}, forbidden |-> {}],
     [allowed |-> {}, forbidden |-> Places \ {one}]}

LifeInit ==
  life \in {"use", "cleanup", "advice"} /\ WorktreeInit /\ CleanupInit /\ AdvisorInit

LifeNext ==
  \/ life = "use" /\ WorktreeNext /\ UNCHANGED <<life, cleanupVars, advisorVars>>
  \/ life = "cleanup" /\ CleanupNext /\ UNCHANGED <<life, vars, advisorVars>>
  \/ life = "advice" /\ AdvisorNext /\ UNCHANGED <<life, vars, cleanupVars>>

LifeSpec == LifeInit /\ [][LifeNext]_<<life, vars, cleanupVars, advisorVars>>

Symmetry ==
  Permutations(Dispatches \ {FreshDispatch}) \cup Permutations(Approvals)
    \cup Permutations(Cleaners)
=============================================================================
