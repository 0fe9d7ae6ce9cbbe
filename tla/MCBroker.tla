------------------------------- MODULE MCBroker -------------------------------
(* Small instances of ModelCallBroker.  Profiles are chosen so that any two    *)
(* calls may share their evidence, their request or their stage.               *)
EXTENDS ModelCallBroker, TLC

Ask(role, stage, evidence, request, retry) ==
  [role |-> role, stage |-> stage, evidence |-> evidence, request |-> request,
   retry |-> retry]

TaskProfiles ==
  {Ask("codex", "implementation", "e1", "r1", FALSE),
   Ask("codex", "implementation", "e1", None, TRUE),
   Ask("codex", "final-review", "e2", None, TRUE),
   Ask("spark", "implementation", "e1", "r1", FALSE)}

TaskBudget == [codex |-> 2, spark |-> 2]

Symmetry == Permutations(Calls)
=============================================================================
