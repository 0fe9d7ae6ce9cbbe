------------------------------ MODULE MCRunners -------------------------------
(***************************************************************************)
(* TLC instance of the two programs that work task cards off: run-loop.sh  *)
(* one card in iterations (LoopRun), or run-parallel-loop.sh the cards of  *)
(* a plan (ParallelRun).  A behaviour is one of either.                    *)
(*                                                                         *)
(* The plans have four tasks, the shapes of dependencies that differ       *)
(* (independent, chain, fork and join, two branches, a cycle, a task of    *)
(* its own beside a cycle), and scopes with a parent first and last.       *)
(* Scopes that are the repository itself are left out: the validator       *)
(* accepts them (see README).                                              *)
(***************************************************************************)
EXTENDS LoopRun, ParallelRun, TLC

CONSTANTS head, other

VARIABLE runner

Shapes == {<<{}, {}, {}, {}>>, <<{}, {1}, {2}, {3}>>, <<{}, {1}, {1}, {2, 3}>>,
           <<{}, {1, 4}, {}, {3}>>, <<{4}, {1}, {2}, {3}>>, <<{}, {3}, {2}, {1}>>,
           <<{3}, {4}, {}, {}>>}
ScopeSets == {<<{<<"a">>}, {<<"b", "x">>}, {<<"b", "y">>}, {<<"c">>, <<"d">>}>>,
              <<{<<"a">>}, {<<"a", "x">>}, {<<"b">>}, {<<"c">>}>>,
              <<{<<"a", "x">>}, {<<"b">>}, {<<"a">>}, {<<"c">>}>>,
              <<{<<"a">>}, {<<"b">>}, {<<"c">>}, {<<"src">>}>>,
              <<{<<"a">>}, {<<"a">>}, {<<"a">>}, {}>>}
Contracts == {<<{}, {}, {"api"}, {}>>, <<{"api"}, {}, {"api"}, {}>>}
Bases == {<<head, head, head, head>>, <<head, head, other, head>>}

MCPlans ==
  [deps : Shapes, scopes : ScopeSets, contracts : Contracts, base : Bases,
   check : {<<"command", "command", "command", "command">>,
            <<"command", "owner", "command", "command">>,
            <<"command", "none", "command", "command">>}]
MCBroad == {<<"src">>}

allVars == <<runner, vars, parallelVars>>

RunnersInit ==
  \/ runner = "loop" /\ Init
     /\ ParallelInit /\ plan = CHOOSE p \in Plans : TRUE
  \/ runner = "parallel" /\ ParallelInit
     /\ Init /\ owner = "claude-builder" /\ ~adaptive

OfLoop(action) == runner = "loop" /\ action /\ UNCHANGED <<runner, parallelVars>>
OfParallel(action) == runner = "parallel" /\ action /\ UNCHANGED <<runner, vars>>

RunnersNext == OfLoop(Next) \/ OfParallel(ParallelNext)

RunnersSpec ==
  /\ RunnersInit /\ [][RunnersNext]_allVars
  /\ WF_allVars(OfParallel(Loop))
  /\ \A t \in Tasks : WF_allVars(OfParallel(Job(t)))
=============================================================================
