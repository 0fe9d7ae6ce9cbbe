------------------------------ MODULE MCDispatch -----------------------------
(***************************************************************************)
(* TLC instance of one dispatch, in three parts of which a behaviour is    *)
(* one: the writes of the sandbox, with one file of the base commit and an *)
(* added one; the evidence of what was done, with one source and two test  *)
(* files; what an observer is told while it runs.                          *)
(***************************************************************************)
EXTENDS WriteSandbox, DispatchEvidence, TaskMonitor

CONSTANTS kept, added, a, b, s, t1, t2, i1, i2
VARIABLE part    \* which of the three this behaviour is about

MCFiles == {kept, added}
MCTracked == {kept}
MCBaseContent == <<a, b>>
MCOpenings == {a}

MCSource == {s}
MCTests == {t1, t2}

\* A Builder's card asks for tests, or for a validation it can only claim; a
\* Checker's card has a template or not, and an exact command of three kinds.
Builder == [ids |-> {i1, i2}, tests |-> TRUE, validation |-> FALSE, checker |-> FALSE,
            scope |-> MCSource, template |-> "none", exact |-> "none", targets |-> {}]
Checker == [ids |-> {i1}, tests |-> TRUE, validation |-> TRUE, checker |-> TRUE,
            scope |-> MCTests, template |-> "none", exact |-> "safe", targets |-> {t1}]
MCCards ==
  {Builder, [Builder EXCEPT !.ids = {}, !.tests = FALSE], [Builder EXCEPT !.validation = TRUE],
   Checker, [Checker EXCEPT !.targets = {}],
   [Checker EXCEPT !.template = "valid", !.scope = MCTests \cup MCSource, !.exact = "none"],
   [Checker EXCEPT !.template = "unsafe"], [Checker EXCEPT !.exact = "unsafe"]}

allVars == <<part, vars, evidenceVars, monitorVars>>

DispatchInit ==
  /\ part \in {"writes", "evidence", "monitor"}
  /\ Init /\ EvidenceInit /\ MonitorInit
  /\ part # "evidence" => card = Builder
  /\ part # "monitor" => sight = "same"

Of(p, action, others) == part = p /\ action /\ UNCHANGED <<part, others>>

DispatchNext ==
  \/ Of("writes", Next, <<evidenceVars, monitorVars>>)
  \/ Of("evidence", EvidenceNext, <<vars, monitorVars>>)
  \/ Of("monitor", MonitorNext, <<vars, evidenceVars>>)

DispatchSpec == DispatchInit /\ [][DispatchNext]_allVars
=============================================================================
