------------------------------- MODULE Handoff -------------------------------
(***************************************************************************)
(* The cross-model handoff: a sender writes the delta from the state its   *)
(* receiver holds to a later one (build-handoff-delta.py), the receiver    *)
(* acknowledges it in a short ACK, and validate-handoff-ack.py lets it     *)
(* execute, asks for one repair, or refuses.  merge-handoff-ack.py joins   *)
(* the repair to the first ACK.  All of it are files that may be replaced  *)
(* at any time while the state moves on; the state with index n of the     *)
(* chain has revision n - 1, and its id is n.                              *)
(***************************************************************************)
EXTENDS Naturals, Sequences, FiniteSets, Functions

CONSTANTS Versions,      \* of a statement, a wording or a hash
          Ids,           \* of constraints, decisions, questions, hypotheses
          EvidenceIds,
          AcceptanceItems,
          Reported,      \* bound: the statuses that are reported
          PathSets,      \* what a next action may be allowed to write
          Null,
          History,       \* the chains the handoffs may start with
          MaxStates,     \* bound: length of the chain
          MaxAcks        \* bound: ACKs of the receiver

MaxRepairAttempts == 1

-----------------------------------------------------------------------------
(* What a Workflow State says (scripts/workflow_state.py): its fields with   *)
(* their items, what each mutation does to them, and what validate_state     *)
(* asks of the whole.  WorkflowState keeps only the sequence of mutations;   *)
(* the handoff compares the fields.  A text that a property does not look    *)
(* into is a version of it; items with an id are functions from the ids that *)
(* are present.                                                              *)

Phases == {"planning", "implementation", "verification", "review", "revision", "complete"}
AcceptanceStatus == {"pending", "satisfied", "failed", "blocked", "unknown"}

NextPhases == [planning       |-> {"implementation", "complete"},
               implementation |-> {"verification", "revision"},
               verification   |-> {"review", "revision"},
               review         |-> {"revision", "complete"},
               revision       |-> {"implementation", "verification"},
               complete       |-> {}]

NoItems == [i \in {} |-> 0]
With(f, id, value) == [i \in DOMAIN f \cup {id} |-> IF i = id THEN value ELSE f[i]]
Without(f, id) == Restrict(f, DOMAIN f \ {id})

\* The items of f, with those of g in their place.
UpdatedBy(f, g) ==
  [i \in DOMAIN f \cup DOMAIN g |-> IF i \in DOMAIN g THEN g[i] ELSE f[i]]

\* init-workflow-state.py: nothing is decided yet.
InitialContent(frozen, paths) ==
  [goal |-> CHOOSE v \in Versions : TRUE, phase |-> "planning",
   repository |-> CHOOSE v \in Versions : TRUE,
   constraints |-> [c \in frozen |-> TRUE], decisions |-> NoItems,
   rejected |-> NoItems, questions |-> NoItems, evidence |-> {},
   acceptance |-> [a \in AcceptanceItems |-> [status |-> "pending", refs |-> {}]],
   paths |-> paths]

-----------------------------------------------------------------------------
(* apply_mutation, by type: the contents that one legal mutation makes.     *)

\* _mutation_evidence_refs: only what is registered may be referred to.
Refs(c) == SUBSET c.evidence

AddConstraint(c) ==
  {[c EXCEPT !.constraints = With(@, i, frozen)] :
     i \in Ids \ DOMAIN c.constraints, frozen \in BOOLEAN}

AcceptDecision(c) ==
  {[c EXCEPT !.decisions = With(@, i, [text |-> v, frozen |-> FALSE, refs |-> r])] :
     i \in Ids \ DOMAIN c.decisions, v \in Versions, r \in Refs(c)}

FreezeDecision(c) ==
  {[c EXCEPT !.decisions[i].frozen = TRUE] :
     i \in {j \in DOMAIN c.decisions : ~c.decisions[j].frozen}}

\* With evidence, and even when it is frozen.
InvalidateDecision(c) ==
  {[c EXCEPT !.decisions = Without(@, i)] :
     i \in IF c.evidence = {} THEN {} ELSE DOMAIN c.decisions}

RejectHypothesis(c) ==
  {[c EXCEPT !.rejected = With(@, i, [text |-> v, refs |-> r])] :
     i \in Ids \ DOMAIN c.rejected, v \in Versions, r \in Refs(c) \ {{}}}

ReopenHypothesis(c) ==
  {[c EXCEPT !.rejected = Without(@, i)] :
     i \in IF c.evidence = {} THEN {} ELSE DOMAIN c.rejected}

OpenQuestion(c) ==
  {[c EXCEPT !.questions = With(@, i, v)] : i \in Ids \ DOMAIN c.questions, v \in Versions}

ResolveQuestion(c) == {[c EXCEPT !.questions = Without(@, i)] : i \in DOMAIN c.questions}

AddEvidence(c) == {[c EXCEPT !.evidence = @ \cup {e}] : e \in EvidenceIds \ c.evidence}

UpdateAcceptance(c) ==
  {[c EXCEPT !.acceptance[a] = [status |-> s, refs |-> r]] :
     a \in AcceptanceItems, s \in Reported, r \in Refs(c)}

\* The fields that are overwritten.
UpdateField(c) ==
       {[c EXCEPT !.goal = v] : v \in Versions}
  \cup {[c EXCEPT !.repository = v] : v \in Versions}
  \cup {[c EXCEPT !.paths = p] : p \in PathSets}
  \cup {[c EXCEPT !.phase = p] : p \in NextPhases[c.phase]}

Mutated(c) ==
  AddConstraint(c) \cup AcceptDecision(c) \cup FreezeDecision(c) \cup InvalidateDecision(c)
  \cup RejectHypothesis(c) \cup ReopenHypothesis(c) \cup OpenQuestion(c)
  \cup ResolveQuestion(c) \cup AddEvidence(c) \cup UpdateAcceptance(c) \cup UpdateField(c)

-----------------------------------------------------------------------------
\* validate_state: what is referred to is registered, somewhere in the state.
ContentValid(c) ==
  /\ c.phase \in Phases
  /\ \A a \in DOMAIN c.acceptance :
       c.acceptance[a].status \in AcceptanceStatus /\ c.acceptance[a].refs \subseteq c.evidence
  /\ \A d \in DOMAIN c.decisions : c.decisions[d].refs \subseteq c.evidence
  /\ \A h \in DOMAIN c.rejected : c.rejected[h].refs \in Refs(c) \ {{}}
  /\ c.paths \in PathSets

\* The shape of a state (validate_state_schema): what an id stands for, and where.
ById(values) == UNION {[D -> values] : D \in SUBSET Ids}
Decision == [text : Versions, frozen : BOOLEAN, refs : SUBSET EvidenceIds]
Rejection == [text : Versions, refs : SUBSET EvidenceIds]
Criterion == [status : AcceptanceStatus, refs : SUBSET EvidenceIds]
Contents ==
  [goal : Versions, phase : Phases, repository : Versions,
   constraints : ById(BOOLEAN), decisions : ById(Decision),
   rejected : ById(Rejection), questions : ById(Versions),
   evidence : SUBSET EvidenceIds, acceptance : [AcceptanceItems -> Criterion],
   paths : PathSets]

\* An absent field is none of its values; the chains are of states.
ASSUME HandoffAssumption ==
  /\ Null \notin Versions /\ Null \notin Phases
  /\ Reported \subseteq AcceptanceStatus
  /\ \A h \in History : h \in Seq(Contents)

-----------------------------------------------------------------------------
VARIABLES
  chain,     \* the states of WORKFLOW_EVENTS.jsonl, the last is the state file
  held,      \* the state the receiver holds
  delta,     \* HANDOFF_DELTA.json
  ack,       \* HANDOFF_ACK.json: the receiver's first answer
  packet,    \* HANDOFF_ACK_REPAIR.json: what validate-handoff-ack.py asks for
  repair,    \* the receiver's answer to that
  merged,    \* the output of merge-handoff-ack.py
  executed,  \* the ACK that the receiver was last allowed to act on
  told,      \* history: what the receiver acknowledged, and of which state
  believed   \* history: what the receiver took each state to be

handoffVars == <<chain, held, delta, ack, packet, repair, merged, executed, told, believed>>

HandoffInit ==
  /\ chain \in History
  /\ held \in DOMAIN chain
  /\ delta = Null /\ ack = Null /\ packet = Null
  /\ repair = Null /\ merged = Null /\ executed = Null
  /\ told = {} /\ believed = {}

-----------------------------------------------------------------------------
(* build_delta                                                              *)

Added(old, new) == Restrict(new, DOMAIN new \ DOMAIN old)
Updated(old, new) == Restrict(new, {i \in DOMAIN old \cap DOMAIN new : old[i] # new[i]})
Removed(old, new) == DOMAIN old \ DOMAIN new
IfChanged(old, new) == IF old # new THEN new ELSE Null

\* validate_ancestry and the checks of build_delta: constraints stay, and no
\* question or rejected hypothesis has another text under its old id.
Deliverable(states, b, t) ==
  /\ {b, t} \subseteq DOMAIN states /\ b < t
  /\ LET old == states[b]
         new == states[t] IN
     /\ ContentValid(old) /\ ContentValid(new)
     /\ Removed(old.constraints, new.constraints) = {}
     /\ Updated(old.constraints, new.constraints) = NoItems
     /\ Updated(old.rejected, new.rejected) = NoItems
     /\ Updated(old.questions, new.questions) = NoItems
     /\ Removed(old.acceptance, new.acceptance) = {}

\* A variant: only what is new among the decisions is sent.
DeltaOfNewDecisions(states, b, t) ==
  LET old == states[b]
      new == states[t] IN
  [base |-> b, new |-> t,
   goal |-> IfChanged(old.goal, new.goal), phase |-> IfChanged(old.phase, new.phase),
   repository |-> IfChanged(old.repository, new.repository),
   constraints |-> Added(old.constraints, new.constraints),
   decisions |-> Added(old.decisions, new.decisions),
   invalidated |-> Removed(old.decisions, new.decisions),
   evidence |-> new.evidence \ old.evidence, lostEvidence |-> old.evidence \ new.evidence,
   rejected |-> Added(old.rejected, new.rejected),
   reopened |-> Removed(old.rejected, new.rejected),
   questions |-> Added(old.questions, new.questions),
   resolved |-> Removed(old.questions, new.questions),
   acceptance |-> Updated(old.acceptance, new.acceptance),
   paths |-> new.paths]

DeltaOf(states, b, t) ==
  LET old == states[b]
      new == states[t] IN
  [base |-> b, new |-> t,
   goal |-> IfChanged(old.goal, new.goal), phase |-> IfChanged(old.phase, new.phase),
   repository |-> IfChanged(old.repository, new.repository),
   constraints |-> Added(old.constraints, new.constraints),
   decisions |-> UpdatedBy(Added(old.decisions, new.decisions),
                          Updated(old.decisions, new.decisions)),
   invalidated |-> Removed(old.decisions, new.decisions),
   evidence |-> new.evidence \ old.evidence, lostEvidence |-> old.evidence \ new.evidence,
   rejected |-> Added(old.rejected, new.rejected),
   reopened |-> Removed(old.rejected, new.rejected),
   questions |-> Added(old.questions, new.questions),
   resolved |-> Removed(old.questions, new.questions),
   acceptance |-> Updated(old.acceptance, new.acceptance),
   paths |-> new.paths]

\* What a receiver that holds c knows once it has read d.
Received(c, d) ==
  LET value(new, old) == IF new = Null THEN old ELSE new
      items(old, gone, new) == UpdatedBy(Restrict(old, DOMAIN old \ gone), new) IN
  [goal |-> value(d.goal, c.goal), phase |-> value(d.phase, c.phase),
   repository |-> value(d.repository, c.repository),
   constraints |-> items(c.constraints, {}, d.constraints),
   decisions |-> items(c.decisions, d.invalidated, d.decisions),
   rejected |-> items(c.rejected, d.reopened, d.rejected),
   questions |-> items(c.questions, d.resolved, d.questions),
   evidence |-> (c.evidence \ d.lostEvidence) \cup d.evidence,
   acceptance |-> items(c.acceptance, {}, d.acceptance),
   paths |-> d.paths]

-----------------------------------------------------------------------------
(* evaluate_ack                                                             *)

\* What an ACK has to name: frozen constraints, decisions and open questions.
Expected(c) ==
       {<<"constraint", i>> : i \in {j \in DOMAIN c.constraints : c.constraints[j]}}
  \cup {<<"decision", i>> : i \in DOMAIN c.decisions}
  \cup {<<"question", i>> : i \in DOMAIN c.questions}

\* The files belong together: the receiver's state, the delta, the target, the ACK.
Bound(a, d, b, t) ==
  /\ held = b /\ held = d.base /\ d.new = t /\ a.state = t
  /\ Deliverable(chain, b, t) /\ DeltaOf(chain, b, t) = d

\* Goal, omissions, writes outside the allowed paths, objections.
HasIssues(a, c) ==
  \/ ~a.goal \/ ~(Expected(c) \subseteq a.names)
  \/ ~(a.writes \subseteq c.paths) \/ a.objects

\* A variant: an ACK that answers another state is taken.
VerdictOnAnyState(a, d, b, t) ==
  LET c == chain[t] IN
  IF ~Bound([a EXCEPT !.state = t], d, b, t) THEN "state-mismatch"
  ELSE IF ~(a.names \subseteq Expected(c)) THEN "invalid"
  ELSE IF ~HasIssues(a, c) THEN "accepted"
  ELSE IF a.attempt < MaxRepairAttempts THEN "repair-required" ELSE "blocked"

Verdict(a, d, b, t) ==
  LET c == chain[t] IN
  IF ~Bound(a, d, b, t) THEN "state-mismatch"
  ELSE IF ~(a.names \subseteq Expected(c)) THEN "invalid"
  ELSE IF ~HasIssues(a, c) THEN "accepted"
  ELSE IF a.attempt < MaxRepairAttempts THEN "repair-required" ELSE "blocked"

-----------------------------------------------------------------------------
\* apply-workflow-delta.py moves the state on.
Mutate ==
  /\ Len(chain) < MaxStates
  /\ \E c \in Mutated(chain[Len(chain)]) : c # chain[Len(chain)] /\ chain' = Append(chain, c)
  /\ UNCHANGED <<held, delta, ack, packet, repair, merged, executed, told, believed>>

\* build-handoff-delta.py --force, for any state the sender thinks is held and
\* any copy of a state.
BuildDelta ==
  /\ \E b, t \in DOMAIN chain :
       Deliverable(chain, b, t) /\ delta' = DeltaOf(chain, b, t)
  /\ UNCHANGED <<chain, held, ack, packet, repair, merged, executed, told, believed>>

\* What the receiver reads is a delta for the state it holds.
Addressed == delta # Null /\ delta.base = held
Belief == Received(chain[held], delta)

\* A complete ACK, or one with a fault: other names than those expected, the wrong
\* goal, a write elsewhere, an objection or a request for more context.
Answers(c, attempt, namings) ==
  LET good == [state |-> delta.new, attempt |-> attempt, names |-> Expected(c),
               goal |-> TRUE, writes |-> c.paths, objects |-> FALSE] IN
       {[good EXCEPT !.names = n] : n \in namings \cup {good.names}}
  \cup {[good EXCEPT !.writes = p] : p \in PathSets}
  \cup {[good EXCEPT !.goal = FALSE], [good EXCEPT !.objects = TRUE]}

\* The receiver answers; validate_ack_shape holds of what it writes.
Says(answer, c) ==
  /\ told' = told \cup {<<answer.state, m>> : m \in answer.names}
  /\ believed' = believed \cup {<<answer.state, answer.attempt, c>>}

Acknowledge ==
  /\ Addressed /\ Cardinality(believed) < MaxAcks
  /\ LET c == Belief
         names == Expected(c) IN
     \E answer \in Answers(c, 0, {{m \in names : m[1] # "decision"},
                                  names \cup {<<"decision", Null>>}}) :
       ack' = answer /\ Says(answer, c)
  /\ UNCHANGED <<chain, held, delta, packet, repair, merged, executed>>

\* The one repair, for the state that the packet asks about.
Repair ==
  /\ Addressed /\ packet # Null /\ packet.state = delta.new
  /\ Cardinality(believed) < MaxAcks
  /\ LET c == Belief IN
     \E answer \in Answers(c, 1, {packet.missing}) : repair' = answer /\ Says(answer, c)
  /\ UNCHANGED <<chain, held, delta, ack, packet, merged, executed>>

\* validate-handoff-ack.py on one of the ACKs, with a state file the caller names.
Validate(a) ==
  /\ a # Null /\ delta # Null
  /\ \E t \in DOMAIN chain :
       LET verdict == Verdict(a, delta, held, t) IN
       CASE verdict = "repair-required" ->
              /\ packet' = [state |-> t, missing |-> Expected(chain[t]) \ a.names]
              /\ UNCHANGED <<held, executed>>
         [] verdict = "accepted" ->
              /\ executed' = [a EXCEPT !.state = t]
              /\ held' = t
              /\ UNCHANGED packet
         [] OTHER -> UNCHANGED <<held, packet, executed>>
  /\ UNCHANGED <<chain, delta, ack, repair, merged, told, believed>>

\* merge_acks: what was acknowledged adds up, the rest is the repair's.
MergeAcks ==
  /\ ack # Null /\ repair # Null /\ ack.state = repair.state
  /\ merged' = [repair EXCEPT !.names = ack.names \cup repair.names]
  /\ UNCHANGED <<chain, held, delta, ack, packet, repair, executed, told, believed>>

HandoffNext ==
  \/ Mutate \/ BuildDelta \/ Acknowledge \/ Repair \/ MergeAcks
  \/ \E a \in {ack, repair, merged} : Validate(a)

HandoffSpec == HandoffInit /\ [][HandoffNext]_handoffVars

-----------------------------------------------------------------------------
\* What a receiver makes of the state it held and of the delta it read is the
\* state it acknowledges, item for item, whichever mutations lie in between and
\* however they undo one another.
DeltaTellsAll == \A b \in believed : b[3] = chain[b[1]]

\* "execute_allowed": the receiver acts only on a state of which it has itself named
\* every frozen constraint, decision and open question, knows the goal, objects to
\* nothing and plans no write outside the paths that this state allows - while
\* deltas are rebuilt, the state moves on, and the two ACKs are joined.
HandoffIsUnderstood ==
  executed # Null =>
    LET c == chain[executed.state] IN
    /\ \A m \in Expected(c) : <<executed.state, m>> \in told
    /\ executed.goal /\ ~executed.objects
    /\ executed.writes \subseteq c.paths
=============================================================================
