----------------------------- MODULE AdvisorCall ------------------------------
(***************************************************************************)
(* A blocked task asks an advisor and goes on with the answer.             *)
(* prepare-advisor-continuation.py writes a packet that is bound to the    *)
(* question, to evidence files and to the state of the worktree;           *)
(* advisor-call.py has it answered by one model call of the broker, or     *)
(* takes a person's answer; validate-advisor-response.py holds the answer  *)
(* against the packet; dispatch-to-claude.sh puts the three files together *)
(* again, lets Claude go on, and looks at what was changed.                *)
(*                                                                         *)
(* Each file is written by itself, from what its writer read when it       *)
(* began: packet, result and answer that lie side by side need not belong  *)
(* together.  One task: a question is a request identity, and a state of   *)
(* its worktree is the set of the changed paths.                           *)
(***************************************************************************)
EXTENDS Naturals

CONSTANTS Questions,
          Places,       \* product paths
          Scopes,       \* pairs of allowed and forbidden paths
          MaxProofs,    \* bound: versions of the evidence files
          MaxWrites,    \* bound: packets prepared and people's answers taken
          NoFile

ASSUME AdvisorAssumption ==
  /\ MaxProofs \in Nat /\ MaxWrites \in Nat
  /\ Scopes \subseteq [allowed : SUBSET Places, forbidden : SUBSET Places]

Human == "human-validated"

\* A question is called at most once: it can stand for the reservation of its call.
Reservations == Questions \cup {Human}
Answers == [request : Questions, evidence : 0..MaxProofs, reservation : Reservations,
            resume : BOOLEAN, scope : Scopes]

Failed == [ok |-> FALSE]

VARIABLES
  changed,    \* the changed paths of the worktree
  proof,      \* the evidence files
  packet,     \* advisor-packet.json
  reserved,   \* the ledger: questions with a reservation, in any state
  asking,     \* a call of advisor-call.py that is under way
  result,     \* advisor-call-result.json
  validated,  \* advisor-response-validated.json
  resumed,    \* the continuation
  writes      \* packets prepared and people's answers taken

advisorVars ==
  <<changed, proof, packet, reserved, asking, result, validated, resumed, writes>>

AdvisorInit ==
  /\ changed = {} /\ proof = 0
  /\ packet = NoFile /\ reserved = {} /\ asking = NoFile
  /\ result = NoFile /\ validated = NoFile
  /\ resumed = [at |-> "no"] /\ writes = 0

Counted == writes < MaxWrites /\ writes' = writes + 1

-----------------------------------------------------------------------------
(* Everyone else                                                            *)

Touch ==
  /\ resumed.at # "over"
  /\ \E p \in Places \ changed : changed' = changed \cup {p}
  /\ UNCHANGED <<proof, packet, reserved, asking, result, validated, resumed, writes>>

ProofChanges ==
  /\ proof < MaxProofs /\ proof' = proof + 1
  /\ UNCHANGED <<changed, packet, reserved, asking, result, validated, resumed, writes>>

-----------------------------------------------------------------------------
(* validate-advisor-response.py                                             *)

Consistent(scope) == scope.allowed \cap scope.forbidden = {}

WithinScope(scope, original) == scope.allowed \subseteq original.allowed
KeepsForbidden(scope, original) == original.forbidden \subseteq scope.forbidden

\* What cannot be parsed, or lacks a field, is an answer to no question of ours.
Binds(a, p) == a.request = p.request /\ a.evidence = p.evidence

\* decision is continue or narrow, resume_allowed, not risk_changed.
ResumeEligible(a) == a.resume

Acceptable(a, p) ==
  Binds(a, p) /\ Consistent(a.scope) /\ WithinScope(a.scope, p.scope)
    /\ KeepsForbidden(a.scope, p.scope)

-----------------------------------------------------------------------------
(* prepare-advisor-continuation.py                                          *)

\* The request is the hash of task, phase and question; the evidence hash is that of
\* the evidence files; the state is in neither.
PacketOf(question, scope) ==
  [request |-> question, evidence |-> proof, state |-> changed, scope |-> scope]

WritePacket(question, scope) ==
  /\ packet' = PacketOf(question, scope)
  /\ Counted
  /\ UNCHANGED <<changed, proof, reserved, asking, result, resumed>>

PreparePacket ==
  \E q \in Questions, s \in Scopes : WritePacket(q, s) /\ UNCHANGED validated

\* With --response-file: the packet is written before the answer is validated, and
\* without allowed paths none is asked for.
PrepareWithAnswer ==
  \E q \in Questions, s \in Scopes, a \in Answers :
    /\ WritePacket(q, s)
    /\ Binds(a, packet') /\ Consistent(a.scope) /\ KeepsForbidden(a.scope, s)
    /\ s.allowed # {} => WithinScope(a.scope, s)
    /\ validated' = a

-----------------------------------------------------------------------------
(* advisor-call.py                                                          *)

ResultOf(p, reservation, a) ==
  [ok |-> TRUE, request |-> p.request, evidence |-> p.evidence,
   reservation |-> reservation, response |-> a]

\* call_cap 1: the broker lets one reservation of a request through, whatever came of it.
StartCall ==
  /\ packet # NoFile /\ asking = NoFile /\ packet.request \notin reserved
  /\ reserved' = reserved \cup {packet.request}
  /\ asking' = [at |-> "model", packet |-> packet]
  /\ UNCHANGED <<changed, proof, packet, result, validated, resumed, writes>>

BrokerDenies ==
  /\ packet # NoFile /\ asking = NoFile /\ packet.request \in reserved
  /\ result' = Failed
  /\ UNCHANGED <<changed, proof, packet, reserved, asking, validated, resumed, writes>>

\* The model answers what it likes; result and answer are two files.
ModelAnswers ==
  /\ asking # NoFile /\ asking.at = "model"
  /\ \E a \in Answers :
       /\ Acceptable(a, asking.packet) /\ a.reservation = asking.packet.request
       /\ result' = ResultOf(asking.packet, a.reservation, a)
       /\ asking' = [at |-> "answered", answer |-> a]
  /\ UNCHANGED <<changed, proof, packet, reserved, validated, resumed, writes>>

WriteAnswer ==
  /\ asking # NoFile /\ asking.at = "answered"
  /\ validated' = asking.answer /\ asking' = NoFile
  /\ UNCHANGED <<changed, proof, packet, reserved, result, resumed, writes>>

\* The call fails, or its output is not an acceptable answer.
CallFails ==
  /\ asking # NoFile /\ asking.at = "model"
  /\ result' = Failed /\ asking' = NoFile
  /\ UNCHANGED <<changed, proof, packet, reserved, validated, resumed, writes>>

CallDies ==
  /\ asking # NoFile /\ asking' = NoFile
  /\ UNCHANGED <<changed, proof, packet, reserved, result, validated, resumed, writes>>

\* A person's answer costs no call, and is only written into the result.
PersonAnswers ==
  /\ packet # NoFile /\ asking = NoFile
  /\ \/ \E a \in Answers :
          Acceptable(a, packet) /\ result' = ResultOf(packet, Human, a)
     \/ result' = Failed
  /\ Counted
  /\ UNCHANGED <<changed, proof, packet, reserved, asking, validated, resumed>>

-----------------------------------------------------------------------------
(* dispatch-to-claude.sh                                                    *)

\* The three files belong together.
Bound ==
  /\ result.ok /\ ResumeEligible(result.response)
  /\ result.request = packet.request /\ packet.request = validated.request
  /\ result.evidence = packet.evidence /\ packet.evidence = validated.evidence
  /\ result.reservation = validated.reservation
  /\ result.response = validated

\* A variant: what the packet allows may be written as well.
WritableOfBoth(a, p) == a.scope.allowed \cup p.scope.allowed

Writable(a, p) == a.scope.allowed

Forbidden(a, p) == a.scope.forbidden \cup p.scope.forbidden

\* An empty list of writable paths restricts nothing.
InScope(paths, a, p) ==
  /\ Writable(a, p) # {} => paths \subseteq Writable(a, p)
  /\ paths \cap Forbidden(a, p) = {}

\* validate_advisor_continuation, up to the consumed marker.
Resume ==
  /\ resumed.at = "no"
  /\ packet # NoFile /\ validated # NoFile /\ result # NoFile
  /\ Bound /\ Acceptable(validated, packet)
  /\ changed = packet.state
  /\ InScope(changed, validated, packet)
  /\ resumed' = [at |-> "running", answer |-> validated, packet |-> packet]
  /\ UNCHANGED <<changed, proof, packet, reserved, asking, result, validated, writes>>

\* post_run_scope_enforcement, after Claude's exit.
PostRun ==
  /\ resumed.at = "running"
  /\ resumed' = [at |-> "over", answer |-> resumed.answer, packet |-> resumed.packet,
                  passed |-> InScope(changed, resumed.answer, resumed.packet)]
  /\ UNCHANGED <<changed, proof, packet, reserved, asking, result, validated, writes>>

AdvisorNext ==
  \/ Touch \/ ProofChanges
  \/ PreparePacket \/ PrepareWithAnswer
  \/ StartCall \/ BrokerDenies \/ ModelAnswers \/ WriteAnswer \/ CallFails \/ CallDies
  \/ PersonAnswers
  \/ Resume \/ PostRun

AdvisorSpec == AdvisorInit /\ [][AdvisorNext]_advisorVars

-----------------------------------------------------------------------------
\* However packet, result and answer were rewritten, cut short and mixed: a
\* continuation that passes its last check was told to go on, and everything changed
\* in its worktree, by it or before, is what the answer leaves writable (if it names
\* any path) and the packet does not forbid (dispatch-to-claude.sh:1754-1757 "An
\* advisor narrow decision restricts scope").
ScopeWasAdvised ==
  resumed.at = "over" /\ resumed.passed =>
    LET a == resumed.answer
        p == resumed.packet IN
    /\ Binds(a, p) /\ a.resume
    /\ a.scope.allowed # {} => changed \subseteq a.scope.allowed \cap p.scope.allowed
    /\ changed \cap p.scope.forbidden = {}
=============================================================================
