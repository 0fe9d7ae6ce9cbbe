---------------------------- MODULE EvidenceStore ----------------------------
(***************************************************************************)
(* The content-addressed evidence store (evidence_store.py): objects are   *)
(* immutable, what is known of their validity is a sidecar file that       *)
(* evidence-invalidate.py writes, object by object and without a lock,     *)
(* from a description of the repository that it read when it started.  An  *)
(* object is [kind, path, hash]: what it is, the file it is about and the  *)
(* hash that file had.                                                     *)
(***************************************************************************)
EXTENDS Naturals, FiniteSets

CONSTANTS Kinds,      \* among "pass", "fail", "diff", "lexical"
          Paths,      \* repository files
          Hashes,     \* of their content
          Gone,       \* no such file
          Passes,     \* processes that run evidence-invalidate.py --apply
          None,
          MaxEdits,   \* bound: changes of the worktree
          MaxObjects, \* bound: objects stored
          MaxPasses   \* bound: invalidation runs

ASSUME StoreAssumption ==
  /\ Kinds \subseteq {"pass", "fail", "diff", "lexical"} /\ Gone \notin Hashes
  /\ MaxEdits \in Nat /\ MaxObjects \in Nat /\ MaxPasses \in Nat

Objects == [kind : Kinds, path : Paths, hash : Hashes]

VARIABLES
  context,    \* the worktree
  stored,     \* the objects of the store
  sidecar,    \* of each object, "none" before its first evaluation
  pass,       \* the invalidation runs
  edits, runs,
  settled     \* history: the sidecars were all written from this worktree

storeVars == <<context, stored, sidecar, pass, edits, runs, settled>>

Idle == [todo |-> {}, context |-> None, all |-> FALSE, alone |-> FALSE]
Active(r) == pass[r] # Idle

\* A run beside which something else happens.
Beside(run) ==
  [todo |-> run.todo, context |-> run.context, all |-> run.all, alone |-> FALSE]

StoreInit ==
  /\ context \in [Paths -> Hashes]
  /\ stored = {} /\ sidecar = [o \in Objects |-> "none"]
  /\ pass = [r \in Passes |-> Idle]
  /\ edits = 0 /\ runs = 0 /\ settled = TRUE

-----------------------------------------------------------------------------
\* _comparison and evaluate_validity, for the file hash an object depends on.
Evaluate(o, current) ==
  CASE current[o.path] = Gone -> "unknown"
    [] current[o.path] \notin {Gone, o.hash} -> "stale"
    [] OTHER -> "valid"

\* A variant: only stale evidence is refused.
LoadableUnlessStale(o) == o \in stored /\ sidecar[o] # "stale"

\* load_object: evidence that was never evaluated passes as valid evidence does.
Loadable(o) == o \in stored /\ sidecar[o] \in {"none", "valid"}

Edit ==
  /\ edits < MaxEdits /\ edits' = edits + 1
  /\ \E p \in Paths, h \in Hashes \cup {Gone} :
       context[p] # h /\ context' = [context EXCEPT ![p] = h]
  /\ pass' = [r \in Passes |-> Beside(pass[r])]
  /\ settled' = FALSE
  /\ UNCHANGED <<stored, sidecar, runs>>

\* store_object: an object that is there is reused, its sidecar stays.
Put(o) ==
  /\ o.hash = context[o.path]
  /\ Cardinality(stored \cup {o}) <= MaxObjects
  /\ stored' = stored \cup {o}
  /\ UNCHANGED <<context, sidecar, pass, edits, runs, settled>>

-----------------------------------------------------------------------------
\* evidence-invalidate.py --apply, for all objects or for some that are named.
StartPass(r) ==
  /\ ~Active(r) /\ stored # {} /\ runs < MaxPasses /\ runs' = runs + 1
  /\ \E some \in SUBSET stored \ {{}} :
       pass' = [q \in Passes |->
         IF q = r THEN [todo |-> some, context |-> context, all |-> some = stored,
                        alone |-> \A s \in Passes : ~Active(s)]
         ELSE Beside(pass[q])]
  /\ UNCHANGED <<context, stored, sidecar, edits, settled>>

WriteSidecar(r) ==
  \E o \in pass[r].todo :
    /\ sidecar' = [sidecar EXCEPT ![o] = Evaluate(o, pass[r].context)]
    /\ pass' = [pass EXCEPT ![r].todo = @ \ {o}]
    /\ settled' = (settled /\ pass[r].context = context)
    /\ UNCHANGED <<context, stored, edits, runs>>

FinishPass(r) ==
  /\ Active(r) /\ pass[r].todo = {}
  /\ settled' = (settled \/ (pass[r].all /\ pass[r].alone))
  /\ pass' = [pass EXCEPT ![r] = Idle]
  /\ UNCHANGED <<context, stored, sidecar, edits, runs>>

\* It is killed, or an object cannot be read: the rest keeps its sidecar.
PassDies(r) ==
  /\ pass[r].todo # {}
  /\ pass' = [pass EXCEPT ![r] = Idle]
  /\ UNCHANGED <<context, stored, sidecar, edits, runs, settled>>

StoreStep ==
  \/ Edit \/ \E o \in Objects : Put(o)
  \/ \E r \in Passes : StartPass(r) \/ WriteSidecar(r) \/ FinishPass(r) \/ PassDies(r)
=============================================================================
