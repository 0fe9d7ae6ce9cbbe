------------------------------ MODULE MCRecords ------------------------------
(***************************************************************************)
(* TLC instance of the records by which work is judged and passed on, with *)
(* no process that holds them all: the evidence store with the acceptance  *)
(* graph and its reviews (one item with evidence about one file), the      *)
(* owner lease and the context lease.  A behaviour is one of either.       *)
(***************************************************************************)
EXTENDS AcceptanceReview, OwnerLease, ContextLease

VARIABLE protocol

allVars == <<protocol, vars, lease, contextVars>>

RecordsInit ==
  /\ protocol \in {"review", "owner", "context"}
  /\ Init /\ OwnerInit /\ ContextInit
  /\ context = [q \in Paths |-> CHOOSE h \in Hashes : TRUE]   \* one hash or the other

Of(p, action, others) == protocol = p /\ action /\ UNCHANGED <<protocol, others>>

RecordsNext ==
  \/ Of("review", Next, <<lease, contextVars>>)
  \/ Of("owner", OwnerNext, <<vars, contextVars>>)
  \/ Of("context", ContextNext, <<vars, lease>>)

RecordsSpec == RecordsInit /\ [][RecordsNext]_allVars
=============================================================================
