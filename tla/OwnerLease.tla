------------------------------ MODULE OwnerLease ------------------------------
(***************************************************************************)
(* The Owner Lease of scripts/owner_lease.py: who works on a state next.   *)
(* select-continuation-owner.py writes a lease from a request and, if      *)
(* there is one, the lease before it; or it ends a lease.  A lease hashes  *)
(* the id of its predecessor, so it is represented by its lineage: the     *)
(* sequence of the leases up to it.                                        *)
(***************************************************************************)
EXTENDS Naturals, Sequences, SequencesExt, FiniteSets

CONSTANTS Owners, MaxGeneration   \* bound: leases in a lineage

Operations == {"mechanical-revision", "test-fix", "semantic-revision", "validation", "continuation"}
Nobody == "nobody"

VARIABLE lease        \* the lineage of the newest lease; the files of its leases are kept

\* validate_request: what a caller may ask.  The current owner is the one that the
\* previous lease selected, if there is one.
Requests(lineage) ==
  [operation : Operations, original : Owners,
   current : IF lineage = <<>> THEN Owners ELSE {Last(lineage).selected},
   explicit : Owners \cup {Nobody}, resume : {"not-attempted", "succeeded", "failed"},
   session : BOOLEAN, reason : BOOLEAN]

\* The human's choice, the builder that made what is revised, or no change.
Selected(r) ==
  CASE r.explicit # Nobody -> r.explicit
    [] r.explicit = Nobody /\ r.operation \in {"mechanical-revision", "test-fix"} -> r.original
    [] OTHER -> r.current

Switching(r) == Selected(r) # r.current

\* The owner keeps its session when that was resumed, and has to try first.
Mode(r) ==
  CASE Switching(r) \/ r.resume = "failed" -> "new-session"
    [] ~Switching(r) /\ r.resume = "succeeded" -> "resumed-session"
    [] OTHER -> "resume-required"

\* What select_owner refuses.
MaySelect(lineage, r) ==
  /\ lineage # <<>> => Last(lineage).status # "revoked"
  /\ r.reason => Switching(r)
  /\ Mode(r) = "resumed-session" => r.session

\* A variant: every successor of a granted lease is a renewal.
RenewalOfAny(lineage, r) ==
  IF lineage # <<>> /\ Last(lineage).status = "granted"
  THEN Last(lineage).renewals + 1 ELSE 0

\* A renewal follows a granted lease and changes no owner.
Renewal(lineage, r) ==
  IF lineage # <<>> /\ Last(lineage).status = "granted" /\ ~Switching(r)
  THEN Last(lineage).renewals + 1 ELSE 0

NewLease(lineage, r) ==
  [source |-> "request",
   status |-> IF Mode(r) = "resume-required" THEN "requested" ELSE "granted",
   current |-> r.current, selected |-> Selected(r), mode |-> Mode(r), resume |-> r.resume,
   generation |-> IF lineage = <<>> THEN 1 ELSE Last(lineage).generation + 1,
   handoffs |-> (IF lineage = <<>> THEN 0 ELSE Last(lineage).handoffs)
                  + (IF Switching(r) THEN 1 ELSE 0),
   renewals |-> Renewal(lineage, r)]

\* The terminal copy of a lease; only its status, source and generation are new.
EndedLease(lineage, status) ==
  [Last(lineage) EXCEPT !.source = "end", !.status = status, !.generation = @ + 1]

\* validate_lease, for what relates its fields.
LeaseValid(l) ==
  /\ l.mode = "resumed-session" => l.resume = "succeeded"
  /\ l.mode = "resume-required" => l.resume = "not-attempted" /\ l.status # "granted"

-----------------------------------------------------------------------------
OwnerInit == lease = <<>>

\* Any lease that is kept, or none, may be named as the previous one.
Kept == {SubSeq(lease, 1, n) : n \in 0..Len(lease)}

SelectOwner ==
  \E previous \in Kept :
    /\ Len(previous) < MaxGeneration
    /\ previous # <<>> => LeaseValid(Last(previous))
    /\ \E r \in Requests(previous) :
         /\ MaySelect(previous, r)
         /\ lease' = Append(previous, NewLease(previous, r))

\* Only a lease that is not yet terminal expires or is revoked.
EndLease ==
  \E previous \in Kept \ {<<>>}, status \in {"expired", "revoked"} :
    /\ Len(previous) < MaxGeneration
    /\ LeaseValid(Last(previous)) /\ Last(previous).status \in {"requested", "granted"}
    /\ lease' = Append(previous, EndedLease(previous, status))

OwnerNext == SelectOwner \/ EndLease
OwnerSpec == OwnerInit /\ [][OwnerNext]_lease

-----------------------------------------------------------------------------
\* A lease tells how it came about: its generation counts the leases before it,
\* handoff_count the changes of owner, renewal_count the selections without one
\* since the owner last changed or was not granted the lease; and nothing follows a
\* revoked lease.
LeaseTellsItsLineage ==
  LET n == Len(lease)
      selections == {i \in 1..n : lease[i].source = "request"}
      changes(i) == IF i = 1 THEN lease[1].selected # lease[1].current
                    ELSE lease[i].selected # lease[i - 1].selected
      renewed(i) == i > 1 /\ lease[i - 1].status = "granted" /\ ~changes(i)
      unbroken(i) == \A j \in selections : j >= i => renewed(j) IN
  lease # <<>> =>
    /\ Last(lease).generation = n
    /\ Last(lease).handoffs = Cardinality({i \in selections : changes(i)})
    /\ Last(lease).renewals = Cardinality({i \in selections : unbroken(i)})
    /\ \A i \in 1..(n - 1) : lease[i].status # "revoked"
=============================================================================
