----------------------------- MODULE ContextLease -----------------------------
(***************************************************************************)
(* Context Leases (scripts/context-lease.py): reviewed continuations that  *)
(* resume Claude's session a limited number of times.  Each call of Claude *)
(* leaves a runtime receipt; a lease is issued for the call before it and, *)
(* along a lineage, for the lease of that call.  Who may run at the same   *)
(* time is WorktreeOwner's subject: here calls follow one another.         *)
(***************************************************************************)
EXTENDS Naturals, Sequences, FiniteSets

CONSTANTS WarmCallLimit,
          MaxCalls, MaxLeases      \* bounds: calls, approvals

ASSUME ContextAssumption == WarmCallLimit \in Nat

VARIABLES calls,      \* runtime receipts, in order
          approvals,  \* approval files, in the order they were written
          consumed,   \* approvals that have started Claude
          version     \* of the worktree's content

contextVars == <<calls, approvals, consumed, version>>

NoLease == 0

\* The first call starts a session of its own.
ContextInit ==
  /\ calls = <<[lease |-> NoLease, approval |-> 0, session |-> 1, route |-> "cold-fresh"]>>
  /\ approvals = <<>> /\ consumed = {} /\ version = 1

\* create, for the call t and with the parent approval p (0: none): a call that had
\* a lease needs it as parent, and it has to be the approval that started the call.
MayCreate(t, p) ==
  /\ calls[t].lease # NoLease => p # 0 /\ approvals[p].lease = calls[t].lease
  /\ p # 0 => approvals[p].lease # NoLease
  /\ p # 0 /\ calls[t].approval # 0 => p = calls[t].approval

\* A variant: the count is carried over.
CallsUsedCarried(p) == IF p = 0 THEN 1 ELSE approvals[p].used

CallsUsed(p) == IF p = 0 THEN 1 ELSE approvals[p].used + 1

CreateLease(t, p) ==
  /\ Len(approvals) < MaxLeases /\ MayCreate(t, p)
  /\ approvals' = Append(approvals,
       [prior |-> t, parent |-> p, used |-> CallsUsed(p), state |-> version,
        session |-> calls[t].session,
        lease |-> IF p = 0 THEN Len(approvals) + 1 ELSE approvals[p].lease])
  /\ UNCHANGED <<calls, consumed, version>>

\* prepare-worktree-continuation.py alone: an approval that is no lease.
ApprovePlain(t) ==
  /\ Len(approvals) < MaxLeases
  /\ approvals' = Append(approvals,
       [prior |-> t, parent |-> 0, used |-> 0, state |-> version,
        session |-> calls[t].session, lease |-> NoLease])
  /\ UNCHANGED <<calls, consumed, version>>

\* validate: beyond its limit a lease needs a checkpoint, the caller's or one that
\* build-context-checkpoint.py makes; a checkpoint that is given decides in the end.
Route(a, fresh, checkpoint) ==
  CASE checkpoint -> "capsule-rehydrate"
    [] fresh /\ ~checkpoint -> "cold-fresh"
    [] approvals[a].lease # NoLease /\ approvals[a].used > WarmCallLimit /\ ~fresh /\ ~checkpoint
         -> "capsule-rehydrate"
    [] OTHER -> "warm-resume"

\* The approval is unused and describes the worktree as it is.
MayStart(a) ==
  /\ a \notin consumed /\ approvals[a].state = version
  /\ approvals[a].session = calls[approvals[a].prior].session

Start(a, fresh, checkpoint) ==
  /\ Len(calls) < MaxCalls /\ MayStart(a)
  /\ approvals[a].lease = NoLease => ~fresh /\ ~checkpoint
  /\ LET route == Route(a, fresh, checkpoint) IN
     calls' = Append(calls,
       [lease |-> approvals[a].lease, approval |-> a, route |-> route,
        session |-> IF route = "warm-resume" THEN approvals[a].session ELSE Len(calls) + 1])
  /\ consumed' = consumed \cup {a}
  /\ version' \in {version, version + 1}       \* Claude changes something, or not
  /\ UNCHANGED approvals

ContextNext ==
  \/ \E t \in DOMAIN calls :
       ApprovePlain(t) \/ \E p \in {0} \cup DOMAIN approvals : CreateLease(t, p)
  \/ \E a \in DOMAIN approvals, fresh, checkpoint \in BOOLEAN : Start(a, fresh, checkpoint)

ContextSpec == ContextInit /\ [][ContextNext]_contextVars

-----------------------------------------------------------------------------
Ancestors(a) ==
  LET up[n \in 0..Len(approvals)] ==
        IF n = 0 THEN {a} ELSE up[n - 1] \cup {approvals[i].parent : i \in up[n - 1] \ {0}}
  IN up[Len(approvals)] \ {0}

\* "The default warm-call limit is three.  On the next compatible call" the session is
\* rebuilt from a checkpoint (references/claude-runtime.md:170): along a lineage of
\* leases no more calls than the limit resume a session, whichever calls in between
\* started afresh, and however many leases were left unused.
WarmCallsAreBounded ==
  \A a \in DOMAIN approvals :
    Cardinality({i \in DOMAIN calls : /\ calls[i].approval \in Ancestors(a)
                                      /\ calls[i].lease # NoLease
                                      /\ calls[i].route = "warm-resume"}) <= WarmCallLimit
=============================================================================
