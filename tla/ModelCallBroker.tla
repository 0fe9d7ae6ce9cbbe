--------------------------- MODULE ModelCallBroker ---------------------------
(***************************************************************************)
(* The model-call broker of scripts/model-call-broker.py.  Every call of a *)
(* model is one broker process.  It reserves a call of the task's budget in*)
(* an append-only ledger that all brokers share, runs the model command,   *)
(* and records how it ended.  The ledger is read, checked and appended to  *)
(* under a file lock; the model runs without it.  A broker may be          *)
(* interrupted by a signal at any step, or be killed.                      *)
(*                                                                         *)
(* A reservation id is a fresh uuid, so it is the broker process itself.   *)
(* All readers fold the ledger by reservation, so its lines are kept per   *)
(* reservation: history[c] are the states of c's lines, in order, and      *)
(* position[c] orders the reservations by their first line.  Diagnostic    *)
(* records are skipped by every reader, other tasks' records by all checks *)
(* but that of the histories; neither is modelled.                         *)
(***************************************************************************)
EXTENDS Integers, Sequences, FiniteSets

CONSTANTS
  Calls,       \* broker processes
  Roles,       \* claude, spark, codex
  Stages,      \* stages of the plan
  ReservedFor, \* review.reserved_for
  MaxCalls,    \* budget of each role
  CallCap,     \* --call-cap of the calls that carry a request id
  Profiles,    \* what a call may ask for
  None         \* no lock holder, no request id

ASSUME CallsAssumption == IsFiniteSet(Calls) /\ None \notin Calls
ASSUME ReservedForAssumption == IsFiniteSet(ReservedFor) /\ ReservedFor \subseteq Stages
ASSUME MaxCallsAssumption == MaxCalls \in [Roles -> Nat]
ASSUME CallCapAssumption == CallCap \in Nat \ {0}   \* "call_cap must be a positive integer"
ASSUME ProfilesAssumption ==
  \A p \in Profiles : p.role \in Roles /\ p.stage \in Stages /\ p.retry \in BOOLEAN

VARIABLES
  history,   \* the lines of each reservation, by state
  position,  \* the order of the reservations' first lines, 0 when there is none
  torn,      \* a line was cut off by a crash: load_ledger refuses the ledger
  lock,      \* holder of the ledger lock
  pc,        \* step of each broker
  call,      \* the profile of each broker's call
  child      \* the model process of each broker

ledger == <<history, position, torn>>
vars == <<ledger, lock, pc, call, child>>

-----------------------------------------------------------------------------
(* The ledger *)

ConsumingStates == {"reserved", "running", "succeeded"}
RetryableStates == {"failed", "cancelled"}
FinalStates == {"succeeded", "failed", "cancelled"}
ReservationStates == ConsumingStates \cup RetryableStates

ValidTransitions ==
  {<<"reserved", "running">>, <<"running", "succeeded">>, <<"running", "failed">>,
   <<"running", "cancelled">>}

Reserved == {c \in Calls : history[c] # <<>>}
Latest(c) == IF history[c] = <<>> THEN "none" ELSE history[c][Len(history[c])]

\* validate_ledger_history, for one reservation.
LegalHistory(h) ==
  h # <<>> =>
    /\ h[1] = "reserved"
    /\ \A i \in 1..(Len(h) - 1) : <<h[i], h[i + 1]>> \in ValidTransitions

\* load_ledger and validate_ledger_history.
LedgerAccepted == ~torn /\ \A c \in Calls : LegalHistory(history[c])

AppendLines(c, lines) == history' = [history EXCEPT ![c] = @ \o lines]

-----------------------------------------------------------------------------
(* Admission *)

Consumed(role) == {c \in Calls : Latest(c) \in ConsumingStates /\ call[c].role = role}
ConsumedReserved(role) == {c \in Consumed(role) : call[c].stage \in ReservedFor}
ConsumedOther(role) == Consumed(role) \ ConsumedReserved(role)

UnreservedBudget(role) ==
  LET rest == MaxCalls[role] - Cardinality(ReservedFor) IN IF rest > 0 THEN rest ELSE 0

UsedStages(role) == {call[c].stage : c \in ConsumedReserved(role)}

\* A variant: the limits are compared one too late.
CheckBudgetTooLate(p) ==
  IF p.stage \in ReservedFor
  THEN Cardinality(Consumed(p.role)) <=
         MaxCalls[p.role] - Cardinality((ReservedFor \ UsedStages(p.role)) \ {p.stage})
  ELSE Cardinality(ConsumedOther(p.role)) <= UnreservedBudget(p.role)

\* A reserved stage may use the whole budget but the slots of the other
\* reserved stages that are still unused.  Another stage is only counted
\* against the calls of stages that are not reserved.
CheckBudget(p) ==
  /\ MaxCalls[p.role] > 0
  /\ IF p.stage \in ReservedFor
     THEN Cardinality(Consumed(p.role)) <
            MaxCalls[p.role] - Cardinality((ReservedFor \ UsedStages(p.role)) \ {p.stage})
     ELSE Cardinality(ConsumedOther(p.role)) < UnreservedBudget(p.role)

SameEvidence(p) ==
  {c \in Reserved : call[c].role = p.role /\ call[c].evidence = p.evidence}

\* A variant: a reservation that is not running yet may be retried.
CheckDuplicateUnlessRunning(p) ==
  \A c \in SameEvidence(p) :
     (\A d \in SameEvidence(p) : position[c] <= position[d]) =>
        p.retry /\ Latest(c) \notin {"running", "succeeded"}

\* check_duplicate returns at the first reservation that has the same
\* evidence: when that one failed and --retry-failed is given, it does not
\* look at the later ones.
CheckDuplicate(p) ==
  \A c \in SameEvidence(p) :
     (\A d \in SameEvidence(p) : position[c] <= position[d]) =>
        p.retry /\ Latest(c) \in RetryableStates

\* check_request_idempotency counts every reservation of the request, of all
\* roles and in any state.
CheckRequest(p) ==
  p.request # None => Cardinality({c \in Reserved : call[c].request = p.request}) < CallCap

Admissible(p) ==
  LedgerAccepted /\ CheckBudget(p) /\ CheckDuplicate(p) /\ CheckRequest(p)

-----------------------------------------------------------------------------
\* A broker in the exception handler is at the state it will record.
Handling == {"failed", "cancelled"}
BrokerSteps ==
  {"start", "reserved", "assigned", "launch", "wait", "finish", "recorded",
   "done", "denied", "abandoned", "killed"} \cup Handling
Stopped == {"done", "denied", "abandoned", "killed"}

Init ==
  /\ history = [c \in Calls |-> <<>>]
  /\ position = [c \in Calls |-> 0]
  /\ torn = FALSE
  /\ lock = None
  /\ pc = [c \in Calls |-> "start"]
  /\ call \in [Calls -> Profiles]
  /\ child = [c \in Calls |-> "none"]

\* LedgerLock.acquire waits until no broker holds the lock file.
LockFree == lock = None
ReleaseLock(c) == lock' = (IF lock = c THEN None ELSE lock)
Goto(c, step) == pc' = [pc EXCEPT ![c] = step]

FirstLine(c) == position' = [position EXCEPT ![c] = Cardinality(Reserved) + 1]

\* execute under the lock: load, validate, check, append the reserved line.
Admit(c) ==
  /\ pc[c] = "start"
  /\ LockFree
  /\ Admissible(call[c])
  /\ AppendLines(c, <<"reserved">>)
  /\ FirstLine(c)
  /\ lock' = c
  /\ Goto(c, "reserved")
  /\ UNCHANGED <<torn, call, child>>

Deny(c) ==
  /\ pc[c] = "start"
  /\ LockFree
  /\ ~Admissible(call[c])
  /\ Goto(c, "denied")
  /\ UNCHANGED <<ledger, lock, call, child>>

\* running_record is assigned: from now on the exception handler repairs.
AssignRunning(c) ==
  /\ pc[c] = "reserved"
  /\ Goto(c, "assigned")
  /\ UNCHANGED <<ledger, lock, call, child>>

AppendRunning(c) ==
  /\ pc[c] = "assigned"
  /\ AppendLines(c, <<"running">>)
  /\ lock' = None
  /\ Goto(c, "launch")
  /\ UNCHANGED <<position, torn, call, child>>

Launch(c) ==
  /\ pc[c] = "launch"
  /\ child' = [child EXCEPT ![c] = "alive"]
  /\ Goto(c, "wait")
  /\ UNCHANGED <<ledger, lock, call>>

\* The input file is gone, or Popen fails.
LaunchFailed(c) ==
  /\ pc[c] = "launch"
  /\ Goto(c, "failed")
  /\ UNCHANGED <<ledger, lock, call, child>>

\* The model command ends; a broker that was killed does not see it.
ChildExit(c) ==
  /\ child[c] = "alive"
  /\ \E code \in {"zero", "nonzero"} : child' = [child EXCEPT ![c] = code]
  /\ pc' = [pc EXCEPT ![c] = IF @ = "wait" THEN "finish" ELSE @]
  /\ UNCHANGED <<ledger, lock, call>>

\* --timeout-seconds: the process group is terminated, CommandTimeout raised.
ChildTimeout(c) ==
  /\ pc[c] = "wait"
  /\ child[c] = "alive"
  /\ child' = [child EXCEPT ![c] = "nonzero"]
  /\ Goto(c, "failed")
  /\ UNCHANGED <<ledger, lock, call>>

Finish(c) ==
  /\ pc[c] = "finish"
  /\ LockFree
  /\ AppendLines(c, <<IF child[c] = "zero" THEN "succeeded" ELSE "failed">>)
  /\ Goto(c, "recorded")
  /\ UNCHANGED <<position, torn, lock, call, child>>

\* The ledger cannot be written, or its lock not be had within 30 seconds; at
\* "recorded" the line was written and only fsync failed.
AppendFailed(c) ==
  /\ pc[c] \in {"assigned", "finish", "recorded"}
  /\ ReleaseLock(c)
  /\ Goto(c, "failed")
  /\ UNCHANGED <<ledger, call, child>>

Return(c) ==
  /\ pc[c] = "recorded"
  /\ Goto(c, "done")
  /\ UNCHANGED <<ledger, lock, call, child>>

\* What the exception handler finds it must append.
RepairLines(c) ==
  CASE Latest(c) = "reserved" -> <<"running", pc[c]>>
    [] Latest(c) = "running" -> <<pc[c]>>
    [] OTHER -> <<>>

\* The handler of execute, under the lock; it loads the ledger first.
Repair(c) ==
  /\ pc[c] \in Handling
  /\ LockFree
  /\ ~torn
  /\ AppendLines(c, RepairLines(c))
  /\ Goto(c, "done")
  /\ UNCHANGED <<position, torn, lock, call, child>>

RepairRefused(c) ==
  /\ pc[c] \in Handling
  /\ LockFree
  /\ torn
  /\ Goto(c, "abandoned")
  /\ UNCHANGED <<ledger, lock, call, child>>

\* run_command terminates the process group before it raises again.
StopChild(c) ==
  child' = [child EXCEPT ![c] = IF @ = "alive" THEN "nonzero" ELSE @]

\* Ctrl-C or SIGTERM raises KeyboardInterrupt where the broker is.
Interrupt(c) ==
  /\ pc[c] \in {"assigned", "launch", "wait", "finish", "recorded"}
  /\ StopChild(c)
  /\ ReleaseLock(c)
  /\ Goto(c, "cancelled")
  /\ UNCHANGED <<ledger, call>>

\* Before running_record is assigned the handler raises again at once; a
\* second signal, the lock or the disk cuts the handler itself short.
InterruptForGood(c) ==
  /\ pc[c] \in {"reserved"} \cup Handling
  /\ ReleaseLock(c)
  /\ Goto(c, "abandoned")
  /\ UNCHANGED <<ledger, call, child>>

\* SIGKILL or a power failure.  The file lock goes with the process, the model
\* runs on in its own session, and a line being written may be cut off.
Kill(c) ==
  /\ pc[c] \notin Stopped
  /\ torn' \in {torn, torn \/ (pc[c] \in {"start", "assigned", "finish"} \cup Handling
                               /\ lock \in {None, c})}
  /\ ReleaseLock(c)
  /\ Goto(c, "killed")
  /\ UNCHANGED <<history, position, call, child>>

-----------------------------------------------------------------------------
Broker(c) ==
  \/ Admit(c) \/ Deny(c) \/ AssignRunning(c) \/ AppendRunning(c)
  \/ Launch(c) \/ LaunchFailed(c) \/ ChildExit(c) \/ ChildTimeout(c)
  \/ Finish(c) \/ AppendFailed(c) \/ Return(c) \/ Repair(c) \/ RepairRefused(c)

Next == \E c \in Calls : Broker(c) \/ Interrupt(c) \/ InterruptForGood(c) \/ Kill(c)

Spec == Init /\ [][Next]_vars

-----------------------------------------------------------------------------
(* Properties *)

TypeOK ==
  /\ history \in [Calls -> Seq(ReservationStates)]
  /\ position \in [Calls -> 0..Cardinality(Calls)]
  /\ torn \in BOOLEAN
  /\ lock \in Calls \cup {None}
  /\ pc \in [Calls -> BrokerSteps]
  /\ call \in [Calls -> Profiles]
  /\ child \in [Calls -> {"none", "alive", "zero", "nonzero"}]

\* Whatever is interrupted where, and repaired by the handler while other
\* brokers go on, validate_ledger_history accepts the ledger: no interrupt
\* locks the task out of its own budget.
HistoriesAreLegal == \A c \in Calls : LegalHistory(history[c])

\* A model process that runs is on record as running, also when its broker was
\* killed: it is counted by every budget check and found by every duplicate
\* check, and no call that is recorded as ended runs on.
LiveCallIsCounted == \A c \in Calls : child[c] = "alive" => Latest(c) = "running"

\* Concurrent brokers together never exceed what check_budget is meant to
\* leave them: stages that are not reserved stay within the unreserved part,
\* and the reserved stages within the budget.
BudgetBound ==
  \A r \in Roles :
    /\ Cardinality(ConsumedOther(r)) <= UnreservedBudget(r)
    /\ Cardinality(ConsumedReserved(r)) <= MaxCalls[r]

\* The first call with some evidence is tried again only after it failed or
\* was cancelled, by however many brokers at once.
OnlyFailedEvidenceIsRetried ==
  \A c, d \in Reserved :
    /\ call[c].role = call[d].role /\ call[c].evidence = call[d].evidence
    /\ c # d
    /\ \A e \in SameEvidence(call[c]) : position[c] <= position[e]
    => Latest(c) \in RetryableStates

\* A request is given at most --call-cap calls over all roles, those that
\* failed or were cancelled included.
RequestCapHolds ==
  \A c \in Calls :
    call[c].request # None =>
      Cardinality({d \in Reserved : call[d].request = call[c].request}) <= CallCap

\* "so reservations never remain indefinitely in the running state": a broker
\* that returned, by whatever interrupt and failure, left the final state of its
\* call on record, and a call on record as succeeded did end with exit code 0.
ReturnedCallIsSettled ==
  \A c \in Calls :
    /\ pc[c] = "done" => Latest(c) \in FinalStates
    /\ Latest(c) = "succeeded" => child[c] = "zero"

=============================================================================
