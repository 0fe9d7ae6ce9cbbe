-------------------------- MODULE HypothesisLedger --------------------------
(***************************************************************************)
(* The rejected-hypothesis ledger of scripts/hypothesis_ledger.py, composed *)
(* with the State IR it is synchronized with.  update-hypothesis-ledger.py  *)
(* (Updaters) writes the event log, the state file and the ledger, in this  *)
(* order, under the lock of the ledger; it does not take the lock of the    *)
(* state.  Only the processes of WorkflowState take that one.               *)
(***************************************************************************)
EXTENDS WorkflowState

CONSTANTS Updaters,   \* calls of update-hypothesis-ledger.py
          Requests,   \* their inputs: [op, event, statement, repository, confirmed]
          FirstHash,  \* the repository_state_hash of the initial state
          Proposals,  \* what check-revisited-hypothesis.py is asked about:
                      \* [statement, like, refs, repository, related]
          MaxRevisits \* bound: different revisits on record

ASSUME UpdatersAssumption == None \notin Updaters /\ MaxRevisits \in Nat
ASSUME RequestsAssumption ==
  /\ None \notin Requests
  /\ \A v \in Requests :
       /\ v.event \in Mutations
       /\ \/ v.op = "reject" /\ v.event.type = "hypothesis-rejected"
          \/ v.op = "reopen" /\ v.event.type = "hypothesis-reopened"

Hypotheses == {v.event.id : v \in Requests}

\* An item keeps the request it was made from; source is its rejected_state_id, fresh the
\* evidence it was reopened with.
Items == [status : {"rejected", "reopened"}, request : Requests, source : States,
          fresh : SUBSET UNION {v.event.refs : v \in Requests}]

ASSUME ItemsAssumption == None \notin Items

VARIABLES ledger,      \* REJECTED_HYPOTHESES.json: an item or None per hypothesis
          revisits,    \* its revisit_events, without their time
          ledgerLock,  \* who holds the flock on REJECTED_HYPOTHESES.json.lock
          at, work     \* where each updater is, and what it knows

ledgerVars == <<ledger, revisits, ledgerLock, at, work>>
allVars == <<vars, ledgerVars>>

NoWork == [request |-> None, seen |-> None, events |-> <<>>, changed |-> FALSE]

LedgerInit ==
  /\ Init
  /\ ledger = [h \in Hypotheses |-> None] /\ revisits = {}
  /\ ledgerLock = None
  /\ at = [u \in Updaters |-> "idle"]
  /\ work = [u \in Updaters |-> NoWork]

-----------------------------------------------------------------------------
(* What update-hypothesis-ledger.py asks of the state, the log, the ledger. *)

IsRejected(s, h) == Holds(s, "rejected_hypotheses", h)

\* State IR holds the hypothesis with exactly the payload of m.
RejectedAs(s, m) ==
  \E i \in 1 .. Len(s) :
    s[i] = m /\ StandsUnless(s, i, "hypothesis-reopened", m.id)

Carries(event, m) == Len(event.new) > 0 /\ event.new[Len(event.new)] = m

Rejects(event, h) ==
  \E m \in Mutations :
    m.type = "hypothesis-rejected" /\ m.id = h /\ Carries(event, m)

\* A variant: the state before the rejection.
RejectedStateIdBase(events, h, fallback) ==
  LET found == {i \in 1 .. Len(events) : Rejects(events[i], h)}
  IN IF found = {} THEN fallback
     ELSE events[CHOOSE i \in found : \A j \in found : j <= i].base

\* rejected_state_id: the newest event that rejected h, else the state read.
RejectedStateId(events, h, fallback) ==
  LET found == {i \in 1 .. Len(events) : Rejects(events[i], h)}
  IN IF found = {} THEN fallback
     ELSE events[CHOOSE i \in found : \A j \in found : j <= i].new

HasMatchingReopenEvent(events, m) ==
  \E i \in 1 .. Len(events) : Carries(events[i], m)

FreshEvidence(v) == v.event.refs \ ledger[v.event.id].request.event.refs

\* add_rejected_item raises unless the item is new and no rejected item has
\* its statement, or the item is there with the same metadata.
MayAddItem(v) ==
  IF ledger[v.event.id] # None
  THEN ledger[v.event.id].status = "rejected" /\ ledger[v.event.id].request = v
  ELSE \A h \in Hypotheses :
         ledger[h] # None /\ ledger[h].status = "rejected" =>
           ledger[h].request.statement # v.statement

\* The item can be reopened, or was reopened by the same request.
MayReopenItem(v, s, events) ==
  /\ ledger[v.event.id] # None
  /\ IF ledger[v.event.id].status = "rejected"
     THEN /\ IsRejected(s, v.event.id) \/ HasMatchingReopenEvent(events, v.event)
          /\ FreshEvidence(v) # {}
          /\ v.confirmed
     ELSE ledger[v.event.id].fresh = FreshEvidence(v)

\* The state, the end of its log and the request fit together.
MayUpdate(v, s, events) ==
  /\ Readable
  /\ Newest(events) = s
  /\ v.repository = Current(s, "repository-state-updated", FirstHash)
  /\ \A ref \in v.event.refs : Holds(s, "evidence_refs", ref)
  /\ IF v.op = "reject"
     THEN IsRejected(s, v.event.id) => RejectedAs(s, v.event)
     ELSE MayReopenItem(v, s, events)

\* A variant: a reopening is the ledger's business alone.
ChangesStateToReject(v, s) == v.op = "reject" /\ ~IsRejected(s, v.event.id)

\* Does the request change State IR, or only (again) the ledger?
ChangesState(v, s) == (v.op = "reject") # IsRejected(s, v.event.id)

-----------------------------------------------------------------------------
(* The steps of an updater.                                                 *)

Move(u, place) == at' = [at EXCEPT ![u] = place]

\* u ends and the kernel releases its flock on the ledger.
Quit(u) ==
  /\ Move(u, "idle")
  /\ work' = [work EXCEPT ![u] = NoWork]
  /\ ledgerLock' = None

StartUpdate(u) ==
  /\ at[u] = "idle"
  /\ ledgerLock = None
  /\ Len(log) <= MaxRevision
  /\ ledgerLock' = u
  /\ \E v \in Requests : work' = [work EXCEPT ![u].request = v]
  /\ Move(u, "loading")
  /\ UNCHANGED <<vars, ledger>>

LoadState(u) ==
  /\ at[u] = "loading"
  /\ IF state = None
     THEN Quit(u)
     ELSE /\ work' = [work EXCEPT ![u].seen = state]
          /\ Move(u, "deciding")
          /\ UNCHANGED ledgerLock
  /\ UNCHANGED <<vars, ledger>>

\* The log is read after the state; the ledger is stable under its lock.
Decide(u) ==
  /\ at[u] = "deciding"
  /\ IF MayUpdate(work[u].request, work[u].seen, log)
     THEN /\ work' = [work EXCEPT ![u].events = log]
          /\ IF ChangesState(work[u].request, work[u].seen)
             THEN Move(u, "appending")
             ELSE Move(u, "recording")
          /\ UNCHANGED ledgerLock
     ELSE Quit(u)
  /\ UNCHANGED <<vars, ledger>>

AppendEvent(u) ==
  /\ at[u] = "appending"
  /\ WriteEvents(work[u].seen, <<work[u].request.event>>)
  /\ work' = [work EXCEPT ![u].events =
                @ \o EventsOf(work[u].seen, <<work[u].request.event>>)]
  /\ Move(u, "replacing")
  /\ UNCHANGED <<state, receipt, lock, pc, job, reported, ledger, ledgerLock>>

AppendEventCutShort(u) ==
  /\ at[u] = "appending"
  /\ WritePart(work[u].seen, <<work[u].request.event>>)
  /\ Quit(u)
  /\ UNCHANGED <<state, receipt, lock, pc, job, reported, ledger>>

PersistState(u) ==
  /\ at[u] = "replacing"
  /\ state' = Append(work[u].seen, work[u].request.event)
  /\ work' = [work EXCEPT ![u].seen = Append(@, work[u].request.event),
                          ![u].changed = TRUE]
  /\ Move(u, "recording")
  /\ UNCHANGED <<log, end, receipt, lock, pc, job, reported, ledger, ledgerLock>>

\* add_rejected_item runs only now; what a reopening needs was checked before.
MayRecord(u) == work[u].request.op = "reject" => MayAddItem(work[u].request)

Rejected(v, source) ==
  [status |-> "rejected", request |-> v, source |-> source, fresh |-> {}]

RecordRejection(u) ==
  /\ at[u] = "recording"
  /\ work[u].request.op = "reject"
  /\ MayRecord(u)
  /\ LET v == work[u].request
         h == v.event.id
     IN ledger' = IF ledger[h] # None THEN ledger
                  ELSE [ledger EXCEPT ![h] =
                          Rejected(v, RejectedStateId(work[u].events, h, work[u].seen))]
  /\ Quit(u)
  /\ UNCHANGED vars

RecordReopening(u) ==
  /\ at[u] = "recording"
  /\ work[u].request.op = "reopen"
  /\ LET v == work[u].request
     IN ledger' = [ledger EXCEPT ![v.event.id].status = "reopened",
                                 ![v.event.id].fresh = FreshEvidence(v)]
  /\ Quit(u)
  /\ UNCHANGED vars

RecordRefused(u) ==
  /\ at[u] = "recording"
  /\ ~MayRecord(u)
  /\ Quit(u)
  /\ UNCHANGED <<vars, ledger>>

\* The process is killed between two of its steps, or a file operation fails.
UpdaterDies(u) ==
  /\ at[u] # "idle"
  /\ Quit(u)
  /\ UNCHANGED <<vars, ledger>>

UpdaterStep(u) ==
  \/ StartUpdate(u) \/ LoadState(u) \/ Decide(u)
  \/ AppendEvent(u) \/ AppendEventCutShort(u) \/ PersistState(u)
  \/ RecordRejection(u) \/ RecordReopening(u) \/ RecordRefused(u)
  \/ UpdaterDies(u)

-----------------------------------------------------------------------------
(* check-revisited-hypothesis.py: is a proposal one that was rejected?  It   *)
(* looks at the ledger alone, and reads and writes it under one lock.        *)

Active == {h \in Hypotheses : ledger[h] # None /\ ledger[h].status = "rejected"}

MatchType(p, h) ==
  CASE h \in p.related -> "explicit"
    [] h \notin p.related /\ ledger[h].request.statement = p.statement -> "exact"
    [] h \notin p.related /\ ledger[h].request.statement \in p.like -> "similar"
    [] OTHER -> "none"

Matched(p) == {h \in Active : MatchType(p, h) # "none"}

Outcome(p) ==
  LET news == \E h \in Matched(p) : p.refs \ ledger[h].request.event.refs # {}
      moved == \E h \in Matched(p) : p.repository # ledger[h].request.repository
  IN IF \A h \in Matched(p) : MatchType(p, h) = "similar" THEN "possible-repeat"
     ELSE IF news \/ moved THEN "reopen-required"
     ELSE "rejected-repeat"

RevisitOf(p) ==
  [proposal |-> p, outcome |-> Outcome(p),
   matched |-> {<<h, MatchType(p, h)>> : h \in Matched(p)}]

\* A proposal that matches nothing is novel and leaves no trace.
CheckRevisited(p) ==
  /\ ledgerLock = None
  /\ \A h \in p.related : ledger[h] # None
  /\ Matched(p) # {}
  /\ revisits' = revisits \cup {RevisitOf(p)} /\ Cardinality(revisits') <= MaxRevisits
  /\ UNCHANGED <<vars, ledger, ledgerLock, at, work>>

LedgerNext ==
  \/ Next /\ UNCHANGED ledgerVars
  \/ \E u \in Updaters : UpdaterStep(u) /\ UNCHANGED revisits
  \/ \E p \in Proposals : CheckRevisited(p)

LedgerSpec == LedgerInit /\ [][LedgerNext]_allVars

-----------------------------------------------------------------------------
(* Properties.                                                              *)

\* Hypotheses are rejected and reopened by the updater alone, and not by the deltas of
\* apply-workflow-delta.py, although these may hold such operations.
DeltasLeaveHypotheses ==
  \A batch \in Batches : \A i \in 1 .. Len(batch) :
    batch[i].type \notin {"hypothesis-rejected", "hypothesis-reopened"}

\* Every item of the ledger can be followed back: its rejected_state_id is a
\* state of the log, reached by the very rejection the item describes, and an
\* item that is reopened has a later reopening in the log
\* (update-hypothesis-ledger.py:113-150); and a revisit that stopped a proposal
\* names only hypotheses the log rejects somewhere.  So it is although a writer
\* beside the updater may fork the log, if DeltasLeaveHypotheses.
LedgerIsTraced ==
  /\ \A h \in Hypotheses :
       ledger[h] # None =>
         \E i \in 1 .. Len(log) :
           /\ log[i].new = ledger[h].source
           /\ Carries(log[i], ledger[h].request.event)
           /\ ledger[h].status = "reopened" =>
                \E j \in i + 1 .. Len(log), v \in Requests :
                  v.op = "reopen" /\ v.event.id = h /\ Carries(log[j], v.event)
  /\ \A r \in revisits : \A m \in r.matched :
       \E i \in 1 .. Len(log) : Rejects(log[i], m[1])

\* "Rejecting or reopening a hypothesis synchronizes the ledger with State IR
\* and its semantic event log" (assets/README.md:422-423): when a call ends
\* with success, the newest state of the log and the ledger agree on its
\* hypothesis, whatever was interrupted before, unless a writer, whom the lock of
\* the ledger does not stop, has written beside the call.
SuccessSynchronizes ==
  [][\A u \in Updaters :
       (RecordRejection(u) \/ RecordReopening(u)) /\ Newest(log) = work[u].seen =>
         LET h == work[u].request.event.id
         IN IsRejected(Newest(log'), h) <=> ledger'[h].status = "rejected"]_allVars
=============================================================================
