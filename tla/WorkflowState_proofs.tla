------------------------ MODULE WorkflowState_proofs ------------------------
(***************************************************************************)
(* Safety of the Workflow State IR for every number of writers and         *)
(* recoverers, every set of mutations and every way they are interrupted.  *)
(*                                                                         *)
(* Everything rests on one strengthening: the log replays and counts the   *)
(* revisions, and what the process in the lock has read is still true.     *)
(* With updaters of the hypothesis ledger beside them, which write the same *)
(* files under another lock, none of that holds any more; the second half  *)
(* shows what is left of it, and that the ledger can still be traced.      *)
(***************************************************************************)
EXTENDS HypothesisLedger, SequenceTheorems, WellFoundedInduction, TLAPS

\* A concatenation, element by element.
LEMMA Concatenation ==
  ASSUME NEW S, NEW s \in Seq(S), NEW t \in Seq(S)
  PROVE  /\ s \o t \in Seq(S)
         /\ Len(s \o t) = Len(s) + Len(t)
         /\ \A i \in 1 .. Len(s) : (s \o t)[i] = s[i]
         /\ \A i \in 1 .. Len(t) : (s \o t)[Len(s) + i] = t[i]
<1>1. Len(s) \in Nat /\ Len(t) \in Nat
  OBVIOUS
<1>2. ASSUME NEW i \in 1 .. Len(s) PROVE (s \o t)[i] = s[i]
  BY <1>1
<1>3. ASSUME NEW i \in 1 .. Len(t) PROVE (s \o t)[Len(s) + i] = t[i]
  BY <1>1
<1> QED BY <1>2, <1>3

(* The states a batch passes through, and the events it writes.            *)

\* A batch leads from s to s followed by the batch, one mutation at a time.
LEMMA Stages ==
  ASSUME NEW s \in States, NEW batch \in States
  PROVE  /\ After(s, batch, 0) = s
         /\ After(s, batch, Len(batch)) = s \o batch
         /\ \A i \in 0 .. Len(batch) :
              After(s, batch, i) \in States /\ Len(After(s, batch, i)) = Len(s) + i
         /\ \A i \in 1 .. Len(batch) :
              After(s, batch, i) = Append(After(s, batch, i - 1), batch[i])
<1>1. Len(batch) \in Nat /\ Len(s) \in Nat
  BY DEF States
<1>2. ASSUME NEW i \in 0 .. Len(batch)
      PROVE  /\ SubSeq(batch, 1, i) \in Seq(Mutations) /\ Len(SubSeq(batch, 1, i)) = i
             /\ \A j \in 1 .. i : SubSeq(batch, 1, i)[j] = batch[j]
  BY <1>1 DEF States
<1>3. ASSUME NEW i \in 0 .. Len(batch)
      PROVE  After(s, batch, i) \in States /\ Len(After(s, batch, i)) = Len(s) + i
  <2> DEFINE x == SubSeq(batch, 1, i)
  <2>1. s \in Seq(Mutations) /\ x \in Seq(Mutations) /\ Len(x) = i
    BY <1>2 DEF States
  <2> HIDE DEF x
  <2>2. s \o x \in Seq(Mutations) /\ Len(s \o x) = Len(s) + i
    BY <1>1, <2>1, ConcatProperties
  <2> QED BY <2>2 DEF After, States, x
<1>4. After(s, batch, 0) = s
  <2>1. SubSeq(batch, 1, 0) = <<>>
    BY <1>1, <1>2
  <2> QED BY <2>1, ConcatEmptySeq DEF After, States
<1>5. After(s, batch, Len(batch)) = s \o batch
  <2>1. SubSeq(batch, 1, Len(batch)) = batch
    BY <1>1, <1>2, SeqEqual DEF States
  <2> QED BY <2>1 DEF After
<1>6. ASSUME NEW i \in 1 .. Len(batch)
      PROVE  After(s, batch, i) = Append(After(s, batch, i - 1), batch[i])
  <2> DEFINE x == SubSeq(batch, 1, i - 1)
  <2>1. x \in Seq(Mutations) /\ Len(x) = i - 1 /\ batch[i] \in Mutations
    BY <1>1, <1>2 DEF States
  <2>2. SubSeq(batch, 1, i) = Append(x, batch[i])
    <3>1. /\ Append(x, batch[i]) \in Seq(Mutations) /\ Len(Append(x, batch[i])) = i
          /\ \A j \in 1 .. i : Append(x, batch[i])[j] = batch[j]
      BY <1>1, <1>2, <2>1
    <3> QED BY <1>2, <3>1, SeqEqual
  <2>3. s \o Append(x, batch[i]) = Append(s \o x, batch[i])
    <3> HIDE DEF x
    <3>1. s \in Seq(Mutations)
      BY DEF States
    <3> QED BY <2>1, <3>1
  <2> QED BY <2>2, <2>3 DEF After
<1> QED BY <1>3, <1>4, <1>5, <1>6

\* The initial state is revision 0 and every event adds one revision.
Revisions(l) == \A i \in 1 .. Len(l) : Len(l[i].new) = i - 1

\* What the first k events of a batch add to a log, legal or not.
LEMMA Appended ==
  ASSUME NEW l \in Seq(Events), NEW s \in States, NEW batch \in States,
         NEW k \in 0 .. Len(batch)
  PROVE  LET longer == l \o SubSeq(EventsOf(s, batch), 1, k)
         IN /\ longer \in Seq(Events)
            /\ Len(longer) = Len(l) + k
            /\ \A i \in 1 .. Len(l) : longer[i] = l[i]
            /\ \A i \in 1 .. k : /\ longer[Len(l) + i].base = After(s, batch, i - 1)
                                 /\ longer[Len(l) + i].new = After(s, batch, i)
<1> DEFINE written == EventsOf(s, batch)
           more == SubSeq(written, 1, k)
           longer == l \o more
<1>1. /\ Len(batch) \in Nat /\ Len(s) \in Nat /\ Len(l) \in Nat
      /\ \A i \in 1 .. Len(batch) : batch[i] \in Mutations
  BY DEF States
<1>2. /\ written \in Seq(Events) /\ Len(written) = Len(batch)
      /\ \A i \in 1 .. Len(batch) : /\ written[i].base = After(s, batch, i - 1)
                                    /\ written[i].new = After(s, batch, i)
  <2>1. ASSUME NEW i \in 1 .. Len(batch)
        PROVE  [base |-> After(s, batch, i - 1), new |-> After(s, batch, i)] \in Events
    <3>1. i - 1 \in 0 .. Len(batch) /\ i \in 0 .. Len(batch)
      BY <1>1
    <3> QED BY <3>1, Stages DEF Events
  <2> QED BY <1>1, <2>1 DEF EventsOf
<1>3. /\ more \in Seq(Events) /\ Len(more) = k
      /\ \A i \in 1 .. k : more[i] = written[i]
  <2> HIDE DEF written
  <2> QED BY <1>1, <1>2
<1>4. /\ longer \in Seq(Events) /\ Len(longer) = Len(l) + k
      /\ \A i \in 1 .. Len(l) : longer[i] = l[i]
      /\ \A i \in 1 .. k : longer[Len(l) + i] = more[i]
  <2> HIDE DEF more, written
  <2>1. more \in Seq(Events) /\ Len(more) = k
    BY <1>3
  <2>2. l \o more \in Seq(Events) /\ Len(l \o more) = Len(l) + Len(more)
    BY <2>1, Concatenation
  <2>3. \A i \in 1 .. Len(l) : (l \o more)[i] = l[i]
    BY <2>1, Concatenation
  <2>4. \A i \in 1 .. Len(more) : (l \o more)[Len(l) + i] = more[i]
    BY <2>1, Concatenation
  <2> QED BY <2>1, <2>2, <2>3, <2>4
<1> HIDE DEF more, written, longer
<1>5. \A i \in 1 .. k : /\ longer[Len(l) + i].base = After(s, batch, i - 1)
                        /\ longer[Len(l) + i].new = After(s, batch, i)
  <2> SUFFICES ASSUME NEW i \in 1 .. k
               PROVE  /\ longer[Len(l) + i].base = After(s, batch, i - 1)
                      /\ longer[Len(l) + i].new = After(s, batch, i)
    OBVIOUS
  <2>1. i \in 1 .. Len(batch) /\ longer[Len(l) + i] = written[i]
    BY <1>1, <1>3, <1>4
  <2> QED BY <1>2, <2>1
<1> QED BY <1>4, <1>5 DEF longer, more, written

\* The first k events of a legal batch continue the log of the state it is for.
LEMMA Extension ==
  ASSUME NEW l \in Seq(Events), Replays(l), Revisions(l),
         NEW s \in States, NEW batch \in States,
         Newest(l) = s, AllApplicable(s, batch), NEW k \in 0 .. Len(batch)
  PROVE  LET longer == l \o SubSeq(EventsOf(s, batch), 1, k)
         IN /\ longer \in Seq(Events)
            /\ Replays(longer)
            /\ Revisions(longer)
            /\ Len(longer) = Len(l) + k
            /\ \A i \in 1 .. Len(l) : longer[i] = l[i]
            /\ Newest(longer) = After(s, batch, k)
<1> DEFINE written == EventsOf(s, batch)
           more == SubSeq(written, 1, k)
           longer == l \o more
<1>1. /\ Len(batch) \in Nat /\ Len(s) \in Nat /\ Len(l) \in Nat /\ Len(l) > 0
      /\ \A i \in 1 .. Len(batch) : batch[i] \in Mutations
  BY DEF States, Replays
<1>4. /\ longer \in Seq(Events) /\ Len(longer) = Len(l) + k
      /\ \A i \in 1 .. Len(l) : longer[i] = l[i]
  BY Appended
<1>5. \A i \in 1 .. k : /\ longer[Len(l) + i].base = After(s, batch, i - 1)
                        /\ longer[Len(l) + i].new = After(s, batch, i)
  BY Appended
<1> HIDE DEF more, written, longer
<1>6. l[Len(l)].new = s /\ Len(s) = Len(l) - 1
  <2>1. Len(l) \in 1 .. Len(l)
    BY <1>1
  <2>2. Len(l[Len(l)].new) = Len(l) - 1
    BY <2>1 DEF Revisions
  <2> QED BY <2>2 DEF Newest
<1>7. Newest(longer) = After(s, batch, k)
  <2>1. CASE k = 0
    BY <1>1, <1>4, <1>6, <2>1, Stages DEF Newest
  <2>2. CASE k > 0
    BY <1>1, <1>4, <1>5, <2>2 DEF Newest
  <2> QED BY <1>1, <2>1, <2>2
<1>8. Revisions(longer)
  <2> SUFFICES ASSUME NEW i \in 1 .. Len(longer) PROVE Len(longer[i].new) = i - 1
    BY DEF Revisions
  <2>1. CASE i <= Len(l)
    <3>1. i \in 1 .. Len(l) /\ longer[i] = l[i]
      BY <1>1, <1>4, <2>1
    <3> QED BY <3>1 DEF Revisions
  <2>2. CASE i > Len(l)
    <3> DEFINE j == i - Len(l)
    <3>1. j \in 1 .. k /\ j \in 0 .. Len(batch) /\ Len(l) + j = i /\ Len(s) + j = i - 1
      BY <1>1, <1>4, <1>6, <2>2
    <3> HIDE DEF j
    <3>2. longer[i].new = After(s, batch, j)
      BY <1>5, <3>1
    <3>3. Len(After(s, batch, j)) = Len(s) + j
      BY <3>1, Stages
    <3> QED BY <3>1, <3>2, <3>3
  <2> QED BY <1>1, <1>4, <2>1, <2>2
<1>9. Replays(longer)
  <2>1. Len(longer) > 0 /\ longer[1] = [base |-> None, new |-> <<>>]
    BY <1>1, <1>4 DEF Replays
  <2>2. ASSUME NEW i \in 2 .. Len(longer)
        PROVE  /\ longer[i].base = longer[i - 1].new
               /\ \E m \in Mutations : /\ Applicable(longer[i].base, m)
                                       /\ longer[i].new = Append(longer[i].base, m)
    <3>1. CASE i <= Len(l)
      <4>1. /\ i \in 2 .. Len(l) /\ i \in 1 .. Len(l) /\ i - 1 \in 1 .. Len(l)
            /\ longer[i] = l[i] /\ longer[i - 1] = l[i - 1]
        BY <1>1, <1>4, <3>1
      <4> QED BY <4>1 DEF Replays
    <3>2. CASE i > Len(l)
      <4> DEFINE j == i - Len(l)
      <4>1. j \in 1 .. k /\ j \in 1 .. Len(batch) /\ Len(l) + j = i
        BY <1>1, <1>4, <3>2
      <4>2. /\ longer[i].base = After(s, batch, j - 1)
            /\ longer[i].new = After(s, batch, j)
        BY <1>5, <4>1
      <4> HIDE DEF j
      <4>3. longer[i - 1].new = After(s, batch, j - 1)
        <5>1. CASE j = 1
          <6>1. i - 1 = Len(l) /\ Len(l) \in 1 .. Len(l)
            BY <1>1, <4>1, <5>1
          <6>2. longer[i - 1] = l[Len(l)] /\ j - 1 = 0
            BY <1>4, <5>1, <6>1
          <6> QED BY <1>6, <6>2, Stages
        <5>2. CASE j > 1
          <6>1. j - 1 \in 1 .. k /\ Len(l) + (j - 1) = i - 1
            BY <1>1, <4>1, <5>2
          <6> QED BY <1>5, <6>1
        <5> QED BY <4>1, <5>1, <5>2
      <4>4. /\ batch[j] \in Mutations
            /\ Applicable(After(s, batch, j - 1), batch[j])
            /\ After(s, batch, j) = Append(After(s, batch, j - 1), batch[j])
        BY <1>1, <4>1, Stages DEF AllApplicable
      <4> QED BY <4>2, <4>3, <4>4
    <3> QED BY <1>1, <3>1, <3>2
  <2> QED BY <2>1, <2>2 DEF Replays
<1> QED BY <1>4, <1>7, <1>8, <1>9 DEF longer, more, written

-----------------------------------------------------------------------------
(* The inductive invariant.                                                *)

InTheLock == {"reading", "checking", "appending", "replacing", "reporting",
              "replaying", "assessing", "recovering", "receipting"}

Logged(l, b, n) == \E i, j \in 1 .. Len(l) : i < j /\ l[i].new = b /\ l[j].new = n

Result(p) == job[p].seen \o job[p].batch

\* What p has at its place, whoever else writes.
Placed(p) ==
  /\ pc[p] \in InTheLock => lock = p
  /\ pc[p] \in {"drafted", "reading", "checking", "appending", "replacing", "reporting"} =>
       job[p].batch \in States \ {<<>>}
  /\ pc[p] \in {"appending", "replacing", "reporting"} =>
       job[p].seen \in States /\ job[p].base = job[p].seen
  /\ pc[p] \in {"assessing", "recovering", "receipting"} => Len(job[p].chain) > 0

\* What p knows at its place, and nobody else can make untrue.
Knows(p) ==
  /\ pc[p] \in InTheLock => lock = p
  /\ pc[p] \in {"drafted", "reading", "checking", "appending", "replacing", "reporting"} =>
       job[p].batch \in States \ {<<>>}
  /\ pc[p] \in {"appending", "replacing", "reporting"} =>
       job[p].seen \in States /\ job[p].base = job[p].seen
  /\ pc[p] \in {"checking", "appending"} => job[p].seen = state
  /\ pc[p] = "appending" =>
       Newest(log) = job[p].seen /\ AllApplicable(job[p].seen, job[p].batch)
  /\ pc[p] \in {"replacing", "reporting"} =>
       /\ Newest(log) = Result(p)
       /\ Logged(log, job[p].seen, Result(p))
       /\ \A t \in reported : t.base # job[p].seen
  /\ pc[p] \in {"assessing", "recovering", "receipting"} => job[p].chain = log
  /\ pc[p] \in {"recovering", "receipting"} => Recoverable(log, job[p].seen)

Reported == \A t \in reported : Logged(log, t.base, t.new)

IInv ==
  /\ TypeOK
  /\ Replays(log)
  /\ Revisions(log)
  /\ StateIsTraced
  /\ Reported
  /\ OneDeltaPerBase
  /\ ReceiptIsTrue
  /\ \A p \in Procs : Knows(p)

(* A step of a process, and the kinds of steps there are.                  *)

Step(p) ==
  \/ p \in Writers /\ WriterStep(p)
  \/ p \in Recoverers /\ RecovererStep(p)
  \/ Die(p)

Quiet == UNCHANGED <<state, log, reported>>

Writes(p) ==
  /\ pc[p] = "appending"
  /\ \E k \in 0 .. Len(job[p].batch) :
       log' = log \o SubSeq(EventsOf(job[p].seen, job[p].batch), 1, k)
  /\ UNCHANGED <<state, reported>>

Publishes(p) ==
  /\ \/ pc[p] = "replacing" /\ state' = Result(p)
     \/ pc[p] = "recovering" /\ state' = Newest(job[p].chain)
  /\ UNCHANGED <<log, reported>>

Reports(p) ==
  /\ pc[p] = "reporting"
  /\ reported' = reported \cup {[base |-> job[p].base, new |-> Result(p)]}
  /\ UNCHANGED <<state, log>>

\* p changes only its own place and work, and takes nobody's lock.
Alone(p) ==
  \A q \in Procs \ {p} :
    pc'[q] = pc[q] /\ job'[q] = job[q] /\ (lock = q => lock' = q)

\* All the events of a batch are its first Len(batch) events.
LEMMA WholeBatch ==
  ASSUME NEW s \in States, NEW batch \in States
  PROVE  SubSeq(EventsOf(s, batch), 1, Len(batch)) = EventsOf(s, batch)
<1>1. Len(batch) \in Nat
  BY DEF States
<1> DEFINE F(i) == [base |-> After(s, batch, i - 1), new |-> After(s, batch, i)]
           written == [i \in 1 .. Len(batch) |-> F(i)]
<1>2. written \in Seq({F(i) : i \in 1 .. Len(batch)}) /\ Len(written) = Len(batch)
  BY <1>1
<1>3. SubSeq(written, 1, Len(written)) = written
  <2> HIDE DEF written, F
  <2> QED BY <1>2
<1> QED BY <1>2, <1>3 DEF EventsOf

\* Every step is of one of four kinds.
LEMMA Kinds ==
  ASSUME IInv, NEW p \in Procs, Step(p)
  PROVE  Quiet \/ Writes(p) \/ Publishes(p) \/ Reports(p)
<1>1. CASE AppendEvents(p)
  <2>1. job[p].seen \in States /\ job[p].batch \in States
    BY <1>1 DEF AppendEvents, IInv, Knows
  <2>2. Len(job[p].batch) \in 0 .. Len(job[p].batch)
    BY <2>1 DEF States
  <2>3. log' = log \o SubSeq(EventsOf(job[p].seen, job[p].batch), 1, Len(job[p].batch))
    BY <1>1, <2>1, WholeBatch DEF AppendEvents, WriteEvents
  <2> QED BY <1>1, <2>2, <2>3 DEF AppendEvents, Writes
<1>2. CASE AppendCutShort(p)
  BY <1>2 DEF AppendCutShort, WritePart, Writes
<1>3. CASE ReplaceState(p)
  BY <1>3 DEF ReplaceState, Publishes, Result
<1>4. CASE RecoverState(p)
  BY <1>4 DEF RecoverState, Publishes
<1>5. CASE Report(p)
  BY <1>5 DEF Report, Reports, Result
<1>6. CASE \/ Draft(p) \/ StartApply(p) \/ ReadState(p) \/ CheckDelta(p)
           \/ StartRecovery(p) \/ ReadChain(p) \/ Assess(p) \/ WriteReceipt(p) \/ Die(p)
  BY <1>6 DEF Draft, StartApply, ReadState, CheckDelta, StartRecovery, ReadChain, Assess,
              WriteReceipt, Die, Acquire, Quiet
<1> QED BY <1>1, <1>2, <1>3, <1>4, <1>5, <1>6 DEF Step, WriterStep, RecovererStep

\* No step touches another process.
LEMMA StepsAreTheirOwn ==
  ASSUME TypeOK, NEW p \in Procs, Step(p)
  PROVE  Alone(p)
<1> SUFFICES ASSUME NEW q \in Procs \ {p}
             PROVE  pc'[q] = pc[q] /\ job'[q] = job[q] /\ (lock = q => lock' = q)
  BY DEF Alone
<1> USE DEF TypeOK, Leave, Goto
<1>1. CASE Draft(p) \/ StartApply(p) \/ ReadState(p) \/ CheckDelta(p)
  BY <1>1, ProcsAssumption DEF Draft, StartApply, ReadState, CheckDelta, Acquire
<1>2. CASE AppendEvents(p) \/ AppendCutShort(p) \/ ReplaceState(p) \/ Report(p)
  BY <1>2 DEF AppendEvents, AppendCutShort, ReplaceState, Report
<1>3. CASE StartRecovery(p) \/ ReadChain(p) \/ Assess(p)
  BY <1>3, ProcsAssumption DEF StartRecovery, ReadChain, Assess, Acquire
<1>4. CASE RecoverState(p) \/ WriteReceipt(p) \/ Die(p)
  BY <1>4 DEF RecoverState, WriteReceipt, Die
<1> QED BY <1>1, <1>2, <1>3, <1>4 DEF Step, WriterStep, RecovererStep

\* What a write makes of the log.
LEMMA Growth ==
  ASSUME IInv, NEW p \in Procs, Writes(p)
  PROVE  /\ lock = p
         /\ log' \in Seq(Events) /\ Replays(log') /\ Revisions(log')
         /\ \A i \in 1 .. Len(log) : i \in 1 .. Len(log') /\ log'[i] = log[i]
         /\ \E k \in 0 .. Len(job[p].batch) :
              Newest(log') = job[p].seen \o SubSeq(job[p].batch, 1, k)
<1>1. /\ lock = p /\ log \in Seq(Events) /\ Replays(log) /\ Revisions(log)
      /\ job[p].seen \in States /\ job[p].batch \in States
      /\ Newest(log) = job[p].seen /\ AllApplicable(job[p].seen, job[p].batch)
  BY DEF IInv, TypeOK, Knows, Writes, InTheLock
<1>2. PICK k \in 0 .. Len(job[p].batch) :
        log' = log \o SubSeq(EventsOf(job[p].seen, job[p].batch), 1, k)
  BY DEF Writes
<1>3. /\ log' \in Seq(Events) /\ Replays(log') /\ Revisions(log')
      /\ Len(log') = Len(log) + k /\ \A i \in 1 .. Len(log) : log'[i] = log[i]
      /\ Newest(log') = After(job[p].seen, job[p].batch, k)
  BY <1>1, <1>2, Extension
<1>4. \A i \in 1 .. Len(log) : i \in 1 .. Len(log')
  <2>1. Len(log) \in Nat /\ k \in Nat
    BY <1>1
  <2> QED BY <1>3, <2>1
<1> QED BY <1>1, <1>3, <1>4 DEF After

-----------------------------------------------------------------------------
(* Each part of the invariant is preserved.                                *)

\* An event that is logged stays logged.
LEMMA LoggedStays ==
  ASSUME IInv, NEW p \in Procs, Writes(p), NEW b, NEW n, Logged(log, b, n)
  PROVE  Logged(log', b, n)
<1>1. PICK i \in 1 .. Len(log), j \in 1 .. Len(log) :
        i < j /\ log[i].new = b /\ log[j].new = n
  BY DEF Logged
<1>2. /\ i \in 1 .. Len(log') /\ j \in 1 .. Len(log')
      /\ log'[i] = log[i] /\ log'[j] = log[j]
  BY Growth
<1> QED BY <1>1, <1>2 DEF Logged

\* The log and the state file.
LEMMA LogStep ==
  ASSUME IInv, NEW p \in Procs, Step(p)
  PROVE  Replays(log') /\ Revisions(log') /\ StateIsTraced'
<1>1. Replays(log) /\ Revisions(log) /\ StateIsTraced /\ Len(log) \in 1 .. Len(log)
  BY DEF IInv, TypeOK, Replays
<1>2. CASE Quiet
  BY <1>1, <1>2 DEF Quiet, StateIsTraced
<1>3. CASE Reports(p)
  BY <1>1, <1>3 DEF Reports, StateIsTraced
<1>4. CASE Writes(p)
  <2>1. Replays(log') /\ Revisions(log')
    BY <1>4, Growth
  <2>2. StateIsTraced'
    <3>1. state' = state /\ \A i \in 1 .. Len(log) : i \in 1 .. Len(log') /\ log'[i] = log[i]
      BY <1>4, Growth DEF Writes
    <3> QED BY <1>1, <3>1 DEF StateIsTraced
  <2> QED BY <2>1, <2>2
<1>5. CASE Publishes(p)
  <2>1. log' = log /\ state' = Newest(log)
    BY <1>5 DEF Publishes, IInv, Knows
  <2> QED BY <1>1, <2>1 DEF StateIsTraced, Newest
<1> QED BY <1>2, <1>3, <1>4, <1>5, Kinds

\* What was reported.
LEMMA ReportedStep ==
  ASSUME IInv, NEW p \in Procs, Step(p)
  PROVE  Reported'
<1>1. Reported
  BY DEF IInv
<1>2. CASE Quiet
  BY <1>1, <1>2 DEF Quiet, Reported
<1>3. CASE Publishes(p)
  BY <1>1, <1>3 DEF Publishes, Reported
<1>4. CASE Writes(p)
  <2>1. reported' = reported
    BY <1>4 DEF Writes
  <2> QED BY <1>1, <1>4, <2>1, LoggedStays DEF Reported
<1>5. CASE Reports(p)
  <2>1. /\ log' = log /\ Logged(log, job[p].base, Result(p))
        /\ reported' = reported \cup {[base |-> job[p].base, new |-> Result(p)]}
    BY <1>5 DEF Reports, IInv, Knows
  <2> QED BY <1>1, <2>1 DEF Reported
<1> QED BY <1>2, <1>3, <1>4, <1>5, Kinds

\* A base that was reported once is not reported again.
LEMMA ExclusionStep ==
  ASSUME IInv, NEW p \in Procs, Step(p)
  PROVE  OneDeltaPerBase'
<1>1. OneDeltaPerBase
  BY DEF IInv
<1>2. CASE reported' = reported
  BY <1>1, <1>2 DEF OneDeltaPerBase
<1>3. CASE Reports(p)
  <2> DEFINE r == [base |-> job[p].base, new |-> Result(p)]
  <2>1. \A t \in reported : t.base # r.base
    BY <1>3 DEF Reports, IInv, Knows
  <2>2. reported' = reported \cup {r}
    BY <1>3 DEF Reports
  <2> HIDE DEF r
  <2> QED BY <1>1, <2>1, <2>2 DEF OneDeltaPerBase
<1> QED BY <1>2, <1>3, Kinds DEF Quiet, Writes, Publishes

\* The receipt is written by a recoverer whose report still describes the log.
LEMMA ReceiptStep ==
  ASSUME IInv, NEW p \in Procs, Step(p)
  PROVE  ReceiptIsTrue'
<1>1. ReceiptIsTrue
  BY DEF IInv
<1>2. CASE WriteReceipt(p)
  <2>1. /\ job[p].chain = log /\ Recoverable(log, job[p].seen)
        /\ receipt' = [before |-> job[p].seen, after |-> Newest(job[p].chain),
                       count |-> Len(job[p].chain), hashed |-> log]
    BY <1>2 DEF WriteReceipt, IInv, Knows
  <2> QED BY <2>1 DEF ReceiptIsTrue
<1>3. CASE receipt' = receipt
  BY <1>1, <1>3 DEF ReceiptIsTrue
<1>4. WriteReceipt(p) \/ receipt' = receipt
  BY DEF Step, WriterStep, RecovererStep, Draft, StartApply, ReadState, CheckDelta,
         AppendEvents, AppendCutShort, ReplaceState, Report, StartRecovery, ReadChain, Assess,
         RecoverState, Die, Acquire
<1> QED BY <1>2, <1>3, <1>4

\* What the other processes know stays true: whoever changes the log, the state
\* or the reports is in the lock, so they are not.
LEMMA OthersKnow ==
  ASSUME IInv, NEW p \in Procs, Step(p), NEW q \in Procs, q # p
  PROVE  Knows(q)'
<1>1. Knows(q) /\ pc'[q] = pc[q] /\ job'[q] = job[q] /\ (lock = q => lock' = q)
  BY StepsAreTheirOwn DEF IInv, Alone
<1>2. CASE Quiet
  BY <1>1, <1>2 DEF Quiet, Knows, Result
<1>3. CASE lock = p
  <2>1. pc'[q] \notin InTheLock
    BY <1>1, <1>3 DEF Knows
  <2> QED BY <1>1, <2>1 DEF Knows, InTheLock
<1>4. CASE Writes(p)
  BY <1>3, <1>4, Growth
<1>5. CASE Reports(p) \/ Publishes(p)
  <2>1. lock = p
    BY <1>5 DEF Reports, Publishes, IInv, Knows, InTheLock
  <2> QED BY <1>3, <2>1
<1> QED BY <1>2, <1>4, <1>5, Kinds

\* After the whole batch is written, the log ends in its result, which is
\* logged, and no reported transition starts where this one does.
LEMMA BatchWritten ==
  ASSUME IInv, NEW p \in Procs, AppendEvents(p)
  PROVE  /\ Newest(log') = Result(p)
         /\ Logged(log', job[p].seen, Result(p))
         /\ \A t \in reported : t.base # job[p].seen
<1> DEFINE s == job[p].seen
           batch == job[p].batch
<1>1. /\ log \in Seq(Events) /\ Replays(log) /\ Revisions(log)
      /\ s \in States /\ batch \in States /\ batch # <<>>
      /\ Newest(log) = s /\ AllApplicable(s, batch)
  BY DEF AppendEvents, IInv, TypeOK, Knows
<1>2. Len(batch) \in Nat /\ Len(batch) > 0 /\ Len(log) \in Nat /\ Len(log) > 0
  BY <1>1 DEF States, Replays
<1>3. log' = log \o SubSeq(EventsOf(s, batch), 1, Len(batch))
  BY <1>1, WholeBatch DEF AppendEvents, WriteEvents
<1>4. /\ Len(log') = Len(log) + Len(batch) /\ \A i \in 1 .. Len(log) : log'[i] = log[i]
      /\ Newest(log') = After(s, batch, Len(batch))
  <2> HIDE DEF s, batch
  <2>1. Len(batch) \in 0 .. Len(batch)
    BY <1>2
  <2> QED BY <1>1, <1>3, <2>1, Extension
<1>5. Newest(log') = Result(p)
  BY <1>1, <1>4, Stages DEF Result
<1>6. Logged(log', s, Result(p))
  <2>1. /\ Len(log) \in 1 .. Len(log) /\ Len(log) \in 1 .. Len(log')
        /\ Len(log') \in 1 .. Len(log') /\ Len(log) < Len(log')
    BY <1>2, <1>4
  <2>2. log'[Len(log)].new = s
    BY <1>1, <1>4, <2>1 DEF Newest
  <2> QED BY <1>5, <2>1, <2>2 DEF Logged, Newest
<1>7. ASSUME NEW t \in reported, t.base = s PROVE FALSE
  <2>1. PICK i \in 1 .. Len(log), j \in 1 .. Len(log) : i < j /\ log[i].new = s
    BY <1>7 DEF IInv, Reported, Logged
  <2>2. Len(log[i].new) = i - 1 /\ Len(log[Len(log)].new) = Len(log) - 1
    BY <1>1, <1>2 DEF Revisions
  <2>3. i - 1 = Len(log) - 1
    BY <1>1, <2>1, <2>2 DEF Newest
  <2> QED BY <1>2, <2>1, <2>3
<1> QED BY <1>5, <1>6, <1>7

\* A log that replays ends in a state.
LEMMA NewestIsState ==
  ASSUME NEW l \in Seq(Events), Len(l) > 0
  PROVE  Newest(l) \in States
<1>1. Len(l) \in 1 .. Len(l)
  OBVIOUS
<1>2. l[Len(l)] \in Events
  BY <1>1
<1> QED BY <1>2 DEF Newest, Events

Jobs == [base : States \cup {None}, batch : States,
         seen : States \cup {None}, chain : Seq(Events)]

\* One field of a process's work is set.
LEMMA SetsField ==
  ASSUME NEW j \in [Procs -> Jobs], NEW p \in Procs,
         NEW s \in States \cup {None}, NEW b \in States, NEW c \in Seq(Events)
  PROVE  /\ [j EXCEPT ![p].seen = s] \in [Procs -> Jobs]
         /\ [j EXCEPT ![p].chain = c] \in [Procs -> Jobs]
         /\ [j EXCEPT ![p].base = s, ![p].batch = b] \in [Procs -> Jobs]
<1>1. j[p] \in Jobs
  OBVIOUS
<1>2. /\ [j[p] EXCEPT !.seen = s] \in Jobs
      /\ [j[p] EXCEPT !.chain = c] \in Jobs
      /\ [j[p] EXCEPT !.base = s] \in Jobs
  BY <1>1 DEF Jobs
<1>3. [[j[p] EXCEPT !.base = s] EXCEPT !.batch = b] \in Jobs
  BY <1>2 DEF Jobs
<1>4. [j EXCEPT ![p].seen = s] \in [Procs -> Jobs]
  BY <1>2
<1>5. [j EXCEPT ![p].chain = c] \in [Procs -> Jobs]
  BY <1>2
<1>6. [j EXCEPT ![p].base = s, ![p].batch = b] \in [Procs -> Jobs]
  BY <1>3
<1> QED BY <1>4, <1>5, <1>6

\* What the process that takes a step knows afterwards.
LEMMA ActorKnows ==
  ASSUME IInv, NEW p \in Procs, Step(p)
  PROVE  Knows(p)'
<1>1. Knows(p) /\ TypeOK
  BY DEF IInv
<1> USE DEF InTheLock
<1>2. ASSUME Leave(p) PROVE Knows(p)'
  BY <1>1, <1>2 DEF Leave, Knows, TypeOK
<1>3. CASE Draft(p)
  BY <1>1, <1>3, StatesAssumption DEF Draft, Goto, Knows, TypeOK
<1>4. CASE StartApply(p) \/ StartRecovery(p)
  BY <1>1, <1>4 DEF StartApply, StartRecovery, Acquire, Goto, Knows, TypeOK
<1>5. CASE ReadState(p)
  <2>1. CASE state = None
    BY <1>2, <1>5, <2>1 DEF ReadState
  <2>2. CASE state # None
    <3>1. pc'[p] = "checking" /\ lock' = p
      BY <1>1, <1>5, <2>2 DEF ReadState, Goto, Knows, TypeOK
    <3>2. job'[p] = [job[p] EXCEPT !.seen = state]
      BY <1>1, <1>5, <2>2 DEF ReadState, TypeOK
    <3>3. job'[p].batch \in States \ {<<>>} /\ job'[p].seen = state /\ state' = state
      BY <1>1, <1>5, <3>2 DEF ReadState, Knows, TypeOK
    <3> QED BY <3>1, <3>3 DEF Knows
  <2> QED BY <2>1, <2>2
<1>6. CASE CheckDelta(p)
  <2>1. CASE MayApply(p)
    <3>1. Newest(log) \in States
      BY NewestIsState DEF IInv, TypeOK, Replays
    <3> QED BY <1>1, <1>6, <2>1, <3>1 DEF CheckDelta, MayApply, Leave, Goto, Knows, TypeOK
  <2>2. CASE ~MayApply(p)
    BY <1>2, <1>6, <2>2 DEF CheckDelta
  <2> QED BY <2>1, <2>2
<1>7. CASE AppendEvents(p)
  BY <1>1, <1>7, BatchWritten DEF AppendEvents, Goto, Knows, TypeOK, Result
<1>8. CASE ReplaceState(p)
  BY <1>1, <1>8 DEF ReplaceState, Goto, Knows, TypeOK, Result
<1>9. CASE ReadChain(p)
  BY <1>1, <1>2, <1>9 DEF ReadChain, Goto, Knows, TypeOK
<1>10. CASE Assess(p)
  BY <1>1, <1>2, <1>10 DEF Assess, Goto, Knows, TypeOK
<1>11. CASE RecoverState(p)
  BY <1>1, <1>11 DEF RecoverState, Goto, Knows, TypeOK
<1>12. CASE AppendCutShort(p) \/ Report(p) \/ WriteReceipt(p) \/ Die(p)
  BY <1>2, <1>12 DEF AppendCutShort, Report, WriteReceipt, Die
<1> QED BY <1>3, <1>4, <1>5, <1>6, <1>7, <1>8, <1>9, <1>10, <1>11, <1>12
        DEF Step, WriterStep, RecovererStep

\* Whoever knows what is true has what its place demands.
LEMMA KnowsPlaced ==
  ASSUME IInv, NEW p \in Procs
  PROVE  Len(log) > 0 /\ Placed(p)
BY DEF IInv, Knows, Placed, Replays

\* Types; the log may have forked.
LEMMA TypeStep ==
  ASSUME TypeOK, Len(log) > 0, NEW p \in Procs, Placed(p), Step(p)
  PROVE  TypeOK'
<1>1. TypeOK /\ Placed(p) /\ Newest(log) \in States
  BY NewestIsState DEF TypeOK
<1> USE DEF TypeOK
<1>2. Nothing \in [base : States \cup {None}, batch : States,
                   seen : States \cup {None}, chain : Seq(Events)]
  BY DEF Nothing, States
<1>3. ASSUME Leave(p)
      PROVE  /\ lock' \in Procs \cup {None}
             /\ pc' \in [Procs -> {"idle", "drafted", "reading", "checking", "appending",
                                   "replacing", "reporting", "replaying", "assessing",
                                   "recovering", "receipting"}]
             /\ job' \in [Procs -> [base : States \cup {None}, batch : States,
                                    seen : States \cup {None}, chain : Seq(Events)]]
  BY <1>1, <1>2, <1>3 DEF Leave
<1>0. job \in [Procs -> Jobs]
  BY <1>1 DEF Jobs
<1>4. CASE Draft(p)
  <2>1. PICK batch \in Batches :
          job' = [job EXCEPT ![p].base = state, ![p].batch = batch]
    BY <1>4 DEF Draft
  <2>2. job' \in [Procs -> Jobs]
    <3>1. state \in States \cup {None} /\ batch \in States
      BY <1>1, StatesAssumption
    <3>2. <<>> \in Seq(Events)
      OBVIOUS
    <3> QED BY <1>0, <2>1, <3>1, <3>2, SetsField
  <2> QED BY <1>1, <1>4, <2>2 DEF Draft, Goto, Jobs
<1>5. CASE StartApply(p) \/ StartRecovery(p)
  BY <1>1, <1>5 DEF StartApply, StartRecovery, Acquire, Goto
<1>6. CASE ReadState(p)
  <2>1. CASE state = None
    BY <1>1, <1>3, <1>6, <2>1 DEF ReadState
  <2>2. CASE state # None
    <3>1. job' = [job EXCEPT ![p].seen = state] /\ state \in States \cup {None}
      BY <1>1, <1>6, <2>2 DEF ReadState
    <3>2. <<>> \in Seq(Events) /\ <<>> \in States
      BY DEF States
    <3>3. job' \in [Procs -> Jobs]
      BY <1>0, <3>1, <3>2, SetsField
    <3> QED BY <1>1, <1>6, <2>2, <3>3 DEF ReadState, Goto, Jobs
  <2> QED BY <2>1, <2>2
<1>7. CASE CheckDelta(p)
  <2>1. CASE MayApply(p)
    BY <1>1, <1>7, <2>1 DEF CheckDelta, Goto
  <2>2. CASE ~MayApply(p)
    BY <1>1, <1>3, <1>7, <2>2 DEF CheckDelta
  <2> QED BY <2>1, <2>2
<1>8. CASE AppendEvents(p)
  <2>1. log' \in Seq(Events)
    <3>1. /\ log \in Seq(Events) /\ Len(job[p].batch) \in Nat
          /\ job[p].seen \in States /\ job[p].batch \in States
      BY <1>1, <1>8 DEF AppendEvents, Placed, States
    <3>2. log' = log \o SubSeq(EventsOf(job[p].seen, job[p].batch), 1, Len(job[p].batch))
      BY <1>8, <3>1, WholeBatch DEF AppendEvents, WriteEvents
    <3>3. Len(job[p].batch) \in 0 .. Len(job[p].batch)
      BY <3>1
    <3> QED BY <3>1, <3>2, <3>3, Appended
  <2> QED BY <1>1, <1>8, <2>1 DEF AppendEvents, WriteEvents, Goto
<1>9. CASE AppendCutShort(p)
  <2>1. /\ log \in Seq(Events) /\ job[p].seen \in States /\ job[p].batch \in States
        /\ \E k \in 0 .. Len(job[p].batch) :
             log' = log \o SubSeq(EventsOf(job[p].seen, job[p].batch), 1, k)
    BY <1>1, <1>9 DEF AppendCutShort, WritePart, Placed
  <2>2. log' \in Seq(Events)
    BY <2>1, Appended
  <2> QED BY <1>1, <1>3, <1>9, <2>2 DEF AppendCutShort, WritePart
<1>10. CASE ReplaceState(p) \/ Report(p)
  <2>1. Result(p) \in States
    <3>1. job[p].seen \in Seq(Mutations) /\ job[p].batch \in Seq(Mutations)
      BY <1>1, <1>10 DEF ReplaceState, Report, Placed, States
    <3> QED BY <3>1, Concatenation DEF Result, States
  <2>2. CASE ReplaceState(p)
    BY <1>1, <2>1, <2>2 DEF ReplaceState, Goto, Result
  <2>3. CASE Report(p)
    <3>1. [base |-> job[p].base, new |-> Result(p)] \in [base : States, new : States]
      BY <1>1, <2>1, <2>3 DEF Report, Placed
    <3> QED BY <1>1, <1>3, <2>3, <3>1 DEF Report, Result
  <2> QED BY <1>10, <2>2, <2>3
<1>11. CASE ReadChain(p)
  <2>1. CASE Readable /\ Replays(log)
    <3>1. job' = [job EXCEPT ![p].chain = log] /\ log \in Seq(Events)
      BY <1>1, <1>11, <2>1 DEF ReadChain
    <3>2. None \in States \cup {None} /\ <<>> \in States
      BY DEF States
    <3>3. job' \in [Procs -> Jobs]
      BY <1>0, <3>1, <3>2, SetsField
    <3> QED BY <1>1, <1>11, <2>1, <3>3 DEF ReadChain, Goto, Jobs
  <2>2. CASE ~(Readable /\ Replays(log))
    BY <1>1, <1>3, <1>11, <2>2 DEF ReadChain
  <2> QED BY <2>1, <2>2
<1>12. CASE Assess(p)
  <2>1. CASE Recoverable(job[p].chain, state)
    <3>1. job' = [job EXCEPT ![p].seen = state] /\ state \in States \cup {None}
      BY <1>1, <1>12, <2>1 DEF Assess
    <3>2. <<>> \in Seq(Events) /\ <<>> \in States
      BY DEF States
    <3>3. job' \in [Procs -> Jobs]
      BY <1>0, <3>1, <3>2, SetsField
    <3> QED BY <1>1, <1>12, <2>1, <3>3 DEF Assess, Goto, Jobs
  <2>2. CASE ~Recoverable(job[p].chain, state)
    BY <1>1, <1>3, <1>12, <2>2 DEF Assess
  <2> QED BY <2>1, <2>2
<1>13. CASE RecoverState(p)
  <2>1. Newest(job[p].chain) \in States
    BY <1>1, <1>13, NewestIsState DEF RecoverState, Placed
  <2> QED BY <1>1, <1>13, <2>1 DEF RecoverState, Goto
<1>14. CASE WriteReceipt(p)
  <2>1. /\ job[p].chain \in Seq(Events) /\ Len(job[p].chain) \in Nat
        /\ job[p].seen \in States \cup {None}
    BY <1>1, <1>14
  <2>2. Newest(job[p].chain) \in States
    BY <1>1, <1>14, <2>1, NewestIsState DEF WriteReceipt, Placed
  <2>3. receipt' \in Receipts
    BY <1>1, <1>14, <2>1, <2>2 DEF WriteReceipt, Receipts
  <2> QED BY <1>1, <1>3, <1>14, <2>3 DEF WriteReceipt
<1>15. CASE Die(p)
  BY <1>1, <1>3, <1>15 DEF Die
<1> QED BY <1>4, <1>5, <1>6, <1>7, <1>8, <1>9, <1>10, <1>11, <1>12, <1>13, <1>14, <1>15
        DEF Step, WriterStep, RecovererStep

-----------------------------------------------------------------------------
(* The theorems.                                                           *)

\* The invariant holds at the start, where init-workflow-state.py left off.
LEMMA InvariantInit == Init => IInv
<1> SUFFICES ASSUME Init PROVE IInv
  OBVIOUS
<1> DEFINE first == [base |-> None, new |-> <<>>]
<1>1. log = <<first>> /\ first \in Events
  BY DEF Init, Events, States
<1>2. log \in Seq(Events) /\ Len(log) = 1 /\ log[1] = first
  <2> HIDE DEF first
  <2> QED BY <1>1
<1>3. Replays(log) /\ Revisions(log)
  <2>1. log[1].new = <<>>
    BY <1>2
  <2> QED BY <1>2, <2>1 DEF Replays, Revisions
<1>4. StateIsTraced
  <2>1. 1 \in 1 .. Len(log) /\ log[1].new = <<>>
    BY <1>2
  <2> QED BY <2>1 DEF Init, StateIsTraced
<1>5. Nothing \in [base : States \cup {None}, batch : States,
                   seen : States \cup {None}, chain : Seq(Events)]
  BY DEF Nothing, States
<1>6. TypeOK
  <2>1. state \in States \cup {None}
    <3>1. <<>> \in States
      BY DEF States
    <3> QED BY <3>1 DEF Init
  <2> QED BY <1>2, <1>5, <2>1 DEF Init, TypeOK
<1>7. Reported /\ OneDeltaPerBase /\ ReceiptIsTrue
  BY DEF Init, Reported, OneDeltaPerBase, ReceiptIsTrue
<1>8. \A p \in Procs : Knows(p)
  BY DEF Init, Knows, InTheLock
<1> QED BY <1>3, <1>4, <1>6, <1>7, <1>8 DEF IInv

\* A step that changes nothing.
LEMMA InvariantStutter == IInv /\ UNCHANGED vars => IInv'
<1> SUFFICES ASSUME IInv, UNCHANGED vars PROVE IInv'
  OBVIOUS
<1> USE DEF vars
<1>1. TypeOK'
  BY DEF IInv, TypeOK
<1>2. Replays(log)' /\ Revisions(log)' /\ StateIsTraced'
  BY DEF IInv, StateIsTraced, Replays, Revisions
<1>3. Reported' /\ OneDeltaPerBase' /\ ReceiptIsTrue'
  BY DEF IInv, Reported, OneDeltaPerBase, ReceiptIsTrue
<1>4. \A p \in Procs : Knows(p)'
  BY DEF IInv, Knows, Result
<1> QED BY <1>1, <1>2, <1>3, <1>4 DEF IInv

\* Every step is the step of one process.
LEMMA NextIsAStep ==
  ASSUME Next
  PROVE  \E p \in Procs : Step(p)
BY DEF Next, Step, Procs

\* The invariant holds in every reachable state.
LEMMA Invariance == Spec => []IInv
<1>1. IInv /\ [Next]_vars => IInv'
  <2> SUFFICES ASSUME IInv, [Next]_vars PROVE IInv'
    OBVIOUS
  <2>1. CASE Next
    <3>1. PICK p \in Procs : Step(p)
      BY <2>1, NextIsAStep
    <3>2. \A q \in Procs : Knows(q)'
      BY <3>1, ActorKnows, OthersKnow
    <3>3. TypeOK'
      BY <3>1, TypeStep, KnowsPlaced DEF IInv
    <3> QED BY <3>1, <3>2, <3>3, LogStep, ReportedStep, ExclusionStep, ReceiptStep DEF IInv
  <2>2. CASE UNCHANGED vars
    BY <2>2, InvariantStutter
  <2> QED BY <2>1, <2>2
<1> QED BY <1>1, InvariantInit, PTL DEF Spec

\* All variables of the two programs keep their types.
THEOREM TypeCorrect == Spec => []TypeOK
<1>1. IInv => TypeOK
  BY DEF IInv
<1> QED BY <1>1, Invariance, PTL

\* However many deltas and recoveries run and are interrupted, the events on
\* disk are one chain of legal mutations.
THEOREM LogIsOneChain == Spec => []LogReplays
<1>1. IInv => LogReplays
  BY DEF IInv, LogReplays
<1> QED BY <1>1, Invariance, PTL

\* The state file never holds a state the log does not lead to.
THEOREM StatesAreTraced == Spec => []StateIsTraced
<1>1. IInv => StateIsTraced
  BY DEF IInv
<1> QED BY <1>1, Invariance, PTL

\* What a caller was told is never lost.
THEOREM ReportsAreKept == Spec => []ReportedTransitionsAreKept
<1>1. IInv => ReportedTransitionsAreKept
  BY DEF IInv, Reported, Logged, ReportedTransitionsAreKept
<1> QED BY <1>1, Invariance, PTL

\* No two accepted deltas have one base.
THEOREM DeltasExcludeEachOther == Spec => []OneDeltaPerBase
<1>1. IInv => OneDeltaPerBase
  BY DEF IInv
<1> QED BY <1>1, Invariance, PTL

\* A recovery receipt describes one log.
THEOREM ReceiptsAreTrue == Spec => []ReceiptIsTrue
<1>1. IInv => ReceiptIsTrue
  BY DEF IInv
<1> QED BY <1>1, Invariance, PTL

\* A sequence is the beginning of its continuations.
LEMMA Beginning ==
  ASSUME NEW s \in Seq(Mutations), NEW t \in Seq(Mutations)
  PROVE  /\ s \o t \in Seq(Mutations)
         /\ Len(s \o t) >= Len(s)
         /\ SubSeq(s \o t, 1, Len(s)) = s
<1> DEFINE u == s \o t
<1>1. /\ u \in Seq(Mutations) /\ Len(u) = Len(s) + Len(t)
      /\ \A i \in 1 .. Len(s) : u[i] = s[i]
  BY Concatenation
<1>2. Len(s) \in Nat /\ Len(t) \in Nat
  OBVIOUS
<1> HIDE DEF u
<1>3. /\ SubSeq(u, 1, Len(s)) \in Seq(Mutations) /\ Len(SubSeq(u, 1, Len(s))) = Len(s)
      /\ \A i \in 1 .. Len(s) : SubSeq(u, 1, Len(s))[i] = s[i]
  BY <1>1, <1>2
<1>4. SubSeq(u, 1, Len(s)) = s
  BY <1>3, SeqEqual
<1> QED BY <1>1, <1>2, <1>4 DEF u

\* Every step records more history, brings the view up to date, or is hidden.
LEMMA StepSimulates ==
  ASSUME IInv, NEW p \in Procs, Step(p)
  PROVE  Chain!Next \/ UNCHANGED <<Newest(log), state>>
<1>1. CASE Quiet \/ Reports(p)
  BY <1>1 DEF Quiet, Reports, Newest
<1>2. CASE Publishes(p)
  <2>1. state' = Newest(log) /\ log' = log
    BY <1>2 DEF Publishes, IInv, Knows
  <2>2. Chain!Publish
    BY <2>1 DEF Chain!Publish, Newest
  <2> QED BY <2>2 DEF Chain!Next
<1>3. CASE Writes(p)
  <2>1. /\ Newest(log) = job[p].seen /\ state = job[p].seen /\ state' = state
        /\ job[p].seen \in Seq(Mutations) /\ job[p].batch \in Seq(Mutations)
    BY <1>3 DEF Writes, IInv, Knows, States
  <2>2. PICK k \in 0 .. Len(job[p].batch) :
          Newest(log') = job[p].seen \o SubSeq(job[p].batch, 1, k)
    BY <1>3, Growth
  <2>3. SubSeq(job[p].batch, 1, k) \in Seq(Mutations)
    BY <2>1, <2>2
  <2>4. /\ Newest(log') \in Seq(Mutations)
        /\ Len(Newest(log')) >= Len(Newest(log))
        /\ SubSeq(Newest(log'), 1, Len(Newest(log))) = Newest(log)
    BY <2>1, <2>2, <2>3, Beginning
  <2>5. Chain!Record
    BY <2>1, <2>4 DEF Chain!Record, Newest
  <2> QED BY <2>5 DEF Chain!Next
<1> QED BY <1>1, <1>2, <1>3, Kinds

\* The two files implement one growing history and a view of it.
THEOREM StateChainImplemented == Spec => ImplementsStateChain
<1>1. Init => Chain!Init
  <2> SUFFICES ASSUME Init PROVE Newest(log) = <<>> /\ state \in {None, <<>>}
    BY DEF Chain!Init
  <2>1. Len(log) = 1 /\ log[1].new = <<>>
    BY DEF Init
  <2> QED BY <2>1 DEF Init, Newest
<1>2. IInv /\ [Next]_vars => [Chain!Next]_<<Newest(log), state>>
  <2> SUFFICES ASSUME IInv, [Next]_vars
               PROVE  Chain!Next \/ UNCHANGED <<Newest(log), state>>
    OBVIOUS
  <2>1. CASE Next
    BY <2>1, NextIsAStep, StepSimulates
  <2>2. CASE UNCHANGED vars
    BY <2>2 DEF vars, Newest
  <2> QED BY <2>1, <2>2
<1> QED BY <1>1, <1>2, Invariance, PTL DEF Spec, ImplementsStateChain, Chain!Spec

-----------------------------------------------------------------------------
(* The ledger of rejected hypotheses.  Its updaters write log and state      *)
(* beside the processes above, under another lock, so that of the invariant  *)
(* only types and places are left.                                           *)

Works == [request : Requests \cup {None}, seen : States \cup {None}, events : Seq(Events),
          changed : BOOLEAN]

UpdatersTyped ==
  /\ ledger \in [Hypotheses -> Items \cup {None}]
  /\ at \in [Updaters -> {"idle", "loading", "deciding", "appending", "replacing",
                          "recording"}]
  /\ work \in [Updaters -> Works]

Hypothesis(u) == work[u].request.event.id

\* What u has and has found out at its place.
Updating(u) ==
  /\ at[u] # "idle" => ledgerLock = u /\ work[u].request \in Requests
  /\ at[u] \in {"deciding", "appending", "replacing", "recording"} => work[u].seen \in States
  /\ at[u] = "appending" => ChangesState(work[u].request, work[u].seen)
  /\ at[u] = "recording" => ~ChangesState(work[u].request, work[u].seen)
  /\ at[u] \in {"appending", "replacing", "recording"} /\ work[u].request.op = "reopen" =>
       ledger[Hypothesis(u)] # None

LedgerInv ==
  /\ TypeOK /\ Len(log) > 0 /\ \A p \in Procs : Placed(p)
  /\ UpdatersTyped /\ \A u \in Updaters : Updating(u)

\* The event of one mutation.
LEMMA OneEvent ==
  ASSUME NEW l \in Seq(Events), NEW s \in States, NEW m \in Mutations
  PROVE  LET longer == l \o EventsOf(s, <<m>>)
         IN /\ <<m>> \in States /\ Len(<<m>>) = 1
            /\ longer = l \o SubSeq(EventsOf(s, <<m>>), 1, 1)
            /\ longer \in Seq(Events) /\ Len(longer) = Len(l) + 1
            /\ \A i \in 1 .. Len(l) : longer[i] = l[i]
            /\ longer[Len(l) + 1].new = Append(s, m)
<1> DEFINE batch == <<m>>
           longer == l \o SubSeq(EventsOf(s, batch), 1, 1)
<1>1. batch \in States /\ Len(batch) = 1 /\ batch[1] = m
  BY DEF States
<1> HIDE DEF batch
<1>2. SubSeq(EventsOf(s, batch), 1, 1) = EventsOf(s, batch)
  BY <1>1, WholeBatch
<1>3. 1 \in 0 .. Len(batch) /\ 1 \in 1 .. 1 /\ 1 \in 1 .. Len(batch) /\ 0 \in 0 .. Len(batch)
  BY <1>1
<1>8. \A k \in 0 .. Len(batch) :
        LET more == l \o SubSeq(EventsOf(s, batch), 1, k)
        IN /\ more \in Seq(Events) /\ Len(more) = Len(l) + k
           /\ \A i \in 1 .. Len(l) : more[i] = l[i]
           /\ \A i \in 1 .. k : /\ more[Len(l) + i].base = After(s, batch, i - 1)
                                /\ more[Len(l) + i].new = After(s, batch, i)
  BY <1>1, Appended
<1>4. /\ longer \in Seq(Events) /\ Len(longer) = Len(l) + 1
      /\ \A i \in 1 .. Len(l) : longer[i] = l[i]
      /\ \A i \in 1 .. 1 : longer[Len(l) + i].new = After(s, batch, i)
  BY <1>3, <1>8
<1>7. longer[Len(l) + 1].new = After(s, batch, 1)
  <2> HIDE DEF longer
  <2> QED BY <1>3, <1>4
<1>5. After(s, batch, 1) = Append(After(s, batch, 1 - 1), batch[1])
  BY <1>1, <1>3, Stages
<1>6. After(s, batch, 1 - 1) = s
  BY <1>1, Stages
<1> QED BY <1>1, <1>2, <1>4, <1>5, <1>6, <1>7 DEF batch

\* A step of a process that is no updater adds events of its batch, or none.
LEMMA ProcessWrites ==
  ASSUME TypeOK, NEW p \in Procs, Placed(p), Step(p)
  PROVE  \/ log' = log /\ (pc'[p] = "appending" => job'[p].seen = Newest(log))
         \/ /\ pc[p] = "appending" /\ pc'[p] # "appending"
            /\ \E k \in 0 .. Len(job[p].batch) :
                 log' = log \o SubSeq(EventsOf(job[p].seen, job[p].batch), 1, k)
<1> USE DEF TypeOK, Leave, Goto
<1>1. CASE AppendEvents(p)
  <2>1. job[p].seen \in States /\ job[p].batch \in States
    BY <1>1 DEF AppendEvents, Placed
  <2>2. Len(job[p].batch) \in 0 .. Len(job[p].batch)
    BY <2>1 DEF States
  <2>3. log' = log \o SubSeq(EventsOf(job[p].seen, job[p].batch), 1, Len(job[p].batch))
    BY <1>1, <2>1, WholeBatch DEF AppendEvents, WriteEvents
  <2> QED BY <1>1, <2>2, <2>3 DEF AppendEvents
<1>2. CASE AppendCutShort(p)
  BY <1>2 DEF AppendCutShort, WritePart
<1>3. CASE CheckDelta(p)
  BY <1>3 DEF CheckDelta, MayApply
<1>4. CASE \/ Draft(p) \/ StartApply(p) \/ ReadState(p) \/ ReplaceState(p) \/ Report(p)
  BY <1>4 DEF Draft, StartApply, ReadState, ReplaceState, Report, Acquire
<1>5. CASE \/ StartRecovery(p) \/ ReadChain(p) \/ Assess(p) \/ RecoverState(p)
           \/ WriteReceipt(p) \/ Die(p)
  BY <1>5 DEF StartRecovery, ReadChain, Assess, RecoverState, WriteReceipt, Die, Acquire
<1> QED BY <1>1, <1>2, <1>3, <1>4, <1>5 DEF Step, WriterStep, RecovererStep

\* Such a step leaves each process at a place that it may be at.
LEMMA PlacesKept ==
  ASSUME TypeOK, Len(log) > 0, NEW p \in Procs, Step(p), \A q \in Procs : Placed(q)
  PROVE  \A q \in Procs : Placed(q)'
<1>1. Alone(p) /\ Placed(p)
  BY StepsAreTheirOwn
<1>2. ASSUME NEW q \in Procs \ {p} PROVE Placed(q)'
  BY <1>1, <1>2 DEF Alone, Placed
<1>3. Placed(p)'
  <2> USE DEF InTheLock, TypeOK
  <2>1. ASSUME Leave(p) PROVE Placed(p)'
    BY <1>1, <2>1 DEF Leave, Placed
  <2>2. CASE Draft(p)
    BY <1>1, <2>2, StatesAssumption DEF Draft, Goto, Placed
  <2>3. CASE StartApply(p) \/ StartRecovery(p)
    BY <1>1, <2>3 DEF StartApply, StartRecovery, Acquire, Goto, Placed
  <2>4. CASE ReadState(p)
    <3>1. CASE state = None
      BY <2>1, <2>4, <3>1 DEF ReadState
    <3>2. CASE state # None
      <4>1. pc'[p] = "checking" /\ lock' = p
        BY <1>1, <2>4, <3>2 DEF ReadState, Goto, Placed
      <4>2. job'[p] = [job[p] EXCEPT !.seen = state]
        BY <1>1, <2>4, <3>2 DEF ReadState
      <4>3. job'[p].batch \in States \ {<<>>}
        BY <1>1, <2>4, <4>2 DEF ReadState, Placed
      <4> QED BY <4>1, <4>3 DEF Placed
    <3> QED BY <3>1, <3>2
  <2>5. CASE CheckDelta(p)
    <3>1. Newest(log) \in States
      BY NewestIsState
    <3>2. CASE MayApply(p)
      BY <1>1, <2>5, <3>1, <3>2 DEF CheckDelta, MayApply, Goto, Placed
    <3>3. CASE ~MayApply(p)
      BY <2>1, <2>5, <3>3 DEF CheckDelta
    <3> QED BY <3>2, <3>3
  <2>6. CASE AppendEvents(p) \/ ReplaceState(p)
    BY <1>1, <2>6 DEF AppendEvents, ReplaceState, Goto, Placed
  <2>7. CASE ReadChain(p)
    BY <1>1, <2>1, <2>7 DEF ReadChain, Goto, Placed, Replays
  <2>8. CASE Assess(p)
    BY <1>1, <2>1, <2>8 DEF Assess, Goto, Placed
  <2>9. CASE RecoverState(p)
    BY <1>1, <2>9 DEF RecoverState, Goto, Placed
  <2>10. CASE AppendCutShort(p) \/ Report(p) \/ WriteReceipt(p) \/ Die(p)
    BY <2>1, <2>10 DEF AppendCutShort, Report, WriteReceipt, Die
  <2> QED BY <2>2, <2>3, <2>4, <2>5, <2>6, <2>7, <2>8, <2>9, <2>10
          DEF Step, WriterStep, RecovererStep
<1> QED BY <1>2, <1>3

\* A set of positions that is not empty has a last one.
LEMMA LastPosition ==
  ASSUME NEW n \in Nat, NEW T \in SUBSET (1 .. n), T # {}
  PROVE  \E i \in T : \A j \in T : j <= i
<1> DEFINE Less == OpToRel(<, Nat)
           D == {n - i : i \in T}
<1>1. IsWellFoundedOn(Less, Nat)
  BY NatLessThanWellFounded
<1>2. D \in SUBSET Nat /\ D # {}
  <2>1. PICK i \in T : TRUE
    OBVIOUS
  <2>2. n - i \in D
    BY <2>1
  <2>3. \A j \in T : n - j \in Nat
    OBVIOUS
  <2> QED BY <2>2, <2>3
<1>3. \A m, k \in Nat : k < m => <<k, m>> \in Less
  BY DEF Less, OpToRel
<1> HIDE DEF Less
<1>4. \E m \in D : \A k \in D : ~(<<k, m>> \in Less)
  <2> HIDE DEF D
  <2> QED BY <1>1, <1>2, WFMin
<1>5. PICK i \in T : \A k \in D : ~(<<k, n - i>> \in Less)
  BY <1>4
<1>6. ASSUME NEW j \in T PROVE j <= i
  <2>1. n - j \in D /\ n - j \in Nat /\ n - i \in Nat
    OBVIOUS
  <2>2. ~(n - j < n - i)
    BY <1>3, <1>5, <2>1
  <2> QED BY <2>2
<1> QED BY <1>6

\* The state an item names is one of the log, or the one that was read.
LEMMA SourceIsState ==
  ASSUME NEW events \in Seq(Events), NEW h, NEW s \in States
  PROVE  RejectedStateId(events, h, s) \in States
<1> DEFINE found == {i \in 1 .. Len(events) : Rejects(events[i], h)}
<1>1. CASE found = {}
  BY <1>1 DEF RejectedStateId
<1>2. CASE found # {}
  <2>1. Len(events) \in Nat /\ found \in SUBSET (1 .. Len(events))
    OBVIOUS
  <2> DEFINE last == CHOOSE i \in found : \A j \in found : j <= i
  <2>2. last \in found
    <3> HIDE DEF found
    <3> QED BY <1>2, <2>1, LastPosition
  <2> HIDE DEF last
  <2>3. last \in 1 .. Len(events)
    BY <2>2
  <2>4. events[last].new \in States
    <3>1. events[last] \in Events
      BY <2>3
    <3> QED BY <3>1 DEF Events
  <2>5. RejectedStateId(events, h, s) = events[last].new
    BY <1>2 DEF RejectedStateId, last
  <2> QED BY <2>4, <2>5
<1> QED BY <1>1, <1>2

\* Behind the event of a request State IR is as the request wants it.
LEMMA RequestSettles ==
  ASSUME NEW s \in States, NEW v \in Requests
  PROVE  ~ChangesState(v, Append(s, v.event))
<1> DEFINE n == Len(s) + 1
           t == Append(s, v.event)
<1>1. /\ v.event \in Mutations /\ Len(s) \in Nat /\ Len(t) = n /\ t[n] = v.event
      /\ n \in 1 .. Len(t)
  BY RequestsAssumption DEF States
<1> HIDE DEF t, n
<1>2. CASE v.op = "reject"
  <2>1. StandsUnless(t, n, Removes["rejected_hypotheses"], v.event.id)
    BY <1>1 DEF StandsUnless, n
  <2>2. t[n].type = Adds["rejected_hypotheses"] /\ t[n].id = v.event.id
    BY <1>1, <1>2, RequestsAssumption DEF Adds
  <2> QED BY <1>1, <1>2, <2>1, <2>2 DEF ChangesState, IsRejected, Holds, t
<1>3. CASE v.op # "reject"
  <2>1. v.event.type = "hypothesis-reopened"
    BY <1>3, RequestsAssumption
  <2>2. ASSUME NEW i \in 1 .. Len(t), t[i].type = "hypothesis-rejected"
        PROVE  ~StandsUnless(t, i, "hypothesis-reopened", v.event.id)
    <3>1. i # n
      BY <1>1, <2>1, <2>2
    <3>2. n \in i + 1 .. Len(t)
      BY <1>1, <3>1 DEF n
    <3> QED BY <1>1, <2>1, <3>2 DEF StandsUnless
  <2> QED BY <1>3, <2>2 DEF ChangesState, IsRejected, Holds, Adds, Removes, t
<1> QED BY <1>2, <1>3

\* While one updater is at work the others are not.
LEMMA OneUpdater ==
  ASSUME LedgerInv, NEW u \in Updaters, UpdaterStep(u)
  PROVE  \A q \in Updaters \ {u} : at[q] = "idle" /\ at'[q] = "idle"
<1> SUFFICES ASSUME NEW q \in Updaters \ {u} PROVE at[q] = "idle" /\ at'[q] = "idle"
  OBVIOUS
<1> USE DEF LedgerInv, UpdatersTyped
<1>1. at[q] # "idle" => ledgerLock = q
  BY DEF Updating
<1>2. at[u] = "idle" => ledgerLock = None
  BY DEF UpdaterStep, StartUpdate, LoadState, Decide, AppendEvent, AppendEventCutShort,
         PersistState, RecordRejection, RecordReopening, RecordRefused, UpdaterDies
<1>3. at[u] # "idle" => ledgerLock = u
  BY DEF Updating
<1>4. at[q] = "idle"
  BY <1>1, <1>2, <1>3, UpdatersAssumption
<1>5. at'[q] = at[q]
  BY DEF UpdaterStep, StartUpdate, LoadState, Decide, AppendEvent, AppendEventCutShort,
         PersistState, RecordRejection, RecordReopening, RecordRefused, UpdaterDies, Quit, Move
<1> QED BY <1>4, <1>5

\* An updater adds one event or none.
LEMMA UpdaterWrites ==
  ASSUME LedgerInv, NEW u \in Updaters, UpdaterStep(u)
  PROVE  \/ log' = log
         \/ /\ at[u] = "appending" /\ at'[u] # "appending"
            /\ log' = log \o EventsOf(work[u].seen, <<work[u].request.event>>)
<1> USE DEF LedgerInv, UpdatersTyped
<1>1. CASE AppendEvent(u)
  BY <1>1 DEF AppendEvent, WriteEvents, Move
<1>2. CASE AppendEventCutShort(u)
  <2> DEFINE s == work[u].seen
             m == work[u].request.event
  <2>1. log \in Seq(Events) /\ s \in States /\ m \in Mutations
    BY <1>2, RequestsAssumption DEF AppendEventCutShort, Updating, TypeOK
  <2> HIDE DEF s, m
  <2>2. <<m>> \in States /\ Len(<<m>>) = 1
        /\ log \o EventsOf(s, <<m>>) = log \o SubSeq(EventsOf(s, <<m>>), 1, 1)
    BY <2>1, OneEvent
  <2>3. PICK k \in 0 .. 1 : log' = log \o SubSeq(EventsOf(s, <<m>>), 1, k)
    BY <1>2, <2>2 DEF AppendEventCutShort, WritePart, s, m
  <2>4. CASE k = 0
    <3>1. SubSeq(EventsOf(s, <<m>>), 1, 0) = <<>>
      OBVIOUS
    <3>2. log \o <<>> = log
      BY <2>1, ConcatEmptySeq
    <3> QED BY <2>3, <2>4, <3>1, <3>2
  <2>5. CASE k = 1
    BY <1>2, <2>2, <2>3, <2>5 DEF AppendEventCutShort, Quit, Move, s, m
  <2> QED BY <2>4, <2>5
<1>3. CASE \/ StartUpdate(u) \/ LoadState(u) \/ Decide(u) \/ PersistState(u)
           \/ RecordRejection(u) \/ RecordReopening(u) \/ RecordRefused(u) \/ UpdaterDies(u)
  BY <1>3 DEF StartUpdate, LoadState, Decide, PersistState, RecordRejection,
              RecordReopening, RecordRefused, UpdaterDies, vars
<1> QED BY <1>1, <1>2, <1>3 DEF UpdaterStep

(* The first part of the invariant is kept by every step.                  *)

AllRefs == UNION {v.event.refs : v \in Requests}

Reopened(l, h, fresh) == [l EXCEPT ![h].status = "reopened", ![h].fresh = fresh]

\* An item of which two fields are set.
LEMMA ItemReopened ==
  ASSUME NEW l \in [Hypotheses -> Items \cup {None}], NEW h \in Hypotheses, l[h] \in Items,
         NEW fresh \in SUBSET AllRefs
  PROVE  LET new == Reopened(l, h, fresh)
         IN /\ new \in [Hypotheses -> Items \cup {None}]
            /\ new[h].status = "reopened" /\ new[h].source = l[h].source
            /\ new[h].request = l[h].request
            /\ \A g \in Hypotheses : (new[g] = None <=> l[g] = None)
            /\ \A g \in Hypotheses \ {h} : new[g] = l[g]
<1> DEFINE one == [l[h] EXCEPT !.status = "reopened"]
           two == [one EXCEPT !.fresh = fresh]
           new == Reopened(l, h, fresh)
<1>1. one \in Items /\ one.source = l[h].source /\ one.request = l[h].request
      /\ one.status = "reopened"
  BY DEF Items, AllRefs
<1> HIDE DEF one
<1>2. two \in Items /\ two.source = l[h].source /\ two.request = l[h].request
      /\ two.status = "reopened"
  BY <1>1 DEF Items, AllRefs
<1>3. new = [l EXCEPT ![h] = two]
  BY DEF one, Reopened
<1>4. None \notin Items
  BY ItemsAssumption
<1> HIDE DEF two, new
<1> QED BY <1>2, <1>3, <1>4 DEF new

\* The ledger holds items, and an item never goes.
LEMMA LedgerKept ==
  ASSUME LedgerInv, NEW u \in Updaters, UpdaterStep(u)
  PROVE  /\ ledger' \in [Hypotheses -> Items \cup {None}]
         /\ \A h \in Hypotheses : ledger[h] # None => ledger'[h] # None
<1> USE DEF LedgerInv, UpdatersTyped
<1>1. CASE RecordRejection(u)
  <2> DEFINE v == work[u].request
             h == v.event.id
             item == Rejected(v, RejectedStateId(work[u].events, h, work[u].seen))
  <2>1. /\ v \in Requests /\ work[u].seen \in States /\ work[u] \in Works
    BY <1>1 DEF RecordRejection, Updating
  <2>2. work[u].events \in Seq(Events) /\ h \in Hypotheses
    BY <2>1 DEF Works, Hypotheses
  <2>3. RejectedStateId(work[u].events, h, work[u].seen) \in States
    BY <2>1, <2>2, SourceIsState
  <2>4. item \in Items
    BY <2>1, <2>3 DEF Rejected, Items
  <2>5. ledger' = IF ledger[h] # None THEN ledger ELSE [ledger EXCEPT ![h] = item]
    BY <1>1 DEF RecordRejection
  <2> HIDE DEF v, h, item
  <2> QED BY <2>2, <2>4, <2>5, ItemsAssumption
<1>2. CASE RecordReopening(u)
  <2> DEFINE v == work[u].request
             h == v.event.id
             fresh == FreshEvidence(v)
  <2>1. v \in Requests /\ h \in Hypotheses /\ ledger[h] # None
    BY <1>2 DEF RecordReopening, Updating, Hypothesis, Hypotheses
  <2>2. ledger[h] \in Items /\ fresh \in SUBSET AllRefs
    BY <2>1 DEF FreshEvidence, AllRefs
  <2>3. ledger' = [ledger EXCEPT ![h].status = "reopened", ![h].fresh = fresh]
    BY <1>2 DEF RecordReopening
  <2> HIDE DEF v, h, fresh
  <2> DEFINE new == Reopened(ledger, h, fresh)
  <2>4. /\ new \in [Hypotheses -> Items \cup {None}]
        /\ \A g \in Hypotheses : (new[g] = None <=> ledger[g] = None)
    BY <2>1, <2>2, ItemReopened
  <2> HIDE DEF new
  <2>5. ledger' = new
    BY <2>3 DEF new, Reopened
  <2> QED BY <2>4, <2>5
<1>3. CASE ledger' = ledger
  BY <1>3
<1>4. RecordRejection(u) \/ RecordReopening(u) \/ ledger' = ledger
  BY DEF UpdaterStep, StartUpdate, LoadState, Decide, AppendEvent, AppendEventCutShort,
         PersistState, RecordRefused, UpdaterDies
<1> QED BY <1>1, <1>2, <1>3, <1>4

\* What an updater does to the rest keeps the types.
LEMMA UpdaterTypes ==
  ASSUME LedgerInv, NEW u \in Updaters, UpdaterStep(u)
  PROVE  TypeOK' /\ Len(log') > 0 /\ \A p \in Procs : Placed(p)'
<1> USE DEF LedgerInv, UpdatersTyped
<1>1. UNCHANGED <<receipt, lock, pc, job, reported>>
  BY DEF UpdaterStep, StartUpdate, LoadState, Decide, AppendEvent, AppendEventCutShort,
         PersistState, RecordRejection, RecordReopening, RecordRefused, UpdaterDies, vars
<1>2. log' \in Seq(Events) /\ Len(log') > 0
  <2>1. CASE log' = log
    BY <2>1 DEF TypeOK
  <2>2. CASE at[u] = "appending"
             /\ log' = log \o EventsOf(work[u].seen, <<work[u].request.event>>)
    <3>1. log \in Seq(Events) /\ work[u].seen \in States /\ work[u].request.event \in Mutations
      BY <2>2, RequestsAssumption DEF TypeOK, Updating
    <3>2. log' \in Seq(Events) /\ Len(log') = Len(log) + 1
      BY <2>2, <3>1, OneEvent
    <3> QED BY <3>1, <3>2
  <2> QED BY <2>1, <2>2, UpdaterWrites
<1>3. state' \in States \cup {None}
  <2>1. CASE PersistState(u)
    <3>1. work[u].seen \in States /\ work[u].request.event \in Mutations
      BY <2>1, RequestsAssumption DEF PersistState, Updating
    <3> QED BY <2>1, <3>1 DEF PersistState, States
  <2>2. CASE ~PersistState(u)
    <3>1. state' = state
      BY <2>2 DEF UpdaterStep, StartUpdate, LoadState, Decide, AppendEvent,
                  AppendEventCutShort, RecordRejection, RecordReopening, RecordRefused,
                  UpdaterDies, vars
    <3> QED BY <3>1 DEF TypeOK
  <2> QED BY <2>1, <2>2
<1>4. end' \in {"whole", "open", "torn"}
  <2>1. CASE AppendEventCutShort(u)
    BY <2>1 DEF AppendEventCutShort, WritePart
  <2>2. CASE AppendEvent(u)
    BY <2>2 DEF AppendEvent, WriteEvents
  <2>3. CASE end' = end
    BY <2>3 DEF TypeOK
  <2> QED BY <2>1, <2>2, <2>3 DEF UpdaterStep, StartUpdate, LoadState, Decide, PersistState,
          RecordRejection, RecordReopening, RecordRefused, UpdaterDies, vars
<1>5. TypeOK'
  BY <1>1, <1>2, <1>3, <1>4 DEF TypeOK
<1>6. \A p \in Procs : Placed(p)'
  BY <1>1 DEF Placed
<1> QED BY <1>2, <1>5, <1>6

\* An updater's place and its work fit together afterwards, too.
LEMMA UpdaterMoves ==
  ASSUME LedgerInv, NEW u \in Updaters, UpdaterStep(u)
  PROVE  /\ at' \in [Updaters -> {"idle", "loading", "deciding", "appending", "replacing",
                                  "recording"}]
         /\ work' \in [Updaters -> Works]
         /\ Updating(u)'
<1> USE DEF LedgerInv, UpdatersTyped, Move
<1>0. /\ \A h \in Hypotheses : ledger[h] # None => ledger'[h] # None
      /\ \A v \in Requests : v.event.id \in Hypotheses
  BY LedgerKept DEF Hypotheses
<1>1. ASSUME Quit(u)
      PROVE  /\ at' \in [Updaters -> {"idle", "loading", "deciding", "appending", "replacing",
                                      "recording"}]
             /\ work' \in [Updaters -> Works] /\ Updating(u)'
  <2>1. at' = [at EXCEPT ![u] = "idle"] /\ work' = [work EXCEPT ![u] = NoWork]
    BY <1>1 DEF Quit
  <2>2. NoWork \in Works
    BY DEF NoWork, Works
  <2>3. at'[u] = "idle"
    BY <2>1
  <2> QED BY <2>1, <2>2, <2>3 DEF Updating
<1>2. CASE StartUpdate(u)
  <2>1. PICK v \in Requests : work' = [work EXCEPT ![u].request = v]
    BY <1>2 DEF StartUpdate
  <2>2. work[u] \in Works /\ [work[u] EXCEPT !.request = v] \in Works
    BY DEF Works
  <2>3. work' \in [Updaters -> Works] /\ work'[u].request = v
    BY <2>1, <2>2 DEF Works
  <2> QED BY <1>2, <2>3 DEF StartUpdate, Updating
<1>3. CASE LoadState(u)
  <2>1. CASE state = None
    BY <1>1, <1>3, <2>1 DEF LoadState
  <2>2. CASE state # None
    <3>1. state \in States /\ work' = [work EXCEPT ![u].seen = state]
          /\ at' = [at EXCEPT ![u] = "deciding"] /\ ledgerLock' = ledgerLock
          /\ at[u] = "loading"
      BY <1>3, <2>2 DEF LoadState, TypeOK
    <3>2. work[u] \in Works /\ [work[u] EXCEPT !.seen = state] \in Works
      BY <3>1 DEF Works
    <3>3. work' \in [Updaters -> Works] /\ work'[u].seen = state
          /\ work'[u].request = work[u].request
      BY <3>1, <3>2 DEF Works
    <3> QED BY <3>1, <3>3 DEF Updating
  <2> QED BY <2>1, <2>2
<1>4. CASE Decide(u)
  <2> DEFINE v == work[u].request
             s == work[u].seen
  <2>1. CASE ~MayUpdate(v, s, log)
    BY <1>1, <1>4, <2>1 DEF Decide
  <2>2. CASE MayUpdate(v, s, log)
    <3>1. /\ work' = [work EXCEPT ![u].events = log] /\ log \in Seq(Events)
          /\ at' = [at EXCEPT ![u] = IF ChangesState(v, s) THEN "appending" ELSE "recording"]
          /\ ledgerLock' = ledgerLock /\ at[u] = "deciding"
      BY <1>4, <2>2 DEF Decide, TypeOK
    <3>2. work[u] \in Works /\ [work[u] EXCEPT !.events = log] \in Works
      BY <3>1 DEF Works
    <3>3. work' \in [Updaters -> Works] /\ work'[u].seen = s /\ work'[u].request = v
      BY <3>1, <3>2 DEF Works
    <3>4. v.op = "reopen" => ledger[v.event.id] # None
      BY <2>2 DEF MayUpdate, MayReopenItem
    <3>5. v \in Requests /\ s \in States /\ ledgerLock = u
      BY <3>1 DEF Updating
    <3>6. at'[u] = IF ChangesState(v, s) THEN "appending" ELSE "recording"
      BY <3>1
    <3>7. v.op = "reopen" => ledger'[v.event.id] # None
      BY <1>0, <3>4, <3>5
    <3>8. at'[u] = "appending" => ChangesState(v, s)
      BY <3>6
    <3>9. at'[u] = "recording" => ~ChangesState(v, s)
      BY <3>6
    <3>10. ChangesState(v, s) <=> ChangesState(work'[u].request, work'[u].seen)
      BY <3>3
    <3> HIDE DEF v, s
    <3>11. Updating(u)'
      BY <3>1, <3>3, <3>5, <3>7, <3>8, <3>9, <3>10 DEF Updating, Hypothesis, ChangesState,
          IsRejected
    <3> QED BY <3>1, <3>3, <3>11
  <2> QED BY <2>1, <2>2
<1>5. CASE AppendEvent(u)
  <2> DEFINE v == work[u].request
             s == work[u].seen
             longer == work[u].events \o EventsOf(s, <<v.event>>)
  <2>1. v \in Requests /\ s \in States /\ at[u] = "appending" /\ ledgerLock = u
    BY <1>5 DEF AppendEvent, Updating
  <2>2. v.event \in Mutations /\ work[u].events \in Seq(Events)
    BY <2>1, RequestsAssumption DEF Works
  <2>3. longer \in Seq(Events)
    BY <2>1, <2>2, OneEvent
  <2>4. /\ work' = [work EXCEPT ![u].events = longer]
        /\ at' = [at EXCEPT ![u] = "replacing"] /\ ledgerLock' = ledgerLock
        /\ ledger' = ledger
    BY <1>5 DEF AppendEvent
  <2> HIDE DEF longer
  <2>5. work[u] \in Works /\ [work[u] EXCEPT !.events = longer] \in Works
    BY <2>3 DEF Works
  <2>6. work' \in [Updaters -> Works] /\ work'[u].seen = s /\ work'[u].request = v
    BY <2>4, <2>5 DEF Works
  <2> QED BY <2>1, <2>4, <2>6 DEF Updating, Hypothesis
<1>6. CASE PersistState(u)
  <2> DEFINE v == work[u].request
             s == Append(work[u].seen, v.event)
  <2>1. v \in Requests /\ work[u].seen \in States /\ at[u] = "replacing" /\ ledgerLock = u
    BY <1>6 DEF PersistState, Updating
  <2>2. v.event \in Mutations
    BY <2>1, RequestsAssumption
  <2>3. s \in States /\ ~ChangesState(v, s)
    BY <2>1, <2>2, RequestSettles DEF States
  <2>4. /\ work' = [work EXCEPT ![u].seen = s, ![u].changed = TRUE]
        /\ at' = [at EXCEPT ![u] = "recording"] /\ ledgerLock' = ledgerLock
        /\ ledger' = ledger
    BY <1>6 DEF PersistState
  <2> HIDE DEF s
  <2>5. work[u] \in Works /\ [work[u] EXCEPT !.seen = s] \in Works
        /\ [[work[u] EXCEPT !.seen = s] EXCEPT !.changed = TRUE] \in Works
    BY <2>3 DEF Works
  <2>6. work' \in [Updaters -> Works] /\ work'[u].seen = s /\ work'[u].request = v
    BY <2>4, <2>5 DEF Works
  <2>7. ~ChangesState(work'[u].request, work'[u].seen) /\ work'[u].seen \in States
        /\ work'[u].request \in Requests /\ at'[u] = "recording"
        /\ (work'[u].request.op = "reopen" => ledger[work'[u].request.event.id] # None)
    BY <2>1, <2>3, <2>4, <2>6 DEF Updating, Hypothesis
  <2>8. Updating(u)'
    BY <2>1, <2>4, <2>7 DEF Updating, Hypothesis, ChangesState, IsRejected
  <2> QED BY <2>4, <2>6, <2>8
<1>7. CASE AppendEventCutShort(u) \/ RecordRejection(u) \/ RecordReopening(u)
           \/ RecordRefused(u) \/ UpdaterDies(u)
  BY <1>1, <1>7 DEF AppendEventCutShort, RecordRejection, RecordReopening, RecordRefused,
                    UpdaterDies
<1> QED BY <1>2, <1>3, <1>4, <1>5, <1>6, <1>7 DEF UpdaterStep

LEMMA LedgerInitially == LedgerInit => LedgerInv
<1> SUFFICES ASSUME LedgerInit PROVE LedgerInv
  OBVIOUS
<1>1. IInv
  BY InvariantInit DEF LedgerInit
<1>2. TypeOK /\ Len(log) > 0 /\ \A p \in Procs : Placed(p)
  BY <1>1, KnowsPlaced DEF IInv, Replays
<1>3. NoWork \in Works
  BY DEF NoWork, Works
<1>4. UpdatersTyped /\ \A u \in Updaters : Updating(u)
  BY <1>3 DEF LedgerInit, UpdatersTyped, Updating
<1> QED BY <1>2, <1>4 DEF LedgerInv

LEMMA LedgerInvKept == LedgerInv /\ [LedgerNext]_allVars => LedgerInv'
<1> SUFFICES ASSUME LedgerInv, [LedgerNext]_allVars PROVE LedgerInv'
  OBVIOUS
<1>1. CASE Next /\ UNCHANGED ledgerVars
  <2>1. PICK p \in Procs : Step(p)
    BY <1>1, NextIsAStep
  <2>2. TypeOK' /\ \A q \in Procs : Placed(q)'
    BY <2>1, TypeStep, PlacesKept DEF LedgerInv
  <2>3. Len(log') > 0
    <3>1. CASE log' = log
      BY <3>1 DEF LedgerInv
    <3>2. CASE /\ pc[p] = "appending"
               /\ \E k \in 0 .. Len(job[p].batch) :
                    log' = log \o SubSeq(EventsOf(job[p].seen, job[p].batch), 1, k)
      <4>1. log \in Seq(Events) /\ job[p].seen \in States /\ job[p].batch \in States
        BY <3>2 DEF LedgerInv, TypeOK, Placed
      <4>2. PICK k \in 0 .. Len(job[p].batch) :
              log' = log \o SubSeq(EventsOf(job[p].seen, job[p].batch), 1, k)
        BY <3>2
      <4>3. Len(log') = Len(log) + k
        BY <4>1, <4>2, Appended
      <4>4. Len(log) \in Nat /\ Len(log) > 0 /\ k \in Nat
        BY <4>1 DEF States, LedgerInv
      <4> QED BY <4>3, <4>4
    <3> QED BY <2>1, <3>1, <3>2, ProcessWrites DEF LedgerInv
  <2>4. UpdatersTyped' /\ \A u \in Updaters : Updating(u)'
    BY <1>1 DEF LedgerInv, UpdatersTyped, Updating, ledgerVars, Hypothesis, ChangesState,
                IsRejected
  <2> QED BY <2>2, <2>3, <2>4 DEF LedgerInv
<1>2. CASE \E u \in Updaters : UpdaterStep(u) /\ UNCHANGED revisits
  <2>1. PICK u \in Updaters : UpdaterStep(u)
    BY <1>2
  <2>2. ASSUME NEW q \in Updaters PROVE Updating(q)'
    <3>1. CASE q = u
      BY <2>1, <3>1, UpdaterMoves
    <3>2. CASE q # u
      <4>1. at'[q] = "idle"
        BY <2>1, <3>2, OneUpdater
      <4> QED BY <4>1 DEF Updating
    <3> QED BY <3>1, <3>2
  <2> QED BY <2>1, <2>2, LedgerKept, UpdaterMoves, UpdaterTypes DEF LedgerInv, UpdatersTyped
<1>3. CASE UNCHANGED <<vars, ledger, ledgerLock, at, work>>
  <2> USE <1>3 DEF vars
  <2>1. TypeOK' /\ Len(log') > 0
    BY DEF LedgerInv, TypeOK
  <2>2. \A p \in Procs : Placed(p)'
    BY DEF LedgerInv, Placed
  <2>3. UpdatersTyped' /\ \A u \in Updaters : Updating(u)'
    BY DEF LedgerInv, UpdatersTyped, Updating, Hypothesis, ChangesState, IsRejected
  <2> QED BY <2>1, <2>2, <2>3 DEF LedgerInv
<1> QED BY <1>1, <1>2, <1>3 DEF LedgerNext, CheckRevisited, allVars, ledgerVars

LEMMA LedgerInvariant == LedgerSpec => []LedgerInv
BY LedgerInitially, LedgerInvKept, PTL DEF LedgerSpec

\* A call that ends with success leaves ledger and State IR in agreement, unless a writer
\* has written beside it.
THEOREM SuccessKeepsInStep == LedgerSpec => SuccessSynchronizes
<1> DEFINE Agree(u) ==
      (RecordRejection(u) \/ RecordReopening(u)) /\ Newest(log) = work[u].seen =>
        LET h == work[u].request.event.id
        IN IsRejected(Newest(log'), h) <=> ledger'[h].status = "rejected"
<1>1. ASSUME LedgerInv, NEW u \in Updaters PROVE Agree(u)
  <2> DEFINE v == work[u].request
             h == v.event.id
  <2> SUFFICES ASSUME RecordRejection(u) \/ RecordReopening(u), Newest(log) = work[u].seen
               PROVE  IsRejected(Newest(log'), h) <=> ledger'[h].status = "rejected"
    OBVIOUS
  <2> USE <1>1 DEF LedgerInv, UpdatersTyped
  <2>1. at[u] = "recording" /\ log' = log
    BY DEF RecordRejection, RecordReopening, vars
  <2>2. /\ v \in Requests /\ h \in Hypotheses
        /\ (v.op = "reject") = IsRejected(Newest(log'), h)
        /\ (v.op = "reopen" => ledger[h] # None)
    BY <2>1 DEF Updating, Hypothesis, Hypotheses, ChangesState
  <2>3. CASE RecordRejection(u)
    <3> DEFINE item == Rejected(v, RejectedStateId(work[u].events, h, work[u].seen))
    <3>1. /\ ledger' = IF ledger[h] # None THEN ledger ELSE [ledger EXCEPT ![h] = item]
          /\ v.op = "reject" /\ MayAddItem(v)
      BY <2>3 DEF RecordRejection, MayRecord
    <3>2. ledger[h] # None => ledger[h].status = "rejected"
      BY <3>1 DEF MayAddItem
    <3>3. item.status = "rejected"
      BY DEF Rejected
    <3> HIDE DEF item, h, v
    <3>4. ledger'[h].status = "rejected"
      BY <2>2, <3>1, <3>2, <3>3
    <3> QED BY <2>2, <3>1, <3>4
  <2>4. CASE RecordReopening(u)
    <3> DEFINE fresh == FreshEvidence(v)
               new == Reopened(ledger, h, fresh)
    <3>1. v.op = "reopen" /\ ledger' = new
      BY <2>4 DEF RecordReopening, Reopened
    <3>2. ledger[h] \in Items /\ fresh \in SUBSET AllRefs
      BY <2>2, <3>1 DEF FreshEvidence, AllRefs
    <3> HIDE DEF fresh, h, v
    <3>3. new[h].status = "reopened"
      BY <2>2, <3>2, ItemReopened
    <3> HIDE DEF new
    <3> QED BY <2>2, <3>1, <3>3
  <2> QED BY <2>3, <2>4
<1>2. LedgerInv => [\A u \in Updaters : Agree(u)]_allVars
  BY <1>1
<1> QED BY <1>2, LedgerInvariant, PTL DEF SuccessSynchronizes

-----------------------------------------------------------------------------
(* Where the items come from.  The log may fork, because a writer and an     *)
(* updater can each append to the state they have read; but they stand on at *)
(* most two branches at a time, and as long as a hypothesis is not in the    *)
(* ledger, whoever stands on a branch that rejects it knows the last         *)
(* rejection of it in the log.                                               *)

Rejecting(m, h) == m.type = "hypothesis-rejected" /\ m.id = h
Reopening(m, h) == m.type = "hypothesis-reopened" /\ m.id = h

\* A state that holds a rejection of h.
Has(s, h) == \E k \in 1 .. Len(s) : Rejecting(s[k], h)

\* Event i of l is the mutation m, and the last that rejects h.
Latest(l, h, m, i) ==
  /\ Carries(l[i], m)
  /\ \A j \in i + 1 .. Len(l) : ~Rejects(l[j], h)

\* State s never reopened h, and rejected it as the last event of l did that rejects h.
Settled(l, s, h) ==
  \A k \in 1 .. Len(s) :
    /\ ~Reopening(s[k], h)
    /\ Rejecting(s[k], h) => \E i \in 1 .. Len(l) : Latest(l, h, s[k], i)

\* The states that somebody is about to append to, and the one the log ends in.
BranchesOf(h) ==
  /\ Settled(log, Newest(log), h)
  /\ \A u \in Updaters : at[u] = "appending" =>
       /\ Settled(log, work[u].seen, h)
       /\ Has(Newest(log), h) => Has(work[u].seen, h)
  /\ \A p \in Procs : pc[p] = "appending" =>
       /\ Settled(log, job[p].seen, h)
       /\ Has(job[p].seen, h) =>
            /\ Has(Newest(log), h)
            /\ \A u \in Updaters : at[u] = "appending" => Has(work[u].seen, h)

Drafted(p) ==
  pc[p] \in {"drafted", "reading", "checking", "appending"} => job[p].batch \in Batches

\* An updater that will add an item knows the last rejection in its log.
Founded(u) ==
  /\ at[u] \in {"replacing", "recording"} /\ work[u].request.op = "reject"
  /\ ledger[Hypothesis(u)] = None
  => \E i \in 1 .. Len(work[u].events) :
       /\ Latest(work[u].events, Hypothesis(u), work[u].request.event, i)
       /\ \E j \in 1 .. Len(log) : log[j].new = work[u].events[i].new

\* An updater that will mark an item reopened has seen that in the log.
ReopenFound(u) ==
  at[u] \in {"replacing", "recording"} /\ work[u].request.op = "reopen" =>
    \/ ledger[Hypothesis(u)].status = "reopened"
    \/ \E j \in 1 .. Len(log) : Carries(log[j], work[u].request.event)

SourceIs(h, i) ==
  /\ ledger[h] # None
  /\ log[i].new = ledger[h].source
  /\ Carries(log[i], ledger[h].request.event)

\* A hypothesis is reopened only behind the rejection that its item names.
ReopeningsHaveSource ==
  \A h \in Hypotheses, j \in 1 .. Len(log), m \in Mutations :
    Reopening(m, h) /\ Carries(log[j], m) => \E i \in 1 .. j - 1 : SourceIs(h, i)

ItemsAreOwn ==
  \A h \in Hypotheses : ledger[h] # None => Rejecting(ledger[h].request.event, h)

TracedInv ==
  /\ \A p \in Procs : Drafted(p)
  /\ \A h \in Hypotheses : ledger[h] = None => BranchesOf(h)
  /\ \A u \in Updaters : Founded(u) /\ ReopenFound(u)
  /\ ReopeningsHaveSource /\ ItemsAreOwn
  /\ LedgerIsTraced

(* Logs and states.                                                        *)

Extends(l, m) ==
  /\ l \in Seq(Events) /\ m \in Seq(Events) /\ Len(l) <= Len(m)
  /\ \A i \in 1 .. Len(l) : m[i] = l[i]

\* No event of m behind those of l rejects h.
Silent(l, m, h) == \A i \in Len(l) + 1 .. Len(m) : ~Rejects(m[i], h)

\* An event tells the mutation it adds.
LEMMA EventTells ==
  ASSUME NEW e, NEW s \in States, NEW x \in Mutations, e.new = Append(s, x), NEW m
  PROVE  Carries(e, m) <=> m = x
<1>1. /\ Len(s) \in Nat /\ Len(Append(s, x)) = Len(s) + 1
      /\ Append(s, x)[Len(s) + 1] = x
  BY DEF States
<1> QED BY <1>1 DEF Carries

\* The mutations of a state that a batch has led to.
LEMMA AfterParts ==
  ASSUME NEW s \in States, NEW batch \in States, NEW k \in 0 .. Len(batch)
  PROVE  /\ Len(s) <= Len(After(s, batch, k))
         /\ \A i \in 1 .. Len(s) : After(s, batch, k)[i] = s[i]
         /\ \A i \in 1 .. Len(After(s, batch, k)) :
              i \in 1 .. Len(s) \/ \E j \in 1 .. Len(batch) : After(s, batch, k)[i] = batch[j]
<1> DEFINE x == SubSeq(batch, 1, k)
           t == s \o x
<1>1. /\ s \in Seq(Mutations) /\ Len(s) \in Nat /\ Len(batch) \in Nat
      /\ x \in Seq(Mutations) /\ Len(x) = k /\ \A j \in 1 .. k : x[j] = batch[j]
  BY DEF States
<1> HIDE DEF x
<1>2. /\ Len(t) = Len(s) + Len(x) /\ \A i \in 1 .. Len(s) : t[i] = s[i]
      /\ \A i \in 1 .. Len(x) : t[Len(s) + i] = x[i]
  BY <1>1, Concatenation
<1>3. t = After(s, batch, k)
  BY DEF After, x
<1> HIDE DEF t
<1>4. ASSUME NEW i \in 1 .. Len(t), i \notin 1 .. Len(s)
      PROVE  \E j \in 1 .. Len(batch) : t[i] = batch[j]
  <2> DEFINE j == i - Len(s)
  <2>1. j \in 1 .. Len(x) /\ j \in 1 .. Len(batch) /\ Len(s) + j = i /\ j \in 1 .. k
    BY <1>1, <1>2, <1>4
  <2> HIDE DEF j
  <2>2. t[i] = x[j] /\ x[j] = batch[j]
    BY <1>1, <1>2, <2>1
  <2> QED BY <2>1, <2>2
<1> QED BY <1>1, <1>2, <1>3, <1>4

\* Events that are silent on h leave what is settled.
LEMMA SettledStays ==
  ASSUME NEW l, NEW m, Extends(l, m), NEW h, Silent(l, m, h), NEW s, Settled(l, s, h)
  PROVE  Settled(m, s, h)
<1> SUFFICES ASSUME NEW k \in 1 .. Len(s)
             PROVE  /\ ~Reopening(s[k], h)
                    /\ Rejecting(s[k], h) => \E i \in 1 .. Len(m) : Latest(m, h, s[k], i)
  BY DEF Settled
<1>1. ~Reopening(s[k], h)
  BY DEF Settled
<1>2. ASSUME Rejecting(s[k], h) PROVE \E i \in 1 .. Len(m) : Latest(m, h, s[k], i)
  <2>1. PICK i \in 1 .. Len(l) : Latest(l, h, s[k], i)
    BY <1>2 DEF Settled
  <2>2. Len(l) \in Nat /\ Len(m) \in Nat /\ Len(l) <= Len(m)
    BY DEF Extends
  <2>3. i \in 1 .. Len(m) /\ m[i] = l[i]
    BY <2>1, <2>2 DEF Extends
  <2>4. ASSUME NEW j \in i + 1 .. Len(m) PROVE ~Rejects(m[j], h)
    <3>1. CASE j \in 1 .. Len(l)
      <4>1. j \in i + 1 .. Len(l) /\ m[j] = l[j]
        BY <2>1, <2>2, <2>4, <3>1 DEF Extends
      <4> QED BY <2>1, <4>1 DEF Latest
    <3>2. CASE j \notin 1 .. Len(l)
      <4>1. j \in Len(l) + 1 .. Len(m)
        BY <2>1, <2>2, <2>4, <3>2
      <4> QED BY <4>1 DEF Silent
    <3> QED BY <3>1, <3>2
  <2> QED BY <2>1, <2>3, <2>4 DEF Latest
<1> QED BY <1>1, <1>2

\* A batch that leaves hypotheses alone settles and unsettles nothing.
LEMMA BatchSettles ==
  ASSUME NEW s \in States, NEW batch \in States, NEW k \in 0 .. Len(batch), NEW h, NEW l,
         \A i \in 1 .. Len(batch) :
           batch[i].type \notin {"hypothesis-rejected", "hypothesis-reopened"}
  PROVE  /\ Settled(l, s, h) => Settled(l, After(s, batch, k), h)
         /\ Has(After(s, batch, k), h) => Has(s, h)
<1> DEFINE t == After(s, batch, k)
<1>1. \A i \in 1 .. Len(t) :
        \/ i \in 1 .. Len(s) /\ t[i] = s[i]
        \/ ~Rejecting(t[i], h) /\ ~Reopening(t[i], h)
  BY AfterParts DEF Rejecting, Reopening
<1> HIDE DEF t
<1>2. Settled(l, s, h) => Settled(l, t, h)
  BY <1>1 DEF Settled
<1>3. Has(t, h) => Has(s, h)
  BY <1>1 DEF Has
<1> QED BY <1>2, <1>3 DEF t

\* What a batch that leaves hypotheses alone adds to the log.
LEMMA BatchAdds ==
  ASSUME NEW l \in Seq(Events), Len(l) > 0, NEW s \in States, NEW batch \in States,
         NEW k \in 0 .. Len(batch),
         \A i \in 1 .. Len(batch) :
           batch[i].type \notin {"hypothesis-rejected", "hypothesis-reopened"}
  PROVE  LET longer == l \o SubSeq(EventsOf(s, batch), 1, k)
         IN /\ Extends(l, longer)
            /\ \A i \in Len(l) + 1 .. Len(longer) : \A m, h :
                 Rejecting(m, h) \/ Reopening(m, h) => ~Carries(longer[i], m)
            /\ Newest(longer) \in {Newest(l), After(s, batch, k)}
<1> DEFINE longer == l \o SubSeq(EventsOf(s, batch), 1, k)
<1>1. /\ longer \in Seq(Events) /\ Len(longer) = Len(l) + k
      /\ \A i \in 1 .. Len(l) : longer[i] = l[i]
      /\ \A i \in 1 .. k : /\ longer[Len(l) + i].base = After(s, batch, i - 1)
                           /\ longer[Len(l) + i].new = After(s, batch, i)
  BY Appended
<1>2. Len(l) \in Nat /\ Len(batch) \in Nat /\ k \in Nat
  BY DEF States
<1> HIDE DEF longer
<1>3. Extends(l, longer)
  BY <1>1, <1>2 DEF Extends
<1>4. ASSUME NEW i \in Len(l) + 1 .. Len(longer), NEW m, NEW h,
             Rejecting(m, h) \/ Reopening(m, h)
      PROVE  ~Carries(longer[i], m)
  <2> DEFINE j == i - Len(l)
  <2>1. j \in 1 .. k /\ j \in 1 .. Len(batch) /\ Len(l) + j = i /\ j - 1 \in 0 .. Len(batch)
    BY <1>1, <1>2, <1>4
  <2> HIDE DEF j
  <2>2. longer[i].new = After(s, batch, j)
    BY <1>1, <2>1
  <2>3. After(s, batch, j) = Append(After(s, batch, j - 1), batch[j])
    BY <2>1, Stages
  <2>4. After(s, batch, j - 1) \in States
    BY <2>1, Stages
  <2>6. batch[j] \in Mutations
    BY <2>1 DEF States
  <2>7. longer[i].new = Append(After(s, batch, j - 1), batch[j])
    BY <2>2, <2>3
  <2> DEFINE before == After(s, batch, j - 1)
             x == batch[j]
             e == longer[i]
  <2>8. before \in States /\ x \in Mutations /\ e.new = Append(before, x)
    BY <2>4, <2>6, <2>7
  <2> HIDE DEF before, x, e
  <2>9. Carries(e, m) <=> m = x
    BY <2>8, EventTells
  <2>5. Carries(longer[i], m) => m = batch[j]
    BY <2>9 DEF e, x
  <2> QED BY <1>4, <2>1, <2>5 DEF Rejecting, Reopening
<1>5. Newest(longer) \in {Newest(l), After(s, batch, k)}
  <2>1. CASE k = 0
    BY <1>1, <1>2, <2>1 DEF Newest
  <2>2. CASE k > 0
    BY <1>1, <1>2, <2>2 DEF Newest
  <2> QED BY <1>2, <2>1, <2>2
<1> QED BY <1>3, <1>4, <1>5 DEF longer

\* One more event: it tells its mutation, and the log ends in its state.
LEMMA OneAdds ==
  ASSUME NEW l \in Seq(Events), NEW s \in States, NEW x \in Mutations
  PROVE  LET longer == l \o EventsOf(s, <<x>>)
         IN /\ Extends(l, longer) /\ Len(longer) = Len(l) + 1
            /\ Newest(longer) = Append(s, x)
            /\ \A m : Carries(longer[Len(l) + 1], m) <=> m = x
<1> DEFINE longer == l \o EventsOf(s, <<x>>)
           e == longer[Len(l) + 1]
<1>1. /\ longer \in Seq(Events) /\ Len(longer) = Len(l) + 1
      /\ \A i \in 1 .. Len(l) : longer[i] = l[i]
      /\ e.new = Append(s, x)
  BY OneEvent
<1>2. Len(l) \in Nat
  OBVIOUS
<1> HIDE DEF longer
<1>3. Extends(l, longer) /\ Newest(longer) = e.new
  BY <1>1, <1>2 DEF Extends, Newest
<1> HIDE DEF e
<1>4. \A m : Carries(e, m) <=> m = x
  BY <1>1, EventTells
<1> QED BY <1>1, <1>3, <1>4 DEF longer, e

LEMMA ExtendsItself == ASSUME NEW l \in Seq(Events) PROVE Extends(l, l)
<1>1. Len(l) \in Nat
  OBVIOUS
<1> QED BY <1>1 DEF Extends

\* The batch of a process is one of the batches.
LEMMA DraftedKept ==
  ASSUME TypeOK, NEW p \in Procs, Step(p), \A q \in Procs : Drafted(q)
  PROVE  \A q \in Procs : Drafted(q)'
<1>1. ASSUME NEW q \in Procs \ {p} PROVE Drafted(q)'
  BY <1>1, StepsAreTheirOwn DEF Alone, Drafted
<1>2. Drafted(p)'
  <2> USE DEF TypeOK
  <2>1. CASE Draft(p)
    <3>1. PICK batch \in Batches :
            job' = [job EXCEPT ![p].base = state, ![p].batch = batch]
      BY <2>1 DEF Draft
    <3>2. job'[p].batch = batch
      BY <3>1
    <3> QED BY <3>1, <3>2 DEF Drafted
  <2>2. ASSUME Leave(p) PROVE Drafted(p)'
    BY <2>2 DEF Leave, Drafted
  <2>3. CASE ReadState(p)
    <3>1. CASE state # None
      <4>1. job' = [job EXCEPT ![p].seen = state] /\ pc[p] = "reading"
        BY <2>3, <3>1 DEF ReadState
      <4>2. job'[p].batch = job[p].batch
        BY <4>1
      <4> QED BY <4>1, <4>2 DEF Drafted
    <3> QED BY <2>2, <2>3, <3>1 DEF ReadState
  <2>4. CASE StartApply(p) \/ CheckDelta(p) \/ AppendEvents(p) \/ AppendCutShort(p)
    BY <2>2, <2>4 DEF StartApply, CheckDelta, AppendEvents, AppendCutShort, Goto, Drafted
  <2>5. CASE \/ ReplaceState(p) \/ Report(p) \/ StartRecovery(p) \/ ReadChain(p)
             \/ Assess(p) \/ RecoverState(p) \/ WriteReceipt(p) \/ Die(p)
    BY <2>2, <2>5 DEF ReplaceState, Report, StartRecovery, ReadChain, Assess, RecoverState,
                      WriteReceipt, Die, Goto, Drafted
  <2> QED BY <2>1, <2>3, <2>4, <2>5 DEF Step, WriterStep, RecovererStep
<1> QED BY <1>1, <1>2

\* What a process that is no updater does to the log, if deltas leave hypotheses alone.
LEMMA ProcessAdds ==
  ASSUME LedgerInv, DeltasLeaveHypotheses, NEW p \in Procs, Drafted(p), Step(p)
  PROVE  \/ log' = log /\ (pc'[p] = "appending" => job'[p].seen = Newest(log))
         \/ /\ pc[p] = "appending" /\ pc'[p] # "appending" /\ lock = p
            /\ Extends(log, log')
            /\ \A i \in Len(log) + 1 .. Len(log') : \A m, h :
                 Rejecting(m, h) \/ Reopening(m, h) => ~Carries(log'[i], m)
            /\ \/ Newest(log') = Newest(log)
               \/ \A h : /\ Has(Newest(log'), h) => Has(job[p].seen, h)
                         /\ Settled(log, job[p].seen, h) => Settled(log, Newest(log'), h)
<1>1. TypeOK /\ Placed(p) /\ log \in Seq(Events) /\ Len(log) > 0
  BY DEF LedgerInv, TypeOK
<1>2. CASE /\ pc[p] = "appending" /\ pc'[p] # "appending"
           /\ \E k \in 0 .. Len(job[p].batch) :
                log' = log \o SubSeq(EventsOf(job[p].seen, job[p].batch), 1, k)
  <2> DEFINE s == job[p].seen
             batch == job[p].batch
  <2>1. s \in States /\ batch \in States /\ lock = p /\ batch \in Batches
    BY <1>1, <1>2 DEF Placed, InTheLock, Drafted
  <2>2. \A i \in 1 .. Len(batch) :
          batch[i].type \notin {"hypothesis-rejected", "hypothesis-reopened"}
    BY <2>1 DEF DeltasLeaveHypotheses
  <2>3. PICK k \in 0 .. Len(batch) : log' = log \o SubSeq(EventsOf(s, batch), 1, k)
    BY <1>2
  <2> HIDE DEF s, batch
  <2>4. /\ Extends(log, log')
        /\ \A i \in Len(log) + 1 .. Len(log') : \A m, h :
             Rejecting(m, h) \/ Reopening(m, h) => ~Carries(log'[i], m)
        /\ Newest(log') \in {Newest(log), After(s, batch, k)}
    BY <1>1, <2>1, <2>2, <2>3, BatchAdds
  <2>5. \A h : /\ Settled(log, s, h) => Settled(log, After(s, batch, k), h)
               /\ Has(After(s, batch, k), h) => Has(s, h)
    BY <2>1, <2>2, BatchSettles
  <2> QED BY <1>2, <2>1, <2>4, <2>5 DEF s
<1> QED BY <1>1, <1>2, ProcessWrites

LEMMA ProcessSilent ==
  ASSUME NEW l, NEW m, NEW h,
         \A i \in Len(l) + 1 .. Len(m) : \A x, g :
           Rejecting(x, g) \/ Reopening(x, g) => ~Carries(m[i], x)
  PROVE  Silent(l, m, h)
BY DEF Silent, Rejects, Rejecting

\* Such a step keeps what is settled about h.
LEMMA ProcessBranches ==
  ASSUME LedgerInv, DeltasLeaveHypotheses, NEW p \in Procs, Drafted(p), Step(p),
         UNCHANGED ledgerVars, NEW h, BranchesOf(h)
  PROVE  BranchesOf(h)'
<1>1. UNCHANGED <<at, work>>
  BY DEF ledgerVars
<1>2. \A q \in Procs \ {p} : pc'[q] = pc[q] /\ job'[q] = job[q]
  BY StepsAreTheirOwn DEF LedgerInv, Alone
<1>3. CASE log' = log /\ (pc'[p] = "appending" => job'[p].seen = Newest(log))
  <2>1. ASSUME NEW q \in Procs, pc'[q] = "appending"
        PROVE  /\ Settled(log', job'[q].seen, h)
               /\ Has(job'[q].seen, h) =>
                    /\ Has(Newest(log'), h)
                    /\ \A u \in Updaters : at'[u] = "appending" => Has(work'[u].seen, h)
    <3>1. CASE q = p
      BY <1>1, <1>3, <2>1, <3>1 DEF BranchesOf
    <3>2. CASE q # p
      BY <1>1, <1>2, <1>3, <2>1, <3>2 DEF BranchesOf
    <3> QED BY <3>1, <3>2
  <2>2. /\ Settled(log', Newest(log'), h)
        /\ \A u \in Updaters : at'[u] = "appending" =>
             /\ Settled(log', work'[u].seen, h)
             /\ Has(Newest(log'), h) => Has(work'[u].seen, h)
    BY <1>1, <1>3 DEF BranchesOf
  <2> QED BY <2>1, <2>2 DEF BranchesOf
<1>4. CASE /\ pc[p] = "appending" /\ pc'[p] # "appending" /\ lock = p
           /\ Extends(log, log')
           /\ \A i \in Len(log) + 1 .. Len(log') : \A m, g :
                Rejecting(m, g) \/ Reopening(m, g) => ~Carries(log'[i], m)
           /\ \/ Newest(log') = Newest(log)
              \/ \A g : /\ Has(Newest(log'), g) => Has(job[p].seen, g)
                        /\ Settled(log, job[p].seen, g) => Settled(log, Newest(log'), g)
  <2>1. Silent(log, log', h)
    BY <1>4, ProcessSilent
  <2>2. \A s : Settled(log, s, h) => Settled(log', s, h)
    BY <1>4, <2>1, SettledStays
  <2>3. Settled(log', Newest(log'), h)
    BY <1>4, <2>2 DEF BranchesOf
  <2>4. \A u \in Updaters : at'[u] = "appending" =>
          /\ Settled(log', work'[u].seen, h)
          /\ Has(Newest(log'), h) => Has(work'[u].seen, h)
    BY <1>1, <1>4, <2>2 DEF BranchesOf
  <2>5. ASSUME NEW q \in Procs PROVE pc'[q] # "appending"
    BY <1>2, <1>4, <2>5 DEF LedgerInv, Placed, InTheLock
  <2> QED BY <2>3, <2>4, <2>5 DEF BranchesOf
<1> QED BY <1>3, <1>4, ProcessAdds

\* What an updater does to the log.
LEMMA UpdaterAdds ==
  ASSUME LedgerInv, NEW u \in Updaters, UpdaterStep(u)
  PROVE  \/ log' = log /\ (at'[u] = "appending" => work'[u].seen = Newest(log))
         \/ /\ at[u] = "appending" /\ at'[u] # "appending"
            /\ work[u].seen \in States /\ work[u].request \in Requests
            /\ Extends(log, log') /\ Len(log') = Len(log) + 1
            /\ Newest(log') = Append(work[u].seen, work[u].request.event)
            /\ \A m : Carries(log'[Len(log')], m) <=> m = work[u].request.event
<1> USE DEF LedgerInv, UpdatersTyped
<1>1. CASE log' = log
  <2>1. CASE Decide(u)
    <3>1. CASE MayUpdate(work[u].request, work[u].seen, log)
      <4>1. work' = [work EXCEPT ![u].events = log] /\ Newest(log) = work[u].seen
        BY <2>1, <3>1 DEF Decide, MayUpdate
      <4>2. work'[u].seen = work[u].seen
        BY <4>1
      <4> QED BY <1>1, <4>1, <4>2
    <3>2. CASE ~MayUpdate(work[u].request, work[u].seen, log)
      BY <1>1, <2>1, <3>2 DEF Decide, Quit, Move
    <3> QED BY <3>1, <3>2
  <2>2. CASE AppendEvent(u) \/ AppendEventCutShort(u)
    BY <1>1, <2>2 DEF AppendEvent, AppendEventCutShort, Quit, Move
  <2>3. CASE StartUpdate(u) \/ LoadState(u) \/ PersistState(u)
    BY <1>1, <2>3 DEF StartUpdate, LoadState, PersistState, Quit, Move
  <2>4. CASE RecordRejection(u) \/ RecordReopening(u) \/ RecordRefused(u) \/ UpdaterDies(u)
    BY <1>1, <2>4 DEF RecordRejection, RecordReopening, RecordRefused, UpdaterDies, Quit, Move
  <2> QED BY <2>1, <2>2, <2>3, <2>4 DEF UpdaterStep
<1>2. CASE /\ at[u] = "appending" /\ at'[u] # "appending"
           /\ log' = log \o EventsOf(work[u].seen, <<work[u].request.event>>)
  <2> DEFINE s == work[u].seen
             x == work[u].request.event
  <2>1. /\ s \in States /\ x \in Mutations /\ log \in Seq(Events)
        /\ work[u].request \in Requests
    BY <1>2, RequestsAssumption DEF Updating, TypeOK
  <2> HIDE DEF s, x
  <2>2. log' = log \o EventsOf(s, <<x>>)
    BY <1>2 DEF s, x
  <2>3. /\ Extends(log, log') /\ Len(log') = Len(log) + 1
        /\ Newest(log') = Append(s, x)
        /\ \A m : Carries(log'[Len(log) + 1], m) <=> m = x
    BY <2>1, <2>2, OneAdds
  <2> QED BY <1>2, <2>1, <2>3 DEF s, x
<1> QED BY <1>1, <1>2, UpdaterWrites

\* A state that was settled on no reopening, and is asked to reject h, does not hold it.
LEMMA SettledRejection ==
  ASSUME NEW l, NEW s \in States, NEW h, Settled(l, s, h), NEW v \in Requests,
         ChangesState(v, s), Rejecting(v.event, h)
  PROVE  ~Has(s, h)
<1>1. v.op = "reject" /\ v.event.id = h
  BY RequestsAssumption DEF Rejecting
<1>2. ~IsRejected(s, h)
  BY <1>1 DEF ChangesState
<1>3. ASSUME NEW k \in 1 .. Len(s), Rejecting(s[k], h) PROVE FALSE
  <2>1. Len(s) \in Nat
    BY DEF States
  <2>2. \A j \in k + 1 .. Len(s) : j \in 1 .. Len(s)
    BY <2>1
  <2>3. StandsUnless(s, k, "hypothesis-reopened", h)
    BY <2>2 DEF StandsUnless, Settled, Reopening
  <2>4. IsRejected(s, h)
    BY <1>3, <2>3 DEF IsRejected, Holds, Adds, Removes, Rejecting
  <2> QED BY <1>2, <2>4
<1> QED BY <1>3 DEF Has

\* As long as h is not in the ledger an updater keeps what is settled about it.
LEMMA UpdaterBranches ==
  ASSUME LedgerInv, NEW u \in Updaters, UpdaterStep(u),
         NEW h \in Hypotheses, ledger[h] = None, BranchesOf(h)
  PROVE  BranchesOf(h)'
<1>1. UNCHANGED <<pc, job>>
  BY DEF UpdaterStep, StartUpdate, LoadState, Decide, AppendEvent, AppendEventCutShort,
         PersistState, RecordRejection, RecordReopening, RecordRefused, UpdaterDies, vars
<1>2. \A q \in Updaters \ {u} : at'[q] # "appending"
  BY OneUpdater
<1>3. CASE log' = log /\ (at'[u] = "appending" => work'[u].seen = Newest(log))
  <2>1. ASSUME NEW q \in Updaters, at'[q] = "appending"
        PROVE  Settled(log', work'[q].seen, h) /\ work'[q].seen = Newest(log')
    BY <1>2, <1>3, <2>1 DEF BranchesOf
  <2> QED BY <1>1, <1>3, <2>1 DEF BranchesOf
<1>4. CASE /\ at[u] = "appending" /\ at'[u] # "appending"
           /\ work[u].seen \in States /\ work[u].request \in Requests
           /\ Extends(log, log') /\ Len(log') = Len(log) + 1
           /\ Newest(log') = Append(work[u].seen, work[u].request.event)
           /\ \A m : Carries(log'[Len(log')], m) <=> m = work[u].request.event
  <2> DEFINE s == work[u].seen
             v == work[u].request
             x == v.event
             t == Append(s, x)
  <2>1. /\ Settled(log, s, h)
        /\ Has(Newest(log), h) => Has(s, h)
        /\ ChangesState(v, s) /\ v \in Requests /\ s \in States /\ x \in Mutations
        /\ v.op = "reopen" => ledger[x.id] # None
    BY <1>4, RequestsAssumption DEF BranchesOf, LedgerInv, Updating, Hypothesis
  <2>2. Len(log) \in Nat /\ Len(log') \in 1 .. Len(log')
        /\ \A j \in Len(log) + 1 .. Len(log') : j = Len(log')
    BY <1>4 DEF LedgerInv, TypeOK
  <2>3. ~Reopening(x, h)
    BY <2>1, RequestsAssumption DEF Reopening
  <2>4. /\ Len(s) \in Nat /\ Len(t) = Len(s) + 1 /\ t[Len(s) + 1] = x
        /\ \A k \in 1 .. Len(s) : t[k] = s[k]
    BY <2>1 DEF States
  <2>5. /\ Newest(log') = t
        /\ \A m : Carries(log'[Len(log')], m) <=> m = x
        /\ \A q \in Updaters : at'[q] # "appending"
    BY <1>2, <1>4
  <2> HIDE DEF s, v, x, t
  <2>6. CASE Rejecting(x, h)
    <3>1. ~Has(s, h) /\ ~Has(Newest(log), h)
      BY <2>1, <2>6, SettledRejection DEF x
    <3>2. \A p \in Procs : pc[p] = "appending" => ~Has(job[p].seen, h)
      BY <3>1 DEF BranchesOf
    <3>3. Settled(log', t, h)
      <4>1. Latest(log', h, x, Len(log'))
        <5>1. \A j \in Len(log') + 1 .. Len(log') : FALSE
          BY <2>2
        <5> QED BY <2>5, <5>1 DEF Latest
      <4>2. ASSUME NEW k \in 1 .. Len(t)
            PROVE  /\ ~Reopening(t[k], h)
                   /\ Rejecting(t[k], h) => \E i \in 1 .. Len(log') : Latest(log', h, t[k], i)
        <5>1. CASE k \in 1 .. Len(s)
          <6>1. t[k] = s[k] /\ ~Rejecting(s[k], h) /\ ~Reopening(s[k], h)
            BY <2>1, <2>4, <3>1, <5>1 DEF Has, Settled
          <6> QED BY <6>1
        <5>2. CASE k = Len(s) + 1
          BY <2>2, <2>3, <2>4, <4>1, <5>2
        <5> QED BY <2>4, <5>1, <5>2
      <4> QED BY <4>2 DEF Settled
    <3>4. ASSUME NEW p \in Procs, pc'[p] = "appending"
          PROVE  Settled(log', job'[p].seen, h) /\ ~Has(job'[p].seen, h)
      <4>1. Settled(log, job[p].seen, h) /\ ~Has(job[p].seen, h)
        BY <1>1, <3>2, <3>4 DEF BranchesOf
      <4>2. Settled(log', job[p].seen, h)
        BY <4>1 DEF Settled, Has
      <4> QED BY <1>1, <4>1, <4>2
    <3> QED BY <2>5, <3>3, <3>4 DEF BranchesOf
  <2>7. CASE ~Rejecting(x, h)
    <3>1. Silent(log, log', h)
      BY <2>2, <2>5, <2>7 DEF Silent, Rejects, Rejecting
    <3>2. \A b : Settled(log, b, h) => Settled(log', b, h)
      BY <1>4, <3>1, SettledStays
    <3>3. \A k \in 1 .. Len(t) : k \in 1 .. Len(s) \/ k = Len(s) + 1
      BY <2>4
    <3>4. Settled(log', s, h)
      BY <2>1, <3>2
    <3>5. Settled(log', t, h)
      BY <2>3, <2>4, <2>7, <3>3, <3>4 DEF Settled
    <3>6. Has(s, h) => Has(t, h)
      <4>1. \A k \in 1 .. Len(s) : k \in 1 .. Len(t)
        BY <2>4
      <4> QED BY <2>4, <4>1 DEF Has
    <3>7. ASSUME NEW p \in Procs, pc'[p] = "appending"
          PROVE  /\ Settled(log', job'[p].seen, h)
                 /\ Has(job'[p].seen, h) => Has(t, h)
      BY <1>1, <1>4, <3>2, <3>6, <3>7 DEF BranchesOf, s
    <3> QED BY <2>5, <3>5, <3>7 DEF BranchesOf
  <2> QED BY <2>6, <2>7
<1> QED BY <1>3, <1>4, UpdaterAdds

\* What an updater does to an item, and how one comes to be.
LEMMA ItemsChange ==
  ASSUME LedgerInv, NEW u \in Updaters, UpdaterStep(u), NEW h \in Hypotheses
  PROVE  /\ ledger[h] # None =>
              /\ ledger'[h] # None
              /\ ledger'[h].source = ledger[h].source /\ ledger'[h].request = ledger[h].request
              /\ \/ ledger'[h].status = ledger[h].status
                 \/ RecordReopening(u) /\ h = Hypothesis(u)
         /\ ledger[h] = None /\ ledger'[h] # None =>
              /\ RecordRejection(u) /\ h = Hypothesis(u)
              /\ ledger'[h] = Rejected(work[u].request,
                                       RejectedStateId(work[u].events, h, work[u].seen))
<1> USE DEF LedgerInv, UpdatersTyped
<1>1. CASE RecordRejection(u)
  <2> DEFINE g == Hypothesis(u)
             item == Rejected(work[u].request, RejectedStateId(work[u].events, g, work[u].seen))
  <2>1. ledger' = IF ledger[g] # None THEN ledger ELSE [ledger EXCEPT ![g] = item]
    BY <1>1 DEF RecordRejection, Hypothesis
  <2> HIDE DEF item
  <2>2. ledger[h] # None => ledger'[h] = ledger[h]
    BY <2>1
  <2>3. ledger[h] = None /\ ledger'[h] # None => h = g /\ ledger'[h] = item
    BY <2>1
  <2> QED BY <1>1, <2>2, <2>3 DEF item
<1>2. CASE RecordReopening(u)
  <2> DEFINE g == Hypothesis(u)
             fresh == FreshEvidence(work[u].request)
             new == Reopened(ledger, g, fresh)
  <2>1. /\ work[u].request \in Requests /\ g \in Hypotheses /\ ledger[g] # None
    BY <1>2 DEF RecordReopening, Updating, Hypothesis, Hypotheses
  <2>2. ledger[g] \in Items /\ fresh \in SUBSET AllRefs
    BY <2>1 DEF FreshEvidence, AllRefs
  <2>3. ledger' = new
    BY <1>2 DEF RecordReopening, Reopened, Hypothesis
  <2> HIDE DEF g, fresh
  <2>4. /\ new[g].source = ledger[g].source /\ new[g].request = ledger[g].request
        /\ (new[h] = None <=> ledger[h] = None)
        /\ (h # g => new[h] = ledger[h])
    BY <2>1, <2>2, ItemReopened
  <2> HIDE DEF new
  <2> QED BY <1>2, <2>3, <2>4 DEF g
<1>3. CASE ledger' = ledger
  BY <1>3
<1>4. RecordRejection(u) \/ RecordReopening(u) \/ ledger' = ledger
  BY DEF UpdaterStep, StartUpdate, LoadState, Decide, AppendEvent, AppendEventCutShort,
         PersistState, RecordRefused, UpdaterDies
<1> QED BY <1>1, <1>2, <1>3, <1>4

\* The log only grows.
LEMMA LogGrows ==
  ASSUME LedgerInv, [LedgerNext]_allVars
  PROVE  Extends(log, log')
<1>1. TypeOK /\ log \in Seq(Events)
  BY DEF LedgerInv, TypeOK
<1>2. CASE Next
  <2>1. PICK p \in Procs : Step(p)
    BY <1>2, NextIsAStep
  <2>2. CASE log' = log
    BY <1>1, <2>2, ExtendsItself
  <2>3. CASE /\ pc[p] = "appending"
             /\ \E k \in 0 .. Len(job[p].batch) :
                  log' = log \o SubSeq(EventsOf(job[p].seen, job[p].batch), 1, k)
    <3> DEFINE s == job[p].seen
               batch == job[p].batch
    <3>1. s \in States /\ batch \in States
      BY <2>3 DEF LedgerInv, Placed
    <3>2. PICK k \in 0 .. Len(batch) : log' = log \o SubSeq(EventsOf(s, batch), 1, k)
      BY <2>3
    <3> HIDE DEF s, batch
    <3>3. /\ log' \in Seq(Events) /\ Len(log') = Len(log) + k
          /\ \A i \in 1 .. Len(log) : log'[i] = log[i]
      BY <1>1, <3>1, <3>2, Appended
    <3>4. Len(log) \in Nat /\ k \in Nat
      BY <1>1, <3>1, <3>2
    <3> QED BY <1>1, <3>3, <3>4 DEF Extends
  <2> QED BY <1>1, <2>1, <2>2, <2>3, ProcessWrites DEF LedgerInv
<1>3. CASE \E u \in Updaters : UpdaterStep(u)
  <2>1. PICK u \in Updaters : UpdaterStep(u)
    BY <1>3
  <2> QED BY <1>1, <2>1, UpdaterAdds, ExtendsItself
<1>4. CASE UNCHANGED vars
  BY <1>1, <1>4, ExtendsItself DEF vars
<1> QED BY <1>2, <1>3, <1>4 DEF LedgerNext, CheckRevisited, allVars

\* What an updater found in the log stays there.
LEMMA FoundStays ==
  ASSUME LedgerInv, [LedgerNext]_allVars, NEW u \in Updaters,
         at'[u] = at[u], work'[u] = work[u],
         ledger[Hypothesis(u)] # None =>
           /\ ledger'[Hypothesis(u)] # None
           /\ ledger'[Hypothesis(u)].status = ledger[Hypothesis(u)].status,
         Founded(u), ReopenFound(u)
  PROVE  Founded(u)' /\ ReopenFound(u)'
<1>1. Extends(log, log') /\ \A i \in 1 .. Len(log) : i \in 1 .. Len(log') /\ log'[i] = log[i]
  <2>1. Extends(log, log') /\ Len(log) \in Nat
    BY LogGrows DEF LedgerInv, TypeOK
  <2> QED BY <2>1 DEF Extends
<1>2. Hypothesis(u)' = Hypothesis(u)
  BY DEF Hypothesis
<1>3. Founded(u)'
  BY <1>1, <1>2 DEF Founded
<1>4. ReopenFound(u)'
  BY <1>1, <1>2 DEF ReopenFound, LedgerInv, Updating
<1> QED BY <1>3, <1>4

\* What an updater finds in the log, or adds to it.
LEMMA UpdaterFinds ==
  ASSUME LedgerInv, NEW u \in Updaters, UpdaterStep(u), Founded(u), ReopenFound(u),
         \A h \in Hypotheses : ledger[h] = None => BranchesOf(h)
  PROVE  Founded(u)' /\ ReopenFound(u)'
<1> DEFINE v == work[u].request
           x == v.event
           h == Hypothesis(u)
<1> USE DEF LedgerInv, UpdatersTyped
<1>1. CASE at'[u] \notin {"replacing", "recording"}
  BY <1>1 DEF Founded, ReopenFound
<1>2. CASE Decide(u) /\ at'[u] = "recording"
  <2>1. MayUpdate(v, work[u].seen, log)
    BY <1>2 DEF Decide, Quit, Move
  <2>2. ~ChangesState(v, work[u].seen)
    BY <1>2, <2>1 DEF Decide, Move
  <2>3. work' = [work EXCEPT ![u].events = log] /\ ledger' = ledger /\ log' = log
    BY <1>2, <2>1 DEF Decide, vars
  <2>4. /\ work'[u].request = v /\ work'[u].events = log /\ Hypothesis(u)' = h
    BY <2>3 DEF Hypothesis
  <2>5. v \in Requests /\ x \in Mutations /\ h \in Hypotheses /\ x.id = h
    BY <1>2, RequestsAssumption DEF Decide, Updating, Hypothesis, Hypotheses
  <2>6. ASSUME v.op = "reject", ledger[h] = None
        PROVE  \E i \in 1 .. Len(log) : Latest(log, h, x, i)
    <3>1. IsRejected(work[u].seen, h)
      BY <2>2, <2>5, <2>6 DEF ChangesState
    <3>2. RejectedAs(work[u].seen, x) /\ Newest(log) = work[u].seen
      BY <2>1, <2>5, <2>6, <3>1 DEF MayUpdate
    <3>3. PICK k \in 1 .. Len(work[u].seen) : work[u].seen[k] = x
      BY <3>2 DEF RejectedAs
    <3>4. Rejecting(x, h)
      BY <2>5, <2>6, RequestsAssumption DEF Rejecting
    <3>5. Settled(log, Newest(log), h)
      BY <2>5, <2>6 DEF BranchesOf
    <3> QED BY <3>2, <3>3, <3>4, <3>5 DEF Settled
  <2>7. ASSUME v.op = "reopen"
        PROVE  ledger[h].status = "reopened" \/ \E j \in 1 .. Len(log) : Carries(log[j], x)
    <3>1. MayReopenItem(v, work[u].seen, log)
      BY <2>1, <2>7 DEF MayUpdate
    <3>2. ledger[h] \in Items
      BY <2>5, <3>1 DEF MayReopenItem
    <3>3. ~IsRejected(work[u].seen, h)
      BY <2>2, <2>5, <2>7 DEF ChangesState
    <3>4. ledger[h].status # "rejected" => ledger[h].status = "reopened"
      BY <3>2 DEF Items
    <3> QED BY <2>5, <3>1, <3>3, <3>4 DEF MayReopenItem, HasMatchingReopenEvent
  <2>8. Founded(u)'
    BY <2>3, <2>4, <2>6 DEF Founded
  <2>9. ReopenFound(u)'
    BY <2>3, <2>4, <2>7 DEF ReopenFound
  <2> QED BY <2>8, <2>9
<1>3. CASE AppendEvent(u)
  <2> DEFINE s == work[u].seen
             events == work[u].events
             longer == events \o EventsOf(s, <<x>>)
  <2>1. /\ v \in Requests /\ x \in Mutations /\ s \in States /\ events \in Seq(Events)
        /\ log \in Seq(Events) /\ h \in Hypotheses /\ x.id = h
    BY <1>3, RequestsAssumption DEF AppendEvent, Updating, Works, TypeOK, Hypothesis,
       Hypotheses
  <2>2. work' = [work EXCEPT ![u].events = longer] /\ ledger' = ledger
        /\ log' = log \o EventsOf(s, <<x>>)
    BY <1>3 DEF AppendEvent, WriteEvents
  <2> DEFINE n == Len(longer)
             k == Len(log')
  <2> HIDE DEF s, events, x, longer
  <2>3. work'[u].request = v /\ work'[u].events = longer /\ Hypothesis(u)' = h
    BY <2>2 DEF Hypothesis
  <2>4. /\ Len(longer) = Len(events) + 1 /\ Newest(longer) = Append(s, x)
        /\ \A m : Carries(longer[Len(events) + 1], m) <=> m = x
    BY <2>1, OneAdds DEF longer
  <2>5. /\ Len(log') = Len(log) + 1 /\ Newest(log') = Append(s, x)
        /\ \A m : Carries(log'[Len(log) + 1], m) <=> m = x
    BY <2>1, <2>2, OneAdds
  <2>6. Len(events) \in Nat /\ Len(log) \in Nat
    BY <2>1
  <2>7. n \in 1 .. n /\ k \in 1 .. k
    BY <2>4, <2>5, <2>6
  <2>8. Latest(longer, h, x, n)
    <3>1. \A j \in n + 1 .. n : FALSE
      BY <2>4, <2>6
    <3> QED BY <2>4, <3>1 DEF Latest
  <2>9. log'[k].new = longer[n].new /\ Carries(log'[k], x)
    BY <2>4, <2>5 DEF Newest
  <2>10. Founded(u)'
    BY <2>3, <2>7, <2>8, <2>9 DEF Founded, x
  <2>11. ReopenFound(u)'
    BY <2>3, <2>7, <2>9 DEF ReopenFound, x
  <2> QED BY <2>10, <2>11
<1>4. CASE PersistState(u)
  <2>1. /\ at[u] = "replacing" /\ ledger' = ledger /\ log' = log
        /\ work' = [work EXCEPT ![u].seen = Append(@, work[u].request.event),
                                ![u].changed = TRUE]
    BY <1>4 DEF PersistState
  <2>2. work'[u].request = v /\ work'[u].events = work[u].events /\ Hypothesis(u)' = h
    BY <2>1 DEF Hypothesis
  <2>3. Founded(u)'
    BY <2>1, <2>2 DEF Founded
  <2>4. ReopenFound(u)'
    BY <2>1, <2>2 DEF ReopenFound
  <2> QED BY <2>3, <2>4
<1>5. CASE \/ StartUpdate(u) \/ LoadState(u) \/ AppendEventCutShort(u) \/ RecordRejection(u)
           \/ RecordReopening(u) \/ RecordRefused(u) \/ UpdaterDies(u)
  <2>1. at'[u] \notin {"replacing", "recording"}
    BY <1>5 DEF StartUpdate, LoadState, AppendEventCutShort, RecordRejection,
                RecordReopening, RecordRefused, UpdaterDies, Quit, Move
  <2> QED BY <1>1, <2>1
<1>6. CASE Decide(u) /\ at'[u] # "recording"
  <2>1. at'[u] \notin {"replacing", "recording"}
    BY <1>6 DEF Decide, Quit, Move
  <2> QED BY <1>1, <2>1
<1> QED BY <1>2, <1>3, <1>4, <1>5, <1>6 DEF UpdaterStep

\* An item's source is the event that the updater has found.
LEMMA SourceIsLatest ==
  ASSUME NEW events \in Seq(Events), NEW h, NEW m \in Mutations, Rejecting(m, h),
         NEW i \in 1 .. Len(events), Latest(events, h, m, i), NEW s
  PROVE  RejectedStateId(events, h, s) = events[i].new
<1> DEFINE found == {k \in 1 .. Len(events) : Rejects(events[k], h)}
<1>1. i \in found
  BY DEF Latest, Rejects, Rejecting
<1>2. Len(events) \in Nat
  OBVIOUS
<1>3. \A j \in found : j <= i
  BY <1>2 DEF Latest
<1>4. \A k \in found : (\A j \in found : j <= k) => k = i
  BY <1>1, <1>2, <1>3
<1>5. (CHOOSE k \in found : \A j \in found : j <= k) = i
  <2> HIDE DEF found
  <2> QED BY <1>1, <1>3, <1>4
<1> QED BY <1>1, <1>5 DEF RejectedStateId

\* An item that an updater has not touched, or has made, names its rejection.
Sourced(h) == ledger[h] # None => \E i \in 1 .. Len(log) : SourceIs(h, i)

ReopenedBehind(h) ==
  ledger[h] # None /\ ledger[h].status = "reopened" =>
    \E i \in 1 .. Len(log) : SourceIs(h, i) /\
      \E j \in i + 1 .. Len(log), v \in Requests :
        v.op = "reopen" /\ v.event.id = h /\ Carries(log[j], v.event)

RevisitsTold == \A r \in revisits : \A m \in r.matched :
  \E i \in 1 .. Len(log) : Rejects(log[i], m[1])

LEMMA TracedInParts ==
  LedgerIsTraced <=>
    RevisitsTold /\ \A h \in Hypotheses : Sourced(h) /\ ReopenedBehind(h)
BY DEF LedgerIsTraced, RevisitsTold, Sourced, ReopenedBehind, SourceIs

LEMMA TracedFromParts ==
  ASSUME RevisitsTold', \A h \in Hypotheses : Sourced(h)' /\ ReopenedBehind(h)'
  PROVE  LedgerIsTraced'
BY DEF LedgerIsTraced, RevisitsTold, Sourced, ReopenedBehind, SourceIs

\* A step that leaves the items keeps them traced.
LEMMA SourceStays ==
  ASSUME NEW h \in Hypotheses, Extends(log, log'),
         ledger[h] # None => /\ ledger'[h] # None
                             /\ ledger'[h].source = ledger[h].source
                             /\ ledger'[h].request = ledger[h].request
  PROVE  \A i \in 1 .. Len(log) : SourceIs(h, i) => i \in 1 .. Len(log') /\ SourceIs(h, i)'
<1>1. Len(log) \in Nat /\ Len(log') \in Nat /\ Len(log) <= Len(log')
  BY DEF Extends
<1>2. \A i \in 1 .. Len(log) : log'[i] = log[i] /\ i \in 1 .. Len(log')
  BY <1>1 DEF Extends
<1> QED BY <1>2 DEF SourceIs

\* ... and so does one that neither makes one nor reopens one.
LEMMA TraceStays ==
  ASSUME LedgerInv, TracedInv, Extends(log, log'), NEW h \in Hypotheses,
         ledger[h] # None => /\ ledger'[h] # None
                             /\ ledger'[h].source = ledger[h].source
                             /\ ledger'[h].request = ledger[h].request,
         ledger[h] = None => ledger'[h] = None
  PROVE  /\ Sourced(h)'
         /\ ledger'[h] # None /\ ledger'[h].status = ledger[h].status => ReopenedBehind(h)'
         /\ ledger'[h] # None => Rejecting(ledger'[h].request.event, h)
<1>1. Len(log) \in Nat /\ Len(log') \in Nat /\ Len(log) <= Len(log')
  BY DEF Extends
<1>2. \A i \in 1 .. Len(log) : SourceIs(h, i) => i \in 1 .. Len(log') /\ SourceIs(h, i)'
  BY SourceStays
<1>3. Sourced(h) /\ ReopenedBehind(h)
  BY TracedInParts DEF TracedInv
<1>4. Sourced(h)'
  BY <1>2, <1>3 DEF Sourced
<1>5. ASSUME ledger'[h] # None, ledger'[h].status = ledger[h].status,
             ledger'[h].status = "reopened"
      PROVE  \E i \in 1 .. Len(log') : SourceIs(h, i)' /\
               \E j \in i + 1 .. Len(log'), v \in Requests :
                 v.op = "reopen" /\ v.event.id = h /\ Carries(log'[j], v.event)
  <2>1. PICK i \in 1 .. Len(log) : SourceIs(h, i) /\
          \E j \in i + 1 .. Len(log), v \in Requests :
            v.op = "reopen" /\ v.event.id = h /\ Carries(log[j], v.event)
    BY <1>3, <1>5 DEF ReopenedBehind
  <2>2. PICK j \in i + 1 .. Len(log), v \in Requests :
          v.op = "reopen" /\ v.event.id = h /\ Carries(log[j], v.event)
    BY <2>1
  <2>3. j \in 1 .. Len(log) /\ j \in i + 1 .. Len(log')
    BY <1>1, <2>1
  <2>4. log'[j] = log[j]
    BY <2>3 DEF Extends
  <2> QED BY <1>2, <2>1, <2>2, <2>3, <2>4
<1>6. ledger'[h] # None => Rejecting(ledger'[h].request.event, h)
  BY DEF TracedInv, ItemsAreOwn
<1> QED BY <1>4, <1>5, <1>6 DEF ReopenedBehind

\* Revisits on record name hypotheses that the log rejects.
LEMMA RevisitsStay ==
  ASSUME RevisitsTold, Extends(log, log'), revisits' = revisits
  PROVE  RevisitsTold'
<1>1. Len(log) \in Nat /\ Len(log') \in Nat /\ Len(log) <= Len(log')
  BY DEF Extends
<1>2. \A i \in 1 .. Len(log) : log'[i] = log[i] /\ i \in 1 .. Len(log')
  BY <1>1 DEF Extends
<1> QED BY <1>2 DEF RevisitsTold

\* A process that is no updater.
LEMMA ProcessTraces ==
  ASSUME LedgerInv, TracedInv, DeltasLeaveHypotheses, Next, UNCHANGED ledgerVars
  PROVE  TracedInv'
<1>1. PICK p \in Procs : Step(p)
  BY NextIsAStep
<1>2. /\ Extends(log, log') /\ UNCHANGED <<ledger, revisits, at, work>>
      /\ Len(log) \in Nat /\ Len(log') \in Nat
  BY LogGrows DEF LedgerNext, ledgerVars, Extends
<1>3. \A q \in Procs : Drafted(q)'
  BY <1>1, DraftedKept DEF LedgerInv, TracedInv
<1>4. \A h \in Hypotheses : ledger'[h] = None => BranchesOf(h)'
  BY <1>1, <1>2, ProcessBranches DEF TracedInv
<1>5. \A u \in Updaters : Founded(u)' /\ ReopenFound(u)'
  <2>1. [LedgerNext]_allVars
    BY DEF LedgerNext
  <2> QED BY <1>2, <2>1, FoundStays DEF TracedInv
<1>6. \A h \in Hypotheses :
        /\ \A i \in 1 .. Len(log) : SourceIs(h, i) => i \in 1 .. Len(log') /\ SourceIs(h, i)'
        /\ Sourced(h)' /\ ReopenedBehind(h)'
        /\ ledger'[h] # None => Rejecting(ledger'[h].request.event, h)
  <2> SUFFICES ASSUME NEW h \in Hypotheses
               PROVE  /\ \A i \in 1 .. Len(log) :
                           SourceIs(h, i) => i \in 1 .. Len(log') /\ SourceIs(h, i)'
                      /\ Sourced(h)' /\ ReopenedBehind(h)'
                      /\ ledger'[h] # None => Rejecting(ledger'[h].request.event, h)
    OBVIOUS
  <2>1. \A i \in 1 .. Len(log) : SourceIs(h, i) => i \in 1 .. Len(log') /\ SourceIs(h, i)'
    BY <1>2, SourceStays
  <2>2. /\ Sourced(h)'
        /\ ledger'[h] # None /\ ledger'[h].status = ledger[h].status => ReopenedBehind(h)'
        /\ ledger'[h] # None => Rejecting(ledger'[h].request.event, h)
    BY <1>2, TraceStays
  <2> QED BY <1>2, <2>1, <2>2 DEF ReopenedBehind
<1>7. ASSUME NEW h \in Hypotheses, NEW j \in 1 .. Len(log'), NEW m \in Mutations,
             Reopening(m, h), Carries(log'[j], m)
      PROVE  \E i \in 1 .. j - 1 : SourceIs(h, i)'
  <2>1. log' # log => \A k \in Len(log) + 1 .. Len(log') : \A x, g :
          Rejecting(x, g) \/ Reopening(x, g) => ~Carries(log'[k], x)
    BY <1>1, ProcessAdds DEF TracedInv
  <2>2. j \in 1 .. Len(log)
    BY <1>2, <1>7, <2>1
  <2>3. Carries(log[j], m)
    BY <1>2, <1>7, <2>2 DEF Extends
  <2>4. PICK i \in 1 .. j - 1 : SourceIs(h, i)
    BY <1>7, <2>2, <2>3 DEF TracedInv, ReopeningsHaveSource
  <2>5. i \in 1 .. Len(log)
    BY <1>2, <2>2, <2>4
  <2> QED BY <1>6, <2>4, <2>5
<1>8. RevisitsTold'
  BY <1>2, RevisitsStay, TracedInParts DEF TracedInv
<1>9. LedgerIsTraced'
  BY <1>6, <1>8, TracedFromParts
<1>10. ReopeningsHaveSource' /\ ItemsAreOwn'
  BY <1>6, <1>7 DEF ReopeningsHaveSource, ItemsAreOwn
<1> QED BY <1>3, <1>4, <1>5, <1>9, <1>10 DEF TracedInv


\* An updater.
LEMMA UpdaterTraces ==
  ASSUME LedgerInv, TracedInv, NEW u \in Updaters, UpdaterStep(u), UNCHANGED revisits
  PROVE  TracedInv'
<1> USE DEF LedgerInv, UpdatersTyped
<1>1. [LedgerNext]_allVars
  BY DEF LedgerNext
<1>2. Extends(log, log') /\ Len(log) \in Nat /\ Len(log') \in Nat /\ Len(log) <= Len(log')
  BY <1>1, LogGrows DEF Extends
<1>3. \A q \in Procs : Drafted(q)'
  <2>1. UNCHANGED <<pc, job>>
    BY DEF UpdaterStep, StartUpdate, LoadState, Decide, AppendEvent, AppendEventCutShort,
           PersistState, RecordRejection, RecordReopening, RecordRefused, UpdaterDies, vars
  <2> QED BY <2>1 DEF TracedInv, Drafted
<1>4. \A h \in Hypotheses : ledger'[h] = None => BranchesOf(h)'
  BY UpdaterBranches, LedgerKept DEF TracedInv
<1>5. \A q \in Updaters : Founded(q)' /\ ReopenFound(q)'
  <2>1. Founded(u)' /\ ReopenFound(u)'
    BY UpdaterFinds DEF TracedInv
  <2>2. ASSUME NEW q \in Updaters \ {u} PROVE Founded(q)' /\ ReopenFound(q)'
    BY OneUpdater DEF Founded, ReopenFound
  <2> QED BY <2>1, <2>2
<1>6. ASSUME NEW h \in Hypotheses
      PROVE  /\ \A i \in 1 .. Len(log) :
                  SourceIs(h, i) => i \in 1 .. Len(log') /\ SourceIs(h, i)'
             /\ Sourced(h)' /\ ReopenedBehind(h)'
             /\ ledger'[h] # None => Rejecting(ledger'[h].request.event, h)
  <2>1. \A i \in 1 .. Len(log) : SourceIs(h, i) => i \in 1 .. Len(log') /\ SourceIs(h, i)'
    BY <1>2, ItemsChange, SourceStays
  <2>2. CASE ledger[h] = None /\ ledger'[h] # None
    <3> DEFINE v == work[u].request
               events == work[u].events
               source == RejectedStateId(events, h, work[u].seen)
    <3>1. RecordRejection(u) /\ h = Hypothesis(u) /\ ledger'[h] = Rejected(v, source)
      BY <2>2, ItemsChange
    <3>2. at[u] = "recording" /\ v.op = "reject" /\ v \in Requests /\ log' = log
      BY <3>1 DEF RecordRejection, Updating, vars
    <3>3. events \in Seq(Events) /\ v.event \in Mutations /\ Rejecting(v.event, h)
      BY <3>1, <3>2, RequestsAssumption DEF Works, Rejecting, Hypothesis
    <3>4. PICK i \in 1 .. Len(events) :
            /\ Latest(events, h, v.event, i)
            /\ \E j \in 1 .. Len(log) : log[j].new = events[i].new
      BY <2>2, <3>1, <3>2 DEF TracedInv, Founded
    <3>5. PICK j \in 1 .. Len(log) : log[j].new = events[i].new
      BY <3>4
    <3> HIDE DEF v, events
    <3>6. source = events[i].new
      BY <3>3, <3>4, SourceIsLatest
    <3>7. Carries(log[j], v.event)
      BY <3>4, <3>5 DEF Latest, Carries
    <3> HIDE DEF source
    <3>8. /\ ledger'[h].status = "rejected" /\ ledger'[h].request = v
          /\ ledger'[h].source = source
      BY <3>1 DEF Rejected
    <3>9. SourceIs(h, j)'
      BY <2>2, <3>2, <3>5, <3>6, <3>7, <3>8 DEF SourceIs
    <3>10. Sourced(h)'
      BY <3>2, <3>9 DEF Sourced
    <3>11. ReopenedBehind(h)'
      BY <3>8 DEF ReopenedBehind
    <3> QED BY <2>1, <3>3, <3>8, <3>10, <3>11
  <2>3. CASE ledger[h] = None /\ ledger'[h] = None
    BY <2>1, <2>3 DEF Sourced, ReopenedBehind
  <2>4. CASE ledger[h] # None /\ ledger'[h].status = ledger[h].status
    <3>1. /\ Sourced(h)' /\ ReopenedBehind(h)'
          /\ ledger'[h] # None => Rejecting(ledger'[h].request.event, h)
      BY <1>2, <2>4, ItemsChange, TraceStays
    <3> QED BY <2>1, <3>1
  <2>5. CASE /\ ledger[h] # None /\ ledger'[h].status # ledger[h].status
             /\ RecordReopening(u) /\ h = Hypothesis(u)
    <3> DEFINE v == work[u].request
    <3>1. /\ Sourced(h)' /\ ledger'[h] # None
          /\ Rejecting(ledger'[h].request.event, h)
      BY <1>2, <2>5, ItemsChange, TraceStays
    <3>2. at[u] = "recording" /\ v.op = "reopen" /\ v \in Requests /\ log' = log
      BY <2>5 DEF RecordReopening, Updating, vars
    <3>3. v.event \in Mutations /\ Reopening(v.event, h) /\ v.event.id = h
      BY <2>5, <3>2, RequestsAssumption DEF Reopening, Hypothesis
    <3>4. ledger'[h].status = "reopened"
      <4> DEFINE fresh == FreshEvidence(v)
                 new == Reopened(ledger, h, fresh)
      <4>1. ledger' = new
        BY <2>5 DEF RecordReopening, Reopened, Hypothesis
      <4>2. ledger[h] \in Items /\ fresh \in SUBSET AllRefs
        BY <2>5, <3>2 DEF FreshEvidence, AllRefs
      <4> HIDE DEF fresh, v
      <4>3. new[h].status = "reopened"
        BY <2>5, <4>2, ItemReopened
      <4> HIDE DEF new
      <4> QED BY <4>1, <4>3
    <3>5. PICK j \in 1 .. Len(log) : Carries(log[j], v.event)
      BY <2>5, <3>2, <3>4 DEF TracedInv, ReopenFound
    <3>6. PICK i \in 1 .. j - 1 : SourceIs(h, i)
      BY <3>3, <3>5 DEF TracedInv, ReopeningsHaveSource
    <3>7. i \in 1 .. Len(log) /\ j \in i + 1 .. Len(log) /\ SourceIs(h, i)'
      BY <1>2, <2>1, <3>5, <3>6
    <3>8. ReopenedBehind(h)'
      BY <3>2, <3>3, <3>5, <3>7 DEF ReopenedBehind
    <3> QED BY <2>1, <3>1, <3>8
  <2> QED BY <2>2, <2>3, <2>4, <2>5, ItemsChange
<1>7. ASSUME NEW h \in Hypotheses, NEW j \in 1 .. Len(log'), NEW m \in Mutations,
             Reopening(m, h), Carries(log'[j], m)
      PROVE  \E i \in 1 .. j - 1 : SourceIs(h, i)'
  <2>1. CASE j \in 1 .. Len(log)
    <3>1. Carries(log[j], m)
      BY <1>2, <1>7, <2>1 DEF Extends
    <3>2. PICK i \in 1 .. j - 1 : SourceIs(h, i)
      BY <1>7, <2>1, <3>1 DEF TracedInv, ReopeningsHaveSource
    <3>3. i \in 1 .. Len(log)
      BY <1>2, <2>1, <3>2
    <3> QED BY <1>6, <3>2, <3>3
  <2>2. CASE j \notin 1 .. Len(log)
    <3>1. log' # log
      BY <2>2
    <3>2. /\ at[u] = "appending" /\ work[u].request \in Requests
          /\ Len(log') = Len(log) + 1
          /\ \A x : Carries(log'[Len(log')], x) <=> x = work[u].request.event
      BY <3>1, UpdaterAdds
    <3>3. j = Len(log') /\ m = work[u].request.event
      BY <1>2, <1>7, <2>2, <3>2
    <3>4. work[u].request.op = "reopen" /\ h = Hypothesis(u)
      BY <1>7, <3>2, <3>3, RequestsAssumption DEF Reopening, Hypothesis
    <3>5. ledger[h] # None
      BY <3>2, <3>4 DEF Updating
    <3>6. PICK i \in 1 .. Len(log) : SourceIs(h, i)
      BY <3>5, TracedInParts DEF TracedInv, Sourced
    <3>7. i \in 1 .. j - 1
      BY <1>2, <3>2, <3>3
    <3> QED BY <1>6, <3>6, <3>7
  <2> QED BY <2>1, <2>2
<1>8. RevisitsTold'
  BY <1>2, RevisitsStay, TracedInParts DEF TracedInv
<1>9. LedgerIsTraced'
  BY <1>6, <1>8, TracedFromParts
<1>10. ReopeningsHaveSource' /\ ItemsAreOwn'
  BY <1>6, <1>7 DEF ReopeningsHaveSource, ItemsAreOwn
<1> QED BY <1>3, <1>4, <1>5, <1>9, <1>10 DEF TracedInv

\* A revisit is told of hypotheses in the ledger only.
LEMMA RevisitTraces ==
  ASSUME LedgerInv, TracedInv, NEW p \in Proposals, CheckRevisited(p)
  PROVE  TracedInv'
<1>1. UNCHANGED <<log, pc, job, ledger, at, work>>
  BY DEF CheckRevisited, vars
<1>2. revisits' = revisits \cup {RevisitOf(p)}
  BY DEF CheckRevisited
<1>3. RevisitsTold /\ \A h \in Hypotheses : Sourced(h) /\ ReopenedBehind(h)
  BY TracedInParts DEF TracedInv
<1>4. ASSUME NEW m \in RevisitOf(p).matched PROVE \E i \in 1 .. Len(log) : Rejects(log[i], m[1])
  <2>1. PICK h \in Matched(p) : m = <<h, MatchType(p, h)>>
    BY DEF RevisitOf
  <2>2. h \in Hypotheses /\ ledger[h] # None /\ m[1] = h
    BY <2>1 DEF Matched, Active
  <2>3. PICK i \in 1 .. Len(log) : SourceIs(h, i)
    BY <1>3, <2>2 DEF Sourced
  <2>4. ledger[h].request \in Requests
    BY <2>2 DEF LedgerInv, UpdatersTyped, Items
  <2>5. ledger[h].request.event \in Mutations /\ Rejecting(ledger[h].request.event, h)
    BY <2>2, <2>4, RequestsAssumption DEF TracedInv, ItemsAreOwn
  <2> QED BY <2>2, <2>3, <2>5 DEF SourceIs, Rejects, Rejecting
<1>5. RevisitsTold'
  BY <1>1, <1>2, <1>3, <1>4 DEF RevisitsTold
<1>6. \A h \in Hypotheses : Sourced(h)' /\ ReopenedBehind(h)'
  BY <1>1, <1>3 DEF Sourced, ReopenedBehind, SourceIs
<1>7. LedgerIsTraced'
  BY <1>5, <1>6, TracedFromParts
<1> QED BY <1>1, <1>7 DEF TracedInv, Drafted, BranchesOf, Founded, ReopenFound, Hypothesis,
        ReopeningsHaveSource, SourceIs, ItemsAreOwn

LEMMA TracedInitially == LedgerInit => TracedInv
<1> SUFFICES ASSUME LedgerInit PROVE TracedInv
  OBVIOUS
<1> USE DEF LedgerInit, Init
<1>1. /\ log = <<[base |-> None, new |-> <<>>]>> /\ Len(log) = 1 /\ log[1].new = <<>>
      /\ Newest(log) = <<>> /\ revisits = {}
      /\ \A h \in Hypotheses : ledger[h] = None
      /\ \A u \in Updaters : at[u] = "idle"
      /\ \A p \in Procs : pc[p] = "idle"
  BY DEF Newest
<1>2. \A m : \A j \in 1 .. Len(log) : ~Carries(log[j], m)
  BY <1>1 DEF Carries
<1>3. \A h \in Hypotheses : BranchesOf(h)
  BY <1>1 DEF BranchesOf, Settled
<1>4. ReopeningsHaveSource /\ ItemsAreOwn /\ LedgerIsTraced
  BY <1>1, <1>2 DEF ReopeningsHaveSource, ItemsAreOwn, LedgerIsTraced
<1> QED BY <1>1, <1>3, <1>4 DEF TracedInv, Drafted, Founded, ReopenFound

LEMMA TracedKept ==
  ASSUME DeltasLeaveHypotheses
  PROVE  LedgerInv /\ TracedInv /\ [LedgerNext]_allVars => TracedInv'
<1> SUFFICES ASSUME LedgerInv, TracedInv, [LedgerNext]_allVars PROVE TracedInv'
  OBVIOUS
<1>1. CASE Next /\ UNCHANGED ledgerVars
  BY <1>1, ProcessTraces
<1>2. CASE \E u \in Updaters : UpdaterStep(u) /\ UNCHANGED revisits
  BY <1>2, UpdaterTraces
<1>3. CASE \E p \in Proposals : CheckRevisited(p)
  BY <1>3, RevisitTraces
<1>4. CASE UNCHANGED allVars
  <2>1. UNCHANGED <<log, pc, job, ledger, at, work, revisits>>
    BY <1>4 DEF allVars, vars, ledgerVars
  <2> QED BY <2>1 DEF TracedInv, Drafted, BranchesOf, Founded, ReopenFound, Hypothesis,
          ReopeningsHaveSource, SourceIs, ItemsAreOwn, LedgerIsTraced
<1> QED BY <1>1, <1>2, <1>3, <1>4 DEF LedgerNext

\* If deltas leave hypotheses alone, every item can be followed back to its rejection in the
\* log, however the log has forked meanwhile.
THEOREM ItemsAreTraced ==
  ASSUME DeltasLeaveHypotheses
  PROVE  LedgerSpec => []LedgerIsTraced
<1>1. LedgerInv /\ TracedInv /\ [LedgerNext]_allVars => TracedInv'
  BY TracedKept
<1>2. TracedInv => LedgerIsTraced
  BY DEF TracedInv
<1> QED BY <1>1, <1>2, TracedInitially, LedgerInvariant, PTL DEF LedgerSpec
=============================================================================
