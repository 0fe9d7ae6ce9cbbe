----------------------------- MODULE Records_proofs -----------------------------
(***************************************************************************)
(* Theorems about the records by which work is judged and passed on, for   *)
(* every number of items, objects, owners, leases, states and answers: the *)
(* acceptance graph over the evidence store, the owner lease, the context  *)
(* lease and the handoff.  They share no state; each has its invariant.    *)
(***************************************************************************)
EXTENDS AcceptanceReview, OwnerLease, ContextLease, Handoff, FiniteSetTheorems,
        WellFoundedInduction, TLAPS

LOCAL INSTANCE ReviewLadder WITH Criteria <- Items

-----------------------------------------------------------------------------
(* Natural numbers.                                                         *)

\* A set of natural numbers that is not empty has a least member.
LEMMA LeastNatural ==
  ASSUME NEW T \in SUBSET Nat, T # {}
  PROVE  \E m \in T : \A n \in T : ~(n < m)
<1> DEFINE Less == OpToRel(<, Nat)
<1>1. IsWellFoundedOn(Less, Nat)
  BY NatLessThanWellFounded
<1> HIDE DEF Less
<1>2. \E m \in T : \A n \in T : ~(<<n, m>> \in Less)
  BY <1>1, WFMin
<1>3. \A m, n \in Nat : n < m => <<n, m>> \in Less
  BY DEF Less, OpToRel
<1>4. QED
  BY <1>2, <1>3

\* Induction over the natural numbers, for a set of them.
LEMMA SetInduction ==
  ASSUME NEW T, 0 \in T, \A n \in Nat : n \in T => n + 1 \in T
  PROVE  Nat \subseteq T
<1> SUFFICES ASSUME ~(Nat \subseteq T) PROVE FALSE
  OBVIOUS
<1> DEFINE Out == {n \in Nat : n \notin T}
<1>1. Out \in SUBSET Nat /\ Out # {}
  OBVIOUS
<1>2. PICK m \in Out : \A n \in Out : ~(n < m)
  <2> HIDE DEF Out
  <2>. QED BY <1>1, LeastNatural
<1>3. m # 0 /\ m \in Nat
  OBVIOUS
<1>4. m - 1 \in Nat /\ m - 1 \in T
  BY <1>2, <1>3
<1>5. QED
  BY <1>4, <1>3, <1>2

-----------------------------------------------------------------------------
(* The evidence store and the reviews that rest on it.                      *)

\* What a pass may be: what it has still to write, the worktree it has read, whether it
\* covers the whole store, and whether nothing has happened beside it.
Runs == [todo : SUBSET Objects, context : {None} \cup [Paths -> Hashes \cup {Gone}],
         all : BOOLEAN, alone : BOOLEAN]

\* The shapes of the store.
StoreTyped ==
  /\ context \in [Paths -> Hashes \cup {Gone}]
  /\ stored \subseteq Objects
  /\ sidecar \in [Objects -> {"none", "valid", "stale", "unknown"}]
  /\ pass \in [Passes -> Runs]
  /\ \A i \in Items : state.item[i].refs \subseteq Objects

\* What may be loaded is about the worktree as it is.
Current(o) == Loadable(o) => o.hash = context[o.path]

\* A pass that is alone has read the worktree as it is, and no other is under way.
AloneMeansAlone ==
  \A r \in Passes : pass[r].alone =>
    /\ pass[r].context = context
    /\ \A s \in Passes \ {r} : pass[s] = Idle

\* What such a pass over the whole store has behind it is current.
WrittenIsCurrent ==
  \A r \in Passes : pass[r].alone /\ pass[r].all =>
    \A o \in stored \ pass[r].todo : Current(o)

\* After it, the whole store is.
SettledIsCurrent == settled => \A o \in stored : Current(o)

\* The invariant of the store.
StoreInv == StoreTyped /\ AloneMeansAlone /\ WrittenIsCurrent /\ SettledIsCurrent

\* A pass that has not begun is a pass, and its figures are not taken.
LEMMA IdleIsRun == Idle \in Runs /\ ~Idle.alone
BY DEF Idle, Runs

\* A pass beside which something happens is still a pass, and no longer alone; an idle one is untouched.
LEMMA RunBeside ==
  ASSUME NEW run \in Runs
  PROVE  /\ Beside(run) \in Runs /\ ~Beside(run).alone
         /\ run = Idle => Beside(run) = Idle
<1>1. Beside(run) \in Runs /\ ~Beside(run).alone
  BY DEF Beside, Runs
<1>3. run = Idle => Beside(run) = Idle
  BY DEF Beside, Idle
<1> QED
  BY <1>1, <1>3

\* An object is found valid only where the file at its path has its hash.
LEMMA EvaluatedTruly ==
  ASSUME NEW o, NEW current
  PROVE  /\ Evaluate(o, current) \in {"valid", "stale", "unknown"}
         /\ Evaluate(o, current) = "valid" => current[o.path] = o.hash
BY DEF Evaluate

\* The invariant of the store holds before any object is stored.
LEMMA StoreInitially == Init => StoreInv
<1> SUFFICES ASSUME Init PROVE StoreInv
  OBVIOUS
<1> USE DEF Init, StoreInit
<1>1. StoreTyped
  BY IdleIsRun DEF StoreTyped
<1>2. \A r \in Passes : ~pass[r].alone
  BY IdleIsRun
<1> QED
  BY <1>1, <1>2 DEF StoreInv, AloneMeansAlone, WrittenIsCurrent, SettledIsCurrent

\* An edit of the worktree keeps it: no pass is alone then, and nothing is settled.
LEMMA EditKeeps ==
  ASSUME StoreInv, Edit, UNCHANGED reviewVars
  PROVE  StoreInv'
<1> USE DEF StoreInv, StoreTyped
<1>1. \A r \in Passes : pass'[r] = Beside(pass[r])
  BY DEF Edit
<1>2. \A r \in Passes : pass'[r] \in Runs /\ ~pass'[r].alone
  BY <1>1, RunBeside
<1>3. context' \in [Paths -> Hashes \cup {Gone}]
  BY DEF Edit
<1>4. pass' \in [Passes -> Runs]
  BY <1>2 DEF Edit
<1>5. StoreTyped'
  BY <1>3, <1>4 DEF Edit, reviewVars
<1> QED
  BY <1>2, <1>5 DEF Edit, AloneMeansAlone, WrittenIsCurrent, SettledIsCurrent

\* Storing an object keeps it: a new object of the worktree as it is, or one of another content.
LEMMA PutKeeps ==
  ASSUME StoreInv, NEW o \in Objects, Put(o), UNCHANGED reviewVars
  PROVE  StoreInv'
<1> USE DEF StoreInv
<1>1. /\ stored' = stored \cup {o} /\ o.hash = context[o.path]
      /\ UNCHANGED <<context, sidecar, pass, edits, runs, settled>>
  BY DEF Put
<1>2. StoreTyped'
  BY <1>1 DEF StoreTyped, reviewVars
<1>4. \A q \in stored' : q = o \/ (q \in stored /\ (Current(q) => Current(q)'))
  BY <1>1 DEF Current, Loadable
<1>5. Current(o)'
  BY <1>1 DEF Current
<1>6. AloneMeansAlone'
  BY <1>1 DEF AloneMeansAlone
<1>7. WrittenIsCurrent'
  BY <1>1, <1>4, <1>5 DEF WrittenIsCurrent
<1>8. SettledIsCurrent'
  BY <1>1, <1>4, <1>5 DEF SettledIsCurrent
<1> QED
  BY <1>2, <1>6, <1>7, <1>8

\* A pass that begins keeps it: it is alone with the worktree it has read, or it is not.
LEMMA StartPassKeeps ==
  ASSUME StoreInv, NEW r \in Passes, StartPass(r), UNCHANGED reviewVars
  PROVE  StoreInv'
<1> USE DEF StoreInv
<1>1. UNCHANGED <<context, stored, sidecar, edits, settled>>
  BY DEF StartPass
<1>2. PICK some \in SUBSET stored \ {{}} :
        pass' = [q \in Passes |->
          IF q = r THEN [todo |-> some, context |-> context, all |-> some = stored,
                         alone |-> \A s \in Passes : ~Active(s)]
          ELSE Beside(pass[q])]
  BY DEF StartPass
<1>3. /\ pass'[r].todo = some /\ pass'[r].context = context
      /\ pass'[r].all <=> some = stored
      /\ pass'[r].alone <=> \A s \in Passes : ~Active(s)
      /\ pass'[r] \in Runs
  BY <1>2 DEF Runs, StoreTyped
<1>4. \A q \in Passes \ {r} : pass'[q] = Beside(pass[q])
  BY <1>2
<1>5. \A q \in Passes \ {r} : pass'[q] \in Runs /\ ~pass'[q].alone
  BY <1>4, RunBeside DEF StoreTyped
<1>6. StoreTyped'
  BY <1>1, <1>2, <1>3, <1>5 DEF StoreTyped, reviewVars
<1>7. AloneMeansAlone'
  <2> SUFFICES ASSUME pass'[r].alone PROVE \A s \in Passes \ {r} : pass'[s] = Idle
    BY <1>1, <1>3, <1>5 DEF AloneMeansAlone
  <2> QED
    BY <1>3, <1>4, RunBeside DEF Active, StoreTyped
<1>8. WrittenIsCurrent'
  BY <1>1, <1>3, <1>5 DEF WrittenIsCurrent
<1>9. SettledIsCurrent'
  BY <1>1 DEF SettledIsCurrent, Current, Loadable
<1> QED
  BY <1>6, <1>7, <1>8, <1>9

\* One sidecar written keeps it: the verdict is about the worktree of the pass, which is
\* the worktree there is, if the pass is alone.
LEMMA WriteSidecarKeeps ==
  ASSUME StoreInv, NEW r \in Passes, WriteSidecar(r), UNCHANGED reviewVars
  PROVE  StoreInv'
<1> USE DEF StoreInv
<1>1. PICK o \in pass[r].todo :
        /\ sidecar' = [sidecar EXCEPT ![o] = Evaluate(o, pass[r].context)]
        /\ pass' = [pass EXCEPT ![r] = [pass[r] EXCEPT !.todo = pass[r].todo \ {o}]]
        /\ settled' = (settled /\ pass[r].context = context)
        /\ UNCHANGED <<context, stored, edits, runs>>
  BY DEF WriteSidecar
<1>2. pass[r] \in Runs /\ pass \in [Passes -> Runs] /\ o \in Objects
  BY DEF StoreTyped, Runs
<1>3. /\ pass'[r] \in Runs /\ pass'[r].todo = pass[r].todo \ {o}
      /\ pass'[r].context = pass[r].context /\ pass'[r].all = pass[r].all
      /\ pass'[r].alone = pass[r].alone
      /\ \A q \in Passes \ {r} : pass'[q] = pass[q]
  BY <1>1, <1>2 DEF Runs
<1>4. StoreTyped'
  BY <1>1, <1>2, <1>3, EvaluatedTruly DEF StoreTyped, reviewVars
<1>5. AloneMeansAlone'
  <2>1. pass[r] # Idle
    BY <1>2 DEF Idle
  <2> QED
    BY <1>1, <1>3, <2>1 DEF AloneMeansAlone
<1>6. /\ sidecar'[o] = Evaluate(o, pass[r].context)
      /\ \A q \in Objects \ {o} : sidecar'[q] = sidecar[q]
  BY <1>1, <1>2 DEF StoreTyped
<1>7. pass[r].context = context => Current(o)'
  BY <1>1, <1>6, EvaluatedTruly DEF Current, Loadable
<1>8. \A q \in Objects \ {o} : Current(q) => Current(q)'
  BY <1>1, <1>6 DEF Current, Loadable
<1>9. WrittenIsCurrent'
  <2> SUFFICES ASSUME NEW s \in Passes, pass'[s].alone, pass'[s].all,
                      NEW q \in stored' \ pass'[s].todo
               PROVE  Current(q)'
    BY DEF WrittenIsCurrent
  <2>1. s = r
    <3>1. CASE s # r
      <4>1. pass[s].alone
        BY <1>3, <3>1
      <4>2. pass[r] = Idle
        BY <3>1, <4>1 DEF AloneMeansAlone
      <4> QED
        BY <4>2 DEF Idle
    <3> QED
      BY <3>1
  <2>2. pass[r].alone /\ pass[r].all /\ pass[r].context = context
    BY <1>3, <2>1 DEF AloneMeansAlone
  <2>3. q \in Objects /\ q \in stored
    BY <1>1 DEF StoreTyped
  <2>4. CASE q = o
    BY <1>7, <2>2, <2>4
  <2>5. CASE q # o
    <3>1. q \in stored \ pass[r].todo
      BY <1>3, <2>1, <2>3, <2>5
    <3>2. Current(q)
      BY <2>2, <3>1 DEF WrittenIsCurrent
    <3> QED
      BY <1>8, <2>3, <2>5, <3>2
  <2> QED
    BY <2>4, <2>5
<1>10. SettledIsCurrent'
  <2> SUFFICES ASSUME settled', NEW q \in stored' PROVE Current(q)'
    BY DEF SettledIsCurrent
  <2>1. settled /\ pass[r].context = context /\ q \in stored /\ q \in Objects
    BY <1>1 DEF StoreTyped
  <2>2. Current(q)
    BY <2>1 DEF SettledIsCurrent
  <2> QED
    BY <1>7, <1>8, <2>1, <2>2
<1> QED
  BY <1>4, <1>5, <1>9, <1>10

\* FinishPass and PassDies: the run is over.
LEMMA RunEndsKeeps ==
  ASSUME StoreInv, NEW r \in Passes, UNCHANGED reviewVars,
         UNCHANGED <<context, stored, sidecar>>,
         pass' = [pass EXCEPT ![r] = Idle],
         settled' => settled \/ (pass[r].all /\ pass[r].alone /\ pass[r].todo = {})
  PROVE  StoreInv'
<1> USE DEF StoreInv
<1>1. pass'[r] = Idle /\ \A q \in Passes \ {r} : pass'[q] = pass[q]
  BY DEF StoreTyped
<1>2. \A o : Current(o)' <=> Current(o)
  BY DEF Current, Loadable
<1>3. StoreTyped'
  BY <1>1, IdleIsRun DEF StoreTyped, reviewVars
<1>4. AloneMeansAlone' /\ WrittenIsCurrent'
  BY <1>1, <1>2, IdleIsRun DEF AloneMeansAlone, WrittenIsCurrent
<1>5. SettledIsCurrent'
  BY <1>2 DEF SettledIsCurrent, WrittenIsCurrent
<1> QED
  BY <1>3, <1>4, <1>5

\* What changes neither the store nor the items' objects keeps it.
LEMMA StoreKept ==
  ASSUME StoreInv, UNCHANGED storeVars, \A i \in Items : state'.item[i].refs \subseteq Objects
  PROVE  StoreInv'
BY DEF StoreInv, StoreTyped, AloneMeansAlone, WrittenIsCurrent, SettledIsCurrent, Current,
     Loadable, storeVars

\* Every step of the store keeps it.
LEMMA StoreStepKeeps ==
  ASSUME StoreInv, StoreStep, UNCHANGED reviewVars
  PROVE  StoreInv'
<1>1. ASSUME NEW r \in Passes, FinishPass(r) PROVE StoreInv'
  BY <1>1, RunEndsKeeps DEF FinishPass
<1>2. ASSUME NEW r \in Passes, PassDies(r) PROVE StoreInv'
  BY <1>2, RunEndsKeeps DEF PassDies
<1> QED
  BY <1>1, <1>2, EditKeeps, PutKeeps, StartPassKeeps, WriteSidecarKeeps DEF StoreStep

\* So does every step of the composition, of the store or of the review.
LEMMA StepKeepsStore ==
  ASSUME StoreInv, [Next]_vars
  PROVE  StoreInv'
<1>0. CASE StoreStep /\ UNCHANGED reviewVars
  BY <1>0, StoreStepKeeps
<1>1. CASE UpdateState
  <2>1. PICK item \in [Items -> [status : {"pending", "satisfied"}, refs : SUBSET stored]] :
          state' = [revision |-> state.revision + 1, item |-> item]
    BY <1>1 DEF UpdateState
  <2>2. \A i \in Items : state'.item[i].refs \subseteq Objects
    BY <2>1 DEF StoreInv, StoreTyped
  <2> QED
    BY <1>1, <2>2, StoreKept DEF UpdateState
<1>2. CASE BuildGraph \/ Review \/ UNCHANGED vars
  <2>1. UNCHANGED <<storeVars, state>>
    BY <1>2 DEF BuildGraph, Review, vars, reviewVars
  <2> QED
    BY <2>1, StoreKept DEF StoreInv, StoreTyped
<1> QED
  BY <1>0, <1>1, <1>2 DEF Next

\* The invariant of the store holds in every state the composition reaches.
THEOREM StoreInvariant == Spec => []StoreInv
BY StoreInitially, StepKeepsStore, PTL DEF Spec

\* Whatever objects, paths and passes there are: an item that a graph newly calls supported
\* right after a pass over the whole store, with no other run and no edit beside it, rests on
\* objects of the worktree as it is (BuildGraph after FinishPass).
THEOREM SupportStaysCurrent == Spec => SupportIsCurrent
<1> DEFINE Supported ==
      graph' # graph /\ settled =>
        \A i \in Items : graph'[i].status = "supported" =>
          \A o \in graph'[i].refs : o.hash = context[o.path]
<1>1. StoreInv /\ [Next]_vars => [Supported]_vars
  <2> SUFFICES ASSUME StoreInv, Next, graph' # graph, settled,
                      NEW i \in Items, NEW o \in graph'[i].refs
               PROVE  o.hash = context[o.path]
    OBVIOUS
  <2>1. BuildGraph
    BY DEF Next, UpdateState, Review, reviewVars
  <2>2. graph'[i].refs = state.item[i].refs
    BY <2>1 DEF BuildGraph, GraphItem
  <2>3. o \in AllRefs(state.item)
    BY <2>2 DEF AllRefs
  <2>4. Loadable(o)
    BY <2>1, <2>3 DEF BuildGraph
  <2>5. o \in stored
    BY <2>4 DEF Loadable
  <2> QED
    BY <2>4, <2>5 DEF StoreInv, SettledIsCurrent, Current
<1> QED
  BY <1>1, StoreInvariant, PTL DEF Spec, SupportIsCurrent

-----------------------------------------------------------------------------
\* Of a chain of four rules the second applies: it decides, or the first does.
LEMMA SecondRule ==
  ASSUME NEW r1, NEW r2, NEW r3, NEW r4, r1.when \/ r2.when
  PROVE  First(<<r1, r2, r3, r4>>) \in {r1.then, r2.then}
<1> DEFINE rules == <<r1, r2, r3, r4>>
           P(i) == rules[i].when /\ \A j \in 1..(i-1) : ~rules[j].when
           first == CHOOSE i \in DOMAIN rules : P(i)
<1>1. DOMAIN rules = 1..4 /\ rules[1] = r1 /\ rules[2] = r2
  OBVIOUS
<1>2. \E i \in 1..2 : P(i)
  <2>1. CASE r1.when
    BY <1>1, <2>1
  <2>2. CASE ~r1.when
    BY <1>1, <2>2
  <2> QED
    BY <2>1, <2>2
<1>3. first \in DOMAIN rules /\ P(first)
  <2> HIDE DEF P
  <2> QED
    BY <1>1, <1>2
<1>4. First(rules) = rules[first].then
  BY DEF First
<1> HIDE DEF first, rules
<1>5. first \in 1..2
  BY <1>1, <1>3
<1> QED
  BY <1>1, <1>4, <1>5 DEF rules

\* A bundle with an item that needs a look is not reviewed locally.
LEMMA BundleIsLooked ==
  ASSUME NEW statuses, NEW deep \in BOOLEAN, NEW assured \in BOOLEAN
  PROVE  SelectTier(assured, FALSE, BundleTier(statuses, deep, TRUE), TRUE, TRUE).tier # "L0-local"
<1>0. ASSUME NEW when, NEW then
      PROVE  Rule(when, then).when = when /\ Rule(when, then).then = then
  BY DEF Rule
<1>1. BundleTier(statuses, deep, TRUE) \in {"L2-codex", "L1-spark"}
  <2> DEFINE r1 == Rule(deep \/ statuses \cap {"contradictory", "reopened"} # {}, "L2-codex")
             r2 == Rule(TRUE \/ statuses \ {"supported"} # {}, "L1-spark")
             r3 == Rule(statuses # {}, "L0-local")
             r4 == Otherwise("legacy")
  <2>1. BundleTier(statuses, deep, TRUE) = First(<<r1, r2, r3, r4>>)
    BY DEF BundleTier
  <2>2. r1.then = "L2-codex" /\ r2.then = "L1-spark" /\ r2.when
    BY <1>0
  <2> HIDE DEF r1, r2, r3, r4
  <2> QED
    BY <2>1, <2>2, SecondRule
<1> DEFINE b == BundleTier(statuses, deep, TRUE)
           t == SelectTier(assured, FALSE, b, TRUE, TRUE).tier
           r1 == Rule(assured \/ FALSE, "L2-codex")
           r2 == Rule(b # "legacy", b)
           r3 == Rule(~TRUE, "L1-spark")
           r4 == Otherwise("L0-local")
<1>2. t = First(<<r1, r2, r3, r4>>)
  BY DEF SelectTier
<1>3. r1.then = "L2-codex" /\ r2.then = b /\ r2.when
  BY <1>0, <1>1
<1> HIDE DEF b, r1, r2, r3, r4, t
<1>4. t \in {"L2-codex", b}
  BY <1>2, <1>3, SecondRule
<1> QED
  BY <1>1, <1>4 DEF b, t

-----------------------------------------------------------------------------
\* The shapes of the two receipts.
ReceiptTyped ==
  /\ receipt = None \/ receipt \in [accepted : SUBSET Items, retry : SUBSET Items]
  /\ prior = None \/ prior \in [accepted : SUBSET Items, retry : SUBSET Items]

\* What a receipt accepts is supported in its graph, and was accepted in this form.
ReceiptIsTrue ==
  receipt # None =>
    \A i \in receipt.accepted :
      graph[i].status = "supported" /\ [id |-> i, item |-> graph[i]] \in accepted

\* The receipt of the graph before: where this graph has changed nothing, nothing that
\* the item rests on was reported changed.
PriorIsTrue ==
  prior # None =>
    \A i \in prior.accepted :
      graph[i] = base[i] => [id |-> i, item |-> graph[i]] \in accepted

\* A receipt is about a graph.
GraphIsBuilt == receipt # None => graph # None

\* The invariant of the review.
ReviewInv == ReceiptTyped /\ ReceiptIsTrue /\ PriorIsTrue /\ GraphIsBuilt

\* The invariant of the review holds before the first graph.
LEMMA ReviewInitially == Init => ReviewInv
BY DEF Init, ReviewInv, ReceiptTyped, ReceiptIsTrue, PriorIsTrue, GraphIsBuilt

\* A new graph keeps it: where it has changed nothing, the receipt of the graph before
\* stands, and a receipt becomes the prior one.
LEMMA BuildGraphKeeps ==
  ASSUME ReviewInv, BuildGraph
  PROVE  ReviewInv'
<1> USE DEF ReviewInv
<1>1. PICK changed \in SUBSET Paths :
        LET impact == changed \cup {o.path : o \in NewDiffs(graph)} IN
        /\ graph' = [i \in Items |-> GraphItem(i, graph, impact)]
        /\ accepted' = {a \in accepted : EvidencePaths(a.item) \cap impact = {}}
  BY DEF BuildGraph
<1> DEFINE impact == changed \cup {o.path : o \in NewDiffs(graph)}
<1>2. base' = graph /\ prior' = receipt /\ receipt' = None
  BY DEF BuildGraph
<1>3. /\ graph' = [i \in Items |-> GraphItem(i, graph, impact)]
      /\ accepted' = {a \in accepted : EvidencePaths(a.item) \cap impact = {}}
  BY <1>1
<1> HIDE DEF impact
<1>4. PriorIsTrue'
  <2> SUFFICES ASSUME receipt # None, NEW i \in receipt.accepted, graph'[i] = graph[i]
               PROVE  [id |-> i, item |-> graph[i]] \in accepted'
    BY <1>2 DEF PriorIsTrue
  <2>1. /\ i \in Items /\ graph # None
        /\ graph[i].status = "supported" /\ [id |-> i, item |-> graph[i]] \in accepted
    BY DEF ReceiptTyped, ReceiptIsTrue, GraphIsBuilt
  <2>2. ~Reopened(i, graph, impact)
    BY <1>3, <2>1 DEF GraphItem
  <2>3. EvidencePaths(graph[i]) \cap impact = {}
    BY <2>1, <2>2 DEF Reopened
  <2> QED
    BY <1>3, <2>1, <2>3
<1>5. GraphIsBuilt'
  BY <1>2 DEF GraphIsBuilt

<1> QED
  <2>1. ReceiptTyped' /\ ReceiptIsTrue'
    BY <1>2 DEF ReceiptTyped, ReceiptIsTrue
  <2> QED
    BY <1>4, <1>5, <2>1

\* A review keeps it: what it accepts is supported and enters the accepted in this form.
LEMMA ReviewKeeps ==
  ASSUME ReviewInv, Review
  PROVE  ReviewInv'
<1> USE DEF ReviewInv
<1>1. PICK mode \in {"review", "revision"}, known \in KnownReceipts :
        \E good \in SUBSET {i \in Packet(mode, known) : graph[i].status = "supported"} :
          /\ receipt' = [accepted |-> good, retry |-> Packet(mode, known) \ good]
          /\ accepted' = accepted \cup {[id |-> i, item |-> graph[i]] : i \in good}
  BY DEF Review
<1>2. PICK good \in SUBSET {i \in Packet(mode, known) : graph[i].status = "supported"} :
        /\ receipt' = [accepted |-> good, retry |-> Packet(mode, known) \ good]
        /\ accepted' = accepted \cup {[id |-> i, item |-> graph[i]] : i \in good}
  BY <1>1
<1>3. graph # None /\ UNCHANGED <<state, graph, base, prior>>
  BY DEF Review
<1>4. Packet(mode, known) \subseteq Items
  BY DEF Packet
<1>5. receipt' \in [accepted : SUBSET Items, retry : SUBSET Items]
  BY <1>2, <1>4
<1>6. ReceiptTyped' /\ GraphIsBuilt'
  BY <1>3, <1>5 DEF ReceiptTyped, GraphIsBuilt
<1>7. ReceiptIsTrue'
  BY <1>2, <1>3 DEF ReceiptIsTrue
<1>8. PriorIsTrue'
  BY <1>2, <1>3 DEF PriorIsTrue
<1> QED
  BY <1>6, <1>7, <1>8

\* Every step of the composition keeps it.
LEMMA StepKeepsReview ==
  ASSUME ReviewInv, [Next]_vars
  PROVE  ReviewInv'
<1>1. CASE UNCHANGED <<graph, base, receipt, prior, accepted>>
  BY <1>1 DEF ReviewInv, ReceiptTyped, ReceiptIsTrue, PriorIsTrue, GraphIsBuilt
<1> QED
  BY <1>1, BuildGraphKeeps, ReviewKeeps DEF Next, UpdateState, vars, reviewVars

\* The invariant of the review holds in every state the composition reaches.
THEOREM ReviewInvariant == Spec => []ReviewInv
BY ReviewInitially, StepKeepsReview, PTL DEF Spec

\* Whatever items and objects there are: where some receipt lets the ladder leave the review
\* to the local tier, every item was accepted in exactly the form that the graph gives it.
THEOREM LocalReviewIsEarned == Spec => []LocalReviewWasEarned
<1>1. ReviewInv => LocalReviewWasEarned
  <2> SUFFICES ASSUME ReviewInv, graph # None,
                      NEW known \in KnownReceipts, NEW assured \in BOOLEAN,
                      Tier(Packet("review", known), assured) = "L0-local",
                      NEW i \in Items
               PROVE  [id |-> i, item |-> graph[i]] \in accepted
    BY DEF LocalReviewWasEarned
  <2>1. Expanded(Packet("review", known)) = {}
    <3>1. SUFFICES ASSUME Expanded(Packet("review", known)) # {} PROVE FALSE
      OBVIOUS
    <3>2. DeepReview \in BOOLEAN
      BY DEF DeepReview
    <3> QED
      BY <3>1, <3>2, BundleIsLooked DEF Tier
  <2>2. ~Included(i, "review", known)
    BY <2>1 DEF Expanded, Packet
  <2>3. i \in known.accepted /\ base[i] = graph[i]
    BY <2>2 DEF Included
  <2>4. known = prior /\ prior # None
    BY <2>3 DEF KnownReceipts, NoReceipt
  <2> QED
    BY <2>3, <2>4 DEF ReviewInv, PriorIsTrue
<1> QED
  BY <1>1, ReviewInvariant, PTL

-----------------------------------------------------------------------------
(* The owner lease.                                                         *)

\* What a lease may be.
Leases ==
  [source : {"request", "end"}, status : {"requested", "granted", "expired", "revoked"},
   current : Owners, selected : Owners,
   mode : {"new-session", "resumed-session", "resume-required"},
   resume : {"not-attempted", "succeeded", "failed"},
   generation : Nat, handoffs : Nat, renewals : Nat]

\* Of the first k leases of s: those requested, those that change the owner, and those that
\* renew with no handoff since.
Selections(s, k) == {i \in 1..k : s[i].source = "request"}
ChangesOwner(s, i) == IF i = 1 THEN s[1].selected # s[1].current
                      ELSE s[i].selected # s[i - 1].selected
Renews(s, i) == i > 1 /\ s[i - 1].status = "granted" /\ ~ChangesOwner(s, i)
Handoffs(s, k) == {i \in Selections(s, k) : ChangesOwner(s, i)}
Renewals(s, k) == {i \in Selections(s, k) : \A j \in Selections(s, k) : j >= i => Renews(s, j)}

\* The k-th lease tells its lineage.
Tells(s, k) ==
  /\ s[k].generation = k
  /\ s[k].handoffs = Cardinality(Handoffs(s, k))
  /\ s[k].renewals = Cardinality(Renewals(s, k))

\* Each lease of a lineage does, and nothing follows a revoked one: the invariant.
Told(s) ==
  /\ s \in Seq(Leases)
  /\ \A k \in 1..Len(s) : Tells(s, k)
  /\ \A k \in 1..(Len(s) - 1) : s[k].status # "revoked"

\* What a lease tells depends on the leases before it only.
LEMMA OfThePast ==
  ASSUME NEW s, NEW p, NEW k \in Nat, \A i \in 1..k : s[i] = p[i]
  PROVE  /\ Selections(s, k) = Selections(p, k)
         /\ Handoffs(s, k) = Handoffs(p, k)
         /\ Renewals(s, k) = Renewals(p, k)
         /\ \A i \in 1..k : Renews(s, i) = Renews(p, i) /\ ChangesOwner(s, i) = ChangesOwner(p, i)
<1>1. \A i \in 1..k : ChangesOwner(s, i) = ChangesOwner(p, i)
  BY DEF ChangesOwner
<1>2. \A i \in 1..k : Renews(s, i) = Renews(p, i)
  BY <1>1 DEF Renews
<1>3. Selections(s, k) = Selections(p, k) /\ Selections(s, k) \subseteq 1..k
  BY DEF Selections
<1>4. Handoffs(s, k) = Handoffs(p, k)
  BY <1>1, <1>3 DEF Handoffs
<1>5. Renewals(s, k) = Renewals(p, k)
  BY <1>2, <1>3 DEF Renewals
<1> QED
  BY <1>1, <1>2, <1>3, <1>4, <1>5

\* A lease is preceded by finitely many handoffs and renewals.
LEMMA Counted ==
  ASSUME NEW s, NEW k \in Nat
  PROVE  /\ IsFiniteSet(Handoffs(s, k)) /\ IsFiniteSet(Renewals(s, k))
         /\ Cardinality(Handoffs(s, k)) \in Nat /\ Cardinality(Renewals(s, k)) \in Nat
         /\ Handoffs(s, k) \subseteq 1..k /\ Renewals(s, k) \subseteq 1..k
<1>1. IsFiniteSet(1..k)
  BY FS_Interval
<1>2. Handoffs(s, k) \subseteq 1..k /\ Renewals(s, k) \subseteq 1..k
  BY DEF Handoffs, Renewals, Selections
<1> QED
  BY <1>1, <1>2, FS_Subset, FS_CardinalityType

\* A lineage cut short tells the truth as far as it goes (the lease kept beside a new one).
LEMMA PrefixTells ==
  ASSUME NEW s, Told(s), NEW n \in 0..Len(s)
  PROVE  Told(SubSeq(s, 1, n)) /\ Len(SubSeq(s, 1, n)) = n
<1> DEFINE p == SubSeq(s, 1, n)
<1>1. s \in Seq(Leases) /\ Len(s) \in Nat
  BY DEF Told
<1>2. p \in Seq(Leases) /\ Len(p) = n /\ \A i \in 1..n : p[i] = s[i]
  BY <1>1
<1> HIDE DEF p
<1>3. ASSUME NEW k \in 1..n PROVE Tells(p, k)
  <2>1. \A i \in 1..k : p[i] = s[i]
    BY <1>2
  <2>2. Tells(s, k)
    BY <1>1 DEF Told
  <2>0. k \in Nat
    BY <1>1
  <2>3. Handoffs(p, k) = Handoffs(s, k) /\ Renewals(p, k) = Renewals(s, k)
    BY ONLY <2>0, <2>1, OfThePast
  <2>4. p[k] = s[k]
    BY <1>2
  <2> QED
    BY <2>2, <2>3, <2>4 DEF Tells
<1>4. \A k \in 1..(n - 1) : p[k].status # "revoked"
  BY <1>1, <1>2 DEF Told
<1> QED
  BY <1>2, <1>3, <1>4 DEF Told, p

\* The lineage after p and l: everything up to p is as it was.
LEMMA LongerTells ==
  ASSUME NEW p, Told(p), NEW l \in Leases,
         p # <<>> => Last(p).status # "revoked",
         Tells(Append(p, l), Len(p) + 1)
  PROVE  Told(Append(p, l))
<1> DEFINE s == Append(p, l)
<1>1. p \in Seq(Leases) /\ Len(p) \in Nat
  BY DEF Told
<1>2. s \in Seq(Leases) /\ Len(s) = Len(p) + 1 /\ \A i \in 1..Len(p) : s[i] = p[i]
  BY <1>1
<1> HIDE DEF s
<1>3. ASSUME NEW k \in 1..Len(s) PROVE Tells(s, k)
  <2>1. CASE k = Len(p) + 1
    BY <2>1 DEF s
  <2>2. CASE k \in 1..Len(p)
    <3>1. \A i \in 1..k : s[i] = p[i]
      BY <1>1, <1>2, <2>2
    <3>2. Tells(p, k)
      BY <2>2 DEF Told
    <3>0. k \in Nat
      BY <1>1, <2>2
    <3>3. Handoffs(s, k) = Handoffs(p, k) /\ Renewals(s, k) = Renewals(p, k)
      BY ONLY <3>0, <3>1, OfThePast
    <3>4. s[k] = p[k]
      BY <1>2, <2>2
    <3> QED
      BY <3>2, <3>3, <3>4 DEF Tells
  <2> QED
    BY <2>1, <2>2, <1>1, <1>2
<1>4. ASSUME NEW k \in 1..(Len(s) - 1) PROVE s[k].status # "revoked"
  <2>1. k \in 1..Len(p) /\ s[k] = p[k]
    BY <1>1, <1>2
  <2>2. CASE k = Len(p)
    BY <1>1, <2>1, <2>2 DEF Last
  <2>3. CASE k # Len(p)
    BY <1>1, <2>1, <2>3 DEF Told
  <2> QED
    BY <2>2, <2>3
<1> QED
  BY <1>2, <1>3, <1>4 DEF Told, s

\* The last lease of a lineage is one of its leases.
LEMMA LastTells ==
  ASSUME NEW p, Told(p), p # <<>>
  PROVE  /\ Len(p) \in Nat \ {0} /\ Last(p) = p[Len(p)] /\ Last(p) \in Leases
         /\ Tells(p, Len(p))
<1>1. p \in Seq(Leases) /\ Len(p) \in Nat \ {0}
  BY DEF Told
<1> QED
  BY <1>1 DEF Told, Last

\* A lease that expires or is revoked carries its lineage on with the same counts.
LEMMA EndingTells ==
  ASSUME NEW p, Told(p), p # <<>>, NEW status \in {"expired", "revoked"},
         Last(p).status \in {"requested", "granted"}
  PROVE  Told(Append(p, EndedLease(p, status)))
<1> DEFINE l == EndedLease(p, status)
           s == Append(p, l)
           n == Len(p)
<1>1. n \in Nat \ {0} /\ Last(p) = p[n] /\ Last(p) \in Leases /\ Tells(p, n) /\ p \in Seq(Leases)
  BY LastTells DEF Told
<1>2. /\ l \in Leases /\ l.source = "end"
      /\ l.generation = p[n].generation + 1
      /\ l.handoffs = p[n].handoffs /\ l.renewals = p[n].renewals
  <2>1. p[n].generation \in Nat
    BY <1>1 DEF Leases
  <2>2. l = [p[n] EXCEPT !.source = "end", !.status = status,
                         !.generation = p[n].generation + 1]
    BY <1>1 DEF EndedLease
  <2>3. l = [source |-> "end", status |-> status, current |-> p[n].current,
             selected |-> p[n].selected, mode |-> p[n].mode, resume |-> p[n].resume,
             generation |-> p[n].generation + 1, handoffs |-> p[n].handoffs,
             renewals |-> p[n].renewals]
    <3>1. p[n] = [source |-> p[n].source, status |-> p[n].status, current |-> p[n].current,
                  selected |-> p[n].selected, mode |-> p[n].mode, resume |-> p[n].resume,
                  generation |-> p[n].generation, handoffs |-> p[n].handoffs,
                  renewals |-> p[n].renewals]
      BY <1>1 DEF Leases
    <3> QED
      BY <2>2, <3>1
  <2>4. p[n] \in Leases
    BY <1>1
  <2> HIDE DEF n, l
  <2> QED
    BY <2>1, <2>3, <2>4 DEF Leases
<1> HIDE DEF l
<1>3. s[n + 1] = l /\ \A i \in 1..n : s[i] = p[i]
  BY <1>1, <1>2
<1> HIDE DEF s, n
<1>4. Selections(s, n + 1) = Selections(s, n)
  BY <1>1, <1>2, <1>3 DEF Selections
<1>5. Handoffs(s, n + 1) = Handoffs(s, n) /\ Renewals(s, n + 1) = Renewals(s, n)
  BY <1>4 DEF Handoffs, Renewals
<1>6. Handoffs(s, n) = Handoffs(p, n) /\ Renewals(s, n) = Renewals(p, n)
  BY <1>1, <1>3, OfThePast
<1>7. Tells(s, n + 1)
  BY <1>1, <1>2, <1>3, <1>5, <1>6 DEF Tells
<1> QED
  BY <1>2, <1>7, LongerTells DEF s, l, n

\* A lease that is granted or requested counts one handoff more if the owner changes, and
\* starts its renewals anew; if it does not, one renewal more.
LEMMA SelectingTells ==
  ASSUME NEW p, Told(p), NEW r \in Requests(p), MaySelect(p, r)
  PROVE  Told(Append(p, NewLease(p, r)))
<1> DEFINE l == NewLease(p, r)
           s == Append(p, l)
           n == Len(p)
<1>1. p \in Seq(Leases) /\ n \in Nat
  BY DEF Told
<1>2. p # <<>> => n > 0 /\ Last(p) = p[n] /\ Last(p) \in Leases /\ Tells(p, n)
  BY <1>1, LastTells
<1>3. p = <<>> => n = 0
  BY <1>1
<1>4. r.current \in Owners /\ Selected(r) \in Owners /\ (p # <<>> => r.current = p[n].selected)
  <2>1. /\ r.current \in IF p = <<>> THEN Owners ELSE {Last(p).selected}
        /\ r.original \in Owners /\ r.explicit \in Owners \cup {Nobody}
    BY DEF Requests
  <2>2. r.current \in Owners /\ (p # <<>> => r.current = p[n].selected)
    BY <1>2, <2>1 DEF Leases
  <2> QED
    BY <2>1, <2>2 DEF Selected
<1>5. /\ l.source = "request" /\ l.selected = Selected(r) /\ l.current = r.current
      /\ l.generation = IF p = <<>> THEN 1 ELSE p[n].generation + 1
      /\ l.handoffs = (IF p = <<>> THEN 0 ELSE p[n].handoffs) + (IF Switching(r) THEN 1 ELSE 0)
      /\ l.renewals = IF p # <<>> /\ p[n].status = "granted" /\ ~Switching(r)
                      THEN p[n].renewals + 1 ELSE 0
  BY <1>2 DEF NewLease, Renewal
<1>6. l \in Leases
  <2>1. l.status \in {"requested", "granted"} /\ l.mode = Mode(r) /\ l.resume = r.resume
    BY DEF NewLease
  <2>2. Mode(r) \in {"new-session", "resumed-session", "resume-required"}
        /\ r.resume \in {"not-attempted", "succeeded", "failed"}
    <3>1. r.resume \in {"not-attempted", "succeeded", "failed"}
      BY DEF Requests
    <3> QED
      BY <3>1 DEF Mode
  <2>3. l.generation \in Nat /\ l.handoffs \in Nat /\ l.renewals \in Nat
    BY <1>2, <1>5 DEF Leases
  <2>4. l = [source |-> l.source, status |-> l.status, current |-> l.current,
             selected |-> l.selected, mode |-> l.mode, resume |-> l.resume,
             generation |-> l.generation, handoffs |-> l.handoffs, renewals |-> l.renewals]
    BY DEF NewLease
  <2> HIDE DEF l
  <2> QED
    BY <1>4, <1>5, <2>1, <2>2, <2>3, <2>4 DEF Leases
<1> HIDE DEF l
<1>7. s[n + 1] = l /\ \A i \in 1..n : s[i] = p[i]
  BY <1>1, <1>6
<1> HIDE DEF s
<1>8. ChangesOwner(s, n + 1) = Switching(r)
  BY <1>1, <1>2, <1>3, <1>4, <1>5, <1>7 DEF ChangesOwner, Switching
<1>9. Selections(s, n + 1) = Selections(s, n) \cup {n + 1}
  BY <1>1, <1>5, <1>7 DEF Selections
<1>10. Handoffs(s, n) = Handoffs(p, n) /\ Renewals(s, n) = Renewals(p, n)
  BY <1>1, <1>7, OfThePast
<1>11. l.handoffs = Cardinality(Handoffs(s, n + 1))
  <2>1. Handoffs(s, n + 1) = IF Switching(r) THEN Handoffs(p, n) \cup {n + 1} ELSE Handoffs(p, n)
    BY <1>8, <1>9, <1>10 DEF Handoffs
  <2>2. IsFiniteSet(Handoffs(p, n)) /\ n + 1 \notin Handoffs(p, n)
    BY <1>1, Counted
  <2>3. p = <<>> => Handoffs(p, n) = {}
    BY <1>3, Counted
  <2>4. Cardinality(Handoffs(p, n)) = IF p = <<>> THEN 0 ELSE p[n].handoffs
    BY <1>2, <2>3, FS_EmptySet DEF Tells
  <2>5. Cardinality(Handoffs(p, n) \cup {n + 1}) = Cardinality(Handoffs(p, n)) + 1
    BY <2>2, FS_AddElement
  <2>6. Cardinality(Handoffs(p, n)) \in Nat
    BY <1>1, Counted
  <2> QED
    BY <1>5, <2>1, <2>4, <2>5, <2>6
<1>12. l.renewals = Cardinality(Renewals(s, n + 1))
  <2>1. Renews(s, n + 1) <=> p # <<>> /\ p[n].status = "granted" /\ ~Switching(r)
    BY <1>1, <1>2, <1>3, <1>7, <1>8 DEF Renews
  <2>2. CASE Renews(s, n + 1)
    <3>1. Renewals(s, n + 1) = Renewals(p, n) \cup {n + 1}
      BY <1>1, <1>9, <1>10, <2>2 DEF Renewals, Selections
    <3>2. IsFiniteSet(Renewals(p, n)) /\ n + 1 \notin Renewals(p, n)
      BY <1>1, Counted
    <3>3. Cardinality(Renewals(p, n) \cup {n + 1}) = Cardinality(Renewals(p, n)) + 1
      BY <3>2, FS_AddElement
    <3> QED
      BY <1>2, <1>5, <2>1, <2>2, <3>1, <3>3 DEF Tells
  <2>3. CASE ~Renews(s, n + 1)
    <3>1. Renewals(s, n + 1) = {}
      BY <1>1, <1>9, <2>3 DEF Renewals, Selections
    <3> QED
      BY <1>5, <2>1, <2>3, <3>1, FS_EmptySet
  <2> QED
    BY <2>2, <2>3
<1>13. l.generation = n + 1
  BY <1>2, <1>3, <1>5 DEF Tells
<1>14. Tells(s, n + 1)
  BY <1>7, <1>11, <1>12, <1>13 DEF Tells
<1>15. p # <<>> => Last(p).status # "revoked"
  BY DEF MaySelect
<1> QED
  BY <1>6, <1>14, <1>15, LongerTells DEF s, l

\* Every step of the owner lease leaves a lineage that tells the truth.
LEMMA OwnerStepTells ==
  ASSUME Told(lease), OwnerNext
  PROVE  Told(lease)'
<1>1. \A previous \in Kept : Told(previous)
  BY PrefixTells DEF Kept
<1>2. CASE SelectOwner
  <2>1. PICK previous \in Kept : \E r \in Requests(previous) :
          MaySelect(previous, r) /\ lease' = Append(previous, NewLease(previous, r))
    BY <1>2 DEF SelectOwner
  <2>2. PICK r \in Requests(previous) :
          MaySelect(previous, r) /\ lease' = Append(previous, NewLease(previous, r))
    BY <2>1
  <2> QED
    BY <1>1, <2>2, SelectingTells
<1>3. CASE EndLease
  <2>1. PICK previous \in Kept \ {<<>>}, status \in {"expired", "revoked"} :
          /\ Last(previous).status \in {"requested", "granted"}
          /\ lease' = Append(previous, EndedLease(previous, status))
    BY <1>3 DEF EndLease
  <2> QED
    BY <1>1, <2>1, EndingTells
<1> QED
  BY <1>2, <1>3 DEF OwnerNext

\* A lineage that tells the truth in each of its leases is one the property accepts.
LEMMA ToldIsLineage ==
  ASSUME Told(lease)
  PROVE  LeaseTellsItsLineage
<1> DEFINE n == Len(lease)
<1>1. CASE lease # <<>>
  <2>1. /\ n \in Nat \ {0} /\ Last(lease) = lease[n] /\ Tells(lease, n)
    BY <1>1, LastTells
  <2> QED
    BY <2>1 DEF LeaseTellsItsLineage, Tells, Told, Handoffs, Renewals, Selections, ChangesOwner, Renews
<1> QED
  BY <1>1 DEF LeaseTellsItsLineage

\* However many owners, requests and lost leases there are: the generation, the handoffs and
\* the renewals that a lease records are those of the leases it descends from.
THEOREM LeasesTellTheirLineage == OwnerSpec => []LeaseTellsItsLineage
<1>1. OwnerInit => Told(lease)
  BY DEF OwnerInit, Told
<1>2. Told(lease) /\ [OwnerNext]_lease => Told(lease)'
  BY OwnerStepTells
<1> QED
  BY <1>1, <1>2, ToldIsLineage, PTL DEF OwnerSpec

-----------------------------------------------------------------------------
(* The context lease.                                                       *)

\* What an approval and a call may be.
Approvals == [prior : Nat, parent : Nat, used : Nat, state : Nat, session : Nat, lease : Nat]
Calls == [lease : Nat, approval : Nat, session : Nat,
          route : {"cold-fresh", "capsule-rehydrate", "warm-resume"}]

\* The shapes of the approvals and the calls.
ContextTyped ==
  approvals \in Seq(Approvals) /\ calls \in Seq(Calls) /\ version \in Nat

\* A leased approval counts from its parent, which is older and of the same lease.
Counts(a) ==
  LET p == approvals[a].parent IN
  /\ p < a
  /\ p # 0 => /\ approvals[p].lease # NoLease /\ approvals[a].lease = approvals[p].lease
              /\ approvals[a].used = approvals[p].used + 1
  /\ approvals[a].lease # NoLease => approvals[a].used > 0

\* All approvals do.
LineageCounts == \A a \in DOMAIN approvals : Counts(a)

\* A call has used up its approval, and resumed a session within the limit only.
CallWasApproved(i) ==
  calls[i].approval # 0 =>
    /\ calls[i].approval \in DOMAIN approvals /\ calls[i].approval \in consumed
    /\ calls[i].lease = approvals[calls[i].approval].lease
    /\ calls[i].lease # NoLease /\ calls[i].route = "warm-resume" =>
         approvals[calls[i].approval].used <= WarmCallLimit

\* All calls have.
CallsWereApproved == \A i \in DOMAIN calls : CallWasApproved(i)
\* No approval is used by two calls.
OneCallPerApproval ==
  \A i, j \in DOMAIN calls :
    calls[i].approval # 0 /\ calls[i].approval = calls[j].approval => i = j

\* The invariant of the context lease.
ContextInv == ContextTyped /\ LineageCounts /\ CallsWereApproved /\ OneCallPerApproval

\* The invariant of the context lease holds before the first approval.
LEMMA ContextInitially == ContextInit => ContextInv
BY DEF ContextInit, ContextInv, ContextTyped, LineageCounts, CallsWereApproved, CallWasApproved,
     OneCallPerApproval, Calls, Approvals, NoLease

\* The fields of an approval, read one by one.
LEMMA ApprovalTyped ==
  ASSUME ContextInv, NEW a \in DOMAIN approvals
  PROVE  /\ a \in Nat \ {0} /\ a <= Len(approvals) /\ Len(approvals) \in Nat
         /\ approvals[a] \in Approvals
         /\ approvals[a].used \in Nat /\ approvals[a].parent \in Nat
         /\ approvals[a].lease \in Nat /\ Counts(a)
<1>1. approvals \in Seq(Approvals)
  BY DEF ContextInv, ContextTyped
<1>2. approvals[a] \in Approvals /\ a \in Nat \ {0} /\ a <= Len(approvals) /\ Len(approvals) \in Nat
  BY <1>1
<1> QED
  BY <1>2 DEF Approvals, ContextInv, LineageCounts

\* A further approval, of the old ones nothing is changed.
LEMMA ApprovalKeeps ==
  ASSUME ContextInv, NEW new \in Approvals, approvals' = Append(approvals, new),
         UNCHANGED <<calls, consumed, version>>,
         new.parent = 0 \/ new.parent \in DOMAIN approvals,
         new.parent # 0 =>
           /\ approvals[new.parent].lease # NoLease /\ new.lease = approvals[new.parent].lease
           /\ new.used = approvals[new.parent].used + 1,
         new.lease # NoLease => new.used > 0
  PROVE  ContextInv'
<1> USE DEF ContextInv
<1>1. approvals \in Seq(Approvals) /\ Len(approvals) \in Nat
  BY DEF ContextTyped
<1>2. /\ approvals' \in Seq(Approvals) /\ Len(approvals') = Len(approvals) + 1
      /\ approvals'[Len(approvals) + 1] = new
      /\ \A a \in DOMAIN approvals : a \in DOMAIN approvals' /\ approvals'[a] = approvals[a]
  BY <1>1
<1>3. ContextTyped'
  BY <1>2 DEF ContextTyped
<1>4. LineageCounts'
  <2> SUFFICES ASSUME NEW a \in DOMAIN approvals' PROVE Counts(a)'
    BY DEF LineageCounts
  <2>1. CASE a = Len(approvals) + 1
    BY <1>1, <1>2, <2>1 DEF Counts
  <2>2. CASE a # Len(approvals) + 1
    <3>1. a \in DOMAIN approvals /\ Counts(a)
      BY <1>1, <1>2, <2>2 DEF LineageCounts
    <3>2. approvals[a].parent \in Nat
      BY <3>1, ApprovalTyped
    <3>3. approvals[a].parent # 0 => approvals[a].parent \in DOMAIN approvals
      BY <1>1, <3>1, <3>2 DEF Counts
    <3> QED
      BY <1>2, <3>1, <3>3 DEF Counts
  <2> QED
    BY <2>1, <2>2
<1>5. CallsWereApproved'
  BY <1>2 DEF CallsWereApproved, CallWasApproved
<1> QED
  BY <1>3, <1>4, <1>5 DEF OneCallPerApproval

\* An approval under a lease keeps the invariant, renewed from a parent or new.
LEMMA CreateKeeps ==
  ASSUME ContextInv, NEW t \in DOMAIN calls, NEW p \in {0} \cup DOMAIN approvals,
         CreateLease(t, p)
  PROVE  ContextInv'
<1> DEFINE new == [prior |-> t, parent |-> p, used |-> CallsUsed(p), state |-> version,
                   session |-> calls[t].session,
                   lease |-> IF p = 0 THEN Len(approvals) + 1 ELSE approvals[p].lease]
<1>1. approvals' = Append(approvals, new) /\ UNCHANGED <<calls, consumed, version>>
      /\ (p # 0 => approvals[p].lease # NoLease)
  BY DEF CreateLease, MayCreate
<1>2. /\ Len(approvals) \in Nat /\ t \in Nat /\ p \in Nat /\ version \in Nat
      /\ calls[t] \in Calls /\ (p # 0 => approvals[p] \in Approvals)
  BY DEF ContextInv, ContextTyped
<1>3. CallsUsed(p) \in Nat /\ CallsUsed(p) > 0 /\ (p # 0 => CallsUsed(p) = approvals[p].used + 1)
  BY <1>2 DEF CallsUsed, Approvals
<1>4. new \in Approvals
  <2>1. (IF p = 0 THEN Len(approvals) + 1 ELSE approvals[p].lease) \in Nat
    BY <1>2 DEF Approvals
  <2>2. calls[t].session \in Nat
    BY <1>2 DEF Calls
  <2> QED
    BY <1>2, <1>3, <2>1, <2>2 DEF Approvals
<1>5. new.parent = p /\ new.used = CallsUsed(p) /\ (p # 0 => new.lease = approvals[p].lease)
  OBVIOUS
<1> HIDE DEF new
<1> QED
  BY <1>1, <1>3, <1>4, <1>5, ApprovalKeeps

\* So does an approval without a lease.
LEMMA ApproveKeeps ==
  ASSUME ContextInv, NEW t \in DOMAIN calls, ApprovePlain(t)
  PROVE  ContextInv'
<1> DEFINE new == [prior |-> t, parent |-> 0, used |-> 0, state |-> version,
                   session |-> calls[t].session, lease |-> NoLease]
<1>1. approvals' = Append(approvals, new) /\ UNCHANGED <<calls, consumed, version>>
  BY DEF ApprovePlain
<1>2. new \in Approvals
  <2>1. t \in Nat /\ calls[t] \in Calls /\ version \in Nat
    BY DEF ContextInv, ContextTyped
  <2>2. calls[t].session \in Nat
    BY <2>1 DEF Calls
  <2> QED
    BY <2>1, <2>2 DEF Approvals, NoLease
<1>3. new.parent = 0 /\ new.lease = NoLease
  OBVIOUS
<1> HIDE DEF new
<1> QED
  BY <1>1, <1>2, <1>3, ApprovalKeeps

\* So does a call that consumes its approval, by whatever route it goes.
LEMMA StartKeeps ==
  ASSUME ContextInv, NEW a \in DOMAIN approvals, NEW fresh \in BOOLEAN, NEW checkpoint \in BOOLEAN,
         Start(a, fresh, checkpoint)
  PROVE  ContextInv'
<1> USE DEF ContextInv
<1> DEFINE route == Route(a, fresh, checkpoint)
           new == [lease |-> approvals[a].lease, approval |-> a, route |-> route,
                   session |-> IF route = "warm-resume" THEN approvals[a].session
                               ELSE Len(calls) + 1]
<1>1. /\ calls' = Append(calls, new) /\ consumed' = consumed \cup {a}
      /\ version' \in {version, version + 1} /\ approvals' = approvals /\ a \notin consumed
  BY DEF Start, MayStart
<1>2. /\ calls \in Seq(Calls) /\ Len(calls) \in Nat /\ approvals[a] \in Approvals
      /\ a \in Nat \ {0}
  BY DEF ContextTyped
<1>3. route \in {"cold-fresh", "capsule-rehydrate", "warm-resume"}
  BY DEF Route
<1>4. route = "warm-resume" /\ approvals[a].lease # NoLease => approvals[a].used <= WarmCallLimit
  BY <1>2, ContextAssumption DEF Route, Approvals
<1> HIDE DEF route
<1>5. new \in Calls
  BY <1>2, <1>3 DEF Calls, Approvals
<1>6. new.approval = a /\ new.lease = approvals[a].lease /\ new.route = route
  OBVIOUS
<1> HIDE DEF new
<1>7. /\ calls' \in Seq(Calls) /\ Len(calls') = Len(calls) + 1 /\ calls'[Len(calls) + 1] = new
      /\ \A i \in DOMAIN calls : calls'[i] = calls[i]
      /\ DOMAIN calls' = DOMAIN calls \cup {Len(calls) + 1}
  BY <1>1, <1>2, <1>5
<1>8. ContextTyped'
  BY <1>1, <1>7 DEF ContextTyped
<1>9. LineageCounts'
  BY <1>1 DEF LineageCounts, Counts
<1>10. CallsWereApproved'
  <2>0. PICK n : n = Len(calls) + 1
    OBVIOUS
  <2>1. CallWasApproved(n)'
    <3>1. calls'[n] = new /\ a \in consumed' /\ approvals' = approvals
      BY <1>1, <1>7, <2>0
    <3> QED
      BY <1>4, <1>6, <3>1 DEF CallWasApproved
  <2>2. ASSUME NEW i \in DOMAIN calls PROVE CallWasApproved(i)'
    BY <1>1, <1>7 DEF CallsWereApproved, CallWasApproved
  <2> QED
    BY <1>7, <2>0, <2>1, <2>2 DEF CallsWereApproved
<1>11. OneCallPerApproval'
  <2>1. \A i \in DOMAIN calls : calls[i].approval # a
    BY <1>1, <1>2 DEF CallsWereApproved, CallWasApproved
  <2> QED
    BY <1>6, <1>7, <2>1 DEF OneCallPerApproval
<1> QED
  BY <1>8, <1>9, <1>10, <1>11

\* The invariant of the context lease holds in every state it reaches.
THEOREM ContextInvariant == ContextSpec => []ContextInv
<1>1. ContextInv /\ [ContextNext]_contextVars => ContextInv'
  <2> SUFFICES ASSUME ContextInv, [ContextNext]_contextVars PROVE ContextInv'
    OBVIOUS
  <2>1. CASE ContextNext
    BY <2>1, CreateKeeps, ApproveKeeps, StartKeeps DEF ContextNext
  <2>2. CASE UNCHANGED contextVars
    BY <2>2 DEF contextVars, ContextInv, ContextTyped, LineageCounts, Counts, CallsWereApproved,
         CallWasApproved, OneCallPerApproval
  <2> QED
    BY <2>1, <2>2
<1> QED
  BY <1>1, ContextInitially, PTL DEF ContextSpec

-----------------------------------------------------------------------------
Parents(S) == S \cup {approvals[i].parent : i \in S \ {0}}

\* One step up from a: of each count there is one approval.
IsLineage(a, S) ==
  /\ S \subseteq {0} \cup DOMAIN approvals
  /\ \A b \in S \ {0} : approvals[b].used <= approvals[a].used
  /\ \A b \in S \ {0, a} : \E c \in S \ {0} : approvals[c].parent = b
  /\ \A b, c \in S \ {0} : approvals[b].used = approvals[c].used => b = c

\* What is a lineage upwards of an approval is one with the parents of its members.
LEMMA LineageGoesUp ==
  ASSUME ContextInv, NEW a \in DOMAIN approvals, NEW S, IsLineage(a, S)
  PROVE  IsLineage(a, Parents(S))
<1> DEFINE T == Parents(S)
<1>1. /\ DOMAIN approvals = 1..Len(approvals) /\ Len(approvals) \in Nat
      /\ \A b \in DOMAIN approvals : b \in Nat \ {0} /\ approvals[b].used \in Nat
                                     /\ approvals[b].parent \in Nat /\ Counts(b)
  BY ApprovalTyped DEF ContextInv, ContextTyped
<1>2. \A i \in S \ {0} : i \in DOMAIN approvals /\ approvals[i].used <= approvals[a].used
  BY <1>1 DEF IsLineage
<1>3. \A i \in S \ {0} : approvals[i].parent # 0 =>
        /\ approvals[i].parent \in DOMAIN approvals
        /\ approvals[i].used = approvals[approvals[i].parent].used + 1
  <2> SUFFICES ASSUME NEW i \in S \ {0}, approvals[i].parent # 0
               PROVE  /\ approvals[i].parent \in DOMAIN approvals
                      /\ approvals[i].used = approvals[approvals[i].parent].used + 1
    OBVIOUS
  <2>1. i \in DOMAIN approvals /\ Counts(i) /\ approvals[i].parent \in Nat
    BY <1>1, <1>2
  <2> QED
    BY <1>1, <2>1 DEF Counts
<1>4. \A b \in T \ {0, a} : \E c \in S \ {0} : approvals[c].parent = b
  BY DEF IsLineage, Parents
<1>5. \A b \in T \ {0, a} : \E c \in S \ {0} :
        /\ approvals[c].parent = b /\ b \in DOMAIN approvals
        /\ approvals[c].used = approvals[b].used + 1 /\ approvals[c].used <= approvals[a].used
  BY <1>2, <1>3, <1>4
<1>6. T \subseteq {0} \cup DOMAIN approvals
  BY <1>5
<1>7. \A b \in T \ {0, a} : approvals[b].used < approvals[a].used
  BY <1>1, <1>5
<1>8. \A b \in T \ {0} : approvals[b].used <= approvals[a].used
  BY <1>1, <1>6, <1>7
<1>9. S \subseteq T
  BY DEF Parents
<1>10. ASSUME NEW b \in T \ {0}, NEW c \in T \ {0}, approvals[b].used = approvals[c].used
       PROVE  b = c
  <2>1. CASE b = a \/ c = a
    BY <1>1, <1>7, <1>10, <2>1
  <2>2. CASE b # a /\ c # a
    <3>1. PICK i \in S \ {0} : approvals[i].parent = b /\ approvals[i].used = approvals[b].used + 1
      BY <1>5, <2>2
    <3>2. PICK j \in S \ {0} : approvals[j].parent = c /\ approvals[j].used = approvals[c].used + 1
      BY <1>5, <2>2
    <3>3. i = j
      BY <1>10, <3>1, <3>2 DEF IsLineage
    <3> QED
      BY <3>1, <3>2, <3>3
  <2> QED
    BY <2>1, <2>2
<1> HIDE DEF T
<1>11. IsLineage(a, T)
  BY <1>4, <1>6, <1>8, <1>9, <1>10 DEF IsLineage
<1> QED
  BY <1>11 DEF T

\* The ancestors of an approval, climbed as many times as there are approvals, form a
\* lineage: of each count there is one (by induction over the climbs).
LEMMA AncestorsAreLineage ==
  ASSUME ContextInv, NEW a \in DOMAIN approvals
  PROVE  \E S : IsLineage(a, S) /\ Ancestors(a) = S \ {0}
<1> DEFINE Climbs(g, m) ==
             g = [n \in 0..m |->
                    IF n = 0 THEN {a}
                    ELSE g[n - 1] \cup {approvals[i].parent : i \in g[n - 1] \ {0}}]
           top == Len(approvals)
           up == CHOOSE g : Climbs(g, top)
<1>1. Ancestors(a) = up[top] \ {0} /\ top \in Nat
  BY DEF Ancestors, ContextInv, ContextTyped
<1>2. \E g : Climbs(g, top)
  <2> DEFINE T == {m \in Nat : \E g : Climbs(g, m)}
  <2>1. 0 \in T
    <3> DEFINE g == [n \in 0..0 |-> {a}]
    <3>1. Climbs(g, 0)
      OBVIOUS
    <3> QED
      BY <3>1
  <2>2. ASSUME NEW m \in Nat, m \in T PROVE m + 1 \in T
    <3>1. PICK g : Climbs(g, m)
      BY <2>2
    <3> DEFINE h == [n \in 0..(m + 1) |-> IF n = m + 1 THEN Parents(g[m]) ELSE g[n]]
    <3>2. ASSUME NEW n \in 0..(m + 1)
          PROVE  h[n] = IF n = 0 THEN {a} ELSE Parents(h[n - 1])
      <4>1. CASE n = m + 1
        BY <4>1
      <4>2. CASE n \in 1..m
        <5>1. n - 1 \in 0..m /\ n \in 0..m /\ n # 0
          BY <4>2
        <5>2. h[n] = g[n] /\ h[n - 1] = g[n - 1]
          BY <4>2, <5>1
        <5> QED
          BY <3>1, <5>1, <5>2 DEF Parents
      <4>3. CASE n = 0
        BY <3>1, <4>3
      <4> QED
        BY <4>1, <4>2, <4>3
    <3>3. h = [n \in 0..(m + 1) |-> h[n]]
      OBVIOUS
    <3> HIDE DEF h
    <3>4. Climbs(h, m + 1)
      BY <3>2, <3>3 DEF Parents
    <3> QED
      BY <3>4
  <2> HIDE DEF T
  <2>3. top \in T
    BY <1>1, <2>1, <2>2, SetInduction
  <2> QED
    BY <2>3 DEF T
<1>3. Climbs(up, top)
  BY <1>2
<1> HIDE DEF up
<1> DEFINE T == {n \in Nat : n <= top => IsLineage(a, up[n])}
<1>4. 0 \in T
  <2>1. up[0] = {a}
    BY <1>1, <1>3
  <2>2. IsLineage(a, {a})
    BY ApprovalTyped DEF IsLineage
  <2> QED
    BY <2>1, <2>2
<1>5. ASSUME NEW n \in Nat, n \in T PROVE n + 1 \in T
  <2> SUFFICES ASSUME n + 1 <= top PROVE IsLineage(a, up[n + 1])
    OBVIOUS
  <2>1. n \in 0..top /\ n + 1 \in 0..top /\ n + 1 # 0 /\ (n + 1) - 1 = n
    BY <1>1
  <2>2. up[n + 1] = Parents(up[n])
    BY <1>3, <2>1 DEF Parents
  <2>3. IsLineage(a, up[n])
    BY <1>1, <1>5, <2>1
  <2> QED
    BY <2>2, <2>3, LineageGoesUp
<1> HIDE DEF T
<1>6. top \in T
  BY <1>1, <1>4, <1>5, SetInduction
<1>7. IsLineage(a, up[top])
  BY <1>1, <1>6 DEF T
<1> QED
  BY <1>1, <1>7

\* Whatever the limit and however approvals branch: along the ancestors of an approval no
\* more calls resume a session than the limit of the lease.
THEOREM WarmCallsStayBounded == ContextSpec => []WarmCallsAreBounded
<1>1. ContextInv => WarmCallsAreBounded
  <2> SUFFICES ASSUME ContextInv, NEW a \in DOMAIN approvals
               PROVE  Cardinality({i \in DOMAIN calls :
                                     /\ calls[i].approval \in Ancestors(a)
                                     /\ calls[i].lease # NoLease
                                     /\ calls[i].route = "warm-resume"}) <= WarmCallLimit
    BY DEF WarmCallsAreBounded
  <2> DEFINE W == {i \in DOMAIN calls : /\ calls[i].approval \in Ancestors(a)
                                        /\ calls[i].lease # NoLease
                                        /\ calls[i].route = "warm-resume"}
             count == [i \in W |-> approvals[calls[i].approval].used]
  <2>1. PICK S : IsLineage(a, S) /\ Ancestors(a) = S \ {0}
    BY AncestorsAreLineage
  <2>2. ASSUME NEW i \in W
        PROVE  /\ calls[i].approval \in S \ {0}
               /\ approvals[calls[i].approval].used \in 1..WarmCallLimit
    <3>1. calls[i].approval \in S \ {0} /\ CallWasApproved(i)
      BY <2>1 DEF ContextInv, CallsWereApproved
    <3>2. /\ calls[i].approval \in DOMAIN approvals
          /\ approvals[calls[i].approval].lease # NoLease
          /\ approvals[calls[i].approval].used <= WarmCallLimit
      BY <3>1 DEF CallWasApproved
    <3>3. approvals[calls[i].approval].used \in Nat /\ approvals[calls[i].approval].used > 0
      BY <3>2, ApprovalTyped DEF Counts
    <3> QED
      BY <3>1, <3>2, <3>3, ContextAssumption
  <2>3. count \in [W -> 1..WarmCallLimit]
    BY <2>2
  <2>4. \A i, j \in W : count[i] = count[j] => i = j
    <3> SUFFICES ASSUME NEW i \in W, NEW j \in W, count[i] = count[j] PROVE i = j
      OBVIOUS
    <3>1. approvals[calls[i].approval].used = approvals[calls[j].approval].used
      OBVIOUS
    <3>2. calls[i].approval \in S \ {0} /\ calls[j].approval \in S \ {0}
      BY <2>2
    <3>3. \A b, c \in S \ {0} : approvals[b].used = approvals[c].used => b = c
      BY <2>1 DEF IsLineage
    <3>4. calls[i].approval = calls[j].approval /\ calls[i].approval # 0
      BY <3>1, <3>2, <3>3
    <3> QED
      BY <3>4 DEF ContextInv, OneCallPerApproval
  <2> HIDE DEF W, count
  <2>5. IsFiniteSet(1..WarmCallLimit) /\ Cardinality(1..WarmCallLimit) = WarmCallLimit
    BY ContextAssumption, FS_Interval
  <2>6. count \in Injection(W, 1..WarmCallLimit)
    BY <2>3, <2>4 DEF Injection, IsInjective
  <2>7. Cardinality(W) <= Cardinality(1..WarmCallLimit)
    BY <2>5, <2>6, FS_Injection
  <2> QED
    BY <2>5, <2>7 DEF W
<1> QED
  BY <1>1, ContextInvariant, PTL

-----------------------------------------------------------------------------
(* The handoff.                                                             *)

\* A collection of items is a function.
IsItems(f) == f = [i \in DOMAIN f |-> f[i]]

\* Restrict is its function.
LEMMA Restricted ==
  ASSUME NEW f, NEW S
  PROVE  /\ DOMAIN Restrict(f, S) = S
         /\ \A i \in S : Restrict(f, S)[i] = f[i]
BY DEF Restrict

\* What UpdatedBy holds: the second's items, and the first's where the second has none.
LEMMA Joined ==
  ASSUME NEW f, NEW g
  PROVE  /\ DOMAIN UpdatedBy(f, g) = DOMAIN f \cup DOMAIN g
         /\ IsItems(UpdatedBy(f, g))
         /\ \A i \in DOMAIN g : UpdatedBy(f, g)[i] = g[i]
         /\ \A i \in DOMAIN f \ DOMAIN g : UpdatedBy(f, g)[i] = f[i]
BY DEF UpdatedBy, IsItems

\* Two collections with the same items are equal.
LEMMA SameItems ==
  ASSUME NEW f, NEW g, IsItems(f), IsItems(g), DOMAIN f = DOMAIN g,
         \A i \in DOMAIN g : f[i] = g[i]
  PROVE  f = g
<1>1. [i \in DOMAIN f |-> f[i]] = [i \in DOMAIN g |-> g[i]]
  OBVIOUS
<1> QED
  BY <1>1 DEF IsItems

\* If nothing is reported updated, the items kept are as they were.
LEMMA Unchanged ==
  ASSUME NEW old, NEW new, Updated(old, new) = NoItems
  PROVE  \A i \in DOMAIN old \cap DOMAIN new : old[i] = new[i]
<1>1. DOMAIN NoItems = {}
  BY DEF NoItems
<1>2. DOMAIN Updated(old, new) = {i \in DOMAIN old \cap DOMAIN new : old[i] # new[i]}
  BY Restricted DEF Updated
<1> QED
  BY <1>1, <1>2

\* What is removed and added rebuilds a collection whose items are never updated.
LEMMA Rebuilt ==
  ASSUME NEW old, NEW new, IsItems(new), Updated(old, new) = NoItems
  PROVE  UpdatedBy(Restrict(old, DOMAIN old \ Removed(old, new)), Added(old, new)) = new
<1> DEFINE added == Added(old, new)
           kept == Restrict(old, DOMAIN old \ Removed(old, new))
           all == UpdatedBy(kept, added)
<1>1. \A i \in DOMAIN old \cap DOMAIN new : old[i] = new[i]
  BY Unchanged
<1>2. DOMAIN added = DOMAIN new \ DOMAIN old /\ \A i \in DOMAIN added : added[i] = new[i]
  BY Restricted DEF Added
<1>3. DOMAIN kept = DOMAIN old \cap DOMAIN new /\ \A i \in DOMAIN kept : kept[i] = new[i]
  <2>1. DOMAIN old \ Removed(old, new) = DOMAIN old \cap DOMAIN new
    BY DEF Removed
  <2> QED
    BY <1>1, <2>1, Restricted
<1> HIDE DEF added, kept
<1>4. /\ DOMAIN all = DOMAIN kept \cup DOMAIN added /\ IsItems(all)
      /\ \A i \in DOMAIN added : all[i] = added[i]
      /\ \A i \in DOMAIN kept \ DOMAIN added : all[i] = kept[i]
  BY Joined
<1> HIDE DEF all
<1>5. DOMAIN all = DOMAIN new /\ \A i \in DOMAIN new : all[i] = new[i]
  BY <1>2, <1>3, <1>4
<1>6. all = new
  BY <1>4, <1>5, SameItems
<1> QED
  BY <1>6 DEF all, kept, added

\* What is removed, added and updated rebuilds any collection.
LEMMA RebuiltWithUpdates ==
  ASSUME NEW old, NEW new, IsItems(new)
  PROVE  UpdatedBy(Restrict(old, DOMAIN old \ Removed(old, new)),
                   UpdatedBy(Added(old, new), Updated(old, new))) = new
<1> DEFINE added == Added(old, new)
           updated == Updated(old, new)
           sent == UpdatedBy(added, updated)
           kept == Restrict(old, DOMAIN old \ Removed(old, new))
           all == UpdatedBy(kept, sent)
<1>1. /\ DOMAIN updated = {i \in DOMAIN old \cap DOMAIN new : old[i] # new[i]}
      /\ \A i \in DOMAIN updated : updated[i] = new[i]
  BY Restricted DEF Updated
<1>2. DOMAIN added = DOMAIN new \ DOMAIN old /\ \A i \in DOMAIN added : added[i] = new[i]
  BY Restricted DEF Added
<1>3. DOMAIN kept = DOMAIN old \cap DOMAIN new /\ \A i \in DOMAIN kept : kept[i] = old[i]
  BY Restricted DEF Removed
<1> HIDE DEF added, updated, kept
<1>4. /\ DOMAIN sent = DOMAIN added \cup DOMAIN updated
      /\ \A i \in DOMAIN updated : sent[i] = updated[i]
      /\ \A i \in DOMAIN added \ DOMAIN updated : sent[i] = added[i]
  BY Joined
<1> HIDE DEF sent
<1>5. /\ DOMAIN all = DOMAIN kept \cup DOMAIN sent /\ IsItems(all)
      /\ \A i \in DOMAIN sent : all[i] = sent[i]
      /\ \A i \in DOMAIN kept \ DOMAIN sent : all[i] = kept[i]
  BY Joined
<1> HIDE DEF all
<1>6. DOMAIN all = DOMAIN new
  BY <1>1, <1>2, <1>3, <1>4, <1>5
<1>7. ASSUME NEW i \in DOMAIN new PROVE all[i] = new[i]
  <2>1. CASE i \in DOMAIN sent
    BY <2>1, <1>1, <1>2, <1>4, <1>5
  <2>2. CASE i \notin DOMAIN sent
    BY <2>2, <1>1, <1>2, <1>3, <1>4, <1>5
  <2> QED
    BY <2>1, <2>2
<1>8. all = new
  BY <1>5, <1>6, <1>7, SameItems
<1> QED
  BY <1>8 DEF all, kept, sent, added, updated

\* What is updated rebuilds a collection whose items are fixed.
LEMMA RebuiltInPlace ==
  ASSUME NEW old, NEW new, IsItems(new), DOMAIN old = DOMAIN new
  PROVE  UpdatedBy(Restrict(old, DOMAIN old \ {}), Updated(old, new)) = new
<1> DEFINE updated == Updated(old, new)
           kept == Restrict(old, DOMAIN old \ {})
           all == UpdatedBy(kept, updated)
<1>1. /\ DOMAIN updated = {i \in DOMAIN new : old[i] # new[i]}
      /\ \A i \in DOMAIN updated : updated[i] = new[i]
  BY Restricted DEF Updated
<1>2. DOMAIN kept = DOMAIN new /\ \A i \in DOMAIN new : kept[i] = old[i]
  BY Restricted
<1> HIDE DEF updated, kept
<1>3. /\ DOMAIN all = DOMAIN kept \cup DOMAIN updated /\ IsItems(all)
      /\ \A i \in DOMAIN updated : all[i] = updated[i]
      /\ \A i \in DOMAIN kept \ DOMAIN updated : all[i] = kept[i]
  BY Joined
<1> HIDE DEF all
<1>4. DOMAIN all = DOMAIN new /\ \A i \in DOMAIN new : all[i] = new[i]
  BY <1>1, <1>2, <1>3
<1>5. all = new
  BY <1>3, <1>4, SameItems
<1> QED
  BY <1>5 DEF all, kept, updated

\* Every part of a state that has items is a collection of items.
LEMMA ItemsAreItems ==
  ASSUME NEW c \in Contents
  PROVE  /\ IsItems(c.constraints) /\ IsItems(c.decisions) /\ IsItems(c.rejected)
         /\ IsItems(c.questions) /\ IsItems(c.acceptance)
         /\ DOMAIN c.acceptance = AcceptanceItems
<1>1. ASSUME NEW values, NEW f \in ById(values) PROVE IsItems(f)
  BY <1>1 DEF ById, IsItems
<1>2. /\ c.constraints \in ById(BOOLEAN) /\ c.decisions \in ById(Decision)
      /\ c.rejected \in ById(Rejection) /\ c.questions \in ById(Versions)
      /\ c.acceptance \in [AcceptanceItems -> Criterion]
  BY DEF Contents
<1> QED
  BY <1>1, <1>2 DEF IsItems

\* A delta that is delivered turns its base into the state it is for, whatever the two are.
LEMMA DeltaTells ==
  ASSUME NEW states \in Seq(Contents), NEW b \in DOMAIN states, NEW t \in DOMAIN states,
         Deliverable(states, b, t)
  PROVE  Received(states[b], DeltaOf(states, b, t)) = states[t]
<1> DEFINE old == states[b]
           new == states[t]
           d == DeltaOf(states, b, t)
           r == Received(old, d)
<1>1. old \in Contents /\ new \in Contents
  OBVIOUS
<1>2. /\ Removed(old.constraints, new.constraints) = {}
      /\ Updated(old.constraints, new.constraints) = NoItems
      /\ Updated(old.rejected, new.rejected) = NoItems
      /\ Updated(old.questions, new.questions) = NoItems
  BY DEF Deliverable
<1>3. /\ r.goal = IF IfChanged(old.goal, new.goal) = Null THEN old.goal
                  ELSE IfChanged(old.goal, new.goal)
      /\ r.phase = IF IfChanged(old.phase, new.phase) = Null THEN old.phase
                  ELSE IfChanged(old.phase, new.phase)
      /\ r.repository = IF IfChanged(old.repository, new.repository) = Null THEN old.repository
                  ELSE IfChanged(old.repository, new.repository)
      /\ r.constraints = UpdatedBy(Restrict(old.constraints, DOMAIN old.constraints \ {}),
                                   Added(old.constraints, new.constraints))
      /\ r.decisions = UpdatedBy(Restrict(old.decisions, DOMAIN old.decisions
                                            \ Removed(old.decisions, new.decisions)),
                                 UpdatedBy(Added(old.decisions, new.decisions),
                                           Updated(old.decisions, new.decisions)))
      /\ r.rejected = UpdatedBy(Restrict(old.rejected, DOMAIN old.rejected
                                            \ Removed(old.rejected, new.rejected)),
                                Added(old.rejected, new.rejected))
      /\ r.questions = UpdatedBy(Restrict(old.questions, DOMAIN old.questions
                                            \ Removed(old.questions, new.questions)),
                                 Added(old.questions, new.questions))
      /\ r.evidence = (old.evidence \ (old.evidence \ new.evidence))
                       \cup (new.evidence \ old.evidence)
      /\ r.acceptance = UpdatedBy(Restrict(old.acceptance, DOMAIN old.acceptance \ {}),
                                  Updated(old.acceptance, new.acceptance))
      /\ r.paths = new.paths
      /\ r = [goal |-> r.goal, phase |-> r.phase, repository |-> r.repository,
              constraints |-> r.constraints, decisions |-> r.decisions,
              rejected |-> r.rejected, questions |-> r.questions, evidence |-> r.evidence,
              acceptance |-> r.acceptance, paths |-> r.paths]
  BY DEF Received, DeltaOf
<1>4. new = [goal |-> new.goal, phase |-> new.phase, repository |-> new.repository,
             constraints |-> new.constraints, decisions |-> new.decisions,
             rejected |-> new.rejected, questions |-> new.questions, evidence |-> new.evidence,
             acceptance |-> new.acceptance, paths |-> new.paths]
  BY <1>1 DEF Contents
<1>5. DOMAIN old.acceptance = DOMAIN new.acceptance
  BY <1>1, ItemsAreItems
<1> HIDE DEF r, d
<1>6. r.goal = new.goal /\ r.phase = new.phase /\ r.repository = new.repository
  <2>1. new.goal # Null /\ new.phase # Null /\ new.repository # Null
    BY <1>1, HandoffAssumption DEF Contents
  <2> QED
    BY <1>3, <2>1 DEF IfChanged
<1>7. r.constraints = new.constraints /\ r.decisions = new.decisions
      /\ r.rejected = new.rejected /\ r.questions = new.questions
      /\ r.acceptance = new.acceptance
  BY <1>1, <1>2, <1>3, <1>5, ItemsAreItems, Rebuilt, RebuiltWithUpdates, RebuiltInPlace
<1>8. r.evidence = new.evidence
  BY <1>3
<1>9. r = new
  BY <1>3, <1>4, <1>6, <1>7, <1>8
<1> QED
  BY <1>9 DEF r, d

\* An item put into a collection leaves a collection.
LEMMA WithItem ==
  ASSUME NEW values, NEW f \in ById(values), NEW i \in Ids, NEW v \in values
  PROVE  With(f, i, v) \in ById(values)
<1>1. PICK D \in SUBSET Ids : f \in [D -> values]
  BY DEF ById
<1>2. With(f, i, v) \in [D \cup {i} -> values]
  BY <1>1 DEF With
<1> QED
  BY <1>1, <1>2 DEF ById

\* An item taken out of a collection leaves a collection.
LEMMA WithoutItem ==
  ASSUME NEW values, NEW f \in ById(values), NEW i
  PROVE  Without(f, i) \in ById(values)
<1>1. PICK D \in SUBSET Ids : f \in [D -> values]
  BY DEF ById
<1>2. Without(f, i) \in [D \ {i} -> values]
  BY <1>1 DEF Without, Restrict
<1> QED
  BY <1>1, <1>2 DEF ById

\* Each of the mutations leaves a well-formed state.
LEMMA MutatedIsContent ==
  ASSUME NEW c \in Contents, NEW d \in Mutated(c)
  PROVE  d \in Contents
<1>1. /\ c.constraints \in ById(BOOLEAN) /\ c.decisions \in ById(Decision)
      /\ c.rejected \in ById(Rejection) /\ c.questions \in ById(Versions)
      /\ c.evidence \in SUBSET EvidenceIds
      /\ c.acceptance \in [AcceptanceItems -> Criterion]
  BY DEF Contents
<1>a. CASE d \in AddConstraint(c)
  <2>1. PICK i \in Ids, frozen \in BOOLEAN :
          d = [c EXCEPT !.constraints = With(c.constraints, i, frozen)]
    BY <1>a DEF AddConstraint
  <2>2. With(c.constraints, i, frozen) \in ById(BOOLEAN)
    BY <1>1, WithItem
  <2> QED
    BY <2>1, <2>2 DEF Contents
<1>b. CASE d \in AcceptDecision(c)
  <2>1. PICK i \in Ids, v \in Versions, r \in Refs(c) :
          d = [c EXCEPT !.decisions =
                 With(c.decisions, i, [text |-> v, frozen |-> FALSE, refs |-> r])]
    BY <1>b DEF AcceptDecision
  <2>2. [text |-> v, frozen |-> FALSE, refs |-> r] \in Decision
    BY <1>1 DEF Refs, Decision
  <2>3. With(c.decisions, i, [text |-> v, frozen |-> FALSE, refs |-> r]) \in ById(Decision)
    BY <1>1, <2>2, WithItem
  <2> QED
    BY <2>1, <2>3 DEF Contents
<1>c. CASE d \in FreezeDecision(c)
  <2>1. PICK i \in DOMAIN c.decisions : d = [c EXCEPT !.decisions[i].frozen = TRUE]
    BY <1>c DEF FreezeDecision
  <2>2. PICK D \in SUBSET Ids : c.decisions \in [D -> Decision]
    BY <1>1 DEF ById
  <2>3. [c.decisions[i] EXCEPT !.frozen = TRUE] \in Decision
    BY <2>2 DEF Decision
  <2>4. [c.decisions EXCEPT ![i] = [c.decisions[i] EXCEPT !.frozen = TRUE]] \in [D -> Decision]
    BY <2>2, <2>3
  <2>5. [c.decisions EXCEPT ![i] = [c.decisions[i] EXCEPT !.frozen = TRUE]] \in ById(Decision)
    BY <2>4 DEF ById
  <2>6. d = [c EXCEPT !.decisions =
               [c.decisions EXCEPT ![i] = [c.decisions[i] EXCEPT !.frozen = TRUE]]]
    BY <2>1
  <2> QED
    BY <2>5, <2>6 DEF Contents
<1>d. CASE d \in InvalidateDecision(c)
  <2>1. PICK i : d = [c EXCEPT !.decisions = Without(c.decisions, i)]
    BY <1>d DEF InvalidateDecision
  <2>2. Without(c.decisions, i) \in ById(Decision)
    BY <1>1, WithoutItem
  <2> QED
    BY <2>1, <2>2 DEF Contents
<1>e. CASE d \in RejectHypothesis(c)
  <2>1. PICK i \in Ids, v \in Versions, r \in Refs(c) :
          d = [c EXCEPT !.rejected = With(c.rejected, i, [text |-> v, refs |-> r])]
    BY <1>e DEF RejectHypothesis
  <2>2. [text |-> v, refs |-> r] \in Rejection
    BY <1>1 DEF Refs, Rejection
  <2>3. With(c.rejected, i, [text |-> v, refs |-> r]) \in ById(Rejection)
    BY <1>1, <2>2, WithItem
  <2> QED
    BY <2>1, <2>3 DEF Contents
<1>f. CASE d \in ReopenHypothesis(c)
  <2>1. PICK i : d = [c EXCEPT !.rejected = Without(c.rejected, i)]
    BY <1>f DEF ReopenHypothesis
  <2>2. Without(c.rejected, i) \in ById(Rejection)
    BY <1>1, WithoutItem
  <2> QED
    BY <2>1, <2>2 DEF Contents
<1>g. CASE d \in OpenQuestion(c)
  <2>1. PICK i \in Ids, v \in Versions : d = [c EXCEPT !.questions = With(c.questions, i, v)]
    BY <1>g DEF OpenQuestion
  <2>2. With(c.questions, i, v) \in ById(Versions)
    BY <1>1, WithItem
  <2> QED
    BY <2>1, <2>2 DEF Contents
<1>h. CASE d \in ResolveQuestion(c)
  <2>1. PICK i : d = [c EXCEPT !.questions = Without(c.questions, i)]
    BY <1>h DEF ResolveQuestion
  <2>2. Without(c.questions, i) \in ById(Versions)
    BY <1>1, WithoutItem
  <2> QED
    BY <2>1, <2>2 DEF Contents
<1>i. CASE d \in AddEvidence(c)
  BY <1>i DEF AddEvidence, Contents
<1>j. CASE d \in UpdateAcceptance(c)
  <2>1. PICK a \in AcceptanceItems, s \in Reported, r \in Refs(c) :
          d = [c EXCEPT !.acceptance[a] = [status |-> s, refs |-> r]]
    BY <1>j DEF UpdateAcceptance
  <2>2. [status |-> s, refs |-> r] \in Criterion
    BY <1>1, HandoffAssumption DEF Refs, Criterion
  <2>3. [c.acceptance EXCEPT ![a] = [status |-> s, refs |-> r]] \in [AcceptanceItems -> Criterion]
    BY <1>1, <2>2
  <2>4. d = [c EXCEPT !.acceptance = [c.acceptance EXCEPT ![a] = [status |-> s, refs |-> r]]]
    BY <2>1
  <2> QED
    BY <2>3, <2>4 DEF Contents
<1>k. CASE d \in UpdateField(c)
  <2>1. NextPhases[c.phase] \subseteq Phases
    BY DEF Contents, NextPhases, Phases
  <2>2. d \in {[c EXCEPT !.goal = v] : v \in Versions}
          \cup {[c EXCEPT !.repository = v] : v \in Versions}
          \cup {[c EXCEPT !.paths = p] : p \in PathSets} => d \in Contents
    BY DEF Contents
  <2>3. ASSUME NEW p \in NextPhases[c.phase], d = [c EXCEPT !.phase = p] PROVE d \in Contents
    BY <2>1, <2>3 DEF Contents
  <2> QED
    BY <1>k, <2>2, <2>3 DEF UpdateField
<1> QED
  BY <1>a, <1>b, <1>c, <1>d, <1>e, <1>f, <1>g, <1>h, <1>i, <1>j, <1>k DEF Mutated

-----------------------------------------------------------------------------
\* What a receiver has written: it has the fields of an ACK, and it was said.
Said(a) ==
  a # Null =>
    /\ a = [state |-> a.state, attempt |-> a.attempt, names |-> a.names,
            goal |-> a.goal, writes |-> a.writes, objects |-> a.objects]
    /\ \A m \in a.names : <<a.state, m>> \in told

\* The chain is of well-formed states, and the receiver holds one of them.
ChainIsOfStates == chain \in Seq(Contents) /\ held \in DOMAIN chain
\* The delta under way is between two states of the chain.
DeltaFits ==
  delta # Null => \E b, t \in DOMAIN chain : Deliverable(chain, b, t) /\ delta = DeltaOf(chain, b, t)
\* What a receiver was given to believe of a state is that state.
BeliefIsTrue == \A b \in believed : b[1] \in DOMAIN chain /\ b[3] = chain[b[1]]
\* Every ACK there is was given.
AnswersWereGiven == Said(ack) /\ Said(repair) /\ Said(merged)
\* What was executed was understood, and its state is in the chain.
ExecutedIsUnderstood ==
  executed # Null => executed.state \in DOMAIN chain /\ HandoffIsUnderstood

\* The invariant of the handoff.
HandoffInv ==
  /\ ChainIsOfStates /\ DeltaFits /\ BeliefIsTrue /\ AnswersWereGiven /\ ExecutedIsUnderstood

\* The invariant of the handoff holds before the first delta.
LEMMA HandoffInitially == HandoffInit => HandoffInv
BY HandoffAssumption DEF HandoffInit, HandoffInv, ChainIsOfStates, DeltaFits, BeliefIsTrue,
     AnswersWereGiven, Said, ExecutedIsUnderstood

\* A state appended leaves the states before it as they were.
LEMMA Grows ==
  ASSUME NEW states \in Seq(Contents), NEW c \in Contents
  PROVE  /\ Append(states, c) \in Seq(Contents)
         /\ DOMAIN states \subseteq DOMAIN Append(states, c)
         /\ \A n \in DOMAIN states : Append(states, c)[n] = states[n]
OBVIOUS

\* A mutation keeps it: deltas and answers are about states that stay in the chain.
LEMMA MutateKeeps ==
  ASSUME HandoffInv, Mutate
  PROVE  HandoffInv'
<1> USE DEF HandoffInv
<1>1. PICK c : c \in Mutated(chain[Len(chain)]) /\ chain' = Append(chain, c)
  BY DEF Mutate
<1>2. UNCHANGED <<held, delta, ack, packet, repair, merged, executed, told, believed>>
  BY DEF Mutate
<1>3. chain \in Seq(Contents) /\ chain[Len(chain)] \in Contents
  BY DEF ChainIsOfStates
<1>4. c \in Contents
  BY <1>1, <1>3, MutatedIsContent
<1>5. /\ chain' \in Seq(Contents) /\ DOMAIN chain \subseteq DOMAIN chain'
      /\ \A n \in DOMAIN chain : chain'[n] = chain[n]
  BY <1>1, <1>3, <1>4, Grows
<1>6. ChainIsOfStates'
  BY <1>2, <1>5 DEF ChainIsOfStates
<1>7. DeltaFits'
  <2>1. ASSUME NEW b \in DOMAIN chain, NEW t \in DOMAIN chain,
               Deliverable(chain, b, t), delta = DeltaOf(chain, b, t)
        PROVE  /\ b \in DOMAIN chain' /\ t \in DOMAIN chain'
               /\ Deliverable(chain', b, t) /\ delta' = DeltaOf(chain', b, t)
    BY <1>2, <1>5, <2>1 DEF Deliverable, DeltaOf
  <2> QED
    BY <1>2, <2>1 DEF DeltaFits
<1>8. BeliefIsTrue'
  BY <1>2, <1>5 DEF BeliefIsTrue
<1>9. AnswersWereGiven'
  BY <1>2 DEF AnswersWereGiven, Said
<1>10. ExecutedIsUnderstood'
  BY <1>2, <1>5 DEF ExecutedIsUnderstood, HandoffIsUnderstood
<1> QED
  BY <1>6, <1>7, <1>8, <1>9, <1>10

\* So does a new delta between two states of the chain.
LEMMA BuildDeltaKeeps ==
  ASSUME HandoffInv, BuildDelta
  PROVE  HandoffInv'
<1> USE DEF HandoffInv
<1>1. UNCHANGED <<chain, held, ack, packet, repair, merged, executed, told, believed>>
  BY DEF BuildDelta
<1>2. DeltaFits'
  BY <1>1 DEF BuildDelta, DeltaFits
<1> QED
  BY <1>1, <1>2 DEF ChainIsOfStates, BeliefIsTrue, AnswersWereGiven, Said,
       ExecutedIsUnderstood, HandoffIsUnderstood

\* What the receiver believes is the state that the delta is for.
LEMMA BeliefIsTheState ==
  ASSUME HandoffInv, Addressed
  PROVE  delta.new \in DOMAIN chain /\ Belief = chain[delta.new]
<1>1. PICK b, t \in DOMAIN chain : Deliverable(chain, b, t) /\ delta = DeltaOf(chain, b, t)
  BY DEF HandoffInv, DeltaFits, Addressed
<1>2. delta.base = b /\ delta.new = t
  BY <1>1 DEF DeltaOf
<1>3. b = held
  BY <1>2 DEF Addressed
<1>4. Received(chain[b], DeltaOf(chain, b, t)) = chain[t]
  BY <1>1, DeltaTells DEF HandoffInv, ChainIsOfStates
<1> QED
  BY <1>1, <1>2, <1>3, <1>4 DEF Belief

\* An answer is an ACK about the state of the delta.
LEMMA AnswerHasShape ==
  ASSUME NEW c, NEW attempt, NEW namings, NEW a \in Answers(c, attempt, namings)
  PROVE  /\ a.state = delta.new
         /\ a = [state |-> a.state, attempt |-> a.attempt, names |-> a.names,
                 goal |-> a.goal, writes |-> a.writes, objects |-> a.objects]
BY DEF Answers

\* What Acknowledge and Repair have in common.
LEMMA SaysKeeps ==
  ASSUME HandoffInv, Addressed, NEW attempt, NEW namings,
         NEW a \in Answers(Belief, attempt, namings), Says(a, Belief),
         UNCHANGED <<chain, held, delta, merged, executed>>,
         \/ ack' = a /\ repair' = repair
         \/ repair' = a /\ ack' = ack
  PROVE  HandoffInv'
<1> USE DEF HandoffInv
<1>1. told \subseteq told' /\ \A m \in a.names : <<a.state, m>> \in told'
  BY DEF Says
<1>2. delta.new \in DOMAIN chain /\ Belief = chain[delta.new]
  BY BeliefIsTheState
<1>3. /\ a.state = delta.new
      /\ a = [state |-> a.state, attempt |-> a.attempt, names |-> a.names,
              goal |-> a.goal, writes |-> a.writes, objects |-> a.objects]
  BY AnswerHasShape
<1>4. ChainIsOfStates' /\ DeltaFits'
  BY DEF ChainIsOfStates, DeltaFits
<1>5. BeliefIsTrue'
  BY <1>2, <1>3 DEF BeliefIsTrue, Says
<1>6. AnswersWereGiven'
  BY <1>1, <1>3 DEF AnswersWereGiven, Said
<1>7. ExecutedIsUnderstood'
  BY <1>1 DEF ExecutedIsUnderstood, HandoffIsUnderstood
<1> QED
  BY <1>4, <1>5, <1>6, <1>7

\* A first ACK keeps it.
LEMMA AcknowledgeKeeps ==
  ASSUME HandoffInv, Acknowledge
  PROVE  HandoffInv'
<1> DEFINE names == Expected(Belief)
           namings == {{m \in names : m[1] # "decision"}, names \cup {<<"decision", Null>>}}
<1>1. PICK a \in Answers(Belief, 0, namings) : ack' = a /\ Says(a, Belief)
  BY DEF Acknowledge
<1> HIDE DEF namings
<1> QED
  BY <1>1, SaysKeeps DEF Acknowledge

\* So does the ACK of what was asked again.
LEMMA RepairKeeps ==
  ASSUME HandoffInv, Repair
  PROVE  HandoffInv'
<1>1. PICK a \in Answers(Belief, 1, {packet.missing}) : repair' = a /\ Says(a, Belief)
  BY DEF Repair
<1> QED
  BY <1>1, SaysKeeps DEF Repair

\* So do the two merged: what is named in the merged ACK was named in one of them.
LEMMA MergeKeeps ==
  ASSUME HandoffInv, MergeAcks
  PROVE  HandoffInv'
<1> USE DEF HandoffInv
<1>1. UNCHANGED <<chain, held, delta, ack, packet, repair, executed, told, believed>>
  BY DEF MergeAcks
<1>2. Said(merged)'
  <2>1. /\ ack.state = repair.state
        /\ \A m \in ack.names \cup repair.names : <<repair.state, m>> \in told
        /\ repair = [state |-> repair.state, attempt |-> repair.attempt,
                     names |-> repair.names, goal |-> repair.goal,
                     writes |-> repair.writes, objects |-> repair.objects]
    BY DEF MergeAcks, AnswersWereGiven, Said
  <2>2. merged' = [repair EXCEPT !.names = ack.names \cup repair.names]
    BY DEF MergeAcks
  <2>3. merged' = [state |-> repair.state, attempt |-> repair.attempt,
                   names |-> ack.names \cup repair.names, goal |-> repair.goal,
                   writes |-> repair.writes, objects |-> repair.objects]
    BY <2>1, <2>2
  <2> QED
    BY <1>1, <2>1, <2>3 DEF Said
<1> QED
  BY <1>1, <1>2 DEF ChainIsOfStates, DeltaFits, BeliefIsTrue, AnswersWereGiven, Said,
       ExecutedIsUnderstood, HandoffIsUnderstood

\* An ACK found complete keeps it: all it had to name was told of the state it is about.
LEMMA ValidateKeeps ==
  ASSUME HandoffInv, NEW a \in {ack, repair, merged}, Validate(a)
  PROVE  HandoffInv'
<1> USE DEF HandoffInv
<1>1. UNCHANGED <<chain, delta, ack, repair, merged, told, believed>>
  BY DEF Validate
<1>2. PICK t \in DOMAIN chain :
        LET verdict == Verdict(a, delta, held, t) IN
        CASE verdict = "repair-required" ->
               /\ packet' = [state |-> t, missing |-> Expected(chain[t]) \ a.names]
               /\ UNCHANGED <<held, executed>>
          [] verdict = "accepted" ->
               /\ executed' = [a EXCEPT !.state = t]
               /\ held' = t
               /\ UNCHANGED packet
          [] OTHER -> UNCHANGED <<held, packet, executed>>
  BY DEF Validate
<1>3. DeltaFits' /\ BeliefIsTrue' /\ AnswersWereGiven'
  BY <1>1 DEF DeltaFits, BeliefIsTrue, AnswersWereGiven, Said
<1>4. CASE Verdict(a, delta, held, t) = "accepted"
  <2>1. executed' = [a EXCEPT !.state = t] /\ held' = t
    BY <1>2, <1>4
  <2>2. Bound(a, delta, held, t) /\ ~HasIssues(a, chain[t])
    BY <1>4 DEF Verdict
  <2>3. /\ a = [state |-> a.state, attempt |-> a.attempt, names |-> a.names,
                goal |-> a.goal, writes |-> a.writes, objects |-> a.objects]
        /\ \A m \in a.names : <<a.state, m>> \in told
    BY DEF AnswersWereGiven, Said, Validate
  <2>4. a.state = t
    BY <2>2 DEF Bound
  <2>5. executed' = a
    BY <2>1, <2>3, <2>4
  <2>6. ExecutedIsUnderstood'
    BY <1>1, <2>2, <2>3, <2>4, <2>5 DEF ExecutedIsUnderstood, HandoffIsUnderstood, HasIssues
  <2> QED
    BY <1>1, <1>3, <2>1, <2>6 DEF ChainIsOfStates
<1>5. CASE Verdict(a, delta, held, t) # "accepted"
  <2>1. UNCHANGED <<held, executed>>
    BY <1>2, <1>5
  <2> QED
    BY <1>1, <1>3, <2>1 DEF ChainIsOfStates, ExecutedIsUnderstood, HandoffIsUnderstood
<1> QED
  BY <1>4, <1>5

\* The invariant of the handoff holds in every state it reaches.
THEOREM HandoffInvariant == HandoffSpec => []HandoffInv
<1>1. HandoffInit => HandoffInv
  BY HandoffInitially
<1>2. HandoffInv /\ [HandoffNext]_handoffVars => HandoffInv'
  <2> SUFFICES ASSUME HandoffInv, [HandoffNext]_handoffVars PROVE HandoffInv'
    OBVIOUS
  <2>1. CASE HandoffNext
    BY <2>1, MutateKeeps, BuildDeltaKeeps, AcknowledgeKeeps, RepairKeeps, MergeKeeps,
       ValidateKeeps DEF HandoffNext
  <2>2. CASE UNCHANGED handoffVars
    BY <2>2 DEF handoffVars, HandoffInv, ChainIsOfStates, DeltaFits, BeliefIsTrue,
         AnswersWereGiven, Said, ExecutedIsUnderstood, HandoffIsUnderstood
  <2> QED
    BY <2>1, <2>2
<1> QED
  BY <1>1, <1>2, PTL DEF HandoffSpec

\* Whatever states there are: a delta between two states of the chain, applied to the first,
\* is the second; a receiver that holds the base is told everything.
THEOREM DeltasTellAll == HandoffSpec => []DeltaTellsAll
<1>1. HandoffInv => DeltaTellsAll
  BY DEF HandoffInv, BeliefIsTrue, DeltaTellsAll
<1> QED
  BY <1>1, HandoffInvariant, PTL

\* However the ACK came about, at first or by repair and merge: work is executed only by a
\* receiver that said of this very state each item it had to name.
THEOREM HandoffsAreUnderstood == HandoffSpec => []HandoffIsUnderstood
<1>1. HandoffInv => HandoffIsUnderstood
  BY DEF HandoffInv, ExecutedIsUnderstood, HandoffIsUnderstood
<1> QED
  BY <1>1, HandoffInvariant, PTL

=============================================================================
