--------------------------- MODULE Runners_proofs ----------------------------
(***************************************************************************)
(* What TLAPS proves of the two programs that work task cards off: of      *)
(* run-parallel-loop.sh that prerequisites hold and scopes stay apart      *)
(* (ParallelRun), of run-loop.sh that what is left of its log is           *)
(* understood alike and resumed from where the loop had come (LoopRun).    *)
(* And of the installer that an installed skill can always be recovered,   *)
(* for any number of updaters, files and releases (SkillInstall), that no  *)
(* refresh of a project loses a line of the user's and that the doctor     *)
(* reads the project as the refresh did (ProjectRefresh).                  *)
(***************************************************************************)
EXTENDS LoopRun, ParallelRun, ProjectRefresh, FiniteSetTheorems, SequenceTheorems,
        WellFoundedInduction, TLAPS

\* A set of natural numbers that is not empty has a least member.
LEMMA LeastNatural ==
  ASSUME NEW T \in SUBSET Nat, T # {}
  PROVE  \E m \in T : \A n \in T : ~(n < m)
<1> DEFINE Less == OpToRel(<, Nat)
<1>1. IsWellFoundedOn(Less, Nat)
  BY NatLessThanWellFounded
<1> HIDE DEF Less
<1>2. \E m \in T : \A n \in T : ~(<<n, m>> \in Less)
  BY <1>1, WFMin
<1>3. \A m, n \in Nat : n < m => <<n, m>> \in Less
  BY DEF Less, OpToRel
<1>4. QED
  BY <1>2, <1>3

\* Induction over the natural numbers, for a set of them.
LEMMA SetInduction ==
  ASSUME NEW T, 0 \in T, \A n \in Nat : n \in T => n + 1 \in T
  PROVE  Nat \subseteq T
<1> SUFFICES ASSUME ~(Nat \subseteq T) PROVE FALSE
  OBVIOUS
<1> DEFINE Out == {n \in Nat : n \notin T}
<1>1. Out \in SUBSET Nat /\ Out # {}
  OBVIOUS
<1>2. PICK m \in Out : \A n \in Out : ~(n < m)
  <2> HIDE DEF Out
  <2>. QED BY <1>1, LeastNatural
<1>3. m # 0 /\ m \in Nat
  OBVIOUS
<1>4. m - 1 \in Nat /\ m - 1 \in T
  BY <1>2, <1>3
<1>5. QED
  BY <1>4, <1>3, <1>2

\* Min of a set of numbers that is not empty is in it.
LEMMA MinIsMember ==
  ASSUME NEW T \in SUBSET Nat, T # {}
  PROVE  Min(T) \in T
<1>1. PICK m \in T : \A n \in T : ~(n < m)
  BY LeastNatural
<1>2. \A n \in T : m <= n
  BY <1>1
<1> QED
  BY <1>2 DEF Min

\* A function of n that is step applied n times to first.
Iterates(g, S, first, step, top) ==
  g = [n \in 0..top |-> IF n = 0 THEN first ELSE step[g[n - 1]]]

\* There is one, and its values stay where step stays.
LEMMA Iteration ==
  ASSUME NEW S, NEW first \in S, NEW step \in [S -> S], NEW top \in Nat
  PROVE  \E g \in [0..top -> S] : Iterates(g, S, first, step, top)
<1> DEFINE T == {m \in Nat : \E g \in [0..m -> S] : Iterates(g, S, first, step, m)}
<1>1. 0 \in T
  <2> DEFINE g == [n \in 0..0 |-> first]
  <2>1. Iterates(g, S, first, step, 0) /\ g \in [0..0 -> S]
    BY DEF Iterates
  <2> QED
    BY <2>1
<1>2. ASSUME NEW m \in Nat, m \in T PROVE m + 1 \in T
  <2>1. PICK g \in [0..m -> S] : Iterates(g, S, first, step, m)
    BY <1>2
  <2> DEFINE h == [n \in 0..(m + 1) |-> IF n = m + 1 THEN step[g[m]] ELSE g[n]]
  <2>2. h \in [0..(m + 1) -> S]
    OBVIOUS
  <2>3. ASSUME NEW n \in 0..(m + 1)
        PROVE  h[n] = IF n = 0 THEN first ELSE step[h[n - 1]]
    <3>1. CASE n = m + 1
      BY <3>1
    <3>2. CASE n \in 1..m
      <4>1. n - 1 \in 0..m /\ n \in 0..m /\ n # 0
        BY <3>2
      <4>2. h[n] = g[n] /\ h[n - 1] = g[n - 1]
        BY <3>2, <4>1
      <4> QED
        BY <2>1, <4>1, <4>2 DEF Iterates
    <3>3. CASE n = 0
      BY <2>1, <3>3 DEF Iterates
    <3> QED
      BY <3>1, <3>2, <3>3
  <2>4. h = [n \in 0..(m + 1) |-> h[n]]
    OBVIOUS
  <2> HIDE DEF h
  <2>5. Iterates(h, S, first, step, m + 1)
    BY <2>3, <2>4 DEF Iterates
  <2> QED
    BY <2>2, <2>5
<1> HIDE DEF T
<1>3. top \in T
  BY <1>1, <1>2, SetInduction
<1> QED
  BY <1>3 DEF T

\* What is reached from some tasks in n steps, for every n.
Reach(g, p, failed) ==
  g = [n \in 0..N |->
         IF n = 0 THEN failed
         ELSE g[n - 1] \cup {t \in Tasks : p.deps[t] \cap g[n - 1] # {}}]

LEMMA DependentsAreReached ==
  ASSUME NEW p, NEW failed \in SUBSET Tasks
  PROVE  \E g : Reach(g, p, failed) /\ Dependents(p, failed) = g[N] \ failed
<1> DEFINE step == [s \in SUBSET Tasks |-> s \cup {t \in Tasks : p.deps[t] \cap s # {}}]
<1>1. step \in [SUBSET Tasks -> SUBSET Tasks] /\ N \in Nat
  BY RunAssumption
<1>2. PICK g \in [0..N -> SUBSET Tasks] : Iterates(g, SUBSET Tasks, failed, step, N)
  <2> HIDE DEF step
  <2> QED
    BY <1>1, Iteration
<1>3. ASSUME NEW n \in 0..N
      PROVE  g[n] = IF n = 0 THEN failed
                    ELSE g[n - 1] \cup {t \in Tasks : p.deps[t] \cap g[n - 1] # {}}
  <2>1. n # 0 => n - 1 \in 0..N
    BY <1>1
  <2>2. g[n] = IF n = 0 THEN failed ELSE step[g[n - 1]]
    BY <1>2 DEF Iterates
  <2> QED
    BY <1>2, <2>1, <2>2
<1>4. Reach(g, p, failed)
  BY <1>2, <1>3 DEF Reach
<1> DEFINE up == CHOOSE f : Reach(f, p, failed)
<1>5. Reach(up, p, failed)
  BY <1>4
<1>6. Dependents(p, failed) = up[N] \ failed
  BY DEF Dependents, Reach
<1> QED
  BY <1>5, <1>6

\* More tasks have more dependents.
LEMMA DependentsGrow ==
  ASSUME NEW p, NEW F \in SUBSET Tasks, NEW G \in SUBSET Tasks, F \subseteq G,
         NEW t \in Dependents(p, F), t \notin G
  PROVE  t \in Dependents(p, G)
<1>1. PICK f : Reach(f, p, F) /\ Dependents(p, F) = f[N] \ F
  BY DependentsAreReached
<1>2. PICK g : Reach(g, p, G) /\ Dependents(p, G) = g[N] \ G
  BY DependentsAreReached
<1>3. N \in Nat
  BY RunAssumption
<1> DEFINE T == {n \in Nat : n <= N => f[n] \subseteq g[n]}
<1>4. 0 \in T
  BY <1>1, <1>2, <1>3 DEF Reach
<1>5. ASSUME NEW n \in Nat, n \in T PROVE n + 1 \in T
  <2> SUFFICES ASSUME n + 1 <= N PROVE f[n + 1] \subseteq g[n + 1]
    OBVIOUS
  <2>1. n + 1 \in 0..N /\ n + 1 # 0 /\ (n + 1) - 1 = n /\ f[n] \subseteq g[n]
    BY <1>3, <1>5
  <2>2. PICK k \in 0..N : k = n + 1
    BY <2>1
  <2>3. f[k] = f[k - 1] \cup {u \in Tasks : p.deps[u] \cap f[k - 1] # {}}
    BY <1>1, <2>1, <2>2 DEF Reach
  <2>4. g[k] = g[k - 1] \cup {u \in Tasks : p.deps[u] \cap g[k - 1] # {}}
    BY <1>2, <2>1, <2>2 DEF Reach
  <2>5. k - 1 = n
    BY <2>2
  <2>6. f[k] \subseteq g[k]
    BY <2>1, <2>3, <2>4, <2>5
  <2> QED
    BY <2>2, <2>6
<1> HIDE DEF T
<1>6. N \in T
  BY <1>3, <1>4, <1>5, SetInduction
<1>7. f[N] \subseteq g[N]
  BY <1>3, <1>6 DEF T
<1> QED
  BY <1>1, <1>2, <1>7

-----------------------------------------------------------------------------
\* The serial order: each task once, behind its prerequisites.
Ordered(p, s) ==
  /\ \A i, j \in 1..Len(s) : i # j => s[i] # s[j]
  /\ \A i \in 1..Len(s) : p.deps[s[i]] \subseteq {s[j] : j \in 1..(i - 1)}

\* Different members of a sequence that are all of a set: there are as many as in it.
LEMMA DistinctFill ==
  ASSUME NEW s \in Seq(Tasks), \A i, j \in 1..Len(s) : i # j => s[i] # s[j]
  PROVE  /\ IsFiniteSet(ToSet(s)) /\ Cardinality(ToSet(s)) = Len(s)
         /\ ToSet(s) \subseteq Tasks
<1>1. Len(s) \in Nat /\ DOMAIN s = 1..Len(s) /\ ToSet(s) = {s[i] : i \in 1..Len(s)}
  BY DEF ToSet
<1>2. ToSet(s) \subseteq Tasks
  BY <1>1
<1> DEFINE f == [i \in 1..Len(s) |-> s[i]]
<1>3. f \in Bijection(1..Len(s), ToSet(s))
  BY <1>1 DEF Bijection, Injection, Surjection, IsInjective
<1>4. ExistsBijection(1..Len(s), ToSet(s))
  BY <1>3 DEF ExistsBijection
<1> QED
  BY <1>1, <1>2, <1>4, FS_CountingElements, FS_NatBijection

\* There are N tasks.
LEMMA TasksAreFinite == IsFiniteSet(Tasks) /\ Cardinality(Tasks) = N
BY RunAssumption, FS_Interval DEF Tasks

\* What the next task of the order may be.
NextReady(p, s) == {t \in Tasks : ~Contains(s, t) /\ \A d \in p.deps[t] : Contains(s, d)}

\* As long as tasks are left, one of them has all its prerequisites placed.
LEMMA SomeTaskIsReady ==
  ASSUME NEW p, PlanValid(p), NEW s \in Seq(Tasks), Len(s) < N,
         \A i, j \in 1..Len(s) : i # j => s[i] # s[j]
  PROVE  NextReady(p, s) # {}
<1> DEFINE waiting == Tasks \ ToSet(s)
<1>1. waiting # {}
  <2> SUFFICES ASSUME Tasks = ToSet(s) PROVE FALSE
    BY DistinctFill
  <2> QED
    BY DistinctFill, TasksAreFinite, RunAssumption
<1>2. PICK t \in waiting : p.deps[t] \cap waiting = {}
  BY <1>1 DEF PlanValid, Cyclic
<1>3. \A d \in Tasks : Contains(s, d) <=> d \in ToSet(s)
  BY DEF Contains, ToSet
<1>4. p.deps[t] \subseteq Tasks
  BY <1>2 DEF PlanValid
<1> QED
  BY <1>2, <1>3, <1>4 DEF NextReady

\* And it can be placed next.
LEMMA PlacedNext ==
  ASSUME NEW p, NEW s \in Seq(Tasks), Ordered(p, s), NEW t \in NextReady(p, s)
  PROVE  /\ Append(s, t) \in Seq(Tasks) /\ Len(Append(s, t)) = Len(s) + 1
         /\ Ordered(p, Append(s, t))
<1> DEFINE q == Append(s, t)
<1>1. /\ q \in Seq(Tasks) /\ Len(q) = Len(s) + 1 /\ Len(s) \in Nat
      /\ \A i \in 1..Len(s) : q[i] = s[i]
      /\ q[Len(s) + 1] = t
  BY DEF NextReady
<1>2. /\ \A i \in 1..Len(s) : s[i] # t
      /\ \A d \in p.deps[t] : \E i \in 1..Len(s) : s[i] = d
  BY DEF NextReady, Contains
<1> HIDE DEF q
<1>3. ASSUME NEW i \in 1..Len(q), NEW j \in 1..Len(q), i # j PROVE q[i] # q[j]
  <2>1. \A k \in 1..Len(q) : k \in 1..Len(s) \/ k = Len(s) + 1
    BY <1>1
  <2> QED
    BY <1>1, <1>2, <1>3, <2>1 DEF Ordered
<1>4. ASSUME NEW i \in 1..Len(q) PROVE p.deps[q[i]] \subseteq {q[j] : j \in 1..(i - 1)}
  <2>1. CASE i \in 1..Len(s)
    <3>1. p.deps[s[i]] \subseteq {s[j] : j \in 1..(i - 1)}
      BY <2>1 DEF Ordered
    <3>2. \A j \in 1..(i - 1) : q[j] = s[j]
      BY <1>1, <2>1
    <3> QED
      BY <1>1, <2>1, <3>1, <3>2
  <2>2. CASE i = Len(s) + 1
    <3>1. i - 1 = Len(s)
      BY <1>1, <2>2
    <3> QED
      BY <1>1, <1>2, <2>2, <3>1
  <2> QED
    BY <1>1, <2>1, <2>2
<1>5. Ordered(p, q)
  BY <1>3, <1>4 DEF Ordered
<1> QED
  BY <1>1, <1>5 DEF q

\* topological_sort of a plan without a cycle places every task.
LEMMA SerialOrderIsComplete ==
  ASSUME NEW p, PlanValid(p)
  PROVE  /\ ToSet(SerialOrder(p)) = Tasks
         /\ \A i \in Tasks :
              p.deps[SerialOrder(p)[i]] \subseteq {SerialOrder(p)[j] : j \in 1..(i - 1)}
<1> DEFINE step == [s \in Seq(Tasks) |->
                      IF NextReady(p, s) = {} THEN s ELSE Append(s, Min(NextReady(p, s)))]
           Placed(f) == f = [n \in 0..N |->
                      IF n = 0 THEN <<>>
                      ELSE IF NextReady(p, f[n - 1]) = {} THEN f[n - 1]
                           ELSE Append(f[n - 1], Min(NextReady(p, f[n - 1])))]
           placed == CHOOSE f : Placed(f)
<1>1. N \in Nat \ {0}
  BY RunAssumption
<1>2. \A s \in Seq(Tasks) : NextReady(p, s) # {} => Min(NextReady(p, s)) \in NextReady(p, s)
  <2> SUFFICES ASSUME NEW s \in Seq(Tasks), NextReady(p, s) # {}
               PROVE  Min(NextReady(p, s)) \in NextReady(p, s)
    OBVIOUS
  <2>1. NextReady(p, s) \subseteq Nat
    BY <1>1 DEF NextReady, Tasks
  <2> QED
    BY <2>1, MinIsMember
<1>3. step \in [Seq(Tasks) -> Seq(Tasks)] /\ <<>> \in Seq(Tasks)
  <2>1. ASSUME NEW s \in Seq(Tasks), NextReady(p, s) # {}
        PROVE  Append(s, Min(NextReady(p, s))) \in Seq(Tasks)
    <3>1. Min(NextReady(p, s)) \in Tasks
      BY <1>2, <2>1 DEF NextReady
    <3> QED
      BY <3>1
  <2> QED
    BY <2>1
<1>4. PICK g \in [0..N -> Seq(Tasks)] : Iterates(g, Seq(Tasks), <<>>, step, N)
  <2> HIDE DEF step
  <2> QED
    BY <1>1, <1>3, Iteration
<1>5. ASSUME NEW n \in 0..N
      PROVE  g[n] = IF n = 0 THEN <<>>
                    ELSE IF NextReady(p, g[n - 1]) = {} THEN g[n - 1]
                         ELSE Append(g[n - 1], Min(NextReady(p, g[n - 1])))
  <2>1. n # 0 => n - 1 \in 0..N
    BY <1>1
  <2>2. g[n] = IF n = 0 THEN <<>> ELSE step[g[n - 1]]
    BY <1>4 DEF Iterates
  <2>3. CASE n = 0
    BY <2>2, <2>3
  <2>4. CASE n # 0
    <3>1. PICK s \in Seq(Tasks) : s = g[n - 1]
      BY <1>4, <2>1, <2>4
    <3> QED
      BY <2>2, <2>4, <3>1
  <2> QED
    BY <2>3, <2>4
<1>6. Placed(g)
  BY <1>4, <1>5
<1>7. Placed(placed)
  BY <1>6
<1>8. SerialOrder(p) = placed[N]
  BY DEF SerialOrder, NextReady
<1> HIDE DEF placed, step
<1> DEFINE T == {n \in Nat : n <= N => /\ placed[n] \in Seq(Tasks) /\ Len(placed[n]) = n
                                       /\ Ordered(p, placed[n])}
<1>9. 0 \in T
  <2>1. placed[0] = <<>>
    BY <1>1, <1>7
  <2>2. <<>> \in Seq(Tasks) /\ Len(<<>>) = 0 /\ Ordered(p, <<>>)
    BY DEF Ordered
  <2>3. placed[0] \in Seq(Tasks) /\ Len(placed[0]) = 0 /\ Ordered(p, placed[0])
    BY <2>1, <2>2
  <2> QED
    BY <2>3
<1>10. ASSUME NEW n \in Nat, n \in T PROVE n + 1 \in T
  <2> SUFFICES ASSUME n + 1 <= N
               PROVE  /\ placed[n + 1] \in Seq(Tasks) /\ Len(placed[n + 1]) = n + 1
                      /\ Ordered(p, placed[n + 1])
    OBVIOUS
  <2>1. PICK k \in 0..N : k = n + 1
    BY <1>1
  <2>2. k - 1 = n /\ k # 0 /\ n < N
    BY <1>1, <2>1
  <2>3. PICK s : s = placed[n]
    OBVIOUS
  <2>4. s \in Seq(Tasks) /\ Len(s) = n /\ Ordered(p, s)
    BY <1>1, <1>10, <2>2, <2>3
  <2>5. NextReady(p, s) # {}
    BY <2>2, <2>4, SomeTaskIsReady DEF Ordered
  <2>6. placed[k] = Append(s, Min(NextReady(p, s)))
    <3>1. placed[k] = IF NextReady(p, placed[k - 1]) = {} THEN placed[k - 1]
                      ELSE Append(placed[k - 1], Min(NextReady(p, placed[k - 1])))
      BY <1>7, <2>2
    <3> QED
      BY <2>2, <2>3, <2>5, <3>1
  <2>7. Min(NextReady(p, s)) \in NextReady(p, s)
    BY <1>2, <2>4, <2>5
  <2>8. placed[k] \in Seq(Tasks) /\ Len(placed[k]) = n + 1 /\ Ordered(p, placed[k])
    BY <2>4, <2>6, <2>7, PlacedNext
  <2> QED
    BY <2>1, <2>8
<1> HIDE DEF T, Placed
<1>11. N \in T
  BY <1>1, <1>9, <1>10, SetInduction
<1>12. PICK s : s = placed[N]
  OBVIOUS
<1>13. s \in Seq(Tasks) /\ Len(s) = N /\ Ordered(p, s)
  BY <1>1, <1>11, <1>12 DEF T
<1>14. ToSet(s) = Tasks
  <2>1. ToSet(s) \subseteq Tasks /\ Cardinality(ToSet(s)) = Cardinality(Tasks)
    BY <1>13, DistinctFill, TasksAreFinite DEF Ordered
  <2> QED
    BY <2>1, TasksAreFinite, FS_Subset
<1>15. \A i \in Tasks : p.deps[s[i]] \subseteq {s[j] : j \in 1..(i - 1)}
  BY <1>13 DEF Ordered, Tasks
<1> QED
  BY <1>8, <1>12, <1>14, <1>15

-----------------------------------------------------------------------------
(* The parallel loop.                                                       *)

\* A prefix is what agrees with the sequence as far as it goes.
LEMMA PrefixAgrees ==
  ASSUME NEW S, NEW T, NEW s \in Seq(S), NEW t \in Seq(T)
  PROVE  IsPrefix(s, t) <=> Len(s) <= Len(t) /\ \A i \in 1..Len(s) : s[i] = t[i]
<1>1. IsPrefix(s, t) <=> Len(s) <= Len(t) /\ SubSeq(s, 1, Len(s)) = SubSeq(t, 1, Len(s))
  BY DEF IsPrefix
<1>2. Len(s) \in Nat /\ Len(t) \in Nat
  OBVIOUS
<1>3. ASSUME Len(s) <= Len(t)
      PROVE  /\ SubSeq(s, 1, Len(s)) = [i \in 1..Len(s) |-> s[i]]
             /\ SubSeq(t, 1, Len(s)) = [i \in 1..Len(s) |-> t[i]]
  BY <1>2, <1>3
<1>4. [i \in 1..Len(s) |-> s[i]] = [i \in 1..Len(s) |-> t[i]]
        <=> \A i \in 1..Len(s) : s[i] = t[i]
  OBVIOUS
<1> QED
  BY <1>1, <1>3, <1>4

\* Of two paths that contain a file one contains the other.
LEMMA PrefixesNest ==
  ASSUME NEW A, NEW B, NEW C, NEW a \in Seq(A), NEW b \in Seq(B), NEW file \in Seq(C),
         IsPrefix(a, file), IsPrefix(b, file)
  PROVE  IsPrefix(a, b) \/ IsPrefix(b, a)
<1>1. /\ Len(a) \in Nat /\ Len(b) \in Nat /\ Len(file) \in Nat
      /\ Len(a) <= Len(file) /\ Len(b) <= Len(file)
  BY DEF IsPrefix
<1>4. \A i \in 1..Len(a) : a[i] = file[i]
  BY PrefixAgrees
<1>5. \A i \in 1..Len(b) : b[i] = file[i]
  BY PrefixAgrees
<1>6. CASE Len(a) <= Len(b)
  <2>1. \A i \in 1..Len(a) : a[i] = b[i]
    BY <1>1, <1>4, <1>5, <1>6
  <2> QED
    BY <1>6, <2>1, PrefixAgrees
<1>7. CASE Len(b) <= Len(a)
  <2>1. \A i \in 1..Len(b) : b[i] = a[i]
    BY <1>1, <1>4, <1>5, <1>7
  <2> QED
    BY <1>7, <2>1, PrefixAgrees
<1> QED
  BY <1>1, <1>6, <1>7

\* A plan that one of the two validators accepted.
Accepted(p) == DispatchValid(p, HeadCommit, FALSE) \/ FlatValid(p, HeadCommit, FALSE)

\* What happens to a task is behind the acceptance of its plan, and the canary is one.
ParallelTyped ==
  /\ plan \in Plans
  /\ phase \in {"brief", "serial", "planned", "rejected", "running", "ended"}
  /\ state \in [Tasks -> {"pending", "running", "completed", "failed", "skipped"}]
  /\ canary \in Tasks \cup {0}
  /\ IF phase \in {"running", "ended"} THEN Accepted(plan)
     ELSE \A t \in Tasks : state[t] = "pending"

\* Nothing runs or ends before what it builds on is completed.
LaunchedBehind ==
  \A t \in Tasks : state[t] \in {"running", "completed", "failed"} =>
    \A d \in plan.deps[t] : state[d] = "completed"

\* What is skipped is behind a task that failed, or behind a canary that did.
SkippedBelow ==
  \A t \in Tasks : state[t] = "skipped" =>
    \/ t \in Dependents(plan, Having("failed"))
    \/ canary # 0 /\ state[canary] = "failed"

ParallelInv == ParallelTyped /\ LaunchedBehind /\ SkippedBelow

\* The prerequisites of an accepted plan are tasks of it.
LEMMA AcceptedNeedsTasks ==
  ASSUME NEW p, Accepted(p), NEW t \in Tasks
  PROVE  p.deps[t] \subseteq Tasks
BY DEF Accepted, DispatchValid, FlatValid, PlanValid

\* The invariant holds at first.
LEMMA ParallelInitially == ParallelInit => ParallelInv
BY DEF ParallelInit, ParallelInv, ParallelTyped, LaunchedBehind, SkippedBelow

\* Collecting what is over keeps it: dependents of the failed are skipped with them.
LEMMA HarvestKeeps ==
  ASSUME ParallelInv, Harvest
  PROVE  ParallelInv'
<1>1. ParallelTyped /\ LaunchedBehind /\ SkippedBelow /\ Accepted(plan)
  BY DEF ParallelInv, ParallelTyped, Harvest
<1>2. UNCHANGED <<plan, phase, canary>>
  BY DEF Harvest
<1>3. \A t \in Tasks :
        state'[t] = IF t \in Over THEN IF t \in Failed THEN "failed" ELSE "completed"
                    ELSE IF t \in Skipped THEN "skipped" ELSE state[t]
  BY DEF Harvest
<1>4. /\ \A t \in Over : state[t] = "running"
      /\ \A t \in Skipped : t \in Tasks /\ state[t] = "pending"
      /\ Failed \subseteq Over /\ Over \subseteq Tasks
  BY DEF Over, Skipped, Having, Failed
<1>5. ParallelTyped'
  <2>1. state' \in [Tasks -> {"pending", "running", "completed", "failed", "skipped"}]
    BY <1>1 DEF ParallelTyped, Harvest
  <2> QED
    BY <1>1, <1>2, <2>1 DEF ParallelTyped, Harvest, Accepted, DispatchValid, FlatValid
<1>6. \A t \in Tasks : state[t] = "completed" => state'[t] = "completed"
  BY <1>3, <1>4
<1>7. \A t \in Tasks : state[t] = "failed" => state'[t] = "failed"
  BY <1>3, <1>4
<1>8. LaunchedBehind'
  <2> SUFFICES ASSUME NEW t \in Tasks, state'[t] \in {"running", "completed", "failed"},
                      NEW d \in plan.deps[t]
               PROVE  state'[d] = "completed"
    BY <1>2 DEF LaunchedBehind
  <2>1. state[t] \in {"running", "completed", "failed"}
    BY <1>3, <1>4
  <2>2. state[d] = "completed" /\ d \in Tasks
    BY <1>1, <2>1, AcceptedNeedsTasks DEF LaunchedBehind
  <2> QED
    BY <1>6, <2>2
<1>9. SkippedBelow'
  <2>1. PICK p : p = plan
    OBVIOUS
  <2>2. PICK old : old = Having("failed")
    OBVIOUS
  <2>3. PICK new : new = Having("failed")'
    OBVIOUS
  <2>4. old \subseteq new /\ Failed \subseteq new /\ new \subseteq Tasks
    BY <1>3, <1>4, <1>7, <2>2, <2>3 DEF Having
  <2>5. ASSUME NEW t \in Tasks, state'[t] = "skipped"
        PROVE  t \in Dependents(p, new) \/ (canary # 0 /\ state'[canary] = "failed")
    <3>1. t \notin new
      BY <2>3, <2>5 DEF Having
    <3>2. CASE state[t] = "skipped"
      <4>1. t \in Dependents(p, old) \/ (canary # 0 /\ state[canary] = "failed")
        BY <1>1, <2>1, <2>2, <3>2 DEF SkippedBelow
      <4>2. t \in Dependents(p, old) => t \in Dependents(p, new)
        BY <2>4, <3>1, DependentsGrow
      <4>3. canary # 0 => canary \in Tasks
        BY <1>1 DEF ParallelTyped
      <4> QED
        BY <1>7, <4>1, <4>2, <4>3
    <3>3. CASE state[t] # "skipped"
      <4>1. t \in Skipped
        BY <1>3, <2>5, <3>3
      <4>2. CASE canary \in Failed
        BY <1>3, <1>4, <4>2, RunAssumption DEF Tasks
      <4>3. CASE canary \notin Failed
        <5>1. PICK failed : failed = Failed
          OBVIOUS
        <5>2. t \in Dependents(p, failed)
          BY <2>1, <4>1, <4>3, <5>1 DEF Skipped
        <5> QED
          BY <1>4, <2>4, <3>1, <5>1, <5>2, DependentsGrow
      <4> QED
        BY <4>2, <4>3
    <3> QED
      BY <3>2, <3>3
  <2> QED
    BY <1>2, <2>1, <2>3, <2>5 DEF SkippedBelow
<1> QED
  BY <1>5, <1>8, <1>9 DEF ParallelInv

\* So does launching: a ready task has its prerequisites completed.
LEMMA LaunchKeeps ==
  ASSUME ParallelInv, Launch
  PROVE  ParallelInv'
<1>1. ParallelTyped /\ LaunchedBehind /\ SkippedBelow /\ Accepted(plan)
  BY DEF ParallelInv, ParallelTyped, Launch
<1>2. UNCHANGED <<plan, phase>>
  BY DEF Launch
<1>3. Ready \subseteq Tasks /\ \A t \in Ready : state[t] = "pending"
  BY DEF Ready, Having
<1>4. Chosen \subseteq Ready
  <2>1. Ready # {} => Min(Ready) \in Ready
    <3>1. Ready \subseteq Nat
      BY <1>3, RunAssumption DEF Tasks
    <3> QED
      BY <3>1, MinIsMember
  <2> DEFINE free == MaxConcurrency - Cardinality(Having("running"))
             first == {t \in Ready : Cardinality({u \in Ready : u < t}) < free}
  <2>2. first \subseteq Ready
    OBVIOUS
  <2>3. Chosen = CASE released -> first
                   [] ~released /\ canary = 0 /\ Ready # {} -> {Min(Ready)}
                   [] OTHER -> {}
    BY DEF Chosen
  <2> HIDE DEF first
  <2> QED
    BY <2>1, <2>2, <2>3
<1>5. \A t \in Tasks : state'[t] = IF t \in Chosen THEN "running" ELSE state[t]
  BY DEF Launch
<1>6. ParallelTyped'
  <2>1. state' \in [Tasks -> {"pending", "running", "completed", "failed", "skipped"}]
    BY <1>1 DEF ParallelTyped, Launch
  <2>2. canary' \in Tasks \cup {0}
    <3>1. Chosen # {} => Min(Chosen) \in Chosen
      <4>1. Chosen \subseteq Nat
        BY <1>3, <1>4, RunAssumption DEF Tasks
      <4> QED
        BY <4>1, MinIsMember
    <3> QED
      BY <1>1, <1>3, <1>4, <3>1 DEF ParallelTyped, Launch
  <2> QED
    BY <1>1, <1>2, <2>1, <2>2 DEF ParallelTyped, Launch, Accepted, DispatchValid, FlatValid
<1>7. LaunchedBehind'
  <2> SUFFICES ASSUME NEW t \in Tasks, state'[t] \in {"running", "completed", "failed"},
                      NEW d \in plan.deps[t]
               PROVE  state'[d] = "completed"
    BY <1>2 DEF LaunchedBehind
  <2>1. d \in Tasks
    BY <1>1, AcceptedNeedsTasks
  <2>2. state[d] = "completed"
    <3>1. CASE t \in Chosen
      BY <1>4, <3>1 DEF Ready
    <3>2. CASE t \notin Chosen
      BY <1>1, <1>5, <3>2 DEF LaunchedBehind
    <3> QED
      BY <3>1, <3>2
  <2> QED
    BY <1>3, <1>4, <1>5, <2>1, <2>2
<1>8. SkippedBelow'
  <2>1. Having("failed")' = Having("failed")
    BY <1>3, <1>4, <1>5 DEF Having
  <2>2. ASSUME NEW t \in Tasks, state'[t] = "skipped"
        PROVE  t \in Dependents(plan, Having("failed")) \/ (canary' # 0 /\ state'[canary'] = "failed")
    <3>1. state[t] = "skipped"
      BY <1>5, <2>2
    <3>2. canary # 0 /\ state[canary] = "failed" => canary' # 0 /\ state'[canary'] = "failed"
      <4> SUFFICES ASSUME canary # 0, state[canary] = "failed"
                   PROVE  canary' # 0 /\ state'[canary'] = "failed"
        OBVIOUS
      <4>1. canary \in Tasks /\ canary \notin Chosen
        BY <1>1, <1>3, <1>4 DEF ParallelTyped
      <4>2. ~released => Chosen = {}
        BY DEF Chosen
      <4>3. canary' = canary
        BY <4>2 DEF Launch
      <4> QED
        BY <1>5, <4>1, <4>3
    <3> QED
      BY <1>1, <3>1, <3>2 DEF SkippedBelow
  <2> QED
    BY <1>2, <2>1, <2>2 DEF SkippedBelow
<1> QED
  BY <1>6, <1>7, <1>8 DEF ParallelInv

\* And so does every other step, which leaves the states of the tasks alone.
LEMMA ParallelStepKeeps ==
  ASSUME ParallelInv, [ParallelNext]_parallelVars
  PROVE  ParallelInv'
<1>1. CASE Harvest
  BY <1>1, HarvestKeeps
<1>2. CASE Launch
  BY <1>2, LaunchKeeps
<1>3. ASSUME UNCHANGED <<plan, state, canary>>,
             phase' \in {"brief", "serial", "planned", "rejected", "running", "ended"},
             phase \in {"running", "ended"} => phase' \in {"running", "ended"},
             phase' \in {"running", "ended"} => Accepted(plan)
      PROVE  ParallelInv'
  <2>1. ParallelTyped /\ LaunchedBehind /\ SkippedBelow
    BY DEF ParallelInv
  <2>2. ParallelTyped'
    BY <1>3, <2>1 DEF ParallelTyped, Accepted, DispatchValid, FlatValid
  <2>3. LaunchedBehind'
    BY <1>3, <2>1 DEF LaunchedBehind
  <2>4. SkippedBelow'
    <3>1. Having("failed")' = Having("failed")
      BY <1>3 DEF Having
    <3> QED
      BY <1>3, <2>1, <3>1 DEF SkippedBelow
  <2> QED
    BY <2>2, <2>3, <2>4 DEF ParallelInv
<1>4. CASE Assess \/ Validate \/ Finish \/ (\E t \in Tasks : Job(t)) \/ UNCHANGED parallelVars
  <2>1. UNCHANGED <<plan, state, canary>>
    BY <1>4 DEF Assess, Validate, Finish, Job, DispatchEnds, GateEnds, JobDies, parallelVars
  <2>2. /\ phase' \in {"brief", "serial", "planned", "rejected", "running", "ended"}
        /\ phase \in {"running", "ended"} => phase' \in {"running", "ended"}
        /\ phase' \in {"running", "ended"} => Accepted(plan)
    BY <1>4 DEF Assess, Validate, Finish, Job, DispatchEnds, GateEnds, JobDies, parallelVars,
                ParallelInv, ParallelTyped, Accepted
  <2> QED
    BY <1>3, <2>1, <2>2
<1> QED
  BY <1>1, <1>2, <1>4 DEF ParallelNext, Loop

\* The invariant of the parallel loop, for any plan and cap, and however dispatches end.
THEOREM ParallelInvariant == ParallelSpec => []ParallelInv
BY ParallelInitially, ParallelStepKeeps, PTL DEF ParallelSpec

\* No task is launched, skipped or ordered out of turn: see PrerequisitesHold.
THEOREM PrerequisitesAlwaysHold == ParallelSpec => []PrerequisitesHold
<1>1. ParallelInv => PrerequisitesHold
  <2> SUFFICES ASSUME ParallelInv PROVE PrerequisitesHold
    OBVIOUS
  <2>1. LaunchedBehind /\ SkippedBelow
    BY DEF ParallelInv
  <2>2. PICK p : p = plan
    OBVIOUS
  <2>3. PlanValid(p) =>
          LET order == SerialOrder(p) IN
          /\ ToSet(order) = Tasks
          /\ \A i \in Tasks : p.deps[order[i]] \subseteq {order[j] : j \in 1..(i - 1)}
    BY SerialOrderIsComplete
  <2> QED
    BY <2>1, <2>2, <2>3 DEF PrerequisitesHold, LaunchedBehind, SkippedBelow
<1> QED
  BY <1>1, ParallelInvariant, PTL

\* No file is in the scopes of two tasks that run: see ScopesAreDisjoint.
THEOREM ScopesStayDisjoint == ParallelSpec => []ScopesAreDisjoint
<1>1. ParallelInv => ScopesAreDisjoint
  <2> SUFFICES ASSUME ParallelInv, phase \in {"running", "ended"},
                      \A t \in Tasks : <<>> \notin plan.scopes[t],
                      NEW i \in Tasks, NEW j \in Tasks, i # j,
                      NEW file \in plan.scopes[i] \cup plan.scopes[j],
                      InScope(file, i), InScope(file, j)
               PROVE  FALSE
    BY DEF ScopesAreDisjoint
  <2>1. plan \in Plans /\ ~Overlaps(plan)
    BY DEF ParallelInv, ParallelTyped, Accepted, DispatchValid, FlatValid, CardsValid
  <2>2. PICK a \in plan.scopes[i] : IsPrefix(a, file)
    BY DEF InScope
  <2>3. PICK b \in plan.scopes[j] : IsPrefix(b, file)
    BY DEF InScope
  <2>4. \A t \in Tasks : \A s \in plan.scopes[t] : s \in Seq({s[k] : k \in DOMAIN s})
    BY <2>1, PathsAssumption DEF Tasks
  <2>5. IsPrefix(a, b) \/ IsPrefix(b, a)
    <3>1. PICK A : a \in Seq(A)
      BY <2>4
    <3>2. PICK B : b \in Seq(B)
      BY <2>4
    <3>3. PICK C : file \in Seq(C)
      BY <2>4
    <3> QED
      BY <2>2, <2>3, <3>1, <3>2, <3>3, PrefixesNest
  <2>6. IsParentOrChild(a, b) /\ IsParentOrChild(b, a)
    BY <2>5 DEF IsParentOrChild
  <2>7. i < j \/ j < i
    BY RunAssumption DEF Tasks
  <2> QED
    BY <2>1, <2>6, <2>7 DEF Overlaps
<1> QED
  BY <1>1, ParallelInvariant, PTL

-----------------------------------------------------------------------------
(* The loop and its log.                                                    *)

\* The lines run-loop.sh writes.
Names == {"stop", "run_start", "iteration_start", "adaptive_timeout_applied",
          "adaptive_timeout_skipped", "dispatch_incomplete", "dispatch_complete",
          "adaptive_timeout_observed", "review_failed", "review_complete", "decision",
          "revision_task_created"}
Lines == [event : Names, phase : Phases, iteration : Nat, id : Nat \ {0}, parent : Nat]

\* The steps of the shell before and behind the dispatch of an iteration.
BeforeDispatch == {"start", "loop", "timeout", "dispatch", "incomplete"}
AfterReview == {"reviewed", "extract", "decided"}
AfterDispatch == {"complete", "observe", "review", "review-failed"} \cup AfterReview

\* Types, and where the shell can be.
LoopTyped ==
  /\ log \in Seq(Lines \cup {Torn}) /\ ids \in Nat
  /\ iteration \in Nat \ {0} /\ decision \in Decisions \cup {"none", "absent", "empty"}
  /\ pc \in BeforeDispatch \cup AfterDispatch \cup {"exit", "dead"}

\* Only the last line can be cut short, and the ids grow, but for an event written twice:
\* the second copy of the first event has itself as its parent.
Twin(first, e) == IF first THEN [e EXCEPT !.parent = e.id] ELSE e

LogShape ==
  /\ \A i \in 1..Len(log) : i < Len(log) => IsEvent(log[i])
  /\ \A i, j \in 1..Len(log) : i < j /\ IsEvent(log[j]) =>
       /\ log[i].id < log[j].id \/ (j = i + 1 /\ log[j] = Twin(i = 1, log[i]))
       /\ log[i].iteration # None /\ log[j].iteration # None =>
            log[i].iteration <= log[j].iteration

\* What a line says is so.
Told(e) ==
  /\ e.id <= ids /\ e.iteration <= iteration
  /\ e.event \in {"dispatch_complete", "review_complete"} => <<"dispatch", e.iteration>> \in done
  /\ e.event = "review_complete" => <<"review", e.iteration>> \in done
  /\ e.event = "decision" => <<"decision", e.iteration>> \in done
  /\ e.event = "dispatch_incomplete" =>
       <<"dispatch", e.iteration>> \notin done /\ pc \in {"exit", "dead"}
  /\ e.event \in {"dispatch_complete", "review_complete", "decision", "dispatch_incomplete"} =>
       e.iteration # None

\* Every line of the log is so.
LinesAreTold == \A i \in 1..Len(log) : IsEvent(log[i]) => Told(log[i])

\* What was done when the shell is where it is.
Reached ==
  /\ pc \in AfterDispatch => <<"dispatch", iteration>> \in done
  /\ pc \in BeforeDispatch => <<"dispatch", iteration>> \notin done
  /\ pc \in AfterReview =>
       /\ <<"review", iteration>> \in done /\ decision # "none"
       /\ decision \in Decisions => <<"decision", iteration>> \in done
  /\ \A i \in Nat : <<"dispatch", i>> \in done => i <= iteration

Decided == \E i \in 1..Len(log) : IsEvent(log[i]) /\ log[i].event = "decision"

\* A loop goes round only behind a decision it has logged.
RoundsAreDecided == Readable(log) /\ ~Decided => iteration = 1 /\ pc # "decided"

\* The phases of the events, and the one in which the log ends.
EndPhase == IF log = <<>> THEN "setup" ELSE log[Len(log)].phase
PhasesAt(place) ==
  CASE place = "start" -> {"setup"}
    [] place = "loop" -> {"setup", "decision"}
    [] place = "extract" -> {"review"}
    [] place = "decided" -> {"decision"}
    [] place \in {"exit", "dead"} -> Phases
    [] OTHER -> {"dispatch"}

PhasesFollow ==
  owner = "claude-builder" =>
    /\ \A j \in 1..Len(log) : IsEvent(log[j]) =>
         Follows(IF j = 1 THEN "setup" ELSE log[j - 1].phase, log[j].phase)
    /\ Readable(log) => EndPhase \in PhasesAt(pc)

LoopInv == LoopTyped /\ LogShape /\ LinesAreTold /\ Reached /\ RoundsAreDecided /\ PhasesFollow

\* A line of the loop is not one cut short.
LEMMA LineIsEvent == ASSUME NEW e \in Lines PROVE IsEvent(e) /\ e # Torn
<1>1. e.event # "torn"
  BY DEF Lines, Names
<1> QED
  BY <1>1 DEF IsEvent, Torn

\* The invariant of the loop holds at first.
LEMMA LoopInitially == Init => LoopInv
<1> SUFFICES ASSUME Init PROVE LoopInv
  OBVIOUS
<1>1. log = <<>> /\ Len(log) = 0 /\ pc = "start" /\ iteration = 1 /\ ids = 0 /\ done = {}
      /\ decision = "none"
  BY DEF Init
<1>2. log \in Seq(Lines \cup {Torn})
  BY <1>1
<1>3. LoopTyped
  BY <1>1, <1>2 DEF LoopTyped, BeforeDispatch
<1>4. LogShape /\ LinesAreTold /\ RoundsAreDecided
  BY <1>1 DEF LogShape, LinesAreTold, RoundsAreDecided
<1>5. Reached
  BY <1>1 DEF Reached, BeforeDispatch, AfterDispatch, AfterReview
<1>6. PhasesFollow
  BY <1>1 DEF PhasesFollow, EndPhase, PhasesAt
<1> QED
  BY <1>3, <1>4, <1>5, <1>6 DEF LoopInv

\* What a write may leave, whatever fails: nothing, the event, the event twice, or a line
\* cut short; and nothing follows such a line.
LEMMA Written ==
  ASSUME LoopTyped, LogShape, NEW name \in Names, NEW ph \in Phases, NEW it \in Nat,
         NEW next, Write(name, ph, it, next)
  PROVE  /\ ids' = ids + 1
         /\ \/ log' = log /\ pc' = "dead"
            \/ Readable(log) /\ log' = Append(log, Torn) /\ pc' \in {next, "dead"}
            \/ \E e \in Lines :
                 /\ e.event = name /\ e.phase = ph /\ e.iteration = it /\ e.id = ids + 1
                 /\ Readable(log) /\ pc' \in {next, "dead"}
                 /\ \/ log' = Append(log, e)
                    \/ log' = Append(Append(log, e), Twin(log = <<>>, e))
<1> DEFINE e0 == Event(name, ph, it, ids + 1)
           e == Linked(log, e0)
<1>1. PICK a \in Appends(log, e0) :
        log' = a.log /\ ids' = ids + 1 /\ pc' = IF a.returns THEN next ELSE "dead"
  BY DEF Write
<1>2. CASE ~Linkable(log, e0)
  <2>1. a = [log |-> log, returns |-> FALSE]
    BY <1>1, <1>2 DEF Appends
  <2> QED
    BY <1>1, <2>1
<1>3. CASE Linkable(log, e0)
  <2>0. Len(log) \in Nat /\ (log = <<>> <=> Len(log) = 0) /\ ids + 1 \in Nat \ {0}
    BY DEF LoopTyped
  <2>1. log = <<>> \/ IsEvent(Last(log))
    BY <1>3 DEF Linkable, Event, None
  <2>2. Readable(log)
    <3>1. \A i \in 1..Len(log) : IsEvent(log[i])
      BY <2>0, <2>1 DEF LogShape, Last
    <3> QED
      BY <3>1 DEF Readable, LoopTyped
  <2>3. /\ e \in Lines /\ e.event = name /\ e.phase = ph /\ e.iteration = it /\ e.id = ids + 1
        /\ log = <<>> => e.parent = None
        /\ log # <<>> => e.parent # None
    <3>1. CASE log = <<>>
      <4>1. e = e0
        BY <3>1 DEF Linked
      <4> QED
        BY <2>0, <3>1, <4>1 DEF Event, Lines, None
    <3>2. CASE log # <<>>
      <4>1. Last(log) \in Lines
        BY <2>0, <2>1, <3>2 DEF LoopTyped, Last, IsEvent
      <4>2. Last(log).id \in Nat \ {0}
        BY <4>1 DEF Lines
      <4>3. e = [event |-> name, phase |-> ph, iteration |-> it, id |-> ids + 1,
                 parent |-> Last(log).id]
        BY <3>2 DEF Linked, Event, None
      <4> QED
        BY <2>0, <3>2, <4>2, <4>3 DEF Lines, None
    <3> QED
      BY <3>1, <3>2
  <2>4. WriteLine(log, e) = Append(log, e) /\ WriteLine(log, Torn) = Append(log, Torn)
    BY <2>1 DEF WriteLine
  <2>5. Append(log, e) # <<>> /\ Last(Append(log, e)) = e
    <3> HIDE DEF e
    <3>1. log \in Seq(Lines \cup {Torn}) /\ e \in Lines \cup {Torn}
      BY <2>3 DEF LoopTyped
    <3>2. Len(Append(log, e)) = Len(log) + 1 /\ Append(log, e)[Len(log) + 1] = e
      BY <3>1
    <3> QED
      BY <2>0, <3>2 DEF Last
  <2>6. Linked(Append(log, e), e) = Twin(log = <<>>, e)
    <3>1. CASE log = <<>>
      BY <2>3, <2>5, <3>1 DEF Linked, Twin
    <3>2. CASE log # <<>>
      BY <2>3, <3>2 DEF Linked, Twin
    <3> QED
      BY <3>1, <3>2
  <2> HIDE DEF e, e0
  <2>7. \/ a.log = Append(log, e) /\ a.returns \in BOOLEAN
        \/ a.log = Append(Append(log, e), Twin(log = <<>>, e)) /\ a.returns = TRUE
        \/ a.log = Append(log, Torn)
        \/ a.log = log /\ a.returns = FALSE
    <3> DEFINE cut == Append(log, Torn)
    <3>1. e = Linked(log, e0)
      BY DEF e
    <3>2. a \in {[log |-> Append(log, e), returns |-> TRUE],
                 [log |-> Append(Append(log, e), Twin(log = <<>>, e)), returns |-> TRUE],
                 [log |-> cut, returns |-> Linkable(cut, e)],
                 [log |-> log, returns |-> FALSE],
                 [log |-> Append(log, e), returns |-> FALSE]}
      BY <1>1, <1>3, <2>4, <2>6, <3>1 DEF Appends
    <3> HIDE DEF cut
    <3>3. CASE a = [log |-> Append(log, e), returns |-> TRUE]
      BY <3>3
    <3>4. CASE a = [log |-> Append(Append(log, e), Twin(log = <<>>, e)), returns |-> TRUE]
      BY <3>4
    <3>5. CASE a = [log |-> cut, returns |-> Linkable(cut, e)]
      BY <3>5 DEF cut
    <3>6. CASE a = [log |-> log, returns |-> FALSE]
      BY <3>6
    <3>7. CASE a = [log |-> Append(log, e), returns |-> FALSE]
      BY <3>7
    <3> QED
      BY <3>2, <3>3, <3>4, <3>5, <3>6, <3>7
  <2>8. pc' \in {next, "dead"}
    BY <1>1
  <2> QED
    BY <1>1, <2>2, <2>3, <2>7, <2>8
<1> QED
  BY <1>2, <1>3

\* The same, line by line: what a step that writes e makes of the log.
Grown == Len(log') > Len(log) /\ IsEvent(log'[Len(log) + 1])
Extended(e) ==
  /\ log' \in Seq(Lines \cup {Torn})
  /\ Len(log') \in {Len(log), Len(log) + 1, Len(log) + 2}
  /\ \A i \in 1..Len(log) : log'[i] = log[i]
  /\ Len(log') = Len(log) => pc' = "dead"
  /\ Len(log') # Len(log) => Readable(log)
  /\ Len(log') = Len(log) + 1 => log'[Len(log) + 1] \in {e, Torn}
  /\ Len(log') = Len(log) + 2 =>
       /\ log'[Len(log) + 1] = e
       /\ log'[Len(log) + 2] = Twin(Len(log) = 0, e)
  /\ ids' \in Nat /\ ids <= ids' /\ (Grown => ids' = ids + 1)

\* The second copy is a line like the first.
LEMMA TwinIsLine ==
  ASSUME NEW e \in Lines, NEW first \in BOOLEAN
  PROVE  /\ Twin(first, e) \in Lines /\ Twin(first, e).event = e.event
         /\ Twin(first, e).phase = e.phase /\ Twin(first, e).iteration = e.iteration
         /\ Twin(first, e).id = e.id
         /\ Twin(first, e).parent = IF first THEN e.id ELSE e.parent
<1>1. [e EXCEPT !.parent = e.id] =
        [event |-> e.event, phase |-> e.phase, iteration |-> e.iteration, id |-> e.id,
         parent |-> e.id]
  BY DEF Lines
<1>2. /\ e.event \in Names /\ e.phase \in Phases /\ e.iteration \in Nat /\ e.id \in Nat \ {0}
      /\ e.parent \in Nat
  BY DEF Lines
<1>3. [event |-> e.event, phase |-> e.phase, iteration |-> e.iteration, id |-> e.id,
       parent |-> e.id] \in Lines
  BY <1>2 DEF Lines
<1> QED
  BY <1>1, <1>2, <1>3 DEF Twin

\* Written, read line by line.
LEMMA WrittenLines ==
  ASSUME LoopTyped, LogShape, NEW name \in Names, NEW ph \in Phases, NEW it \in Nat,
         NEW next, Write(name, ph, it, next)
  PROVE  \E e \in Lines :
           /\ e.event = name /\ e.phase = ph /\ e.iteration = it /\ e.id = ids + 1
           /\ pc' \in {next, "dead"}
           /\ Extended(e)
<1> DEFINE n == Len(log)
           All == Lines \cup {Torn}
<1>0. log \in Seq(All) /\ n \in Nat /\ (log = <<>> <=> n = 0) /\ ids \in Nat
      /\ ids + 1 \in Nat \ {0} /\ Torn \in All
  BY DEF LoopTyped
<1>1. /\ ids' = ids + 1
      /\ \/ log' = log /\ pc' = "dead"
         \/ Readable(log) /\ log' = Append(log, Torn) /\ pc' \in {next, "dead"}
         \/ \E e \in Lines :
              /\ e.event = name /\ e.phase = ph /\ e.iteration = it /\ e.id = ids + 1
              /\ Readable(log) /\ pc' \in {next, "dead"}
              /\ \/ log' = Append(log, e)
                 \/ log' = Append(Append(log, e), Twin(log = <<>>, e))
  BY Written
<1>2. PICK d \in Lines : d.event = name /\ d.phase = ph /\ d.iteration = it /\ d.id = ids + 1
  <2>1. [event |-> name, phase |-> ph, iteration |-> it, id |-> ids + 1, parent |-> 0] \in Lines
    BY <1>0 DEF Lines
  <2> QED
    BY <2>1
<1>3. CASE log' = log /\ pc' = "dead"
  <2>1. Extended(d)
    BY <1>0, <1>1, <1>3 DEF Extended, Grown
  <2> QED
    BY <1>2, <1>3, <2>1
<1>4. CASE Readable(log) /\ log' = Append(log, Torn) /\ pc' \in {next, "dead"}
  <2>1. log' \in Seq(All) /\ Len(log') = n + 1 /\ log'[n + 1] = Torn
        /\ \A i \in 1..n : log'[i] = log[i]
    BY <1>0, <1>4
  <2>2. Extended(d)
    BY <1>0, <1>1, <1>4, <2>1 DEF Extended, Grown
  <2> QED
    BY <1>2, <1>4, <2>2
<1>5. CASE \E e \in Lines :
             /\ e.event = name /\ e.phase = ph /\ e.iteration = it /\ e.id = ids + 1
             /\ Readable(log) /\ pc' \in {next, "dead"}
             /\ \/ log' = Append(log, e)
                \/ log' = Append(Append(log, e), Twin(log = <<>>, e))
  <2>1. PICK e \in Lines :
          /\ e.event = name /\ e.phase = ph /\ e.iteration = it /\ e.id = ids + 1
          /\ Readable(log) /\ pc' \in {next, "dead"}
          /\ \/ log' = Append(log, e)
             \/ log' = Append(Append(log, e), Twin(log = <<>>, e))
    BY <1>5
  <2> DEFINE t == Twin(log = <<>>, e)
             one == Append(log, e)
  <2>2. t \in All /\ t = Twin(n = 0, e)
    BY <1>0, <2>1, TwinIsLine
  <2>3. one \in Seq(All) /\ Len(one) = n + 1 /\ one[n + 1] = e /\ \A i \in 1..n : one[i] = log[i]
    BY <1>0
  <2> HIDE DEF t, one
  <2>4. CASE log' = one
    <3>1. Extended(e)
      BY <1>0, <1>1, <2>1, <2>3, <2>4 DEF Extended, Grown
    <3> QED
      BY <2>1, <3>1
  <2>5. CASE log' = Append(one, t)
    <3>1. log' \in Seq(All) /\ Len(log') = n + 2 /\ log'[n + 2] = t
          /\ \A i \in 1..(n + 1) : log'[i] = one[i]
      BY <1>0, <2>2, <2>3, <2>5
    <3>2. log'[n + 1] = e /\ \A i \in 1..n : log'[i] = log[i]
      BY <1>0, <2>3, <3>1
    <3>3. Extended(e)
      BY <1>0, <1>1, <2>1, <2>2, <3>1, <3>2 DEF Extended, Grown
    <3> QED
      BY <2>1, <3>3
  <2> QED
    BY <2>1, <2>4, <2>5 DEF one, t
<1> QED
  BY <1>1, <1>3, <1>4, <1>5

\* What a step has to see to before it writes e, moves to the step next and goes round.
Fitting(e, next) ==
  /\ iteration' \in {iteration, iteration + 1}
  /\ next \in BeforeDispatch \cup AfterDispatch \cup {"exit", "dead"}
  /\ pc' \in {next, "dead"}
  /\ iteration' = iteration \/ (Readable(log) => Decided)
  /\ next \in AfterDispatch => <<"dispatch", iteration'>> \in done
  /\ next \in BeforeDispatch => <<"dispatch", iteration'>> \notin done
  /\ next \in AfterReview =>
       /\ <<"review", iteration'>> \in done /\ decision # "none"
       /\ decision \in Decisions => <<"decision", iteration'>> \in done
  /\ Grown =>
       /\ e.id = ids + 1
       /\ e.iteration = None \/ (iteration <= e.iteration /\ e.iteration <= iteration')
       /\ e.event \in {"dispatch_complete", "review_complete"} =>
            <<"dispatch", e.iteration>> \in done
       /\ e.event = "review_complete" => <<"review", e.iteration>> \in done
       /\ e.event = "decision" => <<"decision", e.iteration>> \in done
       /\ e.event = "dispatch_incomplete" =>
            <<"dispatch", e.iteration>> \notin done /\ next = "exit"
       /\ e.event \in {"dispatch_complete", "review_complete", "decision",
                       "dispatch_incomplete"} => e.iteration # None
       /\ next = "decided" => e.event = "decision"
       /\ owner = "claude-builder" =>
            /\ \A from \in PhasesAt(pc) : Follows(from, e.phase)
            /\ e.phase \in PhasesAt(next)

\* A step that writes a fitting event keeps the invariant, whatever is left of the write.
LEMMA LogGrows ==
  ASSUME LoopInv, NEW e \in Lines, NEW next, Extended(e), Fitting(e, next),
         pc \notin {"exit", "dead"},
         owner' = owner, done' = done, decision' = decision
  PROVE  LoopInv'
<1> DEFINE n == Len(log)
           m == Len(log')
           All == Lines \cup {Torn}
<1>t. log \in Seq(All) /\ log' \in Seq(All)
  BY DEF LoopInv, LoopTyped, Extended
<1>d. DOMAIN log = 1..n /\ DOMAIN log' = 1..m /\ \A i \in 1..n : log[i] \in All
  BY <1>t
<1>z. (log = <<>> <=> n = 0) /\ (log' = <<>> <=> m = 0)
  BY <1>t
<1>0. /\ n \in Nat /\ ids \in Nat /\ iteration \in Nat \ {0} /\ m \in Nat
      /\ m = n \/ m = n + 1 \/ m = n + 2
  BY <1>t DEF LoopInv, LoopTyped, Extended
<1>x. /\ m = n => pc' = "dead"
      /\ m # n => Readable(log)
      /\ m = n + 1 => log'[n + 1] \in {e, Torn}
      /\ m = n + 2 => log'[n + 1] = e /\ log'[n + 2] = Twin(n = 0, e)
      /\ ids' \in Nat /\ ids <= ids' /\ (Grown => ids' = ids + 1)
      /\ Grown <=> m > n /\ IsEvent(log'[n + 1])
  BY DEF Extended, Grown
<1>1. \A i \in 1..n : log'[i] = log[i] /\ log[i] \in All
  BY <1>d DEF Extended
<1>r. /\ Readable(log) <=> \A i \in 1..n : IsEvent(log[i])
      /\ Readable(log') <=> \A i \in 1..m : IsEvent(log'[i])
  BY <1>d DEF Readable
<1> HIDE DEF All
<1>2. ASSUME NEW i \in 1..m, i > n, IsEvent(log'[i])
      PROVE  /\ Grown /\ Readable(log)
             /\ (i = n + 1 /\ log'[i] = e) \/ (i = n + 2 /\ log'[i] = Twin(n = 0, e))
  <2>1. IsEvent(e)
    BY LineIsEvent
  <2>2. Readable(log)
    BY <1>0, <1>2, <1>x
  <2>3. CASE m = n + 1
    <3>1. i = n + 1
      BY <1>0, <1>2, <2>3
    <3> QED
      BY <1>0, <1>2, <2>2, <2>3, <3>1, <1>x DEF Grown, IsEvent
  <2>4. CASE m = n + 2
    <3>1. i = n + 1 \/ i = n + 2
      BY <1>0, <1>2, <2>4
    <3>2. Grown
      BY <1>0, <2>1, <2>4, <1>x DEF Grown
    <3> QED
      BY <1>0, <2>2, <2>4, <3>1, <3>2, <1>x
  <2> QED
    BY <1>0, <1>2, <2>3, <2>4
<1>3. /\ e.event \in Names /\ e.phase \in Phases /\ e.iteration \in Nat /\ e.id \in Nat \ {0}
      /\ \A first \in BOOLEAN :
           /\ Twin(first, e) \in Lines /\ Twin(first, e).event = e.event
           /\ Twin(first, e).phase = e.phase /\ Twin(first, e).iteration = e.iteration
           /\ Twin(first, e).id = e.id
  BY TwinIsLine DEF Lines
<1>4. ASSUME NEW i \in 1..m, i > n, IsEvent(log'[i])
      PROVE  /\ log'[i] \in Lines /\ log'[i].event = e.event /\ log'[i].phase = e.phase
             /\ log'[i].iteration = e.iteration /\ log'[i].id = e.id
             /\ e.id = ids + 1 /\ ids' = ids + 1
  BY <1>2, <1>3, <1>4, <1>x DEF Fitting
<1>5. \A i \in 1..n : IsEvent(log[i]) => log[i] \in Lines /\ log[i].id \in Nat
                                          /\ log[i].iteration \in Nat /\ log[i].phase \in Phases
  <2>1. \A i \in 1..n : IsEvent(log[i]) => log[i] \in Lines
    BY <1>1 DEF IsEvent, All
  <2>2. \A d \in Lines : d.id \in Nat /\ d.iteration \in Nat /\ d.phase \in Phases
    BY DEF Lines
  <2> QED
    BY <2>1, <2>2
<1>6. iteration' \in Nat \ {0} /\ iteration <= iteration'
  BY <1>0 DEF Fitting
<1>7. LoopTyped'
  <2>1. pc' \in BeforeDispatch \cup AfterDispatch \cup {"exit", "dead"}
    BY DEF Fitting
  <2> QED
    BY <1>0, <1>6, <1>t, <1>x, <2>1 DEF LoopInv, LoopTyped, All
<1>8. LogShape'
  <2>1. ASSUME NEW i \in 1..m, i < m
        PROVE  IsEvent(log'[i])
    <3>1. CASE i < n
      BY <1>0, <1>1, <2>1, <3>1 DEF LoopInv, LogShape
    <3>2. CASE i >= n
      <4>1. Readable(log) /\ (i = n \/ (i = n + 1 /\ m = n + 2))
        BY <1>0, <2>1, <3>2, <1>x
      <4>2. CASE i = n
        BY <1>0, <1>1, <1>r, <2>1, <4>1, <4>2
      <4>3. CASE i = n + 1 /\ m = n + 2
        BY <4>3, LineIsEvent, <1>x
      <4> QED
        BY <4>1, <4>2, <4>3
    <3> QED
      BY <1>0, <3>1, <3>2
  <2>2. ASSUME NEW i \in 1..m, NEW j \in 1..m, i < j, IsEvent(log'[j])
        PROVE  /\ log'[i].id < log'[j].id \/ (j = i + 1 /\ log'[j] = Twin(i = 1, log'[i]))
               /\ log'[i].iteration # None /\ log'[j].iteration # None =>
                    log'[i].iteration <= log'[j].iteration
    <3>1. IsEvent(log'[i])
      BY <1>0, <2>1, <2>2
    <3>2. CASE j <= n
      BY <1>0, <1>1, <2>2, <3>2 DEF LoopInv, LogShape
    <3>3. CASE j > n /\ i <= n
      <4>0. i \in 1..n /\ IsEvent(log[i])
        BY <1>0, <1>1, <2>2, <3>1, <3>3
      <4>1. log[i].id <= ids /\ log[i].iteration <= iteration
        BY <4>0 DEF LoopInv, LinesAreTold, Told
      <4>2. log'[j].id = ids + 1
        BY <1>0, <1>4, <2>2, <3>3
      <4>3. log'[j].iteration = None \/ iteration <= log'[j].iteration
        BY <1>0, <1>2, <1>4, <2>2, <3>3 DEF Fitting
      <4> QED
        BY <1>0, <1>1, <1>3, <1>4, <1>5, <2>2, <3>1, <3>3, <4>1, <4>2, <4>3
    <3>4. CASE i > n
      <4>1. i = n + 1 /\ j = n + 2 /\ log'[i] = e /\ log'[j] = Twin(n = 0, e)
        BY <1>0, <1>2, <2>2, <3>1, <3>4
      <4>2. Twin(n = 0, e) = Twin(i = 1, e)
        BY <1>0, <4>1 DEF Twin
      <4>3. log'[j].iteration = e.iteration
        BY <1>0, <1>4, <2>2, <3>4
      <4> QED
        BY <1>0, <1>3, <4>1, <4>2, <4>3
    <3> QED
      BY <1>0, <3>2, <3>3, <3>4
  <2> QED
    BY <2>1, <2>2 DEF LogShape
<1>9. LinesAreTold'
  <2> SUFFICES ASSUME NEW i \in 1..m, IsEvent(log'[i]) PROVE Told(log[i])'
    BY DEF LinesAreTold
  <2>1. CASE i <= n
    <3>1. Told(log[i]) /\ log'[i] = log[i] /\ log[i] \in Lines
      BY <1>0, <1>1, <1>5, <2>1 DEF LoopInv, LinesAreTold
    <3>2. log[i].id <= ids' /\ log[i].iteration <= iteration'
      BY <1>0, <1>5, <1>6, <2>1, <3>1, <1>x DEF Told
    <3> QED
      BY <3>1, <3>2 DEF Told
  <2>2. CASE i > n
    <3>1. /\ Grown /\ log'[i].event = e.event /\ log'[i].iteration = e.iteration
          /\ log'[i].id = e.id /\ e.id = ids' 
      BY <1>2, <1>4, <2>2
    <3>2. e.id <= ids' /\ e.iteration <= iteration'
      BY <1>0, <1>3, <1>6, <3>1 DEF Fitting, None
    <3> QED
      BY <3>1, <3>2 DEF Told, Fitting
  <2> QED
    BY <1>0, <2>1, <2>2
<1>10. Reached'
  <2>1. pc' \in {next, "dead"}
    BY DEF Fitting
  <2>2. \A i \in Nat : <<"dispatch", i>> \in done => i <= iteration'
    BY <1>0, <1>6 DEF LoopInv, Reached
  <2>3. "dead" \notin BeforeDispatch \cup AfterDispatch /\ AfterReview \subseteq AfterDispatch
    BY DEF BeforeDispatch, AfterDispatch, AfterReview
  <2> QED
    BY <2>1, <2>2, <2>3 DEF Reached, Fitting
<1>11. RoundsAreDecided'
  <2> SUFFICES ASSUME Readable(log'), ~Decided'
               PROVE  iteration' = 1 /\ pc' # "decided"
    BY DEF RoundsAreDecided
  <2>1. Readable(log) /\ ~Decided
    BY <1>0, <1>1 DEF Readable, Decided
  <2>2. iteration' = 1
    BY <2>1 DEF LoopInv, RoundsAreDecided, Fitting
  <2>3. ASSUME pc' = "decided" PROVE FALSE
    <3>1. m > n /\ next = "decided"
      BY <1>0, <2>3, <1>x DEF Fitting
    <3>2. IsEvent(log'[n + 1])
      BY <1>0, <3>1 DEF Readable
    <3>3. Grown /\ log'[n + 1].event = e.event
      BY <1>0, <1>2, <1>4, <3>1, <3>2
    <3> QED
      BY <1>0, <3>1, <3>2, <3>3 DEF Fitting, Decided
  <2> QED
    BY <2>2, <2>3
<1>12. PhasesFollow'
  <2> SUFFICES ASSUME owner = "claude-builder"
               PROVE  /\ \A j \in 1..m : IsEvent(log'[j]) =>
                           Follows(IF j = 1 THEN "setup" ELSE log'[j - 1].phase, log'[j].phase)
                      /\ Readable(log') => EndPhase' \in PhasesAt(pc')
    BY DEF PhasesFollow, PhasesAt
  <2>1. ASSUME NEW j \in 1..m, IsEvent(log'[j])
        PROVE  Follows(IF j = 1 THEN "setup" ELSE log'[j - 1].phase, log'[j].phase)
    <3>1. CASE j <= n
      BY <1>0, <1>1, <2>1, <3>1 DEF LoopInv, PhasesFollow
    <3>2. CASE j = n + 1
      <4>1. EndPhase \in PhasesAt(pc)
        BY <1>0, <1>2, <2>1, <3>2 DEF LoopInv, PhasesFollow
      <4>2. (IF j = 1 THEN "setup" ELSE log'[j - 1].phase) = EndPhase
        BY <1>0, <1>1, <3>2 DEF EndPhase
      <4> QED
        BY <1>0, <1>2, <1>4, <2>1, <3>2, <4>1, <4>2 DEF Fitting
    <3>3. CASE j = n + 2
      <4>1. log'[j].phase = e.phase /\ log'[j - 1].phase = e.phase /\ j # 1
        BY <1>0, <1>2, <1>4, <2>1, <3>3, <1>x
      <4> QED
        BY <4>1 DEF Follows
    <3> QED
      BY <1>0, <3>1, <3>2, <3>3
  <2>2. ASSUME Readable(log') PROVE EndPhase' \in PhasesAt(pc')
    <3>1. CASE m = n
      <4>1. pc' = "dead"
        BY <3>1, <1>x
      <4>2. EndPhase' \in Phases
        <5>1. CASE m = 0
          BY <1>0, <5>1 DEF EndPhase, Phases
        <5>2. CASE m # 0
          BY <1>0, <1>1, <1>5, <2>2, <3>1, <5>2 DEF EndPhase, Readable
        <5> QED
          BY <5>1, <5>2
      <4> QED
        BY <4>1, <4>2 DEF PhasesAt
    <3>2. CASE m > n
      <4>1. IsEvent(log'[m]) /\ m \in 1..m
        BY <1>0, <2>2, <3>2 DEF Readable
      <4>2. Grown /\ EndPhase' = e.phase
        BY <1>0, <1>2, <1>4, <3>2, <4>1 DEF EndPhase
      <4>3. e.phase \in PhasesAt(next) /\ pc' \in {next, "dead"}
        BY <4>2 DEF Fitting
      <4>4. PhasesAt("dead") = Phases
        BY DEF PhasesAt
      <4> QED
        BY <1>3, <4>2, <4>3, <4>4
    <3> QED
      BY <1>0, <3>1, <3>2
  <2> QED
    BY <2>1, <2>2
<1> QED
  BY <1>7, <1>8, <1>9, <1>10, <1>11, <1>12 DEF LoopInv

\* The same of an event given by its parts.
Fits(name, ph, it, next) ==
  /\ name \in Names /\ ph \in Phases /\ it \in Nat /\ pc \notin {"exit", "dead"}
  /\ iteration' \in {iteration, iteration + 1}
  /\ next \in BeforeDispatch \cup AfterDispatch \cup {"exit"}
  /\ iteration' = iteration \/ (Readable(log) => Decided)
  /\ next \in AfterDispatch => <<"dispatch", iteration'>> \in done
  /\ next \in BeforeDispatch => <<"dispatch", iteration'>> \notin done
  /\ next \in AfterReview =>
       /\ <<"review", iteration'>> \in done /\ decision # "none"
       /\ decision \in Decisions => <<"decision", iteration'>> \in done
  /\ it = None \/ (iteration <= it /\ it <= iteration')
  /\ name \in {"dispatch_complete", "review_complete"} => <<"dispatch", it>> \in done
  /\ name = "review_complete" => <<"review", it>> \in done
  /\ name = "decision" => <<"decision", it>> \in done
  /\ name = "dispatch_incomplete" => <<"dispatch", it>> \notin done /\ next = "exit"
  /\ name \in {"dispatch_complete", "review_complete", "decision", "dispatch_incomplete"} =>
       it # None
  /\ next = "decided" => name = "decision"
  /\ owner = "claude-builder" =>
       /\ \A from \in PhasesAt(pc) : Follows(from, ph)
       /\ ph \in PhasesAt(next)

\* One lemma for the steps that write: what is left to show is that the event fits.
LEMMA WriteKeeps ==
  ASSUME LoopInv, NEW name, NEW ph, NEW it, NEW next,
         Write(name, ph, it, next), Fits(name, ph, it, next),
         owner' = owner, done' = done, decision' = decision
  PROVE  LoopInv'
<1>0. name \in Names /\ ph \in Phases /\ it \in Nat /\ pc \notin {"exit", "dead"}
  BY DEF Fits
<1>1. PICK e \in Lines :
        /\ e.event = name /\ e.phase = ph /\ e.iteration = it /\ e.id = ids + 1
        /\ pc' \in {next, "dead"}
        /\ Extended(e)
  BY <1>0, WrittenLines DEF LoopInv
<1>2. Fitting(e, next)
  BY <1>1 DEF Fits, Fitting
<1> QED
  BY <1>0, <1>1, <1>2, LogGrows

\* A step that leaves the log alone.
LEMMA QuietKeeps ==
  ASSUME LoopInv, log' = log, ids' = ids, owner' = owner, iteration' = iteration,
         pc \notin {"exit", "dead"},
         decision' \in Decisions \cup {"none", "absent", "empty"},
         done \subseteq done',
         pc' \in BeforeDispatch \cup AfterDispatch \cup {"exit", "dead"},
         \A i \in Nat : <<"dispatch", i>> \in done' \ done => i = iteration,
         pc' \in AfterDispatch => <<"dispatch", iteration>> \in done',
         pc' \in BeforeDispatch => <<"dispatch", iteration>> \notin done',
         pc' \in AfterReview =>
           /\ <<"review", iteration>> \in done' /\ decision' # "none"
           /\ decision' \in Decisions => <<"decision", iteration>> \in done',
         pc' = "decided" => pc = "decided",
         PhasesAt(pc) \subseteq PhasesAt(pc')
  PROVE  LoopInv'
<1>1. LoopTyped' /\ LogShape'
  BY DEF LoopInv, LoopTyped, LogShape
<1>2. LinesAreTold'
  <2> SUFFICES ASSUME NEW i \in 1..Len(log), IsEvent(log[i]) PROVE Told(log[i])'
    BY DEF LinesAreTold
  <2>1. Told(log[i]) /\ log[i].event # "dispatch_incomplete"
    BY DEF LoopInv, LinesAreTold, Told
  <2> QED
    BY <2>1 DEF Told
<1>3. Reached'
  <2>1. iteration \in Nat
    BY DEF LoopInv, LoopTyped
  <2> QED
    BY <2>1 DEF LoopInv, Reached
<1>4. RoundsAreDecided' /\ PhasesFollow'
  BY DEF LoopInv, RoundsAreDecided, Decided, PhasesFollow, EndPhase
<1> QED
  BY <1>1, <1>2, <1>3, <1>4 DEF LoopInv

\* Every step of the loop keeps its invariant.
LEMMA LoopStepKeeps == LoopInv /\ [Next]_vars => LoopInv'
<1> SUFFICES ASSUME LoopInv, [Next]_vars PROVE LoopInv'
  OBVIOUS
<1>0. /\ iteration \in Nat \ {0} /\ iteration + 1 \in Nat \ {0} /\ None \in Nat /\ None # iteration
      /\ decision \in Decisions \cup {"none", "absent", "empty"}
      /\ log \in Seq(Lines \cup {Torn}) /\ ids \in Nat
  BY DEF LoopInv, LoopTyped, None
<1>t. \A i \in Nat : <<"dispatch", i>> \in done => i <= iteration
  BY DEF LoopInv, Reached
<1>p. /\ PhasesAt("start") = {"setup"} /\ PhasesAt("loop") = {"setup", "decision"}
      /\ PhasesAt("extract") = {"review"} /\ PhasesAt("decided") = {"decision"}
      /\ PhasesAt("exit") = Phases /\ PhasesAt("dead") = Phases
      /\ \A place \in {"timeout", "dispatch", "incomplete", "complete", "observe", "review",
                       "review-failed", "reviewed"} : PhasesAt(place) = {"dispatch"}
  BY DEF PhasesAt
<1>1. CASE Start
  <2>1. CASE owner = "codex-fast-path"
    <3>1. Write("stop", "decision", None, "exit")
      BY <1>1, <2>1 DEF Start
    <3>8. Fits("stop", "decision", None, "exit")
      BY <1>0, <1>1, <1>p, <2>1, <3>1
      DEF Start, Fits, Names, Phases, BeforeDispatch, AfterDispatch, AfterReview
    <3> QED
      BY <1>0, <1>1, <1>p, <2>1, <3>1, <3>8, WriteKeeps DEF Start
  <2>2. CASE owner # "codex-fast-path"
    <3>1. Write("run_start", "setup", None, "loop")
      BY <1>1, <2>2 DEF Start
    <3>2. <<"dispatch", iteration>> \notin done
      BY <1>1 DEF Start, LoopInv, Reached, BeforeDispatch
    <3>8. Fits("run_start", "setup", None, "loop")
      BY <1>0, <1>1, <1>p, <2>2, <3>1, <3>2
      DEF Start, Fits, Names, Phases, BeforeDispatch, AfterDispatch, AfterReview, Follows, ValidNext
    <3> QED
      BY <1>0, <1>1, <1>p, <2>2, <3>1, <3>2, <3>8, WriteKeeps DEF Start
  <2> QED
    BY <2>1, <2>2
<1>2. CASE StartIteration
  <2>1. <<"dispatch", iteration>> \notin done /\ pc = "loop"
    BY <1>2 DEF StartIteration, LoopInv, Reached, BeforeDispatch
  <2>8. Fits("iteration_start", "dispatch", iteration, "timeout")
    BY <1>0, <1>2, <1>p, <2>1
    DEF StartIteration, Fits, Names, Phases, BeforeDispatch, AfterDispatch, AfterReview, Follows, ValidNext
  <2> QED
    BY <1>0, <1>2, <1>p, <2>1, <2>8, WriteKeeps DEF StartIteration
<1>4. CASE Dispatch
  <2>1. PICK result \in {"failed", "incomplete", "complete"} :
          /\ pc' = IF result = "failed" THEN "dead" ELSE result
          /\ done' = IF result = "complete" THEN done \cup {<<"dispatch", iteration>>} ELSE done
    BY <1>4 DEF Dispatch
  <2>2. <<"dispatch", iteration>> \notin done /\ pc = "dispatch"
    BY <1>4 DEF Dispatch, LoopInv, Reached, BeforeDispatch
  <2>3. CASE result = "failed"
    BY <1>0, <1>4, <1>p, <2>1, <2>2, <2>3, QuietKeeps
    DEF Dispatch, BeforeDispatch, AfterDispatch, AfterReview, Phases
  <2>4. CASE result = "incomplete"
    BY <1>0, <1>4, <1>p, <2>1, <2>2, <2>4, QuietKeeps
    DEF Dispatch, BeforeDispatch, AfterDispatch, AfterReview, Phases
  <2>5. CASE result = "complete"
    BY <1>0, <1>4, <1>p, <2>1, <2>2, <2>5, QuietKeeps
    DEF Dispatch, BeforeDispatch, AfterDispatch, AfterReview, Phases
  <2> QED
    BY <2>3, <2>4, <2>5
<1>3. CASE ChooseTimeout
  <2>1. <<"dispatch", iteration>> \notin done /\ pc = "timeout"
    BY <1>3 DEF ChooseTimeout, LoopInv, Reached, BeforeDispatch
  <2>2. PICK name \in {"adaptive_timeout_applied", "adaptive_timeout_skipped"} :
          Write(name, "dispatch", iteration, "dispatch")
    BY <1>3 DEF ChooseTimeout
  <2>8. Fits(name, "dispatch", iteration, "dispatch")
    BY <1>0, <1>3, <1>p, <2>1, <2>2
    DEF ChooseTimeout, Fits, Names, Phases, BeforeDispatch, AfterDispatch, AfterReview, Follows, ValidNext
  <2> QED
    BY <1>0, <1>3, <1>p, <2>1, <2>2, <2>8, WriteKeeps DEF ChooseTimeout
<1>5. CASE ReportDispatch
  <2>1. CASE pc = "incomplete" /\ Write("dispatch_incomplete", "dispatch", iteration, "exit")
    <3>1. <<"dispatch", iteration>> \notin done
      BY <2>1 DEF LoopInv, Reached, BeforeDispatch
    <3>8. Fits("dispatch_incomplete", "dispatch", iteration, "exit")
      BY <1>0, <1>5, <1>p, <2>1, <3>1
      DEF ReportDispatch, Fits, Names, Phases, BeforeDispatch, AfterDispatch, AfterReview, Follows, ValidNext
    <3> QED
      BY <1>0, <1>5, <1>p, <2>1, <3>1, <3>8, WriteKeeps DEF ReportDispatch
  <2>2. CASE pc = "complete" /\ Write("dispatch_complete", "dispatch", iteration, "observe")
    <3>1. <<"dispatch", iteration>> \in done
      BY <2>2 DEF LoopInv, Reached, AfterDispatch
    <3>8. Fits("dispatch_complete", "dispatch", iteration, "observe")
      BY <1>0, <1>5, <1>p, <2>2, <3>1
      DEF ReportDispatch, Fits, Names, Phases, BeforeDispatch, AfterDispatch, AfterReview, Follows, ValidNext
    <3> QED
      BY <1>0, <1>5, <1>p, <2>2, <3>1, <3>8, WriteKeeps DEF ReportDispatch
  <2> QED
    BY <1>5, <2>1, <2>2 DEF ReportDispatch
<1>6. CASE ObserveTimeout
  <2>1. <<"dispatch", iteration>> \in done /\ pc = "observe"
    BY <1>6 DEF ObserveTimeout, LoopInv, Reached, AfterDispatch
  <2>2. CASE adaptive
    <3>1. Write("adaptive_timeout_observed", "dispatch", iteration, "review")
      BY <1>6, <2>2 DEF ObserveTimeout
    <3>8. Fits("adaptive_timeout_observed", "dispatch", iteration, "review")
      BY <1>0, <1>6, <1>p, <2>1, <3>1
      DEF ObserveTimeout, Fits, Names, Phases, BeforeDispatch, AfterDispatch, AfterReview, Follows, ValidNext
    <3> QED
      BY <1>0, <1>6, <1>p, <2>1, <3>1, <3>8, WriteKeeps DEF ObserveTimeout
  <2>3. CASE ~adaptive
    <3>1. pc' = "review" /\ log' = log /\ ids' = ids
      BY <1>6, <2>3 DEF ObserveTimeout
    <3> QED
      BY <1>0, <1>6, <1>p, <2>1, <3>1, QuietKeeps
      DEF ObserveTimeout, BeforeDispatch, AfterDispatch, AfterReview
  <2> QED
    BY <2>2, <2>3
<1>7. CASE Review
  <2>1. <<"dispatch", iteration>> \in done /\ pc = "review"
    BY <1>7 DEF Review, LoopInv, Reached, AfterDispatch
  <2>2. CASE pc' = "review-failed" /\ decision' = decision /\ done' = done
    BY <1>0, <1>7, <1>p, <2>1, <2>2, QuietKeeps
    DEF Review, BeforeDispatch, AfterDispatch, AfterReview
  <2>3. CASE /\ decision' \in Decisions \cup {"absent", "empty"} /\ pc' = "reviewed"
             /\ done' = done \cup {<<"review", iteration>>}
                  \cup (IF decision' \in Decisions THEN {<<"decision", iteration>>} ELSE {})
    <3>1. \A i \in Nat : <<"dispatch", i>> \in done' => <<"dispatch", i>> \in done
      BY <2>3
    <3>2. <<"review", iteration>> \in done' /\ done \subseteq done'
          /\ (decision' \in Decisions => <<"decision", iteration>> \in done')
      BY <2>3
    <3>3. decision' # "none" /\ pc' = "reviewed" /\ decision' \in Decisions \cup {"none", "absent", "empty"}
      BY <2>3 DEF Decisions
    <3>4. <<"dispatch", iteration>> \in done'
      BY <2>1, <3>2
    <3>5. log' = log /\ ids' = ids /\ owner' = owner /\ iteration' = iteration
      BY <1>7 DEF Review
    <3>6. PhasesAt(pc) \subseteq PhasesAt(pc')
      BY <1>p, <2>1, <3>3
    <3>7. pc' \in AfterReview /\ pc' \in AfterDispatch /\ pc' \notin BeforeDispatch
      BY <3>3 DEF BeforeDispatch, AfterDispatch, AfterReview
    <3> QED
      BY <2>1, <3>1, <3>2, <3>3, <3>4, <3>5, <3>6, <3>7, QuietKeeps
  <2> QED
    BY <1>7, <2>2, <2>3 DEF Review
<1>8. CASE ReportReview
  <2>1. CASE pc = "review-failed" /\ Write("review_failed", "review", iteration, "exit")
    <3>1. Fits("review_failed", "review", iteration, "exit")
      BY <1>0, <1>8, <1>p, <2>1
      DEF ReportReview, Fits, Names, Phases, BeforeDispatch, AfterDispatch, AfterReview, Follows, ValidNext
    <3> QED
      BY <1>8, <2>1, <3>1, WriteKeeps DEF ReportReview
  <2>2. CASE pc = "reviewed" /\ Write("review_complete", "review", iteration, "extract")
    <3>1. /\ <<"dispatch", iteration>> \in done /\ <<"review", iteration>> \in done
          /\ decision # "none" /\ (decision \in Decisions => <<"decision", iteration>> \in done)
      BY <2>2 DEF LoopInv, Reached, AfterDispatch, AfterReview
    <3>8. Fits("review_complete", "review", iteration, "extract")
      BY <1>0, <1>8, <1>p, <2>2, <3>1
      DEF ReportReview, Fits, Names, Phases, BeforeDispatch, AfterDispatch, AfterReview, Follows, ValidNext
    <3> QED
      BY <1>0, <1>8, <1>p, <2>2, <3>1, <3>8, WriteKeeps DEF ReportReview
  <2> QED
    BY <1>8, <2>1, <2>2 DEF ReportReview
<1>9. CASE ExtractDecision
  <2>1. /\ pc = "extract" /\ <<"dispatch", iteration>> \in done /\ <<"review", iteration>> \in done
        /\ decision # "none" /\ (decision \in Decisions => <<"decision", iteration>> \in done)
    BY <1>9 DEF ExtractDecision, LoopInv, Reached, AfterDispatch, AfterReview
  <2>2. CASE decision = "absent"
    <3>1. Write("stop", "review", iteration, "exit")
      BY <1>9, <2>2 DEF ExtractDecision
    <3>8. Fits("stop", "review", iteration, "exit")
      BY <1>0, <1>9, <1>p, <2>1, <3>1
      DEF ExtractDecision, Fits, Names, Phases, BeforeDispatch, AfterDispatch, AfterReview, Follows, ValidNext
    <3> QED
      BY <1>0, <1>9, <1>p, <2>1, <3>1, <3>8, WriteKeeps DEF ExtractDecision
  <2>3. CASE decision = "empty"
    <3>1. Write("stop", "decision", iteration, "exit")
      BY <1>9, <2>3 DEF ExtractDecision
    <3>8. Fits("stop", "decision", iteration, "exit")
      BY <1>0, <1>9, <1>p, <2>1, <3>1
      DEF ExtractDecision, Fits, Names, Phases, BeforeDispatch, AfterDispatch, AfterReview, Follows, ValidNext
    <3> QED
      BY <1>0, <1>9, <1>p, <2>1, <3>1, <3>8, WriteKeeps DEF ExtractDecision
  <2>4. CASE decision \notin {"absent", "empty"}
    <3>1. Write("decision", "decision", iteration, "decided") /\ decision \in Decisions
      BY <1>0, <1>9, <2>1, <2>4 DEF ExtractDecision
    <3>8. Fits("decision", "decision", iteration, "decided")
      BY <1>0, <1>9, <1>p, <2>1, <3>1
      DEF ExtractDecision, Fits, Names, Phases, BeforeDispatch, AfterDispatch, AfterReview, Follows, ValidNext
    <3> QED
      BY <1>0, <1>9, <1>p, <2>1, <3>1, <3>8, WriteKeeps DEF ExtractDecision
  <2> QED
    BY <2>2, <2>3, <2>4
<1>10. CASE Revise
  <2>1. /\ pc = "decided" /\ iteration' = iteration + 1 /\ (Readable(log) => Decided)
        /\ owner' = owner /\ done' = done /\ decision' = decision
    BY <1>10 DEF Revise, LoopInv, RoundsAreDecided
  <2>2. CASE iteration + 1 > MaxIterations
    <3>1. Write("stop", "finalization", iteration, "exit")
      BY <1>10, <2>2 DEF Revise
    <3>2. iteration <= iteration' /\ iteration' \in {iteration, iteration + 1}
      BY <1>0, <2>1
    <3>8. Fits("stop", "finalization", iteration, "exit")
      BY <1>0, <1>p, <2>1, <3>1, <3>2
      DEF Fits, Names, Phases, BeforeDispatch, AfterDispatch, AfterReview, Follows, ValidNext
    <3> QED
      BY <1>0, <1>p, <2>1, <3>1, <3>2, <3>8, WriteKeeps DEF Revise
  <2>3. CASE ~(iteration + 1 > MaxIterations)
    <3>1. Write("revision_task_created", "decision", iteration + 1, "loop")
      BY <1>10, <2>3 DEF Revise
    <3>2. /\ iteration <= iteration + 1 /\ iteration + 1 <= iteration'
          /\ iteration' \in {iteration, iteration + 1} /\ <<"dispatch", iteration'>> \notin done
      BY <1>0, <1>t, <2>1
    <3>8. Fits("revision_task_created", "decision", iteration + 1, "loop")
      BY <1>0, <1>p, <2>1, <3>1, <3>2
      DEF Fits, Names, Phases, BeforeDispatch, AfterDispatch, AfterReview, Follows, ValidNext
    <3> QED
      BY <1>0, <1>p, <2>1, <3>1, <3>2, <3>8, WriteKeeps DEF Revise
  <2> QED
    BY <2>2, <2>3
<1>11. CASE Conclude
  <2>1. Write("stop", "finalization", iteration, "exit") /\ pc = "decided"
    BY <1>11 DEF Conclude
  <2>8. Fits("stop", "finalization", iteration, "exit")
    BY <1>0, <1>11, <1>p, <2>1
    DEF Conclude, Fits, Names, Phases, BeforeDispatch, AfterDispatch, AfterReview, Follows, ValidNext
  <2> QED
    BY <1>0, <1>11, <1>p, <2>1, <2>8, WriteKeeps DEF Conclude
<1>12. CASE Kill
  <2>1. PICK e \in Lines : TRUE
    <3>1. [event |-> "stop", phase |-> "setup", iteration |-> 0, id |-> 1, parent |-> 0] \in Lines
      BY DEF Lines, Names, Phases
    <3> QED
      BY <3>1
  <2>2. Len(log) \in Nat /\ (log = <<>> <=> Len(log) = 0)
    BY <1>0
  <2>3. Extended(e) /\ ~Grown
    <3>1. CASE log' = log
      BY <1>0, <1>12, <2>2, <3>1 DEF Kill, Extended, Grown
    <3>2. CASE log' = Append(log, Torn) /\ Readable(log)
      <4>1. /\ log' \in Seq(Lines \cup {Torn}) /\ Len(log') = Len(log) + 1
            /\ log'[Len(log) + 1] = Torn /\ \A i \in 1..Len(log) : log'[i] = log[i]
        BY <1>0, <3>2
      <4>2. ids' = ids
        BY <1>12 DEF Kill
      <4> QED
        BY <1>0, <2>2, <3>2, <4>1, <4>2 DEF Extended, Grown, IsEvent
    <3>3. log' = log \/ (log' = Append(log, Torn) /\ Readable(log))
      <4>1. log' = log \/ (log' = Append(log, Torn) /\ (log = <<>> \/ IsEvent(Last(log))))
        BY <1>12 DEF Kill, WriteLine
      <4>2. log = <<>> \/ IsEvent(Last(log)) => Readable(log)
        BY <1>0, <2>2 DEF LoopInv, LogShape, Last, Readable
      <4> QED
        BY <4>1, <4>2
    <3> QED
      BY <3>1, <3>2, <3>3
  <2>4. Fitting(e, "dead")
    BY <1>12, <2>3 DEF Kill, Fitting, BeforeDispatch, AfterDispatch, AfterReview
  <2> QED
    BY <1>12, <2>1, <2>3, <2>4, LogGrows DEF Kill
<1>13. CASE UNCHANGED vars
  BY <1>13 DEF vars, LoopInv, LoopTyped, LogShape, LinesAreTold, Told, Reached, RoundsAreDecided,
               Decided, PhasesFollow, EndPhase, PhasesAt
<1> QED
  BY <1>1, <1>2, <1>3, <1>4, <1>5, <1>6, <1>7, <1>8, <1>9, <1>10, <1>11, <1>12, <1>13 DEF Next

\* The invariant of the loop, for any number of iterations, failures of the log and kills.
THEOREM LoopInvariant == Spec => []LoopInv
<1> QED
  BY LoopInitially, LoopStepKeeps, PTL DEF Spec

\* The last number up to n is n.
LEMMA MaxOfInterval ==
  ASSUME NEW n \in Nat \ {0}
  PROVE  Max(1..n) = n
BY DEF Max

\* Some numbers up to n have a greatest.
LEMMA MaxExists ==
  ASSUME NEW n \in Nat, NEW T \in SUBSET (1..n), T # {}
  PROVE  \E m \in T : \A x \in T : x <= m
<1> DEFINE Gaps == {g \in Nat : \E x \in T : x + g = n}
<1>1. \A x \in T : x \in Nat /\ n - x \in Nat /\ x + (n - x) = n
  OBVIOUS
<1>2. Gaps \in SUBSET Nat /\ Gaps # {}
  BY <1>1
<1>3. PICK g \in Gaps : \A h \in Gaps : ~(h < g)
  <2> HIDE DEF Gaps
  <2> QED
    BY <1>2, LeastNatural
<1>4. PICK m \in T : m + g = n /\ g \in Nat
  OBVIOUS
<1>5. ASSUME NEW x \in T PROVE x <= m
  <2>1. n - x \in Gaps
    BY <1>1
  <2>2. ~(n - x < g)
    BY <1>3, <2>1
  <2> QED
    BY <1>1, <1>4, <2>2
<1> QED
  BY <1>5

\* In a log the readers accept an event is there twice only as the first two lines.
LEMMA ChainGrows ==
  ASSUME LoopInv, ChainHolds(log)
  PROVE  /\ Len(log) \in Nat \ {0} /\ log \in Seq(Lines)
         /\ \/ \A i, j \in 1..Len(log) : i < j => log[i].id < log[j].id
            \/ /\ 2 \in 1..Len(log) /\ log[2] = [log[1] EXCEPT !.parent = log[1].id]
               /\ \A i, j \in 2..Len(log) : i < j => log[i].id < log[j].id
<1> DEFINE n == Len(log)
<1>0. /\ log \in Seq(Lines \cup {Torn}) /\ n \in Nat /\ n # 0 /\ DOMAIN log = 1..n
  BY DEF LoopInv, LoopTyped, ChainHolds
<1>1. \A i \in 1..n : log[i] \in Lines /\ IsEvent(log[i]) /\ log[i].id \in Nat
  <2>1. \A i \in 1..n : log[i] \in Lines /\ IsEvent(log[i])
    BY <1>0 DEF ChainHolds, Readable, IsEvent
  <2>2. \A d \in Lines : d.id \in Nat
    BY DEF Lines
  <2> QED
    BY <2>1, <2>2
<1>2. log \in Seq(Lines)
  BY <1>0, <1>1
<1>3. \A i, j \in 1..n : i < j =>
        log[i].id < log[j].id \/ (j = i + 1 /\ log[j] = Twin(i = 1, log[i]))
  BY <1>1 DEF LoopInv, LogShape
<1>4. \A i \in 2..n : log[i].parent = log[i - 1].id
  BY <1>0 DEF ChainHolds
<1>5. ASSUME NEW i \in 2..n, NEW j \in 2..n, i < j
      PROVE  log[i].id < log[j].id
  <2> SUFFICES ASSUME ~(log[i].id < log[j].id) PROVE FALSE
    OBVIOUS
  <2>1. j = i + 1 /\ log[j] = log[i]
    BY <1>0, <1>3, <1>5 DEF Twin
  <2>2. log[j].parent = log[i].id /\ log[i].parent = log[i - 1].id
    BY <1>0, <1>4, <1>5, <2>1
  <2>3. log[i - 1].id < log[j].id
    BY <1>0, <1>3, <1>5, <2>1
  <2>4. log[i - 1] \in Lines /\ log[i - 1].id \in Nat
    BY <1>0, <1>1
  <2> QED
    BY <2>1, <2>2, <2>3, <2>4
<1>6. CASE n = 1
  BY <1>0, <1>2, <1>6
<1>7. CASE n # 1 /\ log[1].id < log[2].id
  <2>1. ASSUME NEW i \in 1..n, NEW j \in 1..n, i < j
        PROVE  log[i].id < log[j].id
    <3>1. CASE i # 1
      BY <1>0, <1>5, <2>1, <3>1
    <3>2. CASE i = 1
      <4>1. j # i + 1 \/ j = 2
        BY <3>2
      <4> QED
        BY <1>0, <1>3, <1>7, <2>1, <3>2, <4>1
    <3> QED
      BY <3>1, <3>2
  <2> QED
    BY <1>0, <1>2, <2>1
<1>8. CASE n # 1 /\ ~(log[1].id < log[2].id)
  <2>1. 1 \in 1..n /\ 2 \in 1..n
    BY <1>0, <1>8
  <2>2. log[2] = [log[1] EXCEPT !.parent = log[1].id]
    BY <1>3, <1>8, <2>1 DEF Twin
  <2> QED
    BY <1>0, <1>2, <1>5, <2>1, <2>2
<1> QED
  BY <1>6, <1>7, <1>8

\* Ids that grow are as many as their lines.
LEMMA DistinctIds ==
  ASSUME NEW a \in 1..2, Len(log) \in Nat, a <= Len(log), Readable(log),
         log \in Seq(Lines),
         \A i, j \in a..Len(log) : i < j => log[i].id < log[j].id,
         a = 2 => log[1].id = log[2].id
  PROVE  Cardinality(Ids(log)) = Len(log) - a + 1
<1> DEFINE n == Len(log)
           f == [i \in a..n |-> log[i].id]
<1>1. \A i \in 1..n : log[i].id \in Nat
  <2>1. \A i \in 1..n : log[i] \in Lines
    OBVIOUS
  <2> QED
    BY <2>1 DEF Lines
<1>2. Ids(log) = {log[i].id : i \in 1..n}
  BY DEF Ids, Readable
<1>3. Ids(log) = {log[i].id : i \in a..n}
  <2>1. CASE a = 1
    BY <1>2, <2>1
  <2>2. CASE a = 2
    <3>1. 2 \in 2..n /\ log[1].id = log[2].id
      BY <2>2
    <3>2. \A i \in 1..n : i = 1 \/ i \in 2..n
      OBVIOUS
    <3> QED
      BY <1>2, <2>2, <3>1, <3>2
  <2> QED
    BY <2>1, <2>2
<1>4. f \in Bijection(a..n, Ids(log))
  <2>1. \A i, j \in a..n : i # j => f[i] # f[j]
    <3>1. \A i, j \in a..n : i \in 1..n /\ j \in 1..n /\ (i # j => i < j \/ j < i)
      OBVIOUS
    <3> QED
      BY <1>1, <3>1
  <2>2. f \in [a..n -> Ids(log)] /\ \A x \in Ids(log) : \E i \in a..n : f[i] = x
    BY <1>3
  <2> HIDE DEF f, n
  <2> QED
    BY <2>1, <2>2 DEF Bijection, Injection, Surjection, IsInjective
<1>5. IsFiniteSet(a..n) /\ Cardinality(a..n) = n - a + 1
  <2>1. a \in Int /\ n \in Int /\ ~(a > n)
    OBVIOUS
  <2> HIDE DEF n
  <2> QED
    BY <2>1, FS_Interval
<1>6. Cardinality(Ids(log)) = Cardinality(a..n)
  <2> HIDE DEF f, n
  <2> QED
    BY <1>4, <1>5, FS_Bijection DEF ExistsBijection
<1> QED
  BY <1>5, <1>6

\* The readers of the log understand it alike: see LogIsUnderstood.
THEOREM LogIsAlwaysUnderstood == Spec => []LogIsUnderstood
<1>1. LoopInv => LogIsUnderstood
  <2> SUFFICES ASSUME LoopInv PROVE LogIsUnderstood
    OBVIOUS
  <2>0. log \in Seq(Lines \cup {Torn}) /\ Len(log) \in Nat /\ DOMAIN log = 1..Len(log)
    BY DEF LoopInv, LoopTyped
  <2>1. owner = "claude-builder" => ReplayIsValid(log)
    <3> SUFFICES ASSUME owner = "claude-builder", NEW j \in 1..Len(log), IsEvent(log[j]),
                        NEW before, before = {i \in 1..(j - 1) : IsEvent(log[i])}
                 PROVE  Follows(IF before = {} THEN "setup" ELSE log[Max(before)].phase,
                                log[j].phase)
      BY <2>0 DEF ReplayIsValid
    <3>1. before = 1..(j - 1)
      BY <2>0 DEF LoopInv, LogShape
    <3>2. Follows(IF j = 1 THEN "setup" ELSE log[j - 1].phase, log[j].phase)
      BY DEF LoopInv, PhasesFollow
    <3>3. CASE j = 1
      BY <3>1, <3>2, <3>3
    <3>4. CASE j # 1
      <4>1. j - 1 \in Nat \ {0}
        BY <2>0, <3>4
      <4>2. Max(1..(j - 1)) = j - 1
        BY <4>1, MaxOfInterval
      <4>3. before # {}
        <5>1. 1 \in 1..(j - 1)
          BY <4>1
        <5> QED
          BY <3>1, <5>1
      <4> QED
        BY <3>1, <3>2, <3>4, <4>2, <4>3
    <3> QED
      BY <3>3, <3>4
  <2>2. ASSUME ResumeIsSafe(log, FALSE)
        PROVE  \/ LogIsValid(log)
               \/ /\ log[2] = [log[1] EXCEPT !.parent = log[1].id]
                  /\ Cardinality(Ids(log)) = Len(log) - 1
    <3>1. ChainHolds(log) /\ Readable(log)
      BY <2>2 DEF ResumeIsSafe, ChainHolds
    <3>2. Len(log) \in Nat \ {0} /\ log \in Seq(Lines)
      BY <3>1, ChainGrows
    <3>3. CASE \A i, j \in 1..Len(log) : i < j => log[i].id < log[j].id
      <4>1. Cardinality(Ids(log)) = Len(log)
        <5>1. Cardinality(Ids(log)) = Len(log) - 1 + 1
          BY <3>1, <3>2, <3>3, DistinctIds
        <5> QED
          BY <3>2, <5>1
      <4>2. ASSUME NEW i \in 1..Len(log), log[i].parent # None
            PROVE  LineOf(log, log[i].parent) \in 1..(i - 1)
        <5> DEFINE I == {k \in 1..Len(log) : IsEvent(log[k]) /\ log[k].id = log[i].parent}
        <5>1. i # 1 /\ i - 1 \in 1..Len(log) /\ log[i].parent = log[i - 1].id
          BY <2>0, <3>1, <4>2 DEF ChainHolds
        <5>2. \A k \in 1..Len(log) : log[k].id = log[i - 1].id => k = i - 1
          <6>1. \A k \in 1..Len(log) : log[k].id \in Nat
            <7>1. \A k \in 1..Len(log) : log[k] \in Lines
              BY <3>2
            <7> QED
              BY <7>1 DEF Lines
          <6>2. \A k \in 1..Len(log) : k = i - 1 \/ k < i - 1 \/ i - 1 < k
            BY <3>2
          <6> QED
            BY <3>3, <5>1, <6>1, <6>2
        <5>3. I = {i - 1}
          BY <2>0, <3>1, <5>1, <5>2 DEF Readable
        <5> HIDE DEF I
        <5>4. I # {} /\ Max(I) = i - 1
          BY <5>1, <5>3 DEF Max
        <5>5. LineOf(log, log[i].parent) = IF I # {} THEN Max(I) ELSE 0
          BY DEF LineOf, SelectLastInSeq, I
        <5> QED
          BY <5>1, <5>4, <5>5
      <4> QED
        BY <2>0, <3>1, <4>1, <4>2 DEF LogIsValid
    <3>4. CASE /\ 2 \in 1..Len(log) /\ log[2] = [log[1] EXCEPT !.parent = log[1].id]
               /\ \A i, j \in 2..Len(log) : i < j => log[i].id < log[j].id
      <4>1. log[1].id = log[2].id
        <5>1. log[1] \in Lines
          BY <3>2
        <5>2. [log[1] EXCEPT !.parent = log[1].id].id = log[1].id
          BY <5>1 DEF Lines
        <5> QED
          BY <3>4, <5>2
      <4>2. Cardinality(Ids(log)) = Len(log) - 2 + 1
        BY <3>1, <3>2, <3>4, <4>1, DistinctIds
      <4> QED
        BY <3>2, <3>4, <4>2
    <3> QED
      BY <3>1, <3>3, <3>4, ChainGrows
  <2> QED
    BY <2>1, <2>2 DEF LogIsUnderstood
<1> QED
  BY <1>1, LoopInvariant, PTL

\* A loop is resumed from where it had come: see ResumePointWasReached.
THEOREM ResumePointIsReached == Spec => []ResumePointWasReached
<1>1. LoopInv => ResumePointWasReached
  <2> DEFINE type == ResumeType(log, FALSE)
             latest == LatestIteration(log)
             named == {i \in DOMAIN log : log[i].iteration # None}
             Logged(name) == \E i \in 1..Len(log) : log[i].event = name
  <2> SUFFICES ASSUME LoopInv, ResumeIsSafe(log, FALSE)
               PROVE  /\ type \in {"resume-from-dispatch", "resume-from-review"} =>
                           <<"dispatch", latest>> \in done
                      /\ type = "resume-from-review" /\ ~Has(log, "review_failed") =>
                           <<"review", latest>> \in done
                      /\ type = "resume-from-partial-diff" => <<"dispatch", latest>> \notin done
                      /\ type = "resume-from-decision" =>
                           \E i \in 1..latest : <<"decision", i>> \in done
    BY DEF ResumePointWasReached
  <2>0. /\ log \in Seq(Lines \cup {Torn}) /\ Len(log) \in Nat /\ DOMAIN log = 1..Len(log)
        /\ Readable(log)
    BY DEF LoopInv, LoopTyped, ResumeIsSafe, ChainHolds
  <2>1. \A i \in 1..Len(log) : /\ IsEvent(log[i]) /\ log[i] \in Lines /\ Told(log[i])
                               /\ log[i].event \in Names /\ log[i].iteration \in Nat
    <3>1. \A i \in 1..Len(log) : IsEvent(log[i]) /\ log[i] \in Lines
      BY <2>0 DEF Readable, IsEvent
    <3>2. \A d \in Lines : d.event \in Names /\ d.iteration \in Nat
      BY DEF Lines
    <3> QED
      BY <3>1, <3>2 DEF LoopInv, LinesAreTold
  <2>2. \A name \in Names : Has(log, name) <=> Logged(name)
    BY <2>0 DEF Has
  <2>3. ~Has(log, "run_complete")
    BY <2>0, <2>1 DEF Has, Names
  \* An event that names its iteration is not behind the newest.
  <2>4. ASSUME NEW i \in 1..Len(log), log[i].iteration # None
        PROVE  latest \in Nat /\ log[i].iteration <= latest /\ latest <= iteration
               /\ \E k \in 1..Len(log) : latest = log[k].iteration /\ latest # None
    <3>1. named \in SUBSET (1..Len(log)) /\ i \in named
      BY <2>0, <2>4
    <3>2. \E k \in named : \A j \in named : j <= k
      <4> HIDE DEF named
      <4> QED
        BY <2>0, <3>1, MaxExists
    <3>3. PICK k \in named : /\ \A j \in named : j <= k
                             /\ k = CHOOSE m \in named : \A j \in named : j <= m
      <4> HIDE DEF named
      <4> QED
        BY <3>2
    <3>4. latest = log[k].iteration
      BY <3>1, <3>3 DEF LatestIteration
    <3>5. k \in 1..Len(log) /\ log[k].iteration # None /\ (i < k \/ i = k)
      BY <2>0, <3>1, <3>3
    <3>6. log[i].iteration <= log[k].iteration
      <4>1. CASE i < k
        BY <2>1, <2>4, <3>5, <4>1 DEF LoopInv, LogShape
      <4>2. CASE i = k
        BY <2>1, <4>2
      <4> QED
        BY <3>5, <4>1, <4>2
    <3>7. log[k].iteration <= iteration
      BY <2>1, <3>5 DEF Told
    <3> QED
      BY <2>1, <3>4, <3>5, <3>6, <3>7
  \* Before the first decision there is but one iteration.
  <2>5. ASSUME ~Logged("decision"), NEW i \in 1..Len(log), log[i].iteration # None
        PROVE  log[i].iteration = latest
    <3>1. iteration = 1
      BY <2>0, <2>5 DEF LoopInv, RoundsAreDecided, Decided
    <3>2. log[i].iteration \in Nat /\ latest \in Nat /\ latest <= 1 /\ log[i].iteration <= latest
          /\ latest # None
      BY <2>1, <2>4, <2>5, <3>1
    <3> QED
      BY <2>5, <3>2 DEF None
  <2>6. CASE type = "resume-from-decision"
    <3>1. Logged("decision")
      BY <2>2, <2>3, <2>6 DEF ResumeType, Names
    <3>2. PICK i \in 1..Len(log) : log[i].event = "decision"
      BY <3>1
    <3>3. log[i].iteration # None /\ <<"decision", log[i].iteration>> \in done
      BY <2>1, <3>2 DEF Told
    <3>4. log[i].iteration \in 1..latest
      BY <2>1, <2>4, <3>3 DEF None
    <3> QED
      BY <2>6, <3>3, <3>4
  <2>7. CASE type # "resume-from-decision"
    <3>1. ~Logged("decision")
      BY <2>2, <2>7 DEF ResumeType, Names
    <3>2. type \in {"resume-from-dispatch", "resume-from-review"} =>
            Logged("review_complete") \/ Logged("dispatch_complete")
      BY <2>2 DEF ResumeType, Names
    <3>3. ASSUME NEW i \in 1..Len(log),
                 log[i].event \in {"review_complete", "dispatch_complete"}
          PROVE  /\ <<"dispatch", latest>> \in done
                 /\ log[i].event = "review_complete" => <<"review", latest>> \in done
      BY <2>1, <2>5, <3>1, <3>3 DEF Told
    <3>4. type = "resume-from-review" /\ ~Has(log, "review_failed") => Logged("review_complete")
      BY <2>2 DEF ResumeType, Names
    <3>5. type = "resume-from-partial-diff" => Logged("dispatch_incomplete")
      BY <2>2 DEF ResumeType, Names
    <3>6. ASSUME NEW i \in 1..Len(log), log[i].event = "dispatch_incomplete"
          PROVE  <<"dispatch", latest>> \notin done
      BY <2>1, <2>5, <3>1, <3>6 DEF Told
    <3> HIDE DEF type, latest
    <3> QED
      BY <2>7, <3>2, <3>3, <3>4, <3>5, <3>6
  <2> QED
    BY <2>6, <2>7
<1> QED
  BY <1>1, LoopInvariant, PTL

-----------------------------------------------------------------------------
(* The inductive invariant: whatever is or was the installed skill is complete, and  *)
(* while there is none, someone who has not activated a new one has the last backup.  *)

Steps == {"new", "unchanged", "copy", "staged", "activate", "activated", "rollback",
          "cleanup", "installed", "failed"}

UpdaterStates ==
  [at : Steps, todo : Seq(Files), tree : Trees, from : Nat, saw : BOOLEAN]

Typed ==
  /\ source \in [tree : Trees, head : Nat]
  /\ skill \in Skills \cup {Absent}
  /\ backup \in [Updaters -> Skills \cup {Absent}]
  /\ updater \in [Updaters -> UpdaterStates]

OnlyComplete ==
  /\ skill # Absent => Complete(skill.tree)
  /\ \A u \in Updaters : backup[u] # Absent => Complete(backup[u].tree)
  /\ \A u \in Updaters : At(u) \in {"staged", "activate"} => Complete(updater[u].tree)

KeptBackup == \E u \in Updaters : backup[u] # Absent /\ At(u) # "activated"
Kept == installed => skill # Absent \/ KeptBackup

SkillInv == Typed /\ OnlyComplete /\ Kept

\* The code begins with a whole skill, or with none.
LEMMA SkillInitHolds == SkillInit => SkillInv
<1> SUFFICES ASSUME SkillInit PROVE SkillInv
  OBVIOUS
<1>1. [f \in Files |-> 1] \in Trees /\ Missing \in Trees
  BY DEF Trees, Missing
<1>2. Complete([f \in Files |-> 1])
  BY SkillAssumption DEF Complete
<1>3. ASSUME NEW u \in Updaters PROVE updater[u] \in UpdaterStates /\ updater[u].at = "new"
  <2> DEFINE begun == [at |-> "new", todo |-> << >>, tree |-> Missing, from |-> 0, saw |-> FALSE]
  <2>1. begun \in UpdaterStates /\ begun.at = "new"
    BY <1>1 DEF UpdaterStates, Steps
  <2>2. updater[u] = begun
    BY DEF SkillInit
  <2> HIDE DEF begun
  <2>3. QED
    BY <2>1, <2>2
<1>4. updater \in [Updaters -> UpdaterStates]
  BY <1>3 DEF SkillInit
<1>5. [tree |-> [f \in Files |-> 1], from |-> 1] \in Skills
  BY <1>1 DEF Skills
<1>6. Typed
  BY <1>1, <1>4, <1>5 DEF SkillInit, Typed
<1>7. OnlyComplete
  BY <1>2, <1>3 DEF SkillInit, OnlyComplete, At
<1>8. QED
  BY <1>6, <1>7 DEF SkillInit, SkillInv, Kept

\* A move to another step changes nothing else of an updater.
LEMMA GotoIsTyped ==
  ASSUME Typed, NEW u \in Updaters, NEW to \in Steps, Goto(u, to)
  PROVE  updater' \in [Updaters -> UpdaterStates]
<1>1. [updater[u] EXCEPT !.at = to] \in UpdaterStates
  BY DEF Typed, UpdaterStates
<1>2. QED
  BY <1>1 DEF Typed, Goto

\* Nor of the others.
LEMMA GotoMoves ==
  ASSUME Typed, NEW u \in Updaters, NEW to \in Steps, Goto(u, to)
  PROVE  \A v \in Updaters : /\ updater'[v].tree = updater[v].tree
                             /\ updater'[v].at = IF v = u THEN to ELSE updater[v].at
<1>1. updater'[u].tree = updater[u].tree /\ updater'[u].at = to
  BY DEF Typed, UpdaterStates, Goto
<1>2. QED
  BY <1>1 DEF Typed, Goto

\* What an updater does before it touches the skill, seen by the properties.
LEMMA StagingMoves ==
  ASSUME Typed, NEW u \in Updaters, StartUpdate(u) \/ CopyFile(u) \/ Stage(u)
  PROVE  /\ \A v \in Updaters \ {u} : updater'[v] = updater[v]
         /\ updater'[u].at \in {"unchanged", "copy", "staged", "cleanup"}
         /\ updater'[u].at = "staged" => Complete(updater'[u].tree)
<1>1. updater[u] \in UpdaterStates
  BY DEF Typed
<1>2. CASE StartUpdate(u)
  BY <1>1, <1>2 DEF StartUpdate, Typed, UpdaterStates
<1>3. CASE CopyFile(u)
  BY <1>1, <1>3 DEF CopyFile, At, Typed, UpdaterStates
<1>4. CASE Stage(u)
  BY <1>1, <1>4 DEF Stage, Valid, Typed, UpdaterStates
<1>5. QED
  BY <1>2, <1>3, <1>4

\* Every copy, move and rollback handles trees of the package's files.
LEMMA TypedIsKept == SkillInv /\ [SkillStep]_skillVars => Typed'
<1> SUFFICES ASSUME Typed, [SkillStep]_skillVars PROVE Typed'
  BY DEF SkillInv
<1>1. CASE Pull
  <2>1. PICK gone \in {{}} \cup {{f} : f \in Required} :
          source' = [tree |-> [f \in Files |-> IF f \in gone THEN 0 ELSE source.head + 1],
                     head |-> source.head + 1]
    BY <1>1 DEF Pull
  <2>2. source.head + 1 \in Nat
    BY DEF Typed
  <2>3. [f \in Files |-> IF f \in gone THEN 0 ELSE source.head + 1] \in Trees
    BY <2>2 DEF Trees
  <2>4. source' \in [tree : Trees, head : Nat]
    BY <2>1, <2>2, <2>3
  <2>5. QED
    BY <1>1, <2>4 DEF Pull, Typed
<1>2. ASSUME NEW u \in Updaters, StartUpdate(u) PROVE Typed'
  <2> DEFINE to == IF skill # Absent /\ skill.tree = source.tree THEN "unchanged" ELSE "copy"
  <2>1. to \in Steps /\ Package \in Seq(Files)
    BY SkillAssumption DEF Steps
  <2>2. updater' = [updater EXCEPT ![u] = [updater[u] EXCEPT !.at = to, !.todo = Package]]
    BY <1>2 DEF StartUpdate
  <2> HIDE DEF to
  <2>3. [updater[u] EXCEPT !.at = to, !.todo = Package] \in UpdaterStates
    BY <2>1 DEF Typed, UpdaterStates
  <2>4. QED
    BY <1>2, <2>2, <2>3 DEF StartUpdate, Typed
<1>3. ASSUME NEW u \in Updaters, RewriteProvenance(u) PROVE Typed'
  <2>1. updater' \in [Updaters -> UpdaterStates]
    BY <1>3, GotoIsTyped DEF Steps, RewriteProvenance
  <2>2. skill' \in Skills \cup {Absent}
    BY <1>3 DEF RewriteProvenance, Typed, Skills
  <2>3. QED
    BY <1>3, <2>1, <2>2 DEF RewriteProvenance, Typed
<1>4. ASSUME NEW u \in Updaters, CopyFile(u) PROVE Typed'
  <2> DEFINE f == Head(updater[u].todo)
             tree == [updater[u].tree EXCEPT ![f] = source.tree[f]]
             r == [updater[u] EXCEPT !.todo = Tail(@), !.tree = tree]
  <2>1. updater[u] \in UpdaterStates /\ updater[u].todo # <<>>
    BY <1>4 DEF CopyFile, Typed
  <2>2. updater[u].todo \in Seq(Files) /\ updater[u].tree \in Trees
    BY <2>1 DEF UpdaterStates
  <2>3. f \in Files /\ Tail(updater[u].todo) \in Seq(Files)
    BY <2>1, <2>2
  <2>4. source.tree[f] \in Nat
    BY <2>3 DEF Typed, Trees
  <2>5. tree \in Trees
    BY <2>2, <2>4 DEF Trees
  <2>6. updater' = [updater EXCEPT ![u] = r]
    BY <1>4 DEF CopyFile
  <2> HIDE DEF f, tree
  <2>7. r \in UpdaterStates
    BY <2>1, <2>3, <2>5 DEF UpdaterStates
  <2> HIDE DEF r
  <2>8. QED
    BY <1>4, <2>6, <2>7 DEF CopyFile, Typed
<1>5. ASSUME NEW u \in Updaters, Stage(u) PROVE Typed'
  <2> DEFINE to == IF Valid(updater[u].tree) THEN "staged" ELSE "cleanup"
             saw == skill # Absent
             r == [updater[u] EXCEPT !.at = to, !.from = source.head, !.saw = saw]
  <2>1. to \in Steps
    BY DEF Steps
  <2>2. saw \in BOOLEAN
    OBVIOUS
  <2>3. source.head \in Nat
    BY DEF Typed
  <2>4. updater' = [updater EXCEPT ![u] = r]
    BY <1>5 DEF Stage
  <2> HIDE DEF to, saw
  <2>5. r \in UpdaterStates
    BY <2>1, <2>2, <2>3 DEF Typed, UpdaterStates
  <2> HIDE DEF r
  <2>6. UNCHANGED <<source, skill, backup>>
    BY <1>5 DEF Stage
  <2>7. QED
    BY <2>4, <2>5, <2>6 DEF Typed
<1>6. ASSUME NEW u \in Updaters, MoveAway(u) \/ Rollback(u) PROVE Typed'
  <2>1. updater' \in [Updaters -> UpdaterStates]
    BY <1>6, GotoIsTyped DEF Steps, MoveAway, Rollback
  <2>2. QED
    BY <1>6, <2>1 DEF MoveAway, Rollback, Typed
<1>7. ASSUME NEW u \in Updaters, Activate(u) \/ ActivateFails(u) PROVE Typed'
  <2>1. updater' \in [Updaters -> UpdaterStates]
    BY <1>7, GotoIsTyped DEF Steps, Activate, ActivateFails
  <2>2. updater[u].tree \in Trees /\ updater[u].from \in Nat
    BY DEF Typed, UpdaterStates
  <2>3. skill' \in Skills \cup {Absent}
    BY <1>7, <2>2 DEF Activate, ActivateFails, Typed, Skills
  <2>4. QED
    BY <1>7, <2>1, <2>3 DEF Activate, ActivateFails, Typed
<1>8. ASSUME NEW u \in Updaters, Cleanup(u) PROVE Typed'
  <2> DEFINE r == [at |-> IF At(u) = "activated" THEN "installed" ELSE "failed",
                   todo |-> <<>>, tree |-> Missing, from |-> 0, saw |-> FALSE]
  <2>1. Missing \in Trees
    BY DEF Missing, Trees
  <2>2. r \in UpdaterStates
    BY <2>1 DEF UpdaterStates, Steps
  <2>3. updater' = [updater EXCEPT ![u] = r]
    BY <1>8 DEF Cleanup
  <2> HIDE DEF r
  <2>4. QED
    BY <1>8, <2>2, <2>3 DEF Cleanup, Typed
<1>9. CASE UNCHANGED skillVars
  BY <1>9 DEF skillVars, Typed
<1>10. QED
  BY <1>1, <1>2, <1>3, <1>4, <1>5, <1>6, <1>7, <1>8, <1>9 DEF SkillStep

\* A tree is validated before it is moved in the place of the skill, and only what was
\* the skill becomes a backup.
LEMMA OnlyCompleteIsKept == SkillInv /\ [SkillStep]_skillVars => OnlyComplete'
<1> SUFFICES ASSUME Typed, OnlyComplete, [SkillStep]_skillVars PROVE OnlyComplete'
  BY DEF SkillInv
<1>1. CASE Pull
  BY <1>1 DEF Pull, OnlyComplete, At
<1>2. ASSUME NEW u \in Updaters, StartUpdate(u) \/ CopyFile(u) \/ Stage(u)
      PROVE  OnlyComplete'
  <2>1. UNCHANGED <<skill, backup>>
    BY <1>2 DEF StartUpdate, CopyFile, Stage
  <2>2. QED
    BY <1>2, <2>1, StagingMoves DEF OnlyComplete, At
<1>3. ASSUME NEW u \in Updaters, RewriteProvenance(u) PROVE OnlyComplete'
  <2>1. \A v \in Updaters : At(v)' \in {"staged", "activate"} =>
          At(v) \in {"staged", "activate"} /\ updater'[v].tree = updater[v].tree
    BY <1>3, GotoMoves DEF RewriteProvenance, Steps, At
  <2>2. skill' # Absent => skill # Absent /\ skill'.tree = skill.tree
    BY <1>3 DEF RewriteProvenance, Typed, Skills
  <2>3. QED
    BY <1>3, <2>1, <2>2 DEF RewriteProvenance, OnlyComplete
<1>4. ASSUME NEW u \in Updaters, MoveAway(u) PROVE OnlyComplete'
  <2>1. \A v \in Updaters : At(v)' \in {"staged", "activate"} =>
          At(v) \in {"staged", "activate"} /\ updater'[v].tree = updater[v].tree
    BY <1>4, GotoMoves DEF MoveAway, Steps, At
  <2>2. QED
    BY <1>4, <2>1 DEF MoveAway, OnlyComplete, Typed
<1>5. ASSUME NEW u \in Updaters, Activate(u) PROVE OnlyComplete'
  <2>1. \A v \in Updaters : At(v)' \in {"staged", "activate"} =>
          At(v) \in {"staged", "activate"} /\ updater'[v].tree = updater[v].tree
    BY <1>5, GotoMoves DEF Activate, Steps, At
  <2>2. skill'.tree = updater[u].tree
    BY <1>5 DEF Activate
  <2>3. QED
    BY <1>5, <2>1, <2>2 DEF Activate, OnlyComplete
<1>6. ASSUME NEW u \in Updaters, ActivateFails(u) \/ Rollback(u) PROVE OnlyComplete'
  <2>1. \A v \in Updaters : At(v)' \in {"staged", "activate"} =>
          At(v) \in {"staged", "activate"} /\ updater'[v].tree = updater[v].tree
    BY <1>6, GotoMoves DEF ActivateFails, Rollback, Steps, At
  <2>2. QED
    BY <1>6, <2>1 DEF ActivateFails, Rollback, OnlyComplete, Typed
<1>7. ASSUME NEW u \in Updaters, Cleanup(u) PROVE OnlyComplete'
  <2>1. \A v \in Updaters : At(v)' \in {"staged", "activate"} =>
          At(v) \in {"staged", "activate"} /\ updater'[v].tree = updater[v].tree
    BY <1>7 DEF Cleanup, Typed, At
  <2>2. \A v \in Updaters : backup'[v] \in {backup[v], Absent}
    BY <1>7 DEF Cleanup, Typed
  <2>3. QED
    BY <1>7, <2>1, <2>2 DEF Cleanup, OnlyComplete
<1>8. CASE UNCHANGED skillVars
  BY <1>8 DEF skillVars, OnlyComplete, At
<1>9. QED
  BY <1>1, <1>2, <1>3, <1>4, <1>5, <1>6, <1>7, <1>8 DEF SkillStep

\* A backup is removed by the updater that activated a new skill, and a skill only
\* disappears into a backup of one that has not.
LEMMA KeptIsKept == SkillInv /\ [SkillStep]_skillVars => Kept'
<1> SUFFICES ASSUME Typed, Kept, [SkillStep]_skillVars PROVE Kept'
  BY DEF SkillInv
<1>1. CASE Pull
  BY <1>1 DEF Pull, Kept, KeptBackup, At
<1>2. ASSUME NEW u \in Updaters, StartUpdate(u) \/ CopyFile(u) \/ Stage(u)
      PROVE  Kept'
  <2>1. UNCHANGED <<skill, backup, installed>>
    BY <1>2 DEF StartUpdate, CopyFile, Stage
  <2>2. QED
    BY <1>2, <2>1, StagingMoves DEF Kept, KeptBackup, At
<1>3. ASSUME NEW u \in Updaters, RewriteProvenance(u) PROVE Kept'
  <2>1. \A v \in Updaters : At(v) # "activated" => At(v)' # "activated"
    BY <1>3, GotoMoves DEF RewriteProvenance, Steps, At
  <2>2. skill # Absent => skill' # Absent
    BY <1>3, SkillAssumption DEF RewriteProvenance, Typed, Skills
  <2>3. QED
    BY <1>3, <2>1, <2>2 DEF RewriteProvenance, Kept, KeptBackup
<1>4. ASSUME NEW u \in Updaters, MoveAway(u) PROVE Kept'
  <2>1. \A v \in Updaters : At(v) # "activated" => At(v)' # "activated"
    BY <1>4, GotoMoves DEF MoveAway, Steps, At
  <2>2. At(u) # "activated"
    BY <1>4 DEF MoveAway
  <2>3. CASE UNCHANGED <<skill, backup>>
    BY <1>4, <2>1, <2>3 DEF MoveAway, Kept, KeptBackup
  <2>4. CASE skill # Absent /\ backup' = [backup EXCEPT ![u] = skill]
    BY <2>1, <2>2, <2>4 DEF Typed, Kept, KeptBackup
  <2>5. QED
    BY <1>4, <2>3, <2>4 DEF MoveAway
<1>5. ASSUME NEW u \in Updaters, Activate(u) PROVE Kept'
  <2>1. updater[u].tree \in Trees /\ updater[u].from \in Nat
    BY DEF Typed, UpdaterStates
  <2>2. skill' \in Skills
    BY <1>5, <2>1 DEF Activate, Skills
  <2>3. QED
    BY <2>2, SkillAssumption DEF Kept
<1>6. ASSUME NEW u \in Updaters, ActivateFails(u) \/ Rollback(u) PROVE Kept'
  <2>1. \A v \in Updaters : At(v) # "activated" => At(v)' # "activated"
    BY <1>6, GotoMoves DEF ActivateFails, Rollback, Steps, At
  <2>2. QED
    BY <1>6, <2>1 DEF ActivateFails, Rollback, Kept, KeptBackup
<1>7. ASSUME NEW u \in Updaters, Cleanup(u) PROVE Kept'
  <2>1. \A v \in Updaters : At(v) # "activated" => At(v)' # "activated"
    BY <1>7 DEF Cleanup, Typed, At
  <2>2. \A v \in Updaters : At(v) # "activated" => backup'[v] = backup[v]
    BY <1>7 DEF Cleanup, BackupConsumed, Typed
  <2>3. QED
    BY <1>7, <2>1, <2>2 DEF Cleanup, Kept, KeptBackup
<1>8. CASE UNCHANGED skillVars
  BY <1>8 DEF skillVars, Kept, KeptBackup, At
<1>9. QED
  BY <1>1, <1>2, <1>3, <1>4, <1>5, <1>6, <1>7, <1>8 DEF SkillStep

\* For any number of updaters, files and releases: once a skill was installed, a whole
\* one is installed or waits in a backup directory.
THEOREM SkillStaysRecoverable == SkillSpec => []SkillIsRecoverable
<1>1. SkillInv => SkillIsRecoverable
  BY DEF SkillInv, OnlyComplete, Kept, KeptBackup, SkillIsRecoverable
<1>2. QED
  BY <1>1, SkillInitHolds, TypedIsKept, OnlyCompleteIsKept, KeptIsKept, PTL
  DEF SkillSpec, SkillInv

-----------------------------------------------------------------------------
(* The lines of a project's documents.                                      *)

LEMMA LinesAreTyped ==
  /\ Begin \in DocLines /\ End \in DocLines /\ Title \in DocLines /\ Import \in DocLines
  /\ Text \in DocLines
  /\ Begin # End /\ Title \notin {Begin, End} /\ Import \notin {Begin, End}
  /\ Text \notin {Begin, End}
  /\ ~IsOwn(Begin) /\ ~IsOwn(End) /\ ~IsOwn(Import)
  /\ \A v \in Nat : /\ Block(v) \in DocLines /\ Block(v) \notin {Begin, End}
                    /\ ~IsOwn(Block(v)) /\ Block(v).kind = "block"
BY DEF Begin, End, Title, Import, Text, Line, Block, DocLines, IsOwn

\* Two parts of a file.
LEMMA Parts ==
  ASSUME NEW f \in Seq(DocLines), NEW n \in 0..Len(f)
  PROVE  /\ Upto(f, n) \in Seq(DocLines) /\ Len(Upto(f, n)) = n
         /\ \A i \in 1..n : Upto(f, n)[i] = f[i]
         /\ After(f, n) \in Seq(DocLines) /\ Len(After(f, n)) = Len(f) - n
         /\ \A i \in 1..(Len(f) - n) : After(f, n)[i] = f[n + i]
<1>1. Len(f) \in Nat /\ n \in Nat
  OBVIOUS
<1>2. SubSeq(f, 1, n) \in Seq(DocLines) /\ Len(SubSeq(f, 1, n)) = n
  BY <1>1
<1>3. \A i \in 1..n : SubSeq(f, 1, n)[i] = f[i]
  BY <1>1
<1>4. SubSeq(f, n + 1, Len(f)) \in Seq(DocLines) /\ Len(SubSeq(f, n + 1, Len(f))) = Len(f) - n
  BY <1>1
<1>5. \A i \in 1..(Len(f) - n) : SubSeq(f, n + 1, Len(f))[i] = f[n + i]
  BY <1>1
<1> QED BY <1>2, <1>3, <1>4, <1>5 DEF Upto, After

\* A concatenation, element by element.
LEMMA Joined ==
  ASSUME NEW a \in Seq(DocLines), NEW b \in Seq(DocLines)
  PROVE  /\ a \o b \in Seq(DocLines) /\ Len(a \o b) = Len(a) + Len(b)
         /\ \A i \in 1..Len(a) : (a \o b)[i] = a[i]
         /\ \A i \in 1..Len(b) : (a \o b)[Len(a) + i] = b[i]
<1>1. a \o b \in Seq(DocLines) /\ Len(a \o b) = Len(a) + Len(b)
  OBVIOUS
<1>2. \A i \in 1..Len(a) : (a \o b)[i] = a[i]
  OBVIOUS
<1>3. \A i \in 1..Len(b) : (a \o b)[Len(a) + i] = b[i]
  OBVIOUS
<1> QED BY <1>1, <1>2, <1>3

\* Sequences of lines that are equal line by line.
LEMMA SameLines ==
  ASSUME NEW a \in Seq(DocLines), NEW b \in Seq(DocLines), Len(a) = Len(b),
         \A i \in 1..Len(a) : a[i] = b[i]
  PROVE  a = b
OBVIOUS

LEMMA Rejoined ==
  ASSUME NEW f \in Seq(DocLines), NEW n \in 0..Len(f)
  PROVE  Upto(f, n) \o After(f, n) = f
<1> DEFINE a == Upto(f, n)
           b == After(f, n)
<1>1. /\ a \in Seq(DocLines) /\ Len(a) = n /\ b \in Seq(DocLines) /\ Len(b) = Len(f) - n
      /\ \A i \in 1..n : a[i] = f[i]
      /\ \A i \in 1..(Len(f) - n) : b[i] = f[n + i]
      /\ Len(f) \in Nat
  BY Parts
<1> HIDE DEF a, b
<1>2. a \o b \in Seq(DocLines) /\ Len(a \o b) = Len(f)
  <2>1. a \o b \in Seq(DocLines) /\ Len(a \o b) = Len(a) + Len(b)
    BY <1>1, Joined
  <2>2. n \in Nat /\ n + (Len(f) - n) = Len(f)
    BY <1>1
  <2> QED BY <1>1, <2>1, <2>2
<1>3. ASSUME NEW i \in 1..Len(f) PROVE (a \o b)[i] = f[i]
  <2>1. CASE i <= n
    BY <1>1, <2>1, Joined
  <2>2. CASE i > n
    <3> DEFINE j == i - n
    <3>1. j \in 1..Len(b) /\ j \in 1..(Len(f) - n) /\ Len(a) + j = i /\ n + j = i
      BY <1>1, <2>2
    <3> HIDE DEF j
    <3>2. (a \o b)[Len(a) + j] = b[j]
      BY <1>1, <3>1, Joined
    <3> QED BY <1>1, <3>1, <3>2
  <2> QED BY <1>1, <2>1, <2>2
<1> QED BY <1>2, <1>3, SameLines DEF a, b

\* The first place of a line in a file.
LEMMA FirstPlace ==
  ASSUME NEW f \in Seq(DocLines), NEW x
  PROVE  /\ Contains(f, x) =>
              /\ IndexIn(f, x) \in 1..Len(f) /\ f[IndexIn(f, x)] = x
              /\ \A j \in 1..(IndexIn(f, x) - 1) : f[j] # x
         /\ ~Contains(f, x) => IndexIn(f, x) = 0
<1> DEFINE T == {i \in 1..Len(f) : f[i] = x}
<1>1. IndexIn(f, x) = IF T # {} THEN Min(T) ELSE 0
  BY DEF IndexIn, SelectInSeq
<1>2. Contains(f, x) <=> T # {}
  BY DEF Contains
<1>3. T \in SUBSET Nat
  OBVIOUS
<1>4. T # {} => Min(T) \in T /\ \A j \in T : Min(T) <= j
  <2> HIDE DEF T
  <2>1. ASSUME T # {} PROVE \E m \in T : \A n \in T : m <= n
    <3>1. PICK m \in T : \A n \in T : ~(n < m)
      BY <1>3, <2>1, LeastNatural
    <3>2. \A n \in T : m <= n
      BY <1>3, <3>1
    <3> QED BY <3>2
  <2> QED BY <2>1 DEF Min
<1>5. ASSUME T # {}
      PROVE  Min(T) \in 1..Len(f) /\ f[Min(T)] = x /\ \A j \in 1..(Min(T) - 1) : f[j] # x
  <2> DEFINE m == Min(T)
  <2>1. m \in T /\ \A j \in T : m <= j
    BY <1>4, <1>5
  <2> HIDE DEF m
  <2>2. m \in 1..Len(f) /\ f[m] = x /\ Len(f) \in Nat
    BY <2>1
  <2>3. ASSUME NEW j \in 1..(m - 1) PROVE f[j] # x
    <3>1. j \in 1..Len(f) /\ ~(m <= j)
      BY <2>2
    <3> QED BY <2>1, <3>1
  <2> QED BY <2>2, <2>3 DEF m
<1> HIDE DEF T
<1> QED BY <1>1, <1>2, <1>5

LEMMA FirstPlaceIs ==
  ASSUME NEW f \in Seq(DocLines), NEW x, NEW i \in 1..Len(f), f[i] = x,
         \A j \in 1..(i - 1) : f[j] # x
  PROVE  Contains(f, x) /\ IndexIn(f, x) = i
<1>1. Contains(f, x)
  BY DEF Contains
<1>2. /\ IndexIn(f, x) \in 1..Len(f) /\ f[IndexIn(f, x)] = x
      /\ \A j \in 1..(IndexIn(f, x) - 1) : f[j] # x
  BY <1>1, FirstPlace
<1> DEFINE k == IndexIn(f, x)
<1>3. k \in 1..Len(f) /\ f[k] = x /\ \A j \in 1..(k - 1) : f[j] # x
  BY <1>2
<1> HIDE DEF k
<1>4. k \notin 1..(i - 1) /\ i \notin 1..(k - 1)
  BY <1>3
<1>5. k = i
  BY <1>3, <1>4
<1> QED BY <1>1, <1>5 DEF k

-----------------------------------------------------------------------------
(* What of a file is the user's.                                            *)

KeepsUpto(g, f, m) ==
  g = [n \in 0..m |-> IF n = 0 THEN <<>>
                      ELSE IF IsOwn(f[n]) THEN Append(g[n - 1], f[n]) ELSE g[n - 1]]

\* A function that keeps the user's lines exists for a file of any length.
LEMMA KeepingExists ==
  ASSUME NEW f \in Seq(DocLines)
  PROVE  \E g : KeepsUpto(g, f, Len(f))
<1> DEFINE T == {m \in Nat : \E g : KeepsUpto(g, f, m)}
<1>1. 0 \in T
  <2> DEFINE g == [n \in 0..0 |-> <<>>]
  <2>1. KeepsUpto(g, f, 0)
    BY DEF KeepsUpto
  <2> QED BY <2>1
<1>2. ASSUME NEW m \in Nat, m \in T PROVE m + 1 \in T
  <2>1. PICK g : KeepsUpto(g, f, m)
    BY <1>2
  <2> DEFINE next == IF IsOwn(f[m + 1]) THEN Append(g[m], f[m + 1]) ELSE g[m]
             h == [n \in 0..(m + 1) |-> IF n = m + 1 THEN next ELSE g[n]]
  <2>2. ASSUME NEW n \in 0..(m + 1)
        PROVE  h[n] = IF n = 0 THEN <<>>
                      ELSE IF IsOwn(f[n]) THEN Append(h[n - 1], f[n]) ELSE h[n - 1]
    <3>1. CASE n = m + 1
      <4>1. n # 0 /\ n - 1 = m /\ m \in 0..(m + 1) /\ m # m + 1
        BY <3>1
      <4>2. h[n] = next /\ h[n - 1] = g[m]
        BY <3>1, <4>1
      <4> QED BY <3>1, <4>1, <4>2
    <3>2. CASE n \in 1..m
      <4>1. n - 1 \in 0..m /\ n \in 0..m /\ n # 0 /\ n # m + 1 /\ n - 1 # m + 1
            /\ n - 1 \in 0..(m + 1)
        BY <3>2
      <4>2. h[n] = g[n] /\ h[n - 1] = g[n - 1]
        BY <4>1
      <4>3. g[n] = IF IsOwn(f[n]) THEN Append(g[n - 1], f[n]) ELSE g[n - 1]
        BY <2>1, <4>1 DEF KeepsUpto
      <4> QED BY <4>1, <4>2, <4>3
    <3>3. CASE n = 0
      <4>1. 0 \in 0..m /\ 0 \in 0..(m + 1) /\ 0 # m + 1
        OBVIOUS
      <4>2. h[0] = g[0]
        BY <4>1
      <4>3. g[0] = <<>>
        BY <2>1, <4>1 DEF KeepsUpto
      <4> QED BY <3>3, <4>2, <4>3
    <3> QED BY <3>1, <3>2, <3>3
  <2>3. h = [n \in 0..(m + 1) |-> h[n]]
    OBVIOUS
  <2> HIDE DEF h
  <2>4. KeepsUpto(h, f, m + 1)
    BY <2>2, <2>3 DEF KeepsUpto
  <2> QED BY <2>4
<1> HIDE DEF T
<1>3. Len(f) \in T
  BY <1>1, <1>2, SetInduction
<1> QED BY <1>3 DEF T

\* What such a function is, step by step.
LEMMA Keeping ==
  ASSUME NEW f \in Seq(DocLines)
  PROVE  \E g : /\ Own(f) = g[Len(f)] /\ g[0] = <<>>
                /\ \A n \in 1..Len(f) :
                     g[n] = IF IsOwn(f[n]) THEN Append(g[n - 1], f[n]) ELSE g[n - 1]
                /\ \A n \in 0..Len(f) : g[n] \in Seq(DocLines)
<1> DEFINE g == CHOOSE h : KeepsUpto(h, f, Len(f))
<1>1. KeepsUpto(g, f, Len(f))
  BY KeepingExists
<1>2. Own(f) = g[Len(f)]
  BY DEF Own, KeepsUpto
<1> HIDE DEF g
<1>3. g[0] = <<>>
  <2>1. 0 \in 0..Len(f)
    OBVIOUS
  <2> QED BY <1>1, <2>1 DEF KeepsUpto
<1>4. \A n \in 1..Len(f) : g[n] = IF IsOwn(f[n]) THEN Append(g[n - 1], f[n]) ELSE g[n - 1]
  <2>1. \A n \in 1..Len(f) : n \in 0..Len(f) /\ n # 0
    OBVIOUS
  <2> QED BY <1>1, <2>1 DEF KeepsUpto
<1>5. \A n \in 0..Len(f) : g[n] \in Seq(DocLines)
  <2> DEFINE T == {n \in Nat : n \in 0..Len(f) => g[n] \in Seq(DocLines)}
  <2>1. 0 \in T
    <3>1. <<>> \in Seq(DocLines)
      OBVIOUS
    <3> QED BY <1>3, <3>1
  <2>2. ASSUME NEW n \in Nat, n \in T PROVE n + 1 \in T
    <3>1. CASE n + 1 \in 1..Len(f)
      <4>1. n \in 0..Len(f) /\ (n + 1) - 1 = n
        BY <3>1
      <4>2. g[n] \in Seq(DocLines) /\ f[n + 1] \in DocLines
        BY <2>2, <3>1, <4>1
      <4>3. g[n + 1] = IF IsOwn(f[n + 1]) THEN Append(g[n], f[n + 1]) ELSE g[n]
        BY <1>4, <3>1, <4>1
      <4>4. Append(g[n], f[n + 1]) \in Seq(DocLines)
        BY <4>2
      <4>5. g[n + 1] \in Seq(DocLines)
        BY <4>2, <4>3, <4>4
      <4> QED BY <4>5
    <3>2. CASE n + 1 \notin 0..Len(f)
      BY <3>2
    <3> QED BY <3>1, <3>2
  <2> HIDE DEF T
  <2>3. Nat \subseteq T
    BY <2>1, <2>2, SetInduction
  <2> QED BY <2>3 DEF T
<1> QED BY <1>2, <1>3, <1>4, <1>5

LEMMA OwnIsTyped == ASSUME NEW f \in Seq(DocLines) PROVE Own(f) \in Seq(DocLines)
<1>1. Len(f) \in 0..Len(f)
  OBVIOUS
<1> QED BY <1>1, Keeping

\* A part with no line of the user's.
LEMMA OwnOfOthers ==
  ASSUME NEW f \in Seq(DocLines), \A i \in 1..Len(f) : ~IsOwn(f[i])
  PROVE  Own(f) = <<>>
<1>1. PICK g : /\ Own(f) = g[Len(f)] /\ g[0] = <<>>
               /\ \A n \in 1..Len(f) :
                    g[n] = IF IsOwn(f[n]) THEN Append(g[n - 1], f[n]) ELSE g[n - 1]
               /\ \A n \in 0..Len(f) : g[n] \in Seq(DocLines)
  BY Keeping
<1> DEFINE T == {n \in Nat : n \in 0..Len(f) => g[n] = <<>>}
<1>2. 0 \in T
  BY <1>1
<1>3. ASSUME NEW n \in Nat, n \in T PROVE n + 1 \in T
  <2>1. CASE n + 1 \in 1..Len(f)
    <3>1. n \in 0..Len(f) /\ (n + 1) - 1 = n
      BY <2>1
    <3> QED BY <1>1, <1>3, <2>1, <3>1
  <2>2. CASE n + 1 \notin 0..Len(f)
    BY <2>2
  <2> QED BY <2>1, <2>2
<1> HIDE DEF T
<1>4. Len(f) \in T
  BY <1>2, <1>3, SetInduction
<1> QED BY <1>1, <1>4 DEF T

LEMMA AppendJoined ==
  ASSUME NEW a \in Seq(DocLines), NEW b \in Seq(DocLines), NEW x \in DocLines
  PROVE  Append(a \o b, x) = a \o Append(b, x)
OBVIOUS

\* What is the user's in two parts put together.
LEMMA OwnOfJoined ==
  ASSUME NEW a \in Seq(DocLines), NEW b \in Seq(DocLines)
  PROVE  Own(a \o b) = Own(a) \o Own(b)
<1> DEFINE f == a \o b
<1>1. /\ f \in Seq(DocLines) /\ Len(f) = Len(a) + Len(b)
      /\ \A i \in 1..Len(a) : f[i] = a[i]
      /\ \A i \in 1..Len(b) : f[Len(a) + i] = b[i]
  BY Joined
<1>2. Len(a) \in Nat /\ Len(b) \in Nat
  OBVIOUS
<1> HIDE DEF f
<1>3. PICK g : /\ Own(f) = g[Len(f)] /\ g[0] = <<>>
               /\ \A n \in 1..Len(f) :
                    g[n] = IF IsOwn(f[n]) THEN Append(g[n - 1], f[n]) ELSE g[n - 1]
               /\ \A n \in 0..Len(f) : g[n] \in Seq(DocLines)
  BY <1>1, Keeping
<1>4. PICK ga : /\ Own(a) = ga[Len(a)] /\ ga[0] = <<>>
                /\ \A n \in 1..Len(a) :
                     ga[n] = IF IsOwn(a[n]) THEN Append(ga[n - 1], a[n]) ELSE ga[n - 1]
                /\ \A n \in 0..Len(a) : ga[n] \in Seq(DocLines)
  BY Keeping
<1>5. PICK gb : /\ Own(b) = gb[Len(b)] /\ gb[0] = <<>>
                /\ \A n \in 1..Len(b) :
                     gb[n] = IF IsOwn(b[n]) THEN Append(gb[n - 1], b[n]) ELSE gb[n - 1]
                /\ \A n \in 0..Len(b) : gb[n] \in Seq(DocLines)
  BY Keeping
<1>6. g[Len(a)] = Own(a)
  <2> DEFINE T == {n \in Nat : n \in 0..Len(a) => g[n] = ga[n]}
  <2>1. 0 \in T
    BY <1>3, <1>4
  <2>2. ASSUME NEW n \in Nat, n \in T PROVE n + 1 \in T
    <3>1. CASE n + 1 \in 1..Len(a)
      <4>1. n \in 0..Len(a) /\ (n + 1) - 1 = n /\ n + 1 \in 1..Len(f)
        BY <1>1, <1>2, <3>1
      <4>2. f[n + 1] = a[n + 1] /\ g[n] = ga[n]
        BY <1>1, <2>2, <3>1, <4>1
      <4>3. g[n + 1] = IF IsOwn(f[n + 1]) THEN Append(g[n], f[n + 1]) ELSE g[n]
        BY <1>3, <4>1
      <4>4. ga[n + 1] = IF IsOwn(a[n + 1]) THEN Append(ga[n], a[n + 1]) ELSE ga[n]
        BY <1>4, <3>1, <4>1
      <4>5. g[n + 1] = ga[n + 1]
        BY <4>2, <4>3, <4>4
      <4> QED BY <4>5
    <3>2. CASE n + 1 \notin 0..Len(a)
      BY <3>2
    <3> QED BY <3>1, <3>2
  <2> HIDE DEF T
  <2>3. Len(a) \in T
    BY <1>2, <2>1, <2>2, SetInduction
  <2> QED BY <1>2, <1>4, <2>3 DEF T
<1>7. g[Len(a) + Len(b)] = Own(a) \o Own(b)
  <2> DEFINE T == {n \in Nat : n \in 0..Len(b) => g[Len(a) + n] = Own(a) \o gb[n]}
  <2>1. Own(a) \in Seq(DocLines)
    BY OwnIsTyped
  <2>2. 0 \in T
    <3>1. Own(a) \o <<>> = Own(a)
      BY <2>1, ConcatEmptySeq
    <3>2. Len(a) + 0 = Len(a)
      BY <1>2
    <3> QED BY <1>5, <1>6, <3>1, <3>2
  <2>3. ASSUME NEW n \in Nat, n \in T PROVE n + 1 \in T
    <3>1. CASE n + 1 \in 1..Len(b)
      <4> DEFINE k == Len(a) + (n + 1)
      <4>1. n \in 0..Len(b) /\ (n + 1) - 1 = n /\ k \in 1..Len(f) /\ k - 1 = Len(a) + n
        BY <1>1, <1>2, <3>1
      <4>2. f[k] = b[n + 1] /\ b[n + 1] \in DocLines
        BY <1>1, <3>1
      <4> HIDE DEF k
      <4>3. g[k - 1] = Own(a) \o gb[n] /\ gb[n] \in Seq(DocLines)
        BY <1>5, <2>3, <4>1
      <4>4. g[k] = IF IsOwn(f[k]) THEN Append(g[k - 1], f[k]) ELSE g[k - 1]
        BY <1>3, <4>1
      <4>5. gb[n + 1] = IF IsOwn(b[n + 1]) THEN Append(gb[n], b[n + 1]) ELSE gb[n]
        BY <1>5, <3>1, <4>1
      <4>6. Append(Own(a) \o gb[n], b[n + 1]) = Own(a) \o Append(gb[n], b[n + 1])
        BY <2>1, <4>2, <4>3, AppendJoined
      <4>7. g[k] = Own(a) \o gb[n + 1]
        BY <4>2, <4>3, <4>4, <4>5, <4>6
      <4> QED BY <4>7 DEF k
    <3>2. CASE n + 1 \notin 0..Len(b)
      BY <3>2
    <3> QED BY <3>1, <3>2
  <2> HIDE DEF T
  <2>4. Len(b) \in T
    BY <1>2, <2>2, <2>3, SetInduction
  <2> QED BY <1>2, <1>5, <2>4 DEF T
<1> QED BY <1>1, <1>3, <1>7 DEF f

\* Without a stretch of lines that are not the user's.
LEMMA OwnWithout ==
  ASSUME NEW f \in Seq(DocLines), NEW i \in 0..Len(f), NEW j \in i..Len(f),
         \A k \in (i + 1)..j : ~IsOwn(f[k])
  PROVE  Own(f) = Own(Upto(f, i)) \o Own(After(f, j))
<1> DEFINE a == Upto(f, j)
           r == After(a, i)
<1>1. Len(f) \in Nat /\ i \in Nat /\ j \in 0..Len(f)
  OBVIOUS
<1>2. /\ a \in Seq(DocLines) /\ Len(a) = j /\ After(f, j) \in Seq(DocLines)
      /\ \A k \in 1..j : a[k] = f[k]
  BY <1>1, Parts
<1>3. a \o After(f, j) = f
  BY <1>1, Rejoined
<1>4. i \in 0..Len(a)
  BY <1>1, <1>2
<1> HIDE DEF a
<1>5. /\ Upto(a, i) \in Seq(DocLines) /\ Len(Upto(a, i)) = i
      /\ \A k \in 1..i : Upto(a, i)[k] = a[k]
      /\ r \in Seq(DocLines) /\ Len(r) = Len(a) - i
      /\ \A k \in 1..(Len(a) - i) : r[k] = a[i + k]
  BY <1>2, <1>4, Parts
<1>6. Upto(a, i) \o r = a
  BY <1>2, <1>4, Rejoined
<1> HIDE DEF r
<1>7. Upto(a, i) = Upto(f, i)
  <2>1. /\ Upto(f, i) \in Seq(DocLines) /\ Len(Upto(f, i)) = i
        /\ \A k \in 1..i : Upto(f, i)[k] = f[k]
    BY Parts
  <2>2. \A k \in 1..i : k \in 1..j
    BY <1>1
  <2> QED BY <1>2, <1>5, <2>1, <2>2, SameLines
<1>8. Own(r) = <<>>
  <2>1. ASSUME NEW k \in 1..Len(r) PROVE ~IsOwn(r[k])
    <3>1. k \in 1..(Len(a) - i) /\ i + k \in 1..j /\ i + k \in (i + 1)..j
      BY <1>1, <1>2, <1>5
    <3> QED BY <1>2, <1>5, <3>1
  <2> QED BY <1>5, <2>1, OwnOfOthers
<1>9. Own(f) = Own(a) \o Own(After(f, j))
  BY <1>2, <1>3, OwnOfJoined
<1>10. Own(a) = Own(Upto(a, i)) \o Own(r)
  BY <1>5, <1>6, OwnOfJoined
<1>11. Own(Upto(a, i)) \o <<>> = Own(Upto(a, i))
  BY <1>5, OwnIsTyped, ConcatEmptySeq
<1> QED BY <1>7, <1>8, <1>9, <1>10, <1>11

-----------------------------------------------------------------------------
(* Where the first markers of a file are, and what is between them.         *)

Unmarked(f) == \A i \in 1..Len(f) : f[i] \notin {Begin, End}

PairedAt(f, b) ==
  /\ b \in 1..(Len(f) - 2)
  /\ f[b] = Begin /\ f[b + 1].kind = "block" /\ f[b + 2] = End
  /\ \A i \in 1..(b - 1) : f[i] # Begin
  /\ \A i \in 1..(b + 1) : f[i] # End

Paired(f) ==
  \/ ~Contains(f, Begin) \/ ~Contains(f, End)
  \/ \E b \in 1..Len(f) : PairedAt(f, b)

LEMMA PairedPlaces ==
  ASSUME NEW f \in Seq(DocLines), NEW b, PairedAt(f, b)
  PROVE  /\ Contains(f, Begin) /\ IndexIn(f, Begin) = b
         /\ Contains(f, End) /\ IndexIn(f, End) = b + 2
<1>1. Len(f) \in Nat
  OBVIOUS
<1>2. b \in 1..Len(f) /\ f[b] = Begin /\ \A j \in 1..(b - 1) : f[j] # Begin
  BY <1>1 DEF PairedAt
<1>3. b + 2 \in 1..Len(f) /\ f[b + 2] = End /\ \A j \in 1..((b + 2) - 1) : f[j] # End
  BY <1>1 DEF PairedAt
<1>4. Contains(f, Begin) /\ IndexIn(f, Begin) = b
  BY <1>2, FirstPlaceIs
<1> DEFINE e == b + 2
<1>5. e \in 1..Len(f) /\ f[e] = End /\ \A j \in 1..(e - 1) : f[j] # End
  BY <1>3
<1> HIDE DEF e
<1>6. Contains(f, End) /\ IndexIn(f, End) = e
  BY <1>5, FirstPlaceIs
<1> QED BY <1>4, <1>6 DEF e

OneLine(f, i) == SubSeq(f, i, i) = <<f[i]>>

LEMMA OneLineParts ==
  ASSUME NEW f \in Seq(DocLines), NEW i \in 1..Len(f)
  PROVE  OneLine(f, i)
<1> DEFINE s == SubSeq(f, i, i)
<1>1. s \in Seq(DocLines) /\ Len(s) = 1
  OBVIOUS
<1>2. s[1] = f[i]
  <2>1. 1 \in 1..((i - i) + 1) /\ (i + 1) - 1 = i
    OBVIOUS
  <2> QED BY <2>1
<1>3. <<f[i]>> \in Seq(DocLines) /\ Len(<<f[i]>>) = 1 /\ <<f[i]>>[1] = f[i]
  OBVIOUS
<1> HIDE DEF s
<1>4. \A j \in 1..Len(s) : s[j] = <<f[i]>>[j]
  BY <1>1, <1>2, <1>3
<1>5. s = <<f[i]>>
  BY <1>1, <1>3, <1>4, SameLines
<1> QED BY <1>5 DEF s, OneLine

\* The installer and the doctor read the same block.
LEMMA BothReadTheBlock ==
  ASSUME NEW f \in Seq(DocLines), NEW b, PairedAt(f, b)
  PROVE  Managed(f) = <<f[b + 1]>> /\ DoctorBlock(f) = <<f[b + 1]>>
<1>1. Len(f) \in Nat /\ b \in 1..(Len(f) - 2) /\ b \in 0..Len(f) /\ b + 1 \in 1..Len(f)
  BY DEF PairedAt
<1>2. /\ Contains(f, Begin) /\ IndexIn(f, Begin) = b
      /\ Contains(f, End) /\ IndexIn(f, End) = b + 2
  BY PairedPlaces
<1>3. SubSeq(f, b + 1, b + 1) = <<f[b + 1]>>
  <2> DEFINE k == b + 1
  <2>1. k \in 1..Len(f) /\ f[k] \in DocLines
    BY <1>1
  <2> HIDE DEF k
  <2>2. OneLine(f, k)
    BY <2>1, OneLineParts
  <2> QED BY <2>2 DEF k, OneLine
<1>4. Managed(f) = <<f[b + 1]>>
  <2>1. (b + 2) - 1 = b + 1
    BY <1>1
  <2> QED BY <1>2, <1>3, <2>1 DEF Managed
<1> DEFINE g == After(f, b)
<1>5. /\ g \in Seq(DocLines) /\ Len(g) = Len(f) - b
      /\ \A i \in 1..(Len(f) - b) : g[i] = f[b + i]
  BY <1>1, Parts
<1> HIDE DEF g
<1>6. g[1] = f[b + 1] /\ g[2] = f[b + 2] /\ 1 \in 1..Len(g) /\ 2 \in 1..Len(g)
  BY <1>1, <1>5
<1>7. g[2] = End /\ g[1] # End
  BY <1>1, <1>6 DEF PairedAt
<1>8. \A j \in 1..(2 - 1) : g[j] # End
  BY <1>7
<1>9. Contains(g, End) /\ IndexIn(g, End) = 2
  BY <1>5, <1>6, <1>7, <1>8, FirstPlaceIs
<1>10. Upto(g, 1) = <<g[1]>>
  BY <1>5, <1>6, OneLineParts DEF Upto, OneLine
<1>11. DoctorBlock(f) = Upto(g, IndexIn(g, End) - 1)
  BY <1>2, <1>9 DEF DoctorBlock, g
<1>12. 2 - 1 = 1
  OBVIOUS
<1> QED BY <1>4, <1>6, <1>9, <1>10, <1>11, <1>12

LEMMA UnmarkedContains ==
  ASSUME NEW f \in Seq(DocLines)
  PROVE  Unmarked(f) <=> ~Contains(f, Begin) /\ ~Contains(f, End)
BY DEF Unmarked, Contains

\* A new block between two parts of a file.
LEMMA Built ==
  ASSUME NEW h \in Seq(DocLines), NEW t \in Seq(DocLines), NEW v \in Nat, Unmarked(h)
  PROVE  LET m == BuildFile(h, v, t) IN
         /\ m \in Seq(DocLines) /\ Own(m) = Own(h) \o Own(t)
         /\ PairedAt(m, Len(h) + 1) /\ m[Len(h) + 2] = Block(v)
         /\ Unmarked(t) => Neat(m)
<1> DEFINE k == <<Begin, Block(v), End>>
           x == h \o k
           m == x \o t
<1>1. /\ Begin \in DocLines /\ End \in DocLines /\ Block(v) \in DocLines
      /\ Begin # End /\ Block(v) \notin {Begin, End} /\ Block(v).kind = "block"
      /\ ~IsOwn(Begin) /\ ~IsOwn(End) /\ ~IsOwn(Block(v))
  BY LinesAreTyped
<1>2. /\ k \in Seq(DocLines) /\ Len(k) = 3 /\ k[1] = Begin /\ k[2] = Block(v) /\ k[3] = End
  BY <1>1
<1>3. m = BuildFile(h, v, t)
  BY DEF BuildFile
<1> HIDE DEF k
<1>4. /\ x \in Seq(DocLines) /\ Len(x) = Len(h) + Len(k)
      /\ \A i \in 1..Len(h) : x[i] = h[i]
      /\ \A i \in 1..Len(k) : x[Len(h) + i] = k[i]
  BY <1>2, Joined
<1> DEFINE n == Len(h)
<1>5. n \in Nat /\ Len(t) \in Nat
  OBVIOUS
<1>6. /\ \A i \in 1..n : x[i] = h[i]
      /\ x[n + 1] = Begin /\ x[n + 2] = Block(v) /\ x[n + 3] = End /\ Len(x) = n + 3
  BY <1>2, <1>4
<1>7. Own(x) = Own(h)
  <2>1. \A i \in 1..Len(k) : ~IsOwn(k[i])
    BY <1>1, <1>2
  <2>2. Own(k) = <<>>
    BY <1>2, <2>1, OwnOfOthers
  <2>3. Own(x) = Own(h) \o Own(k)
    BY <1>2, OwnOfJoined
  <2>4. Own(h) \o <<>> = Own(h)
    BY OwnIsTyped, ConcatEmptySeq
  <2> QED BY <2>2, <2>3, <2>4
<1> HIDE DEF x
<1>8. /\ m \in Seq(DocLines) /\ Len(m) = Len(x) + Len(t)
      /\ \A i \in 1..Len(x) : m[i] = x[i]
      /\ \A i \in 1..Len(t) : m[Len(x) + i] = t[i]
  BY <1>4, Joined
<1>9. Own(m) = Own(h) \o Own(t)
  BY <1>4, <1>7, OwnOfJoined
<1> HIDE DEF m, n
<1>10. /\ Len(m) = n + 3 + Len(t)
       /\ \A i \in 1..n : m[i] = h[i]
       /\ m[n + 1] = Begin /\ m[n + 2] = Block(v) /\ m[n + 3] = End
       /\ \A i \in 1..Len(t) : m[n + 3 + i] = t[i]
  <2>1. /\ \A i \in 1..n : i \in 1..Len(x)
        /\ n + 1 \in 1..Len(x) /\ n + 2 \in 1..Len(x) /\ n + 3 \in 1..Len(x)
    BY <1>5, <1>6
  <2> QED BY <1>6, <1>8, <2>1
<1>11. \A i \in 1..n : h[i] \notin {Begin, End}
  BY DEF Unmarked, n
<1>12. PairedAt(m, n + 1)
  <2>1. n + 1 \in 1..(Len(m) - 2) /\ (n + 1) + 1 = n + 2 /\ (n + 1) + 2 = n + 3
    BY <1>5, <1>10
  <2>2. \A i \in 1..((n + 1) - 1) : m[i] # Begin
    BY <1>5, <1>10, <1>11
  <2>3. ASSUME NEW i \in 1..((n + 1) + 1) PROVE m[i] # End
    <3>1. i \in 1..n \/ i = n + 1 \/ i = n + 2
      BY <1>5
    <3> QED BY <1>1, <1>10, <1>11, <3>1
  <2> QED BY <1>1, <1>10, <2>1, <2>2, <2>3 DEF PairedAt
<1>13. ASSUME Unmarked(t) PROVE Neat(m)
  <2>1. n + 1 \in 1..(Len(m) - 2) /\ (n + 1) + 1 = n + 2 /\ (n + 1) + 2 = n + 3
    BY <1>5, <1>10
  <2>2. ASSUME NEW j \in DOMAIN m
        PROVE  (m[j] = Begin => j = n + 1) /\ (m[j] = End => j = n + 3)
    <3>1. CASE j \in 1..n
      BY <1>10, <1>11, <3>1
    <3>2. CASE j \in {n + 1, n + 2, n + 3}
      BY <1>1, <1>10, <3>2
    <3>3. CASE j > n + 3
      <4> DEFINE i == j - (n + 3)
      <4>1. i \in 1..Len(t) /\ n + 3 + i = j
        BY <1>5, <1>8, <1>10, <3>3
      <4> HIDE DEF i
      <4>2. m[j] = t[i]
        BY <1>10, <4>1
      <4> QED BY <1>13, <4>1, <4>2 DEF Unmarked
    <3> QED BY <1>5, <1>8, <1>10, <3>1, <3>2, <3>3
  <2>3. OneBlockAt(m, n + 1)
    BY <1>1, <1>10, <2>1, <2>2 DEF OneBlockAt
  <2> QED BY <2>1, <2>3 DEF Neat
<1> QED BY <1>3, <1>8, <1>9, <1>10, <1>12, <1>13 DEF n

\* The headings at the top of a file.
LEMMA HeadingsAreOwn ==
  ASSUME NEW f \in Seq(DocLines)
  PROVE  /\ Headings(f) \in 0..Len(f)
         /\ \A i \in 1..Headings(f) : f[i] \notin {Begin, End}
<1> DEFINE T == {i \in 1..Len(f) : f[i].kind # "title"}
           other == SelectInSeq(f, LAMBDA l : l.kind # "title")
<1>1. other = IF T # {} THEN Min(T) ELSE 0
  BY DEF SelectInSeq
<1>2. Headings(f) = IF other = 0 THEN Len(f) ELSE other - 1
  BY DEF Headings
<1>3. Len(f) \in Nat /\ T \in SUBSET Nat
  OBVIOUS
<1>4. ASSUME T # {} PROVE Min(T) \in T /\ \A j \in T : Min(T) <= j
  <2> HIDE DEF T
  <2>1. \E m \in T : \A n \in T : m <= n
    <3>1. PICK m \in T : \A n \in T : ~(n < m)
      BY <1>3, <1>4, LeastNatural
    <3>2. \A n \in T : m <= n
      BY <1>3, <3>1
    <3> QED BY <3>2
  <2> QED BY <2>1 DEF Min
<1> DEFINE n == Headings(f)
<1>5. n \in 0..Len(f) /\ \A i \in 1..n : i \notin T
  <2>1. CASE T = {}
    <3>1. n = Len(f)
      BY <1>1, <1>2, <2>1
    <3> QED BY <1>3, <2>1, <3>1
  <2>2. CASE T # {}
    <3>1. Min(T) \in 1..Len(f) /\ \A j \in T : Min(T) <= j
      BY <1>4, <2>2
    <3> DEFINE k == Min(T)
    <3>2. other = k /\ k # 0 /\ k \in 1..Len(f)
      BY <1>1, <1>3, <2>2, <3>1
    <3>3. n = k - 1
      BY <1>2, <3>2
    <3>4. \A j \in T : k <= j
      BY <3>1
    <3> HIDE DEF k, n, T, other
    <3> QED BY <1>3, <3>2, <3>3, <3>4
  <2> QED BY <2>1, <2>2
<1> HIDE DEF n
<1>6. ASSUME NEW i \in 1..n PROVE f[i] \notin {Begin, End}
  <2>1. i \in 1..Len(f) /\ i \notin T
    BY <1>3, <1>5
  <2>2. f[i].kind = "title"
    BY <2>1
  <2> QED BY <2>2 DEF Begin, End, Line
<1> QED BY <1>5, <1>6 DEF n

\* What a merge replaces or parts.
LEMMA MergeParts ==
  ASSUME NEW f \in Seq(DocLines), Paired(f), NEW v \in Nat
  PROVE  \E h, t \in Seq(DocLines) :
           /\ Merge(f, v) = BuildFile(h, v, t) /\ Unmarked(h)
           /\ Own(f) = Own(h) \o Own(t)
           /\ Neat(f) => Unmarked(t)
<1>1. Len(f) \in Nat
  OBVIOUS
<1>2. CASE ~(Contains(f, Begin) /\ Contains(f, End))
  <2> DEFINE n == Headings(f)
  <2>1. n \in 0..Len(f) /\ \A i \in 1..n : f[i] \notin {Begin, End}
    BY HeadingsAreOwn
  <2>2. Merge(f, v) = BuildFile(Upto(f, n), v, After(f, n))
    BY <1>2 DEF Merge
  <2> HIDE DEF n
  <2> DEFINE h == Upto(f, n)
             t == After(f, n)
  <2>3. /\ h \in Seq(DocLines) /\ Len(h) = n /\ \A i \in 1..n : h[i] = f[i]
        /\ t \in Seq(DocLines) /\ Len(t) = Len(f) - n
        /\ \A i \in 1..(Len(f) - n) : t[i] = f[n + i]
    BY <2>1, Parts
  <2>4. Own(f) = Own(h) \o Own(t)
    <3>1. h \o t = f
      BY <2>1, Rejoined
    <3> HIDE DEF h, t
    <3> QED BY <2>3, <3>1, OwnOfJoined
  <2> HIDE DEF h, t
  <2>5. Unmarked(h)
    BY <2>1, <2>3 DEF Unmarked
  <2>6. ASSUME Neat(f) PROVE Unmarked(t)
    <3>1. Unmarked(f)
      <4>1. ASSUME NEW i \in 1..(Len(f) - 2), OneBlockAt(f, i) PROVE FALSE
        <5>1. i \in 1..Len(f) /\ i + 2 \in 1..Len(f) /\ f[i] = Begin /\ f[i + 2] = End
          BY <1>1, <4>1 DEF OneBlockAt
        <5> QED BY <1>2, <5>1 DEF Contains
      <4> QED BY <2>6, <4>1, UnmarkedContains DEF Neat
    <3>2. ASSUME NEW i \in 1..Len(t) PROVE t[i] \notin {Begin, End}
      <4>1. i \in 1..(Len(f) - n) /\ n + i \in 1..Len(f)
        BY <1>1, <2>1, <2>3
      <4> QED BY <2>3, <3>1, <4>1 DEF Unmarked
    <3> QED BY <3>2 DEF Unmarked
  <2> QED BY <2>2, <2>3, <2>4, <2>5, <2>6 DEF h, t
<1>3. CASE Contains(f, Begin) /\ Contains(f, End)
  <2>1. PICK b \in 1..Len(f) : PairedAt(f, b)
    BY <1>3 DEF Paired
  <2>2. IndexIn(f, Begin) = b /\ IndexIn(f, End) = b + 2
    BY <2>1, PairedPlaces
  <2> DEFINE i == b - 1
             j == b + 2
  <2>3. i \in 0..Len(f) /\ j \in 0..Len(f) /\ j \in i..Len(f) /\ i + 1 = b
    BY <1>1, <2>1 DEF PairedAt
  <2>4. Merge(f, v) = BuildFile(Upto(f, i), v, After(f, j))
    BY <1>3, <2>2 DEF Merge
  <2>5. ASSUME NEW k \in (i + 1)..j PROVE ~IsOwn(f[k])
    <3>1. k \in {b, b + 1, b + 2}
      BY <2>3
    <3>2. f[b] = Begin /\ f[b + 1].kind = "block" /\ f[b + 2] = End
      BY <2>1 DEF PairedAt
    <3>3. ~IsOwn(f[b]) /\ ~IsOwn(f[b + 1]) /\ ~IsOwn(f[b + 2])
      <4>1. ~IsOwn(f[b + 1])
        BY <3>2 DEF IsOwn
      <4> QED BY <3>2, <4>1, LinesAreTyped
    <3> QED BY <3>1, <3>3
  <2>6. /\ \A k \in 1..i : f[k] # Begin /\ f[k] # End
    BY <1>1, <2>1 DEF PairedAt
  <2>7. ASSUME Neat(f), NEW k \in 1..Len(f), k > j PROVE f[k] \notin {Begin, End}
    <3>1. PICK c \in 1..(Len(f) - 2) : OneBlockAt(f, c)
      BY <1>3, <2>7 DEF Neat
    <3>2. \A l \in 1..Len(f) : (f[l] = Begin => l = c) /\ (f[l] = End => l = c + 2)
      BY <3>1 DEF OneBlockAt
    <3>3. b = c
      BY <2>1, <3>2 DEF PairedAt
    <3> QED BY <2>1, <2>7, <3>2, <3>3
  <2>8. j = b + 2
    OBVIOUS
  <2> HIDE DEF i, j
  <2> DEFINE h == Upto(f, i)
             t == After(f, j)
  <2>9. /\ h \in Seq(DocLines) /\ Len(h) = i /\ \A k \in 1..i : h[k] = f[k]
    BY <2>3, Parts
  <2>10. /\ t \in Seq(DocLines) /\ Len(t) = Len(f) - j
         /\ \A k \in 1..(Len(f) - j) : t[k] = f[j + k]
    BY <2>3, Parts
  <2>11. Own(f) = Own(h) \o Own(t)
    BY <2>3, <2>5, OwnWithout
  <2>12. Merge(f, v) = BuildFile(h, v, t)
    BY <2>4
  <2> HIDE DEF h, t
  <2>13. Unmarked(h)
    BY <2>6, <2>9 DEF Unmarked
  <2>14. ASSUME Neat(f) PROVE Unmarked(t)
    <3>1. ASSUME NEW k \in 1..Len(t) PROVE t[k] \notin {Begin, End}
      <4>1. k \in 1..(Len(f) - j)
        BY <2>10
      <4>2. j + k \in 1..Len(f) /\ j + k > j
        BY <1>1, <2>3, <4>1
      <4> QED BY <2>7, <2>10, <2>14, <4>1, <4>2
    <3> QED BY <3>1 DEF Unmarked
  <2> QED BY <2>9, <2>10, <2>11, <2>12, <2>13, <2>14
<1> QED BY <1>2, <1>3

\* A merge puts the version's block between the first markers and takes no line away.
LEMMA MergeKeeps ==
  ASSUME NEW f \in Seq(DocLines), Paired(f), NEW v \in Nat
  PROVE  /\ Merge(f, v) \in Seq(DocLines) /\ Own(Merge(f, v)) = Own(f)
         /\ \E b : PairedAt(Merge(f, v), b) /\ Merge(f, v)[b + 1] = Block(v)
         /\ Neat(f) => Neat(Merge(f, v))
<1>1. PICK h, t \in Seq(DocLines) :
           /\ Merge(f, v) = BuildFile(h, v, t) /\ Unmarked(h)
           /\ Own(f) = Own(h) \o Own(t)
           /\ Neat(f) => Unmarked(t)
  BY MergeParts
<1> DEFINE m == BuildFile(h, v, t)
<1>2. /\ m \in Seq(DocLines) /\ Own(m) = Own(h) \o Own(t)
      /\ PairedAt(m, Len(h) + 1) /\ m[Len(h) + 2] = Block(v)
      /\ Unmarked(t) => Neat(m)
  BY <1>1, Built
<1> HIDE DEF m
<1> DEFINE b == Len(h) + 1
<1>3. b + 1 = Len(h) + 2
  <2>1. Len(h) \in Nat
    OBVIOUS
  <2> QED BY <2>1
<1>4. PairedAt(m, b) /\ m[b + 1] = Block(v)
  BY <1>2, <1>3
<1>5. Merge(f, v) = m
  BY <1>1 DEF m
<1> HIDE DEF b
<1> QED BY <1>1, <1>2, <1>4, <1>5

\* One line that is the user's.
LEMMA OwnOfLine ==
  ASSUME NEW x \in DocLines, IsOwn(x)
  PROVE  Own(<<x>>) = <<x>>
<1> DEFINE f == <<x>>
<1>1. f \in Seq(DocLines) /\ Len(f) = 1 /\ f[1] = x
  OBVIOUS
<1> HIDE DEF f
<1>2. PICK g : /\ Own(f) = g[Len(f)] /\ g[0] = <<>>
               /\ \A n \in 1..Len(f) :
                    g[n] = IF IsOwn(f[n]) THEN Append(g[n - 1], f[n]) ELSE g[n - 1]
               /\ \A n \in 0..Len(f) : g[n] \in Seq(DocLines)
  BY <1>1, Keeping
<1>3. 1 \in 1..Len(f) /\ 1 - 1 = 0
  BY <1>1
<1>4. g[1] = Append(g[0], x)
  BY <1>1, <1>2, <1>3
<1>5. Append(<<>>, x) = <<x>>
  OBVIOUS
<1> QED BY <1>1, <1>2, <1>4, <1>5 DEF f

LEMMA TwoLines ==
  ASSUME NEW x \in DocLines, NEW y \in DocLines
  PROVE  <<x, y>> \in Seq(DocLines) /\ <<x>> \o <<y>> = <<x, y>>
<1> DEFINE p == <<x, y>>
           a == <<x>>
           b == <<y>>
<1>1. p \in Seq(DocLines) /\ Len(p) = 2 /\ p[1] = x /\ p[2] = y
  OBVIOUS
<1>2. /\ a \in Seq(DocLines) /\ Len(a) = 1 /\ a[1] = x
      /\ b \in Seq(DocLines) /\ Len(b) = 1 /\ b[1] = y
  OBVIOUS
<1> HIDE DEF p, a, b
<1>3. /\ a \o b \in Seq(DocLines) /\ Len(a \o b) = Len(a) + Len(b)
      /\ \A i \in 1..Len(a) : (a \o b)[i] = a[i]
      /\ \A i \in 1..Len(b) : (a \o b)[Len(a) + i] = b[i]
  BY <1>2, Joined
<1>4. Len(a \o b) = 2 /\ (a \o b)[1] = x /\ (a \o b)[2] = y
  BY <1>2, <1>3
<1>5. \A i \in 1..Len(a \o b) : (a \o b)[i] = p[i]
  BY <1>1, <1>4
<1>6. a \o b = p
  BY <1>1, <1>3, <1>4, <1>5, SameLines
<1> QED BY <1>1, <1>6 DEF p, a, b

LEMMA OwnOfImport ==
  ASSUME NEW p \in {<<Title, Import>>, <<Import, Title>>}
  PROVE  p \in Seq(DocLines) /\ Own(p) = <<Title>>
<1>1. Title \in DocLines /\ Import \in DocLines /\ IsOwn(Title) /\ ~IsOwn(Import)
  BY LinesAreTyped DEF Title, Line, IsOwn
<1> DEFINE a == <<Title>>
           b == <<Import>>
<1>2. /\ a \in Seq(DocLines) /\ b \in Seq(DocLines) /\ Len(b) = 1 /\ b[1] = Import
  BY <1>1
<1>3. Own(a) = <<Title>>
  BY <1>1, OwnOfLine
<1>4. Own(b) = <<>>
  BY <1>1, <1>2, OwnOfOthers
<1>5. a \o b = <<Title, Import>> /\ b \o a = <<Import, Title>>
  BY <1>1, TwoLines
<1>6. <<>> \o <<Title>> = <<Title>> /\ <<Title>> \o <<>> = <<Title>>
  BY <1>1
<1> HIDE DEF a, b
<1>7. Own(a \o b) = Own(a) \o Own(b) /\ Own(b \o a) = Own(b) \o Own(a)
  BY <1>2, OwnOfJoined
<1>8. p \in Seq(DocLines)
  BY <1>1, TwoLines
<1> QED BY <1>3, <1>4, <1>5, <1>6, <1>7, <1>8

\* Taking the import away moves what follows up by a line.
LEMMA LegacyMoves ==
  ASSUME NEW f \in Seq(DocLines), RemoveLegacyImport(f) # f
  PROVE  LET r == RemoveLegacyImport(f) IN
         /\ r \in Seq(DocLines) /\ Own(r) = Own(f)
         /\ Len(f) >= 2 /\ Len(r) = Len(f) - 1
         /\ f[1] \notin {Begin, End} /\ f[2] \notin {Begin, End} /\ r[1] \notin {Begin, End}
         /\ \A i \in 2..(Len(f) - 1) : r[i] = f[i + 1]
<1> DEFINE begin == IndexIn(f, Begin)
           header == IF begin = 0 THEN f ELSE Upto(f, begin - 1)
           t == After(f, 2)
           r == <<Title>> \o t
<1>1. header \in {<<Title, Import>>, <<Import, Title>>} /\ RemoveLegacyImport(f) = r
  BY DEF RemoveLegacyImport
<1>2. begin \in 0..Len(f) /\ Len(f) \in Nat
  BY FirstPlace
<1>3. Len(header) = 2 /\ header[1] \in {Title, Import} /\ header[2] \in {Title, Import}
  BY <1>1
<1>4. Len(f) >= 2 /\ header = Upto(f, 2)
  <2>1. CASE begin = 0
    <3>1. f = Upto(f, Len(f))
      <4> DEFINE n == Len(f)
                 u == Upto(f, n)
      <4>1. n \in 0..Len(f) /\ n = Len(f)
        BY <1>2
      <4> HIDE DEF n
      <4>2. u \in Seq(DocLines) /\ Len(u) = n /\ \A i \in 1..n : u[i] = f[i]
        BY <4>1, Parts
      <4> HIDE DEF u
      <4>3. u = f
        BY <4>1, <4>2, SameLines
      <4> QED BY <4>3 DEF u, n
    <3>2. header = f /\ Len(f) = 2
      BY <1>3, <2>1
    <3> QED BY <1>2, <3>1, <3>2
  <2>2. CASE begin # 0
    <3>1. begin - 1 \in 0..Len(f)
      BY <1>2, <2>2
    <3>2. Len(Upto(f, begin - 1)) = begin - 1
      BY <3>1, Parts
    <3>3. header = Upto(f, begin - 1)
      BY <2>2
    <3>4. begin - 1 = 2
      BY <1>3, <3>2, <3>3
    <3> QED BY <1>2, <3>1, <3>3, <3>4
  <2> QED BY <2>1, <2>2
<1> HIDE DEF header, begin
<1>5. 2 \in 0..Len(f)
  BY <1>2, <1>4
<1>6. /\ \A i \in 1..2 : Upto(f, 2)[i] = f[i]
      /\ t \in Seq(DocLines) /\ Len(t) = Len(f) - 2
      /\ \A i \in 1..(Len(f) - 2) : t[i] = f[2 + i]
      /\ Upto(f, 2) \in Seq(DocLines)
  BY <1>5, Parts
<1>7. f[1] \in {Title, Import} /\ f[2] \in {Title, Import}
  BY <1>3, <1>4, <1>6
<1>8. Upto(f, 2) \o t = f
  BY <1>5, Rejoined
<1> HIDE DEF t
<1> DEFINE a == <<Title>>
<1>9. a \in Seq(DocLines) /\ Len(a) = 1 /\ a[1] = Title /\ Title \in DocLines /\ IsOwn(Title)
  BY LinesAreTyped DEF IsOwn, Title, Line
<1>10. Own(a) = <<Title>>
  BY <1>9, OwnOfLine
<1>11. Own(f) = <<Title>> \o Own(t)
  <2>1. Own(f) = Own(Upto(f, 2)) \o Own(t)
    BY <1>6, <1>8, OwnOfJoined
  <2>2. Own(Upto(f, 2)) = <<Title>>
    BY <1>1, <1>4, OwnOfImport
  <2> QED BY <2>1, <2>2
<1>12. r = a \o t
  OBVIOUS
<1> HIDE DEF a, r
<1>13. /\ r \in Seq(DocLines) /\ Len(r) = Len(a) + Len(t)
       /\ \A i \in 1..Len(a) : r[i] = a[i]
       /\ \A i \in 1..Len(t) : r[Len(a) + i] = t[i]
       /\ Own(r) = Own(a) \o Own(t)
  BY <1>6, <1>9, <1>12, Joined, OwnOfJoined
<1>14. r[1] = Title
  BY <1>9, <1>13
<1>15. ASSUME NEW i \in 2..(Len(f) - 1) PROVE r[i] = f[i + 1]
  <2> DEFINE k == i - 1
  <2>1. k \in 1..(Len(f) - 2) /\ 1 + k = i /\ 2 + k = i + 1
    BY <1>2, <1>4
  <2> HIDE DEF k
  <2>2. r[1 + k] = t[k] /\ t[k] = f[2 + k]
    BY <1>6, <1>9, <1>13, <2>1
  <2> QED BY <2>1, <2>2
<1>16. Len(r) = Len(f) - 1
  BY <1>2, <1>4, <1>6, <1>9, <1>13
<1>17. Own(r) = Own(f)
  BY <1>10, <1>11, <1>13
<1>18. Title \notin {Begin, End} /\ Import \notin {Begin, End}
  BY LinesAreTyped
<1> QED BY <1>1, <1>4, <1>7, <1>13, <1>14, <1>15, <1>16, <1>17, <1>18

LEMMA LegacyKeepsBlock ==
  ASSUME NEW f \in Seq(DocLines), NEW b, PairedAt(f, b)
  PROVE  \E c : /\ PairedAt(RemoveLegacyImport(f), c)
                /\ RemoveLegacyImport(f)[c + 1] = f[b + 1]
<1>1. CASE RemoveLegacyImport(f) = f
  BY <1>1
<1>2. CASE RemoveLegacyImport(f) # f
  <2> DEFINE r == RemoveLegacyImport(f)
  <2>1. /\ r \in Seq(DocLines) /\ Len(f) >= 2 /\ Len(r) = Len(f) - 1
        /\ f[1] \notin {Begin, End} /\ f[2] \notin {Begin, End} /\ r[1] \notin {Begin, End}
        /\ \A i \in 2..(Len(f) - 1) : r[i] = f[i + 1]
    BY <1>2, LegacyMoves
  <2> HIDE DEF r
  <2>2. /\ b \in 1..(Len(f) - 2) /\ Len(f) \in Nat
        /\ f[b] = Begin /\ f[b + 1].kind = "block" /\ f[b + 2] = End
        /\ \A i \in 1..(b - 1) : f[i] # Begin
        /\ \A i \in 1..(b + 1) : f[i] # End
    BY DEF PairedAt
  <2>3. b >= 3
    BY <2>1, <2>2
  <2> DEFINE c == b - 1
  <2>4. /\ c \in 2..(Len(f) - 1) /\ c + 1 \in 2..(Len(f) - 1) /\ c + 2 \in 2..(Len(f) - 1)
        /\ c + 1 = b /\ (c + 1) + 1 = b + 1 /\ (c + 2) + 1 = b + 2
        /\ c \in 1..(Len(r) - 2)
    BY <2>1, <2>2, <2>3
  <2>5. ASSUME NEW i \in 1..(c - 1) PROVE r[i] # Begin
    <3>1. i = 1 \/ (i \in 2..(Len(f) - 1) /\ i + 1 \in 1..(b - 1))
      BY <2>2, <2>3
    <3> QED BY <2>1, <2>2, <3>1
  <2>6. ASSUME NEW i \in 1..(c + 1) PROVE r[i] # End
    <3>1. i = 1 \/ (i \in 2..(Len(f) - 1) /\ i + 1 \in 1..(b + 1))
      BY <2>2, <2>3
    <3> QED BY <2>1, <2>2, <3>1
  <2> HIDE DEF c
  <2>7. r[c] = Begin /\ r[c + 1] = f[b + 1] /\ r[c + 2] = End
    BY <2>1, <2>2, <2>4
  <2>8. PairedAt(r, c)
    BY <2>2, <2>4, <2>5, <2>6, <2>7 DEF PairedAt
  <2> QED BY <2>7, <2>8 DEF r
<1> QED BY <1>1, <1>2

LEMMA LegacyKeeps ==
  ASSUME NEW f \in Seq(DocLines)
  PROVE  /\ RemoveLegacyImport(f) \in Seq(DocLines) /\ Own(RemoveLegacyImport(f)) = Own(f)
         /\ Paired(f) => Paired(RemoveLegacyImport(f))
         /\ Neat(f) => Neat(RemoveLegacyImport(f))
<1>1. CASE RemoveLegacyImport(f) = f
  BY <1>1
<1>2. CASE RemoveLegacyImport(f) # f
  <2> DEFINE r == RemoveLegacyImport(f)
  <2>1. /\ r \in Seq(DocLines) /\ Own(r) = Own(f) /\ Len(f) >= 2 /\ Len(r) = Len(f) - 1
        /\ f[1] \notin {Begin, End} /\ f[2] \notin {Begin, End} /\ r[1] \notin {Begin, End}
        /\ \A i \in 2..(Len(f) - 1) : r[i] = f[i + 1]
        /\ Len(f) \in Nat
    BY <1>2, LegacyMoves
  <2>2. ASSUME Paired(f), \E b \in 1..Len(f) : PairedAt(f, b) PROVE Paired(r)
    <3>1. PICK b : PairedAt(f, b)
      BY <2>2
    <3>2. PICK c : PairedAt(r, c)
      BY <3>1, LegacyKeepsBlock
    <3>3. c \in 1..Len(r)
      BY <2>1, <3>2 DEF PairedAt
    <3> QED BY <3>2, <3>3 DEF Paired
  <2> HIDE DEF r
  <2>3. ASSUME NEW i \in 1..Len(r), r[i] \in {Begin, End}
        PROVE  i + 1 \in 1..Len(f) /\ f[i + 1] = r[i]
    <3>1. i \in 2..(Len(f) - 1)
      BY <2>1, <2>3
    <3> QED BY <2>1, <3>1
  <2>4. ASSUME NEW x \in {Begin, End}, ~Contains(f, x) PROVE ~Contains(r, x)
    BY <2>3, <2>4 DEF Contains
  <2>5. ASSUME Paired(f) PROVE Paired(r)
    BY <2>2, <2>4, <2>5 DEF Paired
  <2>6. ASSUME Neat(f) PROVE Neat(r)
    <3>1. CASE ~Contains(f, Begin) /\ ~Contains(f, End)
      BY <2>4, <3>1 DEF Neat
    <3>2. ASSUME NEW i \in 1..(Len(f) - 2), OneBlockAt(f, i) PROVE Neat(r)
      <4>1. /\ f[i] = Begin /\ f[i + 1].kind = "block" /\ f[i + 2] = End
            /\ \A j \in 1..Len(f) : (f[j] = Begin => j = i) /\ (f[j] = End => j = i + 2)
        BY <3>2 DEF OneBlockAt
      <4>2. i >= 3
        BY <2>1, <4>1
      <4> DEFINE c == i - 1
      <4>3. /\ c \in 2..(Len(f) - 1) /\ c + 1 \in 2..(Len(f) - 1) /\ c + 2 \in 2..(Len(f) - 1)
            /\ c + 1 = i /\ (c + 1) + 1 = i + 1 /\ (c + 2) + 1 = i + 2
            /\ c \in 1..(Len(r) - 2)
        BY <2>1, <4>2
      <4> HIDE DEF c
      <4>4. r[c] = Begin /\ r[c + 1].kind = "block" /\ r[c + 2] = End
        BY <2>1, <4>1, <4>3
      <4>5. ASSUME NEW j \in 1..Len(r)
            PROVE  (r[j] = Begin => j = c) /\ (r[j] = End => j = c + 2)
        <5>1. CASE r[j] = Begin
          <6>1. j + 1 = i
            BY <2>3, <4>1, <5>1
          <6>2. Begin # End
            BY LinesAreTyped
          <6> QED BY <4>3, <5>1, <6>1, <6>2
        <5>2. CASE r[j] = End
          <6>1. j + 1 = i + 2
            BY <2>3, <4>1, <5>2
          <6>2. Begin # End
            BY LinesAreTyped
          <6> QED BY <4>3, <5>2, <6>1, <6>2
        <5> QED BY <5>1, <5>2
      <4>6. OneBlockAt(r, c)
        <5>1. DOMAIN r = 1..Len(r)
          BY <2>1
        <5> QED BY <4>4, <4>5, <5>1 DEF OneBlockAt
      <4> QED BY <4>3, <4>6 DEF Neat
    <3> QED BY <2>6, <3>1, <3>2 DEF Neat
  <2> QED BY <2>1, <2>5, <2>6 DEF r
<1> QED BY <1>1, <1>2

-----------------------------------------------------------------------------
(* What each step makes of a document.                                      *)

\* A refreshed document has the version's block between its first markers, and the
\* lines of the user it had.
LEMMA InstalledKeeps ==
  ASSUME NEW name, NEW f \in Seq(DocLines) \cup {Absent}, NEW v \in Nat,
         f # Absent => Paired(f)
  PROVE  LET r == Installed(name, f, v) IN
         /\ r \in Seq(DocLines) /\ Paired(r)
         /\ Managed(r) = <<Block(v)>>
         /\ f # Absent => Own(r) = Own(f)
         /\ (f # Absent => Neat(f)) => Neat(r)
<1> DEFINE r == Installed(name, f, v)
<1>1. ASSUME r \in Seq(DocLines), NEW b, PairedAt(r, b), r[b + 1] = Block(v)
      PROVE  Paired(r) /\ Managed(r) = <<Block(v)>>
  <2> HIDE DEF r
  <2>1. Managed(r) = <<Block(v)>>
    BY <1>1, BothReadTheBlock
  <2>2. b \in 1..Len(r)
    BY <1>1 DEF PairedAt
  <2> QED BY <1>1, <2>1, <2>2 DEF Paired
<1>2. CASE f = Absent
  <2> DEFINE h == IF name = "claude" THEN <<Title>> ELSE <<>>
             t == <<>>
             m == BuildFile(h, v, t)
  <2>1. h \in Seq(DocLines) /\ Unmarked(h)
    <3>1. Title \in DocLines /\ Title \notin {Begin, End}
      BY LinesAreTyped
    <3>2. <<Title>> \in Seq(DocLines) /\ Unmarked(<<Title>>)
      BY <3>1 DEF Unmarked
    <3>3. <<>> \in Seq(DocLines) /\ Unmarked(<<>>)
      BY DEF Unmarked
    <3> QED BY <3>2, <3>3
  <2>2. t \in Seq(DocLines) /\ Unmarked(t)
    BY DEF Unmarked
  <2>3. r = m
    <3>1. name = "claude" => r = BuildFile(<<Title>>, v, <<>>)
      BY <1>2 DEF Installed
    <3>2. name # "claude" => r = BuildFile(<<>>, v, <<>>)
      BY <1>2 DEF Installed
    <3> QED BY <3>1, <3>2
  <2> HIDE DEF h, t
  <2>4. /\ m \in Seq(DocLines)
        /\ PairedAt(m, Len(h) + 1) /\ m[Len(h) + 2] = Block(v) /\ Neat(m)
    BY <2>1, <2>2, Built
  <2> HIDE DEF m, r
  <2> DEFINE b == Len(h) + 1
  <2>5. b + 1 = Len(h) + 2
    <3>1. Len(h) \in Nat
      BY <2>1
    <3> QED BY <3>1
  <2>6. PairedAt(r, b) /\ r[b + 1] = Block(v) /\ r \in Seq(DocLines)
    BY <2>3, <2>4, <2>5
  <2> HIDE DEF b
  <2>7. Paired(r) /\ Managed(r) = <<Block(v)>>
    BY <1>1, <2>6
  <2> QED BY <1>2, <2>3, <2>4, <2>6, <2>7 DEF r
<1>3. CASE f # Absent /\ name # "claude"
  <2>1. f \in Seq(DocLines) /\ Paired(f)
    BY <1>3
  <2>2. r = Merge(f, v)
    BY <1>3 DEF Installed
  <2> HIDE DEF r
  <2>3. /\ r \in Seq(DocLines) /\ Own(r) = Own(f) /\ (Neat(f) => Neat(r))
        /\ \E b : PairedAt(r, b) /\ r[b + 1] = Block(v)
    BY <2>1, <2>2, MergeKeeps
  <2>4. Paired(r) /\ Managed(r) = <<Block(v)>>
    BY <1>1, <2>3
  <2> QED BY <1>3, <2>3, <2>4 DEF r
<1>4. CASE f # Absent /\ name = "claude"
  <2>1. f \in Seq(DocLines) /\ Paired(f)
    BY <1>4
  <2> DEFINE a == RemoveLegacyImport(f)
             m == Merge(a, v)
  <2>2. r = RemoveLegacyImport(m)
    BY <1>4 DEF Installed
  <2>3. /\ a \in Seq(DocLines) /\ Own(a) = Own(f) /\ Paired(a) /\ (Neat(f) => Neat(a))
    BY <2>1, LegacyKeeps
  <2> HIDE DEF a
  <2>4. /\ m \in Seq(DocLines) /\ Own(m) = Own(a) /\ (Neat(a) => Neat(m))
        /\ \E b : PairedAt(m, b) /\ m[b + 1] = Block(v)
    BY <2>3, MergeKeeps
  <2> HIDE DEF m, r
  <2>5. PICK b : PairedAt(m, b) /\ m[b + 1] = Block(v)
    BY <2>4
  <2>6. /\ r \in Seq(DocLines) /\ Own(r) = Own(m) /\ (Neat(m) => Neat(r))
    BY <2>2, <2>4, LegacyKeeps
  <2>7. \E c : PairedAt(r, c) /\ r[c + 1] = Block(v)
    BY <2>2, <2>4, <2>5, LegacyKeepsBlock
  <2>8. Paired(r) /\ Managed(r) = <<Block(v)>>
    BY <1>1, <2>6, <2>7
  <2> QED BY <1>4, <2>3, <2>4, <2>6, <2>8 DEF r
<1> QED BY <1>2, <1>3, <1>4

LEMMA NeatIsPaired == ASSUME NEW f \in Seq(DocLines), Neat(f) PROVE Paired(f)
<1>1. ASSUME NEW i \in 1..(Len(f) - 2), OneBlockAt(f, i) PROVE Paired(f)
  <2>1. Len(f) \in Nat /\ i \in 1..Len(f) /\ DOMAIN f = 1..Len(f)
    OBVIOUS
  <2>2. \A j \in 1..Len(f) : (f[j] = Begin => j = i) /\ (f[j] = End => j = i + 2)
    BY <1>1, <2>1 DEF OneBlockAt
  <2>3. \A j \in 1..(i - 1) : f[j] # Begin
    BY <2>1, <2>2
  <2>4. \A j \in 1..(i + 1) : f[j] # End
    BY <2>1, <2>2
  <2>5. PairedAt(f, i)
    BY <1>1, <2>3, <2>4 DEF OneBlockAt, PairedAt
  <2> QED BY <2>1, <2>5 DEF Paired
<1> QED BY <1>1 DEF Neat, Paired

\* A line of the user's outside the block leaves the block where the code finds it.
LEMMA AddedLineKeeps ==
  ASSUME NEW f \in Seq(DocLines), Paired(f), NEW x \in {Title, Text}, NEW i \in 0..Len(f),
         i < IndexIn(f, Begin) \/ i >= IndexIn(f, End)
  PROVE  LET r == Upto(f, i) \o <<x>> \o After(f, i) IN
         r \in Seq(DocLines) /\ Paired(r)
<1> DEFINE a == Upto(f, i)
           k == <<x>>
           t == After(f, i)
           h == a \o k
           r == h \o t
<1>1. Len(f) \in Nat /\ i \in Nat /\ x \in DocLines /\ x \notin {Begin, End}
  BY LinesAreTyped
<1>2. /\ a \in Seq(DocLines) /\ Len(a) = i /\ \A j \in 1..i : a[j] = f[j]
      /\ t \in Seq(DocLines) /\ Len(t) = Len(f) - i
      /\ \A j \in 1..(Len(f) - i) : t[j] = f[i + j]
  BY Parts
<1>3. k \in Seq(DocLines) /\ Len(k) = 1 /\ k[1] = x
  BY <1>1
<1> HIDE DEF a, k, t
<1>4. /\ h \in Seq(DocLines) /\ Len(h) = Len(a) + Len(k)
      /\ \A j \in 1..Len(a) : h[j] = a[j]
      /\ \A j \in 1..Len(k) : h[Len(a) + j] = k[j]
  BY <1>2, <1>3, Joined
<1>5. Len(h) = i + 1 /\ h[i + 1] = x /\ \A j \in 1..i : h[j] = f[j]
  <2>1. 1 \in 1..Len(k)
    BY <1>3
  <2> QED BY <1>2, <1>3, <1>4, <2>1
<1> HIDE DEF h
<1>6. /\ r \in Seq(DocLines) /\ Len(r) = Len(h) + Len(t)
      /\ \A j \in 1..Len(h) : r[j] = h[j]
      /\ \A j \in 1..Len(t) : r[Len(h) + j] = t[j]
  BY <1>2, <1>4, Joined
<1> HIDE DEF r
<1>7. Len(r) = Len(f) + 1
  BY <1>1, <1>2, <1>5, <1>6
<1>8. ASSUME NEW j \in 1..i PROVE r[j] = f[j]
  <2>1. j \in 1..Len(h)
    BY <1>1, <1>5
  <2> QED BY <1>5, <1>6, <2>1
<1>9. r[i + 1] = x
  <2>1. i + 1 \in 1..Len(h)
    BY <1>1, <1>5
  <2> QED BY <1>5, <1>6, <2>1
<1>10. ASSUME NEW j \in (i + 1)..Len(f) PROVE r[j + 1] = f[j]
  <2> DEFINE l == j - i
  <2>1. l \in 1..(Len(f) - i) /\ l \in 1..Len(t) /\ Len(h) + l = j + 1 /\ i + l = j
    BY <1>1, <1>2, <1>5
  <2> HIDE DEF l
  <2>2. r[Len(h) + l] = t[l] /\ t[l] = f[i + l]
    BY <1>2, <1>6, <2>1
  <2> QED BY <2>1, <2>2
<1>11. ASSUME NEW y \in {Begin, End}, NEW j \in 1..Len(r), r[j] = y
       PROVE  \/ j \in 1..i /\ f[j] = y
              \/ j - 1 \in (i + 1)..Len(f) /\ f[j - 1] = y
  <2>1. CASE j \in 1..i
    BY <1>8, <1>11, <2>1
  <2>2. CASE j = i + 1
    BY <1>1, <1>9, <1>11, <2>2
  <2>3. CASE j > i + 1
    <3> DEFINE l == j - 1
    <3>1. l \in (i + 1)..Len(f) /\ l + 1 = j
      BY <1>1, <1>7, <2>3
    <3> HIDE DEF l
    <3>2. r[l + 1] = f[l]
      BY <1>10, <3>1
    <3>3. f[l] = y
      BY <1>11, <3>1, <3>2
    <3> QED BY <3>1, <3>3 DEF l
  <2> QED BY <1>1, <1>7, <2>1, <2>2, <2>3
<1>12. ASSUME NEW y \in {Begin, End}, ~Contains(f, y) PROVE ~Contains(r, y)
  <2>1. ASSUME NEW j \in 1..Len(r), r[j] = y PROVE FALSE
    <3>1. (j \in 1..Len(f) /\ f[j] = y) \/ (j - 1 \in 1..Len(f) /\ f[j - 1] = y)
      BY <1>1, <1>11, <2>1
    <3> QED BY <1>12, <3>1 DEF Contains
  <2> QED BY <2>1 DEF Contains
<1>13. ASSUME NEW b \in 1..Len(f), PairedAt(f, b) PROVE \E c \in 1..Len(r) : PairedAt(r, c)
  <2>1. /\ b \in 1..(Len(f) - 2)
        /\ f[b] = Begin /\ f[b + 1].kind = "block" /\ f[b + 2] = End
        /\ \A j \in 1..(b - 1) : f[j] # Begin
        /\ \A j \in 1..(b + 1) : f[j] # End
    BY <1>13 DEF PairedAt
  <2>2. IndexIn(f, Begin) = b /\ IndexIn(f, End) = b + 2
    BY <1>13, PairedPlaces
  <2>3. CASE i < b
    <3> DEFINE c == b + 1
    <3>1. /\ c \in 1..Len(r) /\ c \in 1..(Len(r) - 2)
          /\ b \in (i + 1)..Len(f) /\ b + 1 \in (i + 1)..Len(f) /\ b + 2 \in (i + 1)..Len(f)
          /\ c = b + 1 /\ c + 1 = (b + 1) + 1 /\ c + 2 = (b + 2) + 1
      BY <1>1, <1>7, <2>1, <2>3
    <3> HIDE DEF c
    <3>2. r[c] = Begin /\ r[c + 1].kind = "block" /\ r[c + 2] = End
      <4>1. r[b + 1] = f[b] /\ r[(b + 1) + 1] = f[b + 1] /\ r[(b + 2) + 1] = f[b + 2]
        BY <1>10, <3>1
      <4> QED BY <2>1, <3>1, <4>1
    <3>3. ASSUME NEW j \in 1..(c - 1) PROVE r[j] # Begin
      <4>1. j \in 1..Len(r) /\ j # b + 1 /\ (j \in 1..i => j \in 1..(b - 1))
            /\ (j - 1 \in (i + 1)..Len(f) => j - 1 \in 1..(b - 1))
        BY <1>1, <1>7, <2>1, <2>3, <3>1
      <4> QED BY <1>11, <2>1, <4>1
    <3>4. ASSUME NEW j \in 1..(c + 1) PROVE r[j] # End
      <4>1. j \in 1..Len(r) /\ (j \in 1..i => j \in 1..(b + 1))
            /\ (j - 1 \in (i + 1)..Len(f) => j - 1 \in 1..(b + 1))
        BY <1>1, <1>7, <2>1, <2>3, <3>1
      <4> QED BY <1>11, <2>1, <4>1
    <3>5. PairedAt(r, c)
      BY <3>1, <3>2, <3>3, <3>4 DEF PairedAt
    <3> QED BY <3>1, <3>5
  <2>4. CASE i >= b + 2
    <3>1. /\ b \in 1..Len(r) /\ b \in 1..(Len(r) - 2)
          /\ b \in 1..i /\ b + 1 \in 1..i /\ b + 2 \in 1..i
      BY <1>1, <1>7, <2>1, <2>4
    <3>2. r[b] = Begin /\ r[b + 1].kind = "block" /\ r[b + 2] = End
      BY <1>8, <2>1, <3>1
    <3>3. ASSUME NEW j \in 1..(b - 1) PROVE r[j] # Begin
      <4>1. j \in 1..i
        BY <3>1
      <4> QED BY <1>8, <2>1, <4>1
    <3>4. ASSUME NEW j \in 1..(b + 1) PROVE r[j] # End
      <4>1. j \in 1..i
        BY <3>1
      <4> QED BY <1>8, <2>1, <4>1
    <3>5. PairedAt(r, b)
      BY <3>1, <3>2, <3>3, <3>4 DEF PairedAt
    <3> QED BY <3>1, <3>5
  <2> QED BY <1>1, <2>1, <2>2, <2>3, <2>4
<1>14. Paired(r)
  BY <1>12, <1>13 DEF Paired
<1> QED BY <1>6, <1>14 DEF r, h, a, k, t

\* Without one of its markers a file has no block, and every line of the user's.
LEMMA RemovedMarkerKeeps ==
  ASSUME NEW f \in Seq(DocLines), Neat(f), NEW i \in 1..Len(f), f[i] \in {Begin, End}
  PROVE  LET r == Upto(f, i - 1) \o After(f, i) IN
         r \in Seq(DocLines) /\ Own(r) = Own(f) /\ Paired(r)
<1> DEFINE p == i - 1
           a == Upto(f, p)
           t == After(f, i)
           r == a \o t
<1>1. Len(f) \in Nat /\ p \in 0..Len(f) /\ p + 1 = i /\ i \in 0..Len(f) /\ i \in p..Len(f)
  OBVIOUS
<1>2. ASSUME NEW k \in (p + 1)..i PROVE ~IsOwn(f[k])
  <2>1. k = i
    BY <1>1
  <2> QED BY <2>1, LinesAreTyped
<1> HIDE DEF p
<1>3. Own(f) = Own(a) \o Own(t)
  BY <1>1, <1>2, OwnWithout
<1>4. a \in Seq(DocLines) /\ Len(a) = p /\ \A j \in 1..p : a[j] = f[j]
  BY <1>1, Parts
<1>5. /\ t \in Seq(DocLines) /\ Len(t) = Len(f) - i
      /\ \A j \in 1..(Len(f) - i) : t[j] = f[i + j]
  BY <1>1, Parts
<1> HIDE DEF a, t
<1>6. /\ r \in Seq(DocLines) /\ Len(r) = Len(a) + Len(t)
      /\ \A j \in 1..Len(a) : r[j] = a[j]
      /\ \A j \in 1..Len(t) : r[Len(a) + j] = t[j]
      /\ Own(r) = Own(a) \o Own(t)
  BY <1>4, <1>5, Joined, OwnOfJoined
<1> HIDE DEF r
<1>7. ASSUME NEW j \in 1..Len(r)
      PROVE  \E l \in 1..Len(f) : l # i /\ r[j] = f[l]
  <2>1. CASE j \in 1..p
    <3>1. j \in 1..Len(f) /\ j # i
      BY <1>1, <2>1
    <3> QED BY <1>4, <1>6, <2>1, <3>1
  <2>2. CASE j > p
    <3> DEFINE l == j - p
               q == i + l
    <3>1. l \in 1..Len(t) /\ l \in 1..(Len(f) - i) /\ Len(a) + l = j
          /\ q \in 1..Len(f) /\ q # i
      BY <1>1, <1>4, <1>5, <1>6, <2>2
    <3>2. r[Len(a) + l] = t[l] /\ t[l] = f[q]
      BY <1>5, <1>6, <3>1
    <3> HIDE DEF l, q
    <3> QED BY <3>1, <3>2
  <2> QED BY <1>1, <2>1, <2>2
<1>8. ASSUME NEW y \in {Begin, End}, f[i] = y PROVE ~Contains(r, y)
  <2>1. PICK c \in 1..(Len(f) - 2) : OneBlockAt(f, c)
    <3>1. Contains(f, y)
      BY <1>8 DEF Contains
    <3> QED BY <3>1 DEF Neat
  <2>2. DOMAIN f = 1..Len(f) /\ Begin # End
    BY LinesAreTyped
  <2>3. \A l \in 1..Len(f) : f[l] = y => l = i
    BY <1>8, <2>1, <2>2 DEF OneBlockAt
  <2>4. \A j \in 1..Len(r) : r[j] # y
    BY <1>7, <2>3
  <2> QED BY <2>4 DEF Contains
<1>9. Paired(r)
  BY <1>8 DEF Paired
<1> QED BY <1>3, <1>6, <1>9 DEF r, p, a, t

-----------------------------------------------------------------------------
(* The inductive invariant: every document has the block between its first  *)
(* markers or is without one of them, which only a marker that the user     *)
(* removed undoes; what a refresh compared or wrote and nobody touched      *)
(* since is still so.                                                       *)

ProjectTyped ==
  /\ doc \in [Docs -> Seq(DocLines) \cup {Absent}]
  /\ mine \in [Docs -> Seq(DocLines)]
  /\ edits \in Nat

DocsArePaired ==
  \A d \in Docs : doc[d] # Absent => Paired(doc[d]) /\ (edits = 0 => Neat(doc[d]))

StillRefreshed == "files" \notin touched => (\A f \in Required : CanRead(f)) /\ Matches
StillIgnored == "ignore" \notin touched => Ignored

ProjectInv ==
  SkillInv /\ ProjectTyped /\ DocsArePaired /\ UserLinesSurvive /\ StillRefreshed /\ StillIgnored

\* The readings of two implementations agree on what a refresh has compared.
LEMMA InvariantMeansAgreement == ProjectInv => DoctorAgrees
<1> SUFFICES ASSUME ProjectInv, touched = {} PROVE DoctorFindings = {}
  BY DEF DoctorAgrees
<1>1. /\ \A f \in Required : CanRead(f)
      /\ \A d \in Docs : doc[d] # Absent /\ Managed(doc[d]) = <<Block(skill.tree["policy"])>>
      /\ launcher = skill.tree["launcher"] /\ Ignored
  BY DEF ProjectInv, StillRefreshed, StillIgnored, Matches
<1> DEFINE v == skill.tree["policy"]
<1>2. v \in Nat /\ launcher # 0
  <2>1. CanRead("policy") /\ CanRead("launcher")
    BY <1>1, ProjectAssumption
  <2>2. {"policy", "launcher"} \subseteq Files
    BY SkillAssumption, ProjectAssumption
  <2>3. skill \in Skills
    BY <2>1 DEF ProjectInv, SkillInv, Typed, CanRead
  <2>4. v \in Nat
    BY <2>2, <2>3 DEF Skills, Trees
  <2> QED BY <1>1, <2>1, <2>4 DEF CanRead
<1>3. v = skill.tree["policy"]
  OBVIOUS
<1> HIDE DEF v
<1>4. ASSUME NEW d \in Docs PROVE doc[d] # Absent /\ DoctorBlock(doc[d]) = <<Block(v)>>
  <2> DEFINE f == doc[d]
  <2>1. f \in Seq(DocLines) /\ Paired(f) /\ f # Absent /\ Managed(f) = <<Block(v)>>
    BY <1>1, <1>3 DEF ProjectInv, ProjectTyped, DocsArePaired
  <2> HIDE DEF f
  <2>2. <<Block(v)>> \in Seq(DocLines)
    <3>1. Block(v) \in DocLines
      BY <1>2, LinesAreTyped
    <3> QED BY <3>1
  <2>3. Contains(f, Begin) /\ Contains(f, End)
    BY <2>1, <2>2, DocsAssumption DEF Managed
  <2>4. PICK b \in 1..Len(f) : PairedAt(f, b)
    BY <2>1, <2>3 DEF Paired
  <2>5. DoctorBlock(f) = Managed(f)
    BY <2>1, <2>4, BothReadTheBlock
  <2> QED BY <2>1, <2>5 DEF f
<1>5. ~Outdated
  BY <1>1, <1>3, <1>4 DEF Outdated
<1> QED BY <1>1, <1>2, <1>4, <1>5 DEF DoctorFindings

LEMMA ProjectInitially == ProjectInit => ProjectInv
<1> SUFFICES ASSUME ProjectInit PROVE ProjectInv
  OBVIOUS
<1>1. SkillInv
  BY SkillInitHolds DEF ProjectInit
<1>2. PICK old \in OldDocs : doc = [d \in Docs |-> IF d = "claude" THEN old ELSE Absent]
  BY DEF ProjectInit
<1>3. old = Absent \/ (old \in Seq(DocLines) /\ Neat(old))
  BY DocsAssumption
<1>4. ASSUME NEW d \in Docs PROVE doc[d] = Absent \/ (doc[d] \in Seq(DocLines) /\ Neat(doc[d]))
  BY <1>2, <1>3
<1>5. doc \in [Docs -> Seq(DocLines) \cup {Absent}]
  BY <1>2, <1>3
<1>6. mine = [d \in Docs |-> IF doc[d] = Absent THEN <<>> ELSE Own(doc[d])]
  BY DEF ProjectInit
<1>7. mine \in [Docs -> Seq(DocLines)]
  <2>1. ASSUME NEW d \in Docs
        PROVE  (IF doc[d] = Absent THEN <<>> ELSE Own(doc[d])) \in Seq(DocLines)
    <3>1. CASE doc[d] = Absent
      <4>1. <<>> \in Seq(DocLines)
        OBVIOUS
      <4> QED BY <3>1, <4>1
    <3>2. CASE doc[d] # Absent
      BY <1>4, <3>2, OwnIsTyped
    <3> QED BY <3>1, <3>2
  <2> QED BY <1>6, <2>1
<1>8. edits = 0 /\ touched = {"files", "ignore"}
  BY DEF ProjectInit
<1>9. DocsArePaired
  BY <1>4, NeatIsPaired DEF DocsArePaired
<1>10. UserLinesSurvive
  BY <1>6 DEF UserLinesSurvive
<1> QED BY <1>1, <1>5, <1>7, <1>8, <1>9, <1>10
     DEF ProjectInv, ProjectTyped, StillRefreshed, StillIgnored

\* What the steps that leave the documents alone keep.
LEMMA DocsAreKept ==
  ASSUME ProjectInv, doc' = doc, mine' = mine, edits' \in Nat, edits' = 0 => edits = 0
  PROVE  ProjectTyped' /\ DocsArePaired' /\ UserLinesSurvive'
BY DEF ProjectInv, ProjectTyped, DocsArePaired, UserLinesSurvive

LEMMA WritePolicyKeeps ==
  ASSUME ProjectInv, NEW u \in Updaters, WritePolicy(u), UNCHANGED skillVars
  PROVE  ProjectInv'
<1>1. SkillInv'
  BY TypedIsKept, OnlyCompleteIsKept, KeptIsKept DEF ProjectInv, SkillInv
<1>2. UNCHANGED <<launcher, retired, gitignore, exclude, edits, touched, skill>>
  BY DEF WritePolicy, ReadFails, skillVars
<1>3. StillIgnored'
  BY <1>2 DEF ProjectInv, StillIgnored, Ignored
<1>4. CASE ReadFails(u, "policy", "policy")
  <2>1. doc' = doc /\ mine' = mine /\ edits' \in Nat /\ (edits' = 0 => edits = 0)
    BY <1>2, <1>4 DEF ReadFails, ProjectInv, ProjectTyped
  <2>2. StillRefreshed'
    BY <1>2, <2>1 DEF ProjectInv, StillRefreshed, CanRead, Matches
  <2> QED BY <1>1, <1>3, <2>1, <2>2, DocsAreKept DEF ProjectInv
<1>5. CASE ~ReadFails(u, "policy", "policy")
  <2> DEFINE v == skill.tree["policy"]
  <2>1. /\ CanRead("policy")
        /\ doc' = [d \in Docs |-> Installed(d, doc[d], v)]
        /\ mine' = [d \in Docs |-> IF doc[d] = Absent THEN Own(doc'[d]) ELSE mine[d]]
    BY <1>5 DEF WritePolicy
  <2>2. v \in Nat
    <3>1. "policy" \in Files
      BY SkillAssumption, ProjectAssumption
    <3>2. skill \in Skills
      BY <2>1 DEF ProjectInv, SkillInv, Typed, CanRead
    <3> QED BY <3>1, <3>2 DEF Skills, Trees
  <2>3. v = skill'.tree["policy"]
    BY <1>2
  <2> HIDE DEF v
  <2>4. ASSUME NEW d \in Docs
        PROVE  /\ doc'[d] \in Seq(DocLines) /\ Paired(doc'[d])
               /\ Managed(doc'[d]) = <<Block(v)>>
               /\ doc[d] # Absent => Own(doc'[d]) = Own(doc[d])
               /\ edits = 0 => Neat(doc'[d])
    <3> DEFINE f == doc[d]
               r == Installed(d, f, v)
    <3>1. f \in Seq(DocLines) \cup {Absent} /\ (f # Absent => Paired(f))
          /\ (edits = 0 => (f # Absent => Neat(f)))
      BY DEF ProjectInv, ProjectTyped, DocsArePaired
    <3>2. doc'[d] = r
      BY <2>1
    <3> HIDE DEF f
    <3>3. /\ r \in Seq(DocLines) /\ Paired(r)
          /\ Managed(r) = <<Block(v)>>
          /\ f # Absent => Own(r) = Own(f)
          /\ (f # Absent => Neat(f)) => Neat(r)
      BY <2>2, <3>1, InstalledKeeps
    <3> HIDE DEF r
    <3> QED BY <3>1, <3>2, <3>3 DEF f
  <2>5. ASSUME NEW d \in Docs PROVE doc'[d] # Absent /\ Own(doc'[d]) = mine'[d]
    <3>1. doc'[d] # Absent
      BY <2>4, DocsAssumption
    <3>2. CASE doc[d] = Absent
      BY <2>1, <3>1, <3>2
    <3>3. CASE doc[d] # Absent
      BY <2>1, <2>4, <3>1, <3>3 DEF ProjectInv, UserLinesSurvive
    <3> QED BY <3>2, <3>3
  <2>6. ProjectTyped'
    <3>1. \A d \in Docs : mine'[d] \in Seq(DocLines)
      BY <2>4, <2>5, OwnIsTyped
    <3>2. mine' \in [Docs -> Seq(DocLines)]
      BY <2>1, <3>1
    <3>3. doc' \in [Docs -> Seq(DocLines) \cup {Absent}]
      BY <2>1, <2>4
    <3> QED BY <1>2, <3>2, <3>3 DEF ProjectInv, ProjectTyped
  <2>7. DocsArePaired' /\ UserLinesSurvive'
    BY <1>2, <2>4, <2>5 DEF DocsArePaired, UserLinesSurvive
  <2>8. StillRefreshed'
    BY <1>2, <2>3, <2>4, <2>5 DEF ProjectInv, StillRefreshed, CanRead, Matches
  <2> QED BY <1>1, <1>3, <2>6, <2>7, <2>8 DEF ProjectInv
<1> QED BY <1>4, <1>5

\* The other steps of an updater change no document.
LEMMA RefreshKeeps ==
  ASSUME ProjectInv, NEW u \in Updaters, UNCHANGED skillVars,
         StartRefresh(u) \/ WriteLauncher(u) \/ WriteIgnore(u) \/ Verify(u) \/ Doctor(u)
  PROVE  ProjectInv'
<1>1. SkillInv'
  BY TypedIsKept, OnlyCompleteIsKept, KeptIsKept DEF ProjectInv, SkillInv
<1>2. doc' = doc /\ mine' = mine /\ edits' = edits /\ skill' = skill
  BY DEF StartRefresh, WriteLauncher, WriteIgnore, Verify, Doctor, ReadFails, skillVars
<1>3. ProjectTyped' /\ DocsArePaired' /\ UserLinesSurvive'
  BY <1>2, DocsAreKept DEF ProjectInv, ProjectTyped
<1>4. /\ StillRefreshed /\ StillIgnored
  BY DEF ProjectInv
<1>5. CASE StartRefresh(u)
  BY <1>1, <1>2, <1>3, <1>4, <1>5
  DEF StartRefresh, ProjectInv, StillRefreshed, StillIgnored, Matches, Ignored, CanRead
<1>6. CASE WriteLauncher(u)
  <2>1. launcher' = launcher \/ launcher' = skill.tree["launcher"]
    BY <1>6 DEF WriteLauncher, ReadFails
  <2>2. UNCHANGED <<retired, gitignore, exclude, touched>>
    BY <1>6 DEF WriteLauncher, ReadFails
  <2> QED BY <1>1, <1>2, <1>3, <1>4, <2>1, <2>2
       DEF ProjectInv, StillRefreshed, StillIgnored, Matches, Ignored, CanRead
<1>7. CASE WriteIgnore(u)
  <2>1. /\ UNCHANGED <<launcher, retired>> /\ touched' = touched \ {"ignore"}
        /\ \/ LocalRules \subseteq exclude'
           \/ RuntimeRules \subseteq gitignore'
    BY <1>7 DEF WriteIgnore, IgnoreRules
  <2>2. StillRefreshed'
    BY <1>2, <1>4, <2>1 DEF StillRefreshed, Matches, CanRead
  <2>3. StillIgnored'
    BY <2>1 DEF StillIgnored, Ignored
  <2> QED BY <1>1, <1>3, <2>2, <2>3 DEF ProjectInv
<1>8. CASE Verify(u)
  <2>1. UNCHANGED <<launcher, retired, gitignore, exclude>>
    BY <1>8 DEF Verify, ReadFails
  <2>2. CASE touched' = touched
    BY <1>1, <1>2, <1>3, <1>4, <2>1, <2>2
    DEF ProjectInv, StillRefreshed, StillIgnored, Matches, Ignored, CanRead
  <2>3. CASE touched' # touched
    <3>1. (\A f \in Required : CanRead(f)) /\ Matches /\ touched' = touched \ {"files"}
      BY <1>8, <2>3 DEF Verify, ReadFails
    <3>2. StillRefreshed'
      BY <1>2, <2>1, <3>1 DEF StillRefreshed, Matches, CanRead
    <3>3. StillIgnored'
      BY <1>4, <2>1, <3>1 DEF StillIgnored, Ignored
    <3> QED BY <1>1, <1>3, <3>2, <3>3 DEF ProjectInv
  <2> QED BY <2>2, <2>3
<1>9. CASE Doctor(u)
  <2>1. UNCHANGED <<launcher, retired, gitignore, exclude, touched>>
    BY <1>9 DEF Doctor
  <2> QED BY <1>1, <1>2, <1>3, <1>4, <2>1
       DEF ProjectInv, StillRefreshed, StillIgnored, Matches, Ignored, CanRead
<1> QED BY <1>5, <1>6, <1>7, <1>8, <1>9

\* The user's edits: the block stays where the code finds it, or a marker is gone.
LEMMA EditKeeps ==
  ASSUME ProjectInv, UserEdits, UNCHANGED skillVars
  PROVE  ProjectInv'
<1>1. SkillInv'
  BY TypedIsKept, OnlyCompleteIsKept, KeptIsKept DEF ProjectInv, SkillInv
<1>2. touched' = {"files", "ignore"} /\ edits' \in Nat /\ edits' # 0
  BY DEF UserEdits, ProjectInv, ProjectTyped
<1>3. StillRefreshed' /\ StillIgnored'
  BY <1>2 DEF StillRefreshed, StillIgnored
<1>4. CASE ChangeLauncher \/ ChangeIgnore
  <2>1. doc' = doc /\ mine' = mine
    BY <1>4 DEF ChangeLauncher, ChangeIgnore
  <2> QED BY <1>1, <1>2, <1>3, <2>1, DocsAreKept DEF ProjectInv
<1>5. ASSUME NEW d \in Docs, NEW r \in Seq(DocLines), doc[d] # Absent, Paired(r),
             doc' = [doc EXCEPT ![d] = r], mine' = [mine EXCEPT ![d] = Own(r)]
      PROVE  ProjectInv'
  <2>1. ProjectTyped'
    BY <1>2, <1>5, OwnIsTyped DEF ProjectInv, ProjectTyped
  <2>2. ASSUME NEW e \in Docs, doc'[e] # Absent PROVE Paired(doc'[e]) /\ Own(doc'[e]) = mine'[e]
    <3>1. CASE e = d
      BY <1>5, <3>1 DEF ProjectInv, ProjectTyped
    <3>2. CASE e # d
      <4>1. doc'[e] = doc[e] /\ mine'[e] = mine[e]
        BY <1>5, <3>2 DEF ProjectInv, ProjectTyped
      <4> QED BY <2>2, <4>1 DEF ProjectInv, DocsArePaired, UserLinesSurvive
    <3> QED BY <3>1, <3>2
  <2>3. DocsArePaired' /\ UserLinesSurvive'
    BY <1>2, <2>2 DEF DocsArePaired, UserLinesSurvive
  <2> QED BY <1>1, <1>3, <2>1, <2>3 DEF ProjectInv
<1>6. ASSUME NEW d \in Docs, AddLine(d) PROVE ProjectInv'
  <2> DEFINE f == doc[d]
  <2>1. f # Absent /\ f \in Seq(DocLines) /\ Paired(f)
    BY <1>6 DEF AddLine, ProjectInv, ProjectTyped, DocsArePaired
  <2>2. PICK i \in 0..Len(f), x \in {Title, Text} :
          /\ i < IndexIn(f, Begin) \/ i >= IndexIn(f, End)
          /\ doc' = [doc EXCEPT ![d] = Upto(f, i) \o <<x>> \o After(f, i)]
          /\ mine' = [mine EXCEPT ![d] = Own(doc'[d])]
    BY <1>6 DEF AddLine
  <2>3. f = doc[d]
    OBVIOUS
  <2> HIDE DEF f
  <2> DEFINE r == Upto(f, i) \o <<x>> \o After(f, i)
  <2>4. r \in Seq(DocLines) /\ Paired(r)
    BY <2>1, <2>2, AddedLineKeeps
  <2>5. doc' = [doc EXCEPT ![d] = r]
    BY <2>2
  <2> HIDE DEF r
  <2>6. doc'[d] = r
    BY <2>5 DEF ProjectInv, ProjectTyped
  <2>7. mine' = [mine EXCEPT ![d] = Own(r)]
    BY <2>2, <2>6
  <2> QED BY <1>5, <2>1, <2>3, <2>4, <2>5, <2>7
<1>7. ASSUME NEW d \in Docs, RemoveMarker(d) PROVE ProjectInv'
  <2> DEFINE f == doc[d]
  <2>1. f # Absent /\ f \in Seq(DocLines) /\ Neat(f) /\ mine' = mine /\ Own(f) = mine[d]
    BY <1>7 DEF RemoveMarker, ProjectInv, ProjectTyped, DocsArePaired, UserLinesSurvive
  <2>2. PICK i \in DOMAIN f :
          f[i] \in {Begin, End} /\ doc' = [doc EXCEPT ![d] = Upto(f, i - 1) \o After(f, i)]
    BY <1>7 DEF RemoveMarker
  <2>3. f = doc[d]
    OBVIOUS
  <2> HIDE DEF f
  <2>4. i \in 1..Len(f)
    BY <2>1, <2>2
  <2> DEFINE r == Upto(f, i - 1) \o After(f, i)
  <2>5. r \in Seq(DocLines) /\ Own(r) = Own(f) /\ Paired(r)
    BY <2>1, <2>2, <2>4, RemovedMarkerKeeps
  <2>6. doc' = [doc EXCEPT ![d] = r]
    BY <2>2
  <2> HIDE DEF r
  <2>7. mine' = [mine EXCEPT ![d] = Own(r)]
    BY <2>1, <2>5 DEF ProjectInv, ProjectTyped
  <2> QED BY <1>5, <2>1, <2>3, <2>5, <2>6, <2>7
<1> QED BY <1>4, <1>6, <1>7 DEF UserEdits

LEMMA InstallKeeps ==
  ASSUME ProjectInv, Install
  PROVE  ProjectInv'
<1>1. SkillInv'
  BY TypedIsKept, OnlyCompleteIsKept, KeptIsKept DEF ProjectInv, SkillInv, Install
<1>2. UNCHANGED <<doc, launcher, retired, gitignore, exclude, edits, mine>>
  BY DEF Install
<1>3. ProjectTyped' /\ DocsArePaired' /\ UserLinesSurvive'
  BY <1>2, DocsAreKept DEF ProjectInv, ProjectTyped
<1>4. touched' = IF skill' = skill THEN touched ELSE touched \cup {"files"}
  BY DEF Install
<1>5. StillIgnored'
  BY <1>2, <1>4 DEF ProjectInv, StillIgnored, Ignored
<1>6. StillRefreshed'
  BY <1>2, <1>4 DEF ProjectInv, StillRefreshed, Matches, CanRead
<1> QED BY <1>1, <1>3, <1>5, <1>6 DEF ProjectInv

LEMMA ProjectInvKept == ProjectInv /\ [ProjectNext]_refreshVars => ProjectInv'
<1> SUFFICES ASSUME ProjectInv, [ProjectNext]_refreshVars PROVE ProjectInv'
  OBVIOUS
<1>1. CASE Install
  BY <1>1, InstallKeeps
<1>2. CASE ProjectStep
  BY <1>2, WritePolicyKeeps, RefreshKeeps, EditKeeps DEF ProjectStep
<1>3. CASE UNCHANGED refreshVars
  <2>1. UNCHANGED skillVars /\ UNCHANGED projectVars
    BY <1>3 DEF refreshVars
  <2>2. SkillInv'
    BY <2>1, TypedIsKept, OnlyCompleteIsKept, KeptIsKept DEF ProjectInv, SkillInv
  <2>3. UNCHANGED <<skill, doc, launcher, retired, gitignore, exclude, edits, mine, touched>>
    BY <2>1 DEF skillVars, projectVars
  <2>4. ProjectTyped' /\ DocsArePaired' /\ UserLinesSurvive'
    BY <2>3, DocsAreKept DEF ProjectInv, ProjectTyped
  <2>5. StillRefreshed' /\ StillIgnored'
    BY <2>3 DEF ProjectInv, StillRefreshed, StillIgnored, Matches, Ignored, CanRead
  <2> QED BY <2>2, <2>4, <2>5 DEF ProjectInv
<1> QED BY <1>1, <1>2, <1>3 DEF ProjectNext

\* For any number of updaters, releases and edits: no refresh loses, repeats or moves a
\* line of the user's, whichever marker he removed.
THEOREM UserLinesAlwaysSurvive == ProjectSpec => []UserLinesSurvive
<1>1. ProjectInv => UserLinesSurvive
  BY DEF ProjectInv
<1> QED BY <1>1, ProjectInitially, ProjectInvKept, PTL DEF ProjectSpec

\* For any number of updaters, releases and edits: what the installer has just compared
\* with the skill, the doctor, which reads it another way, has nothing to say against.
THEOREM DoctorAlwaysAgrees == ProjectSpec => []DoctorAgrees
BY InvariantMeansAgreement, ProjectInitially, ProjectInvKept, PTL DEF ProjectSpec
=============================================================================
