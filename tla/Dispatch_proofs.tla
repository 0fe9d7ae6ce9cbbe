----------------------------- MODULE Dispatch_proofs -----------------------------
(***************************************************************************)
(* What one dispatch leaves and says: its writes into the sandbox, the     *)
(* evidence for what it did, and what an observer is told, for every       *)
(* number of files, tool calls, dispatches, cards, reports and events.     *)
(* The three components share no state; each has its invariant here.       *)
(***************************************************************************)
EXTENDS WriteSandbox, DispatchEvidence, TaskMonitor, FiniteSetTheorems, WellFoundedInduction,
        TLAPS

-----------------------------------------------------------------------------
(* Natural numbers.                                                         *)

\* A set of natural numbers that is not empty has a least member.
LEMMA LeastNatural ==
  ASSUME NEW T \in SUBSET Nat, T # {}
  PROVE  \E m \in T : \A n \in T : ~(n < m)
<1> DEFINE Less == OpToRel(<, Nat)
<1>1. IsWellFoundedOn(Less, Nat)
  BY NatLessThanWellFounded
<1> HIDE DEF Less
<1>2. \E m \in T : \A n \in T : ~(<<n, m>> \in Less)
  BY <1>1, WFMin
<1>3. \A m, n \in Nat : n < m => <<n, m>> \in Less
  BY DEF Less, OpToRel
<1>4. QED
  BY <1>2, <1>3

\* A set of natural numbers with an upper bound has a greatest member.
LEMMA GreatestNatural ==
  ASSUME NEW T \in SUBSET Nat, T # {}, NEW n \in Nat, \A i \in T : i <= n
  PROVE  \E m \in T : \A i \in T : i <= m
<1> DEFINE Bounds == {m \in Nat : \A i \in T : i <= m}
<1>1. Bounds \in SUBSET Nat /\ Bounds # {}
  OBVIOUS
<1>2. PICK m \in Bounds : \A k \in Bounds : ~(k < m)
  <2> HIDE DEF Bounds
  <2>1. QED
    BY <1>1, LeastNatural
<1>3. CASE m \in T
  BY <1>3
<1>4. CASE m \notin T
  <2>1. \A i \in T : i < m
    BY <1>4
  <2>2. PICK i \in T : i \in Nat /\ i < m
    BY <2>1
  <2>3. m \in Nat /\ m # 0
    BY <2>2
  <2>4. m - 1 \in Bounds
    BY <2>1, <2>3
  <2>5. QED
    BY <1>2, <2>3, <2>4
<1>5. QED
  BY <1>3, <1>4
\* Induction over the natural numbers, for a set of them.
LEMMA SetInduction ==
  ASSUME NEW T, 0 \in T, \A n \in Nat : n \in T => n + 1 \in T
  PROVE  Nat \subseteq T
<1> SUFFICES ASSUME ~(Nat \subseteq T) PROVE FALSE
  OBVIOUS
<1> DEFINE Out == {n \in Nat : n \notin T}
<1>1. Out \in SUBSET Nat /\ Out # {}
  OBVIOUS
<1>2. PICK m \in Out : \A n \in Out : ~(n < m)
  <2> HIDE DEF Out
  <2>. QED BY <1>1, LeastNatural
<1>3. m # 0 /\ m \in Nat
  OBVIOUS
<1>4. m - 1 \in Nat /\ m - 1 \in T
  BY <1>2, <1>3
<1>5. QED
  BY <1>4, <1>3, <1>2

-----------------------------------------------------------------------------
(* The sandbox.  A file is sound when it is a valid candidate against the    *)
(* base commit.  Every candidate a tool call validates is sound, because     *)
(* what it was validated against was; a staged file in which no write is     *)
(* under way is sound; so is what was copied from it.  What was copied in    *)
(* the middle of a write is not, and is copied again by the final            *)
(* synchronisation.                                                          *)

\* What a file may hold, what it is measured against, and when it is sound.
Contents == Seq(Chunks \cup {Hole})
First(f) == IF f \in Tracked THEN Base[f] ELSE <<>>
Sound(f, content) == content \in Contents /\ ValidCandidate(First(f), content)

WriterStates ==
  [pc : {"opened", "writing", "failed"}, file : Files, previous : Contents,
   candidate : Contents, written : Nat]

Typed ==
  /\ product \in [Files -> Contents \cup {Absent}]
  /\ staged \in [Files -> Contents]
  /\ writer \in [Writers -> {Idle} \cup WriterStates]
  /\ todo \subseteq Files /\ copying \in Files \cup {Absent}
  /\ torn \subseteq Files /\ tainted \subseteq Files

\* Tool calls write only while Claude runs, and into different files unless two
\* that overlapped have tainted theirs.
OnlyRunning == \A w \in Writers : Writing(w) => phase = "running"
Alone == \A v, w \in Writers :
  Writing(v) /\ Writing(w) /\ writer[v].file = writer[w].file /\ writer[v].file \notin tainted
    => v = w

\* A write has put a prefix of a sound candidate into the file so far, and can put
\* the sound previous content back.
InProgress == \A w \in Writers : Writing(w) /\ writer[w].file \notin tainted =>
  /\ Sound(writer[w].file, writer[w].previous) /\ Sound(writer[w].file, writer[w].candidate)
  /\ writer[w].pc = "opened" => writer[w].written = 0
  /\ writer[w].pc = "writing" =>
       /\ writer[w].written <= Len(writer[w].candidate)
       /\ staged[writer[w].file] = SubSeq(writer[w].candidate, 1, writer[w].written)
StagedIsSound == \A f \in Files \ (tainted \cup HalfWritten) :
  phase # "new" /\ phase # "dead" => Sound(f, staged[f])
ProductIsSound == \A f \in Files \ (tainted \cup torn) :
  product[f] # Absent => Sound(f, product[f])
Syncing == todo # {} \/ copying # Absent => phase \in {"running", "finalsync"}
\* The final synchronisation still has to look at every file that is torn.
LastCopy ==
  /\ phase = "finalsync" => torn \subseteq tainted \cup todo \cup {copying}
  /\ phase = "ended" => torn \subseteq tainted

SandboxInv ==
  /\ Typed /\ OnlyRunning /\ Alone /\ InProgress
  /\ StagedIsSound /\ ProductIsSound /\ Syncing /\ LastCopy

\* Occurrences can be counted.
LEMMA CountType ==
  ASSUME NEW content \in Contents, NEW c
  PROVE  Count(content, c) \in Nat
<1>1. DOMAIN content = 1..Len(content) /\ Len(content) \in Nat
  BY DEF Contents
<1>2. {i \in DOMAIN content : content[i] = c} \in SUBSET (1..Len(content))
  BY <1>1
<1>3. IsFiniteSet(1..Len(content))
  BY <1>1, FS_Interval
<1>4. QED
  BY <1>2, <1>3, FS_Subset, FS_CardinalityType DEF Count

\* What the base commit has, and an empty file, need no check.
LEMMA BeginningIsSound ==
  ASSUME NEW f \in Files
  PROVE  /\ First(f) \in Contents /\ Parses(First(f))
         /\ Sound(f, First(f)) /\ Sound(f, <<>>)
<1>1. First(f) \in Contents /\ Parses(First(f))
  BY SandboxAssumption DEF First, Base, Contents, Parses
<1>2. Parses(<<>>) /\ <<>> \in Contents
  BY DEF Parses, Contents
<1>3. \A c \in Chunks : Count(<<>>, c) = 0
  <2> SUFFICES ASSUME NEW c \in Chunks PROVE Count(<<>>, c) = 0
    OBVIOUS
  <2>1. {i \in DOMAIN <<>> : <<>>[i] = c} = {}
    OBVIOUS
  <2>2. QED
    BY <2>1, FS_EmptySet DEF Count
<1>4. NoNewDuplicate(First(f), First(f))
  BY <1>1, CountType DEF NoNewDuplicate
<1>5. NoNewDuplicate(First(f), <<>>)
  BY <1>3 DEF NoNewDuplicate
<1>6. QED
  BY <1>1, <1>2, <1>4, <1>5 DEF Sound, ValidCandidate

\* Duplicates that are not added by one write are not added by many.
LEMMA WritesStaySound ==
  ASSUME NEW f \in Files, NEW previous, NEW candidate \in Contents,
         Sound(f, previous), ValidCandidate(previous, candidate)
  PROVE  Sound(f, candidate)
<1>1. previous \in Contents /\ NoNewDuplicate(First(f), previous)
      /\ NoNewDuplicate(previous, candidate) /\ Parses(candidate)
  BY BeginningIsSound DEF Sound, ValidCandidate
<1>2. ASSUME NEW c \in Chunks, Count(candidate, c) > 1
      PROVE  Count(candidate, c) <= Count(First(f), c)
  <2>1. Count(candidate, c) <= Count(previous, c)
    BY <1>1, <1>2 DEF NoNewDuplicate
  <2>2. Count(candidate, c) \in Nat /\ Count(previous, c) \in Nat /\ Count(First(f), c) \in Nat
    BY <1>1, CountType, BeginningIsSound
  <2>3. Count(previous, c) <= Count(First(f), c)
    BY <1>1, <1>2, <2>1, <2>2 DEF NoNewDuplicate
  <2>4. QED
    BY <2>1, <2>2, <2>3
<1>3. QED
  BY <1>1, <1>2 DEF Sound, ValidCandidate, NoNewDuplicate

\* What an operation of the write tool builds is some content.
LEMMA CandidatesAreContents ==
  ASSUME NEW current \in Contents, NEW full
  PROVE  Candidates \cup Replacements(current, full) \subseteq Contents
<1>1. ASSUME NEW c \in Candidates PROVE c \in Contents
  <2>1. PICK n \in 0..MaxLen : c \in [1..n -> Chunks]
    BY <1>1 DEF Candidates, BoundedSeq, SeqOf
  <2>2. c \in Seq(Chunks \cup {Hole})
    BY <2>1, SandboxAssumption
  <2>3. QED
    BY <2>2 DEF Contents
<1>2. ASSUME NEW c \in Replacements(current, full) PROVE c \in Contents
  <2>1. PICK i \in DOMAIN current, j \in DOMAIN current, new \in {<<>>} \cup {<<x>> : x \in Chunks} :
          c = SubSeq(current, 1, i - 1) \o new \o SubSeq(current, j + 1, Len(current))
    BY <1>2 DEF Replacements
  <2>2. SubSeq(current, 1, i - 1) \in Contents /\ SubSeq(current, j + 1, Len(current)) \in Contents
    BY <2>1 DEF Contents
  <2>3. new \in Contents
    <3>1. \A x \in Chunks : <<x>> \in Contents
      BY DEF Contents
    <3>2. <<>> \in Contents
      BY DEF Contents
    <3>3. QED
      BY <2>1, <3>1, <3>2, Zenon
  <2>4. \A x, y \in Contents : x \o y \in Contents
    BY DEF Contents
  <2>5. QED
    BY <2>1, <2>2, <2>3, <2>4, Zenon
<1>3. QED
  BY <1>1, <1>2

\* One more piece of a candidate.
LEMMA PrefixGrows ==
  ASSUME NEW content \in Contents, NEW n \in Nat, n + 1 <= Len(content)
  PROVE  SubSeq(content, 1, n + 1) = Append(SubSeq(content, 1, n), content[n + 1])
<1> DEFINE all == SubSeq(content, 1, n + 1)
<1> DEFINE most == SubSeq(content, 1, n)
<1>1. /\ all \in Contents /\ Len(all) = n + 1
      /\ most \in Contents /\ Len(most) = n
      /\ \A k \in 1..(n + 1) : all[k] = content[k]
      /\ \A k \in 1..n : most[k] = content[k]
      /\ content[n + 1] \in Chunks \cup {Hole}
  BY DEF Contents
<1> HIDE DEF all, most
<1>2. Append(most, content[n + 1]) \in Contents /\ Len(Append(most, content[n + 1])) = n + 1
      /\ \A k \in 1..(n + 1) : Append(most, content[n + 1])[k] = all[k]
  BY <1>1 DEF Contents
<1>3. QED
  BY <1>1, <1>2 DEF Contents, all, most

\* A write at the end of a file appends to it; anywhere it leaves a content.
LEMMA WriteAtProlongs ==
  ASSUME NEW content \in Contents, NEW i \in Nat \ {0}, NEW c \in Chunks \cup {Hole}
  PROVE  /\ WriteAt(content, i, c) \in Contents
         /\ i = Len(content) + 1 => WriteAt(content, i, c) = Append(content, c)
<1>1. CASE i <= Len(content)
  BY <1>1 DEF WriteAt, Contents
<1>2. CASE i > Len(content)
  <2> DEFINE gap == [k \in 1..(i - 1 - Len(content)) |-> Hole]
  <2>1. gap \in Contents /\ (i = Len(content) + 1 => gap = <<>>)
    BY <1>2 DEF Contents
  <2>2. WriteAt(content, i, c) = content \o gap \o <<c>>
    BY <1>2 DEF WriteAt, Contents
  <2> HIDE DEF gap
  <2>3. QED
    BY <1>2, <2>1, <2>2 DEF Contents
<1>3. QED
  BY <1>1, <1>2 DEF Contents

\* Before the first dispatch the worktree is the base commit.
LEMMA SandboxInitHolds == Init => SandboxInv
<1> SUFFICES ASSUME Init PROVE SandboxInv
  OBVIOUS
<1>1. ASSUME NEW f \in Files PROVE Base[f] = Absent \/ (Base[f] = First(f) /\ Sound(f, Base[f]))
  BY BeginningIsSound DEF First, Base
<1>2. Typed
  <2>1. product \in [Files -> Contents \cup {Absent}]
    BY <1>1, BeginningIsSound DEF Init, Sound, Base
  <2>2. staged \in [Files -> Contents]
    BY DEF Init, Contents
  <2>3. writer \in [Writers -> {Idle} \cup WriterStates]
    BY DEF Init
  <2>4. QED
    BY <2>1, <2>2, <2>3 DEF Init, Typed
<1>3. ProductIsSound
  BY <1>1 DEF Init, ProductIsSound
<1>4. QED
  BY <1>2, <1>3
  DEF Init, SandboxInv, OnlyRunning, Alone, InProgress, StagedIsSound, Syncing, LastCopy, Writing, Idle

\* Where nobody writes, a staged copy is what was there or was written completely.
LEMMA NoWriters ==
  ASSUME SandboxInv, phase # "running"
  PROVE  (\A w \in Writers : ~Writing(w)) /\ HalfWritten = {}
BY DEF SandboxInv, OnlyRunning, Writing, HalfWritten

\* A new dispatch stages what the last one left; what is still torn is tainted.
LEMMA PrepareSafe == SandboxInv /\ (Prepare \/ PrepareFails \/ Start) => SandboxInv'
<1> SUFFICES ASSUME SandboxInv, Prepare \/ PrepareFails \/ Start PROVE SandboxInv'
  OBVIOUS
<1>1. (\A w \in Writers : ~Writing(w)) /\ HalfWritten = {} /\ UNCHANGED writer
  BY NoWriters DEF Prepare, PrepareFails, Start
<1>2. (\A w \in Writers : ~Writing(w)') /\ HalfWritten' = {}
  BY <1>1 DEF Writing, HalfWritten
<1>3. ASSUME NEW f \in Files PROVE <<>> \in Contents /\ Sound(f, <<>>)
  BY BeginningIsSound DEF Sound
<1>4. CASE Prepare
  <2>1. Typed'
    BY <1>4, <1>3 DEF SandboxInv, Typed, Prepare, Placeholder
  <2>2. StagedIsSound' /\ ProductIsSound'
    BY <1>4, <1>3 DEF SandboxInv, ProductIsSound, StagedIsSound, Prepare, Placeholder, Sound
  <2>3. QED
    BY <1>2, <1>4, <2>1, <2>2
    DEF SandboxInv, OnlyRunning, Alone, InProgress, Syncing, LastCopy, Prepare
<1>5. CASE PrepareFails
  <2>1. Typed' /\ ProductIsSound'
    BY <1>5, <1>3 DEF SandboxInv, Typed, ProductIsSound, PrepareFails, Placeholder, Sound
  <2>2. QED
    BY <1>2, <1>5, <2>1
    DEF SandboxInv, OnlyRunning, Alone, InProgress, StagedIsSound, Syncing, LastCopy, PrepareFails
<1>6. CASE Start
  BY <1>1, <1>2, <1>6
  DEF SandboxInv, Typed, OnlyRunning, Alone, InProgress, StagedIsSound, ProductIsSound, Syncing,
      LastCopy, Start, Sound
<1>7. QED
  BY <1>4, <1>5, <1>6

\* A copy of a file that nobody is writing is sound, and the final synchronisation
\* makes only such copies.
LEMMA SyncSafe ==
  ASSUME SandboxInv,
         BeginSync \/ (\E f \in Files : SkipEmpty(f) \/ Select(f)) \/ Copy \/ Finish
  PROVE  SandboxInv'
<1>1. UNCHANGED writer /\ HalfWritten' = HalfWritten /\ \A w \in Writers : Writing(w)' = Writing(w)
  BY DEF BeginSync, SkipEmpty, Select, Copy, Finish, Writing, HalfWritten
<1>2. CASE BeginSync
  BY <1>1, <1>2, NoWriters
  DEF SandboxInv, Typed, OnlyRunning, Alone, InProgress, StagedIsSound, ProductIsSound, Syncing,
      LastCopy, BeginSync, Sound
<1>3. CASE Finish
  BY <1>1, <1>3, NoWriters, SandboxAssumption
  DEF SandboxInv, Typed, OnlyRunning, Alone, InProgress, StagedIsSound, ProductIsSound, Syncing,
      LastCopy, Finish, Sound
<1>4. ASSUME NEW f \in Files, Select(f) PROVE SandboxInv'
  BY <1>1, <1>4, SandboxAssumption
  DEF SandboxInv, Typed, OnlyRunning, Alone, InProgress, StagedIsSound, ProductIsSound, Syncing,
      LastCopy, Select, Sound
<1>5. ASSUME NEW f \in Files, SkipEmpty(f) PROVE SandboxInv'
  <2>1. Typed' /\ tainted \subseteq tainted' /\ UNCHANGED <<phase, staged>>
    BY <1>5 DEF SandboxInv, Typed, SkipEmpty
  <2>2. ProductIsSound'
    BY <1>5, <2>1 DEF SandboxInv, Typed, ProductIsSound, SkipEmpty, Sound
  <2>3. LastCopy' /\ Syncing'
    BY <1>5, <2>1 DEF SandboxInv, Typed, LastCopy, Syncing, SkipEmpty
  <2>4. QED
    BY <1>1, <1>5, <2>1, <2>2, <2>3
    DEF SandboxInv, OnlyRunning, Alone, InProgress, StagedIsSound, Sound
<1>6. CASE Copy
  <2>1. copying \in Files /\ Typed' /\ UNCHANGED <<phase, staged, tainted>>
    BY <1>6 DEF SandboxInv, Typed, Copy
  <2>2. ProductIsSound'
    <3>1. copying \notin tainted' \cup torn' => Sound(copying, staged[copying])
      BY <1>6, <2>1 DEF SandboxInv, StagedIsSound, Syncing, Copy
    <3>2. QED
      BY <1>6, <2>1, <3>1 DEF SandboxInv, Typed, ProductIsSound, Copy, Sound
  <2>3. LastCopy' /\ Syncing'
    BY <1>6, <2>1, NoWriters DEF SandboxInv, Typed, LastCopy, Syncing, Copy
  <2>4. QED
    BY <1>1, <1>6, <2>1, <2>2, <2>3
    DEF SandboxInv, OnlyRunning, Alone, InProgress, StagedIsSound, Sound
<1>7. QED
  BY <1>2, <1>3, <1>4, <1>5, <1>6

\* Processes that are stopped taint what they were writing.
LEMMA StopSafe ==
  ASSUME SandboxInv, SyncFails \/ ClaudeEnds \/ Kill
  PROVE  SandboxInv'
<1>1. (\A w \in Writers : ~Writing(w)') /\ HalfWritten' = {}
  BY DEF SyncFails, ClaudeEnds, Kill, StopWriters, Writing, HalfWritten, Idle
<1>2. HalfWritten \subseteq Files
  BY DEF SandboxInv, Typed, HalfWritten, Idle, WriterStates
<1>3. /\ tainted' = tainted \cup HalfWritten
      /\ UNCHANGED <<product, staged, torn>>
      /\ writer' = [w \in Writers |-> Idle]
      /\ todo' = {} /\ copying' = Absent
      /\ phase' \in {"exited", "dead"} /\ phase \notin {"new", "dead"}
  BY DEF SandboxInv, Syncing, SyncFails, ClaudeEnds, Kill, StopWriters
<1>4. Typed'
  BY <1>2, <1>3 DEF SandboxInv, Typed
<1>5. StagedIsSound' /\ ProductIsSound'
  BY <1>3 DEF SandboxInv, StagedIsSound, ProductIsSound, Sound
<1>6. QED
  BY <1>1, <1>3, <1>4, <1>5
  DEF SandboxInv, OnlyRunning, Alone, InProgress, Syncing, LastCopy

\* What a write leaves alone.
Aside == <<phase, product, todo, copying, torn>>

\* A tool call reads a sound file, so the candidate it validates is sound.
LEMMA OpenSafe ==
  ASSUME SandboxInv, NEW w \in Writers, NEW f \in Files, Open(w, f)
  PROVE  SandboxInv'
<1>1. phase = "running" /\ writer[w] = Idle /\ UNCHANGED <<Aside, staged>>
  BY DEF Open, Aside
<1>2. PICK candidate \in Contents :
        /\ ValidCandidate(staged[f], candidate)
        /\ writer' = [writer EXCEPT ![w] =
             [pc |-> "opened", file |-> f, previous |-> staged[f], candidate |-> candidate,
              written |-> 0]]
  BY CandidatesAreContents DEF Open, SandboxInv, Typed
<1>3. /\ writer'[w].pc = "opened" /\ writer'[w].file = f /\ writer'[w].previous = staged[f]
      /\ writer'[w].written = 0 /\ writer'[w].candidate = candidate /\ writer'[w] \in WriterStates
      /\ \A v \in Writers \ {w} : writer'[v] = writer[v]
  BY <1>2 DEF SandboxInv, Typed, WriterStates
<1>4. /\ f \in Touched => tainted' = tainted \cup {f}
      /\ f \notin Touched => tainted' = tainted
  BY DEF Open
<1>5. Typed'
  BY <1>1, <1>2, <1>3, <1>4 DEF SandboxInv, Typed, Aside
<1>6. HalfWritten' = HalfWritten
  BY <1>1, <1>3 DEF HalfWritten, Idle
<1>7. Alone'
  BY <1>3, <1>4 DEF SandboxInv, Alone, Writing, Touched
<1>8. InProgress'
  <2>1. f \notin tainted' => Sound(f, staged[f])
    BY <1>1, <1>4 DEF SandboxInv, StagedIsSound, HalfWritten, Touched, Writing
  <2>2. f \notin tainted' => Sound(f, candidate)
    BY <2>1, <1>2, WritesStaySound
  <2>3. QED
    BY <1>1, <1>3, <1>4, <2>1, <2>2 DEF SandboxInv, InProgress, Writing, Sound
<1>9. QED
  BY <1>1, <1>3, <1>4, <1>5, <1>6, <1>7, <1>8
  DEF SandboxInv, OnlyRunning, StagedIsSound, ProductIsSound, Syncing, LastCopy, Aside, Sound

\* A step of a write that is under way: what has to be shown of it.
LEMMA WriteSafe ==
  ASSUME SandboxInv, NEW w \in Writers, Writing(w), UNCHANGED Aside,
         NEW state \in {Idle} \cup WriterStates, writer' = [writer EXCEPT ![w] = state],
         state # Idle => state.file = writer[w].file /\ state.previous = writer[w].previous
                         /\ state.candidate = writer[w].candidate,
         NEW content \in Contents, staged' = [staged EXCEPT ![writer[w].file] = content],
         tainted' = tainted \/ tainted' = tainted \cup {writer[w].file},
         writer[w].file \notin tainted' =>
           /\ state.pc # "opened"
           /\ state.pc = "writing" =>
                /\ state.written <= Len(state.candidate)
                /\ content = SubSeq(state.candidate, 1, state.written)
           /\ state = Idle => Sound(writer[w].file, content)
  PROVE  SandboxInv'
<1> DEFINE f == writer[w].file
<1>1. phase = "running" /\ f \in Files /\ writer[w] \in WriterStates
  BY DEF SandboxInv, OnlyRunning, Typed, Writing, Idle, WriterStates
<1>2. writer'[w] = state /\ \A v \in Writers \ {w} : writer'[v] = writer[v]
  BY DEF SandboxInv, Typed
<1>3. staged'[f] = content /\ \A g \in Files \ {f} : staged'[g] = staged[g]
  BY <1>1 DEF SandboxInv, Typed
<1>4. Typed'
  BY <1>1 DEF SandboxInv, Typed, Aside
<1>5. \A v \in Writers \ {w} : Writing(v) /\ writer[v].file = f => f \in tainted
  BY DEF SandboxInv, Alone
<1>6. Alone'
  BY <1>2 DEF SandboxInv, Alone, Writing, Idle
<1>7. InProgress'
  <2>1. ASSUME NEW v \in Writers \ {w}, Writing(v)', (writer[v].file \notin tainted)'
        PROVE  writer[v].file # f /\ Writing(v) /\ writer[v].file \in Files
               /\ writer[v].file \notin tainted
    BY <1>1, <1>2, <1>5, <2>1 DEF Writing, SandboxInv, Typed, WriterStates, Idle
  <2>2. ASSUME NEW v \in Writers \ {w}, Writing(v)', (writer[v].file \notin tainted)'
        PROVE  /\ Sound(writer[v].file, writer[v].previous)'
               /\ Sound(writer[v].file, writer[v].candidate)'
               /\ (writer[v].pc = "opened" => writer[v].written = 0)'
               /\ (writer[v].pc = "writing" =>
                     /\ writer[v].written <= Len(writer[v].candidate)
                     /\ staged[writer[v].file] = SubSeq(writer[v].candidate, 1, writer[v].written))'
    BY <1>2, <1>3, <2>1, <2>2 DEF SandboxInv, InProgress, Sound
  <2>3. ASSUME Writing(w)', (writer[w].file \notin tainted)'
        PROVE  /\ Sound(writer[w].file, writer[w].previous)'
               /\ Sound(writer[w].file, writer[w].candidate)'
               /\ (writer[w].pc = "opened" => writer[w].written = 0)'
               /\ (writer[w].pc = "writing" =>
                     /\ writer[w].written <= Len(writer[w].candidate)
                     /\ staged[writer[w].file] = SubSeq(writer[w].candidate, 1, writer[w].written))'
    BY <1>2, <1>3, <2>3 DEF SandboxInv, InProgress, Sound, Writing, Idle
  <2>4. QED
    BY <2>2, <2>3 DEF InProgress
<1>8. StagedIsSound'
  <2> SUFFICES ASSUME NEW g \in Files, g \notin tainted', g \notin HalfWritten'
               PROVE  Sound(g, staged'[g])
    BY DEF StagedIsSound, Sound
  <2>1. CASE g = f
    BY <1>1, <1>2, <1>3, <2>1 DEF HalfWritten, WriterStates, Idle
  <2>2. CASE g # f
    <3>1. g \notin HalfWritten
      BY <1>2, <2>2 DEF HalfWritten
    <3>2. QED
      BY <1>1, <1>3, <2>2, <3>1 DEF SandboxInv, StagedIsSound
  <2>3. QED
    BY <2>1, <2>2
<1>9. QED
  BY <1>1, <1>4, <1>6, <1>7, <1>8
  DEF SandboxInv, OnlyRunning, ProductIsSound, Syncing, LastCopy, Aside, Sound

\* The steps of a write and its rollback.
LEMMA ClaudeSafe ==
  ASSUME SandboxInv, NEW w \in Writers,
         Truncate(w) \/ WriteChunk(w) \/ Written(w) \/ WriteFails(w) \/ Rollback(w)
  PROVE  SandboxInv'
<1> DEFINE f == writer[w].file
<1>1. Writing(w) /\ UNCHANGED Aside
  BY DEF Truncate, WriteChunk, Written, WriteFails, Rollback, Writing, Aside
<1>2. /\ writer[w] \in WriterStates /\ f \in Files
      /\ writer[w].candidate \in Contents /\ writer[w].previous \in Contents
      /\ writer[w].written \in Nat
      /\ staged[f] \in Contents /\ staged \in [Files -> Contents]
  BY <1>1 DEF SandboxInv, Typed, Writing, Idle, WriterStates
<1>3. <<>> \in Contents
  BY DEF Contents
<1>4. ASSUME Truncate(w) PROVE SandboxInv'
  <2> DEFINE state == [writer[w] EXCEPT !.pc = "writing"]
  <2>1. state \in WriterStates /\ state.pc = "writing" /\ state.file = f
        /\ state.previous = writer[w].previous /\ state.candidate = writer[w].candidate
        /\ state # Idle
    BY <1>2 DEF WriterStates, Idle
  <2>2. writer' = [writer EXCEPT ![w] = state] /\ staged' = [staged EXCEPT ![f] = <<>>]
        /\ tainted' = tainted
    BY <1>4 DEF Truncate
  <2>3. f \notin tainted =>
          state.written <= Len(state.candidate) /\ <<>> = SubSeq(state.candidate, 1, state.written)
    <3>1. f \notin tainted => state.written = 0
      BY <1>1, <1>2, <1>4 DEF SandboxInv, InProgress, Truncate, WriterStates
    <3>2. state.candidate \in Contents
      BY <1>2, <2>1
    <3>3. QED
      BY <3>1, <3>2 DEF Contents
  <2> HIDE DEF state
  <2>4. QED
    BY <1>1, <1>2, <1>3, <2>1, <2>2, <2>3, WriteSafe
<1>5. ASSUME WriteChunk(w) PROVE SandboxInv'
  <2> DEFINE i == writer[w].written + 1
  <2> DEFINE state == [writer[w] EXCEPT !.written = i]
  <2> DEFINE content == WriteAt(staged[f], i, writer[w].candidate[i])
  <2>1. state \in WriterStates /\ state.pc = "writing" /\ state.file = f
        /\ state.previous = writer[w].previous /\ state.candidate = writer[w].candidate
        /\ state # Idle /\ state.written = i
    BY <1>2, <1>5 DEF WriterStates, Idle, WriteChunk
  <2>2. writer' = [writer EXCEPT ![w] = state] /\ staged' = [staged EXCEPT ![f] = content]
        /\ tainted' = tainted
    BY <1>2, <1>5 DEF WriteChunk
  <2>3. i \in Nat \ {0} /\ i <= Len(writer[w].candidate)
        /\ writer[w].candidate[i] \in Chunks \cup {Hole}
    BY <1>2, <1>5 DEF WriteChunk, Contents
  <2>4. content \in Contents
    BY <1>2, <2>3, WriteAtProlongs
  <2>5. f \notin tainted => content = SubSeq(writer[w].candidate, 1, i)
    <3> SUFFICES ASSUME f \notin tainted PROVE content = SubSeq(writer[w].candidate, 1, i)
      OBVIOUS
    <3>1. staged[f] = SubSeq(writer[w].candidate, 1, writer[w].written)
      BY <1>1, <1>5 DEF SandboxInv, InProgress, WriteChunk
    <3>2. i = Len(staged[f]) + 1
      BY <1>2, <2>3, <3>1 DEF Contents
    <3>3. content = Append(staged[f], writer[w].candidate[i])
      BY <1>2, <2>3, <3>2, WriteAtProlongs
    <3>4. QED
      BY <1>2, <2>3, <3>1, <3>3, PrefixGrows
  <2> HIDE DEF i, state, content
  <2>6. QED
    BY <1>1, <1>2, <2>1, <2>2, <2>3, <2>4, <2>5, WriteSafe
<1>6. ASSUME Written(w) PROVE SandboxInv'
  <2>1. f \notin tainted => Sound(f, staged[f])
    <3> SUFFICES ASSUME f \notin tainted PROVE Sound(f, staged[f])
      OBVIOUS
    <3>1. staged[f] = SubSeq(writer[w].candidate, 1, writer[w].written)
          /\ Sound(f, writer[w].candidate)
      BY <1>1, <1>6 DEF SandboxInv, InProgress, Written
    <3>2. staged[f] = writer[w].candidate
      BY <1>2, <1>6, <3>1 DEF Written, Contents
    <3>3. QED
      BY <3>1, <3>2
  <2>2. writer' = [writer EXCEPT ![w] = Idle] /\ staged' = [staged EXCEPT ![f] = staged[f]]
        /\ tainted' = tainted /\ Idle.pc = "idle"
    BY <1>2, <1>6 DEF Written, Idle
  <2>3. QED
    BY <1>1, <1>2, <2>1, <2>2, WriteSafe
<1>7. ASSUME WriteFails(w) PROVE SandboxInv'
  <2> DEFINE state == [writer[w] EXCEPT !.pc = "failed"]
  <2>1. state \in WriterStates /\ state.pc = "failed" /\ state.file = f
        /\ state.previous = writer[w].previous /\ state.candidate = writer[w].candidate
        /\ state # Idle
    BY <1>2 DEF WriterStates, Idle
  <2>2. writer' = [writer EXCEPT ![w] = state] /\ staged' = [staged EXCEPT ![f] = staged[f]]
        /\ tainted' = tainted
    BY <1>2, <1>7 DEF WriteFails
  <2> HIDE DEF state
  <2>3. QED
    BY <1>1, <1>2, <2>1, <2>2, WriteSafe
<1>8. ASSUME Rollback(w) PROVE SandboxInv'
  <2>1. PICK content :
          /\ staged' = [staged EXCEPT ![f] = content]
          /\ \/ content = writer[w].previous /\ tainted' = tainted
             \/ /\ \E n \in 0..Len(writer[w].previous) : content = SubSeq(writer[w].previous, 1, n)
                /\ tainted' = tainted \cup {f}
    BY <1>8 DEF Rollback
  <2>2. content \in Contents
    BY <1>2, <2>1 DEF Contents
  <2>3. f \notin tainted' => Sound(f, content)
    BY <1>1, <2>1 DEF SandboxInv, InProgress
  <2>4. writer' = [writer EXCEPT ![w] = Idle] /\ Idle.pc = "idle"
    BY <1>8 DEF Rollback, Idle
  <2>5. QED
    BY <1>1, <1>2, <2>1, <2>2, <2>3, <2>4, WriteSafe
<1>9. QED
  BY <1>4, <1>5, <1>6, <1>7, <1>8

\* What a completed dispatch leaves in the worktree parses and has no duplicate that
\* the base commit had not, but for the files write-approved-file.py cannot restore
\* (write-approved-file.py _transactional_descriptor_write, prepare-write-sandbox.py
\* sync_receipt).
THEOREM ProductStaysValidated == Spec => []ProductIsValidated
<1>1. SandboxInv /\ [Next]_vars => SandboxInv'
  <2> SUFFICES ASSUME SandboxInv, [Next]_vars PROVE SandboxInv'
    OBVIOUS
  <2>1. CASE Dispatcher
    BY <2>1, PrepareSafe, SyncSafe, StopSafe DEF Dispatcher
  <2>2. ASSUME NEW w \in Writers, Claude(w) PROVE SandboxInv'
    BY <2>2, OpenSafe, ClaudeSafe DEF Claude
  <2>3. CASE UNCHANGED vars
    BY <2>3
    DEF vars, SandboxInv, Typed, OnlyRunning, Alone, InProgress, StagedIsSound, ProductIsSound,
        Syncing, LastCopy, Sound, Writing, HalfWritten
  <2>4. QED
    BY <2>1, <2>2, <2>3 DEF Next
<1>2. SandboxInv => ProductIsValidated
  BY DEF SandboxInv, ProductIsSound, LastCopy, ProductIsValidated, Sound, First
<1>3. QED
  BY SandboxInitHolds, <1>1, <1>2, PTL DEF Spec

-----------------------------------------------------------------------------
(* The evidence: reports, verdicts and the Checker's contract.               *)

\* A fault more does not make a report show a test for what the card does not ask.
LEMMA FaultyWithinIds ==
  ASSUME NEW r, NEW ids, "supported" \in DOMAIN r, r.supported \subseteq ids, NEW q \in Faulty(r)
  PROVE  "supported" \in DOMAIN q /\ q.supported \subseteq ids
BY DEF Faulty

\* Nor do any number of faults: the reports of the model are a recursive function.
LEMMA ReportsWithinIds ==
  ASSUME NEW c, NEW w, NEW r \in Reports(c, w)
  PROVE  r.supported \subseteq c.ids
<1> DEFINE Within(S) == \A q \in S : "supported" \in DOMAIN q /\ q.supported \subseteq c.ids
           Widened(S) == S \cup UNION {Faulty(q) : q \in S}
           Ending(g, m) == g = [n \in 0..m |-> IF n = 0 THEN {TrueReport(c, w)} ELSE Widened(g[n - 1])]
           faulty == CHOOSE g : Ending(g, MaxFaults)
<1>1. Reports(c, w) = faulty[MaxFaults]
  BY DEF Reports
<1>2. \A S : Within(S) => Within(Widened(S))
  BY FaultyWithinIds
<1>3. Within({TrueReport(c, w)})
  BY DEF TrueReport
<1> HIDE DEF Within, Widened
<1>4. \E g : Ending(g, MaxFaults)
  <2> DEFINE T == {m \in Nat : \E g : Ending(g, m)}
  <2>1. 0 \in T
    <3> DEFINE g == [n \in 0..0 |-> {TrueReport(c, w)}]
    <3>1. Ending(g, 0)
      OBVIOUS
    <3>2. QED
      BY <3>1
  <2>2. ASSUME NEW m \in Nat, m \in T PROVE m + 1 \in T
    <3>1. PICK g : Ending(g, m)
      BY <2>2
    <3> DEFINE h == [n \in 0..(m + 1) |-> IF n = m + 1 THEN Widened(g[m]) ELSE g[n]]
    <3>2. ASSUME NEW n \in 0..(m + 1)
          PROVE  h[n] = IF n = 0 THEN {TrueReport(c, w)} ELSE Widened(h[n - 1])
      <4>1. CASE n = m + 1
        BY <4>1
      <4>2. CASE n \in 1..m
        <5>1. n - 1 \in 0..m /\ n \in 0..m /\ n # 0
          BY <4>2
        <5>2. h[n] = g[n] /\ h[n - 1] = g[n - 1]
          BY <4>2, <5>1
        <5>3. QED
          BY <3>1, <5>1, <5>2
      <4>3. CASE n = 0
        BY <3>1, <4>3
      <4>4. QED
        BY <4>1, <4>2, <4>3
    <3>3. h = [n \in 0..(m + 1) |-> h[n]]
      OBVIOUS
    <3> HIDE DEF h
    <3>4. Ending(h, m + 1)
      BY <3>2, <3>3
    <3>5. QED
      BY <3>4
  <2> HIDE DEF T
  <2>3. MaxFaults \in T
    BY <2>1, <2>2, SetInduction, EvidenceAssumption
  <2>4. QED
    BY <2>3 DEF T
<1>5. Ending(faulty, MaxFaults)
  BY <1>4
<1> HIDE DEF faulty
<1> DEFINE T == {n \in Nat : n <= MaxFaults => Within(faulty[n])}
<1>6. 0 \in T
  BY <1>3, <1>5, EvidenceAssumption
<1>7. ASSUME NEW n \in Nat, n \in T PROVE n + 1 \in T
  <2> SUFFICES ASSUME n + 1 <= MaxFaults PROVE Within(faulty[n + 1])
    OBVIOUS
  <2>1. Within(faulty[n])
    BY <1>7, EvidenceAssumption
  <2>2. n + 1 \in 0..MaxFaults /\ n + 1 # 0 /\ (n + 1) - 1 = n
    BY EvidenceAssumption
  <2>3. faulty[n + 1] = Widened(faulty[n])
    BY <1>5, <2>2
  <2>4. QED
    BY <1>2, <2>1, <2>3
<1> HIDE DEF T
<1>8. MaxFaults \in T
  BY <1>6, <1>7, SetInduction, EvidenceAssumption
<1>9. QED
  BY <1>1, <1>8, EvidenceAssumption DEF T, Within

-----------------------------------------------------------------------------
Stages == {"claude", "verify", "enforce", "outcome", "concluded"}
Violations ==
  {"missing-write-paths", "no-test-file-output", "out-of-scope", "missing-or-empty",
   "validation-failed", "invalid-validation-command", "missing-per-file-validation",
   "invalid-exact-command", "exact-failed", "exact-environment-crash", "no-receipt"}
Contracts ==
  [pc : {"off", "files", "groups", "done"}, listed : SUBSET Paths, todo : SUBSET Paths,
   violations : SUBSET Violations]
Verdicts ==
  [status : {"not-run", "error", "conflict", "insufficient-claims", "matched"},
   validation : {"unknown", "not-required", "missing-evidence", "claimed-unverified", "failed",
                 "verified"}]

EvidenceTyped ==
  /\ stage \in Stages /\ contract \in Contracts
  /\ verdict \in Verdicts

\* Where the dispatch is tells how far the contract is.
InOrder ==
  /\ stage \in {"claude", "verify"} => contract = NoContract /\ verdict.status = "not-run"
  /\ contract.pc \in {"files", "groups"} => stage = "enforce"
  /\ contract.pc = "off" => contract.violations = {}
  /\ stage # "concluded" => completion = "needs-review"

\* As long as nothing is violated, what is behind the contract has passed.
InScope ==
  contract.pc # "off" /\ contract.violations = {} =>
    /\ contract.listed # {}
    /\ \A p \in contract.listed \ contract.todo : p \in card.scope /\ <<"file", p>> \in ran
    /\ contract.pc # "files" => contract.todo = {}
    /\ contract.pc = "done" /\ card.exact # "none" =>
         \/ <<"exact", "command">> \in ran
         \/ /\ card.targets # {} /\ card.targets \subseteq contract.listed
            /\ \A t \in card.targets : <<"group", t>> \in ran

\* A matched verdict is about this report and what was seen of the worktree.
IsAbout ==
  verdict.status = "matched" =>
    /\ ValidReport(report)
    /\ ~Conflicts(card, seen, report) /\ ~LacksClaims(card, seen, report)
    /\ \/ verdict.validation = ValidationStatus(card, report)
       \/ verdict.validation = "verified" /\ ContractPassed

Concluded == completion = "semantic-review-required" => Ready

EvidenceInv ==
  /\ EvidenceTyped /\ InOrder /\ InScope /\ IsAbout /\ Concluded
  /\ report.supported \subseteq card.ids

\* Claude is at work, nothing is verified and nothing was run.
LEMMA EvidenceInitHolds == EvidenceInit => EvidenceInv
<1> SUFFICES ASSUME EvidenceInit PROVE EvidenceInv
  OBVIOUS
<1>1. report.supported \subseteq card.ids
  BY DEF EvidenceInit, SeededReport, TrueReport
<1>2. EvidenceTyped /\ InOrder 
  BY DEF EvidenceInit, EvidenceTyped, InOrder, Stages, Contracts, NoContract, Verdicts
<1>3. InScope /\ IsAbout /\ Concluded
  BY DEF EvidenceInit, InScope, IsAbout, Concluded, NoContract
<1>4. QED
  BY <1>1, <1>2, <1>3 DEF EvidenceInv

\* What Claude leaves is not judged yet.
LEMMA ClaudeExitsKeeps ==
  ASSUME EvidenceInv, ClaudeExits
  PROVE  EvidenceInv'
<1>1. report'.supported \subseteq card'.ids
  <2>1. CASE report' = SeededReport(card, work')
    BY <2>1 DEF ClaudeExits, SeededReport, TrueReport
  <2>2. CASE report' \in Reports(card, work')
    BY <2>2, ReportsWithinIds DEF ClaudeExits
  <2>3. QED
    BY <2>1, <2>2 DEF ClaudeExits
<1>2. QED
  BY <1>1 DEF ClaudeExits, EvidenceInv, EvidenceTyped, InOrder, InScope, IsAbout, Concluded,
              Stages, NoContract, Ready

\* The verdict is about what is read when it is made.
LEMMA VerifyReportKeeps ==
  ASSUME EvidenceInv, VerifyReport
  PROVE  EvidenceInv'
<1>1. EvidenceTyped' /\ InOrder' /\ InScope' /\ report'.supported \subseteq card'.ids
  <2>1. [status |-> Status(card, work, report), validation |-> ValidationStatus(card, report)]
          \in Verdicts
    <3>1. ValidationStatus(card, report)
            \in {"not-required", "missing-evidence", "claimed-unverified", "failed"}
      BY DEF ValidationStatus
    <3>2. Status(card, work, report) \in {"conflict", "insufficient-claims", "matched"}
      BY DEF Status
    <3>3. QED
      BY <3>1, <3>2 DEF Verdicts
  <2>2. [status |-> "error", validation |-> "unknown"] \in Verdicts
    BY DEF Verdicts
  <2>3. QED
    BY <2>1, <2>2 DEF VerifyReport, EvidenceInv, EvidenceTyped, InOrder, InScope, Stages, NoContract
<1>2. IsAbout'
  <2>1. CASE ValidReport(report)
    <3>1. CASE verdict' = [status |-> Status(card, work, report),
                           validation |-> ValidationStatus(card, report)]
      BY <2>1, <3>1 DEF VerifyReport, IsAbout, Status
    <3>2. CASE verdict' = [status |-> "error", validation |-> "unknown"]
      BY <3>2 DEF IsAbout
    <3>3. QED
      BY <2>1, <3>1, <3>2 DEF VerifyReport
  <2>2. CASE ~ValidReport(report)
    BY <2>2 DEF VerifyReport, EvidenceInv, InOrder, IsAbout
  <2>3. QED
    BY <2>1, <2>2
<1>3. Concluded'
  BY DEF VerifyReport, EvidenceInv, InOrder, Concluded
<1>4. QED
  BY <1>1, <1>2, <1>3 DEF EvidenceInv

\* A step of the enforcer.
LEMMA EnforcerKeeps ==
  ASSUME EvidenceInv, contract' \in Contracts, InScope', stage = "enforce",
         contract.pc \in {"off", "files", "groups"}, contract'.pc # "off",
         UNCHANGED <<card, stage, report, seen, verdict, completion>>
  PROVE  EvidenceInv'
BY DEF EvidenceInv, EvidenceTyped, InOrder, IsAbout, Concluded, ContractPassed, Ready

\* A violation that is noted stays, and forbids whatever passing asks for.
LEMMA ViolateFacts ==
  ASSUME contract \in Contracts, NEW kind \in Violations, NEW p
  PROVE  /\ Violate(kind) \in Contracts /\ Violate(kind).violations # {}
         /\ Violate(kind).pc = contract.pc
         /\ [Violate(kind) EXCEPT !.todo = @ \ {p}] \in Contracts
         /\ [Violate(kind) EXCEPT !.todo = @ \ {p}].violations # {}
         /\ [Violate(kind) EXCEPT !.todo = @ \ {p}].pc = contract.pc
         /\ [Violate(kind) EXCEPT !.pc = "done"] \in Contracts
         /\ [Violate(kind) EXCEPT !.pc = "done"].violations # {}
         /\ [Violate(kind) EXCEPT !.pc = "done"].pc = "done"
<1> DEFINE violated == [contract EXCEPT !.violations = @ \cup {kind}]
<1>1. violated \in Contracts /\ violated.violations # {} /\ violated.pc = contract.pc
  BY DEF Contracts
<1>2. Violate(kind) = violated
  BY DEF Violate
<1> HIDE DEF violated
<1>3. QED
  BY <1>1, <1>2 DEF Contracts

\* The contract begins with all the changes on its list.
LEMMA ListChangesKeeps ==
  ASSUME EvidenceInv, ListChanges
  PROVE  EvidenceInv'
<1>1. contract' \in Contracts
  BY DEF ListChanges, Contracts, Violations, Changed
<1>2. InScope'
  BY DEF ListChanges, InScope
<1>3. QED
  BY <1>1, <1>2, EnforcerKeeps DEF ListChanges

\* A file leaves the list with a violation, or in scope and with its command passed.
LEMMA CheckFileKeeps ==
  ASSUME EvidenceInv, CheckFile
  PROVE  EvidenceInv'
<1>1. contract \in Contracts /\ stage = "enforce" /\ contract.pc = "files"
  BY DEF CheckFile, EvidenceInv, EvidenceTyped, InOrder
<1>2. PICK p \in contract.todo :
        \/ \E kind \in Violations : contract' = [Violate(kind) EXCEPT !.todo = @ \ {p}]
        \/ /\ p \in card.scope
           /\ contract' = [contract EXCEPT !.todo = @ \ {p}]
           /\ ran' = ran \cup {<<"file", p>>}
  BY DEF CheckFile, Violations
<1>3. contract' \in Contracts /\ contract'.pc = "files"
  <2>1. CASE \E kind \in Violations : contract' = [Violate(kind) EXCEPT !.todo = @ \ {p}]
    BY <1>1, <2>1, ViolateFacts
  <2>2. CASE contract' = [contract EXCEPT !.todo = @ \ {p}]
    BY <1>1, <2>2 DEF Contracts
  <2>3. QED
    BY <1>2, <2>1, <2>2
<1>4. InScope'
  <2>1. CASE \E kind \in Violations : contract' = [Violate(kind) EXCEPT !.todo = @ \ {p}]
    BY <1>1, <2>1, ViolateFacts DEF InScope
  <2>2. CASE /\ p \in card.scope
             /\ contract' = [contract EXCEPT !.todo = @ \ {p}]
             /\ ran' = ran \cup {<<"file", p>>}
    <3>1. contract'.listed = contract.listed /\ contract'.violations = contract.violations
          /\ contract'.todo = contract.todo \ {p}
      BY <1>1, <2>2 DEF Contracts
    <3>2. card' = card
      BY DEF CheckFile
    <3>3. QED
      BY <1>1, <1>3, <2>2, <3>1, <3>2 DEF EvidenceInv, InScope
  <2>3. QED
    BY <1>2, <2>1, <2>2
<1>5. QED
  BY <1>1, <1>3, <1>4, EnforcerKeeps DEF CheckFile

\* The exact command comes when the list is empty, and passes, or is noted, or crashes.
LEMMA RunExactKeeps ==
  ASSUME EvidenceInv, RunExact
  PROVE  EvidenceInv'
<1>1. contract \in Contracts /\ stage = "enforce" /\ contract.pc = "files" /\ contract.todo = {}
  BY DEF RunExact, EvidenceInv, EvidenceTyped, InOrder
<1> DEFINE done == [contract EXCEPT !.pc = "done"]
           groups == [contract EXCEPT !.pc = "groups"]
<1>2. /\ done \in Contracts /\ done.pc = "done" /\ done.listed = contract.listed
      /\ done.todo = {} /\ done.violations = contract.violations
      /\ groups \in Contracts /\ groups.pc = "groups" /\ groups.listed = contract.listed
      /\ groups.todo = {} /\ groups.violations = contract.violations
  BY <1>1 DEF Contracts
<1>3. \/ \E kind \in Violations : contract' = [Violate(kind) EXCEPT !.pc = "done"]
      \/ contract' = done /\ (contract.violations # {} \/ card.exact = "none") /\ ran' = ran
      \/ contract' = done /\ <<"exact", "command">> \in ran' /\ ran \subseteq ran'
      \/ contract' = groups /\ ran \subseteq ran'
  <2>1. CASE contract.violations # {} \/ card.exact = "none"
    BY <2>1 DEF RunExact, Violations
  <2>2. CASE contract.violations = {} /\ card.exact # "none"
    BY <2>2 DEF RunExact, Violations, Endings
  <2>3. QED
    BY <2>1, <2>2
<1> HIDE DEF done, groups
<1>4. contract' \in Contracts /\ contract'.pc # "off"
  BY <1>1, <1>2, <1>3, ViolateFacts
<1>5. InScope'
  <2>1. CASE \E kind \in Violations : contract' = [Violate(kind) EXCEPT !.pc = "done"]
    BY <1>1, <2>1, ViolateFacts DEF InScope
  <2>2. CASE contract' \in {done, groups} /\ ran \subseteq ran'
             /\ (contract' = done /\ contract.violations = {} /\ card.exact # "none"
                  => <<"exact", "command">> \in ran')
    <3>1. card' = card
      BY DEF RunExact
    <3>2. QED
      BY <1>1, <1>2, <2>2, <3>1 DEF EvidenceInv, InScope
  <2>3. QED
    BY <1>2, <1>3, <2>1, <2>2
<1>6. QED
  BY <1>1, <1>4, <1>5, EnforcerKeeps DEF RunExact

\* A crash is only made up for by all the changed tests that the command names.
LEMMA RecoverCrashKeeps ==
  ASSUME EvidenceInv, RecoverCrash
  PROVE  EvidenceInv'
<1>1. contract \in Contracts /\ stage = "enforce" /\ contract.pc = "groups"
  BY DEF RecoverCrash, EvidenceInv, EvidenceTyped, InOrder
<1> DEFINE done == [contract EXCEPT !.pc = "done"]
<1>2. /\ done \in Contracts /\ done.pc = "done" /\ done.listed = contract.listed
      /\ done.todo = contract.todo /\ done.violations = contract.violations
  BY <1>1 DEF Contracts
<1>3. PICK passed \in SUBSET Groups :
        /\ ran' = ran \cup {<<"group", t>> : t \in passed}
        /\ contract' = IF Recovered(Groups, passed) THEN done
                       ELSE [Violate("exact-environment-crash") EXCEPT !.pc = "done"]
  BY DEF RecoverCrash
<1>4. "exact-environment-crash" \in Violations
  BY DEF Violations
<1> HIDE DEF done
<1>5. contract' \in Contracts /\ contract'.pc # "off"
  BY <1>1, <1>2, <1>3, <1>4, ViolateFacts
<1>6. InScope'
  <2>1. CASE ~Recovered(Groups, passed)
    BY <1>1, <1>3, <1>4, <2>1, ViolateFacts DEF InScope
  <2>2. CASE Recovered(Groups, passed)
    <3>1. Groups = card.targets /\ card.targets # {} /\ card.targets \subseteq contract.listed
      BY <2>2 DEF Recovered, Groups
    <3>2. \A t \in card.targets : <<"group", t>> \in ran'
      BY <1>3, <2>2, <3>1 DEF Recovered
    <3>3. card' = card /\ contract' = done
      BY <1>3, <2>2 DEF RecoverCrash
    <3>4. QED
      BY <1>1, <1>2, <1>3, <3>1, <3>2, <3>3 DEF EvidenceInv, InScope
  <2>3. QED
    BY <2>1, <2>2
<1>7. QED
  BY <1>1, <1>5, <1>6, EnforcerKeeps DEF RecoverCrash

\* No receipt is a violation.
LEMMA EnforcerRaisesKeeps ==
  ASSUME EvidenceInv, EnforcerRaises
  PROVE  EvidenceInv'
<1>1. contract \in Contracts /\ stage = "enforce" /\ "no-receipt" \in Violations
  BY DEF EnforcerRaises, EvidenceInv, EvidenceTyped, InOrder, Violations
<1>2. contract' = [Violate("no-receipt") EXCEPT !.pc = "done"]
  BY DEF EnforcerRaises
<1>3. contract' \in Contracts /\ contract'.pc = "done" /\ contract'.violations # {}
  BY <1>1, <1>2, ViolateFacts
<1>4. QED
  BY <1>1, <1>3, EnforcerKeeps DEF EnforcerRaises, InScope

\* The contract's verdict on the validation is the only way to "verified".
LEMMA TakeReceiptKeeps ==
  ASSUME EvidenceInv, TakeReceipt
  PROVE  EvidenceInv'
<1>1. CASE ContractPassed
  <2>1. verdict' = [verdict EXCEPT !.validation = "verified"]
    BY <1>1 DEF TakeReceipt
  <2>2. verdict' \in Verdicts /\ verdict'.status = verdict.status
        /\ verdict'.validation = "verified"
    BY <2>1 DEF EvidenceInv, EvidenceTyped, Verdicts
  <2>3. QED
    BY <1>1, <2>2 DEF TakeReceipt, EvidenceInv, EvidenceTyped, InOrder, InScope, IsAbout,
                      Concluded, ContractPassed, Stages
<1>2. CASE ~ContractPassed
  BY <1>2 DEF TakeReceipt, EvidenceInv, EvidenceTyped, InOrder, InScope, IsAbout,
              Concluded, ContractPassed, Stages
<1>3. QED
  BY <1>1, <1>2

\* Only a matched and valid report is concluded with a semantic review.
LEMMA ConcludeKeeps ==
  ASSUME EvidenceInv, Conclude
  PROVE  EvidenceInv'
<1>1. PICK t \in Transports : completion' = Outcome(t)
  BY DEF Conclude
<1>2. Outcome(t) = "semantic-review-required" => Ready
  BY DEF Outcome
<1>3. QED
  BY <1>1, <1>2 DEF Conclude, EvidenceInv, EvidenceTyped, InOrder, InScope, IsAbout, Concluded,
                    ContractPassed, Ready, Stages

\* The inductive invariant of the evidence of a dispatch (verify-claude-report.py,
\* enforce-checker-contract.py and their calls in dispatch-to-claude.sh).
THEOREM EvidenceInvariant == EvidenceSpec => []EvidenceInv
<1>1. EvidenceInv /\ [EvidenceNext]_evidenceVars => EvidenceInv'
  <2> SUFFICES ASSUME EvidenceInv, [EvidenceNext]_evidenceVars PROVE EvidenceInv'
    OBVIOUS
  <2>1. CASE UNCHANGED evidenceVars
    BY <2>1 DEF evidenceVars, EvidenceInv, EvidenceTyped, InOrder, InScope, IsAbout, Concluded,
                ContractPassed, Ready
  <2>2. QED
    BY <2>1, ClaudeExitsKeeps, VerifyReportKeeps, ListChangesKeeps, CheckFileKeeps,
       RunExactKeeps, RecoverCrashKeeps, EnforcerRaisesKeeps, TakeReceiptKeeps, ConcludeKeeps
       DEF EvidenceNext
<1>2. QED
  BY EvidenceInitHolds, <1>1, PTL DEF EvidenceSpec

\* For any card, worktree, report and contract: a dispatch that is called ready has a
\* report that agrees with what was verified and a validation that was run
\* (verify-claude-report.py, dispatch-to-claude.sh:8777-8793).
THEOREM ReadyIsAlwaysBacked == EvidenceSpec => []ReadyIsBacked
<1>1. EvidenceInv => ReadyIsBacked
  <2> SUFFICES ASSUME EvidenceInv, completion = "semantic-review-required" PROVE ReadyIsBacked
    BY DEF ReadyIsBacked
  <2>1. Ready /\ ValidReport(report)
        /\ ~Conflicts(card, seen, report) /\ ~LacksClaims(card, seen, report)
    BY DEF EvidenceInv, Concluded, IsAbout, Ready
  <2>2. ClaimedFiles(report) = Changed(seen)
    BY <2>1 DEF Conflicts, LacksClaims
  <2>3. card.tests => /\ Changed(seen) \cap TestPaths # {}
                      /\ report.tests = TestsDeclared(seen)
    BY <2>1 DEF Conflicts, LacksClaims
  <2>4. card.ids = report.supported
    BY <2>1 DEF Conflicts, LacksClaims, EvidenceInv
  <2>5. card.validation => ContractPassed
    BY <2>1 DEF EvidenceInv, IsAbout, Ready, ValidationStatus
  <2>6. QED
    BY <2>1, <2>2, <2>3, <2>4, <2>5 DEF ReadyIsBacked
<1>2. QED
  BY EvidenceInvariant, <1>1, PTL

\* For any number of files and commands that change the worktree: a contract that
\* passed has run all it stands for (enforce-checker-contract.py:178-287).
THEOREM PassedContractAlwaysRan == EvidenceSpec => []PassedContractWasRun
<1>1. EvidenceInv => PassedContractWasRun
  BY DEF EvidenceInv, InScope, PassedContractWasRun, ContractPassed
<1>2. QED
  BY EvidenceInvariant, <1>1, PTL

-----------------------------------------------------------------------------
(* The task and its observer.                                               *)

Points == {"new", "captured", "seeded", "launched", "capturing", "watching", "finalizing",
           "checking", "concluded", "reported", "gone", "aborting", "failing", "killed"}
Events == [kind : {"started", "material", "child-exited", "terminal"}, running : BOOLEAN,
           execution : Executions \cup {"unknown"}, prefix : BOOLEAN, product : BOOLEAN]
Evidence == [product : BOOLEAN, report : {"none", "seeded", "valid"}, finish : BOOLEAN]

TaskTyped ==
  /\ point \in Points /\ alive \subseteq Roles /\ events \in Seq(Events)
  /\ evidence \in Evidence

\* Whether the dispatcher runs, and what can be seen of it, goes with where it is.
DispatcherIsThere ==
  /\ "dispatcher" \in alive <=> point \notin {"new", "gone", "killed"}
  /\ point \notin {"new", "captured", "gone", "killed"} => "dispatcher" \in pid
  /\ point # "new" => "dispatcher" \in identity

\* Claude has exited and is not launched again.
Over ==
  /\ point \in {"finalizing", "checking", "concluded", "reported", "gone", "aborting",
                "failing", "killed"}
  /\ "claude" \notin alive

\* What is written about the end is written after it, and last.
EndIsTrue ==
  /\ point \in {"finalizing", "checking", "concluded", "reported"} => "claude" \notin alive
  /\ log \cap {"child-exited", "final"} # {} => Over
  /\ \A i \in DOMAIN events : events[i].prefix /\ events[i].kind = "terminal" => "final" \in log
  /\ point \in {"reported", "gone", "aborting", "failing"} => LastIsTerminal

TaskInv == TaskTyped /\ DispatcherIsThere /\ EndIsTrue

\* An event is written behind the others.
LEMMA SaysFacts ==
  ASSUME TaskTyped, NEW e \in Events, Says(e)
  PROVE  /\ events' \in Seq(Events) /\ Last(events') = e /\ events' # <<>>
         /\ \A i \in DOMAIN events' : events'[i] = e \/ (i \in DOMAIN events /\ events'[i] = events[i])
BY DEF TaskTyped, Says, Last

\* The events of the dispatcher, with a prefix and without.
LEMMA EventType ==
  ASSUME TaskTyped,
         NEW kind \in {"started", "material", "child-exited", "terminal"},
         NEW running \in BOOLEAN, NEW x \in Executions \cup {"unknown"}
  PROVE  /\ Event(kind, running, x) \in Events
         /\ [Event(kind, running, x) EXCEPT !.prefix = FALSE] \in Events
         /\ Event(kind, running, x).kind = kind
         /\ [Event(kind, running, x) EXCEPT !.prefix = FALSE].kind = kind
         /\ ~[Event(kind, running, x) EXCEPT !.prefix = FALSE].prefix
BY DEF TaskTyped, Event, Events, Evidence

\* No process runs yet and nothing is written.
LEMMA TaskInitHolds == MonitorInit => TaskInv
BY DEF MonitorInit, TaskInv, TaskTyped, DispatcherIsThere, EndIsTrue, Points, Evidence, Over,
       LastIsTerminal, Roles

\* A step that says nothing.
LEMMA SilentStep ==
  ASSUME TaskInv, UNCHANGED events,
         \/ Begin \/ WritePid \/ Launch \/ WriteClaudePid \/ StartChecker \/ WriteCheckerPid
         \/ WriteOutcome \/ Exit \/ AbortExit \/ KillDispatcher \/ ClaudeWorks \/ ModelExits
         \/ CheckerCaptures \/ CheckerExits
  PROVE  TaskInv'
<1>1. TaskTyped' /\ UNCHANGED log
  <2>1. evidence' \in Evidence
    BY DEF Begin, WritePid, Launch, WriteClaudePid, StartChecker, WriteCheckerPid, WriteOutcome,
           Exit, AbortExit, KillDispatcher, ClaudeWorks, ModelExits, CheckerCaptures,
           CheckerExits, TaskInv, TaskTyped, Evidence
  <2>2. QED
    BY <2>1
       DEF Begin, WritePid, Launch, WriteClaudePid, StartChecker, WriteCheckerPid, WriteOutcome,
           Exit, AbortExit, KillDispatcher, ClaudeWorks, ModelExits, CheckerCaptures,
           CheckerExits, TaskInv, TaskTyped, Points, Roles
<1>2. DispatcherIsThere'
  BY DEF Begin, WritePid, Launch, WriteClaudePid, StartChecker, WriteCheckerPid, WriteOutcome,
         Exit, AbortExit, KillDispatcher, ClaudeWorks, ModelExits, CheckerCaptures,
         CheckerExits, TaskInv, DispatcherIsThere
<1>3. Over => Over'
  BY DEF Begin, WritePid, Launch, WriteClaudePid, StartChecker, WriteCheckerPid, WriteOutcome,
         Exit, AbortExit, KillDispatcher, ClaudeWorks, ModelExits, CheckerCaptures,
         CheckerExits, Over
<1>4. point' \in {"reported", "gone", "aborting", "failing"} =>
        point \in {"reported", "gone", "aborting", "failing"}
  BY DEF Begin, WritePid, Launch, WriteClaudePid, StartChecker, WriteCheckerPid, WriteOutcome,
         Exit, AbortExit, KillDispatcher, ClaudeWorks, ModelExits, CheckerCaptures,
         CheckerExits
<1>5. point' \in {"finalizing", "checking", "concluded", "reported"} => "claude" \notin alive'
  BY DEF Begin, WritePid, Launch, WriteClaudePid, StartChecker, WriteCheckerPid, WriteOutcome,
         Exit, AbortExit, KillDispatcher, ClaudeWorks, ModelExits, CheckerCaptures,
         CheckerExits, TaskInv, EndIsTrue
<1>6. EndIsTrue'
  BY <1>1, <1>3, <1>4, <1>5 DEF TaskInv, EndIsTrue, LastIsTerminal
<1>7. QED
  BY <1>1, <1>2, <1>6 DEF TaskInv

\* A step that says something.
LEMMA SayingStep ==
  ASSUME TaskInv, Announce \/ MaterialChange \/ NoticeExit \/ Report \/ Abort
  PROVE  TaskInv'
<1>1. PICK e \in Events :
        /\ Says(e)
        /\ e.kind = "terminal" /\ e.prefix => log' = log \cup {"final"}
        /\ Report \/ Abort => e.kind = "terminal"
  <2>1. CASE Announce
    BY <2>1, EventType DEF Announce, TaskInv, Report, Abort, Launched
  <2>2. CASE MaterialChange
    BY <2>2, EventType DEF MaterialChange, TaskInv, Report, Abort, Launched
  <2>3. CASE NoticeExit
    BY <2>3, EventType DEF NoticeExit, TaskInv, Report, Abort, Launched
  <2>4. CASE Report
    <3> DEFINE e == Event("terminal", FALSE, "unknown")
    <3>1. e \in Events /\ e.kind = "terminal"
      BY EventType DEF TaskInv
    <3>2. Says(e) /\ log' = log \cup {"final"}
      BY <2>4 DEF Report
    <3> HIDE DEF e
    <3>3. QED
      BY <3>1, <3>2
  <2>5. CASE Abort
    <3> DEFINE e == [Event("terminal", FALSE, "unknown") EXCEPT !.prefix = FALSE]
    <3>1. e \in Events /\ e.kind = "terminal" /\ ~e.prefix
      BY EventType DEF TaskInv
    <3>2. Says(e)
      BY <2>5 DEF Abort
    <3> HIDE DEF e
    <3>3. QED
      BY <3>1, <3>2
  <2>6. QED
    BY <2>1, <2>2, <2>3, <2>4, <2>5
<1>2. TaskTyped' /\ log \subseteq log'
  BY <1>1, SaysFacts
  DEF Announce, MaterialChange, NoticeExit, Report, Abort, Launched, TaskInv, TaskTyped, Points
<1>3. DispatcherIsThere'
  BY DEF Announce, MaterialChange, NoticeExit, Report, Abort, Launched, TaskInv,
         DispatcherIsThere
<1>4. log' \cap {"child-exited", "final"} # {} => Over'
  BY DEF Announce, MaterialChange, NoticeExit, Report, Abort, Launched, TaskInv, EndIsTrue, Over
<1>5. \A i \in DOMAIN events' :
        events'[i].prefix /\ events'[i].kind = "terminal" => "final" \in log'
  BY <1>1, <1>2, SaysFacts DEF TaskInv, EndIsTrue
<1>6. point' \in {"reported", "gone", "aborting", "failing"} => LastIsTerminal'
  <2>1. point' \in {"reported", "gone", "aborting", "failing"} => Report \/ Abort
    BY DEF Announce, MaterialChange, NoticeExit, Report, Abort, Launched
  <2>2. QED
    BY <1>1, <2>1, SaysFacts DEF TaskInv, LastIsTerminal
<1>7. point' \in {"finalizing", "checking", "concluded", "reported"} => "claude" \notin alive'
  BY DEF Announce, MaterialChange, NoticeExit, Report, Abort, Launched, TaskInv, EndIsTrue
<1>8. QED
  BY <1>2, <1>3, <1>4, <1>5, <1>6, <1>7 DEF TaskInv, EndIsTrue

\* What is over stays over, and the log only grows.
LEMMA OverForGood ==
  ASSUME TaskInv, DispatcherStep \/ KillDispatcher \/ ClaudeWorks \/ ModelExits
                  \/ CheckerCaptures \/ CheckerExits
  PROVE  /\ Over => Over'
         /\ log \subseteq log'
         /\ point = "gone" => point' = "gone"
         /\ Over /\ "dispatcher" \notin alive => "dispatcher" \notin alive'
BY DEF DispatcherStep, Begin, WritePid, Launch, WriteClaudePid, Announce, MaterialChange,
       NoticeExit, StartChecker, WriteCheckerPid, WriteOutcome, Report, Exit, Abort, Launched,
       AbortExit, KillDispatcher, ClaudeWorks, ModelExits, CheckerCaptures, CheckerExits,
       Over, TaskInv, DispatcherIsThere

\* Every step of the dispatcher and its processes is one or the other.
LEMMA TaskKeeps ==
  ASSUME TaskInv, Task
  PROVE  TaskInv'
<1>1. CASE Announce \/ MaterialChange \/ NoticeExit \/ Report \/ Abort
  BY <1>1, SayingStep
<1>2. CASE \/ Begin \/ WritePid \/ Launch \/ WriteClaudePid \/ StartChecker \/ WriteCheckerPid
           \/ WriteOutcome \/ Exit \/ AbortExit \/ KillDispatcher \/ ClaudeWorks \/ ModelExits
           \/ CheckerCaptures \/ CheckerExits
  <2>1. UNCHANGED events
    BY <1>2 DEF Begin, WritePid, Launch, WriteClaudePid, StartChecker, WriteCheckerPid,
       WriteOutcome, Exit, AbortExit, KillDispatcher, ClaudeWorks, ModelExits,
       CheckerCaptures, CheckerExits
  <2>2. QED
    BY <1>2, <2>1, SilentStep
<1>3. QED
  BY <1>1, <1>2 DEF Task, DispatcherStep

-----------------------------------------------------------------------------
(* The observer.                                                            *)

Marks == {"started", "child-exited", "final"}
Outcomes == {"none", "awaiting-review", "plain", "interrupted"}
Seen == {"unread", "missing", "visibility-unknown", "running", "not-running"}

Waits ==
  [at : {"first", "sleeping", "counted", "asking", "doubting"}, until : {"terminal", "material"},
   seen : Nat, count : Nat, found : Points \cup {"none"}]
Waited ==
  [at : {"waited"}, ended : {"boundary", "timeout", "visibility-unknown"},
   found : Points \cup {"none"}]
Begun == [at : {"outcome"}, over : BOOLEAN, outcome : Outcomes]
WithLog == [at : {"log"}, over : BOOLEAN, outcome : Outcomes, log : SUBSET Marks]
WithEvent ==
  [at : Roles \cup {"worktree"}, over : BOOLEAN, outcome : Outcomes, log : SUBSET Marks,
   event : Events \cup {NoEvent}, states : [Roles -> Seen]]

LookTyped ==
  /\ look \in [at : {"idle", "over"}] \cup Waits \cup Waited \cup Begun \cup WithLog \cup WithEvent
  /\ log \subseteq Marks /\ outcome \in Outcomes

\* A wait doubts only a dispatcher that is not there, or has not said who it is.
DoubtIsFounded ==
  look.at = "doubting" =>
    /\ sight = "same" => look.found \in {"new", "captured", "gone", "killed"}
    /\ look.found = "gone" => point = "gone"

\* What a snapshot has read of the end is true, and still is; a dispatcher that can
\* be seen and still runs then has been seen.
ReadIsTrue ==
  /\ look \in WithLog \cup WithEvent => look.log \subseteq log
  /\ look \in WithEvent =>
       /\ look.event.kind = "terminal" => "final" \in log
       /\ look.at # "dispatcher" /\ Terminal /\ sight = "same" /\ "dispatcher" \in alive
            => look.states["dispatcher"] = "running"

AnswerIsTrue ==
  answer.decision = "terminal" /\ answer.confidence = "high" =>
    Over /\ (sight = "same" => "dispatcher" \notin alive)

MonitorInv ==
  /\ TaskInv /\ LookTyped
  /\ DoubtIsFounded /\ NoBoundaryIsLost /\ ReadIsTrue /\ AnswerIsTrue

\* The states of an observer are told apart by where it is.
LEMMA LookCases ==
  ASSUME LookTyped
  PROVE  /\ look.at \in {"first", "sleeping", "counted", "asking", "doubting"} <=> look \in Waits
         /\ look.at = "waited" <=> look \in Waited
         /\ look.at = "outcome" <=> look \in Begun
         /\ look.at = "log" <=> look \in WithLog
         /\ look.at \in Roles \cup {"worktree"} <=> look \in WithEvent
BY DEF LookTyped, Waits, Waited, Begun, WithLog, WithEvent, Roles

\* What a snapshot takes for the end is the end.
LEMMA TerminalIsTrue ==
  ASSUME MonitorInv, look \in WithEvent, Terminal
  PROVE  Over
BY DEF MonitorInv, TaskInv, ReadIsTrue, EndIsTrue, Terminal

\* Nobody has looked yet.
LEMMA MonitorInitHolds == MonitorInit => MonitorInv
<1> SUFFICES ASSUME MonitorInit PROVE MonitorInv
  OBVIOUS
<1>1. TaskInv
  BY TaskInitHolds
<1>2. look.at = "idle" /\ answer.decision = "none"
  BY DEF MonitorInit
<1>3. LookTyped
  BY DEF MonitorInit, LookTyped, Outcomes
<1>4. look \notin WithLog \cup WithEvent
  BY <1>2 DEF WithLog, WithEvent, Roles
<1>5. QED
  BY <1>1, <1>2, <1>3, <1>4
     DEF MonitorInv, DoubtIsFounded, NoBoundaryIsLost, ReadIsTrue, AnswerIsTrue

\* While the task goes on, nothing that was found becomes false.
LEMMA TaskKeepsMonitor ==
  ASSUME MonitorInv, Task
  PROVE  MonitorInv'
<1>1. TaskInv' /\ UNCHANGED <<sight, look, answer>>
  BY TaskKeeps DEF MonitorInv, Task
<1>2. /\ Over => Over'
      /\ log \subseteq log'
      /\ point = "gone" => point' = "gone"
      /\ Over /\ "dispatcher" \notin alive => "dispatcher" \notin alive'
  BY OverForGood DEF MonitorInv, Task
<1>3. LookTyped'
  <2>1. log' \subseteq Marks /\ outcome' \in Outcomes
    BY DEF Task, DispatcherStep, Begin, WritePid, Launch, WriteClaudePid, Announce, MaterialChange,
       NoticeExit, StartChecker, WriteCheckerPid, WriteOutcome, Report, Exit, Abort, Launched,
       AbortExit, KillDispatcher, ClaudeWorks, ModelExits, CheckerCaptures, CheckerExits,
       MonitorInv, LookTyped, Marks, Outcomes
  <2>2. QED
    BY <1>1, <2>1 DEF MonitorInv, LookTyped
<1>4. DoubtIsFounded' /\ NoBoundaryIsLost'
  BY <1>1, <1>2 DEF MonitorInv, DoubtIsFounded, NoBoundaryIsLost
<1>5. ReadIsTrue'
  <2>1. CASE look \in WithEvent /\ Terminal
    <3>1. Over
      BY <2>1, TerminalIsTrue
    <3>2. QED
      BY <1>1, <1>2, <2>1, <3>1 DEF MonitorInv, ReadIsTrue, Terminal
  <2>2. CASE ~(look \in WithEvent /\ Terminal)
    BY <1>1, <1>2, <2>2 DEF MonitorInv, ReadIsTrue, Terminal
  <2>3. QED
    BY <2>1, <2>2
<1>6. AnswerIsTrue'
  BY <1>1, <1>2 DEF MonitorInv, AnswerIsTrue
<1>7. QED
  BY <1>1, <1>3, <1>4, <1>5, <1>6 DEF MonitorInv

\* Looking changes nothing of what is looked at.
LEMMA OnlyLooking ==
  ASSUME TaskInv, UNCHANGED taskVars
  PROVE  TaskInv'
BY DEF taskVars, TaskInv, TaskTyped, DispatcherIsThere, EndIsTrue, Over, LastIsTerminal

\* A look that finds nothing yet.
LEMMA PlainLook ==
  ASSUME MonitorInv, OnlyLooks, look' \in Waits \cup Waited \cup Begun,
         look'.at # "doubting", look'.at = "waited" => look'.ended # "visibility-unknown"
  PROVE  MonitorInv'
<1>1. LookTyped'
  BY DEF MonitorInv, LookTyped, OnlyLooks, taskVars
<1>2. look' \notin WithLog \cup WithEvent
  BY DEF Waits, Waited, Begun, WithLog, WithEvent, Roles
<1>3. TaskInv'
  BY OnlyLooking DEF MonitorInv, OnlyLooks
<1>4. QED
  BY <1>1, <1>2, <1>3
     DEF MonitorInv, OnlyLooks, taskVars, DoubtIsFounded, NoBoundaryIsLost, ReadIsTrue,
         AnswerIsTrue, Over

\* Waiting on the events, up to the question for the dispatcher.
LEMMA WaitKeeps ==
  ASSUME MonitorInv,
         StartWait \/ ReadFirst \/ CountEvents \/ ReadNew \/ TimeOut \/ StartSnapshot
  PROVE  MonitorInv'
<1>1. Len(events) \in Nat /\ point \in Points /\ outcome \in Outcomes
  BY DEF MonitorInv, TaskInv, TaskTyped, LookTyped
<1>2. OnlyLooks
  BY DEF StartWait, ReadFirst, CountEvents, ReadNew, TimeOut, StartSnapshot
<1>3. ~StartWait /\ ~StartSnapshot => look \in Waits
  BY LookCases
     DEF MonitorInv, StartWait, ReadFirst, CountEvents, ReadNew, TimeOut, StartSnapshot
<1>4. CASE StartWait
  <2>1. look' \in Waits /\ look'.at = "first"
    BY <1>1, <1>4 DEF StartWait, Waits
  <2>2. QED
    BY <1>2, <2>1, PlainLook
<1>5. CASE StartSnapshot
  <2>1. look' \in Begun /\ look'.at = "outcome"
    BY <1>1, <1>5 DEF StartSnapshot, Begun
  <2>2. QED
    BY <1>2, <2>1, PlainLook
<1>6. ASSUME NEW kind \in {"boundary", "timeout"}, Ends(kind), look \in Waits
      PROVE  MonitorInv'
  <2>1. look' \in Waited /\ look'.at = "waited" /\ look'.ended = kind
    BY <1>6 DEF Ends, Waits, Waited
  <2>2. QED
    BY <1>2, <1>6, <2>1, PlainLook
<1>7. ASSUME look \in Waits, ReadFirst \/ CountEvents \/ ReadNew,
             ~Ends("boundary")
      PROVE  MonitorInv'
  <2>1. look' \in Waits /\ look'.at \in {"sleeping", "counted", "asking"}
    BY <1>1, <1>7 DEF ReadFirst, CountEvents, ReadNew, Waits
  <2>2. QED
    BY <1>2, <2>1, PlainLook
<1>8. QED
  BY <1>3, <1>4, <1>5, <1>6, <1>7 DEF TimeOut

\* What the wait finds of the dispatcher is where it is then.
LEMMA AskKeeps ==
  ASSUME MonitorInv, AskForDispatcher
  PROVE  MonitorInv'
<1>1. look \in Waits /\ point \in Points /\ OnlyLooks
  BY LookCases DEF MonitorInv, TaskInv, TaskTyped, AskForDispatcher
<1>2. CASE RoleState("dispatcher") = "running"
  <2>1. look' \in Waits /\ look'.at = "sleeping"
    BY <1>1, <1>2 DEF AskForDispatcher, Waits
  <2>2. QED
    BY <1>1, <2>1, PlainLook
<1>3. CASE RoleState("dispatcher") # "running"
  <2>1. look' \in Waits /\ look'.at = "doubting" /\ look'.found = point
    BY <1>1, <1>3 DEF AskForDispatcher, Waits
  <2>2. sight = "same" => point \in {"new", "captured", "gone", "killed"}
    BY <1>3 DEF RoleState, MonitorInv, TaskInv, DispatcherIsThere
  <2>3. LookTyped'
    BY <1>1, <2>1 DEF MonitorInv, LookTyped, OnlyLooks, taskVars
  <2>4. look' \notin WithLog \cup WithEvent
    BY <2>1 DEF WithLog, WithEvent, Roles
  <2>5. TaskInv'
    BY <1>1, OnlyLooking DEF MonitorInv, OnlyLooks
  <2>6. QED
    BY <1>1, <2>1, <2>2, <2>3, <2>4, <2>5
       DEF MonitorInv, OnlyLooks, taskVars, DoubtIsFounded, NoBoundaryIsLost, ReadIsTrue,
           AnswerIsTrue, Over
<1>4. QED
  BY <1>2, <1>3

\* If the dispatcher is gone, its last word is there to be read.
LEMMA ReadLastKeeps ==
  ASSUME MonitorInv, ReadLast
  PROVE  MonitorInv'
<1>1. look \in Waits /\ look.at = "doubting" /\ OnlyLooks
  BY LookCases DEF MonitorInv, ReadLast
<1>2. CASE LastWord
  <2>1. look' \in Waited /\ look'.at = "waited" /\ look'.ended = "boundary"
    BY <1>1, <1>2 DEF ReadLast, Ends, Waits, Waited
  <2>2. QED
    BY <1>1, <2>1, PlainLook
<1>3. CASE ~LastWord
  <2>1. look' \in Waited /\ look'.ended = "visibility-unknown" /\ look'.found = look.found
        /\ look'.at = "waited"
    BY <1>1, <1>3 DEF ReadLast, Ends, Waits, Waited
  <2>2. point # "gone"
    BY <1>3 DEF LastWord, MonitorInv, TaskInv, EndIsTrue
  <2>3. sight = "same" => look.found \in {"new", "captured", "killed"}
    BY <1>1, <2>2 DEF MonitorInv, DoubtIsFounded
  <2>4. LookTyped'
    BY <1>1, <2>1 DEF MonitorInv, LookTyped, OnlyLooks, taskVars
  <2>5. look' \notin WithLog \cup WithEvent
    BY <2>1 DEF WithLog, WithEvent, Roles
  <2>6. TaskInv'
    BY <1>1, OnlyLooking DEF MonitorInv, OnlyLooks
  <2>7. QED
    BY <1>1, <2>1, <2>3, <2>4, <2>5, <2>6
       DEF MonitorInv, OnlyLooks, taskVars, DoubtIsFounded, NoBoundaryIsLost, ReadIsTrue,
           AnswerIsTrue, Over
<1>4. QED
  BY <1>2, <1>3

\* The log is read before the events and the roles.
LEMMA ReadLogKeeps ==
  ASSUME MonitorInv, ReadLog
  PROVE  MonitorInv'
<1>1. look \in Begun /\ log \subseteq Marks /\ OnlyLooks
  BY LookCases DEF MonitorInv, LookTyped, ReadLog
<1>2. look' \in WithLog /\ look'.at = "log" /\ look'.log = log
  BY <1>1 DEF ReadLog, Begun, WithLog
<1>3. look' \notin WithEvent
  BY <1>2 DEF WithEvent, Roles
<1>4. LookTyped'
  BY <1>1, <1>2 DEF MonitorInv, LookTyped, OnlyLooks, taskVars
<1>5. TaskInv'
  BY <1>1, OnlyLooking DEF MonitorInv, OnlyLooks
<1>6. QED
  BY <1>1, <1>2, <1>3, <1>4, <1>5
     DEF MonitorInv, OnlyLooks, taskVars, DoubtIsFounded, NoBoundaryIsLost, ReadIsTrue,
         AnswerIsTrue, Over

\* The last event with a prefix is an event, and a terminal one was reported.
LEMMA LastEventIsTrue ==
  ASSUME TaskInv
  PROVE  /\ LastEvent \in Events \cup {NoEvent}
         /\ LastEvent.kind = "terminal" => "final" \in log
<1> DEFINE known == {i \in DOMAIN events : events[i].prefix}
<1>1. events \in Seq(Events) /\ Len(events) \in Nat /\ DOMAIN events = 1..Len(events)
  BY DEF TaskInv, TaskTyped
<1>2. CASE known = {}
  BY <1>2 DEF LastEvent, NoEvent
<1>3. CASE known # {}
  <2>1. known \in SUBSET Nat /\ \A i \in known : i <= Len(events)
    BY <1>1
  <2>2. \E i \in known : \A j \in known : j <= i
    <3> HIDE DEF known
    <3>1. QED
      BY <1>1, <1>3, <2>1, GreatestNatural
  <2>3. PICK i \in known : LastEvent = events[i]
    BY <1>3, <2>2 DEF LastEvent
  <2>4. QED
    BY <1>1, <2>3 DEF TaskInv, EndIsTrue
<1>4. QED
  BY <1>2, <1>3

\* A terminal event is only there with the final mark of the log.
LEMMA ReadEventKeeps ==
  ASSUME MonitorInv, ReadEvent
  PROVE  MonitorInv'
<1>1. look \in WithLog /\ OnlyLooks
  BY LookCases DEF MonitorInv, ReadEvent
<1>2. LastEvent \in Events \cup {NoEvent} /\ (LastEvent.kind = "terminal" => "final" \in log)
  BY LastEventIsTrue DEF MonitorInv
<1>3. look' \in WithEvent /\ look'.at = "dispatcher" /\ look'.log = look.log
      /\ look'.event = LastEvent
  BY <1>1, <1>2 DEF ReadEvent, WithLog, WithEvent, Seen, Roles
<1>4. look' \notin WithLog
  BY <1>3 DEF WithLog
<1>5. LookTyped'
  BY <1>1, <1>3 DEF MonitorInv, LookTyped, OnlyLooks, taskVars
<1>6. TaskInv'
  BY <1>1, OnlyLooking DEF MonitorInv, OnlyLooks
<1>7. QED
  BY <1>1, <1>2, <1>3, <1>4, <1>5, <1>6
     DEF MonitorInv, OnlyLooks, taskVars, DoubtIsFounded, NoBoundaryIsLost, ReadIsTrue,
         AnswerIsTrue, Over

\* A dispatcher in the same namespace that still runs when all is over is seen to.
LEMMA ReadRoleKeeps ==
  ASSUME MonitorInv, ReadRole
  PROVE  MonitorInv'
<1>1. look \in WithEvent /\ look.at \in Roles /\ OnlyLooks
  BY LookCases DEF MonitorInv, ReadRole
<1>2. RoleState(look.at) \in Seen
  BY DEF RoleState, Seen
<1>3. NextRole[look.at] \in Roles \cup {"worktree"} /\ NextRole[look.at] # "dispatcher"
  BY <1>1 DEF NextRole, Roles
<1>4. /\ look' \in WithEvent /\ look'.at # "dispatcher"
      /\ look'.log = look.log /\ look'.event = look.event
      /\ look'.states = [look.states EXCEPT ![look.at] = RoleState(look.at)]
  BY <1>1, <1>2, <1>3 DEF ReadRole, WithEvent
<1>5. look' \notin WithLog
  BY <1>4 DEF WithLog, WithEvent, Roles
<1>6. LookTyped'
  BY <1>1, <1>4 DEF MonitorInv, LookTyped, OnlyLooks, taskVars
<1>7. TaskInv'
  BY <1>1, OnlyLooking DEF MonitorInv, OnlyLooks
<1>8. ASSUME Terminal, sight = "same", "dispatcher" \in alive
      PROVE  look'.states["dispatcher"] = "running"
  <2>1. Over
    BY <1>1, <1>8, TerminalIsTrue
  <2>2. RoleState("dispatcher") = "running"
    BY <1>8, <2>1 DEF RoleState, MonitorInv, TaskInv, DispatcherIsThere, Over
  <2>3. look.states \in [Roles -> Seen] /\ "dispatcher" \in Roles
    BY <1>1 DEF WithEvent, Roles
  <2>4. CASE look.at = "dispatcher"
    BY <1>4, <2>2, <2>3, <2>4
  <2>5. CASE look.at # "dispatcher"
    BY <1>1, <1>4, <1>8, <2>3, <2>5 DEF MonitorInv, ReadIsTrue
  <2>6. QED
    BY <2>4, <2>5
<1>9. ReadIsTrue'
  BY <1>1, <1>4, <1>5, <1>8 DEF MonitorInv, ReadIsTrue, Terminal, OnlyLooks, taskVars
<1>10. look'.at \in Roles \cup {"worktree"}
  BY <1>4 DEF WithEvent
<1>11. QED
  BY <1>1, <1>6, <1>7, <1>9, <1>10
     DEF MonitorInv, OnlyLooks, taskVars, DoubtIsFounded, NoBoundaryIsLost,
         AnswerIsTrue, Over, Roles

\* The decision "terminal" needs the end in the log, and no role that runs.
LEMMA DecideKeeps ==
  ASSUME MonitorInv, Decide
  PROVE  MonitorInv'
<1>1. look \in WithEvent /\ look.at = "worktree"
  BY LookCases DEF MonitorInv, Decide
<1>2. look' = [at |-> "over"] /\ UNCHANGED <<taskVars, sight>>
  BY DEF Decide
<1>3. LookTyped'
  BY <1>2 DEF MonitorInv, LookTyped, taskVars
<1>4. look'.at = "over" /\ look' \notin WithLog \cup WithEvent
  BY <1>2 DEF WithLog, WithEvent, Roles
<1>5. TaskInv'
  BY <1>2, OnlyLooking DEF MonitorInv
<1>6. AnswerIsTrue'
  <2> SUFFICES ASSUME answer'.decision = "terminal", answer'.confidence = "high"
               PROVE  Over /\ (sight = "same" => "dispatcher" \notin alive)
    BY <1>2 DEF AnswerIsTrue, taskVars, Over
  <2>1. PICK errors \in SUBSET ErrorCategories :
          answer' = [decision |-> Decision(errors)[1], confidence |-> Decision(errors)[2],
                     operator |-> OperatorState, over |-> look.over]
    BY DEF Decide
  <2>2. Decision(errors)[1] = "terminal" /\ Decision(errors)[2] = "high"
    BY <2>1
  <2>3. Terminal /\ ~Overall
    BY <2>2 DEF Decision
  <2>4. look.states["dispatcher"] # "running"
    BY <2>3 DEF Overall, Some, Roles
  <2>5. QED
    BY <1>1, <2>3, <2>4, TerminalIsTrue DEF MonitorInv, ReadIsTrue
<1>7. QED
  BY <1>3, <1>4, <1>5, <1>6 DEF MonitorInv, DoubtIsFounded, NoBoundaryIsLost, ReadIsTrue

\* The inductive invariant of a running dispatch and its observer.
THEOREM MonitorInvariant == MonitorSpec => []MonitorInv
<1>1. MonitorInv /\ [MonitorNext]_monitorVars => MonitorInv'
  <2> SUFFICES ASSUME MonitorInv, [MonitorNext]_monitorVars PROVE MonitorInv'
    OBVIOUS
  <2>1. CASE UNCHANGED monitorVars
    BY <2>1 DEF monitorVars, taskVars, MonitorInv, TaskInv, TaskTyped, DispatcherIsThere,
       EndIsTrue, Over, LastIsTerminal, LookTyped, DoubtIsFounded, NoBoundaryIsLost, ReadIsTrue,
       Terminal, AnswerIsTrue
  <2>2. CASE Task
    BY <2>2, TaskKeepsMonitor
  <2>3. CASE Observer
    BY <2>3, WaitKeeps, AskKeeps, ReadLastKeeps, ReadLogKeeps, ReadEventKeeps, ReadRoleKeeps,
       DecideKeeps DEF Observer
  <2>4. QED
    BY <2>1, <2>2, <2>3 DEF MonitorNext
<1>2. QED
  BY MonitorInitHolds, <1>1, PTL DEF MonitorSpec

\* For any number of events and any timing: a wait only gives up on a dispatcher it
\* can see when that was killed or had not announced itself (monitor-claude.sh:193-244).
THEOREM NoBoundaryIsEverLost == MonitorSpec => []NoBoundaryIsLost
<1>1. MonitorInv => NoBoundaryIsLost
  BY DEF MonitorInv
<1>2. QED
  BY MonitorInvariant, <1>1, PTL

\* At whichever moments the files were read: a task called terminal has no Claude that
\* runs, and no dispatcher that can be seen (claude-monitor-decision.py:430-560).
THEOREM TerminalMeansOver == MonitorSpec => []TerminalIsOver
<1>1. MonitorInv => TerminalIsOver
  BY DEF MonitorInv, AnswerIsTrue, Over, TerminalIsOver
<1>2. QED
  BY MonitorInvariant, <1>1, PTL
=============================================================================
