----------------------------- MODULE WriteSandbox ----------------------------
(***************************************************************************)
(* The exact-write sandbox of a dispatch.  prepare-write-sandbox.py copies *)
(* the declared files of the worktree to a staging directory, which is     *)
(* mounted over them for Claude; write-approved-file.py validates a        *)
(* candidate and writes it into the staged file in place; the dispatcher   *)
(* copies the staged files back while Claude runs and once it has ended.   *)
(* Any of them may fail or be killed, and the next dispatch continues in   *)
(* the same worktree.                                                      *)
(***************************************************************************)
EXTENDS Naturals, Sequences, SequencesExt, FiniteSets, Functions

CONSTANTS Files,            \* the declared product files
          Tracked,          \* those the base commit has
          BaseContent,      \* what it has in them
          FullReplacement,  \* those the task card lists for full replacement
          Writers,          \* tool calls of Claude that may overlap
          Chunks,           \* pieces of content, of equal size and above 4 KiB
          Bad,              \* a piece that does not parse
          Openings,         \* pieces that parse with another one after them
          Hole,             \* what a write beyond the end leaves before it
          Absent,
          MaxLen,           \* bound: pieces of a file
          MaxDispatches,    \* bound: dispatches in the worktree
          MaxCalls          \* bound: tool calls that reach a file

ASSUME SandboxAssumption ==
  /\ Tracked \subseteq Files /\ FullReplacement \subseteq Files
  /\ Bad \in Chunks /\ Hole \notin Chunks /\ Openings \subseteq Chunks
  /\ BaseContent \in Seq(Chunks) /\ BaseContent # <<>>
  /\ \A i \in DOMAIN BaseContent : BaseContent[i] # Bad
  /\ BaseContent[Len(BaseContent)] \notin Openings
  /\ Absent \notin Files /\ Absent \notin Seq(Chunks \cup {Hole})
  /\ MaxLen \in Nat \ {0} /\ MaxDispatches \in Nat \ {0} /\ MaxCalls \in Nat

Candidates == BoundedSeq(Chunks, MaxLen)
Count(content, c) == Cardinality({i \in DOMAIN content : content[i] = c})

\* _reject_new_duplicates, for definitions, imports, main guards and module strings.
NoNewDuplicate(previous, candidate) ==
  \A c \in Chunks : Count(candidate, c) > 1 => Count(candidate, c) <= Count(previous, c)

\* ast.parse, json.loads, tomllib.loads.
Parses(content) ==
  /\ \A i \in DOMAIN content : content[i] \notin {Bad, Hole}
  /\ content # <<>> => content[Len(content)] \notin Openings

\* _validate_candidate: it parses, and nothing becomes a duplicate of what parsed.
ValidCandidate(previous, candidate) ==
  /\ Parses(candidate)
  /\ Parses(previous) => NoNewDuplicate(previous, candidate)

\* replace_unique_approved: one part of the file that occurs exactly once is
\* replaced; above three quarters of it need the authority to replace it.
Replacements(current, full) ==
  LET part(i, j) == SubSeq(current, i, j)
      unique(i, j) == \A k \in 1..(Len(current) - (j - i)) :
                        part(k, k + (j - i)) = part(i, j) => k = i
      new == {<<>>} \cup {<<c>> : c \in Chunks} IN
  {SubSeq(current, 1, e[1] - 1) \o e[3] \o SubSeq(current, e[2] + 1, Len(current)) :
     e \in {t \in (DOMAIN current) \X (DOMAIN current) \X new :
              /\ t[1] <= t[2] /\ unique(t[1], t[2])
              /\ 4 * (t[2] - t[1] + 1) > 3 * Len(current) => full
              /\ Len(current) - (t[2] - t[1] + 1) + Len(t[3]) <= MaxLen}}

VARIABLES
  phase,      \* of the dispatch
  product,    \* the files in the worktree
  staged,     \* their staged copies
  binding,    \* the receipt: existed before, may be written completely
  writer,     \* the tool calls
  todo,       \* files the running synchronisation has still to look at
  copying,    \* the file it found worth copying
  dispatches,
  calls,
  torn,       \* history: files copied in the middle of a write, and not since
  tainted     \* history: files with a killed, unrestored or overlapping write

vars == <<phase, product, staged, binding, writer, todo, copying, dispatches, calls,
          torn, tainted>>

Idle == [pc |-> "idle"]
Base == [f \in Files |-> IF f \in Tracked THEN BaseContent ELSE Absent]

Init ==
  /\ phase = "new" /\ dispatches = 0 /\ calls = 0
  /\ product = Base
  /\ staged = [f \in Files |-> <<>>]
  /\ binding = [f \in Files |-> [existed |-> FALSE, full |-> FALSE]]
  /\ writer = [w \in Writers |-> Idle]
  /\ todo = {} /\ copying = Absent
  /\ torn = {} /\ tainted = {}

Writing(w) == writer[w].pc \in {"opened", "writing", "failed"}
Touched == {writer[w].file : w \in {v \in Writers : Writing(v)}}
HalfWritten == {writer[w].file : w \in {v \in Writers : writer[v].pc \in {"writing", "failed"}}}

-----------------------------------------------------------------------------
\* prepare: what the receipt says of a file depends on what the worktree has now.
Binding(f) ==
  [existed |-> product[f] # Absent, full |-> product[f] = Absent \/ f \in FullReplacement]

\* bubblewrap needs a file to mount over: an empty one is created.
Placeholder(files) ==
  [f \in Files |-> IF f \in files /\ product[f] = Absent THEN <<>> ELSE product[f]]

Prepare ==
  /\ phase \in {"new", "ended", "dead"} /\ dispatches < MaxDispatches
  /\ phase' = "prepared" /\ dispatches' = dispatches + 1
  /\ staged' = [f \in Files |-> IF product[f] = Absent THEN <<>> ELSE product[f]]
  /\ binding' = [f \in Files |-> Binding(f)]
  /\ product' = Placeholder(Files)
  /\ tainted' = tainted \cup torn
  /\ UNCHANGED <<writer, todo, copying, calls, torn>>

\* A later path is a symbolic link, has another kind, or an OSError: no receipt.
PrepareFails ==
  /\ phase \in {"new", "ended", "dead"} /\ dispatches < MaxDispatches
  /\ phase' = "dead" /\ dispatches' = dispatches + 1
  /\ \E files \in SUBSET Files : files # Files /\ product' = Placeholder(files)
  /\ UNCHANGED <<staged, binding, writer, todo, copying, calls, torn, tainted>>

\* The mounts are probed; a failure there ends the dispatch as it is.
Start ==
  /\ phase = "prepared"
  /\ phase' \in {"running", "dead"}
  /\ UNCHANGED <<product, staged, binding, writer, todo, copying, dispatches, calls, torn,
                 tainted>>

-----------------------------------------------------------------------------
\* write_approved and replace_unique_approved up to the first write: the file is
\* opened and read, the candidate built from what was read and validated.
Open(w, f) ==
  /\ phase = "running" /\ writer[w] = Idle
  /\ calls < MaxCalls /\ calls' = calls + 1
  /\ \E candidate \in (IF binding[f].full THEN Candidates ELSE {})
                        \cup Replacements(staged[f], binding[f].full) :
       /\ ValidCandidate(staged[f], candidate)
       /\ writer' = [writer EXCEPT ![w] =
            [pc |-> "opened", file |-> f, previous |-> staged[f], candidate |-> candidate,
             written |-> 0]]
  /\ tainted' = IF f \in Touched THEN tainted \cup {f} ELSE tainted
  /\ UNCHANGED <<phase, product, staged, binding, todo, copying, dispatches, torn>>

\* A descriptor has its own offset: what others wrote there is overwritten.
WriteAt(content, i, c) ==
  IF i <= Len(content) THEN [content EXCEPT ![i] = c]
  ELSE content \o [k \in 1..(i - 1 - Len(content)) |-> Hole] \o <<c>>

\* _replace_descriptor_content: truncate, write (perhaps not all at once), fsync.
Truncate(w) ==
  /\ writer[w].pc = "opened"
  /\ writer' = [writer EXCEPT ![w].pc = "writing"]
  /\ staged' = [staged EXCEPT ![writer[w].file] = <<>>]
  /\ UNCHANGED <<phase, product, binding, todo, copying, dispatches, calls, torn,
                 tainted>>

WriteChunk(w) ==
  LET i == writer[w].written + 1 IN
  /\ writer[w].pc = "writing" /\ i <= Len(writer[w].candidate)
  /\ writer' = [writer EXCEPT ![w].written = i]
  /\ staged' = [staged EXCEPT ![writer[w].file] = WriteAt(@, i, writer[w].candidate[i])]
  /\ UNCHANGED <<phase, product, binding, todo, copying, dispatches, calls, torn,
                 tainted>>

Written(w) ==
  /\ writer[w].pc = "writing" /\ writer[w].written = Len(writer[w].candidate)
  /\ writer' = [writer EXCEPT ![w] = Idle]
  /\ UNCHANGED <<phase, product, staged, binding, todo, copying, dispatches, calls, torn,
                 tainted>>

WriteFails(w) ==
  /\ writer[w].pc \in {"opened", "writing"}
  /\ writer' = [writer EXCEPT ![w].pc = "failed"]
  /\ UNCHANGED <<phase, product, staged, binding, todo, copying, dispatches, calls, torn,
                 tainted>>

\* A variant: the previous content is written over what is there.
RollbackInPlace(w) ==
  /\ writer[w].pc = "failed"
  /\ writer' = [writer EXCEPT ![w] = Idle]
  /\ LET f == writer[w].file
         previous == writer[w].previous IN
     staged' = [staged EXCEPT ![f] =
       previous \o SubSeq(@, Len(previous) + 1, Len(@))]
  /\ UNCHANGED <<phase, product, binding, todo, copying, dispatches, calls, torn,
                 tainted>>

\* _transactional_descriptor_write: the content that was read is written back,
\* or that fails too, somewhere.
Rollback(w) ==
  /\ writer[w].pc = "failed"
  /\ writer' = [writer EXCEPT ![w] = Idle]
  /\ LET f == writer[w].file
         previous == writer[w].previous IN
     \/ staged' = [staged EXCEPT ![f] = previous] /\ UNCHANGED tainted
     \/ /\ \E n \in 0..Len(previous) : staged' = [staged EXCEPT ![f] = SubSeq(previous, 1, n)]
        /\ tainted' = tainted \cup {f}
  /\ UNCHANGED <<phase, product, binding, todo, copying, dispatches, calls, torn>>

-----------------------------------------------------------------------------
\* sync_receipt, once in every pass of the dispatcher's loop and after Claude.
BeginSync ==
  /\ phase \in {"running", "exited"} /\ todo = {} /\ copying = Absent
  /\ phase' = IF phase = "exited" THEN "finalsync" ELSE phase
  /\ todo' = Files
  /\ UNCHANGED <<product, staged, binding, writer, copying, dispatches, calls, torn,
                 tainted>>

\* A new file that is empty: its placeholder is removed instead.  One that was emptied
\* keeps what was copied before.
SkipEmpty(f) ==
  /\ copying = Absent /\ f \in todo /\ ~binding[f].existed /\ staged[f] = <<>>
  /\ product' = [product EXCEPT ![f] = IF @ = <<>> THEN Absent ELSE @]
  /\ todo' = todo \ {f}
  /\ tainted' = IF phase = "finalsync" THEN tainted \cup (torn \cap {f}) ELSE tainted
  /\ UNCHANGED <<phase, staged, binding, writer, copying, dispatches, calls, torn>>

Select(f) ==
  /\ copying = Absent /\ f \in todo /\ (binding[f].existed \/ staged[f] # <<>>)
  /\ copying' = f /\ todo' = todo \ {f}
  /\ UNCHANGED <<phase, product, staged, binding, writer, dispatches, calls, torn,
                 tainted>>

\* The copy is made next to the target and renamed over it.
Copy ==
  /\ copying # Absent
  /\ product' = [product EXCEPT ![copying] = staged[copying]]
  /\ torn' = IF copying \in HalfWritten THEN torn \cup {copying} ELSE torn \ {copying}
  /\ copying' = Absent
  /\ UNCHANGED <<phase, staged, binding, writer, todo, dispatches, calls, tainted>>

\* Processes that are killed stop where they are.
StopWriters ==
  /\ writer' = [w \in Writers |-> Idle]
  /\ tainted' = tainted \cup HalfWritten

\* An OSError: Claude is stopped, or the final synchronisation has failed.
SyncFails ==
  /\ todo # {} \/ copying # Absent
  /\ phase' = IF phase = "finalsync" THEN "dead" ELSE "exited"
  /\ todo' = {} /\ copying' = Absent
  /\ StopWriters
  /\ UNCHANGED <<product, staged, binding, dispatches, calls, torn>>

\* Claude ends by itself, or is stopped by the dispatcher (timeout, no output).
ClaudeEnds ==
  /\ phase = "running" /\ todo = {} /\ copying = Absent
  /\ phase' = "exited"
  /\ StopWriters
  /\ UNCHANGED <<product, staged, binding, todo, copying, dispatches, calls, torn>>

Finish ==
  /\ phase = "finalsync" /\ todo = {} /\ copying = Absent
  /\ phase' = "ended"
  /\ UNCHANGED <<product, staged, binding, writer, todo, copying, dispatches, calls, torn,
                 tainted>>

\* The dispatcher is killed; the sandbox dies with it.
Kill ==
  /\ phase \in {"prepared", "running", "exited", "finalsync"}
  /\ phase' = "dead" /\ todo' = {} /\ copying' = Absent
  /\ StopWriters
  /\ UNCHANGED <<product, staged, binding, dispatches, calls, torn>>

Claude(w) ==
  \/ \E f \in Files : Open(w, f)
  \/ Truncate(w) \/ WriteChunk(w) \/ Written(w) \/ WriteFails(w) \/ Rollback(w)

Dispatcher ==
  \/ Prepare \/ PrepareFails \/ Start
  \/ BeginSync \/ \E f \in Files : SkipEmpty(f) \/ Select(f)
  \/ Copy \/ SyncFails \/ ClaudeEnds \/ Finish \/ Kill

Next == Dispatcher \/ \E w \in Writers : Claude(w)

Spec == Init /\ [][Next]_vars

-----------------------------------------------------------------------------
\* What a completed dispatch leaves in the worktree is parsable and has no
\* duplicate that the base commit had not, although half-written files were
\* copied back meanwhile, failed writes were rolled back and earlier dispatches
\* died.  Excepted are what write-approved-file.py cannot undo, killed and
\* overlapping writes, and a half-written copy that no later one replaces.
ProductIsValidated ==
  phase = "ended" =>
    \A f \in Files \ tainted :
      product[f] # Absent =>
        ValidCandidate(IF f \in Tracked THEN Base[f] ELSE <<>>, product[f])

=============================================================================
