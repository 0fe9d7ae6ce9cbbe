---------------------------- MODULE ProjectRefresh ----------------------------
(***************************************************************************)
(* install_workflow.py and doctor_workflow.py: an updater that has         *)
(* installed the skill refreshes a project from it, reading the installed  *)
(* skill file by file while others may replace it and the user may edit    *)
(* the project.  The project has two files with a managed block (AGENTS.md *)
(* and CLAUDE.md, the skill's "policy"), a plain file (the skill's         *)
(* "launcher"), a file of an older release that is retired, and rules in   *)
(* .gitignore and .git/info/exclude.                                       *)
(***************************************************************************)
EXTENDS SkillInstall, SequencesExt

CONSTANTS NoBlock,
          OldDocs,        \* what a project may have as CLAUDE.md before
          MaxEdits        \* bound: edits of the user

ASSUME ProjectAssumption ==
  Required = {"policy", "launcher"} /\ MaxEdits \in Nat

Docs == {"agents", "claude"}
Edited == MaxVersion + 1        \* a plain file of the user's making
RuntimeRules == {"/.worktrees/*", "!/.worktrees/.gitkeep"}
LocalRules == {"/AGENTS.md", "/CLAUDE.md", "/ai/", "/.worktrees/"}

-----------------------------------------------------------------------------
(* How the installer merges its managed block into a file that also has lines *)
(* of the user's.  A file is a sequence of lines [kind, version]; blank lines *)
(* and trailing whitespace, which both comparisons of the code ignore, are    *)
(* left out.                                                                  *)

Line(kind) == [kind |-> kind, version |-> 0]
Title  == Line("title")    \* a line that starts with #
Text   == Line("text")
Import == Line("import")   \* the bare @AGENTS.md of older releases
Begin  == Line("begin")
End    == Line("end")
Block(v) == [kind |-> "block", version |-> v]

DocLines == [kind : {"title", "text", "import", "begin", "end", "block"}, version : Nat]

\* The lines that are neither the installer's nor the import it once added.
IsOwn(line) == line.kind \in {"title", "text"}
Own(file) ==
  LET kept[n \in 0..Len(file)] ==
        IF n = 0 THEN <<>>
        ELSE IF IsOwn(file[n]) THEN Append(kept[n - 1], file[n]) ELSE kept[n - 1]
  IN kept[Len(file)]

IndexIn(file, line) == SelectInSeq(file, LAMBDA l : l = line)   \* 0 when it is not there
Upto(file, n) == SubSeq(file, 1, n)
After(file, n) == SubSeq(file, n + 1, Len(file))

\* What extract_managed_block finds between the first markers, NoBlock without both.
Managed(file) ==
  IF Contains(file, Begin) /\ Contains(file, End)
  THEN SubSeq(file, IndexIn(file, Begin) + 1, IndexIn(file, End) - 1)
  ELSE NoBlock

\* The doctor looks for the end marker behind the begin marker only.
DoctorBlock(file) ==
  LET behind == After(file, IndexIn(file, Begin)) IN
  IF Contains(file, Begin) /\ Contains(behind, End)
  THEN Upto(behind, IndexIn(behind, End) - 1)
  ELSE NoBlock

\* The leading lines that start with #.
Headings(file) ==
  LET other == SelectInSeq(file, LAMBDA l : l.kind # "title") IN
  IF other = 0 THEN Len(file) ELSE other - 1

BuildFile(header, v, footer) == header \o <<Begin, Block(v), End>> \o footer

\* A variant: without a block in the file the new one takes the place of its header.
MergeAtTop(file, v) ==
  IF Contains(file, Begin) /\ Contains(file, End)
  THEN BuildFile(Upto(file, IndexIn(file, Begin) - 1), v, After(file, IndexIn(file, End)))
  ELSE BuildFile(<<>>, v, After(file, Headings(file)))

\* The block between the markers is replaced, else it goes behind the headings.
Merge(file, v) ==
  IF Contains(file, Begin) /\ Contains(file, End)
  THEN BuildFile(Upto(file, IndexIn(file, Begin) - 1), v, After(file, IndexIn(file, End)))
  ELSE BuildFile(Upto(file, Headings(file)), v, After(file, Headings(file)))

\* The import goes when the header is exactly one heading and the import.
RemoveLegacyImport(file) ==
  LET begin == IndexIn(file, Begin)
      header == IF begin = 0 THEN file ELSE Upto(file, begin - 1)
  IN IF header \in {<<Title, Import>>, <<Import, Title>>}
     THEN <<Title>> \o After(file, 2)
     ELSE file

\* install_or_update_agents and install_or_update_claude; Absent: no such file.
Installed(name, file, v) ==
  IF file = Absent THEN BuildFile(IF name = "claude" THEN <<Title>> ELSE <<>>, v, <<>>)
  ELSE IF name = "claude" THEN RemoveLegacyImport(Merge(RemoveLegacyImport(file), v))
  ELSE Merge(file, v)

\* A file that has its markers around one block, or no marker at all.
OneBlockAt(file, i) ==
  /\ file[i] = Begin /\ file[i + 1].kind = "block" /\ file[i + 2] = End
  /\ \A j \in DOMAIN file : (file[j] = Begin => j = i) /\ (file[j] = End => j = i + 2)
Neat(file) ==
  \/ ~Contains(file, Begin) /\ ~Contains(file, End)
  \/ \E i \in 1..(Len(file) - 2) : OneBlockAt(file, i)

ASSUME DocsAssumption ==
  /\ Absent \notin Seq(DocLines) /\ NoBlock \notin Seq(DocLines)
  /\ \A old \in OldDocs \ {Absent} : old \in Seq(DocLines) /\ Neat(old)

-----------------------------------------------------------------------------
VARIABLES
  doc, launcher, retired,   \* the project's files
  gitignore, exclude,
  refresh,   \* of each updater: its step and its two options
  edits,
  mine,      \* history: the lines of each document that are not the installer's
  touched    \* history: what may differ again since a refresh wrote or compared it

projectVars == <<doc, launcher, retired, gitignore, exclude, refresh, edits, mine, touched>>
refreshVars == <<skillVars, projectVars>>

ProjectInit ==
  /\ SkillInit
  /\ \E old \in OldDocs : doc = [d \in Docs |-> IF d = "claude" THEN old ELSE Absent]
  /\ retired = (doc["claude"] # Absent /\ Contains(doc["claude"], Begin))
  /\ launcher = IF retired THEN 1 ELSE 0
  /\ gitignore = (IF retired THEN {"/.worktrees/"} ELSE {}) /\ exclude = {}
  /\ refresh = [u \in Updaters |-> [at |-> "wait", update |-> FALSE, local |-> FALSE]]
  /\ edits = 0
  /\ mine = [d \in Docs |-> IF doc[d] = Absent THEN <<>> ELSE Own(doc[d])]
  /\ touched = {"files", "ignore"}

Step(u, from, to) ==
  refresh[u].at = from /\ refresh' = [refresh EXCEPT ![u].at = to]

\* A file of the installed skill can be read.
CanRead(f) == skill # Absent /\ skill.tree[f] # 0
ReadFails(u, from, f) ==
  /\ ~CanRead(f) /\ Step(u, from, "failed")
  /\ UNCHANGED <<doc, launcher, retired, gitignore, exclude, edits, mine, touched>>

-----------------------------------------------------------------------------
\* validate_install_manifest before anything is changed; only a refresh removes what is
\* retired.
StartRefresh(u) ==
  /\ At(u) = "installed"
  /\ \E update, local \in BOOLEAN :
       /\ refresh[u].at = "wait"
       /\ refresh' = [refresh EXCEPT ![u] =
            [at |-> IF \A f \in Required : CanRead(f) THEN "policy" ELSE "failed",
             update |-> update, local |-> local]]
       /\ retired' = (retired /\ ~(update /\ \A f \in Required : CanRead(f)))
  /\ UNCHANGED <<doc, launcher, gitignore, exclude, edits, mine, touched>>

\* A document that is created has no line of the user's.
WritePolicy(u) ==
  \/ ReadFails(u, "policy", "policy")
  \/ /\ CanRead("policy") /\ Step(u, "policy", "launcher")
     /\ doc' = [d \in Docs |-> Installed(d, doc[d], skill.tree["policy"])]
     /\ mine' = [d \in Docs |-> IF doc[d] = Absent THEN Own(doc'[d]) ELSE mine[d]]
     /\ UNCHANGED <<launcher, retired, gitignore, exclude, edits, touched>>

\* install_or_update_plain: an existing file is left alone without --update-workflow-files.
WriteLauncher(u) ==
  \/ ReadFails(u, "launcher", "launcher")
  \/ /\ CanRead("launcher") /\ Step(u, "launcher", "ignore")
     /\ launcher' = IF refresh[u].update \/ launcher = 0
                    THEN skill.tree["launcher"] ELSE launcher
     /\ UNCHANGED <<doc, retired, gitignore, exclude, edits, mine, touched>>

\* A variant: the rule for the whole directory stays, as an older release wrote it.
IgnoreUnlessWhole(rules) == IF "/.worktrees/" \in rules THEN rules ELSE rules \cup RuntimeRules

\* ensure_worktrees_gitignore
IgnoreRules(rules) == (rules \ {".worktrees/", "/.worktrees/"}) \cup RuntimeRules

\* A local-only install changes .git/info/exclude in place of .gitignore.
WriteIgnore(u) ==
  /\ Step(u, "ignore", IF refresh[u].update THEN "verify" ELSE "done")
  /\ IF refresh[u].local
     THEN exclude' = exclude \cup LocalRules /\ gitignore' = gitignore
     ELSE gitignore' = IgnoreRules(gitignore) /\ exclude' = exclude
  /\ touched' = touched \ {"ignore"}
  /\ UNCHANGED <<doc, launcher, retired, edits, mine>>

\* verify_refresh_postcondition finds no mismatch.
Matches ==
  /\ \A d \in Docs :
       doc[d] # Absent /\ Managed(doc[d]) = <<Block(skill.tree["policy"])>>
  /\ launcher = skill.tree["launcher"]
  /\ ~retired

Verify(u) ==
  \/ \E f \in Required : ReadFails(u, "verify", f)
  \/ /\ \A f \in Required : CanRead(f)
     /\ Step(u, "verify", IF Matches THEN "ok" ELSE "failed")
     /\ touched' = IF Matches THEN touched \ {"files"} ELSE touched
     /\ UNCHANGED <<doc, launcher, retired, gitignore, exclude, edits, mine>>

-----------------------------------------------------------------------------
\* run_doctor, of what the installer is responsible for: a missing file is an error and
\* ends the comparison, the rest are warnings.
Outdated ==
  skill # Absent /\
    \/ skill.tree["launcher"] # 0 /\ skill.tree["launcher"] # launcher
    \/ skill.tree["policy"] # 0 /\
       \E d \in Docs : DoctorBlock(doc[d]) # <<Block(skill.tree["policy"])>>

Ignored == RuntimeRules \subseteq gitignore \/ LocalRules \subseteq exclude

DoctorFindings ==
  (IF launcher = 0 \/ \E d \in Docs : doc[d] = Absent THEN {"missing"}
   ELSE IF Outdated THEN {"workflow-version"} ELSE {})
  \cup (IF Ignored THEN {} ELSE {"worktrees-ignore"})

\* The last phase of a guided setup, or of an update with --doctor: an error fails it.
Doctor(u) ==
  /\ Step(u, "ok", IF "missing" \in DoctorFindings THEN "failed" ELSE "ready")
  /\ UNCHANGED <<doc, launcher, retired, gitignore, exclude, edits, mine, touched>>

-----------------------------------------------------------------------------
\* The user adds a line of his outside the block.
AddLine(d) ==
  /\ doc[d] # Absent
  /\ \E i \in 0..Len(doc[d]), line \in {Title, Text} :
       /\ \/ i < IndexIn(doc[d], Begin) \/ i >= IndexIn(doc[d], End)
       /\ doc' = [doc EXCEPT ![d] = Upto(@, i) \o <<line>> \o After(@, i)]
       /\ mine' = [mine EXCEPT ![d] = Own(doc'[d])]
  /\ UNCHANGED <<launcher, gitignore>>

\* He removes one of the markers; done to a second one, a document may end with an end
\* marker ahead of the begin marker, which no refresh repairs.
RemoveMarker(d) ==
  /\ doc[d] # Absent /\ edits = 0
  /\ \E i \in DOMAIN doc[d] :
       /\ doc[d][i] \in {Begin, End}
       /\ doc' = [doc EXCEPT ![d] = Upto(@, i - 1) \o After(@, i)]
  /\ UNCHANGED <<launcher, gitignore, mine>>

ChangeLauncher ==
  /\ launcher' \in {0, Edited}
  /\ UNCHANGED <<doc, gitignore, mine>>

ChangeIgnore ==
  /\ gitignore' = {"/.worktrees/"}
  /\ UNCHANGED <<doc, launcher, mine>>

UserEdits ==
  /\ edits < MaxEdits /\ edits' = edits + 1
  /\ \/ \E d \in Docs : AddLine(d) \/ RemoveMarker(d)
     \/ ChangeLauncher
     \/ ChangeIgnore
  /\ touched' = {"files", "ignore"}
  /\ UNCHANGED <<retired, exclude, refresh>>

ProjectStep ==
  /\ \/ \E u \in Updaters :
          \/ StartRefresh(u) \/ WritePolicy(u) \/ WriteLauncher(u) \/ WriteIgnore(u)
          \/ Verify(u) \/ Doctor(u)
     \/ UserEdits
  /\ UNCHANGED skillVars

\* Whatever replaces the skill makes the comparison with it obsolete.
Install ==
  /\ SkillStep
  /\ touched' = IF skill' = skill THEN touched ELSE touched \cup {"files"}
  /\ UNCHANGED <<doc, launcher, retired, gitignore, exclude, refresh, edits, mine>>

ProjectNext == Install \/ ProjectStep
ProjectSpec == ProjectInit /\ [][ProjectNext]_refreshVars

-----------------------------------------------------------------------------
\* "User-owned headers and footers remain intact" (install_or_update_claude): every
\* line the user wrote outside the block is there once and in its place, whatever
\* refreshes ran and whichever marker the user removed.
UserLinesSurvive == \A d \in Docs : doc[d] # Absent => Own(doc[d]) = mine[d]

\* The doctor, a second implementation of what a project needs, finds nothing to
\* complain of in a project that the installer has just reported as refreshed, unless
\* the user or another updater changed something since.
DoctorAgrees ==
  (touched = {} /\ \E u \in Updaters : refresh[u].at \in {"ok", "ready"})
    => DoctorFindings = {}
=============================================================================
