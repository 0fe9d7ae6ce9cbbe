----------------------------- MODULE SkillInstall -----------------------------
(***************************************************************************)
(* install_for_codex.py: an updater copies a source checkout, which may be *)
(* pulled meanwhile, file by file into a staging tree, moves the installed *)
(* skill to a backup directory and the staging tree in its place.  There   *)
(* is no lock between updaters.  A killed one is one that takes no further *)
(* step, which nothing here forbids.                                       *)
(***************************************************************************)
EXTENDS Naturals, Sequences

CONSTANTS Updaters,
          Files, Package,   \* the package's files, in the order they are copied
          Required,         \* what validate_skill_tree asks for
          Absent,
          MaxVersion        \* bound: versions of the source

Trees == [Files -> Nat]                   \* the version of each file, 0: not there
Skills == [tree : Trees, from : Nat]

ASSUME SkillAssumption ==
  /\ Absent \notin Skills
  /\ Package \in Seq(Files) /\ \A f \in Files : \E i \in DOMAIN Package : Package[i] = f
  /\ Required \subseteq Files /\ MaxVersion \in Nat \ {0}

Missing == [f \in Files |-> 0]
Complete(tree) == \A f \in Required : tree[f] # 0

VARIABLES
  source,    \* the checkout: [tree, head]
  skill,     \* the installed skill or Absent
  backup,    \* of each updater: what it moved out of the way
  updater,   \* where each updater is, and its staging tree
  installed  \* history: there has been an installed skill

skillVars == <<source, skill, backup, updater, installed>>

At(u) == updater[u].at
Goto(u, at) == updater' = [updater EXCEPT ![u].at = at]

SkillInit ==
  /\ source = [tree |-> [f \in Files |-> 1], head |-> 1]
  /\ skill \in {Absent, [tree |-> [f \in Files |-> 1], from |-> 1]}
  /\ backup = [u \in Updaters |-> Absent]
  /\ updater = [u \in Updaters |->
                  [at |-> "new", todo |-> <<>>, tree |-> Missing, from |-> 0, saw |-> FALSE]]
  /\ installed = (skill # Absent)

-----------------------------------------------------------------------------
\* git pull in the checkout: all files of the next version, unless one is gone.
Pull ==
  /\ source.head < MaxVersion
  /\ \E gone \in {{}} \cup {{f} : f \in Required} :
       source' = [tree |-> [f \in Files |-> IF f \in gone THEN 0 ELSE source.head + 1],
                  head |-> source.head + 1]
  /\ UNCHANGED <<skill, backup, updater, installed>>

\* copy_skill: a skill that already equals the source only gets new provenance.
StartUpdate(u) ==
  /\ At(u) = "new"
  /\ updater' = [updater EXCEPT
       ![u].at = IF skill # Absent /\ skill.tree = source.tree THEN "unchanged" ELSE "copy",
       ![u].todo = Package]
  /\ UNCHANGED <<source, skill, backup, installed>>

\* write_install_provenance into the installed skill; it fails when that is moved away.
RewriteProvenance(u) ==
  /\ At(u) = "unchanged"
  /\ IF skill = Absent
     THEN Goto(u, "failed") /\ skill' = skill
     ELSE Goto(u, "installed") /\ skill' = [skill EXCEPT !.from = source.head]
  /\ UNCHANGED <<source, backup, installed>>

CopyFile(u) ==
  /\ At(u) = "copy" /\ updater[u].todo # <<>>
  /\ LET f == Head(updater[u].todo) IN
       updater' = [updater EXCEPT ![u].todo = Tail(@), ![u].tree[f] = source.tree[f]]
  /\ UNCHANGED <<source, skill, backup, installed>>

\* validate_skill_tree
Valid(tree) == Complete(tree)

\* Provenance is written to the staging tree, which is validated; then the installed
\* skill is looked for.
Stage(u) ==
  /\ At(u) = "copy" /\ updater[u].todo = <<>>
  /\ updater' = [updater EXCEPT
       ![u].at = IF Valid(updater[u].tree) THEN "staged" ELSE "cleanup",
       ![u].from = source.head,
       ![u].saw = (skill # Absent)]
  /\ UNCHANGED <<source, skill, backup, installed>>

\* os.replace(dest, backup), which fails when another updater was faster.
MoveAway(u) ==
  /\ At(u) = "staged"
  /\ IF ~updater[u].saw
     THEN Goto(u, "activate") /\ UNCHANGED <<skill, backup>>
     ELSE IF skill = Absent
     THEN Goto(u, "cleanup") /\ UNCHANGED <<skill, backup>>
     ELSE /\ backup' = [backup EXCEPT ![u] = skill]
          /\ skill' = Absent
          /\ Goto(u, "activate")
  /\ UNCHANGED <<source, installed>>

\* os.replace(staging, dest): impossible onto another updater's skill.
Activate(u) ==
  /\ At(u) = "activate" /\ skill = Absent
  /\ skill' = [tree |-> updater[u].tree, from |-> updater[u].from]
  /\ installed' = TRUE
  /\ Goto(u, "activated")
  /\ UNCHANGED <<source, backup>>

\* The move fails, also for a reason of the file system.
ActivateFails(u) ==
  /\ At(u) = "activate"
  /\ Goto(u, "rollback")
  /\ UNCHANGED <<source, skill, backup, installed>>

\* The backup goes back if nothing took its place, unless that fails as well.
Rollback(u) ==
  /\ At(u) = "rollback"
  /\ \/ /\ backup[u] # Absent /\ skill = Absent
        /\ skill' = backup[u]
        /\ backup' = [backup EXCEPT ![u] = Absent]
     \/ UNCHANGED <<skill, backup>>
  /\ Goto(u, "cleanup")
  /\ UNCHANGED <<source, installed>>

\* A variant: the backup directory is removed whatever became of it.
AlwaysConsumed(u) == TRUE

\* backup_consumed, of a backup that is still there.
BackupConsumed(u) == At(u) = "activated"

\* The finally clause: staging is removed; the backup is kept unless the new skill was activated.
Cleanup(u) ==
  /\ At(u) \in {"activated", "cleanup"}
  /\ backup' = IF BackupConsumed(u) THEN [backup EXCEPT ![u] = Absent] ELSE backup
  /\ updater' = [updater EXCEPT
       ![u] = [at |-> IF At(u) = "activated" THEN "installed" ELSE "failed",
               todo |-> <<>>, tree |-> Missing, from |-> 0, saw |-> FALSE]]
  /\ UNCHANGED <<source, skill, installed>>

SkillStep ==
  \/ Pull
  \/ \E u \in Updaters :
       \/ StartUpdate(u) \/ RewriteProvenance(u) \/ CopyFile(u) \/ Stage(u)
       \/ MoveAway(u) \/ Activate(u) \/ ActivateFails(u) \/ Rollback(u) \/ Cleanup(u)

SkillSpec == SkillInit /\ [][SkillStep]_skillVars

-----------------------------------------------------------------------------
\* copy_skill promises to "transactionally replace the installed skill from a
\* validated staging tree": whoever is killed, whatever move fails and however two
\* updaters interleave, a complete skill is installed or waits in a backup directory
\* once there has been one.
SkillIsRecoverable ==
  installed =>
    \/ skill # Absent /\ Complete(skill.tree)
    \/ \E u \in Updaters : backup[u] # Absent /\ Complete(backup[u].tree)
=============================================================================
