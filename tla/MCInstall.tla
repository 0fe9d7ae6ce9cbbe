------------------------------ MODULE MCInstall ------------------------------
(***************************************************************************)
(* TLC instance of ProjectRefresh.  A project has no CLAUDE.md, one of its *)
(* own, the one of an older release with the import, or the current one.   *)
(***************************************************************************)
EXTENDS ProjectRefresh, TLC

MCFiles == {"policy", "launcher"}
MCPackage == <<"policy", "launcher">>
MCOldDocs == {Absent, <<Title, Text>>, <<Title, Import, Begin, Block(1), End>>}
SymmetryOfUpdaters == Permutations(Updaters)
=============================================================================
