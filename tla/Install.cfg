SPECIFICATION ProjectSpec
CONSTANTS
  Updaters = {u1, u2}
  Files <- MCFiles
  Package <- MCPackage
  Required <- MCFiles
  Absent = Absent
  NoBlock = NoBlock
  MaxVersion = 2
  OldDocs <- MCOldDocs
  MaxEdits = 1
SYMMETRY SymmetryOfUpdaters
INVARIANTS
  SkillIsRecoverable
  UserLinesSurvive
  
CHECK_DEADLOCK FALSE
