SPECIFICATION RunnersSpec
CONSTANTS
  MaxIterations = 3
  MaxDamage = 2
  N = 4
  Placeholder = Placeholder
  head = head
  other = other
  Plans <- MCPlans
  Broad <- MCBroad
  HeadCommit = head
  MaxConcurrency = 2
INVARIANTS
  
  ResumePointWasReached
  ScopesAreDisjoint
  PrerequisitesHold
 
CHECK_DEADLOCK FALSE
