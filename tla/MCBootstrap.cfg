CONSTANTS
  Comp <- MCComp
  NoComp = NoComp
  Absent = Absent
  Repos <- MCRepos
  MaxDeps = 2
SPECIFICATION FairSpec
INVARIANTS
  TypeOK
  DeclaredEdgesHold
  CycleIsDeadlock
  NeverStuck
  NoFailedApply
PROPERTY CleanConverges
CHECK_DEADLOCK FALSE
