SPECIFICATION FairSpec
CONSTANTS
  Comp = {1, 2, 3}
  NoComp = NoComp
  Absent = Absent
  NoName = NoName
  Key <- Keys
  Repos <- MCRepos
  RuntimeLabels <- Labelled
  Hidden = TRUE
CHECK_DEADLOCK FALSE
INVARIANT NoGateIsHidden
