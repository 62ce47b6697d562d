CONSTANTS
  root = root  a = a  b = b  z = z  s = s  d = d
  Comp <- MCComp
  Root = root
  Src = {s}
  Here = Here
  Data = {d}
  None = None
  Repos <- MCRepos
SPECIFICATION FairSpec
INVARIANTS
  LevelsAreDistances
  EarlierLevelsAreVisible
  EarlierLevelsAreFinal
PROPERTY Terminates
CHECK_DEADLOCK FALSE
