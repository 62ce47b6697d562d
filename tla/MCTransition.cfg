CONSTANTS
  root = root  p = p  q = q  c = c  x = x  y = y
  Gaps = FALSE
  SpecsFirst = TRUE
  None = None
  Root = root
  Comp <- MCComp
  Object <- MCObject
  Merges <- MCMerges
SPECIFICATION FairSpec
PROPERTIES
  NothingIsLostSilently
  SettlesAsReported
INVARIANT StaleReadsAreReported
CHECK_DEADLOCK FALSE
