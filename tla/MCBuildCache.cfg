CONSTANTS
  HiddenKustomizations = FALSE
  TypeChanges = FALSE
  Path <- MCPath
  K = "kustomization.yaml"
  Yaml = {"kustomization.yaml", "m.yaml"}
  o1 = o1  o2 = o2  o3 = o3  o4 = o4  o5 = o5  o6 = o6  o7 = o7
  Object = {o1, o2, o3, o4, o5, o6, o7}
  Remote = Remote
  Commit <- MCCommit
  Tree <- MCTree
  Checkouts <- MCCheckouts
  Builds <- MCBuilds
  Charts <- MCCharts
SPECIFICATION Spec
INVARIANT ReusedIsFresh
CHECK_DEADLOCK FALSE
