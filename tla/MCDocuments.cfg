CONSTANTS
  chart = chart  range = range  core = core  apps = apps  old = old
  v1 = v1  v2 = v2  beta = beta  digest = digest  tag = tag  image = image
  SameFile = FALSE
  None = None
  Chart = {chart, range}
  Schema = {core, apps, old}
  Contract = {digest, tag}
  Image = {image}
  Core = core
  ApiV1 = v1
  AggV2 = v2
  AggBeta = beta
  Pinned = {chart, core, apps, old, v1, v2, beta, digest}
  Run <- MCRun
  Jobs <- MCJobs
  Faults = {"kill", "refuse"}
SPECIFICATION Spec
INVARIANTS
  ChartsAreWhole
  ContractsAreWhole
  SchemasAreTheReleases
  WhatWasFetchedStays
CHECK_DEADLOCK FALSE
