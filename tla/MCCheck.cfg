CONSTANTS
  one = one  two = two  root = root  p = p  x = x  y = y
  Waiting = TRUE
  NoComponent = NoComponent
  NoState = NoState
  Entrypoint = {one, two}
  Cases <- MCCases
SPECIFICATION FairCheckSpec
INVARIANTS
  ExitTellsTheTruth
  BaseOutlivesItsReaders
  EveryFailureIsAccountedFor
PROPERTY CleansUp
CHECK_DEADLOCK FALSE
