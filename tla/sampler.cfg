SPECIFICATION Spec
CONSTANTS
  a = a
  b = b
  c = c
  Requests = {a, b, c}
  NoRequest = none
  MinPs = {0, 1, 2}
  Setups <- MCSetups
  MaxRows = 3
  MaxSteps = 2
INVARIANTS UnmovedKeepMinP GuidedOnceByOwn SampledAsAsked FilteredByOwnMinP
CHECK_DEADLOCK FALSE
