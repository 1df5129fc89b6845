SPECIFICATION Spec
CONSTANTS
  a = a
  b = b
  c = c
  Requests = {a, b, c}
  NoRequest = none
  MinPs = {0, 1, 2}
  Setups <- MCMixedDense
  MaxRows = 3
  MaxSteps = 2
INVARIANT GuidedOnceByOwn
CHECK_DEADLOCK FALSE
