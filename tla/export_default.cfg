SPECIFICATION ExportSpec
CONSTANTS
  Exporter = exporter
  lease = lease
  rower = rower
  deep = deep
  events = events
  p1 = p1
  p2 = p2
  p3 = p3
  None = none
  Consumers <- OnlyExporter
  Flows <- MCFlows
  Subs <- MCSubs
  PathOf <- MCPaths
  Batches <- MCBatches
  Runners = {TRUE, FALSE}
  PythonForward = {FALSE}
  Faulty = {}
  MaxSteps = 2
  MaxChanges = 2
  Async = TRUE
  ToCpu = TRUE
  MaxQueue = 2
  Interval = 0
  Stride = 2
  RowLimit = 1
INVARIANT NoStepIsRefused
CHECK_DEADLOCK FALSE
