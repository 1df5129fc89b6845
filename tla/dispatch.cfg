SPECIFICATION ExportSpec
CONSTANTS
  Exporter = exporter
  lease = lease
  rower = rower
  deep = deep
  events = events
  p1 = p1
  p2 = p2
  p3 = p3
  None = none
  Consumers <- MCConsumers
  Flows <- MCFlows
  Subs <- MCSubs
  PathOf <- MCPaths
  Batches <- MCBatches
  Runners = {TRUE, FALSE}
  PythonForward = {FALSE}
  Faulty = {lease}
  MaxSteps = 2
  MaxChanges = 2
  Async = TRUE
  ToCpu = TRUE
  MaxQueue = 2
  Interval = 1
  Stride = 1
  RowLimit = 3
INVARIANTS ServesDueFlows BundlesAreConsistent StepEndFollowsBundles LayerPostOnce CallsRegisteredOnly ExportAccounted ExportedInOrder
PROPERTY SynchronizeCompletes
CHECK_DEADLOCK FALSE
