SPECIFICATION Spec
CONSTANTS
  Slots = 2
  Modes = {"dual"}
  TwoCalls = FALSE
  Outgrows = {FALSE}
  MaxSteps = 4
  MaxStatsBuffers = 2
INVARIANTS TypeOK TrainsItsOwnRows NoDataRace PipelineInv
PROPERTIES StatsReadIsComplete ImplementsTrainingQueue
CHECK_DEADLOCK FALSE
