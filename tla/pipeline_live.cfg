SPECIFICATION FairSpec
CONSTANTS
  Slots = 1
  Modes = {"dual", "single", "serial"}
  TwoCalls = TRUE
  Outgrows = {FALSE}
  MaxSteps = 2
  MaxStatsBuffers = 2
INVARIANT NoDataRace
PROPERTIES StagedIsSettled
CHECK_DEADLOCK FALSE
