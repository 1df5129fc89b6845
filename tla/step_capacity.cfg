SPECIFICATION Spec
CONSTANTS
  Prompts = {p1, p2}
  NoPrompt = none
  ScratchRows = 2
  Slots = 1
  Backends = {"post_filter_exact", "pre_filter_dense"}
  Lanes = {TRUE, FALSE}
  MixedSteps = FALSE
  EmptyCalls = TRUE
  SideStream = TRUE
  Replayed = FALSE
  PackedAtLeast = 0
  MaxRows = 3
  MaxSteps = 3
  MaxConfigs = 0
INVARIANTS TypeOK DeliveredRowsAreCurrent GuidedByOwnInTime
PROPERTY DeliversEveryDecodeRow
SYMMETRY Symmetry
CHECK_DEADLOCK FALSE
