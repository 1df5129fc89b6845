SPECIFICATION Spec
CONSTANTS
  Prompts = {p1, p2}
  NoPrompt = none
  ScratchRows = 3
  Slots = 2
  Backends = {"post_filter_exact"}
  Lanes = {FALSE}
  MixedSteps = TRUE
  EmptyCalls = FALSE
  SideStream = TRUE
  Replayed = FALSE
  PackedAtLeast = 8
  MaxRows = 3
  MaxSteps = 2
  MaxConfigs = 1
INVARIANTS DeliveredRowsAreCurrent GuidedByOwnPrompt GuidesEveryDecodeRow
PROPERTY DeliversEveryDecodeRow
SYMMETRY Symmetry
CHECK_DEADLOCK FALSE
