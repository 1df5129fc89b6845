SPECIFICATION Spec
CONSTANTS
  Prompts = {p1, p2}
  NoPrompt = none
  ScratchRows = 3
  Slots = 2
  Backends = {"post_filter_exact"}
  Lanes = {FALSE}
  MixedSteps = TRUE
  EmptyCalls = FALSE
  SideStream = FALSE
  Replayed = FALSE
  PackedAtLeast = 0
  MaxRows = 3
  MaxSteps = 2
  MaxConfigs = 0
INVARIANT TapsStayInRange
SYMMETRY Symmetry
CHECK_DEADLOCK FALSE
