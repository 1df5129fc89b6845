SPECIFICATION Spec
CONSTANTS
  p1 = p1
  p2 = p2
  Prompts = {p1, p2}
  PipelineSlots = 2
  MaxRows = 2
  MinRows = 2
  MaxWait = 2
  Configs <- MCConfigs
  MaxConfigs = 1
SYMMETRY Symmetry
INVARIANTS TrainsTheBatch CapturesAreCurrent SharedGradientsHeld StartsFromTemplate FitsOwnRows
