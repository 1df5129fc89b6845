SPECIFICATION Spec
CONSTANTS
  Prompts = {0, 1, 2}
  Capacity = 2
  LookupSize = 4
  MaxRows = 3
  MaxConfigs = 2
INVARIANTS TypeOK SlotMapsAreInverse LookupAgreesWithMap PredictsWithOwnSlot EveryLossHasItsEntry OnePromptPerSlot DenseLookupAvailable
CHECK_DEADLOCK FALSE
