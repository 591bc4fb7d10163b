SPECIFICATION Spec
CONSTANTS
  risk = risk
  trades = trades
  v1 = v1
  v2 = v2
  bad = bad
  Unset = Unset
  Fields <- SmallFields
  ValidValues <- TwoValues
  Baselines <- AnyBaseline
  Edits <- AnyBaseline
  InvalidValues <- OneBadValue
  Setters <- SmallSetters
  Bot = "bot"
  Worker = "worker"
  Faults = {"delete"}
  MaxClock = 4
  MaxCrashes = 0
SYMMETRY ValueSymmetry
CHECK_DEADLOCK FALSE
PROPERTIES
  WritesOnlyThePatch
